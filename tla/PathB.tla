------------------------------- MODULE PathB -------------------------------
(***************************************************************************)
(* Path B of streamboxsrc (gst-plugin-vfmcap/gst_streambox_src.c): frames  *)
(* of vdin1 are passed on as they are (8 bit) or converted by the GPU one  *)
(* frame ahead of their delivery (10 bit).  Five actors share the element: *)
(* the streaming thread in create_path_b, the application that flushes,    *)
(* stops and starts it, downstream returning buffers, the GPU and vdin1.   *)
(*                                                                         *)
(* A call of create_path_b is cut where it polls, dequeues or waits for a  *)
(* fence; what it does between two of these touches nothing the other      *)
(* actors change except through the pool lock and QBUF.                    *)
(***************************************************************************)
EXTENDS Integers, Sequences

CONSTANTS
  Buf,           \* indexes of the vdin1 buffers
  None,          \* no buffer, no job
  NOut,          \* P010_OUT_POOL_SIZE
  Plans,         \* bound: the sessions, each by the vdin1_10bit that its
                 \* vdin1_set_format finds
  MaxTimeouts,   \* max_timeouts: polls of one second before giving up
  PrimeTimeouts, \* the same for the second frame of the priming call
  Allowed,       \* which of PathBBehaviours happen
  MaxEvents      \* bound: signal events of a session

(***************************************************************************)
(*   vk_fail   recording or submitting GPU work may fail                   *)
(*   gpu_hang  a fence may still be unsignalled after five seconds         *)
(*   dup_fail  dup or gst_dmabuf_allocator_alloc may fail                  *)
(*   hoard     downstream keeps buffers over a stop of the element         *)
(*   gfmt      VIDIOC_G_FMT of vdin1 may report another format             *)
(*   dq_fail   VIDIOC_DQBUF may fail with an errno that is not EAGAIN      *)
(***************************************************************************)
PathBBehaviours == {"vk_fail", "gpu_hang", "dup_fail", "hoard", "gfmt",
                    "dq_fail"}

OutIdx == 0 .. NOut - 1
Job    == [in : Buf, out : OutIdx]

ASSUME PathBAssumption ==
  /\ Buf # {} /\ NOut \in Nat \ {0} /\ Buf \cap OutIdx = {}
  /\ None \notin Buf \cup OutIdx /\ None \notin Job
  /\ Plans \subseteq Seq(BOOLEAN)
  /\ MaxTimeouts \in Nat \ {0} /\ PrimeTimeouts \in Nat \ {0}
  /\ PrimeTimeouts <= MaxTimeouts
  /\ Allowed \subseteq PathBBehaviours
  /\ MaxEvents \in Nat

VARIABLES
  bst,       \* vb2 state of each vdin1 buffer: "none", "deq" or "queued"
  doneq,     \* the queued buffers that are filled, oldest first
  devOn,     \* vdin1 streams
  tag,       \* content of each vdin1 buffer: 0, or one of two marked frames
  marks,     \* how many frames are marked so far
  events,    \* kinds of the events queued at the signal monitor
  nev,       \* signal events so far
  chg,       \* a loss or change was signalled and not acted upon
  task,      \* the element: "off", "running", "stopping", "stopped", "tearing"
  plan, sessions, streaming, monitor, flushing,
  vdin1_10bit,
  pipe,      \* the flush pipe is readable
  free, poolUp, otag,                     \* the P010 pool, its contents
  gpu,       \* the job each of the two slots runs, or None
  vk_slot,   \* the slot of the next job
  vk_async,  \* vk_async_vdin1_idx and vk_async_out_pool_idx if pending, or None
  pc,        \* where create is: "idle" outside a call
  idx, out,  \* the buffer it has dequeued, its output; None outside their use
  tc,        \* its poll timeouts
  flow,      \* what it returned
  held,      \* buffers downstream holds: indexes of Buf or of the pool
  stale,     \* the same, from an earlier session
  seen       \* the marked frames delivered, in order

drv   == <<bst, doneq, devOn, tag, marks>>
mon   == <<events, nev, chg>>
elem  == <<task, plan, sessions, streaming, monitor, flushing, vdin1_10bit, pipe>>
pool  == <<free, poolUp, otag>>
async == <<vk_slot, vk_async>>
call  == <<pc, idx, out, tc, flow>>
down  == <<held, stale, seen>>
vars  == <<drv, mon, elem, pool, gpu, async, call, down>>

Actions == {"changed", "lost"}        \* events that end the session
vk_async_pending == vk_async # None

-----------------------------------------------------------------------------
(* vdin1 and its signal monitor.                                           *)

(* VIDIOC_QBUF of the buffers S: a buffer with the driver has no content.  *)
Qbuf(S) ==
  /\ bst' = [i \in Buf |-> IF i \in S /\ bst[i] = "deq" THEN "queued" ELSE bst[i]]
  /\ tag' = [i \in Buf |-> IF i \in S THEN 0 ELSE tag[i]]

DriverFill(i) ==
  /\ devOn /\ bst[i] = "queued" /\ \A k \in DOMAIN doneq : doneq[k] # i
  /\ doneq' = Append(doneq, i)
  /\ \/ tag' = [tag EXCEPT ![i] = 0] /\ marks' = marks
     \/ marks < 2 /\ tag' = [tag EXCEPT ![i] = marks + 1] /\ marks' = marks + 1
  /\ UNCHANGED <<bst, devOn, mon, elem, pool, gpu, async, call, down>>

SignalEvent(e) ==
  /\ monitor /\ nev < MaxEvents
  /\ events' = events \cup {e} /\ nev' = nev + 1
  /\ chg' = (chg \/ e \in Actions)
  /\ UNCHANGED <<drv, elem, pool, gpu, async, call, down>>

(* The GPU reads its input and writes its output until the job is done.    *)
GpuDone(s) ==
  /\ gpu[s] # None
  /\ gpu' = [gpu EXCEPT ![s] = None]
  /\ otag' = [otag EXCEPT ![gpu[s].out] = tag[gpu[s].in]]
  /\ UNCHANGED <<drv, mon, elem, free, poolUp, async, call, down>>

-----------------------------------------------------------------------------
(* The P010 pool and the Vulkan pipeline.                                  *)

FreeOut == {o \in OutIdx : free[o]}
p010_pool_acquire == CHOOSE o \in FreeOut : \A p \in FreeOut : o <= p

vdin1_vk_submit_async(i, o) ==
  gpu' = [gpu EXCEPT ![vk_slot] = [in |-> i, out |-> o]]

(* The fence of slot s is signalled, or five seconds have passed.          *)
vdin1_vk_wait_async(s, ok) ==
  IF ok THEN gpu[s] = None ELSE "gpu_hang" \in Allowed /\ gpu[s] # None

prev_slot == 1 - vk_slot

(* Drain of the job in flight: its result is not looked at.                *)
DrainWait == vk_async_pending =>
  vdin1_vk_wait_async(prev_slot, TRUE) \/ vdin1_vk_wait_async(prev_slot, FALSE)
DrainBufs == IF vk_async_pending THEN {vk_async.in} ELSE {}
DrainFree == IF vk_async_pending THEN [free EXCEPT ![vk_async.out] = TRUE]
             ELSE free

-----------------------------------------------------------------------------
(* Start, flush, stop.  GstBaseSrc calls unlock at any time, unlock_stop   *)
(* once the streaming thread is out of create, and stop after that.        *)

gst_streambox_src_start ==
  /\ task = "off" /\ sessions < Len(plan)
  /\ sessions' = sessions + 1 /\ plan' = plan /\ flushing' = FALSE
  /\ vdin1_10bit' = plan[sessions']
  /\ \/ /\ task' = "running" /\ streaming' = TRUE /\ monitor' \in BOOLEAN
        /\ bst' = [i \in Buf |-> "queued"] /\ devOn' = TRUE
        /\ free' = [o \in OutIdx |-> vdin1_10bit'] /\ poolUp' = vdin1_10bit'
        /\ marks' = 0 /\ seen' = <<>> /\ nev' = 0 /\ flow' = "ok"
        /\ UNCHANGED <<doneq, tag, events, chg, pipe, otag, gpu, async, pc, idx,
                       out, tc, held, stale>>
     \/ /\ flow' = "start_failed"
        /\ UNCHANGED <<task, streaming, monitor, drv, mon, pipe, pool, gpu,
                       async, pc, idx, out, tc, down>>

gst_streambox_src_unlock ==
  /\ task = "running"
  /\ task' = "stopping" /\ flushing' = TRUE /\ pipe' = TRUE
  /\ UNCHANGED <<drv, mon, plan, sessions, streaming, monitor, vdin1_10bit, pool, gpu, async,
                 call, down>>

gst_streambox_src_unlock_stop ==
  /\ task = "stopping" /\ pc = "idle"
  /\ task' = "stopped" /\ flushing' = FALSE /\ pipe' = FALSE
  /\ UNCHANGED <<drv, mon, plan, sessions, streaming, monitor, vdin1_10bit, pool, gpu, async,
                 call, down>>

(* The end of a flush: the streaming thread runs again.                    *)
Resume ==
  /\ task = "stopped"
  /\ task' = "running" /\ flow' = "ok"
  /\ UNCHANGED <<drv, mon, plan, sessions, streaming, monitor, flushing, vdin1_10bit, pipe, pool,
                 gpu, async, pc, idx, out, tc, down>>

(* stop_path_b, up to vkDeviceWaitIdle: drain and destroy the pool.        *)
StopDrain ==
  /\ task = "stopped"
  /\ DrainWait
  /\ Qbuf(DrainBufs)
  /\ vk_async' = None
  /\ poolUp' = FALSE /\ free' = [o \in OutIdx |-> FALSE]
  /\ task' = "tearing"
  /\ UNCHANGED <<doneq, devOn, marks, mon, plan, sessions, streaming, monitor,
                 flushing, vdin1_10bit, pipe, otag, gpu, vk_slot, call, down>>

stop_path_b ==
  /\ task = "tearing"
  /\ \A s \in {0, 1} : gpu[s] = None
  /\ "hoard" \in Allowed \/ held = {}
  /\ bst' = [i \in Buf |-> "none"] /\ doneq' = <<>> /\ devOn' = FALSE
  /\ streaming' = FALSE /\ monitor' = FALSE /\ events' = {} /\ chg' = FALSE
  /\ task' = "off"
  /\ held' = {} /\ stale' = stale \cup held
  /\ UNCHANGED <<tag, marks, nev, plan, sessions, flushing, vdin1_10bit, pipe, pool, gpu, async,
                 call, seen>>

-----------------------------------------------------------------------------
(* create_path_b: polling for a frame.                                     *)

Return(f) ==
  pc' = "idle" /\ flow' = f /\ idx' = None /\ out' = None /\ tc' = 0

gst_streambox_src_create ==
  /\ task \in {"running", "stopping"} /\ pc = "idle" /\ flow = "ok"
  /\ \/ flushing /\ Return("flushing")
     \/ ~flushing /\ pc' = "poll" /\ UNCHANGED <<idx, out, tc, flow>>
     \/ ~flushing /\ "gfmt" \in Allowed /\ pc' = "exit" /\ UNCHANGED <<idx, out, tc, flow>>
  /\ UNCHANGED <<drv, mon, elem, pool, gpu, async, down>>

(* handle_signal_event drains every event; a change outranks a loss.       *)
handle_signal_event == events' = {} /\ UNCHANGED <<nev, chg>>

PollFlush ==
  /\ pc = "poll" /\ (flushing \/ pipe)
  /\ Return("flushing")
  /\ UNCHANGED <<drv, mon, elem, pool, gpu, async, down>>

(* Faulty variant: the events are drained and capturing goes on.           *)
PollSignalIgnored ==
  /\ pc = "poll" /\ ~flushing /\ ~pipe /\ events # {}
  /\ handle_signal_event
  /\ pc' = "dqbuf"
  /\ UNCHANGED <<drv, elem, pool, gpu, async, idx, out, tc, flow, down>>

PollSignal ==
  /\ pc = "poll" /\ ~flushing /\ ~pipe /\ events # {}
  /\ handle_signal_event
  /\ pc' = IF events \cap Actions # {} THEN "exit" ELSE "dqbuf"
  /\ UNCHANGED <<drv, elem, pool, gpu, async, idx, out, tc, flow, down>>

(* A queue that does not stream is ready with POLLERR.                     *)
FrameReady == doneq # <<>> \/ ~devOn

PollReady ==
  /\ pc = "poll" /\ ~flushing /\ ~pipe /\ events = {} /\ FrameReady
  /\ pc' = "dqbuf"
  /\ UNCHANGED <<drv, mon, elem, pool, gpu, async, idx, out, tc, flow, down>>

PollTimeout ==
  /\ pc = "poll" /\ ~flushing /\ ~pipe /\ events = {} /\ ~FrameReady
  /\ tc' = tc + 1
  /\ pc' = IF tc' >= MaxTimeouts THEN "exit" ELSE "poll"
  /\ UNCHANGED <<drv, mon, elem, pool, gpu, async, idx, out, flow, down>>

clean_exit ==
  /\ pc = "exit"
  /\ DrainWait
  /\ bst' = [i \in Buf |-> "deq"] /\ doneq' = <<>> /\ devOn' = FALSE
  /\ free' = DrainFree
  /\ vk_async' = None
  /\ chg' = FALSE
  /\ Return("eos")
  /\ UNCHANGED <<tag, marks, events, nev, elem, poolUp, otag, gpu, vk_slot,
                 down>>

do_dqbuf ==
  /\ pc = "dqbuf"
  /\ \/ /\ devOn /\ doneq # <<>>
        /\ idx' = Head(doneq) /\ doneq' = Tail(doneq)
        /\ bst' = [bst EXCEPT ![Head(doneq)] = "deq"]
        /\ pc' = IF ~vdin1_10bit THEN "wrap" ELSE IF vk_async_pending THEN "await" ELSE "prime"
        /\ UNCHANGED <<out, tc, flow>>
     \/ /\ devOn /\ doneq = <<>>
        /\ pc' = "poll"
        /\ UNCHANGED <<idx, doneq, bst, out, tc, flow>>
     \/ /\ ~devOn \/ "dq_fail" \in Allowed
        /\ Return("error")
        /\ UNCHANGED <<doneq, bst>>
  /\ UNCHANGED <<devOn, tag, marks, mon, elem, pool, gpu, async, down>>

-----------------------------------------------------------------------------
(* Delivery: a buffer is handed downstream with its release callback.      *)

Deliver(x, t) ==
  /\ held' = held \cup {x} /\ stale' = stale
  /\ seen' = IF t = 0 THEN seen ELSE Append(seen, t)

(* Faulty variant: the error path without the QBUF.                        *)
QbufReturnForgotten == Return("error") /\ UNCHANGED <<bst, tag>>

(* The error path: the dequeued buffer goes back at once.                  *)
qbuf_return == Qbuf({idx}) /\ Return("error")

(* 8 bit: the dequeued buffer itself.                                      *)
Deliver8 ==
  /\ pc = "wrap"
  /\ \/ /\ Deliver(idx, tag[idx]) /\ Return("ok") /\ UNCHANGED <<bst, tag>>
     \/ /\ "dup_fail" \in Allowed
        /\ qbuf_return /\ UNCHANGED down
  /\ UNCHANGED <<doneq, devOn, marks, mon, elem, pool, gpu, async>>

(* 10 bit, nothing in flight: convert this frame and wait for it ...       *)
PrimeSubmit ==
  /\ pc = "prime" /\ FreeOut # {}
  /\ out' = p010_pool_acquire
  /\ free' = [free EXCEPT ![out'] = FALSE]
  /\ vdin1_vk_submit_async(idx, out')
  /\ pc' = "pwait"
  /\ UNCHANGED <<drv, mon, elem, poolUp, otag, async, idx, tc, flow, down>>

PrimeFail ==
  /\ pc = "prime"
  /\ FreeOut = {} \/ "vk_fail" \in Allowed
  /\ qbuf_return
  /\ UNCHANGED <<doneq, devOn, marks, mon, elem, pool, gpu, async, down>>

PrimeWait ==
  /\ pc = "pwait"
  /\ Qbuf({idx})
  /\ \/ /\ vdin1_vk_wait_async(vk_slot, TRUE)
        /\ pc' = "ppoll" /\ idx' = None /\ tc' = 0 /\ UNCHANGED <<free, out, flow>>
     \/ /\ \/ vdin1_vk_wait_async(vk_slot, FALSE)
           \/ vdin1_vk_wait_async(vk_slot, TRUE) /\ "dup_fail" \in Allowed
        /\ free' = [free EXCEPT ![out] = TRUE]
        /\ Return("error")
  /\ UNCHANGED <<doneq, devOn, marks, mon, elem, poolUp, otag, gpu, async, down>>

(* ... then look for a second frame, and return the first in any case.     *)
PrimeReturn == Return("ok") /\ Deliver(out, otag[out])

PrimePollReturn ==
  /\ pc = "ppoll"
  /\ \/ /\ flushing \/ pipe
        /\ UNCHANGED mon
     \/ /\ ~flushing /\ ~pipe /\ events \cap Actions # {}
        /\ handle_signal_event
     \/ /\ ~flushing /\ ~pipe /\ events = {} /\ ~FrameReady
        /\ tc + 1 >= PrimeTimeouts
        /\ UNCHANGED mon
  /\ PrimeReturn
  /\ UNCHANGED <<drv, elem, pool, gpu, async>>

(* Faulty variant: the timeouts of the second poll are not counted.        *)
PrimePollEndless ==
  /\ pc = "ppoll" /\ ~flushing /\ ~pipe
  /\ \/ /\ events # {} /\ events \cap Actions = {}
        /\ handle_signal_event /\ pc' = "pdq"
     \/ /\ events = {}
        /\ pc' = (IF FrameReady THEN "pdq" ELSE "ppoll") /\ UNCHANGED mon
  /\ UNCHANGED <<drv, elem, pool, gpu, async, idx, out, tc, flow, down>>

PrimePoll ==
  /\ pc = "ppoll" /\ ~flushing /\ ~pipe
  /\ \/ /\ events # {} /\ events \cap Actions = {}
        /\ handle_signal_event /\ pc' = "pdq" /\ tc' = tc
     \/ /\ events = {} /\ FrameReady
        /\ pc' = "pdq" /\ tc' = tc /\ UNCHANGED mon
     \/ /\ events = {} /\ ~FrameReady
        /\ tc + 1 < PrimeTimeouts /\ tc' = tc + 1 /\ pc' = pc /\ UNCHANGED mon
  /\ UNCHANGED <<drv, elem, pool, gpu, async, idx, out, flow, down>>

(* Faulty variant: the job is booked but never handed to the GPU queue.    *)
SubmittedUnqueued(i, o) ==
  /\ vk_async' = [in |-> i, out |-> o]
  /\ vk_slot' = 1 - vk_slot
  /\ free' = [free EXCEPT ![o] = FALSE]
  /\ gpu' = gpu

Submitted(i, o) ==
  /\ vdin1_vk_submit_async(i, o)
  /\ vk_async' = [in |-> i, out |-> o]
  /\ vk_slot' = 1 - vk_slot
  /\ free' = [free EXCEPT ![o] = FALSE]

(* Faulty variant: the finished job is not forgotten.                      *)
StillPending == UNCHANGED <<free, gpu, vk_slot, vk_async>>

NotSubmitted ==
  /\ vk_async' = None
  /\ UNCHANGED <<free, gpu, vk_slot>>

CanFail == FreeOut = {} \/ "vk_fail" \in Allowed

PrimeDqbuf ==
  /\ pc = "pdq"
  /\ \/ /\ devOn /\ doneq # <<>>
        /\ doneq' = Tail(doneq)
        /\ \/ /\ FreeOut # {}
              /\ Submitted(Head(doneq), p010_pool_acquire)
              /\ bst' = [bst EXCEPT ![Head(doneq)] = "deq"] /\ tag' = tag
           \/ /\ CanFail
              /\ NotSubmitted
              /\ bst' = bst /\ tag' = [tag EXCEPT ![Head(doneq)] = 0]
        /\ PrimeReturn
     \/ /\ devOn /\ doneq = <<>>
        /\ pc' = "ppoll"
        /\ UNCHANGED <<doneq, bst, tag, free, gpu, async, idx, out, tc, flow, down>>
     \/ /\ "dq_fail" \in Allowed
        /\ PrimeReturn
        /\ UNCHANGED <<doneq, bst, tag, free, gpu, async>>
  /\ UNCHANGED <<devOn, marks, mon, elem, poolUp, otag>>

(* 10 bit, a job in flight: wait for it, return its frame, submit this one *)
AwaitFail ==
  /\ pc = "await"
  /\ \/ vdin1_vk_wait_async(prev_slot, FALSE)
     \/ vdin1_vk_wait_async(prev_slot, TRUE) /\ "dup_fail" \in Allowed
  /\ free' = [free EXCEPT ![vk_async.out] = TRUE]
  /\ Qbuf({vk_async.in, idx})
  /\ vk_async' = None
  /\ Return("error")
  /\ UNCHANGED <<doneq, devOn, marks, mon, elem, poolUp, otag, gpu, vk_slot,
                 down>>

(* Faulty variant: the fence is not waited for.                            *)
AwaitReturnNoWait ==
  /\ pc = "await"
  /\ Deliver(vk_async.out, otag[vk_async.out])
  /\ FreeOut # {}
  /\ Submitted(idx, p010_pool_acquire)
  /\ Qbuf({vk_async.in})
  /\ Return("ok")
  /\ UNCHANGED <<doneq, devOn, marks, mon, elem, poolUp, otag>>

AwaitReturn ==
  /\ pc = "await"
  /\ vdin1_vk_wait_async(prev_slot, TRUE)
  /\ Deliver(vk_async.out, otag[vk_async.out])
  /\ \/ /\ FreeOut # {}
        /\ Submitted(idx, p010_pool_acquire)
        /\ Qbuf({vk_async.in})
     \/ /\ CanFail
        /\ NotSubmitted
        /\ Qbuf({vk_async.in, idx})
  /\ Return("ok")
  /\ UNCHANGED <<doneq, devOn, marks, mon, elem, poolUp, otag>>

-----------------------------------------------------------------------------
(* Downstream unrefs a buffer: path_b_buf_release (8 bit),                 *)
(* p010_buf_release (10 bit).  The callback knows only the index.          *)
GiveBack(x) ==
  IF x \in OutIdx
  THEN /\ free' = IF poolUp THEN [free EXCEPT ![x] = TRUE] ELSE free
       /\ UNCHANGED <<bst, tag>>
  ELSE /\ Qbuf(IF streaming THEN {x} ELSE {})
       /\ free' = free

BufRelease(x) ==
  /\ \/ x \in held /\ held' = held \ {x} /\ stale' = stale
     \/ x \in stale /\ stale' = stale \ {x} /\ held' = held
  /\ GiveBack(x)
  /\ UNCHANGED <<doneq, devOn, marks, mon, elem, poolUp, otag, gpu, async,
                 call, seen>>

-----------------------------------------------------------------------------
Init ==
  /\ bst = [i \in Buf |-> "none"] /\ doneq = <<>> /\ devOn = FALSE
  /\ tag = [i \in Buf |-> 0] /\ marks = 0
  /\ events = {} /\ nev = 0 /\ chg = FALSE
  /\ task = "off" /\ plan \in Plans /\ sessions = 0 /\ streaming = FALSE /\ monitor = FALSE
  /\ flushing = FALSE /\ vdin1_10bit = FALSE /\ pipe = FALSE
  /\ free = [o \in OutIdx |-> FALSE] /\ poolUp = FALSE
  /\ otag = [o \in OutIdx |-> 0]
  /\ gpu = [s \in {0, 1} |-> None]
  /\ vk_slot = 0 /\ vk_async = None
  /\ pc = "idle" /\ idx = None /\ out = None /\ tc = 0 /\ flow = "none"
  /\ held = {} /\ stale = {} /\ seen = <<>>

Create ==
  \/ PollFlush \/ PollSignal \/ PollReady \/ PollTimeout \/ clean_exit
  \/ do_dqbuf \/ Deliver8
  \/ PrimeSubmit \/ PrimeFail \/ PrimeWait \/ PrimePollReturn \/ PrimePoll
  \/ PrimeDqbuf \/ AwaitFail \/ AwaitReturn

Control ==
  \/ gst_streambox_src_start \/ gst_streambox_src_unlock
  \/ gst_streambox_src_unlock_stop \/ Resume \/ StopDrain \/ stop_path_b

Next ==
  \/ \E i \in Buf : DriverFill(i)
  \/ \E e \in {"changed", "lost", "other"} : SignalEvent(e)
  \/ \E s \in {0, 1} : GpuDone(s)
  \/ Control
  \/ gst_streambox_src_create \/ Create
  \/ \E x \in OutIdx \cup Buf : BufRelease(x)

Spec == Init /\ [][Next]_vars

(***************************************************************************)
(* Fairness: GstBaseSrc keeps calling create, a call in progress goes on   *)
(* and the GPU finishes what was submitted.  Neither vdin1 nor downstream  *)
(* nor the application owes anything.                                      *)
(***************************************************************************)
FairSpec ==
  /\ Spec
  /\ WF_vars(gst_streambox_src_create) /\ WF_vars(Create)
  /\ \A s \in {0, 1} : WF_vars(GpuDone(s))

-----------------------------------------------------------------------------
(* Properties.                                                             *)

TypeDriver ==
  /\ bst \in [Buf -> {"none", "deq", "queued"}] /\ doneq \in Seq(Buf)
  /\ devOn \in BOOLEAN /\ tag \in [Buf -> 0..2] /\ marks \in 0..2
  /\ events \subseteq {"changed", "lost", "other"} /\ nev \in 0..MaxEvents
  /\ chg \in BOOLEAN

TypeElement ==
  /\ task \in {"off", "running", "stopping", "stopped", "tearing"}
  /\ plan \in Plans /\ sessions \in 0..Len(plan) /\ streaming \in BOOLEAN /\ monitor \in BOOLEAN
  /\ flushing \in BOOLEAN /\ vdin1_10bit \in BOOLEAN /\ pipe \in BOOLEAN
  /\ free \in [OutIdx -> BOOLEAN] /\ poolUp \in BOOLEAN
  /\ otag \in [OutIdx -> 0..2]

TypeGpu ==
  /\ gpu \in [{0, 1} -> Job \cup {None}]
  /\ vk_slot \in {0, 1} /\ vk_async \in Job \cup {None}

TypeCall ==
  /\ pc \in {"idle", "poll", "dqbuf", "wrap", "exit", "prime", "pwait", "ppoll",
             "pdq", "await"}
  /\ idx \in Buf \cup {None} /\ out \in OutIdx \cup {None} /\ tc \in 0..MaxTimeouts
  /\ flow \in {"none", "ok", "flushing", "eos", "error", "start_failed"}
  /\ held \subseteq (IF vdin1_10bit THEN OutIdx ELSE Buf)
  /\ stale \subseteq OutIdx \cup Buf
  /\ seen \in Seq({1, 2})

(* Types of the driver, the element, the GPU pipeline and the call.        *)
TypeOK == TypeDriver /\ TypeElement /\ TypeGpu /\ TypeCall

(* While a job runs, its input is not queued to vdin1 and its output is    *)
(* neither free, nor downstream, nor destroyed with the pool.              *)
GpuExclusive ==
  \A s \in {0, 1} : gpu[s] # None =>
    /\ bst[gpu[s].in] = "deq"
    /\ poolUp /\ ~free[gpu[s].out] /\ gpu[s].out \notin held

(* A buffer downstream holds is not written: it is neither queued to vdin1 *)
(* (8 bit) nor free for, or used by, another conversion (10 bit).          *)
HeldExclusive ==
  \A x \in held :
    IF vdin1_10bit
    THEN ~free[x] /\ ~(vk_async_pending /\ vk_async.out = x)
    ELSE bst[x] = "deq"

(* No buffer is lost on any path through create: while vdin1 streams, each *)
(* of its buffers is queued, downstream, in flight or in the call, and so  *)
(* is each output buffer of the pool.                                      *)
NoBufferLost ==
  /\ devOn => \A i \in Buf :
       \/ bst[i] = "queued"
       \/ ~vdin1_10bit /\ i \in held
       \/ vk_async_pending /\ vk_async.in = i
       \/ pc \in {"wrap", "prime", "pwait", "await"} /\ idx = i
  /\ poolUp => \A o \in OutIdx :
       \/ free[o] \/ o \in held
       \/ vk_async_pending /\ vk_async.out = o
       \/ pc \in {"pwait", "ppoll", "pdq"} /\ out = o

(* Frames arrive downstream in the order of their capture, none twice,     *)
(* whichever of the synchronous and asynchronous paths they took.          *)
FrameOrder == seen \in {<<>>, <<1>>, <<2>>, <<1, 2>>}

(* A call of create returns (create_path_b: "MUST return either a valid    *)
(* buffer or a non-OK flow"), whatever vdin1, the monitor and downstream   *)
(* do.                                                                     *)
CreateReturns == pc # "idle" ~> pc = "idle"

(* A signal change that the monitor reported ends the session through      *)
(* clean_exit, if the element is not stopped or flushed first.             *)
SignalHandled == chg ~> (~chg \/ task # "running" \/ flow # "ok")

(* The same for every call but one that primes the GPU pipeline.           *)
SignalHandledUnprimed ==
  chg /\ events \cap Actions # {} ~>
    (~chg \/ task # "running" \/ flow # "ok" \/ pc = "ppoll")
=============================================================================
