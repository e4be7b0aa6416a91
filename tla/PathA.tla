------------------------------- MODULE PathA -------------------------------
(***************************************************************************)
(* Path A of streamboxsrc (gst-plugin-vfmcap/gst_streambox_src.c) as a     *)
(* client of libvfmcap: start_path_a and its test frame, create_path_a,    *)
(* stop_path_a, and patha_frame_release, which downstream runs on a thread *)
(* of its own when it unrefs a buffer.                                     *)
(*                                                                         *)
(* The library is its contract CapApi; each of its calls is the action of  *)
(* that module, and a Replace may happen inside an acquire.                *)
(***************************************************************************)
EXTENDS CapApi, Integers

CONSTANTS
  None,          \* no frame, no caps
  Allowed,       \* which of PathABehaviours happen
  MaxSessions    \* bound: contexts opened

(***************************************************************************)
(*   flush   unlock may come while create is inside vfmcap_acquire_frame   *)
(*   hoard   downstream keeps buffers over a flush or a stop               *)
(*   fail    dup, gst_dmabuf_allocator_alloc and vfmcap_open may fail      *)
(***************************************************************************)
PathABehaviours == {"flush", "hoard", "fail"}

ASSUME PathAAssumption ==
  /\ Buf # {} /\ Shape # {} /\ None \notin Buf \cup Shape
  /\ Allowed \subseteq PathABehaviours
  /\ MaxSessions \in Nat

VARIABLES
  task,      \* "off", "starting", "running", "stopping", "stopped", "closing"
  cap_ctx,   \* self->cap_ctx: the number of its session, 0 for NULL
  gen,       \* sessions so far: number of the context that was opened last
  flushing,
  width,     \* shape of the test frame (self->width, self->height)
  caps,      \* shape in the caps pushed downstream, None before
  pc,        \* where start or create is: "idle" outside a call
  got,       \* the frame acquire returned to it, or None
  flow,      \* what create returned
  down,      \* frames wrapped in buffers that downstream holds
  rel,       \* release callbacks between reading cap_ctx and using it
  dropped    \* history: frames of this context that a flush swallowed

elem  == <<task, cap_ctx, gen, flushing, width, caps>>
call  == <<pc, got, flow>>
downs == <<down, rel, dropped>>
vars  == <<apiVars, elem, call, downs>>

Frame == [ctx : 1..MaxSessions, idx : Buf, shape : Shape]

(* VIDIOC_QBUF of a buffer the caller does not hold fails with a warning.  *)
ReleaseFrame(i) == IF i \in client THEN Release(i) ELSE UNCHANGED apiVars

Return(f) == pc' = "idle" /\ flow' = f /\ got' = None
At(l)     == pc' = l /\ UNCHANGED <<got, flow>>

Quiet == down = {} /\ rel = {}

-----------------------------------------------------------------------------
(* start_path_a.                                                           *)

StartOpen ==
  /\ task = "off" /\ gen < MaxSessions
  /\ flushing' = FALSE /\ caps' = None
  /\ \/ /\ Open
        /\ task' = "starting" /\ gen' = gen + 1 /\ cap_ctx' = gen'
        /\ At("start")
     \/ /\ "fail" \in Allowed
        /\ gen' = gen + 1
        /\ UNCHANGED <<apiVars, task, cap_ctx, call>>
  /\ UNCHANGED <<width, downs>>

StartStream ==
  /\ pc = "start"
  /\ Start
  /\ At(IF res' = "ok" THEN "test" ELSE "undo")
  /\ UNCHANGED <<elem, downs>>

StartAcquire ==
  /\ pc = "test"
  /\ Acquire
  /\ At("tacq")
  /\ UNCHANGED <<elem, downs>>

(* Only VFMCAP_OK is accepted as a test frame.                             *)
StartAcquired ==
  /\ pc = "tacq"
  /\ \/ \E i \in Buf : Got(i) /\ got' = i
     \/ Fail /\ got' = None
  /\ pc' = (IF res' = "ok" THEN "tgot" ELSE "undo") /\ flow' = flow
  /\ UNCHANGED <<elem, downs>>

StartDone ==
  /\ pc = "tgot"
  /\ ReleaseFrame(got)
  /\ Return("ok")
  /\ task' = "running" /\ width' = shape
  /\ UNCHANGED <<cap_ctx, gen, flushing, caps, downs>>

StartUndo ==
  /\ pc = "undo"
  /\ Close
  /\ Return("start_failed")
  /\ task' = "off" /\ cap_ctx' = 0 /\ dropped' = {}
  /\ UNCHANGED <<gen, flushing, width, caps, down, rel>>

-----------------------------------------------------------------------------
(* Flush and stop, as GstBaseSrc calls them.                               *)

gst_streambox_src_unlock ==
  /\ task = "running"
  /\ "flush" \in Allowed \/ pc = "idle"
  /\ task' = "stopping" /\ flushing' = TRUE
  /\ UNCHANGED <<apiVars, cap_ctx, gen, width, caps, call, downs>>

gst_streambox_src_unlock_stop ==
  /\ task = "stopping" /\ pc = "idle"
  /\ task' = "stopped" /\ flushing' = FALSE
  /\ UNCHANGED <<apiVars, cap_ctx, gen, width, caps, call, downs>>

(* The end of a flush: the streaming thread runs again.                    *)
Resume ==
  /\ task = "stopped"
  /\ "hoard" \in Allowed \/ Quiet
  /\ task' = "running" /\ flow' = "ok"
  /\ UNCHANGED <<apiVars, cap_ctx, gen, flushing, width, caps, pc, got, downs>>

(* vfmcap_close, then self->cap_ctx = NULL.                                *)
stop_path_a ==
  /\ task = "stopped"
  /\ "hoard" \in Allowed \/ Quiet
  /\ Close
  /\ task' = "closing" /\ dropped' = {}
  /\ UNCHANGED <<cap_ctx, gen, flushing, width, caps, call, down, rel>>

StopDone ==
  /\ task = "closing"
  /\ task' = "off" /\ cap_ctx' = 0 /\ caps' = None
  /\ UNCHANGED <<apiVars, gen, flushing, width, call, downs>>

-----------------------------------------------------------------------------
(* create_path_a, cut around vfmcap_acquire_frame.                         *)

create_path_a ==
  /\ task \in {"running", "stopping"} /\ pc = "idle" /\ flow = "ok"
  /\ IF flushing
     THEN /\ Return("flushing")
          /\ UNCHANGED <<apiVars, caps>>
     ELSE /\ caps' = IF caps = None THEN width ELSE caps
          /\ Acquire
          /\ At("acq")
  /\ UNCHANGED <<task, cap_ctx, gen, flushing, width, downs>>

(* The library replaces its buffers inside the call.                       *)
Reconfigure ==
  /\ pc \in {"acq", "tacq"}
  /\ Replace
  /\ UNCHANGED <<elem, call, downs>>

Acquired ==
  /\ pc = "acq"
  /\ \/ \E i \in Buf : Got(i) /\ got' = i /\ dropped' = dropped \ {i}
     \/ Fail /\ got' = None /\ dropped' = dropped
  /\ pc' = "ret" /\ flow' = flow
  /\ UNCHANGED <<elem, down, rel>>

(* self->flushing is looked at before the result of the acquire: a frame   *)
(* it returned is forgotten.                                               *)
RetFlushing ==
  /\ pc = "ret" /\ flushing
  /\ dropped' = dropped \cup ({got} \ {None})
  /\ Return("flushing")
  /\ UNCHANGED <<apiVars, elem, down, rel>>

(* Faulty variant: a lost signal is waited out by calling acquire again.   *)
RetNoFrameRetry ==
  /\ pc = "ret" /\ ~flushing /\ got = None
  /\ Return(IF res = "nosig" THEN "ok" ELSE "error")
  /\ UNCHANGED <<apiVars, elem, downs>>

RetNoFrame ==
  /\ pc = "ret" /\ ~flushing /\ got = None
  /\ Return(IF res = "nosig" THEN "eos" ELSE "error")
  /\ UNCHANGED <<apiVars, elem, downs>>

(* Faulty variant: the frame of a reconfiguration is not released.         *)
RetChangedKept ==
  /\ pc = "ret" /\ ~flushing /\ got # None
  /\ res = "reconfigured" \/ shape # width
  /\ Return("eos")
  /\ UNCHANGED <<apiVars, elem, downs>>

RetChanged ==
  /\ pc = "ret" /\ ~flushing /\ got # None
  /\ res = "reconfigured" \/ shape # width
  /\ ReleaseFrame(got)
  /\ Return("eos")
  /\ UNCHANGED <<elem, downs>>

RetWrapFail ==
  /\ pc = "ret" /\ ~flushing /\ got # None /\ res = "ok" /\ shape = width
  /\ "fail" \in Allowed
  /\ ReleaseFrame(got)
  /\ Return("error")
  /\ UNCHANGED <<elem, downs>>

(* Faulty variants: the size of the frame is not compared; the frame is    *)
(* released as soon as it is wrapped.                                      *)
RetBufferUnchecked ==
  /\ pc = "ret" /\ ~flushing /\ got # None /\ res = "ok"
  /\ down' = down \cup {[ctx |-> cap_ctx, idx |-> got, shape |-> shape]}
  /\ Return("ok")
  /\ UNCHANGED <<apiVars, elem, rel, dropped>>

RetBufferReleased ==
  /\ pc = "ret" /\ ~flushing /\ got # None /\ res = "ok" /\ shape = width
  /\ down' = down \cup {[ctx |-> cap_ctx, idx |-> got, shape |-> shape]}
  /\ ReleaseFrame(got)
  /\ Return("ok")
  /\ UNCHANGED <<elem, rel, dropped>>

RetBuffer ==
  /\ pc = "ret" /\ ~flushing /\ got # None /\ res = "ok" /\ shape = width
  /\ down' = down \cup {[ctx |-> cap_ctx, idx |-> got, shape |-> shape]}
  /\ Return("ok")
  /\ UNCHANGED <<apiVars, elem, rel, dropped>>

-----------------------------------------------------------------------------
(* Downstream unrefs the buffer of frame f.  The callback reads            *)
(* self->cap_ctx twice, for the test and for the call; nothing locks it.   *)

patha_frame_release(f) ==
  /\ f \in down
  /\ down' = down \ {f}
  /\ rel' = IF cap_ctx # 0 THEN rel \cup {[ctx |-> cap_ctx, frame |-> f]} ELSE rel
  /\ UNCHANGED <<apiVars, elem, call, dropped>>

(* The call on the context that was read.  On a context that is closed it  *)
(* is undefined; that it then does nothing is the best outcome.            *)
CallRelease(r) ==
  /\ r \in rel
  /\ rel' = rel \ {r}
  /\ IF open /\ r.ctx = gen THEN ReleaseFrame(r.frame.idx) ELSE UNCHANGED apiVars
  /\ UNCHANGED <<elem, call, down, dropped>>

-----------------------------------------------------------------------------
Init ==
  /\ ApiInit
  /\ task = "off" /\ cap_ctx = 0 /\ gen = 0 /\ flushing = FALSE
  /\ width \in Shape /\ caps = None
  /\ pc = "idle" /\ got = None /\ flow = "none"
  /\ down = {} /\ rel = {} /\ dropped = {}

Element ==
  \/ StartOpen \/ StartStream \/ StartAcquire \/ StartAcquired \/ StartDone
  \/ StartUndo
  \/ gst_streambox_src_unlock \/ gst_streambox_src_unlock_stop \/ Resume
  \/ stop_path_a \/ StopDone
  \/ create_path_a \/ Reconfigure \/ Acquired
  \/ RetFlushing \/ RetNoFrame \/ RetChanged \/ RetWrapFail \/ RetBuffer

Next ==
  \/ Element
  \/ \E f \in down : patha_frame_release(f)
  \/ \E r \in rel : CallRelease(r)

Spec == Init /\ [][Next]_vars

-----------------------------------------------------------------------------
(* Properties.                                                             *)

TypeElement ==
  /\ task \in {"off", "starting", "running", "stopping", "stopped", "closing"}
  /\ gen \in 0..MaxSessions /\ cap_ctx \in {0, gen} /\ flushing \in BOOLEAN
  /\ width \in Shape /\ caps \in Shape \cup {None}

TypeCall ==
  /\ pc \in {"idle", "start", "test", "tacq", "tgot", "undo", "acq", "ret"}
  /\ got \in Buf \cup {None}
  /\ flow \in {"none", "ok", "flushing", "eos", "error", "start_failed"}

TypeDown ==
  /\ down \subseteq Frame
  /\ rel \subseteq [ctx : 1..MaxSessions, frame : Frame] /\ dropped \subseteq Buf

(* Types of the element, its call and what is out with downstream.         *)
TypeOK == TypeElement /\ TypeCall /\ TypeDown

(* A frame of the current context that downstream holds has not been given *)
(* back to the library under its hands: vdin0 does not write into it.      *)
FramesHeld == \A f \in down : open /\ f.ctx = gen => f.idx \in client

Accounted(i) ==
  \/ got = i
  \/ \E f \in down : f.ctx = gen /\ f.idx = i
  \/ \E r \in rel : r.frame.idx = i

(* Every frame the library has handed over is with downstream, in the call *)
(* or about to be released (vfmcap.h: vfmcap_release_frame "Must be called *)
(* for every acquired frame").                                             *)
NoFrameLeaked == \A i \in client : Accounted(i)

(* On every path but the one that returns FLUSHING after an acquire, each  *)
(* frame stays with downstream, in the call or about to be released.       *)
LeaksOnlyInFlush == \A i \in client \ dropped : Accounted(i)

(* Every frame of this session downstream has the shape of the caps that   *)
(* were pushed, also when a flush swallowed the report of a change.        *)
CapsTruth == \A f \in down : f.ctx = cap_ctx => f.shape = caps

(* The element keeps the condition under which VfmCap is proved safe, but  *)
(* for the frames a flush swallowed: it holds none when the library may    *)
(* replace its buffers, that is when it closes the context or acquires     *)
(* after the report of a loss.                                             *)
HoldsNothingAcross ==
  (lost /\ pc \in {"acq", "tacq"}) \/ task = "closing" => client \subseteq dropped /\ down = {}

(* A release callback only uses a context that is open (stop_path_a:       *)
(* "vfmcap_close() handles the full teardown in safe order").              *)
NoUseAfterClose == \A r \in rel : open /\ r.ctx = gen
=============================================================================
