------------------------------- MODULE VfmCap -------------------------------
(***************************************************************************)
(* The capture context of libvfmcap (libvfmcap/src/vfmcap.c): the V4L2     *)
(* buffer tokens it exchanges with the vfm_cap driver, and the protocol by *)
(* which it notices a lost HDMI signal and reconfigures itself when the    *)
(* signal is back.                                                         *)
(*                                                                         *)
(* The driver (vb2 queue, event queue, signal) is not part of the          *)
(* repository: its half of the model is what the library relies on.  A     *)
(* call of vfmcap_acquire_frame is cut at its system calls, because the    *)
(* driver, the signal and other threads' vfmcap_release_frame run between  *)
(* them; every other call of the API is one action.                        *)
(***************************************************************************)
EXTENDS Integers, Sequences

CONSTANTS
  Buf,          \* indexes of the V4L2 MMAP buffers REQBUFS grants
  Fmt,          \* formats the source can have (geometry and pixel format)
  NoFmt,        \* the zeroed format of a failed VIDIOC_G_FMT
  BitDepth,     \* bit depth inferred from a format, NoFmt included
  OutFmt,       \* config.output_format
  Timeouts,     \* timeout_ms values the application passes: "neg", "zero", "pos"
  Allowed,      \* which of Behaviours the application and the driver show
  EventDepth,   \* length of the driver's event queue
  MaxFlips,     \* bound: losses plus restorations of the signal
  MaxStale      \* bound: unreleased frames of one index from earlier buffers

(***************************************************************************)
(* Behaviours that are switched on per run:                                *)
(*   errno_loss   the driver reports a lost signal by POLLERR or an errno  *)
(*   blind_start  vfmcap_start is called while there is no signal          *)
(*   hoard        frames are still held when the buffers are replaced      *)
(*   poll_event   the application also calls vfmcap_poll_event             *)
(*   ioctl_fail   ioctls that set up streaming may fail                    *)
(*   vk_fail      Vulkan initialisation, conversion or calloc may fail     *)
(*   drop         config.target_fps > 0                                    *)
(***************************************************************************)
Behaviours == {"errno_loss", "blind_start", "hoard", "poll_event",
               "ioctl_fail", "vk_fail", "drop"}
OutFmts == {"RAW", "NV12", "NV21", "P010", "NV12_AFBC", "A2B10G10R10_AFBC",
            "VYUY_10BIT"}

ASSUME VfmCapAssumption ==
  /\ Buf # {} /\ Fmt # {} /\ NoFmt \notin Fmt
  /\ BitDepth \in [Fmt \cup {NoFmt} -> {8, 10}]
  /\ OutFmt \in OutFmts
  /\ Timeouts \subseteq {"neg", "zero", "pos"}
  /\ Allowed \subseteq Behaviours
  /\ EventDepth \in Nat \ {0} /\ MaxFlips \in Nat /\ MaxStale \in Nat

VARIABLES
  sig,       \* the HDMI signal: "stable" or "lost"
  srcFmt,    \* the format the driver reports and captures in
  events,    \* queued SOURCE_CHANGE events; the tag is invisible to the code
  flips,     \* losses and restorations so far
  bufs,      \* vb2 state of each buffer: "none", "deq" or "queued"
  doneq,     \* the queued buffers that are filled, oldest first
  fill,      \* the format each buffer was last filled in
  devOn,     \* the vb2 queue is streaming
  opened, subscribed, streaming, signal_lost, reconfig_pending, fmt,
  vk,        \* ctx->vk: "null", "ready", or "nopool" (no pool for OutFmt)
  pc,        \* where the acquire in progress is: "idle" when there is none
  tmo,       \* its timeout_ms
  cur,       \* the index it has dequeued (meaningful at pc = "got")
  ret,       \* what the last API call returned
  frame,     \* the last frame delivered: the format it is labelled with, its real one
  held,      \* indexes of frames acquired and not released
  stale,     \* number of unreleased frames per index from replaced buffers
  appFmt     \* the format the application was last told of

env   == <<sig, srcFmt, flips>>
dev   == <<bufs, doneq, fill, devOn>>
ctx   == <<opened, subscribed, streaming, vk>>
proto == <<signal_lost, reconfig_pending, fmt>>
call  == <<pc, tmo, cur, ret>>
app   == <<frame, held, stale, appFmt>>
vars  == <<env, events, dev, ctx, proto, call, app>>

-----------------------------------------------------------------------------
(* The driver: what ioctls do to the vb2 queue.                            *)

Qbuf(b, i)   == IF b[i] = "deq" THEN [b EXCEPT ![i] = "queued"] ELSE b
AllBufs(s)   == [i \in Buf |-> s]
Filled       == {doneq[k] : k \in DOMAIN doneq}

(* Buffers of the earlier REQBUFS that the application still holds.        *)
Orphan == stale' = [i \in Buf |-> stale[i] + (IF i \in held THEN 1 ELSE 0)]
          /\ held' = {}

LossByErrno == "errno_loss" \in Allowed /\ sig = "lost"

Push(e) == IF ~subscribed THEN events
           ELSE IF Len(events) = EventDepth THEN Append(Tail(events), e)
           ELSE Append(events, e)

SignalLost ==
  /\ sig = "stable" /\ flips < MaxFlips
  /\ sig' = "lost" /\ flips' = flips + 1
  /\ events' = Push("lost")
  /\ UNCHANGED <<srcFmt, dev, ctx, proto, call, app>>

SignalRestored ==
  /\ sig = "lost" /\ flips < MaxFlips
  /\ sig' = "stable" /\ flips' = flips + 1
  /\ srcFmt' \in Fmt
  /\ events' = Push("restored")
  /\ UNCHANGED <<dev, ctx, proto, call, app>>

DriverFill(i) ==
  /\ devOn /\ sig = "stable" /\ bufs[i] = "queued" /\ i \notin Filled
  /\ doneq' = Append(doneq, i)
  /\ fill' = [fill EXCEPT ![i] = srcFmt]
  /\ UNCHANGED <<env, events, bufs, devOn, ctx, proto, call, app>>

-----------------------------------------------------------------------------
(* Conversion: which requests the library serves with the GPU.             *)

needs_vulkan == OutFmt \notin {"RAW", "VYUY_10BIT"}

(* The (bit depth, format) pairs vfmcap_acquire_frame converts.            *)
Converts(f) ==
  \/ OutFmt \in {"NV12", "P010", "NV12_AFBC"}
  \/ OutFmt = "A2B10G10R10_AFBC" /\ BitDepth[f] = 10

(* vfmcap_vk_reconfig_pools destroys every pool and recreates the one of   *)
(* the format, A2B10G10R10_AFBC excepted; its failure is only a warning.   *)
vfmcap_vk_reconfig_pools(ok) ==
  IF needs_vulkan /\ vk # "null"
  THEN IF ok /\ OutFmt # "A2B10G10R10_AFBC" THEN "ready" ELSE "nopool"
  ELSE vk

-----------------------------------------------------------------------------
(* Life cycle.                                                             *)

Idle == pc = "idle"

vfmcap_open ==
  /\ Idle /\ ~opened
  /\ opened' = TRUE /\ ret' = "ok"
  /\ \/ fmt' = srcFmt
     \/ "ioctl_fail" \in Allowed /\ fmt' = NoFmt
  /\ UNCHANGED <<env, events, dev, subscribed, streaming, vk, signal_lost,
                 reconfig_pending, pc, tmo, cur, app>>

(* Outcome of vfmcap_start once the format has been accepted.              *)
StartFail(step) ==
  /\ "ioctl_fail" \in Allowed
  /\ \/ step = "reqbufs" /\ bufs' = AllBufs("none")
     \/ step = "qbuf" /\ bufs' \in [Buf -> {"deq", "queued"}]
                      /\ \E i \in Buf : bufs'[i] = "deq"
     \/ step = "streamon" /\ bufs' = AllBufs("queued")
  /\ devOn' = FALSE
  /\ ret' = "ioctl"
  /\ UNCHANGED <<streaming, signal_lost, vk>>

StartOk ==
  /\ bufs' = AllBufs("queued") /\ devOn' = TRUE
  /\ streaming' = TRUE /\ signal_lost' = FALSE
  /\ IF needs_vulkan /\ vk = "null" /\ fmt' # NoFmt
     THEN \/ vk' = "ready" /\ ret' = "ok"
          \/ "vk_fail" \in Allowed /\ vk' = "null" /\ ret' = "vulkan"
     ELSE vk' = vk /\ ret' = "ok"

vfmcap_start ==
  /\ Idle /\ opened
  /\ sig = "stable" \/ "blind_start" \in Allowed
  /\ \/ /\ streaming
        /\ ret' = "ok"
        /\ UNCHANGED <<events, dev, ctx, proto, appFmt>>
     \/ /\ ~streaming /\ OutFmt = "VYUY_10BIT" /\ BitDepth[fmt] # 10
        /\ ret' = "inval"
        /\ UNCHANGED <<events, dev, ctx, proto, appFmt>>
     \/ /\ ~streaming /\ ~(OutFmt = "VYUY_10BIT" /\ BitDepth[fmt] # 10)
        /\ \/ fmt' = srcFmt
           \/ "ioctl_fail" \in Allowed /\ fmt' = fmt
        /\ subscribed' = TRUE /\ events' = <<>>
        /\ doneq' = <<>> /\ appFmt' = NoFmt
        /\ StartOk \/ \E step \in {"reqbufs", "qbuf", "streamon"} : StartFail(step)
        /\ UNCHANGED <<opened, fill, reconfig_pending>>
  /\ UNCHANGED <<env, pc, tmo, cur, frame, held, stale>>

vfmcap_stop ==
  /\ Idle /\ opened /\ streaming
  /\ "hoard" \in Allowed \/ held = {}
  /\ bufs' = AllBufs("none") /\ doneq' = <<>> /\ devOn' = FALSE
  /\ streaming' = FALSE
  /\ Orphan
  /\ UNCHANGED <<env, events, fill, opened, subscribed, vk, proto, call,
                 frame, appFmt>>

(* The application returns every frame before it closes the context.       *)
vfmcap_close ==
  /\ Idle /\ opened
  /\ held = {} /\ \A i \in Buf : stale[i] = 0
  /\ vk' = "null"
  /\ bufs' = AllBufs("none") /\ doneq' = <<>> /\ devOn' = FALSE
  /\ opened' = FALSE /\ subscribed' = FALSE /\ events' = <<>>
  /\ streaming' = FALSE /\ signal_lost' = FALSE /\ reconfig_pending' = FALSE
  /\ fmt' = NoFmt
  /\ UNCHANGED <<env, fill, call, app>>

-----------------------------------------------------------------------------
(* vfmcap_acquire_frame, cut at its system calls:                          *)
(*   "again"  before the recovery poll or the readiness poll               *)
(*   "dqbuf"  before VIDIOC_DQBUF                                          *)
(*   "got"    buffer cur is dequeued, before GET_DMABUF                    *)

Return(r) == pc' = "idle" /\ ret' = r /\ UNCHANGED <<tmo, cur>>
Goto(l)   == pc' = l /\ UNCHANGED <<tmo, cur, ret>>

vfmcap_acquire_frame(t) ==
  /\ Idle /\ opened
  /\ "hoard" \in Allowed \/ ~signal_lost \/ held = {}
  /\ \A i \in Buf : stale[i] < MaxStale
  /\ IF streaming
     THEN pc' = "again" /\ tmo' = t /\ ret' = "none" /\ cur' = cur
     ELSE Return("state")
  /\ UNCHANGED <<env, events, dev, ctx, proto, app>>

(* vfmcap_do_reconfig: its return value is ignored by the caller.          *)
ReconfigFail ==
  /\ "ioctl_fail" \in Allowed
  /\ \/ bufs' = AllBufs("none")
     \/ bufs' \in [Buf -> {"deq", "queued"}]
  /\ devOn' = FALSE
  /\ vk' = vk

vfmcap_do_reconfig ==
  /\ Orphan
  /\ doneq' = <<>>
  /\ \/ fmt' = srcFmt
     \/ "ioctl_fail" \in Allowed /\ fmt' = NoFmt
  /\ \/ /\ bufs' = AllBufs("queued") /\ devOn' = TRUE
        /\ \/ vk' = vfmcap_vk_reconfig_pools(TRUE)
           \/ ("vk_fail" \in Allowed \/ fmt' = NoFmt)
              /\ vk' = vfmcap_vk_reconfig_pools(FALSE)
     \/ ReconfigFail

RecoverTimeout ==
  /\ pc = "again" /\ signal_lost /\ events = <<>>
  /\ Return("nosig")
  /\ UNCHANGED <<env, events, dev, ctx, proto, app>>

(* Faulty variant: the reconfiguration is not announced.                   *)
RecoverEventSilent ==
  /\ pc = "again" /\ signal_lost /\ events # <<>>
  /\ events' = Tail(events)
  /\ signal_lost' = FALSE
  /\ vfmcap_do_reconfig
  /\ UNCHANGED <<env, fill, opened, subscribed, streaming, reconfig_pending,
                 call, frame, appFmt>>

(* Faulty variant: the context stays in the lost state.                    *)
RecoverEventStillLost ==
  /\ pc = "again" /\ signal_lost /\ events # <<>>
  /\ events' = Tail(events)
  /\ reconfig_pending' = TRUE
  /\ vfmcap_do_reconfig
  /\ UNCHANGED <<env, fill, opened, subscribed, streaming, signal_lost, call,
                 frame, appFmt>>

RecoverEvent ==
  /\ pc = "again" /\ signal_lost /\ events # <<>>
  /\ events' = Tail(events)
  /\ signal_lost' = FALSE /\ reconfig_pending' = TRUE
  /\ vfmcap_do_reconfig
  /\ UNCHANGED <<env, fill, opened, subscribed, streaming, call, frame, appFmt>>

(* The readiness poll.  A negative timeout puts the deadline in the past.  *)
PollErr == ~devOn \/ LossByErrno

PollTimeout ==
  /\ pc = "again" /\ ~signal_lost
  /\ \/ tmo = "neg"
     \/ tmo = "pos" /\ devOn /\ events = <<>> /\ doneq = <<>>
  /\ Return("timeout")
  /\ UNCHANGED <<env, events, dev, ctx, proto, app>>

PollError ==
  /\ pc = "again" /\ ~signal_lost /\ tmo = "pos" /\ PollErr
  /\ signal_lost' = TRUE
  /\ Return("nosig")
  /\ UNCHANGED <<env, events, dev, ctx, reconfig_pending, fmt, app>>

(* Faulty variant: the event is looked at and left in the queue.           *)
PollEventPeek ==
  /\ pc = "again" /\ ~signal_lost /\ tmo = "pos" /\ devOn /\ events # <<>>
  /\ signal_lost' = TRUE
  /\ Return("nosig")
  /\ UNCHANGED <<env, events, dev, ctx, reconfig_pending, fmt, app>>

PollEvent ==
  /\ pc = "again" /\ ~signal_lost /\ tmo = "pos" /\ devOn /\ events # <<>>
  /\ events' = Tail(events)
  /\ signal_lost' = TRUE
  /\ Return("nosig")
  /\ UNCHANGED <<env, dev, ctx, reconfig_pending, fmt, app>>

(* Faulty variant: POLLIN is served before POLLPRI.                        *)
PollInFirst ==
  /\ pc = "again" /\ ~signal_lost
  /\ tmo = "zero" \/ (tmo = "pos" /\ devOn /\ doneq # <<>>)
  /\ Goto("dqbuf")
  /\ UNCHANGED <<env, events, dev, ctx, proto, app>>

PollIn ==
  /\ pc = "again" /\ ~signal_lost
  /\ \/ tmo = "zero"
     \/ tmo = "pos" /\ devOn /\ events = <<>> /\ doneq # <<>>
  /\ Goto("dqbuf")
  /\ UNCHANGED <<env, events, dev, ctx, proto, app>>

Dqbuf ==
  /\ pc = "dqbuf" /\ devOn /\ doneq # <<>>
  /\ bufs' = [bufs EXCEPT ![Head(doneq)] = "deq"]
  /\ doneq' = Tail(doneq)
  /\ pc' = "got" /\ cur' = Head(doneq)
  /\ UNCHANGED <<env, events, fill, devOn, ctx, proto, tmo, ret, app>>

DqbufFail ==
  /\ pc = "dqbuf"
  /\ \/ ~devOn /\ Return("ioctl") /\ UNCHANGED signal_lost
     \/ devOn /\ doneq = <<>> /\ Return("timeout") /\ UNCHANGED signal_lost
     \/ devOn /\ LossByErrno /\ Return("nosig") /\ signal_lost' = TRUE
  /\ UNCHANGED <<env, events, dev, ctx, reconfig_pending, fmt, app>>

(* Faulty variant: an error path without the QBUF.                         *)
GiveBackForgotten == UNCHANGED dev

(* Every failure behind DQBUF closes the fd and gives the buffer back.     *)
GiveBack == bufs' = Qbuf(bufs, cur) /\ UNCHANGED <<doneq, fill, devOn>>

GetDmabufFail ==
  /\ pc = "got"
  /\ GiveBack
  /\ \/ "ioctl_fail" \in Allowed /\ Return("ioctl") /\ UNCHANGED signal_lost
     \/ LossByErrno /\ Return("nosig") /\ signal_lost' = TRUE
  /\ UNCHANGED <<env, events, ctx, reconfig_pending, fmt, app>>

(* Faulty variant: the early frame is given back and delivered all the     *)
(* same, the jump back being forgotten.                                    *)
DropFrameNoGoto ==
  /\ pc = "got" /\ "drop" \in Allowed /\ ~reconfig_pending
  /\ GiveBack
  /\ UNCHANGED <<env, events, ctx, proto, call, app>>

DropFrame ==
  /\ pc = "got" /\ "drop" \in Allowed /\ ~reconfig_pending
  /\ GiveBack
  /\ Goto("again")
  /\ UNCHANGED <<env, events, ctx, proto, app>>

UsesGpu == needs_vulkan /\ vk # "null" /\ Converts(fmt)

ConvertFail ==
  /\ pc = "got" /\ UsesGpu
  /\ vk = "nopool" \/ "vk_fail" \in Allowed
  /\ GiveBack
  /\ Return("vulkan")
  /\ UNCHANGED <<env, events, ctx, proto, app>>

(* Faulty variant: the announcement of a reconfiguration is not cleared.   *)
DeliverPendingKept ==
  /\ pc = "got"
  /\ ~(UsesGpu /\ vk = "nopool")
  /\ held' = held \cup {cur}
  /\ frame' = [fmt |-> fmt, real |-> fill[cur]]
  /\ Return(IF reconfig_pending THEN "reconfigured" ELSE "ok")
  /\ appFmt' = IF reconfig_pending \/ appFmt = NoFmt THEN fmt ELSE appFmt
  /\ UNCHANGED <<env, events, dev, ctx, proto, stale>>

Deliver ==
  /\ pc = "got"
  /\ ~(UsesGpu /\ vk = "nopool")
  /\ held' = held \cup {cur}
  /\ frame' = [fmt |-> fmt, real |-> fill[cur]]
  /\ Return(IF reconfig_pending THEN "reconfigured" ELSE "ok")
  /\ appFmt' = IF reconfig_pending \/ appFmt = NoFmt THEN fmt ELSE appFmt
  /\ reconfig_pending' = FALSE
  /\ UNCHANGED <<env, events, dev, ctx, signal_lost, fmt, stale>>

-----------------------------------------------------------------------------
(* Returning frames, from any thread, and the separate event poll.         *)

(* Faulty variant: a release is counted although nothing is held.          *)
ReleaseUnchecked(i) ==
  /\ opened
  /\ IF i \in held THEN held' = held \ {i} /\ stale' = stale
     ELSE held' = held /\ stale' = [stale EXCEPT ![i] = @ - 1]
  /\ bufs' = Qbuf(bufs, i)
  /\ UNCHANGED <<env, events, doneq, fill, devOn, ctx, proto, call, frame, appFmt>>

vfmcap_release_frame(i) ==
  /\ opened
  /\ \/ i \in held /\ held' = held \ {i} /\ stale' = stale
     \/ stale[i] > 0 /\ stale' = [stale EXCEPT ![i] = @ - 1] /\ held' = held
  /\ bufs' = Qbuf(bufs, i)
  /\ UNCHANGED <<env, events, doneq, fill, devOn, ctx, proto, call, frame, appFmt>>

vfmcap_poll_event ==
  /\ "poll_event" \in Allowed
  /\ Idle /\ opened /\ subscribed
  /\ \/ /\ LossByErrno
        /\ signal_lost' = TRUE /\ ret' = "ev_nosig"
        /\ UNCHANGED <<events, reconfig_pending>>
     \/ /\ events # <<>>
        /\ events' = Tail(events)
        /\ signal_lost' = TRUE /\ reconfig_pending' = TRUE
        /\ ret' = "ev_source_change"
  /\ UNCHANGED <<env, dev, ctx, fmt, pc, tmo, cur, app>>

-----------------------------------------------------------------------------
Init ==
  /\ sig = "stable" /\ srcFmt \in Fmt /\ flips = 0 /\ events = <<>>
  /\ bufs = AllBufs("none") /\ doneq = <<>> /\ devOn = FALSE
  /\ fill = [i \in Buf |-> NoFmt]
  /\ opened = FALSE /\ subscribed = FALSE /\ streaming = FALSE /\ vk = "null"
  /\ signal_lost = FALSE /\ reconfig_pending = FALSE /\ fmt = NoFmt
  /\ pc = "idle" /\ tmo \in Timeouts /\ cur \in Buf /\ ret = "none"
  /\ frame = [fmt |-> NoFmt, real |-> NoFmt]
  /\ held = {} /\ stale = [i \in Buf |-> 0] /\ appFmt = NoFmt

Acquiring ==
  \/ RecoverTimeout \/ RecoverEvent
  \/ PollTimeout \/ PollError \/ PollEvent \/ PollIn
  \/ Dqbuf
  \/ DqbufFail \/ GetDmabufFail \/ DropFrame \/ ConvertFail \/ Deliver

Next ==
  \/ SignalLost \/ SignalRestored
  \/ \E i \in Buf : DriverFill(i)
  \/ vfmcap_open \/ vfmcap_start \/ vfmcap_stop \/ vfmcap_close
  \/ \E t \in Timeouts : vfmcap_acquire_frame(t)
  \/ Acquiring
  \/ \E i \in Buf : vfmcap_release_frame(i)
  \/ vfmcap_poll_event

Spec == Init /\ [][Next]_vars

(***************************************************************************)
(* Fairness: the driver fills what is queued while there is a signal, a    *)
(* call in progress goes on, and an application that streams keeps         *)
(* returning and asking for frames.  The rate converter drops only frames  *)
(* that are early, so it does not drop every frame.                        *)
(***************************************************************************)
Fairness ==
  /\ \A i \in Buf : WF_vars(DriverFill(i)) /\ WF_vars(vfmcap_release_frame(i))
  /\ WF_vars(Acquiring)
  /\ SF_vars(Deliver)
  /\ WF_vars(\E t \in Timeouts : streaming /\ vfmcap_acquire_frame(t))

FairSpec == Spec /\ Fairness

-----------------------------------------------------------------------------
(* Properties.                                                             *)

TypeSignal ==
  /\ sig \in {"stable", "lost"} /\ srcFmt \in Fmt /\ flips \in 0..MaxFlips
  /\ events \in Seq({"lost", "restored"})

TypeQueue ==
  /\ bufs \in [Buf -> {"none", "deq", "queued"}] /\ doneq \in Seq(Buf)
  /\ fill \in [Buf -> Fmt \cup {NoFmt}] /\ devOn \in BOOLEAN

TypeContext ==
  /\ opened \in BOOLEAN /\ subscribed \in BOOLEAN /\ streaming \in BOOLEAN
  /\ vk \in {"null", "ready", "nopool"}
  /\ signal_lost \in BOOLEAN /\ reconfig_pending \in BOOLEAN
  /\ fmt \in Fmt \cup {NoFmt}
  /\ pc \in {"idle", "again", "dqbuf", "got"} /\ tmo \in Timeouts
  /\ cur \in Buf
  /\ ret \in {"none", "ok", "reconfigured", "timeout", "nosig", "ioctl", "state",
              "inval", "vulkan", "ev_nosig", "ev_source_change"}

TypeApp ==
  /\ appFmt \in Fmt \cup {NoFmt}
  /\ frame \in [fmt : Fmt \cup {NoFmt}, real : Fmt \cup {NoFmt}]
  /\ held \in SUBSET Buf /\ stale \in [Buf -> Nat]

(* Types of the driver, the context and the application's view of it.      *)
TypeOK == TypeSignal /\ TypeQueue /\ TypeContext /\ TypeApp

(* A frame the application holds is out of the driver's hands: vdin0 does  *)
(* not capture into it before vfmcap_release_frame (vfmcap.h: "The fd is   *)
(* valid until vfmcap_release_frame() is called").                         *)
FrameValidUntilReleased ==
  \A i \in held : bufs[i] = "deq"

(* No token is lost: while the queue streams, each buffer is with the      *)
(* driver, with the application, or in the acquire in progress, whatever   *)
(* error path the calls took.                                              *)
NoTokenLost ==
  devOn => \A i \in Buf : \/ bufs[i] = "queued"
                          \/ i \in held
                          \/ pc = "got" /\ cur = i

(* Every frame is labelled with the format it was captured in, however the *)
(* signal changes between the poll, DQBUF and the delivery.                *)
FormatTruth == frame.fmt = frame.real

(* The application always knows the format of the frames it is given: a    *)
(* frame in a format it was not told of is announced by RECONFIGURED.      *)
AppKnowsFormat == appFmt # NoFmt => frame.fmt = appFmt

(* The recovery path reconfigures on the event of a restored signal, never *)
(* on the event of its loss (vfmcap.c: reconfiguring "while vdin0 is       *)
(* tearing down or rebuilding can hang the board").                        *)
ReconfigOnlyAfterRestore ==
  [][(pc = "again" /\ signal_lost /\ ~signal_lost')
       => events # <<>> /\ Head(events) = "restored"]_vars

(* While the application streams and the signal stays, acquire delivers.   *)
FramesFlow ==
  (streaming /\ sig = "stable")
     ~> (~streaming \/ sig = "lost" \/ ret \in {"ok", "reconfigured"})

(* The capture context as its caller sees it.                              *)
Api == INSTANCE CapApi WITH
         open <- opened, on <- streaming, busy <- (pc # "idle"), res <- ret,
         lost <- (signal_lost \/ reconfig_pending), client <- held,
         shape <- fmt, Shape <- Fmt \cup {NoFmt}

(* The context keeps the contract of CapApi: no frame is handed out twice, *)
(* and after every report of a lost signal the next frame, and no other,   *)
(* is returned with VFMCAP_RECONFIGURED (vfmcap.h: "Frame returned after   *)
(* dynamic reconfiguration"), whatever failed in between.                  *)
ImplementsApi == Api!ApiSpec
=============================================================================
