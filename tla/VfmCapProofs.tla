---------------------------- MODULE VfmCapProofs ----------------------------
(***************************************************************************)
(* Proofs about VfmCap for every number of buffers, every set of formats   *)
(* and every combination of the behaviours a theorem does not exclude.     *)
(***************************************************************************)
EXTENDS VfmCap, TLAPS

USE VfmCapAssumption

(* The vb2 states REQBUFS and a round of QBUFs leave behind are states of  *)
(* the buffers.                                                            *)
LEMMA AllBufsType ==
  /\ AllBufs("none") \in [Buf -> {"none", "deq", "queued"}]
  /\ AllBufs("queued") \in [Buf -> {"none", "deq", "queued"}]
BY DEF AllBufs

(* Emptied queues of buffers and of events.                                *)
LEMMA EmptyQueues == <<>> \in Seq(Buf) /\ <<>> \in Seq({"lost", "restored"})
OBVIOUS

(* Every variable keeps its type in every step of the library and of the   *)
(* driver.                                                                 *)
THEOREM TypeCorrect == Spec => []TypeOK
<1>1. Init => TypeOK
  <2>1. Init => TypeSignal BY DEF Init, TypeSignal
  <2>2. Init => TypeQueue
    BY AllBufsType, EmptyQueues DEF Init, TypeQueue
  <2>3. Init => TypeContext BY DEF Init, TypeContext
  <2>4. Init => TypeApp BY DEF Init, TypeApp
  <2>5. QED BY <2>1, <2>2, <2>3, <2>4 DEF TypeOK
<1>2. TypeOK /\ [Next]_vars => TypeOK'
  <2> SUFFICES ASSUME TypeOK, [Next]_vars PROVE TypeOK'
    OBVIOUS
  <2> USE DEF TypeOK, env, dev, ctx, proto, call, app
  <2>1. CASE SignalLost
    <3>1. TypeSignal' BY <2>1 DEF TypeSignal, SignalLost, Push
    <3>2. TypeQueue' BY <2>1 DEF TypeQueue, SignalLost, Push
    <3>3. TypeContext' BY <2>1 DEF TypeContext, SignalLost, Push
    <3>4. TypeApp' BY <2>1 DEF TypeApp, SignalLost, Push
    <3>5. QED BY <3>1, <3>2, <3>3, <3>4
  <2>2. CASE SignalRestored
    <3>1. TypeSignal' BY <2>2 DEF TypeSignal, SignalRestored, Push
    <3>2. TypeQueue' BY <2>2 DEF TypeQueue, SignalRestored, Push
    <3>3. TypeContext' BY <2>2 DEF TypeContext, SignalRestored, Push
    <3>4. TypeApp' BY <2>2 DEF TypeApp, SignalRestored, Push
    <3>5. QED BY <3>1, <3>2, <3>3, <3>4
  <2>3. ASSUME NEW i \in Buf, DriverFill(i) PROVE TypeOK'
    <3>1. TypeSignal' BY <2>3 DEF TypeSignal, DriverFill
    <3>2. TypeQueue' BY <2>3 DEF TypeQueue, TypeSignal, DriverFill
    <3>3. TypeContext' BY <2>3 DEF TypeContext, DriverFill
    <3>4. TypeApp' BY <2>3 DEF TypeApp, DriverFill
    <3>5. QED BY <3>1, <3>2, <3>3, <3>4
  <2>4. CASE vfmcap_open
    <3>1. TypeSignal' BY <2>4 DEF TypeSignal, vfmcap_open
    <3>2. TypeQueue' BY <2>4 DEF TypeQueue, vfmcap_open
    <3>3. TypeContext' BY <2>4 DEF TypeContext, TypeSignal, vfmcap_open
    <3>4. TypeApp' BY <2>4 DEF TypeApp, vfmcap_open
    <3>5. QED BY <3>1, <3>2, <3>3, <3>4
  <2>5. CASE vfmcap_start
    <3>1. TypeSignal'
      BY <2>5, EmptyQueues DEF TypeSignal, vfmcap_start, StartOk, StartFail
    <3>2. TypeQueue'
      <4>1. doneq' \in Seq(Buf) /\ fill' \in [Buf -> Fmt \cup {NoFmt}]
        BY <2>5, EmptyQueues DEF TypeQueue, vfmcap_start, StartOk, StartFail
      <4>2. bufs' \in [Buf -> {"none", "deq", "queued"}]
        BY <2>5, AllBufsType DEF TypeQueue, vfmcap_start, StartOk, StartFail
      <4>3. devOn' \in BOOLEAN
        BY <2>5 DEF TypeQueue, vfmcap_start, StartOk, StartFail
      <4>4. QED BY <4>1, <4>2, <4>3 DEF TypeQueue
    <3>3. TypeContext' BY <2>5 DEF TypeContext, TypeSignal, vfmcap_start,
        StartOk, StartFail
    <3>4. TypeApp' BY <2>5 DEF TypeApp, vfmcap_start, StartOk, StartFail
    <3>5. QED BY <3>1, <3>2, <3>3, <3>4
  <2>6. CASE vfmcap_stop
    <3>1. TypeSignal' BY <2>6 DEF TypeSignal, vfmcap_stop, Orphan
    <3>2. TypeQueue'
      BY <2>6, AllBufsType, EmptyQueues DEF TypeQueue, vfmcap_stop, Orphan
    <3>3. TypeContext' BY <2>6 DEF TypeContext, vfmcap_stop, Orphan
    <3>4. TypeApp' BY <2>6 DEF TypeApp, vfmcap_stop, Orphan
    <3>5. QED BY <3>1, <3>2, <3>3, <3>4
  <2>7. CASE vfmcap_close
    <3>1. TypeSignal' BY <2>7 DEF TypeSignal, vfmcap_close
    <3>2. TypeQueue' BY <2>7, AllBufsType, EmptyQueues DEF TypeQueue, vfmcap_close
    <3>3. TypeContext' BY <2>7 DEF TypeContext, vfmcap_close
    <3>4. TypeApp' BY <2>7 DEF TypeApp, vfmcap_close
    <3>5. QED BY <3>1, <3>2, <3>3, <3>4
  <2>8. ASSUME NEW t \in Timeouts, vfmcap_acquire_frame(t) PROVE TypeOK'
    <3>1. TypeSignal' BY <2>8 DEF TypeSignal, vfmcap_acquire_frame, Return
    <3>2. TypeQueue' BY <2>8 DEF TypeQueue, vfmcap_acquire_frame, Return
    <3>3. TypeContext' BY <2>8 DEF TypeContext, vfmcap_acquire_frame, Return
    <3>4. TypeApp' BY <2>8 DEF TypeApp, vfmcap_acquire_frame, Return
    <3>5. QED BY <3>1, <3>2, <3>3, <3>4
  <2>9. CASE RecoverTimeout
    <3>1. TypeSignal' BY <2>9 DEF TypeSignal, RecoverTimeout, Return
    <3>2. TypeQueue' BY <2>9 DEF TypeQueue, RecoverTimeout, Return
    <3>3. TypeContext' BY <2>9 DEF TypeContext, RecoverTimeout, Return
    <3>4. TypeApp' BY <2>9 DEF TypeApp, RecoverTimeout, Return
    <3>5. QED BY <3>1, <3>2, <3>3, <3>4
  <2>10. CASE RecoverEvent
    <3>1. TypeSignal' BY <2>10 DEF TypeSignal, RecoverEvent, vfmcap_do_reconfig,
        ReconfigFail, Orphan, vfmcap_vk_reconfig_pools
    <3>2. TypeQueue'
      BY <2>10, AllBufsType, EmptyQueues
      DEF TypeQueue, RecoverEvent, vfmcap_do_reconfig, ReconfigFail, Orphan,
        vfmcap_vk_reconfig_pools
    <3>3. TypeContext' BY <2>10 DEF TypeContext, TypeSignal, RecoverEvent,
        vfmcap_do_reconfig, ReconfigFail, Orphan,
        vfmcap_vk_reconfig_pools
    <3>4. TypeApp' BY <2>10 DEF TypeApp, RecoverEvent, vfmcap_do_reconfig,
        ReconfigFail, Orphan, vfmcap_vk_reconfig_pools
    <3>5. QED BY <3>1, <3>2, <3>3, <3>4
  <2>11. CASE PollTimeout
    <3>1. TypeSignal' BY <2>11 DEF TypeSignal, PollTimeout, Return
    <3>2. TypeQueue' BY <2>11 DEF TypeQueue, PollTimeout, Return
    <3>3. TypeContext' BY <2>11 DEF TypeContext, PollTimeout, Return
    <3>4. TypeApp' BY <2>11 DEF TypeApp, PollTimeout, Return
    <3>5. QED BY <3>1, <3>2, <3>3, <3>4
  <2>12. CASE PollError
    <3>1. TypeSignal' BY <2>12 DEF TypeSignal, PollError, Return
    <3>2. TypeQueue' BY <2>12 DEF TypeQueue, PollError, Return
    <3>3. TypeContext' BY <2>12 DEF TypeContext, PollError, Return
    <3>4. TypeApp' BY <2>12 DEF TypeApp, PollError, Return
    <3>5. QED BY <3>1, <3>2, <3>3, <3>4
  <2>13. CASE PollEvent
    <3>1. TypeSignal' BY <2>13 DEF TypeSignal, PollEvent, Return
    <3>2. TypeQueue' BY <2>13 DEF TypeQueue, PollEvent, Return
    <3>3. TypeContext' BY <2>13 DEF TypeContext, PollEvent, Return
    <3>4. TypeApp' BY <2>13 DEF TypeApp, PollEvent, Return
    <3>5. QED BY <3>1, <3>2, <3>3, <3>4
  <2>14. CASE PollIn
    <3>1. TypeSignal' BY <2>14 DEF TypeSignal, PollIn, Goto
    <3>2. TypeQueue' BY <2>14 DEF TypeQueue, PollIn, Goto
    <3>3. TypeContext' BY <2>14 DEF TypeContext, PollIn, Goto
    <3>4. TypeApp' BY <2>14 DEF TypeApp, PollIn, Goto
    <3>5. QED BY <3>1, <3>2, <3>3, <3>4
  <2>15. CASE Dqbuf
    <3>1. TypeSignal' BY <2>15 DEF TypeSignal, Dqbuf
    <3>2. TypeQueue' BY <2>15 DEF TypeQueue, Dqbuf
    <3>3. TypeContext' BY <2>15 DEF TypeContext, TypeQueue, Dqbuf
    <3>4. TypeApp' BY <2>15 DEF TypeApp, Dqbuf
    <3>5. QED BY <3>1, <3>2, <3>3, <3>4
  <2>16. CASE DqbufFail
    <3>1. TypeSignal' BY <2>16 DEF TypeSignal, DqbufFail, LossByErrno, Return
    <3>2. TypeQueue' BY <2>16 DEF TypeQueue, DqbufFail, LossByErrno, Return
    <3>3. TypeContext' BY <2>16 DEF TypeContext, DqbufFail, LossByErrno, Return
    <3>4. TypeApp' BY <2>16 DEF TypeApp, DqbufFail, LossByErrno, Return
    <3>5. QED BY <3>1, <3>2, <3>3, <3>4
  <2>17. CASE GetDmabufFail
    <3>1. TypeSignal' BY <2>17 DEF TypeSignal, GetDmabufFail, GiveBack, Qbuf,
        LossByErrno, Return
    <3>2. TypeQueue' BY <2>17 DEF TypeQueue, TypeContext, GetDmabufFail,
        GiveBack, Qbuf, LossByErrno, Return
    <3>3. TypeContext' BY <2>17 DEF TypeContext, GetDmabufFail, GiveBack, Qbuf,
        LossByErrno, Return
    <3>4. TypeApp' BY <2>17 DEF TypeApp, GetDmabufFail, GiveBack, Qbuf,
        LossByErrno, Return
    <3>5. QED BY <3>1, <3>2, <3>3, <3>4
  <2>18. CASE DropFrame
    <3>1. TypeSignal' BY <2>18 DEF TypeSignal, DropFrame, GiveBack, Qbuf, Goto
    <3>2. TypeQueue' BY <2>18 DEF TypeQueue, TypeContext, DropFrame, GiveBack,
        Qbuf, Goto
    <3>3. TypeContext' BY <2>18 DEF TypeContext, DropFrame, GiveBack, Qbuf, Goto
    <3>4. TypeApp' BY <2>18 DEF TypeApp, DropFrame, GiveBack, Qbuf, Goto
    <3>5. QED BY <3>1, <3>2, <3>3, <3>4
  <2>19. CASE ConvertFail
    <3>1. TypeSignal' BY <2>19 DEF TypeSignal, ConvertFail, GiveBack, Qbuf, Return
    <3>2. TypeQueue' BY <2>19 DEF TypeQueue, TypeContext, ConvertFail, GiveBack,
        Qbuf, Return
    <3>3. TypeContext' BY <2>19 DEF TypeContext, ConvertFail, GiveBack, Qbuf,
        Return
    <3>4. TypeApp' BY <2>19 DEF TypeApp, ConvertFail, GiveBack, Qbuf, Return
    <3>5. QED BY <3>1, <3>2, <3>3, <3>4
  <2>20. CASE Deliver
    <3>1. TypeSignal' BY <2>20 DEF TypeSignal, Deliver, Return, UsesGpu,
        needs_vulkan, Converts
    <3>2. TypeQueue' BY <2>20 DEF TypeQueue, Deliver, Return, UsesGpu,
        needs_vulkan, Converts
    <3>3. TypeContext' BY <2>20 DEF TypeContext, Deliver, Return, UsesGpu,
        needs_vulkan, Converts
    <3>4. TypeApp' BY <2>20 DEF TypeApp, TypeQueue, TypeContext, Deliver,
        Return, UsesGpu, needs_vulkan, Converts
    <3>5. QED BY <3>1, <3>2, <3>3, <3>4
  <2>21. ASSUME NEW i \in Buf, vfmcap_release_frame(i) PROVE TypeOK'
    <3>1. TypeSignal' BY <2>21 DEF TypeSignal, vfmcap_release_frame, Qbuf
    <3>2. TypeQueue' BY <2>21 DEF TypeQueue, vfmcap_release_frame, Qbuf
    <3>3. TypeContext' BY <2>21 DEF TypeContext, vfmcap_release_frame, Qbuf
    <3>4. TypeApp' BY <2>21 DEF TypeApp, vfmcap_release_frame, Qbuf
    <3>5. QED BY <3>1, <3>2, <3>3, <3>4
  <2>22. CASE vfmcap_poll_event
    <3>1. TypeSignal' BY <2>22 DEF TypeSignal, vfmcap_poll_event, LossByErrno
    <3>2. TypeQueue' BY <2>22 DEF TypeQueue, vfmcap_poll_event, LossByErrno
    <3>3. TypeContext' BY <2>22 DEF TypeContext, vfmcap_poll_event, LossByErrno
    <3>4. TypeApp' BY <2>22 DEF TypeApp, vfmcap_poll_event, LossByErrno
    <3>5. QED BY <3>1, <3>2, <3>3, <3>4
  <2>23. CASE UNCHANGED vars
    BY <2>23 DEF vars, TypeSignal, TypeQueue, TypeContext, TypeApp
  <2>24. QED
    BY <2>1, <2>2, <2>3, <2>4, <2>5, <2>6, <2>7, <2>8, <2>9, <2>10, <2>11,
       <2>12, <2>13, <2>14, <2>15, <2>16, <2>17, <2>18, <2>19, <2>20, <2>21, <2>22, <2>23
    DEF Next, Acquiring
<1>3. QED BY <1>1, <1>2, PTL DEF Spec

-----------------------------------------------------------------------------
(***************************************************************************)
(* Ownership of the buffers.  FrameValidUntilReleased is not inductive: a  *)
(* step that dequeues a buffer must know that the filled queue holds only  *)
(* buffers of the driver, each once; a step that replaces the buffers must *)
(* know that nothing is held then.                                         *)
(***************************************************************************)
DriverOwnsFilled ==
  /\ \A k \in DOMAIN doneq : bufs[doneq[k]] = "queued"
  /\ \A j, k \in DOMAIN doneq : doneq[j] = doneq[k] => j = k

CallOwnsCur ==
  /\ pc = "got" => bufs[cur] = "deq" /\ cur \notin held
  /\ pc \in {"dqbuf", "got"} => ~signal_lost

NothingHeldAcross ==
  /\ ~streaming => held = {} /\ ~devOn /\ pc = "idle"
  /\ ~opened => ~streaming
  /\ pc # "idle" /\ signal_lost => held = {}
  /\ \A i \in Buf : stale[i] = 0

OwnInv ==
  /\ DriverOwnsFilled
  /\ CallOwnsCur
  /\ NothingHeldAcross
  /\ FrameValidUntilReleased
  /\ NoTokenLost

(* When the application has returned its frames before the library         *)
(* replaces its buffers (no "hoard"), the invariant of the ownership of    *)
(* buffers holds, for every number of buffers and whatever fails.          *)
LEMMA OwnInvInvariant ==
  ASSUME "hoard" \notin Allowed
  PROVE  Spec => []OwnInv
<1>1. Init => OwnInv
  BY DEF Init, OwnInv, DriverOwnsFilled, CallOwnsCur, NothingHeldAcross,
         FrameValidUntilReleased, NoTokenLost, AllBufs
<1>2. TypeOK /\ OwnInv /\ [Next]_vars => OwnInv'
  <2> SUFFICES ASSUME TypeOK, OwnInv, [Next]_vars PROVE OwnInv'
    OBVIOUS
  <2> USE DEF TypeOK, TypeQueue, TypeContext, TypeApp, OwnInv, env, dev, ctx, proto,
              call, app, Idle
  <2>1. CASE SignalLost
    BY <2>1 DEF DriverOwnsFilled, CallOwnsCur, NothingHeldAcross,
        FrameValidUntilReleased, NoTokenLost, SignalLost
  <2>2. CASE SignalRestored
    BY <2>2 DEF DriverOwnsFilled, CallOwnsCur, NothingHeldAcross,
        FrameValidUntilReleased, NoTokenLost, SignalRestored
  <2>3. ASSUME NEW i \in Buf, DriverFill(i) PROVE OwnInv'
    <3>1. DriverOwnsFilled' BY <2>3 DEF DriverOwnsFilled, DriverFill, Filled
    <3>2. CallOwnsCur' BY <2>3 DEF CallOwnsCur, DriverFill, Filled
    <3>3. NothingHeldAcross' BY <2>3 DEF NothingHeldAcross, DriverFill, Filled
    <3>4. FrameValidUntilReleased' BY <2>3 DEF FrameValidUntilReleased,
        DriverFill, Filled
    <3>5. NoTokenLost' BY <2>3 DEF NoTokenLost, DriverFill, Filled
    <3>6. QED BY <3>1, <3>2, <3>3, <3>4, <3>5
  <2>4. CASE vfmcap_open
    BY <2>4 DEF DriverOwnsFilled, CallOwnsCur, NothingHeldAcross,
        FrameValidUntilReleased, NoTokenLost, vfmcap_open
  <2>5. CASE vfmcap_start
    <3>1. /\ pc = "idle" /\ opened /\ pc' = "idle" /\ opened' = opened
          /\ held' = held /\ stale' = stale
      BY <2>5 DEF vfmcap_start, StartOk, StartFail
    <3>2. \/ UNCHANGED <<bufs, doneq, devOn, streaming>>
          \/ ~streaming /\ doneq' = <<>> /\ devOn' = FALSE /\ streaming' = FALSE
          \/ ~streaming /\ doneq' = <<>> /\ devOn' = TRUE /\ streaming' = TRUE
             /\ bufs' = AllBufs("queued")
      BY <2>5 DEF vfmcap_start, StartOk, StartFail
    <3>3. DriverOwnsFilled' BY <3>2 DEF DriverOwnsFilled
    <3>4. CallOwnsCur' BY <3>1 DEF CallOwnsCur
    <3>5. NothingHeldAcross' BY <3>1, <3>2 DEF NothingHeldAcross
    <3>6. FrameValidUntilReleased' BY <3>1, <3>2 DEF FrameValidUntilReleased,
        NothingHeldAcross
    <3>7. NoTokenLost' BY <3>1, <3>2 DEF NoTokenLost, AllBufs
    <3>8. QED BY <3>3, <3>4, <3>5, <3>6, <3>7
  <2>6. CASE vfmcap_stop
    <3>1. DriverOwnsFilled' BY <2>6 DEF DriverOwnsFilled, vfmcap_stop, AllBufs,
        Orphan
    <3>2. CallOwnsCur' BY <2>6 DEF CallOwnsCur, vfmcap_stop, AllBufs, Orphan
    <3>3. NothingHeldAcross' BY <2>6 DEF NothingHeldAcross, vfmcap_stop,
        AllBufs, Orphan
    <3>4. FrameValidUntilReleased' BY <2>6 DEF FrameValidUntilReleased,
        vfmcap_stop, AllBufs, Orphan
    <3>5. NoTokenLost' BY <2>6 DEF NoTokenLost, vfmcap_stop, AllBufs, Orphan
    <3>6. QED BY <3>1, <3>2, <3>3, <3>4, <3>5
  <2>7. CASE vfmcap_close
    <3>1. DriverOwnsFilled' BY <2>7 DEF DriverOwnsFilled, vfmcap_close, AllBufs
    <3>2. CallOwnsCur' BY <2>7 DEF CallOwnsCur, vfmcap_close, AllBufs
    <3>3. NothingHeldAcross' BY <2>7 DEF NothingHeldAcross, vfmcap_close, AllBufs
    <3>4. FrameValidUntilReleased' BY <2>7 DEF FrameValidUntilReleased,
        vfmcap_close, AllBufs
    <3>5. NoTokenLost' BY <2>7 DEF NoTokenLost, vfmcap_close, AllBufs
    <3>6. QED BY <3>1, <3>2, <3>3, <3>4, <3>5
  <2>8. ASSUME NEW t \in Timeouts, vfmcap_acquire_frame(t) PROVE OwnInv'
    BY <2>8 DEF DriverOwnsFilled, CallOwnsCur, NothingHeldAcross,
        FrameValidUntilReleased, NoTokenLost, vfmcap_acquire_frame, Return
  <2>9. CASE RecoverTimeout
    BY <2>9 DEF DriverOwnsFilled, CallOwnsCur, NothingHeldAcross,
        FrameValidUntilReleased, NoTokenLost, RecoverTimeout, Return
  <2>10. CASE RecoverEvent
    <3>1. DriverOwnsFilled' BY <2>10 DEF DriverOwnsFilled, RecoverEvent,
        vfmcap_do_reconfig, ReconfigFail, Orphan, AllBufs
    <3>2. CallOwnsCur' BY <2>10 DEF CallOwnsCur, RecoverEvent,
        vfmcap_do_reconfig, ReconfigFail, Orphan, AllBufs
    <3>3. NothingHeldAcross' BY <2>10 DEF NothingHeldAcross, RecoverEvent,
        vfmcap_do_reconfig, ReconfigFail, Orphan, AllBufs
    <3>4. FrameValidUntilReleased' BY <2>10 DEF FrameValidUntilReleased,
        RecoverEvent, vfmcap_do_reconfig, ReconfigFail, Orphan, AllBufs
    <3>5. NoTokenLost' BY <2>10 DEF NoTokenLost, RecoverEvent,
        vfmcap_do_reconfig, ReconfigFail, Orphan, AllBufs
    <3>6. QED BY <3>1, <3>2, <3>3, <3>4, <3>5
  <2>11. CASE PollTimeout
    BY <2>11 DEF DriverOwnsFilled, CallOwnsCur, NothingHeldAcross,
        FrameValidUntilReleased, NoTokenLost, PollTimeout, Return
  <2>12. CASE PollError
    BY <2>12 DEF DriverOwnsFilled, CallOwnsCur, NothingHeldAcross,
        FrameValidUntilReleased, NoTokenLost, PollError, Return
  <2>13. CASE PollEvent
    BY <2>13 DEF DriverOwnsFilled, CallOwnsCur, NothingHeldAcross,
        FrameValidUntilReleased, NoTokenLost, PollEvent, Return
  <2>14. CASE PollIn
    BY <2>14 DEF DriverOwnsFilled, CallOwnsCur, NothingHeldAcross,
        FrameValidUntilReleased, NoTokenLost, PollIn, Goto
  <2>15. CASE Dqbuf
    <3>1. DriverOwnsFilled'
      <4>1. Len(doneq) > 0 /\ Head(doneq) = doneq[1] /\ 1 \in DOMAIN doneq
        BY <2>15 DEF Dqbuf
      <4>2. \A k \in DOMAIN doneq' : k + 1 \in DOMAIN doneq /\ k + 1 # 1
                                   /\ doneq'[k] = doneq[k + 1]
        BY <2>15, <4>1 DEF Dqbuf
      <4>3. \A k \in DOMAIN doneq' : bufs'[doneq'[k]] = "queued"
        BY <2>15, <4>1, <4>2 DEF Dqbuf, DriverOwnsFilled
      <4>4. \A j, k \in DOMAIN doneq' : doneq'[j] = doneq'[k] => j = k
        <5> SUFFICES ASSUME NEW j \in DOMAIN doneq', NEW k \in DOMAIN doneq',
                            doneq'[j] = doneq'[k]
                     PROVE  j = k
          OBVIOUS
        <5>1. j + 1 = k + 1 BY <4>2 DEF DriverOwnsFilled
        <5>2. DOMAIN doneq' \subseteq Nat
          <6>1. doneq \in Seq(Buf) OBVIOUS
          <6>2. doneq' = Tail(doneq) BY <2>15 DEF Dqbuf
          <6>3. doneq' \in Seq(Buf) BY ONLY <6>1, <6>2, <4>1
          <6>4. QED BY ONLY <6>3
        <5>3. QED BY <5>1, <5>2
      <4>5. QED BY <4>3, <4>4 DEF DriverOwnsFilled
    <3>2. CallOwnsCur' BY <2>15 DEF CallOwnsCur, DriverOwnsFilled,
        FrameValidUntilReleased, Dqbuf
    <3>3. NothingHeldAcross' BY <2>15 DEF NothingHeldAcross, Dqbuf
    <3>4. FrameValidUntilReleased' BY <2>15 DEF FrameValidUntilReleased, Dqbuf
    <3>5. NoTokenLost' BY <2>15 DEF NoTokenLost, Dqbuf
    <3>6. QED BY <3>1, <3>2, <3>3, <3>4, <3>5
  <2>16. CASE DqbufFail
    BY <2>16 DEF DriverOwnsFilled, CallOwnsCur, NothingHeldAcross,
        FrameValidUntilReleased, NoTokenLost, DqbufFail, Return, LossByErrno
  <2>17. CASE GetDmabufFail
    <3>1. DriverOwnsFilled' BY <2>17 DEF DriverOwnsFilled, GetDmabufFail,
        GiveBack, Qbuf, Return, LossByErrno
    <3>2. CallOwnsCur' BY <2>17 DEF CallOwnsCur, GetDmabufFail, GiveBack, Qbuf,
        Return, LossByErrno
    <3>3. NothingHeldAcross' BY <2>17 DEF NothingHeldAcross, GetDmabufFail,
        GiveBack, Qbuf, Return, LossByErrno
    <3>4. FrameValidUntilReleased' BY <2>17 DEF FrameValidUntilReleased,
        CallOwnsCur, GetDmabufFail, GiveBack, Qbuf, Return, LossByErrno
    <3>5. NoTokenLost' BY <2>17 DEF NoTokenLost, CallOwnsCur, GetDmabufFail,
        GiveBack, Qbuf, Return, LossByErrno
    <3>6. QED BY <3>1, <3>2, <3>3, <3>4, <3>5
  <2>18. CASE DropFrame
    <3>1. DriverOwnsFilled' BY <2>18 DEF DriverOwnsFilled, DropFrame, GiveBack,
        Qbuf, Goto
    <3>2. CallOwnsCur' BY <2>18 DEF CallOwnsCur, DropFrame, GiveBack, Qbuf, Goto
    <3>3. NothingHeldAcross' BY <2>18 DEF NothingHeldAcross, DropFrame,
        GiveBack, Qbuf, Goto
    <3>4. FrameValidUntilReleased' BY <2>18 DEF FrameValidUntilReleased,
        CallOwnsCur, DropFrame, GiveBack, Qbuf, Goto
    <3>5. NoTokenLost' BY <2>18 DEF NoTokenLost, CallOwnsCur, DropFrame,
        GiveBack, Qbuf, Goto
    <3>6. QED BY <3>1, <3>2, <3>3, <3>4, <3>5
  <2>19. CASE ConvertFail
    <3>1. DriverOwnsFilled' BY <2>19 DEF DriverOwnsFilled, ConvertFail,
        GiveBack, Qbuf, Return
    <3>2. CallOwnsCur' BY <2>19 DEF CallOwnsCur, ConvertFail, GiveBack, Qbuf,
        Return
    <3>3. NothingHeldAcross' BY <2>19 DEF NothingHeldAcross, ConvertFail,
        GiveBack, Qbuf, Return
    <3>4. FrameValidUntilReleased' BY <2>19 DEF FrameValidUntilReleased,
        CallOwnsCur, ConvertFail, GiveBack, Qbuf, Return
    <3>5. NoTokenLost' BY <2>19 DEF NoTokenLost, CallOwnsCur, ConvertFail,
        GiveBack, Qbuf, Return
    <3>6. QED BY <3>1, <3>2, <3>3, <3>4, <3>5
  <2>20. CASE Deliver
    <3>1. DriverOwnsFilled' BY <2>20 DEF DriverOwnsFilled, Deliver, Return
    <3>2. CallOwnsCur' BY <2>20 DEF CallOwnsCur, Deliver, Return
    <3>3. NothingHeldAcross' BY <2>20 DEF NothingHeldAcross, Deliver, Return
    <3>4. FrameValidUntilReleased' BY <2>20 DEF FrameValidUntilReleased,
        CallOwnsCur, Deliver, Return
    <3>5. NoTokenLost' BY <2>20 DEF NoTokenLost, Deliver, Return
    <3>6. QED BY <3>1, <3>2, <3>3, <3>4, <3>5
  <2>21. ASSUME NEW i \in Buf, vfmcap_release_frame(i) PROVE OwnInv'
    <3>1. i \in held /\ held' = held \ {i} /\ stale' = stale
      BY <2>21 DEF vfmcap_release_frame, NothingHeldAcross
    <3>2. bufs[i] = "deq" /\ bufs' = [bufs EXCEPT ![i] = "queued"]
      BY <2>21, <3>1 DEF vfmcap_release_frame, Qbuf, FrameValidUntilReleased
    <3>3. UNCHANGED <<doneq, devOn, opened, streaming, signal_lost, pc, cur>>
      BY <2>21 DEF vfmcap_release_frame
    <3>4. DriverOwnsFilled' BY <3>2, <3>3 DEF DriverOwnsFilled
    <3>5. CallOwnsCur' BY <3>1, <3>2, <3>3 DEF CallOwnsCur
    <3>6. NothingHeldAcross' BY <3>1, <3>3 DEF NothingHeldAcross
    <3>7. FrameValidUntilReleased' BY <3>1, <3>2 DEF FrameValidUntilReleased
    <3>8. NoTokenLost' BY <3>1, <3>2, <3>3 DEF NoTokenLost
    <3>9. QED BY <3>4, <3>5, <3>6, <3>7, <3>8
  <2>22. CASE vfmcap_poll_event
    BY <2>22 DEF DriverOwnsFilled, CallOwnsCur, NothingHeldAcross,
        FrameValidUntilReleased, NoTokenLost, vfmcap_poll_event, LossByErrno
  <2>23. CASE UNCHANGED vars
    BY <2>23 DEF vars, DriverOwnsFilled, CallOwnsCur, NothingHeldAcross,
        FrameValidUntilReleased, NoTokenLost
  <2>24. QED
    BY <2>1, <2>2, <2>3, <2>4, <2>5, <2>6, <2>7, <2>8, <2>9, <2>10, <2>11,
       <2>12, <2>13, <2>14, <2>15, <2>16, <2>17, <2>18, <2>19, <2>20, <2>21, <2>22, <2>23
    DEF Next, Acquiring
<1>3. QED BY <1>1, <1>2, TypeCorrect, PTL DEF Spec

(* Under the same condition a frame the application holds is never with    *)
(* the driver.                                                             *)
THEOREM OwnershipSafe ==
  ASSUME "hoard" \notin Allowed
  PROVE  Spec => []FrameValidUntilReleased
<1>1. OwnInv => FrameValidUntilReleased BY DEF OwnInv
<1>2. QED BY <1>1, OwnInvInvariant, PTL

(* Under the same condition no error path of vfmcap_acquire_frame loses a  *)
(* buffer token: the queue does not run dry one failed frame at a time.    *)
THEOREM TokensKept ==
  ASSUME "hoard" \notin Allowed
  PROVE  Spec => []NoTokenLost
<1>1. OwnInv => NoTokenLost BY DEF OwnInv
<1>2. QED BY <1>1, OwnInvInvariant, PTL

(* Under the same condition the context implements the contract of CapApi: *)
(* every step of the library, the driver and the signal is a step of the   *)
(* contract or leaves what the caller sees unchanged.                      *)
THEOREM Refinement ==
  ASSUME "hoard" \notin Allowed
  PROVE  Spec => ImplementsApi
<1>1. Init => Api!ApiInit
  BY DEF Init, Api!ApiInit
<1>2. TypeOK /\ OwnInv /\ [Next]_vars => [Api!ApiNext]_(Api!apiVars)
  <2> SUFFICES ASSUME TypeOK, OwnInv, [Next]_vars
               PROVE  Api!ApiNext \/ UNCHANGED Api!apiVars
    OBVIOUS
  <2> USE DEF TypeOK, TypeContext, TypeApp, env, dev, ctx, proto, call, app, Idle,
              Api!apiVars
  <2>1. CASE SignalLost BY <2>1 DEF SignalLost
  <2>2. CASE SignalRestored BY <2>2 DEF SignalRestored
  <2>3. ASSUME NEW i \in Buf, DriverFill(i) PROVE UNCHANGED Api!apiVars
    BY <2>3 DEF DriverFill
  <2>4. CASE vfmcap_open
    <3>1. Api!Open BY <2>4 DEF vfmcap_open, TypeSignal, Api!Open
    <3>2. QED BY <3>1 DEF Api!ApiNext
  <2>5. CASE vfmcap_start
    <3>1. /\ opened /\ pc = "idle" /\ UNCHANGED <<opened, pc, held, reconfig_pending>>
          /\ fmt' \in Fmt \cup {NoFmt} /\ (streaming => fmt' = fmt)
      BY <2>5 DEF vfmcap_start, TypeSignal
    <3>2. \/ streaming' = streaming /\ signal_lost' = signal_lost
          \/ streaming' = TRUE /\ signal_lost' = FALSE
      BY <2>5 DEF vfmcap_start, StartOk, StartFail
    <3>3. \/ ret' \in {"ioctl", "vulkan", "inval"}
          \/ ret' = "ok" /\ streaming' = TRUE
      <4>1. CASE streaming
        <5>1. streaming = TRUE BY <4>1
        <5>2. QED BY <2>5, <5>1 DEF vfmcap_start
      <4>2. CASE ~streaming
        BY <2>5, <4>2 DEF vfmcap_start, StartOk, StartFail
      <4>3. QED BY <4>1, <4>2
    <3>4. Api!Start BY <3>1, <3>2, <3>3 DEF Api!Start
    <3>5. QED BY <3>4 DEF Api!ApiNext
  <2>6. CASE vfmcap_stop
    <3>1. Api!Stop BY <2>6 DEF vfmcap_stop, Orphan, Api!Stop
    <3>2. QED BY <3>1 DEF Api!ApiNext
  <2>7. CASE vfmcap_close
    <3>1. Api!Close BY <2>7 DEF vfmcap_close, Api!Close
    <3>2. QED BY <3>1 DEF Api!ApiNext
  <2>8. ASSUME NEW t \in Timeouts, vfmcap_acquire_frame(t) PROVE Api!ApiNext
    <3>1. Api!Acquire BY <2>8 DEF vfmcap_acquire_frame, Return, Api!Acquire
    <3>2. QED BY <3>1 DEF Api!ApiNext
  <2>9. CASE RecoverTimeout
    <3>1. Api!Fail BY <2>9 DEF RecoverTimeout, Return, Api!Fail, Api!Failures
    <3>2. QED BY <3>1 DEF Api!ApiNext
  <2>10. CASE RecoverEvent
    <3>1. Api!Replace
      BY <2>10 DEF RecoverEvent, vfmcap_do_reconfig, ReconfigFail, Orphan,
         TypeSignal, Api!Replace
    <3>2. QED BY <3>1 DEF Api!ApiNext
  <2>11. CASE PollTimeout
    <3>1. Api!Fail BY <2>11 DEF PollTimeout, Return, Api!Fail, Api!Failures
    <3>2. QED BY <3>1 DEF Api!ApiNext
  <2>12. CASE PollError
    <3>1. Api!Fail BY <2>12 DEF PollError, Return, Api!Fail, Api!Failures
    <3>2. QED BY <3>1 DEF Api!ApiNext
  <2>13. CASE PollEvent
    <3>1. Api!Fail BY <2>13 DEF PollEvent, Return, Api!Fail, Api!Failures
    <3>2. QED BY <3>1 DEF Api!ApiNext
  <2>14. CASE PollIn BY <2>14 DEF PollIn, Goto
  <2>15. CASE Dqbuf BY <2>15 DEF Dqbuf
  <2>16. CASE DqbufFail
    <3>1. Api!Fail BY <2>16 DEF DqbufFail, Return, Api!Fail, Api!Failures
    <3>2. QED BY <3>1 DEF Api!ApiNext
  <2>17. CASE GetDmabufFail
    <3>1. Api!Fail
      BY <2>17 DEF GetDmabufFail, GiveBack, Return, Api!Fail, Api!Failures
    <3>2. QED BY <3>1 DEF Api!ApiNext
  <2>18. CASE DropFrame BY <2>18 DEF DropFrame, GiveBack, Goto
  <2>19. CASE ConvertFail
    <3>1. Api!Fail
      BY <2>19 DEF ConvertFail, GiveBack, Return, Api!Fail, Api!Failures
    <3>2. QED BY <3>1 DEF Api!ApiNext
  <2>20. CASE Deliver
    <3>1. cur \notin held /\ ~signal_lost
      BY <2>20 DEF Deliver, OwnInv, CallOwnsCur
    <3>2. Api!Got(cur) BY <2>20, <3>1 DEF Deliver, Return, Api!Got
    <3>3. QED BY <3>2 DEF Api!ApiNext
  <2>21. ASSUME NEW i \in Buf, vfmcap_release_frame(i) PROVE Api!ApiNext
    <3>1. i \in held BY <2>21 DEF vfmcap_release_frame, OwnInv, NothingHeldAcross
    <3>2. Api!Release(i)
      BY <2>21, <3>1 DEF vfmcap_release_frame, Api!Release, OwnInv, NothingHeldAcross
    <3>3. QED BY <3>2 DEF Api!ApiNext
  <2>22. CASE vfmcap_poll_event
    <3>1. Api!PollEventApi
      BY <2>22 DEF vfmcap_poll_event, Api!PollEventApi
    <3>2. QED BY <3>1 DEF Api!ApiNext
  <2>23. CASE UNCHANGED vars BY <2>23 DEF vars
  <2>24. QED
    BY <2>1, <2>2, <2>3, <2>4, <2>5, <2>6, <2>7, <2>8, <2>9, <2>10, <2>11,
       <2>12, <2>13, <2>14, <2>15, <2>16, <2>17, <2>18, <2>19, <2>20, <2>21, <2>22, <2>23
    DEF Next, Acquiring
<1>3. Spec => []OwnInv BY OwnInvInvariant
<1>4. QED BY <1>1, <1>2, <1>3, TypeCorrect, PTL DEF Spec, ImplementsApi, Api!ApiSpec

-----------------------------------------------------------------------------
(***************************************************************************)
(* Formats.  AppKnowsFormat speaks of the last frame delivered; a delivery *)
(* preserves it because a format the application has not been told of is   *)
(* always accompanied by reconfig_pending while the context streams, and a *)
(* call in progress means that it streams.                                 *)
(***************************************************************************)
CallWhileStreaming ==
  /\ ~streaming => pc = "idle"
  /\ ~opened => ~streaming

ChangePending ==
  streaming /\ ~reconfig_pending /\ appFmt # NoFmt => appFmt = fmt

AnnounceInv == CallWhileStreaming /\ ChangePending /\ AppKnowsFormat

(* The application is told of every format before or with its first frame, *)
(* whatever fails, whatever the application holds and however it polls for *)
(* events.                                                                 *)
THEOREM FormatAnnounced == Spec => []AppKnowsFormat
<1>1. Init => AnnounceInv
  BY DEF Init, AnnounceInv, CallWhileStreaming, ChangePending, AppKnowsFormat
<1>2. TypeOK /\ AnnounceInv /\ [Next]_vars => AnnounceInv'
  <2> SUFFICES ASSUME TypeOK, AnnounceInv, [Next]_vars PROVE AnnounceInv'
    OBVIOUS
  <2> USE DEF TypeOK, TypeContext, TypeApp, AnnounceInv, env, dev, ctx, proto,
              call, app, Idle
  <2>1. CASE SignalLost
    BY <2>1 DEF CallWhileStreaming, ChangePending, AppKnowsFormat, SignalLost,
        Push
  <2>2. CASE SignalRestored
    BY <2>2 DEF CallWhileStreaming, ChangePending, AppKnowsFormat,
        SignalRestored, Push
  <2>3. ASSUME NEW i \in Buf, DriverFill(i) PROVE AnnounceInv'
    BY <2>3 DEF CallWhileStreaming, ChangePending, AppKnowsFormat, DriverFill,
        Filled
  <2>4. CASE vfmcap_open
    BY <2>4 DEF CallWhileStreaming, ChangePending, AppKnowsFormat, vfmcap_open
  <2>5. CASE vfmcap_start
    <3>1. pc = "idle" /\ pc' = "idle" /\ opened /\ opened' /\ frame' = frame
      BY <2>5 DEF vfmcap_start
    <3>2. \/ UNCHANGED <<streaming, reconfig_pending, appFmt, fmt>>
          \/ appFmt' = NoFmt
      BY <2>5 DEF vfmcap_start
    <3>3. QED
      BY <3>1, <3>2 DEF CallWhileStreaming, ChangePending, AppKnowsFormat
  <2>6. CASE vfmcap_stop
    BY <2>6 DEF CallWhileStreaming, ChangePending, AppKnowsFormat, vfmcap_stop,
        Orphan
  <2>7. CASE vfmcap_close
    BY <2>7 DEF CallWhileStreaming, ChangePending, AppKnowsFormat, vfmcap_close
  <2>8. ASSUME NEW t \in Timeouts, vfmcap_acquire_frame(t) PROVE AnnounceInv'
    BY <2>8 DEF CallWhileStreaming, ChangePending, AppKnowsFormat,
        vfmcap_acquire_frame, Return
  <2>9. CASE RecoverTimeout
    BY <2>9 DEF CallWhileStreaming, ChangePending, AppKnowsFormat,
        RecoverTimeout, Return
  <2>10. CASE RecoverEvent
    BY <2>10 DEF CallWhileStreaming, ChangePending, AppKnowsFormat,
        RecoverEvent, vfmcap_do_reconfig, ReconfigFail, Orphan
  <2>11. CASE PollTimeout
    BY <2>11 DEF CallWhileStreaming, ChangePending, AppKnowsFormat,
        PollTimeout, Return
  <2>12. CASE PollError
    BY <2>12 DEF CallWhileStreaming, ChangePending, AppKnowsFormat, PollError,
        Return, PollErr, LossByErrno
  <2>13. CASE PollEvent
    BY <2>13 DEF CallWhileStreaming, ChangePending, AppKnowsFormat, PollEvent,
        Return
  <2>14. CASE PollIn
    BY <2>14 DEF CallWhileStreaming, ChangePending, AppKnowsFormat, PollIn,
        Goto
  <2>15. CASE Dqbuf
    BY <2>15 DEF CallWhileStreaming, ChangePending, AppKnowsFormat, Dqbuf
  <2>16. CASE DqbufFail
    BY <2>16 DEF CallWhileStreaming, ChangePending, AppKnowsFormat, DqbufFail,
        Return, LossByErrno
  <2>17. CASE GetDmabufFail
    BY <2>17 DEF CallWhileStreaming, ChangePending, AppKnowsFormat,
        GetDmabufFail, GiveBack, Qbuf, Return, LossByErrno
  <2>18. CASE DropFrame
    BY <2>18 DEF CallWhileStreaming, ChangePending, AppKnowsFormat, DropFrame,
        GiveBack, Qbuf, Goto
  <2>19. CASE ConvertFail
    BY <2>19 DEF CallWhileStreaming, ChangePending, AppKnowsFormat,
        ConvertFail, GiveBack, Qbuf, Return
  <2>20. CASE Deliver
    BY <2>20 DEF CallWhileStreaming, ChangePending, AppKnowsFormat, Deliver,
        Return
  <2>21. ASSUME NEW i \in Buf, vfmcap_release_frame(i) PROVE AnnounceInv'
    BY <2>21 DEF CallWhileStreaming, ChangePending, AppKnowsFormat,
        vfmcap_release_frame, Qbuf
  <2>22. CASE vfmcap_poll_event
    BY <2>22 DEF CallWhileStreaming, ChangePending, AppKnowsFormat,
        vfmcap_poll_event, LossByErrno
  <2>23. CASE UNCHANGED vars BY <2>23 DEF vars, CallWhileStreaming,
      ChangePending, AppKnowsFormat
  <2>24. QED
    BY <2>1, <2>2, <2>3, <2>4, <2>5, <2>6, <2>7, <2>8, <2>9, <2>10, <2>11,
       <2>12, <2>13, <2>14, <2>15, <2>16, <2>17, <2>18, <2>19, <2>20, <2>21,
       <2>22, <2>23
    DEF Next, Acquiring
<1>3. AnnounceInv => AppKnowsFormat BY DEF AnnounceInv
<1>4. QED BY <1>1, <1>2, <1>3, TypeCorrect, PTL DEF Spec

-----------------------------------------------------------------------------
(***************************************************************************)
(* The pairing of events.  The code does not look into an event: it takes  *)
(* the first after a start for a loss, the next for a restoration, and so  *)
(* on by signal_lost alone.  The pairing holds as long as the driver tells *)
(* of a change by an event only, no setup ioctl fails, streaming starts    *)
(* with a signal, nobody else consumes events and the queue of the driver  *)
(* does not overflow.                                                      *)
(***************************************************************************)
EventsOnly ==
  /\ Allowed \subseteq {"drop", "vk_fail", "hoard"}
  /\ MaxFlips <= EventDepth

(* The queued events alternate, from the one signal_lost waits for to the  *)
(* one of the present signal.                                              *)
NextEvent == IF signal_lost THEN "restored" ELSE "lost"

Alternate ==
  /\ events # <<>> => events[1] = NextEvent
  /\ \A k \in 1..(Len(events) - 1) : events[k] # events[k + 1]
  /\ events = <<>> => (signal_lost <=> sig = "lost")
  /\ events # <<>> => (events[Len(events)] = "lost" <=> sig = "lost")

EventPairing ==
  /\ Len(events) <= flips
  /\ streaming => devOn /\ subscribed /\ Alternate

PairInv == CallWhileStreaming /\ EventPairing

(* Under these conditions the pairing is an invariant.                     *)
LEMMA PairInvInvariant ==
  ASSUME EventsOnly
  PROVE  Spec => []PairInv
<1>1. Init => PairInv
  BY DEF Init, PairInv, CallWhileStreaming, EventPairing
<1>2. TypeOK /\ PairInv /\ [Next]_vars => PairInv'
  <2> SUFFICES ASSUME TypeOK, PairInv, [Next]_vars PROVE PairInv'
    OBVIOUS
  <2> USE DEF TypeOK, TypeSignal, TypeQueue, TypeContext, PairInv, env, dev, ctx, proto,
              call, app, Idle
  <2>1. CASE SignalLost
    <3>1. CallWhileStreaming' BY <2>1 DEF CallWhileStreaming, SignalLost
    <3>2. /\ flips' = flips + 1 /\ sig' # sig
          /\ UNCHANGED <<streaming, subscribed, devOn, signal_lost>>
      BY <2>1 DEF SignalLost
    <3>3. Len(events) < EventDepth
      BY <2>1 DEF SignalLost, EventPairing, EventsOnly
    <3>4. CASE ~subscribed
      BY <2>1, <3>1, <3>2, <3>4 DEF SignalLost, Push, EventPairing
    <3>5. CASE subscribed
      <4>1. events' = Append(events, "lost")
        BY <2>1, <3>3, <3>5 DEF SignalLost, Push
      <4>2. /\ Len(events) \in Nat /\ Len(events') = Len(events) + 1
            /\ events'[Len(events')] = "lost"
            /\ \A k \in 1..Len(events) : events'[k] = events[k]
        BY <4>1
      <4>3. ASSUME streaming PROVE Alternate'
        <5>1. events'[1] = NextEvent'
          BY <2>1, <3>2, <4>2, <4>3 DEF SignalLost, EventPairing, Alternate, NextEvent
        <5>2. ASSUME NEW k \in 1..(Len(events') - 1)
              PROVE  events'[k] # events'[k + 1]
          <6>1. CASE k < Len(events)
            <7>1. /\ k \in 1..(Len(events) - 1)
                  /\ k \in 1..Len(events) /\ k + 1 \in 1..Len(events)
              BY <4>2, <6>1
            <7>2. QED BY <4>2, <4>3, <7>1 DEF EventPairing, Alternate
          <6>2. CASE k = Len(events)
            <7>1. events # <<>> /\ events'[k] = events[Len(events)]
              BY <4>2, <6>2
            <7>2. events[Len(events)] = "lost" <=> sig = "lost"
              BY <4>3, <7>1 DEF EventPairing, Alternate
            <7>3. events'[k + 1] = "lost" BY <4>2, <6>2
            <7>4. QED BY <2>1, <7>1, <7>2, <7>3 DEF SignalLost
          <6>3. QED BY <4>2, <6>1, <6>2
        <5>3. QED BY <2>1, <3>2, <4>2, <5>1, <5>2 DEF SignalLost, Alternate
      <4>4. QED BY <3>1, <3>2, <4>2, <4>3 DEF EventPairing
    <3>6. QED BY <3>4, <3>5
  <2>2. CASE SignalRestored
    <3>1. CallWhileStreaming' BY <2>2 DEF CallWhileStreaming, SignalRestored
    <3>2. /\ flips' = flips + 1 /\ sig' # sig
          /\ UNCHANGED <<streaming, subscribed, devOn, signal_lost>>
      BY <2>2 DEF SignalRestored
    <3>3. Len(events) < EventDepth
      BY <2>2 DEF SignalRestored, EventPairing, EventsOnly
    <3>4. CASE ~subscribed
      BY <2>2, <3>1, <3>2, <3>4 DEF SignalRestored, Push, EventPairing
    <3>5. CASE subscribed
      <4>1. events' = Append(events, "restored")
        BY <2>2, <3>3, <3>5 DEF SignalRestored, Push
      <4>2. /\ Len(events) \in Nat /\ Len(events') = Len(events) + 1
            /\ events'[Len(events')] = "restored"
            /\ \A k \in 1..Len(events) : events'[k] = events[k]
        BY <4>1
      <4>3. ASSUME streaming PROVE Alternate'
        <5>1. events'[1] = NextEvent'
          BY <2>2, <3>2, <4>2, <4>3 DEF SignalRestored, EventPairing, Alternate,
            NextEvent
        <5>2. ASSUME NEW k \in 1..(Len(events') - 1)
              PROVE  events'[k] # events'[k + 1]
          <6>1. CASE k < Len(events)
            <7>1. /\ k \in 1..(Len(events) - 1)
                  /\ k \in 1..Len(events) /\ k + 1 \in 1..Len(events)
              BY <4>2, <6>1
            <7>2. QED BY <4>2, <4>3, <7>1 DEF EventPairing, Alternate
          <6>2. CASE k = Len(events)
            <7>1. events # <<>> /\ events'[k] = events[Len(events)]
              BY <4>2, <6>2
            <7>2. events[Len(events)] = "lost" <=> sig = "lost"
              BY <4>3, <7>1 DEF EventPairing, Alternate
            <7>3. events'[k + 1] = "restored" BY <4>2, <6>2
            <7>4. QED BY <2>2, <7>1, <7>2, <7>3 DEF SignalRestored
          <6>3. QED BY <4>2, <6>1, <6>2
        <5>3. QED BY <2>2, <3>2, <4>2, <5>1, <5>2 DEF SignalRestored, Alternate
      <4>4. QED BY <3>1, <3>2, <4>2, <4>3 DEF EventPairing
    <3>6. QED BY <3>4, <3>5
  <2>3. ASSUME NEW i \in Buf, DriverFill(i) PROVE PairInv'
    <3>1. CallWhileStreaming' BY <2>3 DEF CallWhileStreaming, DriverFill,
        Filled
    <3>2. EventPairing' BY <2>3 DEF EventPairing, Alternate, NextEvent,
        EventsOnly, DriverFill, Filled
    <3>3. QED BY <3>1, <3>2
  <2>4. CASE vfmcap_open
    <3>1. CallWhileStreaming' BY <2>4 DEF CallWhileStreaming, vfmcap_open
    <3>2. EventPairing' BY <2>4 DEF EventPairing, Alternate, NextEvent,
        EventsOnly, vfmcap_open
    <3>3. QED BY <3>1, <3>2
  <2>5. CASE vfmcap_start
    <3>1. CallWhileStreaming'
      BY <2>5 DEF CallWhileStreaming, vfmcap_start, StartOk, StartFail
    <3>2. \/ UNCHANGED <<events, devOn, subscribed, streaming, signal_lost>>
          \/ events' = <<>> /\ devOn' = TRUE /\ subscribed' = TRUE /\ signal_lost' = FALSE
      BY <2>5 DEF vfmcap_start, StartOk, StartFail, EventsOnly
    <3>3. sig = "stable" /\ UNCHANGED <<sig, flips>>
      BY <2>5 DEF vfmcap_start, EventsOnly
    <3>4. EventPairing' BY <3>2, <3>3 DEF EventPairing, Alternate, NextEvent
    <3>5. QED BY <3>1, <3>4
  <2>6. CASE vfmcap_stop
    <3>1. CallWhileStreaming' BY <2>6 DEF CallWhileStreaming, vfmcap_stop,
        Orphan
    <3>2. EventPairing' BY <2>6 DEF EventPairing, Alternate, NextEvent,
        EventsOnly, vfmcap_stop, Orphan
    <3>3. QED BY <3>1, <3>2
  <2>7. CASE vfmcap_close
    <3>1. CallWhileStreaming' BY <2>7 DEF CallWhileStreaming, vfmcap_close
    <3>2. EventPairing' BY <2>7 DEF EventPairing, Alternate, NextEvent,
        EventsOnly, vfmcap_close
    <3>3. QED BY <3>1, <3>2
  <2>8. ASSUME NEW t \in Timeouts, vfmcap_acquire_frame(t) PROVE PairInv'
    <3>1. CallWhileStreaming' BY <2>8 DEF CallWhileStreaming,
        vfmcap_acquire_frame, Return
    <3>2. EventPairing' BY <2>8 DEF EventPairing, Alternate, NextEvent,
        EventsOnly, vfmcap_acquire_frame, Return
    <3>3. QED BY <3>1, <3>2
  <2>9. CASE RecoverTimeout
    <3>1. CallWhileStreaming' BY <2>9 DEF CallWhileStreaming, RecoverTimeout,
        Return
    <3>2. EventPairing' BY <2>9 DEF EventPairing, Alternate, NextEvent,
        EventsOnly, RecoverTimeout, Return
    <3>3. QED BY <3>1, <3>2
  <2>10. CASE RecoverEvent
    <3>1. CallWhileStreaming' BY <2>10 DEF CallWhileStreaming, RecoverEvent
    <3>2. /\ events # <<>> /\ events' = Tail(events)
          /\ UNCHANGED <<sig, flips, streaming, subscribed>>
          /\ signal_lost = TRUE /\ signal_lost' = FALSE
      BY <2>10 DEF RecoverEvent, vfmcap_do_reconfig, ReconfigFail
    <3>3. streaming BY <2>10 DEF CallWhileStreaming, RecoverEvent
    <3>4. devOn' = TRUE
      BY <2>10, <3>3 DEF EventPairing, EventsOnly, RecoverEvent,
         vfmcap_do_reconfig, ReconfigFail
    <3>5. /\ Len(events) \in Nat /\ Len(events') = Len(events) - 1
          /\ \A k \in 1..Len(events') : events'[k] = events[k + 1]
      BY <3>2
    <3>6. \A k \in 1..Len(events) : events[k] \in {"lost", "restored"}
      OBVIOUS
    <3>7. Alternate'
      <4>1. events' # <<>> => events'[1] # events[1]
        BY <3>2, <3>3, <3>5 DEF EventPairing, Alternate
      <4>2. events' # <<>> => events'[1] = NextEvent'
        BY <3>2, <3>3, <3>5, <3>6, <4>1 DEF EventPairing, Alternate, NextEvent
      <4>3. \A k \in 1..(Len(events') - 1) : events'[k] # events'[k + 1]
        BY <3>3, <3>5 DEF EventPairing, Alternate
      <4>4. events' = <<>> => (signal_lost' <=> sig' = "lost")
        <5> SUFFICES ASSUME events' = <<>> PROVE signal_lost' <=> sig' = "lost"
          OBVIOUS
        <5>1. Len(events) = 1 BY <3>5
        <5>2. NextEvent = "lost" <=> sig = "lost"
          BY <3>2, <3>3, <5>1 DEF EventPairing, Alternate
        <5>3. QED BY <3>2, <5>2 DEF NextEvent
      <4>5. events' # <<>> => (events'[Len(events')] = "lost" <=> sig' = "lost")
        BY <3>2, <3>3, <3>5 DEF EventPairing, Alternate
      <4>6. QED BY <4>2, <4>3, <4>4, <4>5 DEF Alternate
    <3>8. QED BY <3>1, <3>2, <3>3, <3>4, <3>5, <3>7 DEF EventPairing
  <2>11. CASE PollTimeout
    <3>1. CallWhileStreaming' BY <2>11 DEF CallWhileStreaming, PollTimeout,
        Return
    <3>2. EventPairing' BY <2>11 DEF EventPairing, Alternate, NextEvent,
        EventsOnly, PollTimeout, Return
    <3>3. QED BY <3>1, <3>2
  <2>12. CASE PollError
    <3>1. CallWhileStreaming' BY <2>12 DEF CallWhileStreaming, PollError,
        Return, PollErr, LossByErrno
    <3>2. EventPairing' BY <2>12 DEF EventPairing, Alternate, NextEvent,
        EventsOnly, PollError, Return, PollErr, LossByErrno
    <3>3. QED BY <3>1, <3>2
  <2>13. CASE PollEvent
    <3>1. CallWhileStreaming' BY <2>13 DEF CallWhileStreaming, PollEvent, Return
    <3>2. /\ events # <<>> /\ events' = Tail(events)
          /\ UNCHANGED <<sig, flips, streaming, subscribed>>
          /\ signal_lost = FALSE /\ signal_lost' = TRUE
      BY <2>13 DEF PollEvent, Return
    <3>3. streaming BY <2>13 DEF CallWhileStreaming, PollEvent, Return
    <3>4. devOn' = TRUE BY <2>13, <3>3 DEF EventPairing, EventsOnly, PollEvent, Return
    <3>5. /\ Len(events) \in Nat /\ Len(events') = Len(events) - 1
          /\ \A k \in 1..Len(events') : events'[k] = events[k + 1]
      BY <3>2
    <3>6. \A k \in 1..Len(events) : events[k] \in {"lost", "restored"}
      OBVIOUS
    <3>7. Alternate'
      <4>1. events' # <<>> => events'[1] # events[1]
        BY <3>2, <3>3, <3>5 DEF EventPairing, Alternate
      <4>2. events' # <<>> => events'[1] = NextEvent'
        BY <3>2, <3>3, <3>5, <3>6, <4>1 DEF EventPairing, Alternate, NextEvent
      <4>3. \A k \in 1..(Len(events') - 1) : events'[k] # events'[k + 1]
        BY <3>3, <3>5 DEF EventPairing, Alternate
      <4>4. events' = <<>> => (signal_lost' <=> sig' = "lost")
        <5> SUFFICES ASSUME events' = <<>> PROVE signal_lost' <=> sig' = "lost"
          OBVIOUS
        <5>1. Len(events) = 1 BY <3>5
        <5>2. NextEvent = "lost" <=> sig = "lost"
          BY <3>2, <3>3, <5>1 DEF EventPairing, Alternate
        <5>3. QED BY <3>2, <5>2 DEF NextEvent
      <4>5. events' # <<>> => (events'[Len(events')] = "lost" <=> sig' = "lost")
        BY <3>2, <3>3, <3>5 DEF EventPairing, Alternate
      <4>6. QED BY <4>2, <4>3, <4>4, <4>5 DEF Alternate
    <3>8. QED BY <3>1, <3>2, <3>3, <3>4, <3>5, <3>7 DEF EventPairing
  <2>14. CASE PollIn
    <3>1. CallWhileStreaming' BY <2>14 DEF CallWhileStreaming, PollIn, Goto
    <3>2. EventPairing' BY <2>14 DEF EventPairing, Alternate, NextEvent,
        EventsOnly, PollIn, Goto
    <3>3. QED BY <3>1, <3>2
  <2>15. CASE Dqbuf
    <3>1. CallWhileStreaming' BY <2>15 DEF CallWhileStreaming, Dqbuf
    <3>2. EventPairing' BY <2>15 DEF EventPairing, Alternate, NextEvent,
        EventsOnly, Dqbuf
    <3>3. QED BY <3>1, <3>2
  <2>16. CASE DqbufFail
    <3>1. CallWhileStreaming' BY <2>16 DEF CallWhileStreaming, DqbufFail,
        Return, LossByErrno
    <3>2. EventPairing' BY <2>16 DEF EventPairing, Alternate, NextEvent,
        EventsOnly, DqbufFail, Return, LossByErrno
    <3>3. QED BY <3>1, <3>2
  <2>17. CASE GetDmabufFail
    <3>1. CallWhileStreaming' BY <2>17 DEF CallWhileStreaming, GetDmabufFail,
        GiveBack, Qbuf, Return, LossByErrno
    <3>2. EventPairing' BY <2>17 DEF EventPairing, Alternate, NextEvent,
        EventsOnly, GetDmabufFail, GiveBack, Qbuf, Return, LossByErrno
    <3>3. QED BY <3>1, <3>2
  <2>18. CASE DropFrame
    <3>1. CallWhileStreaming' BY <2>18 DEF CallWhileStreaming, DropFrame,
        GiveBack, Qbuf, Goto
    <3>2. EventPairing' BY <2>18 DEF EventPairing, Alternate, NextEvent,
        EventsOnly, DropFrame, GiveBack, Qbuf, Goto
    <3>3. QED BY <3>1, <3>2
  <2>19. CASE ConvertFail
    <3>1. CallWhileStreaming' BY <2>19 DEF CallWhileStreaming, ConvertFail,
        GiveBack, Qbuf, Return
    <3>2. EventPairing' BY <2>19 DEF EventPairing, Alternate, NextEvent,
        EventsOnly, ConvertFail, GiveBack, Qbuf, Return
    <3>3. QED BY <3>1, <3>2
  <2>20. CASE Deliver
    <3>1. CallWhileStreaming' BY <2>20 DEF CallWhileStreaming, Deliver, Return
    <3>2. EventPairing' BY <2>20 DEF EventPairing, Alternate, NextEvent,
        EventsOnly, Deliver, Return
    <3>3. QED BY <3>1, <3>2
  <2>21. ASSUME NEW i \in Buf, vfmcap_release_frame(i) PROVE PairInv'
    <3>1. CallWhileStreaming' BY <2>21 DEF CallWhileStreaming,
        vfmcap_release_frame, Qbuf
    <3>2. EventPairing' BY <2>21 DEF EventPairing, Alternate, NextEvent,
        EventsOnly, vfmcap_release_frame, Qbuf
    <3>3. QED BY <3>1, <3>2
  <2>22. CASE vfmcap_poll_event
    <3>1. CallWhileStreaming' BY <2>22 DEF CallWhileStreaming,
        vfmcap_poll_event, LossByErrno
    <3>2. EventPairing' BY <2>22 DEF EventPairing, Alternate, NextEvent,
        EventsOnly, vfmcap_poll_event, LossByErrno
    <3>3. QED BY <3>1, <3>2
  <2>23. CASE UNCHANGED vars BY <2>23 DEF vars, CallWhileStreaming,
      EventPairing, Alternate, NextEvent
  <2>24. QED
    BY <2>1, <2>2, <2>3, <2>4, <2>5, <2>6, <2>7, <2>8, <2>9, <2>10, <2>11,
       <2>12, <2>13, <2>14, <2>15, <2>16, <2>17, <2>18, <2>19, <2>20, <2>21,
       <2>22, <2>23
    DEF Next, Acquiring
<1>3. QED BY <1>1, <1>2, TypeCorrect, PTL DEF Spec

(* Under these conditions the context never reconfigures on the event of a *)
(* loss.                                                                   *)
THEOREM ReconfigSafe ==
  ASSUME EventsOnly
  PROVE  Spec => ReconfigOnlyAfterRestore
<1>1. PairInv /\ [Next]_vars
        => [(pc = "again" /\ signal_lost /\ ~signal_lost')
              => events # <<>> /\ Head(events) = "restored"]_vars
  <2> SUFFICES ASSUME PairInv, Next, pc = "again", signal_lost, ~signal_lost'
               PROVE  events # <<>> /\ Head(events) = "restored"
    BY DEF vars, proto
  <2>1. RecoverEvent
    BY DEF Next, Acquiring, SignalLost, SignalRestored, DriverFill, vfmcap_open,
       vfmcap_start, vfmcap_stop, vfmcap_close, vfmcap_acquire_frame,
       RecoverTimeout, PollTimeout, PollError, PollEvent, PollIn, Dqbuf,
       DqbufFail, GetDmabufFail, DropFrame, ConvertFail, Deliver, vfmcap_release_frame,
       vfmcap_poll_event, Idle, proto
  <2>2. QED
    BY <2>1 DEF RecoverEvent, PairInv, CallWhileStreaming, EventPairing,
       Alternate, NextEvent
<1>2. QED BY <1>1, PairInvInvariant, PTL DEF Spec, ReconfigOnlyAfterRestore
-----------------------------------------------------------------------------
(***************************************************************************)
(* Labels.  acquire labels a frame with the format of the context, the     *)
(* driver filled it in the format of the signal.  While no restoration is  *)
(* queued the two are the same; a restoration that arrives between the     *)
(* readiness poll and DQBUF changes the format of the buffers filled from  *)
(* then on, but the poll has seen a filled buffer and DQBUF takes that one.*)
(***************************************************************************)
NoRestoreQueued == \A k \in DOMAIN events : events[k] # "restored"

FilledInFormat ==
  streaming /\ NoRestoreQueued
    => fmt = srcFmt /\ \A k \in DOMAIN doneq : fill[doneq[k]] = fmt

CallFormat ==
  /\ pc = "dqbuf" => doneq # <<>> /\ fill[doneq[1]] = fmt
  /\ pc = "got" => fill[cur] = fmt

LabelInv == FilledInFormat /\ CallFormat /\ FormatTruth

(* When the events pair and the application neither keeps frames across a  *)
(* reconfiguration nor skips the readiness poll with a zero timeout, every *)
(* frame is labelled with the format it was captured in.                   *)
THEOREM LabelsTrue ==
  ASSUME EventsOnly, "hoard" \notin Allowed, "zero" \notin Timeouts
  PROVE  Spec => []FormatTruth
<1>1. Init => LabelInv
  BY DEF Init, LabelInv, FilledInFormat, CallFormat, FormatTruth
<1>2. TypeOK /\ OwnInv /\ PairInv /\ LabelInv /\ [Next]_vars => LabelInv'
  <2> SUFFICES ASSUME TypeOK, OwnInv, PairInv, LabelInv, [Next]_vars
               PROVE  LabelInv'
    OBVIOUS
  <2> USE DEF TypeOK, TypeSignal, TypeQueue, TypeContext, LabelInv, env, dev,
              ctx, proto, call, app, Idle
  <2>1. CASE SignalLost
    <3>1. FilledInFormat'
      <4>1. CASE ~subscribed
        BY <2>1, <4>1 DEF SignalLost, Push, FilledInFormat, NoRestoreQueued
      <4>2. CASE subscribed
        <5>1. events' = Append(events, "lost")
          BY <2>1, <4>2 DEF SignalLost, Push, PairInv, EventPairing, EventsOnly
        <5>2. NoRestoreQueued' => NoRestoreQueued
          BY <5>1 DEF NoRestoreQueued
        <5>3. QED BY <2>1, <5>2 DEF SignalLost, FilledInFormat
      <4>3. QED BY <4>1, <4>2
    <3>2. CallFormat' BY <2>1 DEF CallFormat, SignalLost
    <3>3. FormatTruth' BY <2>1 DEF FormatTruth, SignalLost
    <3>4. QED BY <3>1, <3>2, <3>3
  <2>2. CASE SignalRestored
    <3>1. FilledInFormat'
      <4>1. streaming' = streaming /\ (streaming => subscribed)
        BY <2>2 DEF SignalRestored, PairInv, EventPairing
      <4>2. CASE subscribed
        <5>1. events' = Append(events, "restored")
          BY <2>2, <4>2 DEF SignalRestored, Push, PairInv, EventPairing, EventsOnly
        <5>2. ~NoRestoreQueued'
          <6>1. Len(events) + 1 \in DOMAIN events'
                /\ events'[Len(events) + 1] = "restored"
            BY <5>1
          <6>2. QED BY <6>1 DEF NoRestoreQueued
        <5>3. QED BY <5>2 DEF FilledInFormat
      <4>3. QED BY <4>1, <4>2 DEF FilledInFormat
    <3>2. CallFormat' BY <2>2 DEF CallFormat, SignalRestored
    <3>3. FormatTruth' BY <2>2 DEF FormatTruth, SignalRestored
    <3>4. QED BY <3>1, <3>2, <3>3
  <2>3. ASSUME NEW i \in Buf, DriverFill(i) PROVE LabelInv'
    <3>1. FilledInFormat' BY <2>3 DEF FilledInFormat, NoRestoreQueued,
        DriverFill, Filled
    <3>2. CallFormat' BY <2>3 DEF CallFormat, OwnInv, CallOwnsCur, DriverFill,
        Filled
    <3>3. FormatTruth' BY <2>3 DEF FormatTruth, DriverFill, Filled
    <3>4. QED BY <3>1, <3>2, <3>3
  <2>4. CASE vfmcap_open
    <3>1. FilledInFormat' BY <2>4 DEF FilledInFormat, NoRestoreQueued, PairInv,
        CallWhileStreaming, vfmcap_open
    <3>2. CallFormat' BY <2>4 DEF CallFormat, vfmcap_open
    <3>3. FormatTruth' BY <2>4 DEF FormatTruth, vfmcap_open
    <3>4. QED BY <3>1, <3>2, <3>3
  <2>5. CASE vfmcap_start
    <3>1. FilledInFormat'
      <4>1. \/ UNCHANGED <<events, streaming, fmt, doneq>>
            \/ fmt' = srcFmt /\ doneq' = <<>>
        BY <2>5 DEF vfmcap_start, EventsOnly
      <4>2. UNCHANGED <<srcFmt, fill>> BY <2>5 DEF vfmcap_start
      <4>3. CASE UNCHANGED <<events, streaming, fmt, doneq>>
        BY <4>2, <4>3 DEF FilledInFormat, NoRestoreQueued
      <4>4. CASE fmt' = srcFmt /\ doneq' = <<>>
        BY <4>2, <4>4 DEF FilledInFormat
      <4>5. QED BY <4>1, <4>3, <4>4
    <3>2. CallFormat' BY <2>5 DEF CallFormat, vfmcap_start, StartOk, StartFail
    <3>3. FormatTruth' BY <2>5 DEF FormatTruth, vfmcap_start, StartOk, StartFail
    <3>4. QED BY <3>1, <3>2, <3>3
  <2>6. CASE vfmcap_stop
    <3>1. FilledInFormat' BY <2>6 DEF FilledInFormat, NoRestoreQueued,
        vfmcap_stop, Orphan
    <3>2. CallFormat' BY <2>6 DEF CallFormat, vfmcap_stop, Orphan
    <3>3. FormatTruth' BY <2>6 DEF FormatTruth, vfmcap_stop, Orphan
    <3>4. QED BY <3>1, <3>2, <3>3
  <2>7. CASE vfmcap_close
    <3>1. FilledInFormat' BY <2>7 DEF FilledInFormat, NoRestoreQueued,
        vfmcap_close
    <3>2. CallFormat' BY <2>7 DEF CallFormat, vfmcap_close
    <3>3. FormatTruth' BY <2>7 DEF FormatTruth, vfmcap_close
    <3>4. QED BY <3>1, <3>2, <3>3
  <2>8. ASSUME NEW t \in Timeouts, vfmcap_acquire_frame(t) PROVE LabelInv'
    <3>1. FilledInFormat' BY <2>8 DEF FilledInFormat, NoRestoreQueued,
        vfmcap_acquire_frame, Return
    <3>2. CallFormat' BY <2>8 DEF CallFormat, vfmcap_acquire_frame, Return
    <3>3. FormatTruth' BY <2>8 DEF FormatTruth, vfmcap_acquire_frame, Return
    <3>4. QED BY <3>1, <3>2, <3>3
  <2>9. CASE RecoverTimeout
    <3>1. FilledInFormat' BY <2>9 DEF FilledInFormat, NoRestoreQueued,
        RecoverTimeout, Return
    <3>2. CallFormat' BY <2>9 DEF CallFormat, RecoverTimeout, Return
    <3>3. FormatTruth' BY <2>9 DEF FormatTruth, RecoverTimeout, Return
    <3>4. QED BY <3>1, <3>2, <3>3
  <2>10. CASE RecoverEvent
    <3>1. FilledInFormat' BY <2>10 DEF FilledInFormat, NoRestoreQueued,
        EventsOnly, RecoverEvent, vfmcap_do_reconfig, ReconfigFail, Orphan
    <3>2. CallFormat' BY <2>10 DEF CallFormat, RecoverEvent,
        vfmcap_do_reconfig, ReconfigFail, Orphan
    <3>3. FormatTruth' BY <2>10 DEF FormatTruth, RecoverEvent,
        vfmcap_do_reconfig, ReconfigFail, Orphan
    <3>4. QED BY <3>1, <3>2, <3>3
  <2>11. CASE PollTimeout
    <3>1. FilledInFormat' BY <2>11 DEF FilledInFormat, NoRestoreQueued,
        PollTimeout, Return
    <3>2. CallFormat' BY <2>11 DEF CallFormat, PollTimeout, Return
    <3>3. FormatTruth' BY <2>11 DEF FormatTruth, PollTimeout, Return
    <3>4. QED BY <3>1, <3>2, <3>3
  <2>12. CASE PollError
    <3>1. FilledInFormat' BY <2>12 DEF FilledInFormat, NoRestoreQueued,
        PollError, Return, PollErr, LossByErrno
    <3>2. CallFormat' BY <2>12 DEF CallFormat, PollError, Return, PollErr,
        LossByErrno
    <3>3. FormatTruth' BY <2>12 DEF FormatTruth, PollError, Return, PollErr,
        LossByErrno
    <3>4. QED BY <3>1, <3>2, <3>3
  <2>13. CASE PollEvent
    <3>1. FilledInFormat'
      <4>1. events' = Tail(events) /\ events # <<>> /\ events[1] = "lost"
        BY <2>13 DEF PollEvent, PairInv, CallWhileStreaming, EventPairing,
           Alternate, NextEvent
      <4>2. NoRestoreQueued' => NoRestoreQueued
        <5> SUFFICES ASSUME NoRestoreQueued', NEW k \in DOMAIN events
                     PROVE  events[k] # "restored"
          BY DEF NoRestoreQueued
        <5>1. k \in 1..Len(events) /\ Len(events) \in Nat OBVIOUS
        <5>2. CASE k = 1 BY <4>1, <5>2
        <5>3. CASE k # 1
          <6>1. k - 1 \in DOMAIN events' /\ events'[k - 1] = events[k]
            BY <4>1, <5>1, <5>3
          <6>2. QED BY <6>1 DEF NoRestoreQueued
        <5>4. QED BY <5>2, <5>3
      <4>3. QED BY <2>13, <4>2 DEF PollEvent, FilledInFormat
    <3>2. CallFormat' BY <2>13 DEF CallFormat, PollEvent, Return
    <3>3. FormatTruth' BY <2>13 DEF FormatTruth, PollEvent, Return
    <3>4. QED BY <3>1, <3>2, <3>3
  <2>14. CASE PollIn
    <3>1. FilledInFormat' BY <2>14 DEF FilledInFormat, NoRestoreQueued, PollIn, Goto
    <3>2. events = <<>> /\ doneq # <<>> /\ streaming
      BY <2>14 DEF PollIn, PairInv, CallWhileStreaming
    <3>3. NoRestoreQueued BY <3>2 DEF NoRestoreQueued
    <3>4. 1 \in DOMAIN doneq BY <3>2
    <3>5. fill[doneq[1]] = fmt BY <3>2, <3>3, <3>4 DEF FilledInFormat
    <3>6. CallFormat' BY <2>14, <3>2, <3>5 DEF CallFormat, PollIn, Goto
    <3>7. FormatTruth' BY <2>14 DEF FormatTruth, PollIn, Goto
    <3>8. QED BY <3>1, <3>6, <3>7
  <2>15. CASE Dqbuf
    <3>1. FilledInFormat' BY <2>15 DEF FilledInFormat, NoRestoreQueued, Dqbuf
    <3>2. CallFormat' BY <2>15 DEF CallFormat, Dqbuf
    <3>3. FormatTruth' BY <2>15 DEF FormatTruth, Dqbuf
    <3>4. QED BY <3>1, <3>2, <3>3
  <2>16. CASE DqbufFail
    <3>1. FilledInFormat' BY <2>16 DEF FilledInFormat, NoRestoreQueued,
        DqbufFail, Return, LossByErrno
    <3>2. CallFormat' BY <2>16 DEF CallFormat, DqbufFail, Return, LossByErrno
    <3>3. FormatTruth' BY <2>16 DEF FormatTruth, DqbufFail, Return, LossByErrno
    <3>4. QED BY <3>1, <3>2, <3>3
  <2>17. CASE GetDmabufFail
    <3>1. FilledInFormat' BY <2>17 DEF FilledInFormat, NoRestoreQueued,
        GetDmabufFail, GiveBack, Qbuf, Return, LossByErrno
    <3>2. CallFormat' BY <2>17 DEF CallFormat, GetDmabufFail, GiveBack, Qbuf,
        Return, LossByErrno
    <3>3. FormatTruth' BY <2>17 DEF FormatTruth, GetDmabufFail, GiveBack, Qbuf,
        Return, LossByErrno
    <3>4. QED BY <3>1, <3>2, <3>3
  <2>18. CASE DropFrame
    <3>1. FilledInFormat' BY <2>18 DEF FilledInFormat, NoRestoreQueued,
        DropFrame, GiveBack, Qbuf, Goto
    <3>2. CallFormat' BY <2>18 DEF CallFormat, DropFrame, GiveBack, Qbuf, Goto
    <3>3. FormatTruth' BY <2>18 DEF FormatTruth, DropFrame, GiveBack, Qbuf,
        Goto
    <3>4. QED BY <3>1, <3>2, <3>3
  <2>19. CASE ConvertFail
    <3>1. FilledInFormat' BY <2>19 DEF FilledInFormat, NoRestoreQueued,
        ConvertFail, GiveBack, Qbuf, Return
    <3>2. CallFormat' BY <2>19 DEF CallFormat, ConvertFail, GiveBack, Qbuf,
        Return
    <3>3. FormatTruth' BY <2>19 DEF FormatTruth, ConvertFail, GiveBack, Qbuf,
        Return
    <3>4. QED BY <3>1, <3>2, <3>3
  <2>20. CASE Deliver
    <3>1. FilledInFormat' BY <2>20 DEF FilledInFormat, NoRestoreQueued,
        Deliver, Return
    <3>2. CallFormat' BY <2>20 DEF CallFormat, Deliver, Return
    <3>3. FormatTruth' BY <2>20 DEF FormatTruth, CallFormat, Deliver, Return
    <3>4. QED BY <3>1, <3>2, <3>3
  <2>21. ASSUME NEW i \in Buf, vfmcap_release_frame(i) PROVE LabelInv'
    <3>1. FilledInFormat' BY <2>21 DEF FilledInFormat, NoRestoreQueued,
        vfmcap_release_frame, Qbuf
    <3>2. CallFormat' BY <2>21 DEF CallFormat, vfmcap_release_frame, Qbuf
    <3>3. FormatTruth' BY <2>21 DEF FormatTruth, vfmcap_release_frame, Qbuf
    <3>4. QED BY <3>1, <3>2, <3>3
  <2>22. CASE vfmcap_poll_event
    <3>1. FilledInFormat' BY <2>22 DEF FilledInFormat, NoRestoreQueued,
        EventsOnly, vfmcap_poll_event, LossByErrno
    <3>2. CallFormat' BY <2>22 DEF CallFormat, vfmcap_poll_event, LossByErrno
    <3>3. FormatTruth' BY <2>22 DEF FormatTruth, vfmcap_poll_event, LossByErrno
    <3>4. QED BY <3>1, <3>2, <3>3
  <2>23. CASE UNCHANGED vars BY <2>23 DEF vars, FilledInFormat, CallFormat,
      FormatTruth, NoRestoreQueued
  <2>24. QED
    BY <2>1, <2>2, <2>3, <2>4, <2>5, <2>6, <2>7, <2>8, <2>9, <2>10, <2>11,
       <2>12, <2>13, <2>14, <2>15, <2>16, <2>17, <2>18, <2>19, <2>20, <2>21,
       <2>22, <2>23
    DEF Next, Acquiring
<1>3. LabelInv => FormatTruth BY DEF LabelInv
<1>4. QED
  BY <1>1, <1>2, <1>3, TypeCorrect, OwnInvInvariant, PairInvInvariant, PTL
     DEF Spec
=============================================================================
