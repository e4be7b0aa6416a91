---------------------------- MODULE PathBProofs ----------------------------
(***************************************************************************)
(* Proofs about PathB for every number of vdin1 and output buffers and     *)
(* every sequence of sessions.                                             *)
(***************************************************************************)
EXTENDS PathB, WellFoundedInduction, TLAPS

USE PathBAssumption

-----------------------------------------------------------------------------
(***************************************************************************)
(* Where create is decides what its locals hold, which of the two depths   *)
(* it serves and whether a job may be in flight.  The types of the buffers *)
(* downstream depend on it: a buffer is delivered from these locals.       *)
(***************************************************************************)
CallLocals ==
  /\ idx # None <=> pc \in {"wrap", "prime", "pwait", "await"}
  /\ out # None <=> pc \in {"pwait", "ppoll", "pdq"}
  /\ pc # "idle" => task \in {"running", "stopping"}

CallDepth ==
  /\ pc = "wrap" => ~vdin1_10bit
  /\ pc \in {"prime", "pwait", "ppoll", "pdq"} => vdin1_10bit /\ vk_async = None
  /\ pc = "await" => vk_async # None
  /\ vk_async # None => vdin1_10bit

CallTimeouts ==
  /\ pc = "idle" => tc = 0
  /\ pc \in {"poll", "dqbuf"} => tc < MaxTimeouts
  /\ pc \in {"ppoll", "pdq"} => tc < PrimeTimeouts

Torn ==
  /\ task \in {"tearing", "off"} => vk_async = None
  /\ task = "off" => held = {}

BaseInv == TypeOK /\ CallLocals /\ CallDepth /\ CallTimeouts /\ Torn

(* p010_pool_acquire returns an output buffer that was free.               *)
LEMMA AcquiredFree ==
  ASSUME free \in [OutIdx -> BOOLEAN], FreeOut # {}
  PROVE  p010_pool_acquire \in OutIdx /\ free[p010_pool_acquire]
<1>1. FreeOut \subseteq Nat BY DEF FreeOut, OutIdx
<1>2. PICK o \in FreeOut : \A p \in FreeOut : ~(<<p, o>> \in OpToRel(<, Nat))
  BY <1>1, NatLessThanWellFounded, WFMin
<1>3. ASSUME NEW p \in FreeOut PROVE o <= p
  <2> SUFFICES ASSUME p < o PROVE FALSE
    BY <1>1
  <2>1. <<p, o>> \in Nat \X Nat /\ <<p, o>>[1] < <<p, o>>[2]
    BY <1>1
  <2>2. <<p, o>> \in OpToRel(<, Nat)
    BY <2>1, Zenon DEF OpToRel
  <2>3. QED BY <1>2, <2>2
<1>4. QED BY <1>3 DEF p010_pool_acquire, FreeOut

(* Every variable keeps its type and create its shape, also when the GPU   *)
(* hangs and downstream keeps buffers over a stop.                         *)
LEMMA BaseInvariant == Spec => []BaseInv
<1> USE DEF drv, mon, elem, pool, async, call, down
<1>1. Init => BaseInv
  BY DEF Init, BaseInv, TypeOK, TypeDriver, TypeElement, TypeGpu, TypeCall,
         CallLocals, CallDepth, CallTimeouts, Torn
<1>2. BaseInv /\ [Next]_vars => BaseInv'
  <2> SUFFICES ASSUME BaseInv, [Next]_vars PROVE BaseInv'
    OBVIOUS
  <2> USE DEF BaseInv, TypeOK
  <2>1. ASSUME NEW i \in Buf, DriverFill(i) PROVE BaseInv'
    <3>1. TypeDriver' BY <2>1 DEF TypeDriver, DriverFill
    <3>2. TypeElement' BY <2>1 DEF TypeElement, DriverFill
    <3>3. TypeGpu' BY <2>1 DEF TypeGpu, DriverFill
    <3>4. TypeCall' BY <2>1 DEF TypeCall, DriverFill
    <3>5. CallLocals' BY <2>1 DEF CallLocals, DriverFill
    <3>6. CallDepth' BY <2>1 DEF CallDepth, DriverFill
    <3>7. CallTimeouts' BY <2>1 DEF CallTimeouts, DriverFill
    <3>8. Torn' BY <2>1 DEF Torn, DriverFill
    <3>9. QED BY <3>1, <3>2, <3>3, <3>4, <3>5, <3>6, <3>7, <3>8
  <2>2. ASSUME NEW e \in {"changed", "lost", "other"}, SignalEvent(e) PROVE BaseInv'
    <3>1. TypeDriver' BY <2>2 DEF TypeDriver, SignalEvent
    <3>2. TypeElement' BY <2>2 DEF TypeElement, SignalEvent
    <3>3. TypeGpu' BY <2>2 DEF TypeGpu, SignalEvent
    <3>4. TypeCall' BY <2>2 DEF TypeCall, SignalEvent
    <3>5. CallLocals' BY <2>2 DEF CallLocals, SignalEvent
    <3>6. CallDepth' BY <2>2 DEF CallDepth, SignalEvent
    <3>7. CallTimeouts' BY <2>2 DEF CallTimeouts, SignalEvent
    <3>8. Torn' BY <2>2 DEF Torn, SignalEvent
    <3>9. QED BY <3>1, <3>2, <3>3, <3>4, <3>5, <3>6, <3>7, <3>8
  <2>3. ASSUME NEW s \in {0, 1}, GpuDone(s) PROVE BaseInv'
    <3>1. TypeDriver' BY <2>3 DEF TypeDriver, GpuDone
    <3>2. TypeElement'
      <4>1. gpu[s] \in Job BY <2>3 DEF TypeGpu, GpuDone
      <4>2. gpu[s].in \in Buf /\ gpu[s].out \in OutIdx BY <4>1 DEF Job
      <4>3. tag[gpu[s].in] \in 0..2 BY <4>2 DEF TypeDriver
      <4>4. QED BY <2>3, <4>2, <4>3 DEF TypeElement, GpuDone
    <3>3. TypeGpu' BY <2>3 DEF TypeGpu, GpuDone
    <3>4. TypeCall' BY <2>3 DEF TypeCall, GpuDone
    <3>5. CallLocals' BY <2>3 DEF CallLocals, GpuDone
    <3>6. CallDepth' BY <2>3 DEF CallDepth, GpuDone
    <3>7. CallTimeouts' BY <2>3 DEF CallTimeouts, GpuDone
    <3>8. Torn' BY <2>3 DEF Torn, GpuDone
    <3>9. QED BY <3>1, <3>2, <3>3, <3>4, <3>5, <3>6, <3>7, <3>8
  <2>4. CASE gst_streambox_src_start
    <3>1. /\ task = "off" /\ sessions' \in 1..Len(plan) /\ plan' = plan
          /\ vdin1_10bit' = plan[sessions']
      BY <2>4 DEF gst_streambox_src_start, TypeElement
    <3>2. vdin1_10bit' \in BOOLEAN
      <4>1. plan \in Seq(BOOLEAN) BY DEF TypeElement
      <4>2. QED BY <3>1, <4>1
    <3>3. held = {} /\ vk_async = None /\ pc = "idle"
      BY <3>1 DEF Torn, CallLocals
    <3>4. TypeDriver'
      <4>1. bst' \in [Buf -> {"none", "deq", "queued"}]
        BY <2>4 DEF gst_streambox_src_start, TypeDriver
      <4>2. marks' \in 0..2 /\ nev' \in 0..MaxEvents
        BY <2>4 DEF gst_streambox_src_start, TypeDriver
      <4>3. devOn' \in BOOLEAN /\ UNCHANGED <<doneq, tag, events, chg>>
        BY <2>4 DEF gst_streambox_src_start, TypeDriver
      <4>4. QED BY <4>1, <4>2, <4>3 DEF TypeDriver
    <3>5. TypeElement'
      <4>1. free' \in [OutIdx -> BOOLEAN]
        BY <2>4, <3>2 DEF gst_streambox_src_start, TypeElement
      <4>2. poolUp' \in BOOLEAN /\ monitor' \in BOOLEAN
        BY <2>4, <3>2 DEF gst_streambox_src_start, TypeElement
      <4>3. /\ task' \in {"off", "running"} /\ streaming' \in BOOLEAN
            /\ flushing' = FALSE /\ UNCHANGED <<pipe, otag>>
        BY <2>4 DEF gst_streambox_src_start, TypeElement
      <4>4. plan' \in Plans /\ sessions' \in 0..Len(plan')
        <5>1. Len(plan) \in Nat BY DEF TypeElement
        <5>2. QED BY <3>1, <5>1 DEF TypeElement
      <4>5. otag' \in [OutIdx -> 0..2] /\ pipe' \in BOOLEAN
        BY <4>3 DEF TypeElement
      <4>6. QED BY <3>2, <4>1, <4>2, <4>3, <4>4, <4>5 DEF TypeElement
    <3>6. TypeGpu' BY <2>4 DEF TypeGpu, gst_streambox_src_start
    <3>7. TypeCall'
      <4>1. held' = {} /\ UNCHANGED <<pc, idx, out, tc, stale>>
        BY <2>4, <3>3 DEF gst_streambox_src_start
      <4>2. flow' \in {"ok", "start_failed"} /\ seen' \in {seen, <<>>}
        BY <2>4 DEF gst_streambox_src_start
      <4>3. seen' \in Seq({1, 2})
        <5>1. CASE seen' = seen BY <5>1 DEF TypeCall
        <5>2. CASE seen' = <<>> BY <5>2
        <5>3. QED BY <4>2, <5>1, <5>2
      <4>4. held' \subseteq (IF vdin1_10bit' THEN OutIdx ELSE Buf) BY <4>1
      <4>5. flow' \in {"ok", "start_failed"} BY <4>2
      <4>6. QED BY <4>1, <4>3, <4>4, <4>5 DEF TypeCall
    <3>8. CallLocals' BY <2>4, <3>3 DEF CallLocals, gst_streambox_src_start
    <3>9. CallDepth' BY <2>4, <3>3 DEF CallDepth, gst_streambox_src_start
    <3>10. CallTimeouts' BY <2>4, <3>3 DEF CallTimeouts, gst_streambox_src_start
    <3>11. Torn' BY <2>4, <3>3 DEF Torn, gst_streambox_src_start
    <3>12. QED
      BY <3>4, <3>5, <3>6, <3>7, <3>8, <3>9, <3>10, <3>11
  <2>5. CASE gst_streambox_src_unlock
    <3>1. TypeDriver' BY <2>5 DEF TypeDriver, gst_streambox_src_unlock
    <3>2. TypeElement' BY <2>5 DEF TypeElement, gst_streambox_src_unlock
    <3>3. TypeGpu' BY <2>5 DEF TypeGpu, gst_streambox_src_unlock
    <3>4. TypeCall' BY <2>5 DEF TypeCall, gst_streambox_src_unlock
    <3>5. CallLocals' BY <2>5 DEF CallLocals, gst_streambox_src_unlock
    <3>6. CallDepth' BY <2>5 DEF CallDepth, gst_streambox_src_unlock
    <3>7. CallTimeouts' BY <2>5 DEF CallTimeouts, gst_streambox_src_unlock
    <3>8. Torn' BY <2>5 DEF Torn, gst_streambox_src_unlock
    <3>9. QED BY <3>1, <3>2, <3>3, <3>4, <3>5, <3>6, <3>7, <3>8
  <2>6. CASE gst_streambox_src_unlock_stop
    <3>1. TypeDriver' BY <2>6 DEF TypeDriver, gst_streambox_src_unlock_stop
    <3>2. TypeElement' BY <2>6 DEF TypeElement, gst_streambox_src_unlock_stop
    <3>3. TypeGpu' BY <2>6 DEF TypeGpu, gst_streambox_src_unlock_stop
    <3>4. TypeCall' BY <2>6 DEF TypeCall, gst_streambox_src_unlock_stop
    <3>5. CallLocals' BY <2>6 DEF CallLocals, gst_streambox_src_unlock_stop
    <3>6. CallDepth' BY <2>6 DEF CallDepth, gst_streambox_src_unlock_stop
    <3>7. CallTimeouts' BY <2>6 DEF CallTimeouts, gst_streambox_src_unlock_stop
    <3>8. Torn' BY <2>6 DEF Torn, gst_streambox_src_unlock_stop
    <3>9. QED BY <3>1, <3>2, <3>3, <3>4, <3>5, <3>6, <3>7, <3>8
  <2>7. CASE Resume
    <3>1. TypeDriver' BY <2>7 DEF TypeDriver, Resume
    <3>2. TypeElement' BY <2>7 DEF TypeElement, Resume
    <3>3. TypeGpu' BY <2>7 DEF TypeGpu, Resume
    <3>4. TypeCall' BY <2>7 DEF TypeCall, Resume
    <3>5. CallLocals' BY <2>7 DEF CallLocals, Resume
    <3>6. CallDepth' BY <2>7 DEF CallDepth, Resume
    <3>7. CallTimeouts' BY <2>7 DEF CallTimeouts, Resume
    <3>8. Torn' BY <2>7 DEF Torn, Resume
    <3>9. QED BY <3>1, <3>2, <3>3, <3>4, <3>5, <3>6, <3>7, <3>8
  <2>8. CASE StopDrain
    <3>1. TypeDriver' BY <2>8 DEF TypeDriver, StopDrain, Qbuf, DrainBufs,
        DrainWait, vdin1_vk_wait_async
    <3>2. TypeElement' BY <2>8 DEF TypeElement, StopDrain, Qbuf, DrainBufs,
        DrainWait, vdin1_vk_wait_async
    <3>3. TypeGpu' BY <2>8 DEF TypeGpu, StopDrain, Qbuf, DrainBufs, DrainWait,
        vdin1_vk_wait_async
    <3>4. TypeCall' BY <2>8 DEF TypeCall, StopDrain, Qbuf, DrainBufs,
        DrainWait, vdin1_vk_wait_async
    <3>5. CallLocals' BY <2>8 DEF CallLocals, StopDrain, Qbuf, DrainBufs,
        DrainWait, vdin1_vk_wait_async
    <3>6. CallDepth' BY <2>8 DEF CallDepth, CallLocals, StopDrain, Qbuf,
        DrainBufs, DrainWait, vdin1_vk_wait_async
    <3>7. CallTimeouts' BY <2>8 DEF CallTimeouts, StopDrain, Qbuf, DrainBufs,
        DrainWait, vdin1_vk_wait_async
    <3>8. Torn' BY <2>8 DEF Torn, StopDrain, Qbuf, DrainBufs, DrainWait,
        vdin1_vk_wait_async
    <3>9. QED BY <3>1, <3>2, <3>3, <3>4, <3>5, <3>6, <3>7, <3>8
  <2>9. CASE stop_path_b
    <3>1. TypeDriver'
      <4>1. bst' \in [Buf -> {"none", "deq", "queued"}] /\ doneq' \in Seq(Buf)
        BY <2>9 DEF stop_path_b
      <4>2. QED BY <2>9, <4>1 DEF TypeDriver, stop_path_b
    <3>2. TypeElement' BY <2>9 DEF TypeElement, stop_path_b
    <3>3. TypeGpu' BY <2>9 DEF TypeGpu, stop_path_b
    <3>4. TypeCall' BY <2>9 DEF TypeCall, stop_path_b
    <3>5. CallLocals' BY <2>9 DEF CallLocals, stop_path_b
    <3>6. CallDepth' BY <2>9 DEF CallDepth, stop_path_b
    <3>7. CallTimeouts' BY <2>9 DEF CallTimeouts, stop_path_b
    <3>8. Torn' BY <2>9 DEF Torn, stop_path_b
    <3>9. QED BY <3>1, <3>2, <3>3, <3>4, <3>5, <3>6, <3>7, <3>8
  <2>10. CASE gst_streambox_src_create
    <3>1. TypeDriver' BY <2>10 DEF TypeDriver, gst_streambox_src_create, Return
    <3>2. TypeElement' BY <2>10 DEF TypeElement, gst_streambox_src_create,
        Return
    <3>3. TypeGpu' BY <2>10 DEF TypeGpu, gst_streambox_src_create, Return
    <3>4. TypeCall' BY <2>10 DEF TypeCall, gst_streambox_src_create, Return
    <3>5. CallLocals' BY <2>10 DEF CallLocals, gst_streambox_src_create, Return
    <3>6. CallDepth' BY <2>10 DEF CallDepth, gst_streambox_src_create, Return
    <3>7. CallTimeouts' BY <2>10 DEF CallTimeouts, gst_streambox_src_create,
        Return
    <3>8. Torn' BY <2>10 DEF Torn, gst_streambox_src_create, Return
    <3>9. QED BY <3>1, <3>2, <3>3, <3>4, <3>5, <3>6, <3>7, <3>8
  <2>11. CASE PollFlush
    <3>1. TypeDriver' BY <2>11 DEF TypeDriver, PollFlush, Return
    <3>2. TypeElement' BY <2>11 DEF TypeElement, PollFlush, Return
    <3>3. TypeGpu' BY <2>11 DEF TypeGpu, PollFlush, Return
    <3>4. TypeCall' BY <2>11 DEF TypeCall, PollFlush, Return
    <3>5. CallLocals' BY <2>11 DEF CallLocals, PollFlush, Return
    <3>6. CallDepth' BY <2>11 DEF CallDepth, PollFlush, Return
    <3>7. CallTimeouts' BY <2>11 DEF CallTimeouts, PollFlush, Return
    <3>8. Torn' BY <2>11 DEF Torn, PollFlush, Return
    <3>9. QED BY <3>1, <3>2, <3>3, <3>4, <3>5, <3>6, <3>7, <3>8
  <2>12. CASE PollSignal
    <3>1. TypeDriver' BY <2>12 DEF TypeDriver, PollSignal, handle_signal_event
    <3>2. TypeElement' BY <2>12 DEF TypeElement, PollSignal,
        handle_signal_event
    <3>3. TypeGpu' BY <2>12 DEF TypeGpu, PollSignal, handle_signal_event
    <3>4. TypeCall' BY <2>12 DEF TypeCall, PollSignal, handle_signal_event
    <3>5. CallLocals' BY <2>12 DEF CallLocals, PollSignal, handle_signal_event
    <3>6. CallDepth' BY <2>12 DEF CallDepth, PollSignal, handle_signal_event
    <3>7. CallTimeouts' BY <2>12 DEF CallTimeouts, PollSignal,
        handle_signal_event
    <3>8. Torn' BY <2>12 DEF Torn, PollSignal, handle_signal_event
    <3>9. QED BY <3>1, <3>2, <3>3, <3>4, <3>5, <3>6, <3>7, <3>8
  <2>13. CASE PollReady
    <3>1. TypeDriver' BY <2>13 DEF TypeDriver, PollReady
    <3>2. TypeElement' BY <2>13 DEF TypeElement, PollReady
    <3>3. TypeGpu' BY <2>13 DEF TypeGpu, PollReady
    <3>4. TypeCall' BY <2>13 DEF TypeCall, PollReady
    <3>5. CallLocals' BY <2>13 DEF CallLocals, PollReady
    <3>6. CallDepth' BY <2>13 DEF CallDepth, PollReady
    <3>7. CallTimeouts' BY <2>13 DEF CallTimeouts, PollReady
    <3>8. Torn' BY <2>13 DEF Torn, PollReady
    <3>9. QED BY <3>1, <3>2, <3>3, <3>4, <3>5, <3>6, <3>7, <3>8
  <2>14. CASE PollTimeout
    <3>1. TypeDriver' BY <2>14 DEF TypeDriver, PollTimeout
    <3>2. TypeElement' BY <2>14 DEF TypeElement, PollTimeout
    <3>3. TypeGpu' BY <2>14 DEF TypeGpu, PollTimeout
    <3>4. TypeCall' BY <2>14 DEF TypeCall, CallTimeouts, PollTimeout
    <3>5. CallLocals' BY <2>14 DEF CallLocals, PollTimeout
    <3>6. CallDepth' BY <2>14 DEF CallDepth, PollTimeout
    <3>7. CallTimeouts' BY <2>14 DEF CallTimeouts, PollTimeout
    <3>8. Torn' BY <2>14 DEF Torn, PollTimeout
    <3>9. QED BY <3>1, <3>2, <3>3, <3>4, <3>5, <3>6, <3>7, <3>8
  <2>15. CASE clean_exit
    <3>1. TypeDriver'
      <4>1. bst' \in [Buf -> {"none", "deq", "queued"}] /\ doneq' \in Seq(Buf)
        BY <2>15 DEF clean_exit
      <4>2. QED BY <2>15, <4>1 DEF TypeDriver, clean_exit
    <3>2. TypeElement' BY <2>15 DEF TypeElement, clean_exit, DrainWait,
        vdin1_vk_wait_async, DrainFree, Return
    <3>3. TypeGpu' BY <2>15 DEF TypeGpu, clean_exit, DrainWait,
        vdin1_vk_wait_async, DrainFree, Return
    <3>4. TypeCall' BY <2>15 DEF TypeCall, clean_exit, DrainWait,
        vdin1_vk_wait_async, DrainFree, Return
    <3>5. CallLocals' BY <2>15 DEF CallLocals, clean_exit, DrainWait,
        vdin1_vk_wait_async, DrainFree, Return
    <3>6. CallDepth' BY <2>15 DEF CallDepth, clean_exit, DrainWait,
        vdin1_vk_wait_async, DrainFree, Return
    <3>7. CallTimeouts' BY <2>15 DEF CallTimeouts, clean_exit, DrainWait,
        vdin1_vk_wait_async, DrainFree, Return
    <3>8. Torn' BY <2>15 DEF Torn, clean_exit, DrainWait, vdin1_vk_wait_async,
        DrainFree, Return
    <3>9. QED BY <3>1, <3>2, <3>3, <3>4, <3>5, <3>6, <3>7, <3>8
  <2>16. CASE do_dqbuf
    <3>1. ASSUME devOn, doneq # <<>>, idx' = Head(doneq), doneq' = Tail(doneq),
                 bst' = [bst EXCEPT ![Head(doneq)] = "deq"],
                 pc' = IF ~vdin1_10bit THEN "wrap"
                       ELSE IF vk_async_pending THEN "await" ELSE "prime",
                 UNCHANGED <<out, tc, flow>>
          PROVE  BaseInv'
      <4>1. idx' \in Buf /\ doneq' \in Seq(Buf) BY <3>1 DEF TypeDriver
      <4>2. out = None /\ idx = None BY <2>16 DEF do_dqbuf, CallLocals
      <4>3. UNCHANGED <<devOn, tag, marks, mon, elem, pool, gpu, async, down>>
            /\ pc = "dqbuf"
        BY <2>16 DEF do_dqbuf
      <4>4. TypeDriver' BY <3>1, <4>1, <4>3 DEF TypeDriver
      <4>5. TypeElement' /\ TypeGpu' BY <4>3 DEF TypeElement, TypeGpu
      <4>6. TypeCall' BY <3>1, <4>1, <4>3 DEF TypeCall
      <4>7. CallLocals' BY <3>1, <4>1, <4>2, <4>3 DEF CallLocals
      <4>8. CallDepth'
        BY <3>1, <4>3 DEF CallDepth, TypeElement, vk_async_pending
      <4>9. CallTimeouts' BY <3>1 DEF CallTimeouts
      <4>10. Torn' BY <4>3 DEF Torn
      <4>11. QED BY <4>4, <4>5, <4>6, <4>7, <4>8, <4>9, <4>10
    <3>2. CASE pc' = "poll" /\ UNCHANGED <<idx, doneq, bst, out, tc, flow>>
      BY <2>16, <3>2 DEF do_dqbuf, TypeDriver, TypeElement, TypeGpu, TypeCall,
         CallLocals, CallDepth, CallTimeouts, Torn
    <3>3. CASE Return("error") /\ UNCHANGED <<doneq, bst>>
      BY <2>16, <3>3 DEF do_dqbuf, Return, TypeDriver, TypeElement, TypeGpu,
         TypeCall, CallLocals, CallDepth, CallTimeouts, Torn
    <3>4. QED BY <2>16, <3>1, <3>2, <3>3 DEF do_dqbuf
  <2>17. CASE Deliver8
    <3>1. TypeDriver' BY <2>17 DEF TypeDriver, Deliver8, Deliver, qbuf_return,
        Qbuf, Return
    <3>2. TypeElement' BY <2>17 DEF TypeElement, Deliver8, Deliver,
        qbuf_return, Qbuf, Return
    <3>3. TypeGpu' BY <2>17 DEF TypeGpu, Deliver8, Deliver, qbuf_return, Qbuf,
        Return
    <3>4. TypeCall'
      <4>1. idx \in Buf /\ ~vdin1_10bit /\ tag[idx] \in 0..2
        BY <2>17 DEF Deliver8, CallLocals, CallDepth, TypeCall, TypeDriver
      <4>2. seen' \in Seq({1, 2})
        BY <2>17, <4>1 DEF Deliver8, Deliver, qbuf_return, Return, TypeCall
      <4>3. held' \subseteq (IF vdin1_10bit' THEN OutIdx ELSE Buf)
        BY <2>17, <4>1 DEF Deliver8, Deliver, qbuf_return, Return, TypeCall
      <4>4. QED
        BY <2>17, <4>2, <4>3 DEF Deliver8, Deliver, qbuf_return, Return, TypeCall
    <3>5. CallLocals' BY <2>17 DEF CallLocals, Deliver8, Deliver, qbuf_return,
        Qbuf, Return
    <3>6. CallDepth' BY <2>17 DEF CallDepth, Deliver8, Deliver, qbuf_return,
        Qbuf, Return
    <3>7. CallTimeouts' BY <2>17 DEF CallTimeouts, Deliver8, Deliver,
        qbuf_return, Qbuf, Return
    <3>8. Torn' BY <2>17 DEF Torn, CallLocals, Deliver8, Deliver, qbuf_return,
        Qbuf, Return
    <3>9. QED BY <3>1, <3>2, <3>3, <3>4, <3>5, <3>6, <3>7, <3>8
  <2>18. CASE PrimeSubmit
    <3>1. TypeDriver' BY <2>18 DEF TypeDriver, PrimeSubmit,
        vdin1_vk_submit_async
    <3>2. TypeElement' BY <2>18 DEF TypeElement, PrimeSubmit,
        vdin1_vk_submit_async
    <3>3. TypeGpu' BY <2>18, AcquiredFree DEF TypeGpu, TypeElement, TypeCall,
        CallLocals, Job, PrimeSubmit, vdin1_vk_submit_async
    <3>4. TypeCall' BY <2>18, AcquiredFree DEF TypeCall, TypeElement,
        PrimeSubmit, vdin1_vk_submit_async
    <3>5. CallLocals' BY <2>18, AcquiredFree DEF CallLocals, TypeElement,
        PrimeSubmit, vdin1_vk_submit_async
    <3>6. CallDepth' BY <2>18 DEF CallDepth, PrimeSubmit, vdin1_vk_submit_async
    <3>7. CallTimeouts' BY <2>18 DEF CallTimeouts, PrimeSubmit,
        vdin1_vk_submit_async
    <3>8. Torn' BY <2>18 DEF Torn, PrimeSubmit, vdin1_vk_submit_async
    <3>9. QED BY <3>1, <3>2, <3>3, <3>4, <3>5, <3>6, <3>7, <3>8
  <2>19. CASE PrimeFail
    <3>1. TypeDriver' BY <2>19 DEF TypeDriver, PrimeFail, qbuf_return, Qbuf,
        Return
    <3>2. TypeElement' BY <2>19 DEF TypeElement, PrimeFail, qbuf_return, Qbuf,
        Return
    <3>3. TypeGpu' BY <2>19 DEF TypeGpu, PrimeFail, qbuf_return, Qbuf, Return
    <3>4. TypeCall' BY <2>19 DEF TypeCall, PrimeFail, qbuf_return, Qbuf, Return
    <3>5. CallLocals' BY <2>19 DEF CallLocals, PrimeFail, qbuf_return, Qbuf,
        Return
    <3>6. CallDepth' BY <2>19 DEF CallDepth, PrimeFail, qbuf_return, Qbuf,
        Return
    <3>7. CallTimeouts' BY <2>19 DEF CallTimeouts, PrimeFail, qbuf_return,
        Qbuf, Return
    <3>8. Torn' BY <2>19 DEF Torn, PrimeFail, qbuf_return, Qbuf, Return
    <3>9. QED BY <3>1, <3>2, <3>3, <3>4, <3>5, <3>6, <3>7, <3>8
  <2>20. CASE PrimeWait
    <3>1. TypeDriver' BY <2>20 DEF TypeDriver, PrimeWait, Qbuf,
        vdin1_vk_wait_async, Return
    <3>2. TypeElement' BY <2>20 DEF TypeElement, PrimeWait, Qbuf,
        vdin1_vk_wait_async, Return
    <3>3. TypeGpu' BY <2>20 DEF TypeGpu, PrimeWait, Qbuf, vdin1_vk_wait_async,
        Return
    <3>4. TypeCall' BY <2>20 DEF TypeCall, PrimeWait, Qbuf,
        vdin1_vk_wait_async, Return
    <3>5. CallLocals' BY <2>20 DEF CallLocals, PrimeWait, Qbuf,
        vdin1_vk_wait_async, Return
    <3>6. CallDepth' BY <2>20 DEF CallDepth, PrimeWait, Qbuf,
        vdin1_vk_wait_async, Return
    <3>7. CallTimeouts' BY <2>20 DEF CallTimeouts, PrimeWait, Qbuf,
        vdin1_vk_wait_async, Return
    <3>8. Torn' BY <2>20 DEF Torn, PrimeWait, Qbuf, vdin1_vk_wait_async, Return
    <3>9. QED BY <3>1, <3>2, <3>3, <3>4, <3>5, <3>6, <3>7, <3>8
  <2>21. CASE PrimePollReturn
    <3>1. TypeDriver' BY <2>21 DEF TypeDriver, PrimePollReturn,
        handle_signal_event, PrimeReturn, Deliver, Return
    <3>2. TypeElement' BY <2>21 DEF TypeElement, PrimePollReturn,
        handle_signal_event, PrimeReturn, Deliver, Return
    <3>3. TypeGpu' BY <2>21 DEF TypeGpu, PrimePollReturn, handle_signal_event,
        PrimeReturn, Deliver, Return
    <3>4. TypeCall'
      <4>1. out \in OutIdx /\ vdin1_10bit /\ otag[out] \in 0..2
        BY <2>21 DEF PrimePollReturn, CallLocals, CallDepth, TypeCall, TypeElement
      <4>2. seen' \in Seq({1, 2})
        BY <2>21, <4>1 DEF PrimePollReturn, PrimeReturn, Deliver, Return, TypeCall
      <4>3. held' \subseteq (IF vdin1_10bit' THEN OutIdx ELSE Buf)
        BY <2>21, <4>1 DEF PrimePollReturn, PrimeReturn, Deliver, Return, TypeCall
      <4>4. QED
        BY <2>21, <4>2, <4>3 DEF PrimePollReturn, PrimeReturn, Deliver, Return, TypeCall
    <3>5. CallLocals' BY <2>21 DEF CallLocals, PrimePollReturn,
        handle_signal_event, PrimeReturn, Deliver, Return
    <3>6. CallDepth' BY <2>21 DEF CallDepth, PrimePollReturn,
        handle_signal_event, PrimeReturn, Deliver, Return
    <3>7. CallTimeouts' BY <2>21 DEF CallTimeouts, PrimePollReturn,
        handle_signal_event, PrimeReturn, Deliver, Return
    <3>8. Torn' BY <2>21 DEF Torn, CallLocals, PrimePollReturn,
        handle_signal_event, PrimeReturn, Deliver, Return
    <3>9. QED BY <3>1, <3>2, <3>3, <3>4, <3>5, <3>6, <3>7, <3>8
  <2>22. CASE PrimePoll
    <3>1. TypeDriver' BY <2>22 DEF TypeDriver, PrimePoll, handle_signal_event
    <3>2. TypeElement' BY <2>22 DEF TypeElement, PrimePoll, handle_signal_event
    <3>3. TypeGpu' BY <2>22 DEF TypeGpu, PrimePoll, handle_signal_event
    <3>4. TypeCall' BY <2>22 DEF TypeCall, PrimePoll, handle_signal_event
    <3>5. CallLocals' BY <2>22 DEF CallLocals, PrimePoll, handle_signal_event
    <3>6. CallDepth' BY <2>22 DEF CallDepth, PrimePoll, handle_signal_event
    <3>7. CallTimeouts' BY <2>22 DEF CallTimeouts, PrimePoll,
        handle_signal_event
    <3>8. Torn' BY <2>22 DEF Torn, PrimePoll, handle_signal_event
    <3>9. QED BY <3>1, <3>2, <3>3, <3>4, <3>5, <3>6, <3>7, <3>8
  <2>23. CASE PrimeDqbuf
    <3>1. TypeDriver' BY <2>23 DEF TypeDriver, PrimeDqbuf, Submitted,
        vdin1_vk_submit_async, NotSubmitted, PrimeReturn, Deliver, Return
    <3>2. TypeElement' BY <2>23 DEF TypeElement, PrimeDqbuf, Submitted,
        vdin1_vk_submit_async, NotSubmitted, PrimeReturn, Deliver, Return
    <3>3. TypeGpu'
      <4>1. CASE UNCHANGED <<gpu, async>> \/ NotSubmitted
        BY <4>1 DEF TypeGpu, NotSubmitted
      <4>2. CASE FreeOut # {} /\ doneq # <<>>
                 /\ Submitted(Head(doneq), p010_pool_acquire)
        <5>1. [in |-> Head(doneq), out |-> p010_pool_acquire] \in Job
          BY <4>2, AcquiredFree DEF TypeDriver, TypeElement, Job
        <5>2. QED BY <4>2, <5>1 DEF TypeGpu, Submitted, vdin1_vk_submit_async
      <4>3. QED BY <2>23, <4>1, <4>2 DEF PrimeDqbuf
    <3>4. TypeCall'
      <4>1. out \in OutIdx /\ vdin1_10bit /\ otag[out] \in 0..2
        BY <2>23 DEF PrimeDqbuf, CallLocals, CallDepth, TypeCall, TypeElement
      <4>2. seen' \in Seq({1, 2})
        <5>1. seen' = seen \/ (otag[out] \in {1, 2} /\ seen' = Append(seen, otag[out]))
          BY <2>23, <4>1 DEF PrimeDqbuf, PrimeReturn, Deliver
        <5>2. QED BY <5>1 DEF TypeCall
      <4>3. held' \subseteq (IF vdin1_10bit' THEN OutIdx ELSE Buf)
        BY <2>23, <4>1 DEF PrimeDqbuf, PrimeReturn, Deliver, Return, TypeCall
      <4>4. QED
        BY <2>23, <4>2, <4>3 DEF PrimeDqbuf, PrimeReturn, Deliver, Return, TypeCall
    <3>5. CallLocals' BY <2>23 DEF CallLocals, PrimeDqbuf, Submitted,
        vdin1_vk_submit_async, NotSubmitted, PrimeReturn, Deliver, Return
    <3>6. CallDepth' BY <2>23 DEF CallDepth, PrimeDqbuf, Submitted,
        vdin1_vk_submit_async, NotSubmitted, PrimeReturn, Deliver, Return
    <3>7. CallTimeouts' BY <2>23 DEF CallTimeouts, PrimeDqbuf, Submitted,
        vdin1_vk_submit_async, NotSubmitted, PrimeReturn, Deliver, Return
    <3>8. Torn' BY <2>23 DEF Torn, CallLocals, PrimeDqbuf, Submitted,
        vdin1_vk_submit_async, NotSubmitted, PrimeReturn, Deliver, Return
    <3>9. QED BY <3>1, <3>2, <3>3, <3>4, <3>5, <3>6, <3>7, <3>8
  <2>24. CASE AwaitFail
    <3>1. TypeDriver' BY <2>24 DEF TypeDriver, AwaitFail, vdin1_vk_wait_async,
        Qbuf, Return
    <3>2. TypeElement' BY <2>24 DEF TypeElement, AwaitFail,
        vdin1_vk_wait_async, Qbuf, Return
    <3>3. TypeGpu' BY <2>24 DEF TypeGpu, AwaitFail, vdin1_vk_wait_async, Qbuf,
        Return
    <3>4. TypeCall' BY <2>24 DEF TypeCall, AwaitFail, vdin1_vk_wait_async,
        Qbuf, Return
    <3>5. CallLocals' BY <2>24 DEF CallLocals, AwaitFail, vdin1_vk_wait_async,
        Qbuf, Return
    <3>6. CallDepth' BY <2>24 DEF CallDepth, AwaitFail, vdin1_vk_wait_async,
        Qbuf, Return
    <3>7. CallTimeouts' BY <2>24 DEF CallTimeouts, AwaitFail,
        vdin1_vk_wait_async, Qbuf, Return
    <3>8. Torn' BY <2>24 DEF Torn, AwaitFail, vdin1_vk_wait_async, Qbuf, Return
    <3>9. QED BY <3>1, <3>2, <3>3, <3>4, <3>5, <3>6, <3>7, <3>8
  <2>25. CASE AwaitReturn
    <3>1. TypeDriver' BY <2>25 DEF TypeDriver, AwaitReturn,
        vdin1_vk_wait_async, Deliver, Submitted, vdin1_vk_submit_async,
        NotSubmitted, Qbuf, Return
    <3>2. TypeElement' BY <2>25 DEF TypeElement, AwaitReturn,
        vdin1_vk_wait_async, Deliver, Submitted, vdin1_vk_submit_async,
        NotSubmitted, Qbuf, Return
    <3>3. TypeGpu'
      <4>1. CASE NotSubmitted BY <4>1 DEF TypeGpu, NotSubmitted
      <4>2. CASE FreeOut # {} /\ Submitted(idx, p010_pool_acquire)
        <5>1. idx \in Buf BY <2>25 DEF AwaitReturn, CallLocals, TypeCall
        <5>2. [in |-> idx, out |-> p010_pool_acquire] \in Job
          BY <4>2, <5>1, AcquiredFree DEF TypeElement, Job
        <5>3. QED BY <4>2, <5>2 DEF TypeGpu, Submitted, vdin1_vk_submit_async
      <4>3. QED BY <2>25, <4>1, <4>2 DEF AwaitReturn
    <3>4. TypeCall'
      <4>0. vk_async \in Job /\ vdin1_10bit
        BY <2>25 DEF AwaitReturn, CallDepth, TypeGpu
      <4>1. vk_async.out \in OutIdx /\ otag[vk_async.out] \in 0..2
        BY <4>0 DEF Job, TypeElement
      <4>2. seen' \in Seq({1, 2})
        BY <2>25, <4>0, <4>1 DEF AwaitReturn, Deliver, Return, TypeCall
      <4>3. held' \subseteq (IF vdin1_10bit' THEN OutIdx ELSE Buf)
        BY <2>25, <4>0, <4>1 DEF AwaitReturn, Deliver, Return, TypeCall
      <4>4. QED BY <2>25, <4>2, <4>3 DEF AwaitReturn, Deliver, Return, TypeCall
    <3>5. CallLocals' BY <2>25 DEF CallLocals, AwaitReturn,
        vdin1_vk_wait_async, Deliver, Submitted, vdin1_vk_submit_async,
        NotSubmitted, Qbuf, Return
    <3>6. CallDepth' BY <2>25 DEF CallDepth, AwaitReturn, vdin1_vk_wait_async,
        Deliver, Submitted, vdin1_vk_submit_async, NotSubmitted, Qbuf, Return
    <3>7. CallTimeouts' BY <2>25 DEF CallTimeouts, AwaitReturn,
        vdin1_vk_wait_async, Deliver, Submitted, vdin1_vk_submit_async,
        NotSubmitted, Qbuf, Return
    <3>8. Torn' BY <2>25 DEF Torn, CallLocals, AwaitReturn,
        vdin1_vk_wait_async, Deliver, Submitted, vdin1_vk_submit_async,
        NotSubmitted, Qbuf, Return
    <3>9. QED BY <3>1, <3>2, <3>3, <3>4, <3>5, <3>6, <3>7, <3>8
  <2>26. ASSUME NEW x \in OutIdx \cup Buf, BufRelease(x) PROVE BaseInv'
    <3>1. TypeDriver' BY <2>26 DEF TypeDriver, BufRelease, GiveBack, Qbuf
    <3>2. TypeElement' BY <2>26 DEF TypeElement, BufRelease, GiveBack, Qbuf
    <3>3. TypeGpu' BY <2>26 DEF TypeGpu, BufRelease, GiveBack, Qbuf
    <3>4. TypeCall' BY <2>26 DEF TypeCall, BufRelease, GiveBack, Qbuf
    <3>5. CallLocals' BY <2>26 DEF CallLocals, BufRelease, GiveBack, Qbuf
    <3>6. CallDepth' BY <2>26 DEF CallDepth, BufRelease, GiveBack, Qbuf
    <3>7. CallTimeouts' BY <2>26 DEF CallTimeouts, BufRelease, GiveBack, Qbuf
    <3>8. Torn' BY <2>26 DEF Torn, BufRelease, GiveBack, Qbuf
    <3>9. QED BY <3>1, <3>2, <3>3, <3>4, <3>5, <3>6, <3>7, <3>8
  <2>27. CASE UNCHANGED vars BY <2>27 DEF vars, TypeDriver, TypeElement,
      TypeGpu, TypeCall, CallLocals, CallDepth, CallTimeouts, Torn
  <2>28. QED
    BY <2>1, <2>2, <2>3, <2>4, <2>5, <2>6, <2>7, <2>8, <2>9, <2>10, <2>11,
       <2>12, <2>13, <2>14, <2>15, <2>16, <2>17, <2>18, <2>19, <2>20, <2>21,
       <2>22, <2>23, <2>24, <2>25, <2>26, <2>27
    DEF Next, Control, Create
<1>3. QED BY <1>1, <1>2, PTL DEF Spec

(* Every variable of the element, the GPU and vdin1 keeps its type; a      *)
(* buffer downstream holds is of the kind the session's depth produces.    *)
THEOREM TypeCorrect == Spec => []TypeOK
<1>1. BaseInv => TypeOK BY DEF BaseInv
<1>2. QED BY <1>1, BaseInvariant, PTL

-----------------------------------------------------------------------------
(***************************************************************************)
(* Ownership.                                                              *)
(***************************************************************************)
Session ==
  /\ streaming <=> task # "off"
  /\ poolUp <=> vdin1_10bit /\ task \in {"running", "stopping", "stopped"}
  /\ ~poolUp => \A o \in OutIdx : ~free[o]
  /\ task = "off" => ~devOn /\ doneq = <<>>
  /\ stale = {}

DriverOwnsFilled ==
  /\ \A k \in DOMAIN doneq : bst[doneq[k]] = "queued"
  /\ \A j, k \in DOMAIN doneq : doneq[j] = doneq[k] => j = k

(* The two slots: the pending job runs in the one before vk_slot; the job  *)
(* of a priming call, which waits for it, in vk_slot.                      *)
JobsBooked ==
  /\ gpu[prev_slot] # None => gpu[prev_slot] = vk_async
  /\ gpu[vk_slot] # None => pc = "pwait" /\ gpu[vk_slot] = [in |-> idx, out |-> out]

InputsOwned ==
  /\ idx # None => bst[idx] = "deq"
  /\ vk_async # None => bst[vk_async.in] = "deq" /\ vk_async.in # idx
  /\ ~vdin1_10bit => idx \notin held

OutputsOwned ==
  /\ out # None => ~free[out] /\ out \notin held
  /\ vk_async # None => ~free[vk_async.out] /\ vk_async.out \notin held

PipeInv ==
  /\ Session /\ DriverOwnsFilled /\ JobsBooked /\ InputsOwned /\ OutputsOwned
  /\ HeldExclusive /\ NoBufferLost


(* The first element of a queue of distinct buffers, and what is left.     *)
LEMMA PopQueue ==
  ASSUME NEW q \in Seq(Buf), q # <<>>,
         \A j, k \in DOMAIN q : q[j] = q[k] => j = k
  PROVE  /\ 1 \in DOMAIN q /\ Head(q) = q[1] /\ Head(q) \in Buf
         /\ Tail(q) \in Seq(Buf)
         /\ \A k \in DOMAIN Tail(q) : /\ k + 1 \in DOMAIN q
                                      /\ Tail(q)[k] = q[k + 1]
                                      /\ Tail(q)[k] # Head(q)
         /\ \A j, k \in DOMAIN Tail(q) : Tail(q)[j] = Tail(q)[k] => j = k
<1>1. 1 \in DOMAIN q /\ Head(q) = q[1] /\ Head(q) \in Buf
  OBVIOUS
<1>2. /\ Tail(q) \in Seq(Buf) /\ DOMAIN Tail(q) \subseteq Nat \ {0}
      /\ \A k \in DOMAIN Tail(q) : k + 1 \in DOMAIN q /\ Tail(q)[k] = q[k + 1]
  OBVIOUS
<1>3. ASSUME NEW k \in DOMAIN Tail(q) PROVE Tail(q)[k] # Head(q)
  <2>1. k + 1 # 1 BY <1>2
  <2>2. QED BY <1>1, <1>2, <2>1
<1>4. ASSUME NEW j \in DOMAIN Tail(q), NEW k \in DOMAIN Tail(q),
             Tail(q)[j] = Tail(q)[k]
      PROVE  j = k
  <2>1. j + 1 = k + 1 BY <1>2, <1>4
  <2>2. QED BY <1>2, <2>1
<1>5. QED BY <1>1, <1>2, <1>3, <1>4
(* The fields of a job.                                                    *)
LEMMA JobFields ==
  \A j \in Job : j.in \in Buf /\ j.out \in OutIdx
BY DEF Job

(* When the fences are signalled in time (no "gpu_hang") and downstream    *)
(* returns its buffers before the element stops (no "hoard"), ownership of *)
(* the buffers of vdin1 and of the pool is an invariant.                   *)
LEMMA PipeInvariant ==
  ASSUME "hoard" \notin Allowed, "gpu_hang" \notin Allowed
  PROVE  Spec => []PipeInv
<1> USE DEF drv, mon, elem, pool, async, call, down
<1>1. Init => PipeInv
  BY DEF Init, PipeInv, Session, DriverOwnsFilled, JobsBooked, InputsOwned,
         OutputsOwned, HeldExclusive, NoBufferLost, prev_slot
<1>2. BaseInv /\ PipeInv /\ [Next]_vars => PipeInv'
  <2> SUFFICES ASSUME BaseInv, PipeInv, [Next]_vars PROVE PipeInv'
    OBVIOUS
  <2> USE DEF BaseInv, TypeOK, TypeDriver, TypeElement, TypeGpu, TypeCall,
              PipeInv
  <2>1. ASSUME NEW i \in Buf, DriverFill(i) PROVE PipeInv'
    <3>1. Session' BY <2>1 DEF Session, Torn, CallLocals, DriverFill
    <3>2. DriverOwnsFilled' BY <2>1 DEF DriverOwnsFilled, DriverFill
    <3>3. JobsBooked' BY <2>1 DEF JobsBooked, prev_slot, DriverFill
    <3>4. InputsOwned' BY <2>1 DEF InputsOwned, CallLocals, CallDepth,
        DriverFill
    <3>5. OutputsOwned' BY <2>1 DEF OutputsOwned, CallLocals, CallDepth,
        DriverFill
    <3>6. HeldExclusive' BY <2>1 DEF HeldExclusive, vk_async_pending,
        CallLocals, CallDepth, DriverFill
    <3>7. NoBufferLost' BY <2>1 DEF NoBufferLost, vk_async_pending, CallLocals,
        CallDepth, DriverFill
    <3>8. QED BY <3>1, <3>2, <3>3, <3>4, <3>5, <3>6, <3>7
  <2>2. ASSUME NEW e \in {"changed", "lost", "other"}, SignalEvent(e) PROVE PipeInv'
    <3>1. Session' BY <2>2 DEF Session, Torn, CallLocals, SignalEvent
    <3>2. DriverOwnsFilled' BY <2>2 DEF DriverOwnsFilled, SignalEvent
    <3>3. JobsBooked' BY <2>2 DEF JobsBooked, prev_slot, SignalEvent
    <3>4. InputsOwned' BY <2>2 DEF InputsOwned, CallLocals, CallDepth,
        SignalEvent
    <3>5. OutputsOwned' BY <2>2 DEF OutputsOwned, CallLocals, CallDepth,
        SignalEvent
    <3>6. HeldExclusive' BY <2>2 DEF HeldExclusive, vk_async_pending,
        CallLocals, CallDepth, SignalEvent
    <3>7. NoBufferLost' BY <2>2 DEF NoBufferLost, vk_async_pending, CallLocals,
        CallDepth, SignalEvent
    <3>8. QED BY <3>1, <3>2, <3>3, <3>4, <3>5, <3>6, <3>7
  <2>3. ASSUME NEW s \in {0, 1}, GpuDone(s) PROVE PipeInv'
    <3>1. Session' BY <2>3 DEF Session, Torn, CallLocals, GpuDone
    <3>2. DriverOwnsFilled' BY <2>3 DEF DriverOwnsFilled, GpuDone
    <3>3. JobsBooked' BY <2>3 DEF JobsBooked, prev_slot, GpuDone
    <3>4. InputsOwned' BY <2>3 DEF InputsOwned, CallLocals, CallDepth, GpuDone
    <3>5. OutputsOwned' BY <2>3 DEF OutputsOwned, CallLocals, CallDepth,
        GpuDone
    <3>6. HeldExclusive' BY <2>3 DEF HeldExclusive, vk_async_pending,
        CallLocals, CallDepth, GpuDone
    <3>7. NoBufferLost' BY <2>3 DEF NoBufferLost, vk_async_pending, CallLocals,
        CallDepth, GpuDone
    <3>8. QED BY <3>1, <3>2, <3>3, <3>4, <3>5, <3>6, <3>7
  <2>4. CASE gst_streambox_src_start
    <3>1. task = "off" /\ task' \in {"off", "running"}
      BY <2>4 DEF gst_streambox_src_start
    <3>2. held = {} /\ vk_async = None /\ idx = None /\ out = None
      BY <3>1 DEF Torn, CallLocals
    <3>3. ~devOn /\ ~poolUp /\ doneq = <<>> BY <3>1 DEF Session
    <3>4. UNCHANGED <<held, stale, vk_async, vk_slot, gpu, idx, out, pc, doneq>>
      BY <2>4 DEF gst_streambox_src_start
    <3>5. \/ UNCHANGED <<task, streaming, devOn, poolUp, free>>
          \/ /\ task' = "running" /\ streaming' = TRUE
             /\ bst' = [i \in Buf |-> "queued"] /\ poolUp' = vdin1_10bit'
             /\ free' = [o \in OutIdx |-> vdin1_10bit']
      BY <2>4 DEF gst_streambox_src_start
    <3>6. vdin1_10bit' \in BOOLEAN
      <4>1. plan \in Seq(BOOLEAN) /\ sessions + 1 \in 1..Len(plan)
        BY <2>4 DEF gst_streambox_src_start
      <4>2. vdin1_10bit' = plan[sessions + 1]
        BY <2>4 DEF gst_streambox_src_start
      <4>3. QED BY <4>1, <4>2
    <3>7. Session' BY <3>1, <3>3, <3>4, <3>5, <3>6 DEF Session
    <3>8. DriverOwnsFilled' BY <3>3, <3>4 DEF DriverOwnsFilled
    <3>9. JobsBooked' BY <3>4 DEF JobsBooked, prev_slot
    <3>10. InputsOwned' /\ OutputsOwned' /\ HeldExclusive'
      BY <3>2, <3>4 DEF InputsOwned, OutputsOwned, HeldExclusive
    <3>11. NoBufferLost' BY <3>3, <3>5, <3>6 DEF NoBufferLost
    <3>12. QED BY <3>7, <3>8, <3>9, <3>10, <3>11
  <2>5. CASE gst_streambox_src_unlock
    <3>1. Session' BY <2>5 DEF Session, Torn, CallLocals,
        gst_streambox_src_unlock
    <3>2. DriverOwnsFilled' BY <2>5 DEF DriverOwnsFilled,
        gst_streambox_src_unlock
    <3>3. JobsBooked' BY <2>5 DEF JobsBooked, prev_slot,
        gst_streambox_src_unlock
    <3>4. InputsOwned' BY <2>5 DEF InputsOwned, CallLocals, CallDepth,
        gst_streambox_src_unlock
    <3>5. OutputsOwned' BY <2>5 DEF OutputsOwned, CallLocals, CallDepth,
        gst_streambox_src_unlock
    <3>6. HeldExclusive' BY <2>5 DEF HeldExclusive, vk_async_pending,
        CallLocals, CallDepth, gst_streambox_src_unlock
    <3>7. NoBufferLost' BY <2>5 DEF NoBufferLost, vk_async_pending, CallLocals,
        CallDepth, gst_streambox_src_unlock
    <3>8. QED BY <3>1, <3>2, <3>3, <3>4, <3>5, <3>6, <3>7
  <2>6. CASE gst_streambox_src_unlock_stop
    <3>1. Session' BY <2>6 DEF Session, Torn, CallLocals,
        gst_streambox_src_unlock_stop
    <3>2. DriverOwnsFilled' BY <2>6 DEF DriverOwnsFilled,
        gst_streambox_src_unlock_stop
    <3>3. JobsBooked' BY <2>6 DEF JobsBooked, prev_slot,
        gst_streambox_src_unlock_stop
    <3>4. InputsOwned' BY <2>6 DEF InputsOwned, CallLocals, CallDepth,
        gst_streambox_src_unlock_stop
    <3>5. OutputsOwned' BY <2>6 DEF OutputsOwned, CallLocals, CallDepth,
        gst_streambox_src_unlock_stop
    <3>6. HeldExclusive' BY <2>6 DEF HeldExclusive, vk_async_pending,
        CallLocals, CallDepth, gst_streambox_src_unlock_stop
    <3>7. NoBufferLost' BY <2>6 DEF NoBufferLost, vk_async_pending, CallLocals,
        CallDepth, gst_streambox_src_unlock_stop
    <3>8. QED BY <3>1, <3>2, <3>3, <3>4, <3>5, <3>6, <3>7
  <2>7. CASE Resume
    <3>1. Session' BY <2>7 DEF Session, Torn, CallLocals, Resume
    <3>2. DriverOwnsFilled' BY <2>7 DEF DriverOwnsFilled, Resume
    <3>3. JobsBooked' BY <2>7 DEF JobsBooked, prev_slot, Resume
    <3>4. InputsOwned' BY <2>7 DEF InputsOwned, CallLocals, CallDepth, Resume
    <3>5. OutputsOwned' BY <2>7 DEF OutputsOwned, CallLocals, CallDepth, Resume
    <3>6. HeldExclusive' BY <2>7 DEF HeldExclusive, vk_async_pending,
        CallLocals, CallDepth, Resume
    <3>7. NoBufferLost' BY <2>7 DEF NoBufferLost, vk_async_pending, CallLocals,
        CallDepth, Resume
    <3>8. QED BY <3>1, <3>2, <3>3, <3>4, <3>5, <3>6, <3>7
  <2>8. CASE StopDrain
    <3>1. Session' BY <2>8 DEF Session, Torn, CallLocals, StopDrain, Qbuf,
        DrainBufs, DrainWait, vdin1_vk_wait_async
    <3>2. DriverOwnsFilled' BY <2>8 DEF DriverOwnsFilled, StopDrain, Qbuf,
        DrainBufs, DrainWait, vdin1_vk_wait_async
    <3>3. JobsBooked' BY <2>8 DEF JobsBooked, prev_slot, vk_async_pending,
        StopDrain, Qbuf, DrainBufs, DrainWait, vdin1_vk_wait_async
    <3>4. InputsOwned' BY <2>8 DEF InputsOwned, CallLocals, CallDepth,
        StopDrain, Qbuf, DrainBufs, DrainWait, vdin1_vk_wait_async
    <3>5. OutputsOwned' BY <2>8 DEF OutputsOwned, CallLocals, CallDepth,
        StopDrain, Qbuf, DrainBufs, DrainWait, vdin1_vk_wait_async
    <3>6. HeldExclusive' BY <2>8 DEF HeldExclusive, vk_async_pending,
        CallLocals, CallDepth, StopDrain, Qbuf, DrainBufs, DrainWait,
        vdin1_vk_wait_async
    <3>7. NoBufferLost'
      <4>1. pc = "idle" /\ poolUp' = FALSE /\ devOn' = devOn /\ vk_async' = None
            /\ UNCHANGED <<held, vdin1_10bit>>
        BY <2>8 DEF StopDrain, CallLocals
      <4>2. vk_async # None => vk_async.in \in Buf /\ bst[vk_async.in] = "deq"
        BY DEF InputsOwned, Job
      <4>3. bst' = [i \in Buf |-> IF vk_async # None /\ i = vk_async.in
                                      /\ bst[i] = "deq"
                                   THEN "queued" ELSE bst[i]]
        BY <2>8 DEF StopDrain, Qbuf, DrainBufs, vk_async_pending
      <4>4. QED BY <4>1, <4>2, <4>3 DEF NoBufferLost, vk_async_pending
    <3>8. QED BY <3>1, <3>2, <3>3, <3>4, <3>5, <3>6, <3>7
  <2>9. CASE stop_path_b
    <3>1. Session' BY <2>9 DEF Session, Torn, CallLocals, stop_path_b
    <3>2. DriverOwnsFilled' BY <2>9 DEF DriverOwnsFilled, stop_path_b
    <3>3. JobsBooked' BY <2>9 DEF JobsBooked, prev_slot, stop_path_b
    <3>4. InputsOwned' BY <2>9 DEF InputsOwned, CallLocals, CallDepth, Torn,
        stop_path_b
    <3>5. OutputsOwned' BY <2>9 DEF OutputsOwned, CallLocals, CallDepth,
        stop_path_b
    <3>6. HeldExclusive' BY <2>9 DEF HeldExclusive, vk_async_pending,
        CallLocals, CallDepth, stop_path_b
    <3>7. NoBufferLost' BY <2>9 DEF NoBufferLost, vk_async_pending, CallLocals,
        CallDepth, stop_path_b
    <3>8. QED BY <3>1, <3>2, <3>3, <3>4, <3>5, <3>6, <3>7
  <2>10. CASE gst_streambox_src_create
    <3>1. Session' BY <2>10 DEF Session, Torn, CallLocals,
        gst_streambox_src_create, Return
    <3>2. DriverOwnsFilled' BY <2>10 DEF DriverOwnsFilled,
        gst_streambox_src_create, Return
    <3>3. JobsBooked' BY <2>10 DEF JobsBooked, prev_slot,
        gst_streambox_src_create, Return
    <3>4. InputsOwned' BY <2>10 DEF InputsOwned, CallLocals, CallDepth,
        gst_streambox_src_create, Return
    <3>5. OutputsOwned' BY <2>10 DEF OutputsOwned, CallLocals, CallDepth,
        gst_streambox_src_create, Return
    <3>6. HeldExclusive' BY <2>10 DEF HeldExclusive, vk_async_pending,
        CallLocals, CallDepth, gst_streambox_src_create, Return
    <3>7. NoBufferLost' BY <2>10 DEF NoBufferLost, vk_async_pending,
        CallLocals, CallDepth, gst_streambox_src_create, Return
    <3>8. QED BY <3>1, <3>2, <3>3, <3>4, <3>5, <3>6, <3>7
  <2>11. CASE PollFlush
    <3>1. Session' BY <2>11 DEF Session, Torn, CallLocals, PollFlush, Return
    <3>2. DriverOwnsFilled' BY <2>11 DEF DriverOwnsFilled, PollFlush, Return
    <3>3. JobsBooked' BY <2>11 DEF JobsBooked, prev_slot, PollFlush, Return
    <3>4. InputsOwned' BY <2>11 DEF InputsOwned, CallLocals, CallDepth,
        PollFlush, Return
    <3>5. OutputsOwned' BY <2>11 DEF OutputsOwned, CallLocals, CallDepth,
        PollFlush, Return
    <3>6. HeldExclusive' BY <2>11 DEF HeldExclusive, vk_async_pending,
        CallLocals, CallDepth, PollFlush, Return
    <3>7. NoBufferLost' BY <2>11 DEF NoBufferLost, vk_async_pending,
        CallLocals, CallDepth, PollFlush, Return
    <3>8. QED BY <3>1, <3>2, <3>3, <3>4, <3>5, <3>6, <3>7
  <2>12. CASE PollSignal
    <3>1. Session' BY <2>12 DEF Session, Torn, CallLocals, PollSignal,
        handle_signal_event
    <3>2. DriverOwnsFilled' BY <2>12 DEF DriverOwnsFilled, PollSignal,
        handle_signal_event
    <3>3. JobsBooked' BY <2>12 DEF JobsBooked, prev_slot, PollSignal,
        handle_signal_event
    <3>4. InputsOwned' BY <2>12 DEF InputsOwned, CallLocals, CallDepth,
        PollSignal, handle_signal_event
    <3>5. OutputsOwned' BY <2>12 DEF OutputsOwned, CallLocals, CallDepth,
        PollSignal, handle_signal_event
    <3>6. HeldExclusive' BY <2>12 DEF HeldExclusive, vk_async_pending,
        CallLocals, CallDepth, PollSignal, handle_signal_event
    <3>7. NoBufferLost' BY <2>12 DEF NoBufferLost, vk_async_pending,
        CallLocals, CallDepth, PollSignal, handle_signal_event
    <3>8. QED BY <3>1, <3>2, <3>3, <3>4, <3>5, <3>6, <3>7
  <2>13. CASE PollReady
    <3>1. Session' BY <2>13 DEF Session, Torn, CallLocals, PollReady
    <3>2. DriverOwnsFilled' BY <2>13 DEF DriverOwnsFilled, PollReady
    <3>3. JobsBooked' BY <2>13 DEF JobsBooked, prev_slot, PollReady
    <3>4. InputsOwned' BY <2>13 DEF InputsOwned, CallLocals, CallDepth,
        PollReady
    <3>5. OutputsOwned' BY <2>13 DEF OutputsOwned, CallLocals, CallDepth,
        PollReady
    <3>6. HeldExclusive' BY <2>13 DEF HeldExclusive, vk_async_pending,
        CallLocals, CallDepth, PollReady
    <3>7. NoBufferLost' BY <2>13 DEF NoBufferLost, vk_async_pending,
        CallLocals, CallDepth, PollReady
    <3>8. QED BY <3>1, <3>2, <3>3, <3>4, <3>5, <3>6, <3>7
  <2>14. CASE PollTimeout
    <3>1. Session' BY <2>14 DEF Session, Torn, CallLocals, PollTimeout
    <3>2. DriverOwnsFilled' BY <2>14 DEF DriverOwnsFilled, PollTimeout
    <3>3. JobsBooked' BY <2>14 DEF JobsBooked, prev_slot, PollTimeout
    <3>4. InputsOwned' BY <2>14 DEF InputsOwned, CallLocals, CallDepth,
        PollTimeout
    <3>5. OutputsOwned' BY <2>14 DEF OutputsOwned, CallLocals, CallDepth,
        PollTimeout
    <3>6. HeldExclusive' BY <2>14 DEF HeldExclusive, vk_async_pending,
        CallLocals, CallDepth, PollTimeout
    <3>7. NoBufferLost' BY <2>14 DEF NoBufferLost, vk_async_pending,
        CallLocals, CallDepth, PollTimeout
    <3>8. QED BY <3>1, <3>2, <3>3, <3>4, <3>5, <3>6, <3>7
  <2>15. CASE clean_exit
    <3>1. Session'
      <4>1. UNCHANGED <<streaming, task, poolUp, vdin1_10bit, stale>>
            /\ task # "off"
        BY <2>15 DEF clean_exit, CallLocals
      <4>2. free' = DrainFree /\ (vk_async # None => poolUp)
        BY <2>15 DEF clean_exit, CallLocals, CallDepth, Session
      <4>3. ~poolUp => free' = free
        BY <4>2 DEF DrainFree, vk_async_pending
      <4>4. QED BY <4>1, <4>3 DEF Session
    <3>2. DriverOwnsFilled' BY <2>15 DEF DriverOwnsFilled, clean_exit,
        DrainWait, vdin1_vk_wait_async, DrainFree, Return
    <3>3. JobsBooked' BY <2>15 DEF JobsBooked, prev_slot, vk_async_pending,
        CallLocals, clean_exit, DrainWait, vdin1_vk_wait_async, DrainFree,
        Return
    <3>4. InputsOwned' BY <2>15 DEF InputsOwned, CallLocals, CallDepth,
        clean_exit, DrainWait, vdin1_vk_wait_async, DrainFree, Return
    <3>5. OutputsOwned' BY <2>15 DEF OutputsOwned, CallLocals, CallDepth,
        clean_exit, DrainWait, vdin1_vk_wait_async, DrainFree, Return
    <3>6. HeldExclusive' BY <2>15 DEF HeldExclusive, vk_async_pending,
        CallLocals, CallDepth, clean_exit, DrainWait, vdin1_vk_wait_async,
        DrainFree, Return
    <3>7. NoBufferLost' BY <2>15 DEF NoBufferLost, vk_async_pending,
        CallLocals, CallDepth, clean_exit, DrainWait, vdin1_vk_wait_async,
        DrainFree, Return
    <3>8. QED BY <3>1, <3>2, <3>3, <3>4, <3>5, <3>6, <3>7
  <2>16. CASE do_dqbuf
    <3>1. /\ pc = "dqbuf" /\ idx = None /\ out = None
          /\ UNCHANGED <<devOn, elem, pool, gpu, async, held, stale>>
      BY <2>16 DEF do_dqbuf, CallLocals
    <3>2. CASE UNCHANGED <<doneq, bst>> /\ idx' = None /\ out' = None
               /\ pc' \in {"poll", "idle"}
      BY <3>1, <3>2 DEF Session, DriverOwnsFilled, JobsBooked, InputsOwned,
         OutputsOwned, HeldExclusive, NoBufferLost, prev_slot, vk_async_pending
    <3>3. ASSUME devOn, doneq # <<>>, idx' = Head(doneq), doneq' = Tail(doneq),
                 bst' = [bst EXCEPT ![Head(doneq)] = "deq"], out' = out,
                 pc' \in {"wrap", "prime", "await"}
          PROVE  PipeInv'
      <4>1. Head(doneq) \in Buf /\ bst[Head(doneq)] = "queued"
        BY <3>3, PopQueue DEF DriverOwnsFilled
      <4>2. Session' BY <3>1, <3>3 DEF Session, Torn
      <4>3. DriverOwnsFilled' BY <3>3, PopQueue DEF DriverOwnsFilled
      <4>4. JobsBooked' BY <3>1 DEF JobsBooked, prev_slot
      <4>5. InputsOwned'
        BY <3>1, <3>3, <4>1, JobFields DEF InputsOwned, HeldExclusive
      <4>6. OutputsOwned' BY <3>1, <3>3 DEF OutputsOwned
      <4>7. HeldExclusive'
        BY <3>1, <3>3, <4>1 DEF HeldExclusive, vk_async_pending
      <4>8. NoBufferLost'
        BY <3>1, <3>3, <4>1 DEF NoBufferLost, vk_async_pending
      <4>9. QED BY <4>2, <4>3, <4>4, <4>5, <4>6, <4>7, <4>8
    <3>4. QED BY <2>16, <3>1, <3>2, <3>3 DEF do_dqbuf, Return
  <2>17. CASE Deliver8
    <3>1. Session' BY <2>17 DEF Session, Torn, CallLocals, Deliver8, Deliver,
        qbuf_return, Qbuf, Return
    <3>2. DriverOwnsFilled' BY <2>17 DEF DriverOwnsFilled, Deliver8, Deliver,
        qbuf_return, Qbuf, Return
    <3>3. JobsBooked' BY <2>17 DEF JobsBooked, prev_slot, Deliver8, Deliver,
        qbuf_return, Qbuf, Return
    <3>4. InputsOwned' BY <2>17 DEF InputsOwned, CallLocals, CallDepth,
        Deliver8, Deliver, qbuf_return, Qbuf, Return
    <3>5. OutputsOwned' BY <2>17 DEF OutputsOwned, CallLocals, CallDepth,
        Deliver8, Deliver, qbuf_return, Qbuf, Return
    <3>6. HeldExclusive'
      <4>1. idx \in Buf /\ ~vdin1_10bit /\ bst[idx] = "deq" /\ idx \notin held
        BY <2>17 DEF Deliver8, CallLocals, CallDepth, InputsOwned
      <4>2. vdin1_10bit' = vdin1_10bit BY <2>17 DEF Deliver8
      <4>3. \/ held' = held \cup {idx} /\ bst' = bst
            \/ held' = held /\ \A i \in Buf : i # idx => bst'[i] = bst[i]
        BY <2>17 DEF Deliver8, Deliver, qbuf_return, Qbuf
      <4>4. QED BY <4>1, <4>2, <4>3 DEF HeldExclusive
    <3>7. NoBufferLost'
      <4>1. idx \in Buf /\ ~vdin1_10bit /\ bst[idx] = "deq" /\ pc = "wrap"
            /\ out = None /\ ~poolUp /\ vk_async = None
        BY <2>17 DEF Deliver8, CallLocals, CallDepth, InputsOwned, Session
      <4>2. UNCHANGED <<vdin1_10bit, devOn, poolUp, vk_async>> BY <2>17 DEF Deliver8
      <4>3. \/ held' = held \cup {idx} /\ bst' = bst
            \/ /\ held' = held /\ bst'[idx] = "queued"
               /\ \A i \in Buf : i # idx => bst'[i] = bst[i]
        BY <2>17, <4>1 DEF Deliver8, Deliver, qbuf_return, Qbuf
      <4>4. QED BY <4>1, <4>2, <4>3 DEF NoBufferLost, vk_async_pending
    <3>8. QED BY <3>1, <3>2, <3>3, <3>4, <3>5, <3>6, <3>7
  <2>18. CASE PrimeSubmit
    <3>1. Session' BY <2>18 DEF Session, Torn, CallLocals, PrimeSubmit,
        vdin1_vk_submit_async
    <3>2. DriverOwnsFilled' BY <2>18 DEF DriverOwnsFilled, PrimeSubmit,
        vdin1_vk_submit_async
    <3>3. JobsBooked' BY <2>18 DEF JobsBooked, prev_slot, PrimeSubmit,
        vdin1_vk_submit_async
    <3>4. InputsOwned' BY <2>18 DEF InputsOwned, CallLocals, CallDepth,
        PrimeSubmit, vdin1_vk_submit_async
    <3>5. OutputsOwned'
      <4>1. out' \in OutIdx /\ free[out'] BY <2>18, AcquiredFree DEF PrimeSubmit
      <4>2. vdin1_10bit /\ vk_async = None BY <2>18 DEF PrimeSubmit, CallDepth
      <4>3. free' = [free EXCEPT ![out'] = FALSE] /\ UNCHANGED <<vk_async, held>>
        BY <2>18 DEF PrimeSubmit
      <4>4. QED BY <4>1, <4>2, <4>3 DEF OutputsOwned, HeldExclusive
    <3>6. HeldExclusive' BY <2>18 DEF HeldExclusive, vk_async_pending,
        CallLocals, CallDepth, PrimeSubmit, vdin1_vk_submit_async
    <3>7. NoBufferLost' BY <2>18 DEF NoBufferLost, vk_async_pending,
        CallLocals, CallDepth, PrimeSubmit, vdin1_vk_submit_async
    <3>8. QED BY <3>1, <3>2, <3>3, <3>4, <3>5, <3>6, <3>7
  <2>19. CASE PrimeFail
    <3>1. Session' BY <2>19 DEF Session, Torn, CallLocals, PrimeFail,
        qbuf_return, Qbuf, Return
    <3>2. DriverOwnsFilled' BY <2>19 DEF DriverOwnsFilled, PrimeFail,
        qbuf_return, Qbuf, Return
    <3>3. JobsBooked' BY <2>19 DEF JobsBooked, prev_slot, PrimeFail,
        qbuf_return, Qbuf, Return
    <3>4. InputsOwned' BY <2>19 DEF InputsOwned, CallLocals, CallDepth,
        PrimeFail, qbuf_return, Qbuf, Return
    <3>5. OutputsOwned' BY <2>19 DEF OutputsOwned, CallLocals, CallDepth,
        PrimeFail, qbuf_return, Qbuf, Return
    <3>6. HeldExclusive' BY <2>19 DEF HeldExclusive, vk_async_pending,
        CallLocals, CallDepth, PrimeFail, qbuf_return, Qbuf, Return
    <3>7. NoBufferLost'
      <4>1. idx \in Buf /\ bst[idx] = "deq" /\ vdin1_10bit /\ vk_async = None
        BY <2>19 DEF PrimeFail, CallLocals, CallDepth, InputsOwned
      <4>2. /\ bst'[idx] = "queued" /\ \A i \in Buf : i # idx => bst'[i] = bst[i]
            /\ UNCHANGED <<devOn, poolUp, vdin1_10bit, vk_async, held>>
        BY <2>19, <4>1 DEF PrimeFail, qbuf_return, Qbuf
      <4>3. pc = "prime" /\ free' = free BY <2>19 DEF PrimeFail
      <4>4. QED BY <4>1, <4>2, <4>3 DEF NoBufferLost, vk_async_pending
    <3>8. QED BY <3>1, <3>2, <3>3, <3>4, <3>5, <3>6, <3>7
  <2>20. CASE PrimeWait
    <3>1. /\ pc = "pwait" /\ idx \in Buf /\ bst[idx] = "deq" /\ out \in OutIdx
          /\ vdin1_10bit /\ vk_async = None /\ poolUp /\ gpu[vk_slot] = None
          /\ ~free[out] /\ out \notin held
      BY <2>20 DEF PrimeWait, CallLocals, CallDepth, InputsOwned, OutputsOwned,
         Session, vdin1_vk_wait_async
    <3>2. /\ bst'[idx] = "queued" /\ \A i \in Buf : i # idx => bst'[i] = bst[i]
          /\ UNCHANGED <<devOn, elem, doneq, poolUp, gpu, async, held, stale>>
      BY <2>20, <3>1 DEF PrimeWait, Qbuf
    <3>3. \/ pc' = "ppoll" /\ idx' = None /\ out' = out /\ free' = free
          \/ /\ pc' = "idle" /\ idx' = None /\ out' = None
             /\ free' = [free EXCEPT ![out] = TRUE]
      BY <2>20 DEF PrimeWait, Return
    <3>4. Session' BY <3>1, <3>2, <3>3 DEF Session
    <3>5. DriverOwnsFilled'
      BY <3>1, <3>2 DEF DriverOwnsFilled
    <3>6. JobsBooked' BY <3>1, <3>2 DEF JobsBooked, prev_slot
    <3>7. InputsOwned' BY <3>1, <3>2, <3>3 DEF InputsOwned
    <3>8. OutputsOwned' BY <3>1, <3>2, <3>3 DEF OutputsOwned
    <3>9. HeldExclusive'
      <4>1. \A x \in held : x \in OutIdx /\ free'[x] = free[x]
        BY <3>1, <3>3
      <4>2. QED BY <3>1, <3>2, <4>1 DEF HeldExclusive, vk_async_pending
    <3>10. NoBufferLost'
      <4>1. \A i \in Buf : bst[i] = "queued" \/ ~devOn => bst'[i] = "queued" \/ ~devOn
        BY <3>1, <3>2
      <4>2. \A o \in OutIdx : free[o] => free'[o]
        BY <3>1, <3>3
      <4>3. (pc' = "ppoll" /\ out' = out) \/ free'[out] = TRUE
        BY <3>1, <3>3
      <4>4. QED BY <3>1, <3>2, <4>1, <4>2, <4>3 DEF NoBufferLost, vk_async_pending
    <3>11. QED BY <3>4, <3>5, <3>6, <3>7, <3>8, <3>9, <3>10
  <2>21. CASE PrimePollReturn
    <3>1. Session' BY <2>21 DEF Session, Torn, CallLocals, PrimePollReturn,
        handle_signal_event, PrimeReturn, Deliver, Return
    <3>2. DriverOwnsFilled' BY <2>21 DEF DriverOwnsFilled, PrimePollReturn,
        handle_signal_event, PrimeReturn, Deliver, Return
    <3>3. JobsBooked' BY <2>21 DEF JobsBooked, prev_slot, PrimePollReturn,
        handle_signal_event, PrimeReturn, Deliver, Return
    <3>4. InputsOwned' BY <2>21 DEF InputsOwned, CallLocals, CallDepth,
        PrimePollReturn, handle_signal_event, PrimeReturn, Deliver, Return
    <3>5. OutputsOwned' BY <2>21 DEF OutputsOwned, CallLocals, CallDepth,
        PrimePollReturn, handle_signal_event, PrimeReturn, Deliver, Return
    <3>6. HeldExclusive'
      <4>1. out \in OutIdx /\ ~free[out] /\ vdin1_10bit /\ vk_async = None
        BY <2>21 DEF PrimePollReturn, CallLocals, CallDepth, OutputsOwned
      <4>2. held' = held \cup {out} /\ UNCHANGED <<free, vk_async, vdin1_10bit>>
        BY <2>21 DEF PrimePollReturn, PrimeReturn, Deliver
      <4>3. QED BY <4>1, <4>2 DEF HeldExclusive, vk_async_pending
    <3>7. NoBufferLost' BY <2>21 DEF NoBufferLost, vk_async_pending,
        CallLocals, CallDepth, PrimePollReturn, handle_signal_event,
        PrimeReturn, Deliver, Return
    <3>8. QED BY <3>1, <3>2, <3>3, <3>4, <3>5, <3>6, <3>7
  <2>22. CASE PrimePoll
    <3>1. Session' BY <2>22 DEF Session, Torn, CallLocals, PrimePoll,
        handle_signal_event
    <3>2. DriverOwnsFilled' BY <2>22 DEF DriverOwnsFilled, PrimePoll,
        handle_signal_event
    <3>3. JobsBooked' BY <2>22 DEF JobsBooked, prev_slot, PrimePoll,
        handle_signal_event
    <3>4. InputsOwned' BY <2>22 DEF InputsOwned, CallLocals, CallDepth,
        PrimePoll, handle_signal_event
    <3>5. OutputsOwned' BY <2>22 DEF OutputsOwned, CallLocals, CallDepth,
        PrimePoll, handle_signal_event
    <3>6. HeldExclusive' BY <2>22 DEF HeldExclusive, vk_async_pending,
        CallLocals, CallDepth, PrimePoll, handle_signal_event
    <3>7. NoBufferLost' BY <2>22 DEF NoBufferLost, vk_async_pending,
        CallLocals, CallDepth, PrimePoll, handle_signal_event
    <3>8. QED BY <3>1, <3>2, <3>3, <3>4, <3>5, <3>6, <3>7
  <2>23. CASE PrimeDqbuf
    <3>1. /\ pc = "pdq" /\ idx = None /\ out \in OutIdx /\ vdin1_10bit
          /\ vk_async = None /\ poolUp /\ ~free[out] /\ out \notin held
          /\ gpu[prev_slot] = None /\ gpu[vk_slot] = None
      BY <2>23 DEF PrimeDqbuf, CallLocals, CallDepth, OutputsOwned, Session,
         JobsBooked
    <3>2. UNCHANGED <<devOn, elem, poolUp, stale>> /\ idx' = None
      BY <2>23, <3>1 DEF PrimeDqbuf, PrimeReturn, Return, Deliver
    <3>3. CASE UNCHANGED <<doneq, bst, free, gpu, async, out, held>> /\ pc' = "ppoll"
      BY <3>1, <3>2, <3>3 DEF Session, DriverOwnsFilled, JobsBooked,
         InputsOwned, OutputsOwned, HeldExclusive, NoBufferLost, prev_slot,
         vk_async_pending
    <3>4. ASSUME UNCHANGED <<bst, free, gpu>>, vk_slot' = vk_slot, vk_async' = None,
                 doneq' = doneq \/ (doneq # <<>> /\ doneq' = Tail(doneq)),
                 held' = held \cup {out}, out' = None, pc' = "idle"
          PROVE  PipeInv'
      <4>1. Session' BY <3>1, <3>2, <3>4 DEF Session, Torn
      <4>2. DriverOwnsFilled'
        <5>1. CASE doneq' = doneq BY <3>4, <5>1 DEF DriverOwnsFilled
        <5>2. CASE doneq # <<>> /\ doneq' = Tail(doneq)
          BY <3>4, <5>2, PopQueue DEF DriverOwnsFilled
        <5>3. QED BY <3>4, <5>1, <5>2
      <4>3. JobsBooked' BY <3>1, <3>4 DEF prev_slot, JobsBooked
      <4>4. InputsOwned' BY <3>1, <3>2, <3>4 DEF InputsOwned
      <4>5. OutputsOwned' BY <3>4 DEF OutputsOwned
      <4>6. HeldExclusive'
        BY <3>1, <3>2, <3>4 DEF HeldExclusive, vk_async_pending
      <4>7. NoBufferLost'
        BY <3>1, <3>2, <3>4 DEF NoBufferLost, vk_async_pending
      <4>8. QED BY <4>1, <4>2, <4>3, <4>4, <4>5, <4>6, <4>7
    <3>5. ASSUME devOn, doneq # <<>>, doneq' = Tail(doneq), FreeOut # {},
                 Submitted(Head(doneq), p010_pool_acquire),
                 bst' = [bst EXCEPT ![Head(doneq)] = "deq"],
                 held' = held \cup {out}, out' = None, pc' = "idle"
          PROVE  PipeInv'
      <4> DEFINE h == Head(doneq)
                 a == p010_pool_acquire
      <4>1. h \in Buf /\ bst[h] = "queued"
        BY <3>5, PopQueue DEF DriverOwnsFilled
      <4>2. a \in OutIdx /\ free[a] /\ a \notin held /\ a # out
        BY <3>1, <3>5, AcquiredFree DEF HeldExclusive
      <4>3. /\ vk_async' = [in |-> h, out |-> a] /\ vk_slot' = 1 - vk_slot
            /\ free' = [free EXCEPT ![a] = FALSE]
            /\ gpu' = [gpu EXCEPT ![vk_slot] = [in |-> h, out |-> a]]
        BY <3>5 DEF Submitted, vdin1_vk_submit_async
      <4> HIDE DEF h, a
      <4>4. vk_async' # None /\ vk_async'.in = h /\ vk_async'.out = a
        BY <4>1, <4>2, <4>3 DEF Job
      <4>5. Session' BY <3>1, <3>2, <3>5, <4>3 DEF Session, Torn
      <4>6. DriverOwnsFilled'
        BY <3>5, PopQueue DEF DriverOwnsFilled, h
      <4>7. JobsBooked' BY <3>1, <4>3 DEF JobsBooked, prev_slot
      <4>8. InputsOwned'
        <5>1. bst'[h] = "deq" BY <3>5, <4>1 DEF h
        <5>2. QED BY <3>1, <3>2, <4>1, <4>4, <5>1 DEF InputsOwned
      <4>9. OutputsOwned'
        BY <3>5, <4>2, <4>3, <4>4 DEF OutputsOwned
      <4>10. HeldExclusive'
        BY <3>1, <3>2, <3>5, <4>2, <4>3, <4>4 DEF HeldExclusive, vk_async_pending
      <4>11. NoBufferLost'
        BY <3>1, <3>2, <3>5, <4>1, <4>2, <4>3, <4>4
        DEF NoBufferLost, vk_async_pending, h
      <4>12. QED BY <4>5, <4>6, <4>7, <4>8, <4>9, <4>10, <4>11
    <3>6. QED
      BY <2>23, <3>1, <3>2, <3>3, <3>4, <3>5
      DEF PrimeDqbuf, NotSubmitted, PrimeReturn, Return, Deliver
  <2>24. CASE AwaitFail
    <3>1. /\ pc = "await" /\ idx \in Buf /\ bst[idx] = "deq" /\ vdin1_10bit
          /\ vk_async \in Job /\ vk_async # None /\ poolUp /\ out = None
          /\ vk_async.in \in Buf /\ bst[vk_async.in] = "deq"
          /\ vk_async.in # idx /\ vk_async.out \in OutIdx
          /\ ~free[vk_async.out] /\ vk_async.out \notin held
      BY <2>24, JobFields DEF AwaitFail, CallLocals, CallDepth, Session, InputsOwned,
         OutputsOwned
    <3>2. /\ gpu[prev_slot] = None /\ gpu[vk_slot] = None
          /\ pc' = "idle" /\ idx' = None /\ out' = None
          /\ UNCHANGED <<doneq, devOn, elem, poolUp, stale>>
      BY <2>24, <3>1 DEF AwaitFail, vdin1_vk_wait_async, JobsBooked, Return
    <3>3. /\ \A i \in Buf : bst'[i] = IF i \in {vk_async.in, idx}
                                     THEN "queued" ELSE bst[i]
          /\ free' = [free EXCEPT ![vk_async.out] = TRUE] /\ vk_async' = None
          /\ UNCHANGED <<gpu, vk_slot, held>>
      BY <2>24, <3>1 DEF AwaitFail, Qbuf
    <3>4. Session' BY <3>1, <3>2, <3>3 DEF Session
    <3>5. DriverOwnsFilled' BY <3>1, <3>2, <3>3 DEF DriverOwnsFilled
    <3>6. JobsBooked' BY <3>2, <3>3 DEF JobsBooked, prev_slot
    <3>7. InputsOwned' /\ OutputsOwned'
      BY <3>1, <3>2, <3>3 DEF InputsOwned, OutputsOwned
    <3>8. HeldExclusive' BY <3>1, <3>2, <3>3 DEF HeldExclusive, vk_async_pending
    <3>9. NoBufferLost' BY <3>1, <3>2, <3>3 DEF NoBufferLost, vk_async_pending
    <3>10. QED BY <3>4, <3>5, <3>6, <3>7, <3>8, <3>9
  <2>25. CASE AwaitReturn
    <3>1. /\ pc = "await" /\ idx \in Buf /\ bst[idx] = "deq" /\ vdin1_10bit
          /\ vk_async \in Job /\ vk_async # None /\ poolUp /\ out = None
          /\ vk_async.in \in Buf /\ bst[vk_async.in] = "deq"
          /\ vk_async.in # idx /\ vk_async.out \in OutIdx
          /\ ~free[vk_async.out] /\ vk_async.out \notin held
      BY <2>25, JobFields DEF AwaitReturn, CallLocals, CallDepth, Session, InputsOwned,
         OutputsOwned
    <3>2. /\ gpu[prev_slot] = None /\ gpu[vk_slot] = None
          /\ pc' = "idle" /\ idx' = None /\ out' = None
          /\ UNCHANGED <<doneq, devOn, elem, poolUp, stale>>
      BY <2>25, <3>1 DEF AwaitReturn, vdin1_vk_wait_async, JobsBooked, Return, Deliver
    <3>3. held' = held \cup {vk_async.out} BY <2>25 DEF AwaitReturn, Deliver
    <3>4. ASSUME NotSubmitted, Qbuf({vk_async.in, idx}) PROVE PipeInv'
      <4>1. /\ \A i \in Buf : bst'[i] = IF i \in {vk_async.in, idx}
                                       THEN "queued" ELSE bst[i]
            /\ vk_async' = None /\ UNCHANGED <<free, gpu, vk_slot>>
        BY <3>1, <3>4 DEF NotSubmitted, Qbuf
      <4>2. Session' BY <3>1, <3>2, <4>1 DEF Session
      <4>3. DriverOwnsFilled' BY <3>1, <3>2, <4>1 DEF DriverOwnsFilled
      <4>4. JobsBooked' BY <3>2, <4>1 DEF JobsBooked, prev_slot
      <4>5. InputsOwned' /\ OutputsOwned'
        BY <3>1, <3>2, <4>1 DEF InputsOwned, OutputsOwned
      <4>6. HeldExclusive'
        BY <3>1, <3>2, <3>3, <4>1 DEF HeldExclusive, vk_async_pending
      <4>7. NoBufferLost'
        BY <3>1, <3>2, <3>3, <4>1 DEF NoBufferLost, vk_async_pending
      <4>8. QED BY <4>2, <4>3, <4>4, <4>5, <4>6, <4>7
    <3>5. ASSUME FreeOut # {}, Submitted(idx, p010_pool_acquire),
                 Qbuf({vk_async.in})
          PROVE  PipeInv'
      <4> DEFINE a == p010_pool_acquire
      <4>1. a \in OutIdx /\ free[a] /\ a \notin held /\ a # vk_async.out
        BY <3>1, <3>5, AcquiredFree DEF HeldExclusive
      <4>2. /\ vk_async' = [in |-> idx, out |-> a] /\ vk_slot' = 1 - vk_slot
            /\ free' = [free EXCEPT ![a] = FALSE]
            /\ gpu' = [gpu EXCEPT ![vk_slot] = [in |-> idx, out |-> a]]
        BY <3>5 DEF Submitted, vdin1_vk_submit_async
      <4> HIDE DEF a
      <4>3. vk_async' # None /\ vk_async'.in = idx /\ vk_async'.out = a
        BY <3>1, <4>1, <4>2 DEF Job
      <4>4. \A i \in Buf : bst'[i] = IF i = vk_async.in THEN "queued" ELSE bst[i]
        BY <3>1, <3>5 DEF Qbuf
      <4>5. Session' BY <3>1, <3>2, <4>2 DEF Session
      <4>6. DriverOwnsFilled' BY <3>1, <3>2, <4>4 DEF DriverOwnsFilled
      <4>7. JobsBooked' BY <3>2, <4>2 DEF JobsBooked, prev_slot
      <4>8. InputsOwned' BY <3>1, <3>2, <4>3, <4>4 DEF InputsOwned
      <4>9. OutputsOwned' BY <3>1, <3>2, <3>3, <4>1, <4>2, <4>3 DEF OutputsOwned
      <4>10. HeldExclusive'
        BY <3>1, <3>2, <3>3, <4>1, <4>2, <4>3 DEF HeldExclusive, vk_async_pending
      <4>11. NoBufferLost'
        BY <3>1, <3>2, <3>3, <4>1, <4>2, <4>3, <4>4
        DEF NoBufferLost, vk_async_pending
      <4>12. QED BY <4>5, <4>6, <4>7, <4>8, <4>9, <4>10, <4>11
    <3>6. QED BY <2>25, <3>4, <3>5 DEF AwaitReturn
  <2>26. ASSUME NEW x \in OutIdx \cup Buf, BufRelease(x) PROVE PipeInv'
    <3>1. /\ x \in held /\ held' = held \ {x} /\ stale' = stale
          /\ UNCHANGED <<doneq, devOn, elem, poolUp, gpu, async, pc, idx, out>>
      BY <2>26 DEF BufRelease, Session
    <3>2. streaming BY <3>1 DEF Torn, Session
    <3>3. CASE vdin1_10bit
      <4>1. x \in OutIdx BY <3>1, <3>3
      <4>2. bst' = bst /\ free' = IF poolUp THEN [free EXCEPT ![x] = TRUE] ELSE free
        BY <2>26, <4>1 DEF BufRelease, GiveBack
      <4>3. Session' BY <3>1, <4>1, <4>2 DEF Session
      <4>4. DriverOwnsFilled' BY <3>1, <4>2 DEF DriverOwnsFilled
      <4>5. JobsBooked' BY <3>1 DEF JobsBooked, prev_slot
      <4>6. InputsOwned' BY <3>1, <3>3, <4>2 DEF InputsOwned
      <4>7. OutputsOwned' BY <3>1, <4>1, <4>2, JobFields DEF OutputsOwned
      <4>8. HeldExclusive'
        BY <3>1, <3>3, <4>1, <4>2 DEF HeldExclusive, vk_async_pending
      <4>9. NoBufferLost'
        BY <3>1, <3>3, <4>1, <4>2 DEF NoBufferLost, vk_async_pending
      <4>10. QED BY <4>3, <4>4, <4>5, <4>6, <4>7, <4>8, <4>9
    <3>4. CASE ~vdin1_10bit
      <4>1. /\ x \in Buf /\ x \notin OutIdx /\ bst[x] = "deq"
            /\ ~poolUp /\ vk_async = None /\ out = None /\ x # idx
        BY <3>1, <3>4 DEF HeldExclusive, Session, CallDepth, CallLocals,
           InputsOwned
      <4>2. /\ bst'[x] = "queued" /\ free' = free
            /\ \A i \in Buf : i # x => bst'[i] = bst[i]
        BY <2>26, <3>2, <4>1 DEF BufRelease, GiveBack, Qbuf
      <4>3. Session' BY <3>1, <4>2 DEF Session
      <4>4. DriverOwnsFilled' BY <3>1, <4>1, <4>2 DEF DriverOwnsFilled
      <4>5. JobsBooked' BY <3>1 DEF JobsBooked, prev_slot
      <4>6. InputsOwned' BY <3>1, <4>1, <4>2 DEF InputsOwned
      <4>7. OutputsOwned' BY <3>1, <4>1 DEF OutputsOwned
      <4>8. HeldExclusive' BY <3>1, <3>4, <4>1, <4>2 DEF HeldExclusive
      <4>9. NoBufferLost'
        BY <3>1, <3>4, <4>1, <4>2 DEF NoBufferLost, vk_async_pending
      <4>10. QED BY <4>3, <4>4, <4>5, <4>6, <4>7, <4>8, <4>9
    <3>5. QED BY <3>3, <3>4
  <2>27. CASE UNCHANGED vars BY <2>27 DEF vars, Session, Torn, CallLocals,
      DriverOwnsFilled, JobsBooked, prev_slot, InputsOwned, CallDepth,
      OutputsOwned, HeldExclusive, vk_async_pending, NoBufferLost
  <2>28. QED
    BY <2>1, <2>2, <2>3, <2>4, <2>5, <2>6, <2>7, <2>8, <2>9, <2>10, <2>11,
       <2>12, <2>13, <2>14, <2>15, <2>16, <2>17, <2>18, <2>19, <2>20, <2>21,
       <2>22, <2>23, <2>24, <2>25, <2>26, <2>27
    DEF Next, Control, Create
<1>3. QED BY <1>1, <1>2, BaseInvariant, PTL DEF Spec

(* Under these conditions the GPU never shares a buffer: while a job runs, *)
(* neither vdin1, nor the pool, nor downstream has its input or output.    *)
THEOREM GpuAlone ==
  ASSUME "hoard" \notin Allowed, "gpu_hang" \notin Allowed
  PROVE  Spec => []GpuExclusive
<1>1. BaseInv /\ PipeInv => GpuExclusive
  <2> SUFFICES ASSUME BaseInv, PipeInv, NEW s \in {0, 1}, gpu[s] # None
               PROVE  /\ bst[gpu[s].in] = "deq"
                      /\ poolUp /\ ~free[gpu[s].out] /\ gpu[s].out \notin held
    BY DEF GpuExclusive
  <2> USE DEF BaseInv, TypeOK, TypeGpu, PipeInv, CallLocals, CallDepth, Session,
              InputsOwned, OutputsOwned
  <2>1. s = vk_slot \/ s = prev_slot BY DEF prev_slot
  <2>2. CASE s = prev_slot
    <3>1. gpu[s] = vk_async BY <2>2 DEF JobsBooked
    <3>2. task \notin {"tearing", "off"} BY <3>1 DEF Torn
    <3>3. QED BY <3>1, <3>2 DEF TypeElement
  <2>3. CASE s = vk_slot
    <3>1. pc = "pwait" /\ gpu[s] = [in |-> idx, out |-> out]
      BY <2>3 DEF JobsBooked
    <3>2. QED BY <3>1
  <2>4. QED BY <2>1, <2>2, <2>3
<1>2. QED BY <1>1, BaseInvariant, PipeInvariant, PTL

(* Under these conditions a buffer downstream holds is not written.        *)
THEOREM HeldUntouched ==
  ASSUME "hoard" \notin Allowed, "gpu_hang" \notin Allowed
  PROVE  Spec => []HeldExclusive
<1>1. PipeInv => HeldExclusive BY DEF PipeInv
<1>2. QED BY <1>1, PipeInvariant, PTL

(* Under these conditions no path through create_path_b loses a buffer of  *)
(* vdin1 or of the pool, whatever else fails.                              *)
THEOREM BuffersKept ==
  ASSUME "hoard" \notin Allowed, "gpu_hang" \notin Allowed
  PROVE  Spec => []NoBufferLost
<1>1. PipeInv => NoBufferLost BY DEF PipeInv
<1>2. QED BY <1>1, PipeInvariant, PTL

-----------------------------------------------------------------------------
(***************************************************************************)
(* Order.  The frames on their way, from the oldest: delivered (seen), in  *)
(* flight, in the call of create, filled and queued.  Their marks increase *)
(* along the way, zero standing for an unmarked frame or for none.         *)
(***************************************************************************)
InFlight    == IF vk_async # None THEN tag[vk_async.in] ELSE 0
InCall      == IF idx # None THEN tag[idx] ELSE IF out # None THEN otag[out] ELSE 0
FilledMarks == [k \in 1..Len(doneq) |-> tag[doneq[k]]]

Before(a, b) == a # 0 /\ b # 0 => a < b

Sorted(s, f, c, q, m) ==
  /\ \A j, k \in DOMAIN s : j < k => s[j] < s[k]
  /\ \A k \in DOMAIN s : /\ s[k] <= m /\ Before(s[k], f) /\ Before(s[k], c)
                         /\ \A j \in DOMAIN q : Before(s[k], q[j])
  /\ f <= m /\ c <= m /\ Before(f, c)
  /\ \A j \in DOMAIN q : q[j] <= m /\ Before(f, q[j]) /\ Before(c, q[j])
  /\ \A j, k \in DOMAIN q : j < k => Before(q[j], q[k])

Ordered == Sorted(seen, InFlight, InCall, FilledMarks, marks)

(* A finished job has written the mark of its input to its output.         *)
Converted ==
  /\ vk_async # None /\ gpu[prev_slot] = None
       => otag[vk_async.out] = tag[vk_async.in]
  /\ pc = "pwait" /\ gpu[vk_slot] = None => otag[out] = tag[idx]

OrderInv == Converted /\ Ordered

(* The steps of a frame along the way keep the marks sorted: a frame is    *)
(* forgotten ...                                                           *)
LEMMA SortedForget ==
  ASSUME NEW s, NEW f, NEW c, NEW q, NEW m \in 0..2, Sorted(s, f, c, q, m),
         NEW f2 \in {f, 0}, NEW c2 \in {c, 0}
  PROVE  Sorted(s, f2, c2, q, m)
BY DEF Sorted, Before

(* ... the frame in flight is delivered and the one of the call takes its  *)
(* place ...                                                               *)
LEMMA SortedDeliver ==
  ASSUME NEW s \in Seq({1, 2}), NEW f \in 0..2, NEW c \in 0..2,
         NEW q \in Seq(0..2), NEW m \in 0..2, Sorted(s, f, c, q, m)
  PROVE  Sorted(IF f = 0 THEN s ELSE Append(s, f), c, 0, q, m)
<1>1. CASE f = 0 BY <1>1 DEF Sorted, Before
<1>2. CASE f # 0
  <2> DEFINE t == Append(s, f)
  <2>1. /\ Len(s) \in Nat /\ DOMAIN s = 1..Len(s) /\ DOMAIN t = 1..(Len(s) + 1)
        /\ t[Len(s) + 1] = f /\ \A k \in 1..Len(s) : t[k] = s[k]
    OBVIOUS
  <2>2. \A k \in 1..Len(s) : s[k] \in {1, 2} /\ s[k] < f
    BY <1>2 DEF Sorted, Before
  <2> HIDE DEF t
  <2>3. \A j, k \in DOMAIN t : j < k => t[j] < t[k]
    <3> SUFFICES ASSUME NEW j \in DOMAIN t, NEW k \in DOMAIN t, j < k
                 PROVE  t[j] < t[k]
      OBVIOUS
    <3>1. j \in 1..Len(s) BY <2>1
    <3>2. CASE k \in 1..Len(s) BY <2>1, <3>1, <3>2 DEF Sorted
    <3>3. CASE k = Len(s) + 1 BY <2>1, <2>2, <3>1, <3>3
    <3>4. QED BY <2>1, <3>2, <3>3
  <2>4. \A k \in DOMAIN t : /\ t[k] <= m /\ Before(t[k], c) /\ Before(t[k], 0)
                             /\ \A j \in DOMAIN q : Before(t[k], q[j])
    <3> SUFFICES ASSUME NEW k \in DOMAIN t
                 PROVE  /\ t[k] <= m /\ Before(t[k], c) /\ Before(t[k], 0)
                        /\ \A j \in DOMAIN q : Before(t[k], q[j])
      OBVIOUS
    <3>1. CASE k \in 1..Len(s) BY <2>1, <3>1 DEF Sorted, Before
    <3>2. CASE k = Len(s) + 1 BY <2>1, <3>2 DEF Sorted, Before
    <3>3. QED BY <2>1, <3>1, <3>2
  <2>5. c <= m /\ 0 <= m /\ Before(c, 0) BY DEF Sorted, Before
  <2>6. \A j \in DOMAIN q : q[j] <= m /\ Before(c, q[j]) /\ Before(0, q[j])
    BY DEF Sorted, Before
  <2>7. Sorted(t, c, 0, q, m)
    BY <2>3, <2>4, <2>5, <2>6 DEF Sorted
  <2>8. QED BY <1>2, <2>7 DEF t
<1>3. QED BY <1>1, <1>2

(* ... the frame in the call becomes the one in flight ...                 *)
LEMMA SortedShift ==
  ASSUME NEW s, NEW c, NEW q, NEW m \in 0..2, Sorted(s, 0, c, q, m)
  PROVE  Sorted(s, c, 0, q, m)
BY DEF Sorted, Before

(* ... the oldest filled frame is dequeued ...                             *)
LEMMA SortedPop ==
  ASSUME NEW s \in Seq({1, 2}), NEW f \in 0..2, NEW q \in Seq(0..2),
         NEW m \in 0..2, Sorted(s, f, 0, q, m), q # <<>>
  PROVE  Sorted(s, f, Head(q), Tail(q), m) /\ Head(q) \in 0..2
<1>1. /\ 1 \in DOMAIN q /\ Head(q) = q[1] /\ Head(q) \in 0..2
      /\ DOMAIN Tail(q) \subseteq Nat \ {0}
      /\ \A k \in DOMAIN Tail(q) : k + 1 \in DOMAIN q /\ Tail(q)[k] = q[k + 1]
  OBVIOUS
<1>2. \A k \in DOMAIN Tail(q) : Before(Head(q), Tail(q)[k])
  <2> SUFFICES ASSUME NEW k \in DOMAIN Tail(q)
               PROVE  Before(q[1], q[k + 1])
    BY <1>1
  <2>1. 1 < k + 1 /\ k + 1 \in DOMAIN q BY <1>1
  <2>2. QED BY <1>1, <2>1 DEF Sorted
<1>3. \A j, k \in DOMAIN Tail(q) : j < k => Before(Tail(q)[j], Tail(q)[k])
  <2> SUFFICES ASSUME NEW j \in DOMAIN Tail(q), NEW k \in DOMAIN Tail(q), j < k
               PROVE  Before(q[j + 1], q[k + 1])
    BY <1>1
  <2>1. j + 1 < k + 1 /\ j + 1 \in DOMAIN q /\ k + 1 \in DOMAIN q BY <1>1
  <2>2. QED BY <2>1 DEF Sorted
<1>4. QED BY <1>1, <1>2, <1>3 DEF Sorted

(* ... or vdin1 fills a buffer with an unmarked frame or the next mark.    *)
LEMMA SortedFill ==
  ASSUME NEW s \in Seq({1, 2}), NEW f \in 0..2, NEW c \in 0..2,
         NEW q \in Seq(0..2), NEW m \in 0..2, Sorted(s, f, c, q, m)
  PROVE  /\ Sorted(s, f, c, Append(q, 0), m)
         /\ Sorted(s, f, c, Append(q, m + 1), m + 1)
<1>1. ASSUME NEW t \in {0, m + 1}, NEW n \in {m, m + 1}, t <= n
      PROVE  Sorted(s, f, c, Append(q, t), n)
  <2> DEFINE r == Append(q, t)
  <2>1. /\ Len(q) \in Nat /\ DOMAIN q = 1..Len(q) /\ DOMAIN r = 1..(Len(q) + 1)
        /\ r[Len(q) + 1] = t /\ \A k \in 1..Len(q) : r[k] = q[k]
    OBVIOUS
  <2> HIDE DEF r
  <2>2. n \in Nat /\ t \in Nat /\ t <= n /\ m <= n
    BY <1>1
  <2>3. \A x \in Nat : x <= m => x <= n /\ Before(x, t)
    BY <1>1 DEF Before
  <2>4. /\ \A k \in DOMAIN s : s[k] \in Nat /\ s[k] <= m
        /\ \A k \in DOMAIN q : q[k] \in Nat /\ q[k] <= m
        /\ f <= m /\ c <= m
    BY DEF Sorted
  <2>5. \A k \in DOMAIN s : /\ s[k] <= n /\ Before(s[k], f) /\ Before(s[k], c)
                             /\ \A j \in DOMAIN r : Before(s[k], r[j])
    <3> SUFFICES ASSUME NEW k \in DOMAIN s
                 PROVE  /\ s[k] <= n /\ Before(s[k], f) /\ Before(s[k], c)
                        /\ \A j \in DOMAIN r : Before(s[k], r[j])
      OBVIOUS
    <3>1. s[k] <= n /\ Before(s[k], f) /\ Before(s[k], c) /\ Before(s[k], t)
      BY <2>3, <2>4 DEF Sorted
    <3>2. \A j \in 1..Len(q) : Before(s[k], r[j])
      BY <2>1 DEF Sorted
    <3>3. \A j \in DOMAIN r : j \in 1..Len(q) \/ j = Len(q) + 1
      BY <2>1
    <3>4. QED BY <2>1, <3>1, <3>2, <3>3
  <2>6. f <= n /\ c <= n /\ Before(f, c) BY <2>3, <2>4 DEF Sorted
  <2>7. \A j \in DOMAIN r : r[j] <= n /\ Before(f, r[j]) /\ Before(c, r[j])
    <3>1. \A j \in 1..Len(q) : r[j] <= n /\ Before(f, r[j]) /\ Before(c, r[j])
      BY <2>1, <2>3, <2>4 DEF Sorted
    <3>2. t <= n /\ Before(f, t) /\ Before(c, t) BY <2>2, <2>3, <2>4
    <3>3. \A j \in DOMAIN r : j \in 1..Len(q) \/ j = Len(q) + 1
      BY <2>1
    <3>4. QED BY <2>1, <3>1, <3>2, <3>3
  <2>8. \A j, k \in DOMAIN r : j < k => Before(r[j], r[k])
    <3> SUFFICES ASSUME NEW j \in DOMAIN r, NEW k \in DOMAIN r, j < k
                 PROVE  Before(r[j], r[k])
      OBVIOUS
    <3>1. j \in 1..Len(q) BY <2>1
    <3>2. CASE k \in 1..Len(q) BY <2>1, <3>1, <3>2 DEF Sorted
    <3>3. CASE k = Len(q) + 1 BY <2>1, <2>3, <2>4, <3>1, <3>3
    <3>4. QED BY <2>1, <3>2, <3>3
  <2>9. Sorted(s, f, c, r, n) BY <2>5, <2>6, <2>7, <2>8 DEF Sorted
  <2>10. QED BY <2>9 DEF r
<1>2. Sorted(s, f, c, Append(q, 0), m)
  <2>1. 0 <= m OBVIOUS
  <2>2. QED BY <1>1, <2>1, Zenon
<1>3. Sorted(s, f, c, Append(q, m + 1), m + 1) BY <1>1
<1>4. QED BY <1>2, <1>3

(* When vdin1 stops nothing is left on the way.                            *)
LEMMA SortedFlush ==
  ASSUME NEW s, NEW f, NEW c, NEW q, NEW m \in 0..2, Sorted(s, f, c, q, m)
  PROVE  Sorted(s, 0, 0, <<>>, m)
BY DEF Sorted, Before
(* Under the same conditions the order is an invariant.                    *)
LEMMA OrderInvariant ==
  ASSUME "hoard" \notin Allowed, "gpu_hang" \notin Allowed
  PROVE  Spec => []OrderInv
<1> USE DEF drv, mon, elem, pool, async, call, down
<1>1. Init => OrderInv
  BY DEF Init, OrderInv, Converted, Ordered, Sorted, InFlight, InCall,
         FilledMarks, Before, prev_slot
<1>2. BaseInv /\ PipeInv /\ OrderInv /\ [Next]_vars => OrderInv'
  <2> SUFFICES ASSUME BaseInv, PipeInv, OrderInv, [Next]_vars PROVE OrderInv'
    OBVIOUS
  <2> USE DEF BaseInv, TypeOK, TypeDriver, TypeElement, TypeGpu, TypeCall,
              PipeInv, OrderInv
  <2>types. /\ InFlight \in 0..2 /\ InCall \in 0..2 /\ seen \in Seq({1, 2})
            /\ marks \in 0..2 /\ FilledMarks \in Seq(0..2)
            /\ Len(FilledMarks) = Len(doneq)
    <3>1. InFlight \in 0..2 BY JobFields DEF InFlight
    <3>2. InCall \in 0..2 BY DEF InCall
    <3>3. \A k \in 1..Len(doneq) : tag[doneq[k]] \in 0..2 OBVIOUS
    <3>4. FilledMarks \in Seq(0..2) /\ Len(FilledMarks) = Len(doneq)
      BY <3>3 DEF FilledMarks
    <3>5. QED BY <3>1, <3>2, <3>4
  <2>same. ASSUME doneq' = doneq,
                  \A b \in Buf : bst[b] = "queued" => tag'[b] = tag[b]
           PROVE  FilledMarks' = FilledMarks
    <3>1. \A k \in 1..Len(doneq) : doneq[k] \in Buf /\ bst[doneq[k]] = "queued"
      BY DEF DriverOwnsFilled
    <3>2. QED BY <2>same, <3>1 DEF FilledMarks
  <2>pop. ASSUME doneq # <<>>, doneq' = Tail(doneq),
                 \A b \in Buf : b # Head(doneq) => tag'[b] = tag[b]
          PROVE  /\ FilledMarks # <<>> /\ FilledMarks' = Tail(FilledMarks)
                 /\ Head(FilledMarks) = tag[Head(doneq)]
                 /\ Head(doneq) \in Buf /\ Head(doneq) # None
    <3>1. /\ Head(doneq) \in Buf /\ Head(doneq) = doneq[1]
          /\ Len(doneq) \in Nat \ {0} /\ Len(doneq') = Len(doneq) - 1
          /\ \A k \in 1..Len(doneq') :
               doneq'[k] = doneq[k + 1] /\ doneq'[k] \in Buf /\ doneq'[k] # Head(doneq)
      BY <2>pop, PopQueue DEF DriverOwnsFilled
    <3>2. FilledMarks # <<>> /\ Head(FilledMarks) = tag[Head(doneq)]
      BY <2>types, <3>1 DEF FilledMarks
    <3>3. FilledMarks' = [k \in 1..(Len(doneq) - 1) |-> tag[doneq[k + 1]]]
      BY <2>pop, <3>1 DEF FilledMarks
    <3>4. Tail(FilledMarks) = [k \in 1..(Len(doneq) - 1) |-> FilledMarks[k + 1]]
      <4>1. FilledMarks \in Seq(0..2) /\ Len(FilledMarks) = Len(doneq)
        BY <2>types
      <4>2. /\ Tail(FilledMarks) \in Seq(0..2)
            /\ Len(Tail(FilledMarks)) = Len(doneq) - 1
            /\ \A k \in 1..(Len(doneq) - 1) : Tail(FilledMarks)[k] = FilledMarks[k + 1]
        BY ONLY <3>1, <3>2, <4>1
      <4>3. Tail(FilledMarks) = [k \in 1..(Len(doneq) - 1) |-> Tail(FilledMarks)[k]]
        <5> DEFINE x == Tail(FilledMarks)
        <5>1. x \in Seq(0..2) /\ Len(x) = Len(doneq) - 1 BY ONLY <4>2
        <5> HIDE DEF x
        <5>2. x = [k \in 1..Len(x) |-> x[k]] BY ONLY <5>1
        <5>3. x = [k \in 1..(Len(doneq) - 1) |-> x[k]] BY ONLY <5>1, <5>2
        <5>4. QED BY ONLY <5>3 DEF x
      <4>4. QED BY ONLY <4>2, <4>3
    <3>5. \A k \in 1..(Len(doneq) - 1) : FilledMarks[k + 1] = tag[doneq[k + 1]]
      BY <3>1 DEF FilledMarks
    <3>6. FilledMarks' = Tail(FilledMarks) BY ONLY <3>3, <3>4, <3>5
    <3>7. QED BY <3>1, <3>2, <3>6
  <2>forget. ASSUME UNCHANGED <<seen, marks>>, FilledMarks' = FilledMarks,
                    InFlight' \in {InFlight, 0}, InCall' \in {InCall, 0}
             PROVE  Ordered'
    BY <2>types, <2>forget, SortedForget DEF Ordered
  <2>delivered. ASSUME InFlight = 0,
                       seen' = IF InCall = 0 THEN seen ELSE Append(seen, InCall)
                PROVE  Sorted(seen', 0, 0, FilledMarks, marks) /\ seen' \in Seq({1, 2})
    <3>1. Sorted(seen, 0, InCall, FilledMarks, marks)
      BY <2>delivered DEF Ordered
    <3>2. Sorted(seen, InCall, 0, FilledMarks, marks)
      BY <2>types, <3>1, SortedShift
    <3>3. Sorted(seen', 0, 0, FilledMarks, marks)
      BY <2>types, <2>delivered, <3>2, SortedDeliver
    <3>4. seen' \in Seq({1, 2}) BY <2>types, <2>delivered
    <3>5. QED BY <3>3, <3>4
  <2>deliver. ASSUME InFlight = 0, InFlight' = 0, InCall' = 0, marks' = marks,
                     FilledMarks' = FilledMarks,
                     seen' = IF InCall = 0 THEN seen ELSE Append(seen, InCall)
              PROVE  Ordered'
    BY <2>deliver, <2>delivered DEF Ordered
  <2>1. ASSUME NEW i \in Buf, DriverFill(i) PROVE OrderInv'
    <3>1. /\ bst[i] = "queued" /\ doneq' = Append(doneq, i)
          /\ \A b \in Buf : b # i => tag'[b] = tag[b]
          /\ UNCHANGED <<bst, devOn, otag, gpu, async, pc, idx, out, seen>>
      BY <2>1 DEF DriverFill
    <3>2. \/ tag'[i] = 0 /\ marks' = marks
          \/ tag'[i] = marks + 1 /\ marks' = marks + 1
      BY <2>1 DEF DriverFill
    <3>3. /\ vk_async # None => vk_async.in \in Buf /\ vk_async.in # i
          /\ idx # None => idx # i
      BY <3>1, JobFields DEF InputsOwned
    <3>4. Converted' BY <3>1, <3>3 DEF Converted, prev_slot, CallLocals
    <3>5. InFlight' = InFlight /\ InCall' = InCall
      BY <3>1, <3>3 DEF InFlight, InCall
    <3>6. FilledMarks' = Append(FilledMarks, tag'[i])
      <4>1. \A k \in 1..Len(doneq) : doneq[k] \in Buf /\ doneq[k] # i
        BY <2>1 DEF DriverFill
      <4>2. /\ Len(doneq) \in Nat /\ Len(doneq') = Len(doneq) + 1
            /\ doneq'[Len(doneq) + 1] = i
            /\ \A k \in 1..Len(doneq) : doneq'[k] = doneq[k]
        BY <3>1
      <4>3. FilledMarks' = [k \in 1..(Len(doneq) + 1) |-> tag'[doneq'[k]]]
        BY <4>2 DEF FilledMarks
      <4>4. \A k \in 1..Len(doneq) : FilledMarks'[k] = FilledMarks[k]
        BY <3>1, <4>1, <4>2, <4>3 DEF FilledMarks
      <4>5. FilledMarks'[Len(doneq) + 1] = tag'[i] BY <4>2, <4>3
      <4>6. QED
        <5> DEFINE r == Append(FilledMarks, tag'[i])
        <5>1. /\ r = [k \in 1..(Len(doneq) + 1) |-> r[k]]
              /\ r[Len(doneq) + 1] = tag'[i]
              /\ \A k \in 1..Len(doneq) : r[k] = FilledMarks[k]
          BY <2>types, <4>2
        <5> HIDE DEF r
        <5>2. \A k \in 1..(Len(doneq) + 1) : FilledMarks'[k] = r[k]
          <6> SUFFICES ASSUME NEW k \in 1..(Len(doneq) + 1)
                       PROVE  FilledMarks'[k] = r[k]
            OBVIOUS
          <6>1. CASE k \in 1..Len(doneq) BY <4>4, <5>1, <6>1
          <6>2. CASE k = Len(doneq) + 1 BY <4>5, <5>1, <6>2
          <6>3. QED BY <4>2, <6>1, <6>2
        <5>3. FilledMarks' = r BY <4>3, <5>1, <5>2
        <5>4. QED BY <5>3 DEF r
    <3>7. Ordered'
      <4>1. CASE tag'[i] = 0 /\ marks' = marks
        BY <2>types, <3>1, <3>5, <3>6, <4>1, SortedFill DEF Ordered
      <4>2. CASE tag'[i] = marks + 1 /\ marks' = marks + 1
        BY <2>types, <3>1, <3>5, <3>6, <4>2, SortedFill DEF Ordered
      <4>3. QED BY <3>2, <4>1, <4>2
    <3>8. QED BY <3>4, <3>7
  <2>2. ASSUME NEW e \in {"changed", "lost", "other"}, SignalEvent(e) PROVE OrderInv'
    <3>1. Converted' BY <2>2 DEF Converted, prev_slot, CallLocals, SignalEvent
    <3>2. Ordered' BY <2>2 DEF Ordered, InFlight, InCall, FilledMarks,
        SignalEvent
    <3>3. QED BY <3>1, <3>2
  <2>3. ASSUME NEW s \in {0, 1}, GpuDone(s) PROVE OrderInv'
    <3>1. /\ gpu[s] # None /\ gpu' = [gpu EXCEPT ![s] = None]
          /\ otag' = [otag EXCEPT ![gpu[s].out] = tag[gpu[s].in]]
          /\ UNCHANGED <<tag, doneq, marks, seen, async, pc, idx, out>>
      BY <2>3 DEF GpuDone
    <3>2. CASE s = prev_slot
      <4>1. /\ gpu[s] = vk_async /\ vk_async # None
            /\ vk_async.out \in OutIdx /\ s # vk_slot
        BY <3>1, <3>2, JobFields DEF JobsBooked, prev_slot
      <4>2. pc \notin {"pwait", "ppoll", "pdq"} /\ out = None
        BY <4>1 DEF CallDepth, CallLocals
      <4>3. Converted' BY <3>1, <4>1, <4>2 DEF Converted
      <4>4. InFlight' = InFlight /\ InCall' = InCall /\ FilledMarks' = FilledMarks
        BY <3>1, <4>2 DEF InFlight, InCall, FilledMarks
      <4>5. QED BY <3>1, <4>3, <4>4 DEF Ordered
    <3>3. CASE s = vk_slot
      <4>1. /\ gpu[s] = [in |-> idx, out |-> out] /\ pc = "pwait"
            /\ vk_async = None /\ idx # None /\ out \in OutIdx
        BY <3>1, <3>3 DEF JobsBooked, CallDepth, CallLocals
      <4>2. Converted' BY <3>1, <4>1 DEF Converted
      <4>3. InFlight' = InFlight /\ InCall' = InCall /\ FilledMarks' = FilledMarks
        BY <3>1, <4>1 DEF InFlight, InCall, FilledMarks
      <4>4. QED BY <3>1, <4>2, <4>3 DEF Ordered
    <3>4. QED BY <3>2, <3>3 DEF prev_slot
  <2>4. CASE gst_streambox_src_start
    <3>1. Converted' BY <2>4 DEF Converted, prev_slot, CallLocals,
        gst_streambox_src_start
    <3>2. Ordered'
      <4>1. task = "off" /\ vk_async = None /\ idx = None /\ out = None
            /\ doneq = <<>> /\ UNCHANGED <<vk_async, idx, out, doneq, tag>>
        BY <2>4 DEF gst_streambox_src_start, Torn, CallLocals, Session
      <4>2. InFlight' = InFlight /\ InCall' = InCall /\ FilledMarks' = FilledMarks
        BY <4>1 DEF InFlight, InCall, FilledMarks
      <4>3. CASE UNCHANGED <<seen, marks>> BY <4>2, <4>3 DEF Ordered
      <4>4. CASE seen' = <<>> /\ marks' = 0
        <5>1. InFlight' = 0 /\ InCall' = 0 /\ DOMAIN FilledMarks' = {}
          BY <4>1, <4>2 DEF InFlight, InCall, FilledMarks
        <5>2. QED BY <4>4, <5>1 DEF Ordered, Sorted, Before
      <4>5. QED BY <2>4, <4>3, <4>4 DEF gst_streambox_src_start
    <3>3. QED BY <3>1, <3>2
  <2>5. CASE gst_streambox_src_unlock
    <3>1. Converted' BY <2>5 DEF Converted, prev_slot, CallLocals,
        gst_streambox_src_unlock
    <3>2. Ordered' BY <2>5 DEF Ordered, InFlight, InCall, FilledMarks,
        gst_streambox_src_unlock
    <3>3. QED BY <3>1, <3>2
  <2>6. CASE gst_streambox_src_unlock_stop
    <3>1. Converted' BY <2>6 DEF Converted, prev_slot, CallLocals,
        gst_streambox_src_unlock_stop
    <3>2. Ordered' BY <2>6 DEF Ordered, InFlight, InCall, FilledMarks,
        gst_streambox_src_unlock_stop
    <3>3. QED BY <3>1, <3>2
  <2>7. CASE Resume
    <3>1. Converted' BY <2>7 DEF Converted, prev_slot, CallLocals, Resume
    <3>2. Ordered' BY <2>7 DEF Ordered, InFlight, InCall, FilledMarks, Resume
    <3>3. QED BY <3>1, <3>2
  <2>8. CASE StopDrain
    <3>1. Converted' BY <2>8 DEF Converted, prev_slot, CallLocals, StopDrain,
        Qbuf, DrainBufs, DrainWait, vdin1_vk_wait_async
    <3>2. Ordered'
      <4>1. /\ UNCHANGED <<seen, marks, doneq, idx, out>> /\ vk_async' = None
            /\ idx = None /\ out = None
        BY <2>8 DEF StopDrain, CallLocals
      <4>2. vk_async # None => vk_async.in \in Buf /\ bst[vk_async.in] = "deq"
        BY JobFields DEF InputsOwned
      <4>3. \A b \in Buf : bst[b] = "queued" => tag'[b] = tag[b]
        BY <2>8, <4>2 DEF StopDrain, Qbuf, DrainBufs, vk_async_pending
      <4>4. FilledMarks' = FilledMarks BY <4>1, <4>3, <2>same
      <4>5. InFlight' = 0 /\ InCall' = 0 BY <4>1 DEF InFlight, InCall
      <4>6. QED BY <4>1, <4>4, <4>5, <2>forget
    <3>3. QED BY <3>1, <3>2
  <2>9. CASE stop_path_b
    <3>1. Converted' BY <2>9 DEF Converted, prev_slot, CallLocals, stop_path_b
    <3>2. Ordered'
      <4>1. UNCHANGED <<seen, marks>> /\ doneq' = <<>> /\ vk_async' = None
            /\ idx' = None /\ out' = None
        BY <2>9 DEF stop_path_b, Torn, CallLocals
      <4>2. InFlight' = 0 /\ InCall' = 0 /\ FilledMarks' = <<>>
        BY <4>1 DEF InFlight, InCall, FilledMarks
      <4>3. QED BY <4>1, <4>2, SortedFlush DEF Ordered
    <3>3. QED BY <3>1, <3>2
  <2>10. CASE gst_streambox_src_create
    <3>1. Converted' BY <2>10 DEF Converted, prev_slot, CallLocals,
        gst_streambox_src_create, Return
    <3>2. Ordered'
      <4>1. UNCHANGED <<seen, marks>> /\ InFlight' = InFlight
        BY <2>10 DEF gst_streambox_src_create, Return, InFlight
      <4>2. FilledMarks' = FilledMarks
        BY <2>10, <2>same DEF gst_streambox_src_create, Return
      <4>3. InCall' \in {InCall, 0}
        BY <2>10 DEF gst_streambox_src_create, Return, InCall, CallLocals
      <4>4. QED BY <4>1, <4>2, <4>3, <2>forget
    <3>3. QED BY <3>1, <3>2
  <2>11. CASE PollFlush
    <3>1. Converted' BY <2>11 DEF Converted, prev_slot, CallLocals, PollFlush,
        Return
    <3>2. Ordered'
      <4>1. UNCHANGED <<seen, marks>> /\ InFlight' = InFlight
        BY <2>11 DEF PollFlush, Return, InFlight
      <4>2. FilledMarks' = FilledMarks BY <2>11, <2>same DEF PollFlush, Return
      <4>3. InCall' \in {InCall, 0} BY <2>11 DEF PollFlush, Return, InCall, CallLocals
      <4>4. QED BY <4>1, <4>2, <4>3, <2>forget
    <3>3. QED BY <3>1, <3>2
  <2>12. CASE PollSignal
    <3>1. Converted' BY <2>12 DEF Converted, prev_slot, CallLocals, PollSignal,
        handle_signal_event
    <3>2. Ordered' BY <2>12 DEF Ordered, InFlight, InCall, FilledMarks,
        PollSignal, handle_signal_event
    <3>3. QED BY <3>1, <3>2
  <2>13. CASE PollReady
    <3>1. Converted' BY <2>13 DEF Converted, prev_slot, CallLocals, PollReady
    <3>2. Ordered' BY <2>13 DEF Ordered, InFlight, InCall, FilledMarks,
        PollReady
    <3>3. QED BY <3>1, <3>2
  <2>14. CASE PollTimeout
    <3>1. Converted' BY <2>14 DEF Converted, prev_slot, CallLocals, PollTimeout
    <3>2. Ordered' BY <2>14 DEF Ordered, InFlight, InCall, FilledMarks,
        PollTimeout
    <3>3. QED BY <3>1, <3>2
  <2>15. CASE clean_exit
    <3>1. Converted' BY <2>15 DEF Converted, prev_slot, CallLocals, clean_exit,
        DrainWait, vdin1_vk_wait_async, DrainFree, Return
    <3>2. Ordered'
      <4>1. UNCHANGED <<seen, marks>> /\ doneq' = <<>> /\ vk_async' = None
            /\ idx' = None /\ out' = None
        BY <2>15 DEF clean_exit, Return
      <4>2. InFlight' = 0 /\ InCall' = 0 /\ FilledMarks' = <<>>
        BY <4>1 DEF InFlight, InCall, FilledMarks
      <4>3. QED BY <4>1, <4>2, SortedFlush DEF Ordered
    <3>3. QED BY <3>1, <3>2
  <2>16. CASE do_dqbuf
    <3>1. Converted' BY <2>16 DEF Converted, prev_slot, CallLocals, do_dqbuf,
        Return
    <3>2. Ordered'
      <4>1. /\ UNCHANGED <<seen, marks, tag, otag, vk_async>>
            /\ idx = None /\ out = None
        BY <2>16 DEF do_dqbuf, CallLocals
      <4>2. InFlight' = InFlight /\ InCall = 0 BY <4>1 DEF InFlight, InCall
      <4>3. CASE doneq' = doneq /\ idx' = None /\ out' = None
        <5>1. InCall' = 0 BY <4>3 DEF InCall
        <5>2. FilledMarks' = FilledMarks BY <4>1, <4>3, <2>same
        <5>3. QED BY <4>1, <4>2, <5>1, <5>2, <2>forget
      <4>4. CASE doneq # <<>> /\ doneq' = Tail(doneq) /\ idx' = Head(doneq)
        <5>1. /\ FilledMarks # <<>> /\ FilledMarks' = Tail(FilledMarks)
              /\ Head(FilledMarks) = tag[Head(doneq)] /\ Head(doneq) # None
          BY <4>1, <4>4, <2>pop
        <5>2. InCall' = Head(FilledMarks) BY <4>1, <4>4, <5>1 DEF InCall
        <5>3. QED BY <2>types, <4>1, <4>2, <5>1, <5>2, SortedPop DEF Ordered
      <4>5. QED BY <2>16, <4>1, <4>3, <4>4 DEF do_dqbuf, Return
    <3>3. QED BY <3>1, <3>2
  <2>17. CASE Deliver8
    <3>1. /\ pc = "wrap" /\ idx \in Buf /\ bst[idx] = "deq" /\ vk_async = None
          /\ UNCHANGED <<doneq, marks, otag, gpu, async>>
          /\ pc' = "idle" /\ idx' = None /\ out' = None
      BY <2>17 DEF Deliver8, qbuf_return, Return, CallLocals, CallDepth, InputsOwned
    <3>2. Converted' BY <3>1 DEF Converted
    <3>3. /\ InFlight = 0 /\ InFlight' = 0 /\ InCall = tag[idx] /\ InCall' = 0
      BY <3>1 DEF InFlight, InCall
    <3>4. CASE Deliver(idx, tag[idx]) /\ tag' = tag
      <4>1. FilledMarks' = FilledMarks BY <3>1, <3>4, <2>same
      <4>2. seen' = IF InCall = 0 THEN seen ELSE Append(seen, InCall)
        BY <3>3, <3>4 DEF Deliver
      <4>3. QED BY <3>1, <3>2, <3>3, <4>1, <4>2, <2>deliver
    <3>5. CASE Qbuf({idx}) /\ seen' = seen
      <4>1. FilledMarks' = FilledMarks BY <3>1, <3>5, <2>same DEF Qbuf
      <4>2. QED BY <3>1, <3>2, <3>3, <3>5, <4>1, <2>forget
    <3>6. QED BY <2>17, <3>4, <3>5 DEF Deliver8, qbuf_return
  <2>18. CASE PrimeSubmit
    <3>1. /\ pc = "prime" /\ idx \in Buf /\ vk_async = None
          /\ UNCHANGED <<drv, otag, async, idx, seen>> /\ out' \in OutIdx
      BY <2>18, AcquiredFree DEF PrimeSubmit, CallLocals, CallDepth
    <3>2. gpu'[vk_slot] # None
      <4>1. [in |-> idx, out |-> out'] \in Job BY <3>1 DEF Job
      <4>2. QED BY <2>18, <4>1 DEF PrimeSubmit, vdin1_vk_submit_async
    <3>3. Converted' BY <3>1, <3>2 DEF Converted
    <3>4. InFlight' = InFlight /\ InCall' = InCall /\ FilledMarks' = FilledMarks
      BY <3>1 DEF InFlight, InCall, FilledMarks
    <3>5. QED BY <3>1, <3>3, <3>4 DEF Ordered
  <2>19. CASE PrimeFail
    <3>1. /\ idx \in Buf /\ bst[idx] = "deq" /\ vk_async = None /\ Qbuf({idx})
          /\ UNCHANGED <<doneq, marks, otag, gpu, async, seen>>
          /\ pc' = "idle" /\ idx' = None /\ out' = None
      BY <2>19 DEF PrimeFail, qbuf_return, Return, CallLocals, CallDepth, InputsOwned
    <3>2. Converted' BY <3>1 DEF Converted
    <3>3. InFlight' = 0 /\ InCall' = 0 BY <3>1 DEF InFlight, InCall
    <3>4. FilledMarks' = FilledMarks BY <3>1, <2>same DEF Qbuf
    <3>5. QED BY <3>1, <3>2, <3>3, <3>4, <2>forget
  <2>20. CASE PrimeWait
    <3>1. /\ pc = "pwait" /\ idx \in Buf /\ bst[idx] = "deq" /\ vk_async = None
          /\ out \in OutIdx /\ Qbuf({idx}) /\ gpu[vk_slot] = None
          /\ UNCHANGED <<doneq, marks, otag, gpu, async, seen>>
          /\ pc' # "pwait" /\ idx' = None /\ out' \in {out, None}
      BY <2>20 DEF PrimeWait, Return, CallLocals, CallDepth, InputsOwned,
         vdin1_vk_wait_async
    <3>2. Converted' BY <3>1 DEF Converted
    <3>3. InFlight' = 0 BY <3>1 DEF InFlight
    <3>4. InCall' \in {InCall, 0} BY <3>1 DEF InCall, Converted
    <3>5. FilledMarks' = FilledMarks BY <3>1, <2>same DEF Qbuf
    <3>6. QED BY <3>1, <3>2, <3>3, <3>4, <3>5, <2>forget
  <2>21. CASE PrimePollReturn
    <3>1. Converted' BY <2>21 DEF Converted, prev_slot, CallLocals,
        PrimePollReturn, handle_signal_event, PrimeReturn, Deliver, Return
    <3>2. Ordered'
      <4>1. /\ idx = None /\ out \in OutIdx /\ vk_async = None
            /\ UNCHANGED <<drv, vk_async>> /\ idx' = None /\ out' = None
            /\ Deliver(out, otag[out])
        BY <2>21 DEF PrimePollReturn, PrimeReturn, Return, CallLocals, CallDepth
      <4>2. /\ InFlight = 0 /\ InFlight' = 0 /\ InCall = otag[out] /\ InCall' = 0
        BY <4>1 DEF InFlight, InCall
      <4>3. FilledMarks' = FilledMarks BY <4>1, <2>same
      <4>4. seen' = IF InCall = 0 THEN seen ELSE Append(seen, InCall)
        BY <4>1, <4>2 DEF Deliver
      <4>5. QED BY <4>1, <4>2, <4>3, <4>4, <2>deliver
    <3>3. QED BY <3>1, <3>2
  <2>22. CASE PrimePoll
    <3>1. Converted' BY <2>22 DEF Converted, prev_slot, CallLocals, PrimePoll,
        handle_signal_event
    <3>2. Ordered' BY <2>22 DEF Ordered, InFlight, InCall, FilledMarks,
        PrimePoll, handle_signal_event
    <3>3. QED BY <3>1, <3>2
  <2>23. CASE PrimeDqbuf
    <3>1. /\ pc = "pdq" /\ idx = None /\ out \in OutIdx /\ vk_async = None
          /\ UNCHANGED <<marks, otag>> /\ idx' = None /\ pc' # "pwait"
          /\ gpu[vk_slot] = None /\ gpu[prev_slot] = None
      BY <2>23 DEF PrimeDqbuf, PrimeReturn, Return, CallLocals, CallDepth, JobsBooked
    <3>2. InFlight = 0 /\ InCall = otag[out] BY <3>1 DEF InFlight, InCall
    <3>3. CASE UNCHANGED <<doneq, tag, gpu, async, out, down>>
      BY <3>1, <3>3 DEF Converted, Ordered, prev_slot, InFlight, InCall, FilledMarks
    <3>4. ASSUME PrimeReturn, vk_async' = None,
                 \/ UNCHANGED <<doneq, tag>>
                 \/ /\ doneq # <<>> /\ doneq' = Tail(doneq)
                    /\ tag' = [tag EXCEPT ![Head(doneq)] = 0]
          PROVE  OrderInv'
      <4>1. Converted' BY <3>1, <3>4 DEF Converted
      <4>2. InFlight' = 0 /\ InCall' = 0
        BY <3>4 DEF InFlight, InCall, PrimeReturn, Return
      <4>3. seen' = IF InCall = 0 THEN seen ELSE Append(seen, InCall)
        BY <3>2, <3>4 DEF PrimeReturn, Deliver
      <4>4. CASE UNCHANGED <<doneq, tag>>
        <5>1. FilledMarks' = FilledMarks BY <4>4, <2>same
        <5>2. QED BY <3>1, <3>2, <4>1, <4>2, <4>3, <5>1, <2>deliver
      <4>5. CASE doneq # <<>> /\ doneq' = Tail(doneq)
                 /\ tag' = [tag EXCEPT ![Head(doneq)] = 0]
        <5>1. /\ FilledMarks # <<>> /\ FilledMarks' = Tail(FilledMarks)
          BY <4>5, <2>pop
        <5>2. /\ Sorted(seen', 0, 0, FilledMarks, marks) /\ seen' \in Seq({1, 2})
          BY <2>types, <3>2, <4>3, <2>delivered
        <5>3. Sorted(seen', 0, Head(FilledMarks), FilledMarks', marks)
          BY <2>types, <5>1, <5>2, SortedPop
        <5>4. Sorted(seen', 0, 0, FilledMarks', marks)
          BY <2>types, <5>3, SortedForget
        <5>5. QED BY <3>1, <4>1, <4>2, <5>4 DEF Ordered
      <4>6. QED BY <3>4, <4>4, <4>5
    <3>5. ASSUME doneq # <<>>, doneq' = Tail(doneq), FreeOut # {}, tag' = tag,
                 Submitted(Head(doneq), p010_pool_acquire), PrimeReturn
          PROVE  OrderInv'
      <4> DEFINE h == Head(doneq)
                 a == p010_pool_acquire
      <4>1. /\ h \in Buf /\ FilledMarks # <<>> /\ FilledMarks' = Tail(FilledMarks)
            /\ Head(FilledMarks) = tag[h]
        BY <3>5, <2>pop
      <4>2. a \in OutIdx BY <3>5, AcquiredFree
      <4>3. /\ vk_async' = [in |-> h, out |-> a] /\ vk_slot' = 1 - vk_slot
            /\ gpu' = [gpu EXCEPT ![vk_slot] = [in |-> h, out |-> a]]
        BY <3>5 DEF Submitted, vdin1_vk_submit_async
      <4> HIDE DEF h, a
      <4>4. vk_async' # None /\ vk_async'.in = h
        BY <4>1, <4>2, <4>3 DEF Job
      <4>5. gpu'[prev_slot'] # None
        BY <4>3, <4>4 DEF prev_slot
      <4>6. Converted' BY <3>1, <4>5 DEF Converted
      <4>7. InFlight' = Head(FilledMarks) /\ InCall' = 0
        BY <3>5, <4>1, <4>4 DEF InFlight, InCall, PrimeReturn, Return
      <4>8. seen' = IF InCall = 0 THEN seen ELSE Append(seen, InCall)
        BY <3>2, <3>5 DEF PrimeReturn, Deliver
      <4>9. Sorted(seen', 0, 0, FilledMarks, marks) /\ seen' \in Seq({1, 2})
        BY <2>types, <3>2, <4>8, <2>delivered
      <4>10. /\ Sorted(seen', 0, Head(FilledMarks), Tail(FilledMarks), marks)
             /\ Head(FilledMarks) \in 0..2
        BY <2>types, <4>1, <4>9, SortedPop
      <4>11. Sorted(seen', Head(FilledMarks), 0, Tail(FilledMarks), marks)
        BY <2>types, <4>10, SortedShift
      <4>12. Ordered' BY <3>1, <4>1, <4>7, <4>11 DEF Ordered
      <4>13. QED BY <4>6, <4>12
    <3>6. QED BY <2>23, <3>1, <3>3, <3>4, <3>5 DEF PrimeDqbuf, NotSubmitted
  <2>24. CASE AwaitFail
    <3>1. Converted' BY <2>24 DEF Converted, prev_slot, CallLocals, AwaitFail,
        vdin1_vk_wait_async, Qbuf, Return
    <3>2. Ordered'
      <4>1. /\ idx \in Buf /\ bst[idx] = "deq" /\ vk_async # None
            /\ vk_async.in \in Buf /\ bst[vk_async.in] = "deq"
        BY <2>24, JobFields DEF AwaitFail, CallLocals, CallDepth, InputsOwned
      <4>2. UNCHANGED <<seen, marks, doneq>> /\ Qbuf({vk_async.in, idx})
            /\ vk_async' = None /\ idx' = None /\ out' = None
        BY <2>24 DEF AwaitFail, Return
      <4>3. InFlight' = 0 /\ InCall' = 0 BY <4>2 DEF InFlight, InCall
      <4>4. FilledMarks' = FilledMarks BY <4>1, <4>2, <2>same DEF Qbuf
      <4>5. QED BY <4>2, <4>3, <4>4, <2>forget
    <3>3. QED BY <3>1, <3>2
  <2>25. CASE AwaitReturn
    <3>1. /\ pc = "await" /\ idx \in Buf /\ bst[idx] = "deq" /\ vk_async # None
          /\ vk_async.in \in Buf /\ bst[vk_async.in] = "deq"
          /\ vk_async.in # idx /\ gpu[prev_slot] = None /\ pc' = "idle"
          /\ idx' = None /\ out' = None /\ UNCHANGED <<doneq, marks, otag>>
      BY <2>25, JobFields DEF AwaitReturn, Return, CallLocals, CallDepth,
         InputsOwned, vdin1_vk_wait_async
    <3>2. /\ InFlight = tag[vk_async.in] /\ InCall = tag[idx] /\ InCall' = 0
          /\ otag[vk_async.out] = InFlight
      BY <3>1 DEF InFlight, InCall, Converted
    <3>3. seen' = IF InFlight = 0 THEN seen ELSE Append(seen, InFlight)
      BY <2>25, <3>2 DEF AwaitReturn, Deliver
    <3>4. Sorted(seen', InCall, 0, FilledMarks, marks)
      BY <2>types, <3>3, SortedDeliver DEF Ordered
    <3>5. CASE NotSubmitted /\ Qbuf({vk_async.in, idx})
      <4>1. vk_async' = None BY <3>5 DEF NotSubmitted
      <4>2. Converted' BY <3>1, <4>1 DEF Converted
      <4>3. FilledMarks' = FilledMarks BY <3>1, <3>5, <2>same DEF Qbuf
      <4>4. InFlight' = 0 BY <4>1 DEF InFlight
      <4>5. Sorted(seen', 0, 0, FilledMarks, marks)
        BY <2>types, <3>4, SortedForget
      <4>6. QED BY <3>1, <3>2, <4>2, <4>3, <4>4, <4>5 DEF Ordered
    <3>6. CASE FreeOut # {} /\ Submitted(idx, p010_pool_acquire)
               /\ Qbuf({vk_async.in})
      <4> DEFINE a == p010_pool_acquire
      <4>1. a \in OutIdx BY <3>6, AcquiredFree
      <4>2. /\ vk_async' = [in |-> idx, out |-> a] /\ vk_slot' = 1 - vk_slot
            /\ gpu' = [gpu EXCEPT ![vk_slot] = [in |-> idx, out |-> a]]
        BY <3>6 DEF Submitted, vdin1_vk_submit_async
      <4> HIDE DEF a
      <4>3. vk_async' # None /\ vk_async'.in = idx
        BY <3>1, <4>1, <4>2 DEF Job
      <4>4. gpu'[prev_slot'] # None
        BY <4>2, <4>3 DEF prev_slot
      <4>5. Converted' BY <3>1, <4>4 DEF Converted
      <4>6. FilledMarks' = FilledMarks BY <3>1, <3>6, <2>same DEF Qbuf
      <4>7. InFlight' = InCall
        <5>1. tag'[idx] = tag[idx] BY <3>1, <3>6 DEF Qbuf
        <5>2. QED BY <3>2, <4>3, <5>1 DEF InFlight
      <4>8. QED BY <3>1, <3>2, <3>4, <4>5, <4>6, <4>7 DEF Ordered
    <3>7. QED BY <2>25, <3>5, <3>6 DEF AwaitReturn
  <2>26. ASSUME NEW x \in OutIdx \cup Buf, BufRelease(x) PROVE OrderInv'
    <3>1. /\ x \in held
          /\ UNCHANGED <<doneq, marks, seen, otag, gpu, async, pc, idx, out>>
      BY <2>26 DEF BufRelease, Session
    <3>2. ASSUME NEW b \in Buf, ~(x = b /\ ~vdin1_10bit) PROVE tag'[b] = tag[b]
      BY <2>26, <3>1, <3>2 DEF BufRelease, GiveBack, Qbuf
    <3>3. ~vdin1_10bit => bst[x] = "deq" /\ x # idx /\ vk_async = None
      BY <3>1 DEF HeldExclusive, InputsOwned, CallDepth
    <3>4. vk_async # None => vk_async.in \in Buf BY JobFields
    <3>5. Converted' BY <3>1, <3>2, <3>3, <3>4 DEF Converted, prev_slot, CallLocals
    <3>6. InFlight' = InFlight /\ InCall' = InCall
      BY <3>1, <3>2, <3>3, <3>4 DEF InFlight, InCall
    <3>7. \A b \in Buf : bst[b] = "queued" => tag'[b] = tag[b]
      BY <3>2, <3>3
    <3>8. FilledMarks' = FilledMarks BY <3>1, <3>7, <2>same
    <3>9. QED BY <3>1, <3>5, <3>6, <3>8 DEF Ordered
  <2>27. CASE UNCHANGED vars BY <2>27 DEF vars, Converted, prev_slot,
      CallLocals, Ordered, InFlight, InCall, FilledMarks
  <2>28. QED
    BY <2>1, <2>2, <2>3, <2>4, <2>5, <2>6, <2>7, <2>8, <2>9, <2>10, <2>11,
       <2>12, <2>13, <2>14, <2>15, <2>16, <2>17, <2>18, <2>19, <2>20, <2>21,
       <2>22, <2>23, <2>24, <2>25, <2>26, <2>27
    DEF Next, Control, Create
<1>3. QED BY <1>1, <1>2, BaseInvariant, PipeInvariant, PTL DEF Spec

(* Under the same conditions frames arrive downstream in the order of      *)
(* their capture and none twice, whichever path each of them took.         *)
THEOREM FramesInOrder ==
  ASSUME "hoard" \notin Allowed, "gpu_hang" \notin Allowed
  PROVE  Spec => []FrameOrder
<1>1. BaseInv /\ OrderInv => FrameOrder
  <2> SUFFICES ASSUME BaseInv, OrderInv PROVE FrameOrder
    OBVIOUS
  <2>1. /\ seen \in Seq({1, 2})
        /\ \A j, k \in DOMAIN seen : j < k => seen[j] < seen[k]
    BY DEF BaseInv, TypeOK, TypeCall, OrderInv, Ordered, Sorted
  <2>2. Len(seen) \in Nat /\ \A k \in 1..Len(seen) : seen[k] \in {1, 2}
    BY <2>1
  <2>3. Len(seen) < 3
    <3> SUFFICES ASSUME Len(seen) >= 3 PROVE FALSE
      BY <2>2
    <3>1. 1 \in DOMAIN seen /\ 2 \in DOMAIN seen /\ 3 \in DOMAIN seen
      BY <2>1, <2>2
    <3>2. seen[1] < seen[2] /\ seen[2] < seen[3]
      BY <2>1, <3>1
    <3>3. QED BY <2>2, <3>2
  <2>4. CASE Len(seen) = 0
    BY <2>1, <2>4 DEF FrameOrder
  <2>5. CASE Len(seen) = 1
    <3>1. seen = <<seen[1]>> /\ seen[1] \in {1, 2}
      BY <2>1, <2>2, <2>5
    <3>2. QED BY <3>1 DEF FrameOrder
  <2>6. CASE Len(seen) = 2
    <3>1. seen = <<seen[1], seen[2]>>
      BY <2>1, <2>6
    <3>2. seen[1] = 1 /\ seen[2] = 2
      BY <2>1, <2>2, <2>6
    <3>3. QED BY <3>1, <3>2 DEF FrameOrder
  <2>7. Len(seen) = 0 \/ Len(seen) = 1 \/ Len(seen) = 2
    BY <2>1, <2>3
  <2>8. QED BY <2>4, <2>5, <2>6, <2>7
<1>2. QED BY <1>1, BaseInvariant, OrderInvariant, PTL
=============================================================================
