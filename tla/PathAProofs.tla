---------------------------- MODULE PathAProofs -----------------------------
(***************************************************************************)
(* Proofs about PathA for every number of buffers, every set of shapes and *)
(* any number of sessions.                                                 *)
(***************************************************************************)
EXTENDS PathA, TLAPS

USE PathAAssumption

(* Types of what the element sees of the library.                          *)
ApiType ==
  /\ open \in BOOLEAN /\ on \in BOOLEAN /\ busy \in BOOLEAN /\ lost \in BOOLEAN
  /\ shape \in Shape /\ client \subseteq Buf

(* The context number that the element keeps is that of the last context,  *)
(* and the context exists from start to the close inside stop.             *)
CtxOpen ==
  /\ cap_ctx = IF task = "off" THEN 0 ELSE gen
  /\ task # "off" => gen > 0
  /\ open <=> task \in {"starting", "running", "stopping", "stopped"}

(* A call is in progress only where GstBaseSrc lets one run, and it has a  *)
(* frame only after an acquire has returned.  A context is new to start,   *)
(* with no loss reported.                                                  *)
CallPhase ==
  /\ task = "starting" <=> pc \in {"start", "test", "tacq", "tgot", "undo"}
  /\ pc \in {"acq", "ret"} => task \in {"running", "stopping"}
  /\ got # None => pc \in {"tgot", "ret"}
  /\ pc = "tgot" => got # None
  /\ ~open \/ pc \in {"start", "test", "tacq"} => ~lost

(* The caps say the shape of the test frame once they are pushed; no       *)
(* session starts with the caps of the one before.                         *)
CapsSet ==
  /\ caps \in {None, width}
  /\ pc \in {"acq", "ret"} => caps = width
  /\ task \in {"off", "starting"} => \A f \in down : f.ctx # cap_ctx
  /\ task = "starting" => caps = None
  /\ \A f \in down : f.ctx <= gen

(* Downstream and the callbacks have frames of the current context only.   *)
OneContext ==
  /\ \A f \in down : f.ctx = gen
  /\ \A r \in rel : r.ctx = gen /\ r.frame.ctx = gen
  /\ down # {} \/ rel # {} => task \in {"running", "stopping", "stopped"}

(* Each frame that is out is held from the library, by one of them.        *)
HeldOnce ==
  /\ \A f \in down : f.idx \in client
  /\ \A r \in rel : r.frame.idx \in client
  /\ got # None => got \in client
  /\ \A f, g \in down : f.idx = g.idx => f = g
  /\ \A r, s \in rel : r.frame.idx = s.frame.idx => r = s
  /\ \A f \in down, r \in rel : f.idx # r.frame.idx
  /\ \A f \in down : f.idx # got
  /\ \A r \in rel : r.frame.idx # got

(* After the report of a loss the element acquires again only when nothing *)
(* is out any more.                                                        *)
LostQuiet ==
  /\ lost => \/ Quiet
             \/ pc = "ret" /\ got = None
             \/ pc = "idle" /\ flow # "ok"
  /\ pc \in {"ret", "tgot"} /\ got # None => ~lost

(* The inductive invariant, for a downstream that returns its buffers      *)
(* before a flush ends or the element stops.                               *)
ElementInv ==
  OneContext /\ HeldOnce /\ LostQuiet /\ LeaksOnlyInFlush

(* What holds of the element whatever downstream does with its buffers.    *)
BaseInv == TypeOK /\ ApiType /\ CtxOpen /\ CallPhase

(* BaseInv is kept: TypeOK alone is not, since a start that fails counts a *)
(* context without one.                                                    *)
LEMMA BaseInvariant == Spec => []BaseInv
<1> USE DEF BaseInv, TypeOK, elem, call, downs, apiVars
<1>1. Init => BaseInv
  <2>1. Init => TypeOK
    <3>1. Init => TypeElement
      <4>1. Init => gen \in 0..MaxSessions /\ cap_ctx \in {0, gen} BY DEF Init
      <4>2. QED BY <4>1 DEF Init, TypeElement
    <3>2. Init => TypeCall BY DEF Init, TypeCall
    <3>3. Init => TypeDown BY DEF Init, TypeDown
    <3>4. QED BY <3>1, <3>2, <3>3
  <2>2. Init => ApiType BY DEF Init, ApiInit, ApiType
  <2>3. Init => CtxOpen BY DEF Init, ApiInit, CtxOpen
  <2>4. Init => CallPhase BY DEF Init, ApiInit, CallPhase
  <2>5. QED BY <2>1, <2>2, <2>3, <2>4
<1>2. BaseInv /\ [Next]_vars => BaseInv'
  <2> SUFFICES ASSUME BaseInv, [Next]_vars PROVE BaseInv'
    OBVIOUS
  <2>1. CASE StartOpen
    <3>1. TypeOK'
      <4>1. TypeElement'
        <5>1. gen' \in 0..MaxSessions /\ cap_ctx' \in {0, gen'}
          BY <2>1 DEF TypeElement, CtxOpen, StartOpen
        <5>2. QED BY <2>1, <5>1 DEF TypeElement, StartOpen
      <4>2. TypeCall' BY <2>1 DEF TypeCall, StartOpen, At
      <4>3. TypeDown' BY <2>1 DEF TypeDown, StartOpen
      <4>4. QED BY <4>1, <4>2, <4>3
    <3>2. ApiType' BY <2>1 DEF ApiType, StartOpen, Open, At
    <3>3. CtxOpen' BY <2>1 DEF TypeElement, CtxOpen, StartOpen, Open, At
    <3>4. CallPhase' BY <2>1 DEF CallPhase, StartOpen, Open, At
    <3>5. QED BY <3>1, <3>2, <3>3, <3>4
  <2>2. CASE StartStream
    <3>1. TypeOK' BY <2>2 DEF TypeElement, TypeCall, TypeDown, StartStream, At
    <3>2. lost' => lost BY <2>2 DEF StartStream, Start
    <3>3. ApiType' BY <2>2 DEF ApiType, StartStream, Start
    <3>4. CtxOpen' BY <2>2 DEF CtxOpen, StartStream, Start
    <3>5. CallPhase' BY <2>2, <3>2 DEF CallPhase, StartStream, Start, At
    <3>6. QED BY <3>1, <3>3, <3>4, <3>5
  <2>3. CASE StartAcquire
    BY <2>3 DEF TypeElement, TypeCall, TypeDown,
      ApiType, CtxOpen, CallPhase, StartAcquire, Acquire, At
  <2>4. CASE StartAcquired
    <3>1. TypeOK'
      BY <2>4 DEF TypeElement, TypeCall, TypeDown, CtxOpen, StartAcquired, Got, Fail
    <3>2. ApiType' BY <2>4 DEF ApiType, StartAcquired, Got, Fail
    <3>3. CtxOpen' BY <2>4 DEF TypeElement, CtxOpen, StartAcquired, Got, Fail
    <3>4. CallPhase'
      <4>1. task = "starting" /\ task' = task /\ open' = open /\ ~lost
        BY <2>4 DEF StartAcquired, CallPhase, Got, Fail
      <4>2. ASSUME NEW i \in Buf, Got(i), got' = i PROVE CallPhase'
        <5>1. res' = "ok" /\ ~lost' BY <4>1, <4>2 DEF Got
        <5>2. pc' = "tgot" /\ got' # None BY <2>4, <4>2, <5>1 DEF StartAcquired
        <5>3. QED BY <4>1, <5>1, <5>2 DEF CallPhase
      <4>3. CASE Fail /\ got' = None
        <5>1. pc' = "undo" BY <2>4, <4>3 DEF StartAcquired, Fail, Failures
        <5>2. QED BY <4>1, <4>3, <5>1 DEF CallPhase, CtxOpen
      <4>4. QED BY <2>4, <4>2, <4>3 DEF StartAcquired
    <3>5. QED BY <3>1, <3>2, <3>3, <3>4
  <2>5. CASE StartDone
    BY <2>5 DEF TypeElement, TypeCall, TypeDown,
      ApiType, CtxOpen, CallPhase, StartDone, ReleaseFrame, Release, Return
  <2>6. CASE StartUndo
    BY <2>6 DEF TypeElement, TypeCall, TypeDown,
      ApiType, CtxOpen, CallPhase, StartUndo, Close, Return
  <2>7. CASE gst_streambox_src_unlock
    BY <2>7 DEF TypeElement, TypeCall, TypeDown,
      ApiType, CtxOpen, CallPhase, gst_streambox_src_unlock
  <2>8. CASE gst_streambox_src_unlock_stop
    BY <2>8 DEF TypeElement, TypeCall, TypeDown,
      ApiType, CtxOpen, CallPhase, gst_streambox_src_unlock_stop
  <2>9. CASE Resume
    BY <2>9 DEF TypeElement, TypeCall, TypeDown,
      ApiType, CtxOpen, CallPhase, Resume
  <2>10. CASE stop_path_a
    BY <2>10 DEF TypeElement, TypeCall, TypeDown,
      ApiType, CtxOpen, CallPhase, stop_path_a, Close
  <2>11. CASE StopDone
    BY <2>11 DEF TypeElement, TypeCall, TypeDown,
      ApiType, CtxOpen, CallPhase, StopDone
  <2>12. CASE create_path_a
    BY <2>12 DEF TypeElement, TypeCall, TypeDown,
      ApiType, CtxOpen, CallPhase, create_path_a, Return, Acquire, At
  <2>13. CASE Reconfigure
    BY <2>13 DEF TypeElement, TypeCall, TypeDown,
      ApiType, CtxOpen, CallPhase, Reconfigure, Replace
  <2>14. CASE Acquired
    BY <2>14 DEF TypeElement, TypeCall, TypeDown,
      ApiType, CtxOpen, CallPhase, Acquired, Got, Fail
  <2>15. CASE RetFlushing
    BY <2>15 DEF TypeElement, TypeCall, TypeDown,
      ApiType, CtxOpen, CallPhase, RetFlushing, Return
  <2>16. CASE RetNoFrame
    BY <2>16 DEF TypeElement, TypeCall, TypeDown,
      ApiType, CtxOpen, CallPhase, RetNoFrame, Return
  <2>17. CASE RetChanged
    BY <2>17 DEF TypeElement, TypeCall, TypeDown,
      ApiType, CtxOpen, CallPhase, RetChanged, ReleaseFrame, Release, Return
  <2>18. CASE RetWrapFail
    BY <2>18 DEF TypeElement, TypeCall, TypeDown,
      ApiType, CtxOpen, CallPhase, RetWrapFail, ReleaseFrame, Release, Return
  <2>19. CASE RetBuffer
    BY <2>19 DEF TypeElement, TypeCall, TypeDown,
      ApiType, CtxOpen, CallPhase, RetBuffer, Return, Frame
  <2>20. ASSUME NEW f \in down, patha_frame_release(f) PROVE BaseInv'
    BY <2>20 DEF TypeElement, TypeCall, TypeDown,
      ApiType, CtxOpen, CallPhase, patha_frame_release, Frame
  <2>21. ASSUME NEW r \in rel, CallRelease(r) PROVE BaseInv'
    BY <2>21 DEF TypeElement, TypeCall, TypeDown,
      ApiType, CtxOpen, CallPhase, CallRelease, ReleaseFrame, Release
  <2>22. CASE UNCHANGED vars
    BY <2>22 DEF TypeElement, TypeCall, TypeDown,
      ApiType, CtxOpen, CallPhase, vars
  <2>23. QED
    BY <2>1, <2>2, <2>3, <2>4, <2>5, <2>6, <2>7, <2>8, <2>9, <2>10, <2>11, <2>12, <2>13,
      <2>14, <2>15, <2>16, <2>17, <2>18, <2>19, <2>20, <2>21, <2>22 DEF Next, Element
<1>3. QED BY <1>1, <1>2, PTL DEF Spec

(* CapsTruth rests on how the caps are set.                                *)
CapsInv == CapsSet /\ CapsTruth

(* CapsInv is kept by every step.                                          *)
LEMMA CapsInvariant == Spec => []CapsInv
<1> USE DEF CapsInv, elem, call, downs, apiVars
<1>1. Init => CapsInv
  BY DEF Init, CapsSet, CapsTruth
<1>2. BaseInv /\ CapsInv /\ [Next]_vars => CapsInv'
  <2> SUFFICES ASSUME BaseInv, CapsInv, [Next]_vars PROVE CapsInv'
    OBVIOUS
  <2> USE DEF BaseInv, TypeOK, TypeElement, TypeCall, TypeDown, CtxOpen, CallPhase
  <2>1. CASE StartOpen
    BY <2>1 DEF CapsSet, CapsTruth, Frame, StartOpen, Open, At
  <2>2. CASE StartStream
    BY <2>2 DEF CapsSet, CapsTruth, StartStream, Start, At
  <2>3. CASE StartAcquire
    BY <2>3 DEF CapsSet, CapsTruth, StartAcquire, Acquire, At
  <2>4. CASE StartAcquired
    BY <2>4 DEF CapsSet, CapsTruth, StartAcquired, Got, Fail
  <2>5. CASE StartDone
    BY <2>5 DEF CapsSet, CapsTruth, StartDone, ReleaseFrame, Release, Return
  <2>6. CASE StartUndo
    BY <2>6 DEF CapsSet, CapsTruth, Frame, StartUndo, Close, Return
  <2>7. CASE gst_streambox_src_unlock
    BY <2>7 DEF CapsSet, CapsTruth, gst_streambox_src_unlock
  <2>8. CASE gst_streambox_src_unlock_stop
    BY <2>8 DEF CapsSet, CapsTruth, gst_streambox_src_unlock_stop
  <2>9. CASE Resume
    BY <2>9 DEF CapsSet, CapsTruth, Resume
  <2>10. CASE stop_path_a
    BY <2>10 DEF CapsSet, CapsTruth, stop_path_a, Close
  <2>11. CASE StopDone
    BY <2>11 DEF CapsSet, CapsTruth, Frame, StopDone
  <2>12. CASE create_path_a
    BY <2>12 DEF CapsSet, CapsTruth, Frame, create_path_a, Return, Acquire, At
  <2>13. CASE Reconfigure
    BY <2>13 DEF CapsSet, CapsTruth, Reconfigure, Replace
  <2>14. CASE Acquired
    BY <2>14 DEF CapsSet, CapsTruth, Acquired, Got, Fail
  <2>15. CASE RetFlushing
    BY <2>15 DEF CapsSet, CapsTruth, RetFlushing, Return
  <2>16. CASE RetNoFrame
    BY <2>16 DEF CapsSet, CapsTruth, RetNoFrame, Return
  <2>17. CASE RetChanged
    BY <2>17 DEF CapsSet, CapsTruth, RetChanged, ReleaseFrame, Release, Return
  <2>18. CASE RetWrapFail
    BY <2>18 DEF CapsSet, CapsTruth, RetWrapFail, ReleaseFrame, Release, Return
  <2>19. CASE RetBuffer
    BY <2>19 DEF CapsSet, CapsTruth, RetBuffer, Return, Frame
  <2>20. ASSUME NEW f \in down, patha_frame_release(f) PROVE CapsInv'
    BY <2>20 DEF CapsSet, CapsTruth, patha_frame_release, Frame
  <2>21. ASSUME NEW r \in rel, CallRelease(r) PROVE CapsInv'
    BY <2>21 DEF CapsSet, CapsTruth, CallRelease, ReleaseFrame, Release
  <2>22. CASE UNCHANGED vars
    BY <2>22 DEF CapsSet, CapsTruth, vars
  <2>23. QED
    BY <2>1, <2>2, <2>3, <2>4, <2>5, <2>6, <2>7, <2>8, <2>9, <2>10, <2>11, <2>12, <2>13,
      <2>14, <2>15, <2>16, <2>17, <2>18, <2>19, <2>20, <2>21, <2>22 DEF Next, Element
<1>3. QED BY <1>1, <1>2, BaseInvariant, PTL DEF Spec

(* ElementInv is kept by every step.                                       *)
LEMMA ElementInvariant ==
  ASSUME "hoard" \notin Allowed
  PROVE  Spec => []ElementInv
<1> USE DEF ElementInv, elem, call, downs, apiVars
<1>1. Init => ElementInv
  BY DEF Init, ApiInit, OneContext, HeldOnce, LostQuiet, LeaksOnlyInFlush, Quiet
<1>2. BaseInv /\ ElementInv /\ [Next]_vars => ElementInv'
  <2> SUFFICES ASSUME BaseInv, ElementInv, [Next]_vars PROVE ElementInv'
    OBVIOUS
  <2> USE DEF BaseInv, TypeOK, TypeElement, TypeCall, TypeDown, CtxOpen, CallPhase
  <2>1. CASE StartOpen
    <3>1. OneContext' BY <2>1 DEF OneContext, Quiet, HeldOnce, StartOpen, Open, At
    <3>2. HeldOnce'
      BY <2>1 DEF HeldOnce, ApiType, OneContext, LostQuiet, Quiet, StartOpen, Open, At
    <3>3. LostQuiet'
      BY <2>1 DEF LostQuiet, Quiet, OneContext, ApiType, Failures, StartOpen, Open, At
    <3>4. LeaksOnlyInFlush'
      BY <2>1 DEF LeaksOnlyInFlush, Accounted, OneContext, HeldOnce, ApiType, StartOpen,
        Open, At
    <3>5. QED BY <3>1, <3>2, <3>3, <3>4
  <2>2. CASE StartStream
    <3>1. OneContext' BY <2>2 DEF OneContext, Quiet, HeldOnce, StartStream, Start, At
    <3>2. HeldOnce'
      BY <2>2 DEF HeldOnce, ApiType, OneContext, LostQuiet, Quiet, StartStream, Start,
        At
    <3>3. LostQuiet'
      BY <2>2 DEF LostQuiet, Quiet, OneContext, ApiType, Failures, StartStream, Start,
        At
    <3>4. LeaksOnlyInFlush'
      BY <2>2 DEF LeaksOnlyInFlush, Accounted, OneContext, HeldOnce, ApiType,
        StartStream, Start, At
    <3>5. QED BY <3>1, <3>2, <3>3, <3>4
  <2>3. CASE StartAcquire
    <3>1. OneContext' BY <2>3 DEF OneContext, Quiet, HeldOnce, StartAcquire, Acquire, At
    <3>2. HeldOnce'
      BY <2>3 DEF HeldOnce, ApiType, OneContext, LostQuiet, Quiet, StartAcquire,
        Acquire, At
    <3>3. LostQuiet'
      BY <2>3 DEF LostQuiet, Quiet, OneContext, ApiType, Failures, StartAcquire,
        Acquire, At
    <3>4. LeaksOnlyInFlush'
      BY <2>3 DEF LeaksOnlyInFlush, Accounted, OneContext, HeldOnce, ApiType,
        StartAcquire, Acquire, At
    <3>5. QED BY <3>1, <3>2, <3>3, <3>4
  <2>4. CASE StartAcquired
    <3>1. OneContext' BY <2>4 DEF OneContext, Quiet, HeldOnce, StartAcquired, Got, Fail
    <3>2. HeldOnce'
      BY <2>4 DEF HeldOnce, ApiType, OneContext, LostQuiet, Quiet, StartAcquired, Got,
        Fail
    <3>3. LostQuiet'
      BY <2>4 DEF LostQuiet, Quiet, OneContext, ApiType, Failures, StartAcquired, Got,
        Fail
    <3>4. LeaksOnlyInFlush'
      BY <2>4 DEF LeaksOnlyInFlush, Accounted, OneContext, HeldOnce, ApiType,
        StartAcquired, Got, Fail
    <3>5. QED BY <3>1, <3>2, <3>3, <3>4
  <2>5. CASE StartDone
    <3>1. OneContext'
      BY <2>5 DEF OneContext, Quiet, HeldOnce, StartDone, ReleaseFrame, Release, Return
    <3>2. HeldOnce'
      BY <2>5 DEF HeldOnce, ApiType, OneContext, LostQuiet, Quiet, StartDone,
        ReleaseFrame, Release, Return
    <3>3. LostQuiet'
      BY <2>5 DEF LostQuiet, Quiet, OneContext, ApiType, Failures, StartDone,
        ReleaseFrame, Release, Return
    <3>4. LeaksOnlyInFlush'
      BY <2>5 DEF LeaksOnlyInFlush, Accounted, OneContext, HeldOnce, ApiType, StartDone,
        ReleaseFrame, Release, Return
    <3>5. QED BY <3>1, <3>2, <3>3, <3>4
  <2>6. CASE StartUndo
    <3>1. OneContext' BY <2>6 DEF OneContext, Quiet, HeldOnce, StartUndo, Close, Return
    <3>2. HeldOnce'
      BY <2>6 DEF HeldOnce, ApiType, OneContext, LostQuiet, Quiet, StartUndo, Close,
        Return
    <3>3. LostQuiet'
      BY <2>6 DEF LostQuiet, Quiet, OneContext, ApiType, Failures, StartUndo, Close,
        Return
    <3>4. LeaksOnlyInFlush'
      BY <2>6 DEF LeaksOnlyInFlush, Accounted, OneContext, HeldOnce, ApiType, StartUndo,
        Close, Return
    <3>5. QED BY <3>1, <3>2, <3>3, <3>4
  <2>7. CASE gst_streambox_src_unlock
    <3>1. OneContext' BY <2>7 DEF OneContext, Quiet, HeldOnce, gst_streambox_src_unlock
    <3>2. HeldOnce'
      BY <2>7 DEF HeldOnce, ApiType, OneContext, LostQuiet, Quiet,
        gst_streambox_src_unlock
    <3>3. LostQuiet'
      BY <2>7 DEF LostQuiet, Quiet, OneContext, ApiType, Failures,
        gst_streambox_src_unlock
    <3>4. LeaksOnlyInFlush'
      BY <2>7 DEF LeaksOnlyInFlush, Accounted, OneContext, HeldOnce, ApiType,
        gst_streambox_src_unlock
    <3>5. QED BY <3>1, <3>2, <3>3, <3>4
  <2>8. CASE gst_streambox_src_unlock_stop
    <3>1. OneContext'
      BY <2>8 DEF OneContext, Quiet, HeldOnce, gst_streambox_src_unlock_stop
    <3>2. HeldOnce'
      BY <2>8 DEF HeldOnce, ApiType, OneContext, LostQuiet, Quiet,
        gst_streambox_src_unlock_stop
    <3>3. LostQuiet'
      BY <2>8 DEF LostQuiet, Quiet, OneContext, ApiType, Failures,
        gst_streambox_src_unlock_stop
    <3>4. LeaksOnlyInFlush'
      BY <2>8 DEF LeaksOnlyInFlush, Accounted, OneContext, HeldOnce, ApiType,
        gst_streambox_src_unlock_stop
    <3>5. QED BY <3>1, <3>2, <3>3, <3>4
  <2>9. CASE Resume
    <3>1. OneContext' BY <2>9 DEF OneContext, Quiet, HeldOnce, Resume
    <3>2. HeldOnce' BY <2>9 DEF HeldOnce, ApiType, OneContext, LostQuiet, Quiet, Resume
    <3>3. LostQuiet' BY <2>9 DEF LostQuiet, Quiet, OneContext, ApiType, Failures, Resume
    <3>4. LeaksOnlyInFlush'
      BY <2>9 DEF LeaksOnlyInFlush, Accounted, OneContext, HeldOnce, ApiType, Resume
    <3>5. QED BY <3>1, <3>2, <3>3, <3>4
  <2>10. CASE stop_path_a
    <3>1. OneContext' BY <2>10 DEF OneContext, Quiet, HeldOnce, stop_path_a, Close
    <3>2. HeldOnce'
      BY <2>10 DEF HeldOnce, ApiType, OneContext, LostQuiet, Quiet, stop_path_a, Close
    <3>3. LostQuiet'
      BY <2>10 DEF LostQuiet, Quiet, OneContext, ApiType, Failures, stop_path_a, Close
    <3>4. LeaksOnlyInFlush'
      BY <2>10 DEF LeaksOnlyInFlush, Accounted, OneContext, HeldOnce, ApiType,
        stop_path_a, Close
    <3>5. QED BY <3>1, <3>2, <3>3, <3>4
  <2>11. CASE StopDone
    <3>1. OneContext' BY <2>11 DEF OneContext, Quiet, HeldOnce, StopDone
    <3>2. HeldOnce'
      BY <2>11 DEF HeldOnce, ApiType, OneContext, LostQuiet, Quiet, StopDone
    <3>3. LostQuiet'
      BY <2>11 DEF LostQuiet, Quiet, OneContext, ApiType, Failures, StopDone
    <3>4. LeaksOnlyInFlush'
      BY <2>11 DEF LeaksOnlyInFlush, Accounted, OneContext, HeldOnce, ApiType, StopDone
    <3>5. QED BY <3>1, <3>2, <3>3, <3>4
  <2>12. CASE create_path_a
    <3>1. OneContext'
      BY <2>12 DEF OneContext, Quiet, HeldOnce, create_path_a, Return, Acquire, At
    <3>2. HeldOnce'
      BY <2>12 DEF HeldOnce, ApiType, OneContext, LostQuiet, Quiet, create_path_a,
        Return, Acquire, At
    <3>3. LostQuiet'
      BY <2>12 DEF LostQuiet, Quiet, OneContext, ApiType, Failures, create_path_a,
        Return, Acquire, At
    <3>4. LeaksOnlyInFlush'
      BY <2>12 DEF LeaksOnlyInFlush, Accounted, OneContext, HeldOnce, ApiType,
        create_path_a, Return, Acquire, At
    <3>5. QED BY <3>1, <3>2, <3>3, <3>4
  <2>13. CASE Reconfigure
    <3>1. OneContext' BY <2>13 DEF OneContext, Quiet, HeldOnce, Reconfigure, Replace
    <3>2. HeldOnce'
      BY <2>13 DEF HeldOnce, ApiType, OneContext, LostQuiet, Quiet, Reconfigure, Replace
    <3>3. LostQuiet'
      BY <2>13 DEF LostQuiet, Quiet, OneContext, ApiType, Failures, Reconfigure, Replace
    <3>4. LeaksOnlyInFlush'
      BY <2>13 DEF LeaksOnlyInFlush, Accounted, OneContext, HeldOnce, ApiType,
        Reconfigure, Replace
    <3>5. QED BY <3>1, <3>2, <3>3, <3>4
  <2>14. CASE Acquired
    <3>1. OneContext' BY <2>14 DEF OneContext, Quiet, HeldOnce, Acquired, Got, Fail
    <3>2. HeldOnce'
      BY <2>14 DEF HeldOnce, ApiType, OneContext, LostQuiet, Quiet, Acquired, Got, Fail
    <3>3. LostQuiet'
      BY <2>14 DEF LostQuiet, Quiet, OneContext, ApiType, Failures, Acquired, Got, Fail
    <3>4. LeaksOnlyInFlush'
      BY <2>14 DEF LeaksOnlyInFlush, Accounted, OneContext, HeldOnce, ApiType, Acquired,
        Got, Fail
    <3>5. QED BY <3>1, <3>2, <3>3, <3>4
  <2>15. CASE RetFlushing
    <3>1. OneContext' BY <2>15 DEF OneContext, Quiet, HeldOnce, RetFlushing, Return
    <3>2. HeldOnce'
      BY <2>15 DEF HeldOnce, ApiType, OneContext, LostQuiet, Quiet, RetFlushing, Return
    <3>3. LostQuiet'
      BY <2>15 DEF LostQuiet, Quiet, OneContext, ApiType, Failures, RetFlushing, Return
    <3>4. LeaksOnlyInFlush'
      BY <2>15 DEF LeaksOnlyInFlush, Accounted, OneContext, HeldOnce, ApiType,
        RetFlushing, Return
    <3>5. QED BY <3>1, <3>2, <3>3, <3>4
  <2>16. CASE RetNoFrame
    <3>1. OneContext' BY <2>16 DEF OneContext, Quiet, HeldOnce, RetNoFrame, Return
    <3>2. HeldOnce'
      BY <2>16 DEF HeldOnce, ApiType, OneContext, LostQuiet, Quiet, RetNoFrame, Return
    <3>3. LostQuiet'
      BY <2>16 DEF LostQuiet, Quiet, OneContext, ApiType, Failures, RetNoFrame, Return
    <3>4. LeaksOnlyInFlush'
      BY <2>16 DEF LeaksOnlyInFlush, Accounted, OneContext, HeldOnce, ApiType,
        RetNoFrame, Return
    <3>5. QED BY <3>1, <3>2, <3>3, <3>4
  <2>17. CASE RetChanged
    <3>1. OneContext'
      BY <2>17 DEF OneContext, Quiet, HeldOnce, RetChanged, ReleaseFrame, Release,
        Return
    <3>2. HeldOnce'
      BY <2>17 DEF HeldOnce, ApiType, OneContext, LostQuiet, Quiet, RetChanged,
        ReleaseFrame, Release, Return
    <3>3. LostQuiet'
      BY <2>17 DEF LostQuiet, Quiet, OneContext, ApiType, Failures, RetChanged,
        ReleaseFrame, Release, Return
    <3>4. LeaksOnlyInFlush'
      BY <2>17 DEF LeaksOnlyInFlush, Accounted, OneContext, HeldOnce, ApiType,
        RetChanged, ReleaseFrame, Release, Return
    <3>5. QED BY <3>1, <3>2, <3>3, <3>4
  <2>18. CASE RetWrapFail
    <3>1. OneContext'
      BY <2>18 DEF OneContext, Quiet, HeldOnce, RetWrapFail, ReleaseFrame, Release,
        Return
    <3>2. HeldOnce'
      BY <2>18 DEF HeldOnce, ApiType, OneContext, LostQuiet, Quiet, RetWrapFail,
        ReleaseFrame, Release, Return
    <3>3. LostQuiet'
      BY <2>18 DEF LostQuiet, Quiet, OneContext, ApiType, Failures, RetWrapFail,
        ReleaseFrame, Release, Return
    <3>4. LeaksOnlyInFlush'
      BY <2>18 DEF LeaksOnlyInFlush, Accounted, OneContext, HeldOnce, ApiType,
        RetWrapFail, ReleaseFrame, Release, Return
    <3>5. QED BY <3>1, <3>2, <3>3, <3>4
  <2>19. CASE RetBuffer
    <3>1. OneContext' BY <2>19 DEF OneContext, Quiet, HeldOnce, RetBuffer, Return, Frame
    <3>2. HeldOnce'
      BY <2>19 DEF HeldOnce, ApiType, OneContext, LostQuiet, Quiet, RetBuffer, Return,
        Frame
    <3>3. LostQuiet'
      BY <2>19 DEF LostQuiet, Quiet, OneContext, ApiType, Failures, RetBuffer, Return,
        Frame
    <3>4. LeaksOnlyInFlush'
      <4> DEFINE f0 == [ctx |-> cap_ctx, idx |-> got, shape |-> shape]
      <4>1. f0.ctx = gen /\ f0.idx = got /\ down' = down \cup {f0}
        BY <2>19 DEF RetBuffer
      <4>2. UNCHANGED <<client, dropped, gen, rel>> BY <2>19 DEF RetBuffer
      <4>3. QED BY <4>1, <4>2 DEF LeaksOnlyInFlush, Accounted
    <3>5. QED BY <3>1, <3>2, <3>3, <3>4
  <2>20. ASSUME NEW f \in down, patha_frame_release(f) PROVE ElementInv'
    <3>1. OneContext'
      BY <2>20 DEF OneContext, Quiet, HeldOnce, patha_frame_release, Frame
    <3>2. HeldOnce'
      BY <2>20 DEF HeldOnce, ApiType, OneContext, LostQuiet, Quiet, patha_frame_release,
        Frame
    <3>3. LostQuiet'
      BY <2>20 DEF LostQuiet, Quiet, OneContext, ApiType, Failures, patha_frame_release,
        Frame
    <3>4. LeaksOnlyInFlush'
      <4> DEFINE r0 == [ctx |-> cap_ctx, frame |-> f]
      <4>1. cap_ctx # 0 BY <2>20 DEF OneContext
      <4>2. /\ r0.frame = f /\ rel' = rel \cup {r0} /\ down' = down \ {f}
            /\ UNCHANGED <<client, dropped, gen, got>>
        BY <2>20, <4>1 DEF patha_frame_release
      <4>3. QED BY <4>2 DEF LeaksOnlyInFlush, Accounted
    <3>5. QED BY <3>1, <3>2, <3>3, <3>4
  <2>21. ASSUME NEW r \in rel, CallRelease(r) PROVE ElementInv'
    <3>1. OneContext'
      BY <2>21 DEF OneContext, Quiet, HeldOnce, CallRelease, ReleaseFrame, Release
    <3>2. HeldOnce'
      BY <2>21 DEF HeldOnce, ApiType, OneContext, LostQuiet, Quiet, CallRelease,
        ReleaseFrame, Release
    <3>3. LostQuiet'
      BY <2>21 DEF LostQuiet, Quiet, OneContext, ApiType, Failures, CallRelease,
        ReleaseFrame, Release
    <3>4. LeaksOnlyInFlush'
      BY <2>21 DEF LeaksOnlyInFlush, Accounted, OneContext, HeldOnce, ApiType,
        CallRelease, ReleaseFrame, Release
    <3>5. QED BY <3>1, <3>2, <3>3, <3>4
  <2>22. CASE UNCHANGED vars
    <3>1. OneContext' BY <2>22 DEF OneContext, Quiet, HeldOnce, vars
    <3>2. HeldOnce' BY <2>22 DEF HeldOnce, ApiType, OneContext, LostQuiet, Quiet, vars
    <3>3. LostQuiet' BY <2>22 DEF LostQuiet, Quiet, OneContext, ApiType, Failures, vars
    <3>4. LeaksOnlyInFlush'
      BY <2>22 DEF LeaksOnlyInFlush, Accounted, OneContext, HeldOnce, ApiType, vars
    <3>5. QED BY <3>1, <3>2, <3>3, <3>4
  <2>23. QED
    BY <2>1, <2>2, <2>3, <2>4, <2>5, <2>6, <2>7, <2>8, <2>9, <2>10, <2>11, <2>12, <2>13,
      <2>14, <2>15, <2>16, <2>17, <2>18, <2>19, <2>20, <2>21, <2>22 DEF Next, Element
<1>3. QED BY <1>1, <1>2, BaseInvariant, PTL DEF Spec
(* The element, its call and everything out with downstream keep their     *)
(* types, whatever downstream does.                                        *)
THEOREM TypeCorrect == Spec => []TypeOK
<1>1. BaseInv => TypeOK BY DEF BaseInv
<1>2. QED BY <1>1, BaseInvariant, PTL

(* Downstream never has a buffer of the running session in another shape   *)
(* than the caps say, even if it keeps buffers over flushes and restarts.  *)
THEOREM CapsAlwaysTrue == Spec => []CapsTruth
<1>1. CapsInv => CapsTruth BY DEF CapsInv
<1>2. QED BY <1>1, CapsInvariant, PTL

(* A frame that downstream has is not given back under its hands.          *)
THEOREM FramesStayHeld ==
  ASSUME "hoard" \notin Allowed
  PROVE  Spec => []FramesHeld
<1>1. ElementInv => FramesHeld BY DEF ElementInv, HeldOnce, FramesHeld
<1>2. QED BY <1>1, ElementInvariant, PTL

(* create_path_a forgets a frame in the flush that meets an acquire and    *)
(* nowhere else.                                                           *)
THEOREM OnlyFlushLeaks ==
  ASSUME "hoard" \notin Allowed
  PROVE  Spec => []LeaksOnlyInFlush
<1>1. ElementInv => LeaksOnlyInFlush BY DEF ElementInv
<1>2. QED BY <1>1, ElementInvariant, PTL

(* The element keeps the condition under which VfmCapProofs shows that the *)
(* library is safe, but for the frames that a flush swallowed.             *)
THEOREM LibraryConditionKept ==
  ASSUME "hoard" \notin Allowed
  PROVE  Spec => []HoldsNothingAcross
<1>1. BaseInv /\ ElementInv => HoldsNothingAcross
  <2> SUFFICES ASSUME BaseInv, ElementInv,
                      (lost /\ pc \in {"acq", "tacq"}) \/ task = "closing"
               PROVE  client \subseteq dropped /\ down = {}
    BY DEF HoldsNothingAcross
  <2>1. got = None BY DEF BaseInv, CallPhase
  <2>2. down = {} /\ rel = {}
    BY DEF ElementInv, LostQuiet, Quiet, OneContext
  <2>3. client \subseteq Buf /\ None \notin Buf BY DEF BaseInv, ApiType
  <2>4. QED BY <2>1, <2>2, <2>3 DEF ElementInv, LeaksOnlyInFlush, Accounted
<1>2. QED BY <1>1, BaseInvariant, ElementInvariant, PTL

(* patha_frame_release calls the library only on the context that is open. *)
THEOREM CallbackContextOpen ==
  ASSUME "hoard" \notin Allowed
  PROVE  Spec => []NoUseAfterClose
<1>1. BaseInv /\ ElementInv => NoUseAfterClose
  BY DEF BaseInv, CtxOpen, ElementInv, OneContext, NoUseAfterClose
<1>2. QED BY <1>1, BaseInvariant, ElementInvariant, PTL
=============================================================================
