---------------------------- MODULE UvmDecProofs ----------------------------
(***************************************************************************)
(* Proofs about UvmDec for every number of buffers of both ports, every    *)
(* length of the ring and of av_sync's queue, every file and every number  *)
(* of resolution changes.                                                  *)
(***************************************************************************)
EXTENDS UvmDec, TLAPS

-----------------------------------------------------------------------------
(***************************************************************************)
(* Types of the records, in more detail than TypeOK.                       *)
(***************************************************************************)
Pic == [f : Frame, last : BOOLEAN]

DriverRec ==
  [outq : Seq(OutIdx), outd : Seq(OutIdx), capq : Seq(Frame),
   capd : Seq(Pic), ev : Seq({"src", "eos"}),
   st : {"new", "run", "flush", "halt", "off"}, stop : BOOLEAN]

DecoderRec ==
  [pc : {"none", "poll", "out", "used", "in", "show", "eos", "wait", "res",
         "free", "setup", "off", "done", "stuck"},
   in : BOOLEAN, hand : Frame \cup {None, Eos}, late : 0..NOut, res : BOOLEAN,
   eos : BOOLEAN, push : BOOLEAN]

CaptureRec == [gen : 0..MaxGen, queued : SUBSET Frame, recycle : SUBSET Frame,
               alive : SUBSET Frame]

SyncRec == [q : Seq(Frame \cup {Eos}), shown : Frame \cup {None, Eos}]

DisplayRec == [pc : {"none", "pop", "flip", "inc", "end", "done"},
               f : Frame \cup {None}, cb : Seq(Frame), n : 0..RingLen,
               flag : BOOLEAN]

RecycleRec == [pc : {"none", "run", "dec", "fence", "flag", "done"},
               f : Frame \cup {None}, n : 0..RingLen]

RingRec == [slot : [0 .. RingLen - 1 -> Frame \cup {None}],
            ri : 0 .. RingLen - 1, wi : 0 .. RingLen - 1, n : 0..RingLen]

OutRec == [OutIdx -> [queued : BOOLEAN, used : 0..Room]]

TypeDriver == drv \in DriverRec
TypeDecoder == dec \in DecoderRec
TypeCapture == cap \in CaptureRec /\ lock \in Frame \cup {None}
TypeShow == syn \in SyncRec /\ disp \in DisplayRec
TypeRing == rec \in RecycleRec /\ ring \in RingRec

(***************************************************************************)
(* What the decoder thread has in hand, and what its round of poll has     *)
(* seen and nobody else takes away.                                        *)
(***************************************************************************)
DecoderHas ==
  /\ dec.hand # None <=> dec.pc = "show"
  /\ dec.late # 0 <=> dec.pc = "used"
  /\ dec.pc = "none" <=> cap.gen = 0
  /\ dmx.pc = "first" => cap.gen = 0
  /\ cap.gen = 0 => drv.st = "new" /\ drv.ev = <<>> /\ ~dec.res /\ ~dec.push

PollSaw ==
  /\ dec.pc = "out" => drv.outd # <<>>
  /\ dec.pc = "in" \/ (dec.pc \in {"out", "used"} /\ dec.in) => drv.capd # <<>>

(* The demuxer finishes packets only in a buffer that it has.              *)
HasBuffer ==
  dmx.pc = "qbuf" \/ (dmx.pc = "write" /\ dmx.left = 0) => cur # 0

(* Before the first picture the display has nothing.                       *)
Unstarted ==
  ~started /\ dec.pc # "done" =>
    /\ disp.pc = "none" /\ disp.f = None /\ disp.cb = <<>> /\ ~disp.flag
    /\ rec.pc = "none" /\ rec.f = None /\ ring.n = 0
    /\ syn.q = <<>> /\ syn.shown = None

(* res_lock is with the one thread that has still to mark its frame.       *)
LockHeld ==
  /\ disp.flag \/ rec.pc = "flag" <=> lock # None
  /\ ~(disp.flag /\ rec.pc = "flag")

(* The empty frame is the last one that av_sync gets.                      *)
EosAtEnd ==
  \A i \in 1..Len(syn.q) : syn.q[i] = Eos =>
    i = Len(syn.q) /\ dec.pc \in {"eos", "wait", "off", "done"}

ShowHas ==
  /\ disp.pc = "flip" => syn.shown \in Frame
  /\ disp.pc = "inc" => disp.n < RingLen
  /\ rec.pc = "dec" => rec.n > 0
  /\ rec.pc = "fence" => rec.f \in Frame

(***************************************************************************)
(* Events.  A change of the resolution is announced by one event and one   *)
(* LAST picture, and the driver halts until the port is set up again; the  *)
(* event of the first resolution is gone when the first picture is taken.  *)
(***************************************************************************)
Announced(i) == i \in 1..Len(drv.ev) /\ drv.ev[i] = "src"
Changing == cap.gen < MaxGen /\ drv.st \in {"flush", "halt", "off"}

(* Whether the events of the first resolution are all taken.               *)
Seen == dec.push \/ dec.pc = "in" \/ (dec.pc \in {"out", "used"} /\ dec.in)

OneChange ==
  /\ Seen => \A i, j \in Nat : Announced(i) /\ Announced(j) => i = j
  /\ dec.res /\ dec.push => \A i \in Nat : ~Announced(i)

ChangePending ==
  /\ Seen => \A i \in Nat : Announced(i) => Changing
  /\ dec.res /\ dec.push => Changing

FirstChange ==
  \A i, j \in Nat \ {0, 1} : Announced(i) => Changing /\ (Announced(j) => i = j)

ChangeHandled ==
  dec.pc \in {"res", "free", "setup"} =>
    /\ Changing /\ ~dec.res /\ dec.push
    /\ \A i \in Nat : ~Announced(i)

BaseInv ==
  /\ TypeOut /\ TypeDriver /\ TypeDecoder /\ TypeCapture /\ TypeShow /\ TypeRing
  /\ DecoderHas /\ PollSaw /\ HasBuffer /\ Unstarted /\ LockHeld
  /\ EosAtEnd /\ ShowHas
  /\ OneChange /\ ChangePending /\ FirstChange /\ ChangeHandled

-----------------------------------------------------------------------------
(* The constants are positive numbers.                                     *)
LEMMA Positive ==
  /\ NOut \in Nat \ {0} /\ NCap \in Nat \ {0} /\ Room \in Nat \ {0}
  /\ RingLen \in Nat \ {0} /\ SyncLen \in Nat \ {0} /\ MaxGen \in Nat \ {0}
  /\ MaxPackets \in Nat
BY UvmAssumption

USE Positive

(* None and the empty frame are no capture buffers; a set of buffers is    *)
(* one, in the order in which setup_capture_port queues it.                *)
LEMMA FrameFacts ==
  /\ None \notin Frame /\ Eos \notin Frame /\ None # Eos
  /\ \A g \in 1..MaxGen : Set(g) \subseteq Frame /\ Setup(g) \in Seq(Frame)
BY DEF None, Eos, Frame, Set, Setup

(* One step round the ring.                                                *)
LEMMA RingStep ==
  ASSUME NEW k \in 0 .. RingLen - 1
  PROVE  /\ (k + 1) % RingLen \in 0 .. RingLen - 1
         /\ (k + 1) % RingLen = IF k + 1 = RingLen THEN 0 ELSE k + 1
OBVIOUS

(* A queue to which something was added is not empty.                      *)
LEMMA AppendNonEmpty ==
  ASSUME NEW S, NEW s \in Seq(S), NEW e \in S
  PROVE  Append(s, e) # <<>> /\ Append(s, e) \in Seq(S)
<1>1. Append(s, e) \in Seq(S) /\ Len(Append(s, e)) = Len(s) + 1 /\ Len(s) \in Nat
  OBVIOUS
<1>2. Len(Append(s, e)) # 0 BY <1>1
<1>3. QED BY <1>1, <1>2

(* A write to "used" of an output buffer.                                  *)
LEMMA OutUsed ==
  ASSUME TypeOut, NEW i \in OutIdx, NEW u \in 0..Room,
         out' = [out EXCEPT ![i].used = u]
  PROVE  /\ out' \in OutRec
         /\ out'[i] = [queued |-> out[i].queued, used |-> u]
         /\ \A j \in OutIdx \ {i} : out'[j] = out[j]
BY DEF TypeOut, OutRec

(* A write to "queued" of an output buffer.                                *)
LEMMA OutQueued ==
  ASSUME TypeOut, NEW i \in OutIdx, NEW q \in BOOLEAN,
         out' = [out EXCEPT ![i].queued = q]
  PROVE  /\ out' \in OutRec
         /\ out'[i] = [queued |-> q, used |-> out[i].used]
         /\ \A j \in OutIdx \ {i} : out'[j] = out[j]
BY DEF TypeOut, OutRec

(* What an event at the end of the queue announces.                        *)
LEMMA EventQueued ==
  ASSUME TypeDriver, NEW e \in {"src", "eos"}, drv'.ev = Append(drv.ev, e)
  PROVE  \A i \in Nat : Announced(i)' <=>
           Announced(i) \/ (i = Len(drv.ev) + 1 /\ e = "src")
BY DEF TypeDriver, DriverRec, Announced

(* What the queue announces once its first event is taken.                 *)
LEMMA EventTaken ==
  ASSUME TypeDriver, drv.ev # <<>>, drv'.ev = Tail(drv.ev)
  PROVE  /\ drv'.ev \in Seq({"src", "eos"})
         /\ \A i \in Nat : Announced(i)' <=> i # 0 /\ Announced(i + 1)
         /\ Announced(1) <=> Head(drv.ev) = "src"
BY DEF TypeDriver, DriverRec, Announced

(* The picture that DQBUF returns.                                         *)
LEMMA PicHead ==
  ASSUME TypeDriver, drv.capd # <<>>
  PROVE  /\ Head(drv.capd) \in Pic /\ Head(drv.capd).f \in Frame
         /\ Tail(drv.capd) \in Seq(Pic)
<1>1. drv.capd \in Seq(Pic) BY DEF TypeDriver, DriverRec
<1>2. Head(drv.capd) \in Pic /\ Tail(drv.capd) \in Seq(Pic) BY <1>1
<1>3. QED BY <1>2 DEF Pic

(* The three outcomes of capture_buffer_recycle before its unlock.         *)
LEMMA RecycleOutcome ==
  ASSUME TypeDriver, TypeCapture, NEW f \in Frame, Recycle(f)
  PROVE  /\ lock = None
         /\ \/ /\ lock' = f /\ UNCHANGED <<cap, parked>>
               /\ f \notin cap.recycle /\ ~eos_received
               /\ drv' = [outq |-> drv.outq, outd |-> drv.outd,
                          capq |-> Append(drv.capq, f), capd |-> drv.capd,
                          ev |-> drv.ev, st |-> drv.st, stop |-> drv.stop]
            \/ /\ lock' = None /\ UNCHANGED <<drv, cap>>
               /\ f \notin cap.recycle /\ parked' = parked \cup {f}
            \/ /\ lock' = None /\ UNCHANGED <<drv, parked>> /\ f \in cap.recycle
               /\ cap' = [gen |-> cap.gen, queued |-> cap.queued,
                          recycle |-> cap.recycle, alive |-> cap.alive \ {f}]
<1>1. CASE RecycleQueue(f)
  BY <1>1 DEF RecycleQueue, Requeues, TypeDriver, DriverRec
<1>2. CASE RecycleFail(f)
  BY <1>2 DEF RecycleFail, Requeues
<1>3. CASE RecycleDrop(f)
  BY <1>3 DEF RecycleDrop, Requeues, TypeCapture, CaptureRec
<1>4. QED BY <1>1, <1>2, <1>3 DEF Recycle

(* av_sync_pop_frame takes the first or the second frame that is queued,   *)
(* and the display thread has to recycle what it skipped.                  *)
LEMMA PopOutcome ==
  ASSUME TypeShow, av_sync_pop_frame
  PROVE  \E k \in {1, 2} :
           /\ k <= Len(syn.q) /\ syn' = [q |-> syn'.q, shown |-> syn.q[k]]
           /\ syn'.shown = syn.q[k] /\ syn.q[k] \in Frame \cup {Eos}
           /\ syn'.q \in Seq(Frame \cup {Eos}) /\ Len(syn'.q) = Len(syn.q) - k
           /\ \A i \in 1..Len(syn'.q) : syn'.q[i] = syn.q[i + k]
           /\ disp' = [pc |-> IF syn.q[k] = Eos THEN "end" ELSE "flip",
                       f |-> disp.f, cb |-> disp'.cb, n |-> disp.n,
                       flag |-> disp.flag]
           /\ Len(disp'.cb) = k - 1 /\ disp'.cb \in Seq({syn.q[1]})
<1>1. PICK k \in 1 .. MinOf(2, Len(syn.q)) :
        /\ syn' = [q |-> SubSeq(syn.q, k + 1, Len(syn.q)), shown |-> syn.q[k]]
        /\ disp' = [disp EXCEPT !.pc = IF syn.q[k] = Eos THEN "end" ELSE "flip",
                                !.cb = SubSeq(syn.q, 1, k - 1)]
  BY DEF av_sync_pop_frame
<1>3. syn.q \in Seq(Frame \cup {Eos}) /\ disp \in DisplayRec
  BY DEF TypeShow, SyncRec
<1>4. k \in {1, 2} /\ k <= Len(syn.q) /\ Len(syn.q) \in Nat
  <2>1. Len(syn.q) \in Nat BY <1>3
  <2>2. MinOf(2, Len(syn.q)) \in Nat /\ MinOf(2, Len(syn.q)) <= 2
        /\ MinOf(2, Len(syn.q)) <= Len(syn.q)
    BY <2>1 DEF MinOf
  <2>3. QED BY <2>1, <2>2
<1>5. syn'.q = SubSeq(syn.q, k + 1, Len(syn.q)) /\ syn'.shown = syn.q[k]
  BY <1>1
<1>6. /\ syn'.q \in Seq(Frame \cup {Eos}) /\ Len(syn'.q) = Len(syn.q) - k
      /\ \A i \in 1..Len(syn'.q) : syn'.q[i] = syn.q[i + k]
  BY <1>3, <1>4, <1>5
<1>7. disp' = [pc |-> IF syn.q[k] = Eos THEN "end" ELSE "flip", f |-> disp.f,
               cb |-> SubSeq(syn.q, 1, k - 1), n |-> disp.n, flag |-> disp.flag]
  BY <1>1, <1>3 DEF DisplayRec
<1>8. disp'.cb = SubSeq(syn.q, 1, k - 1)
  BY <1>7
<1>9. Len(disp'.cb) = k - 1 /\ disp'.cb \in Seq({syn.q[1]})
  BY <1>3, <1>4, <1>8
<1>10. syn.q[k] \in Frame \cup {Eos}
  BY <1>3, <1>4
<1>11. syn' = [q |-> syn'.q, shown |-> syn.q[k]]
  BY <1>1, <1>5
<1>12. disp' = [pc |-> IF syn.q[k] = Eos THEN "end" ELSE "flip", f |-> disp.f,
               cb |-> disp'.cb, n |-> disp.n, flag |-> disp.flag]
  BY <1>7, <1>8
<1>13. QED BY <1>4, <1>5, <1>6, <1>9, <1>10, <1>11, <1>12

(* BaseInv is inductive, whatever happens.                                 *)
LEMMA BaseInvariant == Spec => []BaseInv
<1>1. Init => BaseInv
  BY FrameFacts DEF Init, BaseInv, OutIdx, TypeOut, TypeDriver, DriverRec, TypeDecoder,
    DecoderRec, TypeCapture, CaptureRec, TypeShow, SyncRec, DisplayRec, TypeRing,
    RecycleRec, RingRec, DecoderHas, PollSaw, HasBuffer, Unstarted, LockHeld, EosAtEnd,
    ShowHas, OneChange, Seen, Announced, ChangePending, Changing, FirstChange,
    ChangeHandled
<1>2. BaseInv /\ [Next]_vars => BaseInv'
  <2> SUFFICES ASSUME BaseInv, [Next]_vars PROVE BaseInv'
    OBVIOUS
  <2> USE DEF BaseInv
  <2>1. CASE av_read_frame
    <3>1. /\ dmx' = [pc |-> "write", n |-> dmx.n + 1, left |-> dmx'.left, key |-> dmx.key]
          /\ dmx.pc = "read" /\ dmx.n < MaxPackets
          /\ dmx'.left \in 1..2
          /\ UNCHANGED <<cur, wrote, out, drv, dec, cap, eos_received, lock,
             syn, disp, ring, rec, started, last_frame, main, thread_quit,
             quit_thread, parked, fault>>
      BY <2>1 DEF TypeOut, av_read_frame, dmxOnly
    <3>2. /\ dmx'.key = dmx.key
          /\ UNCHANGED <<cur, wrote, out, drv, dec, cap, eos_received, lock,
             syn, disp, ring, rec, started, last_frame, main, thread_quit,
             quit_thread, parked, fault>>
      BY <3>1
    <3>3. TypeDriver' /\ TypeDecoder' /\ TypeCapture' /\ TypeShow' /\ TypeRing'
        /\ PollSaw' /\ Unstarted' /\ LockHeld' /\ EosAtEnd' /\ ShowHas' /\
        OneChange' /\ ChangePending' /\ FirstChange' /\ ChangeHandled'
      BY <3>2 DEF TypeDriver, TypeDecoder, TypeCapture, TypeShow, TypeRing,
        PollSaw, Unstarted, LockHeld, EosAtEnd, ShowHas, OneChange, Seen,
        Announced, ChangePending, Changing, FirstChange, ChangeHandled
    <3>4. TypeOut' BY <3>1 DEF TypeOut
    <3>5. DecoderHas' BY <3>1 DEF DecoderHas
    <3>6. HasBuffer' BY <3>1 DEF HasBuffer
    <3>7. QED BY <3>2, <3>3, <3>4, <3>5, <3>6
  <2>2. CASE DmxQuit
    <3>1. /\ dmx' = [pc |-> "done", n |-> dmx.n, left |-> dmx.left, key |-> dmx.key]
          /\ UNCHANGED <<cur, wrote, out, drv, dec, cap, eos_received, lock,
             syn, disp, ring, rec, started, last_frame, main, thread_quit,
             quit_thread, parked, fault>>
      BY <2>2 DEF TypeOut, DmxQuit, dmxOnly
    <3>2. TypeDriver' /\ TypeDecoder' /\ TypeCapture' /\ TypeShow' /\ TypeRing'
        /\ PollSaw' /\ Unstarted' /\ LockHeld' /\ EosAtEnd' /\ ShowHas' /\
        OneChange' /\ ChangePending' /\ FirstChange' /\ ChangeHandled'
      BY <3>1 DEF TypeDriver, TypeDecoder, TypeCapture, TypeShow, TypeRing,
        PollSaw, Unstarted, LockHeld, EosAtEnd, ShowHas, OneChange, Seen,
        Announced, ChangePending, Changing, FirstChange, ChangeHandled
    <3>3. TypeOut' BY <3>1 DEF TypeOut
    <3>4. DecoderHas' BY <3>1 DEF DecoderHas
    <3>5. HasBuffer' BY <3>1 DEF HasBuffer
    <3>6. QED BY <3>2, <3>3, <3>4, <3>5
  <2>3. CASE v4l2_dec_eos
    <3>1. /\ dmx' = [pc |-> "done", n |-> dmx.n, left |-> dmx.left, key |-> dmx.key]
          /\ drv' = [outq |-> drv.outq, outd |-> drv.outd, capq |-> drv.capq,
             capd |-> drv.capd, ev |-> drv.ev, st |-> drv.st, stop |-> TRUE]
          /\ dmx.pc = "read"
          /\ UNCHANGED <<cur, wrote, out, dec, cap, eos_received, lock, syn,
             disp, ring, rec, started, last_frame, main, thread_quit,
             quit_thread, parked, fault>>
      BY <2>3 DEF TypeOut, TypeDriver, DriverRec, v4l2_dec_eos
    <3>2. TypeDecoder' /\ TypeCapture' /\ TypeShow' /\ TypeRing' /\ PollSaw' /\
        Unstarted' /\ LockHeld' /\ EosAtEnd' /\ ShowHas' /\ OneChange' /\
        ChangePending' /\ FirstChange' /\ ChangeHandled'
      BY <3>1 DEF TypeDecoder, TypeCapture, TypeShow, TypeRing, PollSaw,
        Unstarted, LockHeld, EosAtEnd, ShowHas, OneChange, Seen, Announced,
        ChangePending, Changing, FirstChange, ChangeHandled
    <3>3. TypeOut' BY <3>1 DEF TypeOut
    <3>4. TypeDriver' BY <3>1 DEF TypeDriver, DriverRec
    <3>5. DecoderHas' BY <3>1 DEF DecoderHas
    <3>6. HasBuffer' BY <3>1 DEF HasBuffer
    <3>7. QED BY <3>2, <3>3, <3>4, <3>5, <3>6
  <2>4. CASE get_free_output_buf
    <3>1. /\ dmx.pc = "write" /\ cur = 0
          /\ cur' \in OutIdx
          /\ UNCHANGED <<dmx, wrote, out, drv, dec, cap, eos_received, lock,
             syn, disp, ring, rec, started, last_frame, main, thread_quit,
             quit_thread, parked, fault>>
      BY <2>4 DEF get_free_output_buf, dmxOnly
    <3>2. TypeDriver' /\ TypeDecoder' /\ TypeCapture' /\ TypeShow' /\ TypeRing'
        /\ DecoderHas' /\ PollSaw' /\ Unstarted' /\ LockHeld' /\ EosAtEnd' /\
        ShowHas' /\ OneChange' /\ ChangePending' /\ FirstChange' /\
        ChangeHandled'
      BY <3>1 DEF TypeDriver, TypeDecoder, TypeCapture, TypeShow, TypeRing,
        DecoderHas, PollSaw, Unstarted, LockHeld, EosAtEnd, ShowHas, OneChange,
        Seen, Announced, ChangePending, Changing, FirstChange, ChangeHandled
    <3>3. TypeOut' BY <3>1 DEF TypeOut, OutIdx
    <3>4. HasBuffer' BY <3>1 DEF HasBuffer
    <3>5. QED BY <3>2, <3>3, <3>4
  <2>5. CASE v4l2_dec_write_es
    <3>1. /\ dmx' = [pc |-> dmx.pc, n |-> dmx.n, left |-> dmx.left - 1, key |-> dmx.key]
          /\ wrote' = MinOf(wrote + 1, Room)
          /\ dmx.pc = "write" /\ dmx.left > 0 /\ cur # 0
          /\ out' = [out EXCEPT ![cur].used = MinOf(out[cur].used + 1, Room)]
          /\ UNCHANGED <<cur, drv, dec, cap, eos_received, lock, syn, disp,
             ring, rec, started, last_frame, main, thread_quit, quit_thread,
             parked, fault>>
      BY <2>5 DEF TypeOut, v4l2_dec_write_es, dmxOnly, MinOf
    <3>2. TypeDriver' /\ TypeDecoder' /\ TypeCapture' /\ TypeShow' /\ TypeRing'
        /\ DecoderHas' /\ PollSaw' /\ Unstarted' /\ LockHeld' /\ EosAtEnd' /\
        ShowHas' /\ OneChange' /\ ChangePending' /\ FirstChange' /\
        ChangeHandled'
      BY <3>1 DEF TypeDriver, TypeDecoder, TypeCapture, TypeShow, TypeRing,
        DecoderHas, PollSaw, Unstarted, LockHeld, EosAtEnd, ShowHas, OneChange,
        Seen, Announced, ChangePending, Changing, FirstChange, ChangeHandled
    <3>3. TypeOut'
      <4>1. cur \in OutIdx /\ MinOf(out[cur].used + 1, Room) \in 0..Room
        BY <3>1 DEF TypeOut, OutIdx, MinOf
      <4>2. out' \in OutRec BY <3>1, <4>1, OutUsed
      <4>3. wrote' \in 0..Room BY <3>1 DEF TypeOut, MinOf
      <4>4. QED BY <3>1, <4>2, <4>3 DEF TypeOut, OutRec
    <3>4. HasBuffer' BY <3>1 DEF HasBuffer
    <3>5. QED BY <3>2, <3>3, <3>4
  <2>6. CASE DropNonKey
    <3>1. /\ dmx' = [pc |-> "read", n |-> dmx.n, left |-> dmx.left, key |-> dmx.key]
          /\ dmx.pc = "write" /\ dmx.left = 0
          /\ UNCHANGED <<cur, wrote, out, drv, dec, cap, eos_received, lock,
             syn, disp, ring, rec, started, last_frame, main, thread_quit,
             quit_thread, parked, fault>>
      BY <2>6 DEF TypeOut, DropNonKey, dmxOnly
    <3>2. TypeDriver' /\ TypeDecoder' /\ TypeCapture' /\ TypeShow' /\ TypeRing'
        /\ PollSaw' /\ Unstarted' /\ LockHeld' /\ EosAtEnd' /\ ShowHas' /\
        OneChange' /\ ChangePending' /\ FirstChange' /\ ChangeHandled'
      BY <3>1 DEF TypeDriver, TypeDecoder, TypeCapture, TypeShow, TypeRing,
        PollSaw, Unstarted, LockHeld, EosAtEnd, ShowHas, OneChange, Seen,
        Announced, ChangePending, Changing, FirstChange, ChangeHandled
    <3>3. TypeOut' BY <3>1 DEF TypeOut
    <3>4. DecoderHas' BY <3>1 DEF DecoderHas
    <3>5. HasBuffer' BY <3>1 DEF HasBuffer
    <3>6. QED BY <3>2, <3>3, <3>4, <3>5
  <2>7. CASE v4l2_dec_frame_done
    <3>1. /\ dmx' = [pc |-> "qbuf", n |-> dmx.n, left |-> dmx.left, key |-> TRUE]
          /\ dmx.pc = "write" /\ dmx.left = 0
          /\ out' = [out EXCEPT ![cur].queued = TRUE]
          /\ UNCHANGED <<cur, wrote, drv, dec, cap, eos_received, lock, syn,
             disp, ring, rec, started, last_frame, main, thread_quit,
             quit_thread, parked, fault>>
      BY <2>7 DEF TypeOut, v4l2_dec_frame_done, dmxOnly
    <3>2. TypeDriver' /\ TypeDecoder' /\ TypeCapture' /\ TypeShow' /\ TypeRing'
        /\ PollSaw' /\ Unstarted' /\ LockHeld' /\ EosAtEnd' /\ ShowHas' /\
        OneChange' /\ ChangePending' /\ FirstChange' /\ ChangeHandled'
      BY <3>1 DEF TypeDriver, TypeDecoder, TypeCapture, TypeShow, TypeRing,
        PollSaw, Unstarted, LockHeld, EosAtEnd, ShowHas, OneChange, Seen,
        Announced, ChangePending, Changing, FirstChange, ChangeHandled
    <3>3. TypeOut'
      <4>1. cur \in OutIdx
        BY <3>1 DEF TypeOut, OutIdx, HasBuffer
      <4>2. out' \in OutRec BY <3>1, <4>1, OutQueued
      <4>3. QED BY <3>1, <4>2 DEF TypeOut, OutRec
    <3>4. DecoderHas' BY <3>1 DEF DecoderHas
    <3>5. HasBuffer' BY <3>1 DEF HasBuffer
    <3>6. QED BY <3>2, <3>3, <3>4, <3>5
  <2>8. CASE OutQbuf
    <3>1. /\ dmx' = [pc |-> IF cap.gen = 0 THEN "first" ELSE "read", n |-> dmx.n, left |->
             dmx.left, key |-> dmx.key]
          /\ cur' = 0
          /\ wrote' = 0
          /\ drv' = [outq |-> Append(drv.outq, cur), outd |-> drv.outd, capq
             |-> drv.capq, capd |-> drv.capd, ev |-> drv.ev, st |-> drv.st,
             stop |-> drv.stop]
          /\ dmx.pc = "qbuf"
          /\ UNCHANGED <<out, dec, cap, eos_received, lock, syn, disp, ring,
             rec, started, last_frame, main, thread_quit, quit_thread, parked,
             fault>>
      BY <2>8 DEF TypeOut, TypeDriver, DriverRec, OutQbuf
    <3>2. TypeDecoder' /\ TypeCapture' /\ TypeShow' /\ TypeRing' /\ PollSaw' /\
        Unstarted' /\ LockHeld' /\ EosAtEnd' /\ ShowHas' /\ OneChange' /\
        ChangePending' /\ FirstChange' /\ ChangeHandled'
      BY <3>1 DEF TypeDecoder, TypeCapture, TypeShow, TypeRing, PollSaw,
        Unstarted, LockHeld, EosAtEnd, ShowHas, OneChange, Seen, Announced,
        ChangePending, Changing, FirstChange, ChangeHandled
    <3>3. TypeOut' BY <3>1 DEF TypeOut
    <3>4. TypeDriver'
      <4>1. cur \in OutIdx BY <3>1 DEF TypeOut, OutIdx, HasBuffer
      <4>2. QED BY <3>1, <4>1 DEF TypeDriver, DriverRec
    <3>5. DecoderHas' BY <3>1 DEF DecoderHas
    <3>6. HasBuffer' BY <3>1 DEF HasBuffer
    <3>7. QED BY <3>2, <3>3, <3>4, <3>5, <3>6
  <2>9. CASE OutQbufFail
    <3>1. /\ dmx' = [pc |-> "read", n |-> dmx.n, left |-> dmx.left, key |-> dmx.key]
          /\ dmx.pc = "qbuf"
          /\ UNCHANGED <<cur, wrote, out, drv, dec, cap, eos_received, lock,
             syn, disp, ring, rec, started, last_frame, main, thread_quit,
             quit_thread, parked>>
      BY <2>9 DEF TypeOut, OutQbufFail, dmxOnly
    <3>2. TypeDriver' /\ TypeDecoder' /\ TypeCapture' /\ TypeShow' /\ TypeRing'
        /\ PollSaw' /\ Unstarted' /\ LockHeld' /\ EosAtEnd' /\ ShowHas' /\
        OneChange' /\ ChangePending' /\ FirstChange' /\ ChangeHandled'
      BY <3>1 DEF TypeDriver, TypeDecoder, TypeCapture, TypeShow, TypeRing,
        PollSaw, Unstarted, LockHeld, EosAtEnd, ShowHas, OneChange, Seen,
        Announced, ChangePending, Changing, FirstChange, ChangeHandled
    <3>3. TypeOut' BY <3>1 DEF TypeOut
    <3>4. DecoderHas' BY <3>1 DEF DecoderHas
    <3>5. HasBuffer' BY <3>1 DEF HasBuffer
    <3>6. QED BY <3>2, <3>3, <3>4, <3>5
  <2>10. CASE handle_first_frame
    <3>1. /\ dmx' = [pc |-> "read", n |-> dmx.n, left |-> dmx.left, key |-> dmx.key]
          /\ drv' = [outq |-> drv.outq, outd |-> drv.outd, capq |-> Setup(1),
             capd |-> drv.capd, ev |-> drv.ev, st |-> "run", stop |-> drv.stop]
          /\ dec' = [pc |-> "poll", in |-> dec.in, hand |-> dec.hand, late |->
             dec.late, res |-> dec.res, eos |-> dec.eos, push |-> dec.push]
          /\ cap' = [gen |-> 1, queued |-> cap.queued \cup Set(1), recycle |->
             cap.recycle, alive |-> cap.alive \cup Set(1)]
          /\ dmx.pc = "first"
          /\ UNCHANGED <<cur, wrote, out, eos_received, lock, syn, disp, ring,
             rec, started, last_frame, main, thread_quit, quit_thread, parked,
             fault>>
      BY <2>10 DEF TypeOut, TypeDriver, DriverRec, TypeDecoder, DecoderRec,
        TypeCapture, CaptureRec, handle_first_frame, SetupCapture
    <3>2. TypeShow' /\ TypeRing' /\ LockHeld' /\ ShowHas'
      BY <3>1 DEF TypeShow, TypeRing, LockHeld, ShowHas
    <3>3. TypeOut' BY <3>1 DEF TypeOut
    <3>4. TypeDriver' BY <3>1, FrameFacts DEF TypeDriver, DriverRec
    <3>5. TypeDecoder' BY <3>1 DEF TypeDecoder, DecoderRec
    <3>6. TypeCapture' BY <3>1, FrameFacts DEF TypeCapture, CaptureRec
    <3>7. DecoderHas' BY <3>1 DEF DecoderHas
    <3>8. PollSaw' BY <3>1 DEF PollSaw
    <3>9. HasBuffer' BY <3>1 DEF HasBuffer
    <3>10. Unstarted' BY <3>1 DEF Unstarted, DecoderHas
    <3>11. EosAtEnd' BY <3>1 DEF EosAtEnd, TypeShow, SyncRec, DecoderHas
    <3>12. OneChange' BY <3>1 DEF OneChange, DecoderHas, Seen, Announced,
        Changing
    <3>13. ChangePending' BY <3>1 DEF ChangePending, DecoderHas, Seen,
        Announced, Changing
    <3>14. FirstChange' BY <3>1 DEF FirstChange, DecoderHas, Seen, Announced,
        Changing
    <3>15. ChangeHandled' BY <3>1 DEF ChangeHandled, TypeDriver, DriverRec,
        TypeDecoder, DecoderRec, TypeCapture, CaptureRec, Seen, Announced,
        Changing, OneChange, ChangePending
    <3>16. QED BY <3>2, <3>3, <3>4, <3>5, <3>6, <3>7, <3>8, <3>9, <3>10, <3>11,
      <3>12, <3>13, <3>14, <3>15
  <2>11. CASE FirstFrameFatal
    <3>1. /\ dmx' = [pc |-> "stuck", n |-> dmx.n, left |-> dmx.left, key |-> dmx.key]
          /\ UNCHANGED <<cur, wrote, out, drv, dec, cap, eos_received, lock,
             syn, disp, ring, rec, started, last_frame, main, thread_quit,
             quit_thread, parked>>
      BY <2>11 DEF TypeOut, FirstFrameFatal, dmxOnly
    <3>2. TypeDriver' /\ TypeDecoder' /\ TypeCapture' /\ TypeShow' /\ TypeRing'
        /\ PollSaw' /\ Unstarted' /\ LockHeld' /\ EosAtEnd' /\ ShowHas' /\
        OneChange' /\ ChangePending' /\ FirstChange' /\ ChangeHandled'
      BY <3>1 DEF TypeDriver, TypeDecoder, TypeCapture, TypeShow, TypeRing,
        PollSaw, Unstarted, LockHeld, EosAtEnd, ShowHas, OneChange, Seen,
        Announced, ChangePending, Changing, FirstChange, ChangeHandled
    <3>3. TypeOut' BY <3>1 DEF TypeOut
    <3>4. DecoderHas' BY <3>1 DEF DecoderHas
    <3>5. HasBuffer' BY <3>1 DEF HasBuffer
    <3>6. QED BY <3>2, <3>3, <3>4, <3>5
  <2>12. CASE Decode
    <3>1. /\ drv' = [outq |-> Tail(drv.outq), outd |-> Append(drv.outd, Head(drv.outq)),
             capq |-> Tail(drv.capq), capd |-> Append(drv.capd, [f |->
             Head(drv.capq), last |-> FALSE]), ev |-> drv.ev, st |-> drv.st,
             stop |-> drv.stop]
          /\ drv.st = "run" /\ drv.outq # <<>> /\ drv.capq # <<>>
          /\ UNCHANGED <<dmx, cur, wrote, out, dec, cap, eos_received, lock,
             syn, disp, ring, rec, started, last_frame, main, thread_quit,
             quit_thread, parked, fault>>
      BY <2>12 DEF TypeDriver, DriverRec, Decode, drvOnly, Picture
    <3>2. TypeOut' /\ TypeDecoder' /\ TypeCapture' /\ TypeShow' /\ TypeRing' /\
        DecoderHas' /\ HasBuffer' /\ Unstarted' /\ LockHeld' /\ EosAtEnd' /\
        ShowHas' /\ OneChange' /\ ChangePending' /\ FirstChange' /\
        ChangeHandled'
      BY <3>1 DEF TypeOut, TypeDecoder, TypeCapture, TypeShow, TypeRing,
        DecoderHas, HasBuffer, Unstarted, LockHeld, EosAtEnd, ShowHas,
        OneChange, Seen, Announced, ChangePending, Changing, FirstChange,
        ChangeHandled
    <3>3. TypeDriver'
      <4>1. [f |-> Head(drv.capq), last |-> FALSE] \in Pic
        BY <3>1 DEF TypeDriver, DriverRec, Pic
      <4>2. Tail(drv.capq) \in Seq(Frame)
            /\ Append(drv.capd, [f |-> Head(drv.capq), last |-> FALSE]) \in Seq(Pic)
        BY <3>1, <4>1 DEF TypeDriver, DriverRec
      <4>3. Tail(drv.outq) \in Seq(OutIdx) /\ Append(drv.outd, Head(drv.outq)) \in Seq(OutIdx)
        BY <3>1 DEF TypeDriver, DriverRec
      <4>4. QED BY <3>1, <4>2, <4>3 DEF TypeDriver, DriverRec
    <3>4. PollSaw'
      <4>1. drv'.capd # <<>>
        <5>1. [f |-> Head(drv.capq), last |-> FALSE] \in Pic
          BY <3>1 DEF TypeDriver, DriverRec, Pic
        <5>2. drv.capd \in Seq(Pic)
          BY DEF TypeDriver, DriverRec
        <5>3. QED BY <3>1, <5>1, <5>2, AppendNonEmpty
      <4>2. drv'.outd # <<>>
        <5>1. Head(drv.outq) \in OutIdx /\ drv.outd \in Seq(OutIdx)
          BY <3>1 DEF TypeDriver, DriverRec
        <5>2. QED BY <3>1, <5>1, AppendNonEmpty
      <4>3. QED BY <3>1, <4>1, <4>2 DEF PollSaw
    <3>5. QED BY <3>2, <3>3, <3>4
  <2>13. CASE FirstResolution
    <3>1. /\ drv' = [outq |-> drv.outq, outd |-> drv.outd, capq |-> drv.capq, capd |->
             drv.capd, ev |-> <<"src">>, st |-> drv.st, stop |-> drv.stop]
          /\ drv.st = "run" /\ ~dec.push /\ drv.capd = <<>>
          /\ drv.ev = <<>> /\ ~dec.res
          /\ UNCHANGED <<dmx, cur, wrote, out, dec, cap, eos_received, lock,
             syn, disp, ring, rec, started, last_frame, main, thread_quit,
             quit_thread, parked, fault>>
      BY <2>13 DEF TypeDriver, DriverRec, FirstResolution, drvOnly
    <3>2. TypeOut' /\ TypeDecoder' /\ TypeCapture' /\ TypeShow' /\ TypeRing' /\
        PollSaw' /\ HasBuffer' /\ Unstarted' /\ LockHeld' /\ EosAtEnd' /\
        ShowHas'
      BY <3>1 DEF TypeOut, TypeDecoder, TypeCapture, TypeShow, TypeRing,
        PollSaw, HasBuffer, Unstarted, LockHeld, EosAtEnd, ShowHas
    <3>3. TypeDriver' BY <3>1 DEF TypeDriver, DriverRec
    <3>4. DecoderHas' BY <3>1 DEF DecoderHas
    <3>5. OneChange' BY <3>1 DEF OneChange, Seen, Changing, ChangePending,
        FirstChange, ChangeHandled, DecoderHas, PollSaw, Announced
    <3>6. ChangePending' BY <3>1 DEF ChangePending, Seen, Changing, OneChange,
        FirstChange, ChangeHandled, DecoderHas, PollSaw, Announced
    <3>7. FirstChange' BY <3>1 DEF FirstChange, Seen, Changing, OneChange,
        ChangePending, ChangeHandled, DecoderHas, PollSaw, Announced
    <3>8. ChangeHandled' BY <3>1 DEF ChangeHandled, Seen, Changing, OneChange,
        ChangePending, FirstChange, DecoderHas, PollSaw, Announced
    <3>9. QED BY <3>2, <3>3, <3>4, <3>5, <3>6, <3>7, <3>8
  <2>14. CASE NewResolution
    <3>1. /\ drv' = [outq |-> drv.outq, outd |-> drv.outd, capq |-> drv.capq, capd |->
             drv.capd, ev |-> Append(drv.ev, "src"), st |-> "flush", stop |->
             drv.stop]
          /\ drv.st = "run" /\ cap.gen < MaxGen
          /\ UNCHANGED <<dmx, cur, wrote, out, dec, cap, eos_received, lock,
             syn, disp, ring, rec, started, last_frame, main, thread_quit,
             quit_thread, parked, fault>>
      BY <2>14 DEF TypeDriver, DriverRec, NewResolution, drvOnly
    <3>2. TypeOut' /\ TypeDecoder' /\ TypeCapture' /\ TypeShow' /\ TypeRing' /\
        PollSaw' /\ HasBuffer' /\ Unstarted' /\ LockHeld' /\ EosAtEnd' /\
        ShowHas'
      BY <3>1 DEF TypeOut, TypeDecoder, TypeCapture, TypeShow, TypeRing,
        PollSaw, HasBuffer, Unstarted, LockHeld, EosAtEnd, ShowHas
    <3>3. TypeDriver' BY <3>1 DEF TypeDriver, DriverRec
    <3>4. DecoderHas' BY <3>1 DEF DecoderHas
    <3>5. OneChange' BY <3>1, EventQueued DEF OneChange, Seen, Changing,
        ChangePending, FirstChange, ChangeHandled, DecoderHas, PollSaw,
        TypeDriver, DriverRec
    <3>6. ChangePending' BY <3>1, EventQueued DEF ChangePending, Seen,
        Changing, OneChange, FirstChange, ChangeHandled, DecoderHas, PollSaw,
        TypeDriver, DriverRec
    <3>7. FirstChange' BY <3>1, EventQueued DEF FirstChange, Seen, Changing,
        OneChange, ChangePending, ChangeHandled, DecoderHas, PollSaw,
        TypeDriver, DriverRec
    <3>8. ChangeHandled' BY <3>1, EventQueued DEF ChangeHandled, Seen,
        Changing, OneChange, ChangePending, FirstChange, DecoderHas, PollSaw,
        TypeDriver, DriverRec
    <3>9. QED BY <3>2, <3>3, <3>4, <3>5, <3>6, <3>7, <3>8
  <2>15. CASE EndOfStream
    <3>1. /\ drv' = [outq |-> drv.outq, outd |-> drv.outd, capq |-> drv.capq, capd |->
             drv.capd, ev |-> Append(drv.ev, "eos"), st |-> "flush", stop |->
             drv.stop]
          /\ drv.st = "run"
          /\ UNCHANGED <<dmx, cur, wrote, out, dec, cap, eos_received, lock,
             syn, disp, ring, rec, started, last_frame, main, thread_quit,
             quit_thread, parked, fault>>
      BY <2>15 DEF TypeDriver, DriverRec, EndOfStream, drvOnly
    <3>2. TypeOut' /\ TypeDecoder' /\ TypeCapture' /\ TypeShow' /\ TypeRing' /\
        PollSaw' /\ HasBuffer' /\ Unstarted' /\ LockHeld' /\ EosAtEnd' /\
        ShowHas'
      BY <3>1 DEF TypeOut, TypeDecoder, TypeCapture, TypeShow, TypeRing,
        PollSaw, HasBuffer, Unstarted, LockHeld, EosAtEnd, ShowHas
    <3>3. TypeDriver' BY <3>1 DEF TypeDriver, DriverRec
    <3>4. DecoderHas' BY <3>1 DEF DecoderHas
    <3>5. OneChange' BY <3>1, EventQueued DEF OneChange, Seen, Changing,
        ChangePending, FirstChange, ChangeHandled, DecoderHas, PollSaw,
        TypeDriver, DriverRec
    <3>6. ChangePending' BY <3>1, EventQueued DEF ChangePending, Seen,
        Changing, OneChange, FirstChange, ChangeHandled, DecoderHas, PollSaw,
        TypeDriver, DriverRec
    <3>7. FirstChange' BY <3>1, EventQueued DEF FirstChange, Seen, Changing,
        OneChange, ChangePending, ChangeHandled, DecoderHas, PollSaw,
        TypeDriver, DriverRec
    <3>8. ChangeHandled' BY <3>1, EventQueued DEF ChangeHandled, Seen,
        Changing, OneChange, ChangePending, FirstChange, DecoderHas, PollSaw,
        TypeDriver, DriverRec
    <3>9. QED BY <3>2, <3>3, <3>4, <3>5, <3>6, <3>7, <3>8
  <2>16. CASE LastPicture
    <3>1. /\ drv' = [outq |-> drv.outq, outd |-> drv.outd, capq |-> Tail(drv.capq), capd |->
             Append(drv.capd, [f |-> Head(drv.capq), last |-> TRUE]), ev |->
             drv.ev, st |-> "halt", stop |-> drv.stop]
          /\ drv.st = "flush" /\ drv.capq # <<>>
          /\ UNCHANGED <<dmx, cur, wrote, out, dec, cap, eos_received, lock,
             syn, disp, ring, rec, started, last_frame, main, thread_quit,
             quit_thread, parked, fault>>
      BY <2>16 DEF TypeDriver, DriverRec, LastPicture, drvOnly, Picture
    <3>2. TypeOut' /\ TypeDecoder' /\ TypeCapture' /\ TypeShow' /\ TypeRing' /\
        HasBuffer' /\ Unstarted' /\ LockHeld' /\ EosAtEnd' /\ ShowHas' /\
        OneChange'
      BY <3>1 DEF TypeOut, TypeDecoder, TypeCapture, TypeShow, TypeRing,
        HasBuffer, Unstarted, LockHeld, EosAtEnd, ShowHas, OneChange, Seen,
        Announced
    <3>3. TypeDriver'
      <4>1. [f |-> Head(drv.capq), last |-> TRUE] \in Pic
        BY <3>1 DEF TypeDriver, DriverRec, Pic
      <4>2. Tail(drv.capq) \in Seq(Frame)
            /\ Append(drv.capd, [f |-> Head(drv.capq), last |-> TRUE]) \in Seq(Pic)
        BY <3>1, <4>1 DEF TypeDriver, DriverRec
      <4>4. QED BY <3>1, <4>2 DEF TypeDriver, DriverRec
    <3>4. DecoderHas' BY <3>1 DEF DecoderHas
    <3>5. PollSaw'
      <4>1. drv'.capd # <<>>
        <5>1. [f |-> Head(drv.capq), last |-> TRUE] \in Pic
          BY <3>1 DEF TypeDriver, DriverRec, Pic
        <5>2. drv.capd \in Seq(Pic)
          BY DEF TypeDriver, DriverRec
        <5>3. QED BY <3>1, <5>1, <5>2, AppendNonEmpty
      <4>2. QED BY <3>1, <4>1 DEF PollSaw
    <3>6. ChangePending' BY <3>1 DEF ChangePending, Changing, Seen, Announced
    <3>7. FirstChange' BY <3>1 DEF FirstChange, Changing, Seen, Announced
    <3>8. ChangeHandled' BY <3>1 DEF ChangeHandled, Changing, Seen, Announced
    <3>9. QED BY <3>2, <3>3, <3>4, <3>5, <3>6, <3>7, <3>8
  <2>17. CASE Poll
    <3>1. /\ drv' = [outq |-> drv.outq, outd |-> drv.outd, capq |-> drv.capq, capd |->
             drv.capd, ev |-> drv'.ev, st |-> drv.st, stop |-> drv.stop]
          /\ dec' = [pc |-> dec'.pc, in |-> dec'.in, hand |-> dec.hand, late
             |-> dec.late, res |-> dec'.res, eos |-> dec'.eos, push |->
             dec.push]
          /\ dec.pc = "poll"
          /\ dec'.pc \in {"out", "in", "poll"}
          /\ dec'.pc = "out" => drv.outd # <<>>
          /\ dec'.pc = "in" \/ dec'.in => drv.capd # <<>>
          /\ dec'.pc = "out" \/ drv.capd = <<>> \/ dec'.pc = "in"
          /\ dec'.in \in BOOLEAN /\ dec'.res \in BOOLEAN /\ dec'.eos \in
             BOOLEAN
          /\ dec'.res => dec.res \/ (drv.ev # <<>> /\ Head(drv.ev) = "src")
          /\ (drv.ev = <<>> /\ drv'.ev = drv.ev) \/ (drv.ev # <<>> /\ drv'.ev =
             Tail(drv.ev))
          /\ UNCHANGED <<dmx, cur, wrote, out, cap, eos_received, lock, syn,
             disp, ring, rec, started, last_frame, main, thread_quit,
             quit_thread, parked, fault>>
      BY <2>17 DEF TypeDriver, DriverRec, TypeDecoder, DecoderRec, Poll,
        decOnly
    <3>2. /\ dec'.hand = dec.hand /\ dec'.late = dec.late /\ dec'.push = dec.push
          /\ drv'.outq = drv.outq /\ drv'.outd = drv.outd /\ drv'.capq =
             drv.capq /\ drv'.capd = drv.capd /\ drv'.st = drv.st /\ drv'.stop
             = drv.stop
          /\ UNCHANGED <<dmx, cur, wrote, out, cap, eos_received, lock, syn,
             disp, ring, rec, started, last_frame, main, thread_quit,
             quit_thread, parked, fault>>
      BY <3>1
    <3>3. TypeOut' /\ TypeCapture' /\ TypeShow' /\ TypeRing' /\ HasBuffer' /\
        LockHeld' /\ ShowHas'
      BY <3>2 DEF TypeOut, TypeCapture, TypeShow, TypeRing, HasBuffer,
        LockHeld, ShowHas
    <3>4. TypeDriver'
      <4>1. drv'.ev \in Seq({"src", "eos"})
        BY <3>1, EventTaken DEF TypeDriver, DriverRec
      <4>2. drv' = [outq |-> drv.outq, outd |-> drv.outd, capq |-> drv.capq,
                    capd |-> drv.capd, ev |-> drv'.ev, st |-> drv.st,
                    stop |-> drv.stop]
        BY <3>1
      <4>3. QED BY <4>1, <4>2 DEF TypeDriver, DriverRec
    <3>5. TypeDecoder' BY <3>1 DEF TypeDecoder, DecoderRec
    <3>6. DecoderHas' BY <3>1 DEF DecoderHas
    <3>7. PollSaw' BY <3>1 DEF PollSaw
    <3>8. Unstarted' BY <3>1 DEF Unstarted
    <3>9. EosAtEnd' BY <3>1 DEF EosAtEnd, TypeShow, SyncRec
    <3>10. OneChange'
      <4>1. CASE drv.ev = <<>> /\ drv'.ev = drv.ev
        <5>1. \A i \in Nat : Announced(i)' <=> FALSE BY <3>1, <4>1 DEF Announced
        <5>2. QED BY <5>1 DEF OneChange
      <4>2. CASE drv.ev # <<>> /\ drv'.ev = Tail(drv.ev)
        <5>1. /\ \A i \in Nat : Announced(i)' <=> i # 0 /\ Announced(i + 1)
              /\ Announced(1) <=> Head(drv.ev) = "src"
          BY <3>1, <4>2, EventTaken
        <5>2. Changing' <=> Changing BY <3>1 DEF Changing
        <5>3. \A i \in Nat : Announced(i)' => Announced(i + 1) /\ i + 1 \in Nat \ {0, 1}
          BY <5>1
        <5>4. \A i, j \in Nat : Announced(i)' /\ Announced(j)' => i = j
          <6>1. ASSUME NEW i \in Nat, NEW j \in Nat, Announced(i)', Announced(j)'
                PROVE  i + 1 = j + 1
            BY <5>3, <6>1 DEF FirstChange
          <6>2. QED BY <6>1
        <5>5. ASSUME dec'.res, dec'.push, NEW i \in Nat, Announced(i)' PROVE FALSE
          <6>1. dec.push BY <3>1, <5>5
          <6>2. Announced(i + 1) /\ i + 1 # 1 /\ i + 1 \in Nat BY <5>3, <5>5
          <6>3. ~dec.res BY <6>1, <6>2 DEF OneChange
          <6>4. Announced(1) BY <3>1, <5>1, <5>5, <6>3
          <6>5. QED BY <6>1, <6>2, <6>4 DEF OneChange, Seen
        <5>6. QED BY <5>4, <5>5 DEF OneChange
      <4>3. QED BY <3>1, <4>1, <4>2
    <3>11. ChangePending'
      <4>1. CASE drv.ev = <<>> /\ drv'.ev = drv.ev
        <5>1. \A i \in Nat : Announced(i)' <=> FALSE BY <3>1, <4>1 DEF Announced
        <5>2. Changing' <=> Changing BY <3>1 DEF Changing
        <5>3. dec'.res /\ dec'.push => dec.res /\ dec.push BY <3>1, <4>1
        <5>4. QED BY <5>1, <5>2, <5>3 DEF ChangePending
      <4>2. CASE drv.ev # <<>> /\ drv'.ev = Tail(drv.ev)
        <5>1. /\ \A i \in Nat : Announced(i)' <=> i # 0 /\ Announced(i + 1)
              /\ Announced(1) <=> Head(drv.ev) = "src"
          BY <3>1, <4>2, EventTaken
        <5>2. Changing' <=> Changing BY <3>1 DEF Changing
        <5>3. \A i \in Nat : Announced(i)' => Announced(i + 1) /\ i + 1 \in Nat \ {0, 1}
          BY <5>1
        <5>4. \A i \in Nat : Announced(i)' => Changing
          BY <5>3 DEF FirstChange
        <5>5. ASSUME dec'.res, dec'.push PROVE Changing
          BY <3>1, <5>1, <5>5 DEF ChangePending, Seen
        <5>6. QED BY <5>2, <5>4, <5>5 DEF ChangePending
      <4>3. QED BY <3>1, <4>1, <4>2
    <3>12. FirstChange'
      <4>1. CASE drv.ev = <<>>
        BY <3>1, <4>1 DEF FirstChange, Seen, Changing, OneChange, ChangePending,
          FirstChange, Announced
      <4>2. CASE drv.ev # <<>>
        <5>1. /\ \A i \in Nat : Announced(i)' <=> i # 0 /\ Announced(i + 1)
              /\ Announced(1) <=> Head(drv.ev) = "src"
          BY <3>1, <4>2, EventTaken
        <5>2. Changing' <=> Changing BY <3>1 DEF Changing
        <5>3. \A i \in Nat \ {0, 1} : Announced(i)' => Announced(i + 1) /\ i + 1 \in Nat \ {0, 1}
          BY <5>1
        <5>4. \A i, j \in Nat : i + 1 = j + 1 => i = j OBVIOUS
        <5>5. QED
          BY <3>1, <5>1, <5>2, <5>3, <5>4 DEF FirstChange, Seen, OneChange,
            ChangePending,
            FirstChange
      <4>3. QED BY <4>1, <4>2
    <3>13. ChangeHandled'
      <4>1. CASE drv.ev = <<>>
        BY <3>1, <4>1 DEF ChangeHandled, Seen, Changing, OneChange, ChangePending,
          FirstChange, Announced
      <4>2. CASE drv.ev # <<>>
        <5>1. /\ \A i \in Nat : Announced(i)' <=> i # 0 /\ Announced(i + 1)
              /\ Announced(1) <=> Head(drv.ev) = "src"
          BY <3>1, <4>2, EventTaken
        <5>2. Changing' <=> Changing BY <3>1 DEF Changing
        <5>3. \A i \in Nat \ {0, 1} : Announced(i)' => Announced(i + 1) /\ i + 1 \in Nat \ {0, 1}
          BY <5>1
        <5>4. \A i, j \in Nat : i + 1 = j + 1 => i = j OBVIOUS
        <5>5. QED
          BY <3>1, <5>1, <5>2, <5>3, <5>4 DEF ChangeHandled, Seen, OneChange,
            ChangePending,
            FirstChange
      <4>3. QED BY <4>1, <4>2
    <3>14. QED BY <3>2, <3>3, <3>4, <3>5, <3>6, <3>7, <3>8, <3>9, <3>10, <3>11,
      <3>12, <3>13
  <2>18. CASE DqOutput
    <3>1. /\ drv' = [outq |-> drv.outq, outd |-> Tail(drv.outd), capq |-> drv.capq, capd |->
             drv.capd, ev |-> drv.ev, st |-> drv.st, stop |-> drv.stop]
          /\ dec' = [pc |-> "used", in |-> dec.in, hand |-> dec.hand, late |->
             Head(drv.outd), res |-> dec.res, eos |-> dec.eos, push |->
             dec.push]
          /\ dec.pc = "out"
          /\ out' = [out EXCEPT ![Head(drv.outd)].queued = FALSE]
          /\ UNCHANGED <<dmx, cur, wrote, cap, eos_received, lock, syn, disp,
             ring, rec, started, last_frame, main, thread_quit, quit_thread,
             parked, fault>>
      BY <2>18 DEF TypeDriver, DriverRec, TypeDecoder, DecoderRec, DqOutput,
        decOnly
    <3>2. TypeCapture' /\ TypeShow' /\ TypeRing' /\ HasBuffer' /\ LockHeld' /\
        ShowHas' /\ FirstChange'
      BY <3>1 DEF TypeCapture, TypeShow, TypeRing, HasBuffer, LockHeld,
        ShowHas, FirstChange, Announced, Changing
    <3>3. TypeOut'
      <4>1. Head(drv.outd) \in OutIdx /\ Tail(drv.outd) \in Seq(OutIdx)
        BY <3>1 DEF PollSaw, TypeDriver, DriverRec
      <4>2. out' \in OutRec BY <3>1, <4>1, OutQueued
      <4>3. QED BY <3>1, <4>2 DEF TypeOut, OutRec
    <3>4. TypeDriver'
      <4>1. Head(drv.outd) \in OutIdx /\ Tail(drv.outd) \in Seq(OutIdx)
        BY <3>1 DEF PollSaw, TypeDriver, DriverRec
      <4>2. QED BY <3>1, <4>1 DEF TypeDriver, DriverRec
    <3>5. TypeDecoder'
      <4>1. Head(drv.outd) \in OutIdx /\ Tail(drv.outd) \in Seq(OutIdx)
        BY <3>1 DEF PollSaw, TypeDriver, DriverRec
      <4>2. QED BY <3>1, <4>1 DEF TypeDecoder, DecoderRec, OutIdx
    <3>6. DecoderHas'
      <4>1. Head(drv.outd) \in OutIdx /\ Tail(drv.outd) \in Seq(OutIdx)
        BY <3>1 DEF PollSaw, TypeDriver, DriverRec
      <4>2. QED BY <3>1, <4>1 DEF DecoderHas, OutIdx
    <3>7. PollSaw' BY <3>1 DEF PollSaw
    <3>8. Unstarted' BY <3>1 DEF Unstarted
    <3>9. EosAtEnd' BY <3>1 DEF EosAtEnd, TypeShow, SyncRec
    <3>10. OneChange' BY <3>1 DEF OneChange, TypeDriver, DriverRec,
        TypeDecoder, DecoderRec, Seen, Announced
    <3>11. ChangePending' BY <3>1 DEF ChangePending, TypeDriver, DriverRec,
        TypeDecoder, DecoderRec, TypeCapture, CaptureRec, Seen, Announced,
        Changing, OneChange
    <3>12. ChangeHandled' BY <3>1 DEF ChangeHandled, TypeDriver, DriverRec,
        TypeDecoder, DecoderRec, TypeCapture, CaptureRec, Seen, Announced,
        Changing, OneChange, ChangePending
    <3>13. QED BY <3>2, <3>3, <3>4, <3>5, <3>6, <3>7, <3>8, <3>9, <3>10, <3>11,
      <3>12
  <2>19. CASE ResetUsed
    <3>1. /\ dec' = [pc |-> IF dec.in THEN "in" ELSE "poll", in |-> dec.in, hand |->
             dec.hand, late |-> 0, res |-> dec.res, eos |-> dec.eos, push |->
             dec.push]
          /\ dec.pc = "used"
          /\ out' = [out EXCEPT ![dec.late].used = 0]
          /\ UNCHANGED <<dmx, cur, wrote, drv, cap, eos_received, lock, syn,
             disp, ring, rec, started, last_frame, main, thread_quit,
             quit_thread, parked, fault>>
      BY <2>19 DEF TypeDecoder, DecoderRec, ResetUsed, decOnly
    <3>2. TypeDriver' /\ TypeCapture' /\ TypeShow' /\ TypeRing' /\ HasBuffer'
        /\ LockHeld' /\ ShowHas' /\ FirstChange'
      BY <3>1 DEF TypeDriver, TypeCapture, TypeShow, TypeRing, HasBuffer,
        LockHeld, ShowHas, FirstChange, Announced, Changing
    <3>3. TypeOut'
      <4>1. dec.late \in OutIdx
        BY <3>1 DEF DecoderHas, TypeDecoder, DecoderRec, OutIdx
      <4>2. 0 \in 0..Room OBVIOUS
      <4>3. out' \in OutRec BY <3>1, <4>1, <4>2, OutUsed
      <4>4. QED BY <3>1, <4>3 DEF TypeOut, OutRec
    <3>4. TypeDecoder' BY <3>1 DEF TypeDecoder, DecoderRec
    <3>5. DecoderHas' BY <3>1 DEF DecoderHas
    <3>6. PollSaw' BY <3>1 DEF PollSaw
    <3>7. Unstarted' BY <3>1 DEF Unstarted
    <3>8. EosAtEnd' BY <3>1 DEF EosAtEnd, TypeShow, SyncRec
    <3>9. OneChange' BY <3>1 DEF OneChange, TypeDriver, DriverRec, TypeDecoder,
        DecoderRec, Seen, Announced
    <3>10. ChangePending' BY <3>1 DEF ChangePending, TypeDriver, DriverRec,
        TypeDecoder, DecoderRec, TypeCapture, CaptureRec, Seen, Announced,
        Changing, OneChange
    <3>11. ChangeHandled' BY <3>1 DEF ChangeHandled, TypeDriver, DriverRec,
        TypeDecoder, DecoderRec, TypeCapture, CaptureRec, Seen, Announced,
        Changing, OneChange, ChangePending
    <3>12. QED BY <3>2, <3>3, <3>4, <3>5, <3>6, <3>7, <3>8, <3>9, <3>10, <3>11
  <2>20. CASE DqCapture
    <3>1. /\ drv' = [outq |-> drv.outq, outd |-> drv.outd, capq |-> drv.capq, capd |->
             Tail(drv.capd), ev |-> drv'.ev, st |-> drv.st, stop |-> drv.stop]
          /\ dec' = [pc |-> dec'.pc, in |-> dec.in, hand |-> dec'.hand, late
             |-> dec.late, res |-> dec'.res, eos |-> dec'.eos, push |->
             dec'.push]
          /\ cap' = [gen |-> cap.gen, queued |-> cap'.queued, recycle |->
             cap.recycle, alive |-> cap.alive]
          /\ dec.pc = "in"
          /\ dec'.pc \in {"show", "res", "poll"} /\ drv.capd # <<>>
          /\ dec'.hand = IF dec'.pc # "show" THEN None ELSE IF
             Head(drv.capd).last THEN Eos ELSE Head(drv.capd).f
          /\ dec'.res \in BOOLEAN /\ dec'.eos \in BOOLEAN /\ dec'.push = TRUE
          /\ dec'.res => dec.res /\ dec.push /\ dec'.pc = "show"
          /\ drv'.ev = drv.ev \/ (drv.ev # <<>> /\ drv'.ev = Tail(drv.ev) /\
             ~(dec.res /\ dec.push))
          /\ dec'.pc = "res" => (dec.res /\ dec.push /\ drv'.ev = drv.ev) \/
             (drv.ev # <<>> /\ drv'.ev = Tail(drv.ev) /\ Head(drv.ev) = "src")
          /\ cap'.queued \in {cap.queued, cap.queued \ {Head(drv.capd).f}}
          /\ UNCHANGED <<dmx, cur, wrote, out, eos_received, lock, syn, disp,
             ring, rec, started, last_frame, main, thread_quit, quit_thread,
             fault>>
      <4>1. dec.pc = "in" BY <2>20 DEF DqCapture
      <4>2. drv.capd # <<>> BY <4>1 DEF PollSaw
      <4>3. Head(drv.capd) \in Pic
        BY <4>2, PicHead
      <4>4. QED
        BY <2>20, <4>2, <4>3 DEF DqCapture, decOnly, Pic, TypeDriver, DriverRec,
          TypeDecoder,
          DecoderRec, TypeCapture, CaptureRec
    <3>2. /\ drv'.outq = drv.outq /\ drv'.outd = drv.outd /\ drv'.capq = drv.capq /\ drv'.st
             = drv.st /\ drv'.stop = drv.stop
          /\ cap'.gen = cap.gen /\ cap'.recycle = cap.recycle /\ cap'.alive =
             cap.alive
          /\ dec'.in = dec.in /\ dec'.late = dec.late
          /\ UNCHANGED <<dmx, cur, wrote, out, eos_received, lock, syn, disp,
             ring, rec, started, last_frame, main, thread_quit, quit_thread,
             fault>>
      BY <3>1
    <3>3. TypeOut' /\ TypeShow' /\ TypeRing' /\ HasBuffer' /\ LockHeld' /\
        ShowHas'
      BY <3>2 DEF TypeOut, TypeShow, TypeRing, HasBuffer, LockHeld, ShowHas
    <3>4. TypeDriver'
      <4>1. drv'.ev \in Seq({"src", "eos"})
        BY <3>1, EventTaken DEF TypeDriver, DriverRec
      <4>2. drv'.capd \in Seq(Pic)
        <5>1. drv'.capd = Tail(drv.capd) /\ drv.capd # <<>> BY <3>1
        <5>2. QED BY <5>1, PicHead
      <4>3. drv' = [outq |-> drv.outq, outd |-> drv.outd, capq |-> drv.capq,
                    capd |-> drv'.capd, ev |-> drv'.ev, st |-> drv.st,
                    stop |-> drv.stop]
        BY <3>1
      <4>4. QED BY <4>1, <4>2, <4>3 DEF TypeDriver, DriverRec
    <3>5. TypeDecoder'
      <4>1. drv.capd # <<>> BY <3>1
      <4>2. Head(drv.capd).f \in Frame
        BY <4>1, PicHead
      <4>3. dec'.hand \in Frame \cup {None, Eos}
        BY <3>1, <4>2
      <4>4. /\ dec' = [pc |-> dec'.pc, in |-> dec.in, hand |-> dec'.hand,
                       late |-> dec.late, res |-> dec'.res, eos |-> dec'.eos,
                       push |-> dec'.push]
            /\ dec'.pc \in {"show", "res", "poll"}
            /\ dec'.res \in BOOLEAN /\ dec'.eos \in BOOLEAN /\ dec'.push \in BOOLEAN
        BY <3>1
      <4>5. QED BY <4>3, <4>4 DEF TypeDecoder, DecoderRec
    <3>6. TypeCapture'
      BY <3>1 DEF TypeCapture, CaptureRec
    <3>7. DecoderHas'
      <4>1. drv.capd # <<>> BY <3>1
      <4>2. Head(drv.capd).f \in Frame
        BY <4>1, PicHead
      <4>3. dec'.hand # None <=> dec'.pc = "show"
        BY <3>1, <4>2, FrameFacts
      <4>4. dec'.pc # "used" /\ dec'.pc # "none" /\ dec'.late = 0 /\ cap.gen # 0
        BY <3>1 DEF DecoderHas
      <4>5. QED BY <3>1, <4>3, <4>4 DEF DecoderHas
    <3>8. PollSaw' BY <3>1 DEF PollSaw
    <3>9. Unstarted' BY <3>1 DEF Unstarted
    <3>10. EosAtEnd' BY <3>1 DEF EosAtEnd, TypeShow, SyncRec
    <3>11. OneChange'
      <4>1. CASE drv'.ev = drv.ev
        <5>1. \A i \in Nat : Announced(i)' <=> Announced(i) BY <3>1, <4>1 DEF Announced
        <5>2. Changing' <=> Changing BY <3>1 DEF Changing
        <5>3. Seen BY <3>1 DEF Seen
        <5>4. dec'.res => dec.res /\ dec.push BY <3>1
        <5>5. QED BY <5>1, <5>3, <5>4 DEF OneChange
      <4>2. CASE drv.ev # <<>> /\ drv'.ev = Tail(drv.ev) /\ ~(dec.res /\ dec.push)
        <5>1. /\ \A i \in Nat : Announced(i)' <=> i # 0 /\ Announced(i + 1)
              /\ Announced(1) <=> Head(drv.ev) = "src"
          BY <3>1, <4>2, EventTaken
        <5>2. Changing' <=> Changing BY <3>1 DEF Changing
        <5>3. \A i \in Nat : Announced(i)' => Announced(i + 1) /\ i + 1 \in Nat \ {0, 1}
          BY <5>1
        <5>4. \A i, j \in Nat : Announced(i)' /\ Announced(j)' => i = j
          <6>1. ASSUME NEW i \in Nat, NEW j \in Nat, Announced(i)', Announced(j)'
                PROVE  i + 1 = j + 1
            BY <5>3, <6>1 DEF FirstChange
          <6>2. QED BY <6>1
        <5>5. dec'.res => FALSE BY <3>1, <4>2
        <5>6. QED BY <5>4, <5>5 DEF OneChange
      <4>3. QED BY <3>1, <4>1, <4>2
    <3>12. ChangePending'
      <4>1. CASE drv'.ev = drv.ev
        <5>1. \A i \in Nat : Announced(i)' <=> Announced(i) BY <3>1, <4>1 DEF Announced
        <5>2. Changing' <=> Changing BY <3>1 DEF Changing
        <5>3. Seen BY <3>1 DEF Seen
        <5>4. dec'.res => dec.res /\ dec.push BY <3>1
        <5>5. QED BY <5>1, <5>2, <5>3, <5>4 DEF ChangePending
      <4>2. CASE drv.ev # <<>> /\ drv'.ev = Tail(drv.ev)
        <5>1. /\ \A i \in Nat : Announced(i)' <=> i # 0 /\ Announced(i + 1)
              /\ Announced(1) <=> Head(drv.ev) = "src"
          BY <3>1, <4>2, EventTaken
        <5>2. Changing' <=> Changing BY <3>1 DEF Changing
        <5>3. \A i \in Nat : Announced(i)' => Announced(i + 1) /\ i + 1 \in Nat \ {0, 1}
          BY <5>1
        <5>4. \A i \in Nat : Announced(i)' => Changing
          BY <5>3 DEF FirstChange
        <5>5. dec'.res => dec.res /\ dec.push BY <3>1
        <5>6. QED BY <5>2, <5>4, <5>5 DEF ChangePending
      <4>3. QED BY <3>1, <4>1, <4>2
    <3>13. FirstChange'
      <4>1. CASE drv'.ev = drv.ev
        BY <3>1, <4>1 DEF FirstChange, Seen, Changing, OneChange, ChangePending,
          FirstChange, Announced
      <4>2. CASE drv.ev # <<>> /\ drv'.ev = Tail(drv.ev)
        <5>1. /\ \A i \in Nat : Announced(i)' <=> i # 0 /\ Announced(i + 1)
              /\ Announced(1) <=> Head(drv.ev) = "src"
          BY <3>1, <4>2, EventTaken
        <5>2. Changing' <=> Changing BY <3>1 DEF Changing
        <5>3. \A i \in Nat \ {0, 1} : Announced(i)' => Announced(i + 1) /\ i + 1 \in Nat \ {0, 1}
          BY <5>1
        <5>4. \A i, j \in Nat : i + 1 = j + 1 => i = j OBVIOUS
        <5>5. QED
          BY <3>1, <5>1, <5>2, <5>3, <5>4 DEF FirstChange, Seen, OneChange,
            ChangePending,
            FirstChange
      <4>3. QED BY <3>1, <4>1, <4>2
    <3>14. ChangeHandled'
      <4>1. SUFFICES ASSUME dec'.pc = "res" PROVE ChangeHandled'
        BY <3>1 DEF ChangeHandled
      <4>2. Changing' <=> Changing BY <3>1 DEF Changing
      <4>3. dec'.push /\ ~dec'.res BY <3>1, <4>1
      <4>4. CASE dec.res /\ dec.push /\ drv'.ev = drv.ev
        <5>1. \A i \in Nat : Announced(i)' <=> Announced(i) BY <4>4 DEF Announced
        <5>2. Changing /\ \A i \in Nat : ~Announced(i)
          BY <4>4 DEF ChangePending, OneChange
        <5>3. QED BY <4>2, <4>3, <5>1, <5>2 DEF ChangeHandled
      <4>5. CASE drv.ev # <<>> /\ drv'.ev = Tail(drv.ev) /\ Head(drv.ev) = "src"
        <5>1. /\ \A i \in Nat : Announced(i)' <=> i # 0 /\ Announced(i + 1)
              /\ Announced(1)
          BY <4>5, EventTaken
        <5>2. Seen BY <3>1 DEF Seen
        <5>3. Changing BY <5>1, <5>2 DEF ChangePending
        <5>4. ASSUME NEW i \in Nat, Announced(i)' PROVE FALSE
          <6>1. i # 0 /\ i + 1 \in Nat /\ Announced(i + 1) BY <5>1, <5>4
          <6>2. i + 1 = 1 BY <5>1, <5>2, <6>1 DEF OneChange
          <6>3. QED BY <6>1, <6>2
        <5>5. QED BY <4>2, <4>3, <5>3, <5>4 DEF ChangeHandled
      <4>6. QED BY <3>1, <4>1, <4>4, <4>5
    <3>15. QED BY <3>2, <3>3, <3>4, <3>5, <3>6, <3>7, <3>8, <3>9, <3>10, <3>11,
      <3>12, <3>13, <3>14
  <2>21. CASE StartDisplay
    <3>1. /\ disp' = [pc |-> "pop", f |-> disp.f, cb |-> disp.cb, n |-> disp.n, flag |->
             disp.flag]
          /\ ring' = [slot |-> ring.slot, ri |-> 0, wi |-> 0, n |-> 0]
          /\ rec' = [pc |-> "run", f |-> rec.f, n |-> rec.n]
          /\ started' = TRUE
          /\ last_frame' = FALSE
          /\ dec.pc = "show" /\ ~started
          /\ UNCHANGED <<dmx, cur, wrote, out, drv, dec, cap, eos_received,
             lock, syn, main, thread_quit, quit_thread, parked, fault>>
      BY <2>21 DEF TypeShow, DisplayRec, TypeRing, RingRec, RecycleRec,
        Unstarted, StartDisplay
    <3>2. TypeOut' /\ TypeDriver' /\ TypeDecoder' /\ TypeCapture' /\
        DecoderHas' /\ PollSaw' /\ HasBuffer' /\ EosAtEnd' /\ OneChange' /\
        ChangePending' /\ FirstChange' /\ ChangeHandled'
      BY <3>1 DEF TypeOut, TypeDriver, TypeDecoder, TypeCapture, DecoderHas,
        PollSaw, HasBuffer, EosAtEnd, OneChange, Seen, Announced,
        ChangePending, Changing, FirstChange, ChangeHandled
    <3>3. TypeShow' BY <3>1 DEF TypeShow, SyncRec, DisplayRec
    <3>4. TypeRing' BY <3>1 DEF TypeRing, RecycleRec, RingRec
    <3>5. Unstarted' BY <3>1 DEF Unstarted
    <3>6. LockHeld' BY <3>1 DEF LockHeld, Unstarted
    <3>7. ShowHas' BY <3>1 DEF ShowHas
    <3>8. QED BY <3>2, <3>3, <3>4, <3>5, <3>6, <3>7
  <2>22. CASE display_engine_show
    <3>1. /\ dec' = [pc |-> IF dec.hand = Eos THEN "eos" ELSE "poll", in |-> dec.in, hand
             |-> None, late |-> dec.late, res |-> dec.res, eos |-> dec.eos,
             push |-> dec.push]
          /\ syn' = [q |-> Append(syn.q, dec.hand), shown |-> syn.shown]
          /\ dec.pc = "show" /\ started
          /\ UNCHANGED <<dmx, cur, wrote, out, drv, cap, eos_received, lock,
             disp, ring, rec, started, last_frame, main, thread_quit,
             quit_thread, parked, fault>>
      BY <2>22 DEF TypeDecoder, DecoderRec, TypeShow, SyncRec,
        display_engine_show, decOnly
    <3>2. TypeOut' /\ TypeDriver' /\ TypeCapture' /\ TypeRing' /\ HasBuffer' /\
        LockHeld' /\ ShowHas' /\ FirstChange'
      BY <3>1 DEF TypeOut, TypeDriver, TypeCapture, TypeRing, HasBuffer,
        LockHeld, ShowHas, FirstChange, Announced, Changing
    <3>3. TypeDecoder' BY <3>1 DEF TypeDecoder, DecoderRec
    <3>4. TypeShow'
      <4>1. dec.hand \in Frame \cup {Eos}
        BY <3>1 DEF DecoderHas, TypeDecoder, DecoderRec
      <4>2. QED BY <3>1, <4>1 DEF TypeShow, SyncRec
    <3>5. DecoderHas' BY <3>1 DEF DecoderHas
    <3>6. PollSaw' BY <3>1 DEF PollSaw
    <3>7. Unstarted' BY <3>1 DEF Unstarted
    <3>8. EosAtEnd' BY <3>1 DEF EosAtEnd, TypeShow, SyncRec
    <3>9. OneChange' BY <3>1 DEF OneChange, TypeDriver, DriverRec, TypeDecoder,
        DecoderRec, Seen, Announced
    <3>10. ChangePending' BY <3>1 DEF ChangePending, TypeDriver, DriverRec,
        TypeDecoder, DecoderRec, TypeCapture, CaptureRec, Seen, Announced,
        Changing, OneChange
    <3>11. ChangeHandled' BY <3>1 DEF ChangeHandled, TypeDriver, DriverRec,
        TypeDecoder, DecoderRec, TypeCapture, CaptureRec, Seen, Announced,
        Changing, OneChange, ChangePending
    <3>12. QED BY <3>2, <3>3, <3>4, <3>5, <3>6, <3>7, <3>8, <3>9, <3>10, <3>11
  <2>23. CASE EosReceived
    <3>1. /\ dec' = [pc |-> "wait", in |-> dec.in, hand |-> dec.hand, late |-> dec.late, res
             |-> dec.res, eos |-> dec.eos, push |-> dec.push]
          /\ eos_received' = TRUE
          /\ dec.pc = "eos"
          /\ UNCHANGED <<dmx, cur, wrote, out, drv, cap, lock, syn, disp, ring,
             rec, started, last_frame, main, thread_quit, quit_thread, parked,
             fault>>
      BY <2>23 DEF TypeDecoder, DecoderRec, EosReceived, decOnly
    <3>2. TypeOut' /\ TypeDriver' /\ TypeCapture' /\ TypeShow' /\ TypeRing' /\
        HasBuffer' /\ LockHeld' /\ ShowHas' /\ FirstChange'
      BY <3>1 DEF TypeOut, TypeDriver, TypeCapture, TypeShow, TypeRing,
        HasBuffer, LockHeld, ShowHas, FirstChange, Announced, Changing
    <3>3. TypeDecoder' BY <3>1 DEF TypeDecoder, DecoderRec
    <3>4. DecoderHas' BY <3>1 DEF DecoderHas
    <3>5. PollSaw' BY <3>1 DEF PollSaw
    <3>6. Unstarted' BY <3>1 DEF Unstarted
    <3>7. EosAtEnd' BY <3>1 DEF EosAtEnd, TypeShow, SyncRec
    <3>8. OneChange' BY <3>1 DEF OneChange, TypeDriver, DriverRec, TypeDecoder,
        DecoderRec, Seen, Announced
    <3>9. ChangePending' BY <3>1 DEF ChangePending, TypeDriver, DriverRec,
        TypeDecoder, DecoderRec, TypeCapture, CaptureRec, Seen, Announced,
        Changing, OneChange
    <3>10. ChangeHandled' BY <3>1 DEF ChangeHandled, TypeDriver, DriverRec,
        TypeDecoder, DecoderRec, TypeCapture, CaptureRec, Seen, Announced,
        Changing, OneChange, ChangePending
    <3>11. QED BY <3>2, <3>3, <3>4, <3>5, <3>6, <3>7, <3>8, <3>9, <3>10
  <2>24. CASE display_wait_for_display
    <3>1. /\ dec' = [pc |-> "off", in |-> dec.in, hand |-> dec.hand, late |-> dec.late, res
             |-> dec.res, eos |-> dec.eos, push |-> dec.push]
          /\ dec.pc = "wait"
          /\ UNCHANGED <<dmx, cur, wrote, out, drv, cap, eos_received, lock,
             syn, disp, ring, rec, started, last_frame, thread_quit,
             quit_thread, parked, fault>>
      BY <2>24 DEF TypeDecoder, DecoderRec, display_wait_for_display, decOnly
    <3>2. TypeOut' /\ TypeDriver' /\ TypeCapture' /\ TypeShow' /\ TypeRing' /\
        HasBuffer' /\ LockHeld' /\ ShowHas' /\ FirstChange'
      BY <3>1 DEF TypeOut, TypeDriver, TypeCapture, TypeShow, TypeRing,
        HasBuffer, LockHeld, ShowHas, FirstChange, Announced, Changing
    <3>3. TypeDecoder' BY <3>1 DEF TypeDecoder, DecoderRec
    <3>4. DecoderHas' BY <3>1 DEF DecoderHas
    <3>5. PollSaw' BY <3>1 DEF PollSaw
    <3>6. Unstarted' BY <3>1 DEF Unstarted
    <3>7. EosAtEnd' BY <3>1 DEF EosAtEnd, TypeShow, SyncRec
    <3>8. OneChange' BY <3>1 DEF OneChange, TypeDriver, DriverRec, TypeDecoder,
        DecoderRec, Seen, Announced
    <3>9. ChangePending' BY <3>1 DEF ChangePending, TypeDriver, DriverRec,
        TypeDecoder, DecoderRec, TypeCapture, CaptureRec, Seen, Announced,
        Changing, OneChange
    <3>10. ChangeHandled' BY <3>1 DEF ChangeHandled, TypeDriver, DriverRec,
        TypeDecoder, DecoderRec, TypeCapture, CaptureRec, Seen, Announced,
        Changing, OneChange, ChangePending
    <3>11. QED BY <3>2, <3>3, <3>4, <3>5, <3>6, <3>7, <3>8, <3>9, <3>10
  <2>25. CASE ResStreamOff
    <3>1. /\ drv' = [outq |-> drv.outq, outd |-> drv.outd, capq |-> <<>>, capd |-> <<>>, ev
             |-> drv.ev, st |-> drv.st, stop |-> drv.stop]
          /\ dec' = [pc |-> "free", in |-> dec.in, hand |-> dec.hand, late |->
             dec.late, res |-> dec.res, eos |-> dec.eos, push |-> dec.push]
          /\ dec.pc = "res"
          /\ UNCHANGED <<dmx, cur, wrote, out, cap, eos_received, lock, syn,
             disp, ring, rec, started, last_frame, main, thread_quit,
             quit_thread, parked, fault>>
      BY <2>25 DEF TypeDriver, DriverRec, TypeDecoder, DecoderRec,
        ResStreamOff, decOnly
    <3>2. TypeOut' /\ TypeCapture' /\ TypeShow' /\ TypeRing' /\ HasBuffer' /\
        LockHeld' /\ ShowHas' /\ FirstChange'
      BY <3>1 DEF TypeOut, TypeCapture, TypeShow, TypeRing, HasBuffer,
        LockHeld, ShowHas, FirstChange, Announced, Changing
    <3>3. TypeDriver' BY <3>1 DEF TypeDriver, DriverRec
    <3>4. TypeDecoder' BY <3>1 DEF TypeDecoder, DecoderRec
    <3>5. DecoderHas' BY <3>1 DEF DecoderHas
    <3>6. PollSaw' BY <3>1 DEF PollSaw
    <3>7. Unstarted' BY <3>1 DEF Unstarted
    <3>8. EosAtEnd' BY <3>1 DEF EosAtEnd, TypeShow, SyncRec
    <3>9. OneChange' BY <3>1 DEF OneChange, TypeDriver, DriverRec, TypeDecoder,
        DecoderRec, Seen, Announced
    <3>10. ChangePending' BY <3>1 DEF ChangePending, TypeDriver, DriverRec,
        TypeDecoder, DecoderRec, TypeCapture, CaptureRec, Seen, Announced,
        Changing, OneChange
    <3>11. ChangeHandled' BY <3>1 DEF ChangeHandled, TypeDriver, DriverRec,
        TypeDecoder, DecoderRec, TypeCapture, CaptureRec, Seen, Announced,
        Changing, OneChange, ChangePending
    <3>12. QED BY <3>2, <3>3, <3>4, <3>5, <3>6, <3>7, <3>8, <3>9, <3>10, <3>11
  <2>26. CASE ResFree
    <3>1. /\ drv' = [outq |-> drv.outq, outd |-> drv.outd, capq |-> <<>>, capd |-> drv.capd,
             ev |-> drv.ev, st |-> drv.st, stop |-> drv.stop]
          /\ dec' = [pc |-> "setup", in |-> dec.in, hand |-> dec.hand, late |->
             dec.late, res |-> dec.res, eos |-> dec.eos, push |-> dec.push]
          /\ cap' = [gen |-> cap.gen, queued |-> cap.queued \ Set(cap.gen),
             recycle |-> cap.recycle \cup (Set(cap.gen) \ Freed), alive |->
             cap.alive \ Freed]
          /\ dec.pc = "free" /\ lock = None
          /\ UNCHANGED <<dmx, cur, wrote, out, eos_received, lock, syn, disp,
             ring, rec, started, last_frame, main, thread_quit, quit_thread,
             parked, fault>>
      BY <2>26 DEF TypeDriver, DriverRec, TypeDecoder, DecoderRec, TypeCapture,
        CaptureRec, ResFree, decOnly, Freed
    <3>2. TypeOut' /\ TypeShow' /\ TypeRing' /\ HasBuffer' /\ LockHeld' /\
        ShowHas' /\ FirstChange'
      BY <3>1 DEF TypeOut, TypeShow, TypeRing, HasBuffer, LockHeld, ShowHas,
        FirstChange, Announced, Changing
    <3>3. TypeDriver' BY <3>1 DEF TypeDriver, DriverRec
    <3>4. TypeDecoder' BY <3>1 DEF TypeDecoder, DecoderRec
    <3>5. TypeCapture'
      <4>1. cap.gen \in 1..MaxGen
        BY <3>1 DEF TypeCapture, CaptureRec, DecoderHas
      <4>2. Set(cap.gen) \subseteq Frame BY <4>1, FrameFacts
      <4>3. QED BY <3>1, <4>2 DEF TypeCapture, CaptureRec
    <3>6. DecoderHas' BY <3>1 DEF DecoderHas
    <3>7. PollSaw' BY <3>1 DEF PollSaw
    <3>8. Unstarted' BY <3>1 DEF Unstarted
    <3>9. EosAtEnd' BY <3>1 DEF EosAtEnd, TypeShow, SyncRec
    <3>10. OneChange' BY <3>1 DEF OneChange, TypeDriver, DriverRec,
        TypeDecoder, DecoderRec, Seen, Announced
    <3>11. ChangePending' BY <3>1 DEF ChangePending, TypeDriver, DriverRec,
        TypeDecoder, DecoderRec, TypeCapture, CaptureRec, Seen, Announced,
        Changing, OneChange
    <3>12. ChangeHandled' BY <3>1 DEF ChangeHandled, TypeDriver, DriverRec,
        TypeDecoder, DecoderRec, TypeCapture, CaptureRec, Seen, Announced,
        Changing, OneChange, ChangePending
    <3>13. QED BY <3>2, <3>3, <3>4, <3>5, <3>6, <3>7, <3>8, <3>9, <3>10, <3>11,
      <3>12
  <2>27. CASE ResSetup
    <3>1. /\ drv' = [outq |-> drv.outq, outd |-> drv.outd, capq |-> Setup(cap.gen + 1), capd
             |-> drv.capd, ev |-> drv.ev, st |-> "run", stop |-> drv.stop]
          /\ dec' = [pc |-> "poll", in |-> dec.in, hand |-> dec.hand, late |->
             dec.late, res |-> dec.res, eos |-> dec.eos, push |-> dec.push]
          /\ cap' = [gen |-> cap.gen + 1, queued |-> cap.queued \cup
             Set(cap.gen + 1), recycle |-> cap.recycle, alive |-> cap.alive
             \cup Set(cap.gen + 1)]
          /\ dec.pc = "setup"
          /\ UNCHANGED <<dmx, cur, wrote, out, eos_received, lock, syn, disp,
             ring, rec, started, last_frame, main, thread_quit, quit_thread,
             parked, fault>>
      BY <2>27 DEF TypeDriver, DriverRec, TypeDecoder, DecoderRec, TypeCapture,
        CaptureRec, ResSetup, decOnly, SetupCapture
    <3>2. TypeOut' /\ TypeShow' /\ TypeRing' /\ HasBuffer' /\ LockHeld' /\
        ShowHas'
      BY <3>1 DEF TypeOut, TypeShow, TypeRing, HasBuffer, LockHeld, ShowHas
    <3>3. TypeDriver'
      <4>1. cap.gen + 1 \in 1..MaxGen
        BY <3>1 DEF TypeCapture, CaptureRec, ChangeHandled, Changing
      <4>2. Setup(cap.gen + 1) \in Seq(Frame) BY <4>1, FrameFacts
      <4>3. QED BY <3>1, <4>2 DEF TypeDriver, DriverRec
    <3>4. TypeDecoder' BY <3>1 DEF TypeDecoder, DecoderRec
    <3>5. TypeCapture'
      <4>1. cap.gen + 1 \in 1..MaxGen
        BY <3>1 DEF TypeCapture, CaptureRec, ChangeHandled, Changing
      <4>2. Set(cap.gen + 1) \subseteq Frame BY <4>1, FrameFacts
      <4>3. QED BY <3>1, <4>1, <4>2 DEF TypeCapture, CaptureRec
    <3>6. DecoderHas' BY <3>1 DEF DecoderHas, TypeCapture, CaptureRec
    <3>7. PollSaw' BY <3>1 DEF PollSaw
    <3>8. Unstarted' BY <3>1 DEF Unstarted
    <3>9. EosAtEnd' BY <3>1 DEF EosAtEnd, TypeShow, SyncRec
    <3>10. OneChange' BY <3>1 DEF OneChange, Seen, Changing, ChangePending,
        FirstChange, ChangeHandled, DecoderHas, PollSaw, Announced
    <3>11. ChangePending' BY <3>1 DEF ChangePending, Seen, Changing, OneChange,
        FirstChange, ChangeHandled, DecoderHas, PollSaw, Announced
    <3>12. FirstChange' BY <3>1 DEF FirstChange, Seen, Changing, OneChange,
        ChangePending, ChangeHandled, DecoderHas, PollSaw, Announced
    <3>13. ChangeHandled' BY <3>1 DEF ChangeHandled, Seen, Changing, OneChange,
        ChangePending, FirstChange, DecoderHas, PollSaw, Announced
    <3>14. QED BY <3>2, <3>3, <3>4, <3>5, <3>6, <3>7, <3>8, <3>9, <3>10, <3>11,
      <3>12, <3>13
  <2>28. CASE ResFatal
    <3>1. /\ dec' = [pc |-> "stuck", in |-> dec.in, hand |-> dec.hand, late |-> dec.late,
             res |-> dec.res, eos |-> dec.eos, push |-> dec.push]
          /\ dec.pc \in {"res", "free", "setup"}
          /\ UNCHANGED <<dmx, cur, wrote, out, drv, cap, eos_received, lock,
             syn, disp, ring, rec, started, last_frame, main, thread_quit,
             quit_thread, parked>>
      BY <2>28 DEF TypeDecoder, DecoderRec, ResFatal, decOnly
    <3>2. TypeOut' /\ TypeDriver' /\ TypeCapture' /\ TypeShow' /\ TypeRing' /\
        HasBuffer' /\ LockHeld' /\ ShowHas' /\ FirstChange'
      BY <3>1 DEF TypeOut, TypeDriver, TypeCapture, TypeShow, TypeRing,
        HasBuffer, LockHeld, ShowHas, FirstChange, Announced, Changing
    <3>3. TypeDecoder' BY <3>1 DEF TypeDecoder, DecoderRec
    <3>4. DecoderHas' BY <3>1 DEF DecoderHas
    <3>5. PollSaw' BY <3>1 DEF PollSaw
    <3>6. Unstarted' BY <3>1 DEF Unstarted
    <3>7. EosAtEnd' BY <3>1 DEF EosAtEnd, TypeShow, SyncRec
    <3>8. OneChange' BY <3>1 DEF OneChange, TypeDriver, DriverRec, TypeDecoder,
        DecoderRec, Seen, Announced
    <3>9. ChangePending' BY <3>1 DEF ChangePending, TypeDriver, DriverRec,
        TypeDecoder, DecoderRec, TypeCapture, CaptureRec, Seen, Announced,
        Changing, OneChange
    <3>10. ChangeHandled' BY <3>1 DEF ChangeHandled, TypeDriver, DriverRec,
        TypeDecoder, DecoderRec, TypeCapture, CaptureRec, Seen, Announced,
        Changing, OneChange, ChangePending
    <3>11. QED BY <3>2, <3>3, <3>4, <3>5, <3>6, <3>7, <3>8, <3>9, <3>10
  <2>29. CASE DecQuit
    <3>1. /\ dec' = [pc |-> "off", in |-> dec.in, hand |-> dec.hand, late |-> dec.late, res
             |-> dec.res, eos |-> dec.eos, push |-> dec.push]
          /\ dec.pc = "poll"
          /\ UNCHANGED <<dmx, cur, wrote, out, drv, cap, eos_received, lock,
             syn, disp, ring, rec, started, last_frame, main, thread_quit,
             quit_thread, parked, fault>>
      BY <2>29 DEF TypeDecoder, DecoderRec, DecQuit, decOnly
    <3>2. TypeOut' /\ TypeDriver' /\ TypeCapture' /\ TypeShow' /\ TypeRing' /\
        HasBuffer' /\ LockHeld' /\ ShowHas' /\ FirstChange'
      BY <3>1 DEF TypeOut, TypeDriver, TypeCapture, TypeShow, TypeRing,
        HasBuffer, LockHeld, ShowHas, FirstChange, Announced, Changing
    <3>3. TypeDecoder' BY <3>1 DEF TypeDecoder, DecoderRec
    <3>4. DecoderHas' BY <3>1 DEF DecoderHas
    <3>5. PollSaw' BY <3>1 DEF PollSaw
    <3>6. Unstarted' BY <3>1 DEF Unstarted
    <3>7. EosAtEnd' BY <3>1 DEF EosAtEnd, TypeShow, SyncRec
    <3>8. OneChange' BY <3>1 DEF OneChange, TypeDriver, DriverRec, TypeDecoder,
        DecoderRec, Seen, Announced
    <3>9. ChangePending' BY <3>1 DEF ChangePending, TypeDriver, DriverRec,
        TypeDecoder, DecoderRec, TypeCapture, CaptureRec, Seen, Announced,
        Changing, OneChange
    <3>10. ChangeHandled' BY <3>1 DEF ChangeHandled, TypeDriver, DriverRec,
        TypeDecoder, DecoderRec, TypeCapture, CaptureRec, Seen, Announced,
        Changing, OneChange, ChangePending
    <3>11. QED BY <3>2, <3>3, <3>4, <3>5, <3>6, <3>7, <3>8, <3>9, <3>10
  <2>30. CASE DecOff
    <3>1. /\ drv' = [outq |-> <<>>, outd |-> <<>>, capq |-> <<>>, capd |-> <<>>, ev |->
             drv.ev, st |-> "off", stop |-> drv.stop]
          /\ dec' = [pc |-> "done", in |-> dec.in, hand |-> dec.hand, late |->
             dec.late, res |-> dec.res, eos |-> dec.eos, push |-> dec.push]
          /\ dec.pc = "off"
          /\ UNCHANGED <<dmx, cur, wrote, out, cap, eos_received, lock, syn,
             disp, ring, rec, started, last_frame, main, thread_quit,
             quit_thread, parked, fault>>
      BY <2>30 DEF TypeDriver, DriverRec, TypeDecoder, DecoderRec, DecOff,
        decOnly
    <3>2. TypeOut' /\ TypeCapture' /\ TypeShow' /\ TypeRing' /\ HasBuffer' /\
        LockHeld' /\ ShowHas'
      BY <3>1 DEF TypeOut, TypeCapture, TypeShow, TypeRing, HasBuffer,
        LockHeld, ShowHas
    <3>3. TypeDriver' BY <3>1 DEF TypeDriver, DriverRec
    <3>4. TypeDecoder' BY <3>1 DEF TypeDecoder, DecoderRec
    <3>5. DecoderHas'
      <4>1. cap.gen # 0 /\ dec.hand = None /\ dec.late = 0
        BY <3>1 DEF DecoderHas
      <4>2. QED BY <3>1, <4>1 DEF DecoderHas
    <3>6. PollSaw' BY <3>1 DEF PollSaw
    <3>7. Unstarted' BY <3>1 DEF Unstarted
    <3>8. EosAtEnd' BY <3>1 DEF EosAtEnd, TypeShow, SyncRec
    <3>9. OneChange' BY <3>1 DEF OneChange, TypeDriver, DriverRec, TypeDecoder,
        DecoderRec, Seen, Announced
    <3>10. ChangePending' BY <3>1 DEF ChangePending, TypeDriver, DriverRec,
        TypeDecoder, DecoderRec, TypeCapture, CaptureRec, Seen, Announced,
        Changing, OneChange
    <3>11. FirstChange' BY <3>1 DEF FirstChange, TypeDriver, DriverRec,
        TypeCapture, CaptureRec, Announced, Changing
    <3>12. ChangeHandled' BY <3>1 DEF ChangeHandled, TypeDriver, DriverRec,
        TypeDecoder, DecoderRec, TypeCapture, CaptureRec, Seen, Announced,
        Changing, OneChange, ChangePending
    <3>13. QED BY <3>2, <3>3, <3>4, <3>5, <3>6, <3>7, <3>8, <3>9, <3>10, <3>11,
      <3>12
  <2>31. CASE DispRecycle
    <3>1. /\ drv' = [outq |-> drv.outq, outd |-> drv.outd, capq |-> drv'.capq, capd |->
             drv.capd, ev |-> drv.ev, st |-> drv.st, stop |-> drv.stop]
          /\ cap' = [gen |-> cap.gen, queued |-> cap.queued, recycle |->
             cap.recycle, alive |-> cap'.alive]
          /\ disp' = [pc |-> disp.pc, f |-> disp.f, cb |-> Tail(disp.cb), n |->
             disp.n, flag |-> disp'.flag]
          /\ disp.cb # <<>> /\ ~disp.flag
          /\ lock = None /\ lock' \in {None, Head(disp.cb)}
          /\ (lock' = None /\ drv'.capq = drv.capq) \/ (lock' = Head(disp.cb)
             /\ drv'.capq = Append(drv.capq, Head(disp.cb)))
          /\ cap'.alive \in {cap.alive, cap.alive \ {Head(disp.cb)}}
          /\ disp'.flag \in BOOLEAN /\ (disp'.flag <=> lock' # None)
          /\ Head(disp.cb) \in Frame
          /\ UNCHANGED <<dmx, cur, wrote, out, dec, eos_received, syn, ring,
             rec, started, last_frame, main, thread_quit, quit_thread>>
      <4>1. Head(disp.cb) \in Frame
        BY <2>31, FrameFacts DEF DispRecycle, TypeShow, DisplayRec
      <4>2. Recycle(Head(disp.cb)) BY <2>31 DEF DispRecycle
      <4>3. lock' \in {None, Head(disp.cb)} /\ lock = None BY <4>1, <4>2, RecycleOutcome
      <4>4. drv' = [outq |-> drv.outq, outd |-> drv.outd, capq |-> drv'.capq,
                    capd |-> drv.capd, ev |-> drv.ev, st |-> drv.st,
                    stop |-> drv.stop]
        BY <4>1, <4>2, RecycleOutcome DEF TypeDriver, DriverRec
      <4>5. \/ lock' = None /\ drv'.capq = drv.capq
            \/ lock' = Head(disp.cb) /\ drv'.capq = Append(drv.capq, Head(disp.cb))
        BY <4>1, <4>2, RecycleOutcome
      <4>6. /\ cap' = [gen |-> cap.gen, queued |-> cap.queued,
                       recycle |-> cap.recycle, alive |-> cap'.alive]
            /\ cap'.alive \in {cap.alive, cap.alive \ {Head(disp.cb)}}
        BY <4>1, <4>2, RecycleOutcome DEF TypeCapture, CaptureRec
      <4>7. QED
        BY <2>31, <4>1, <4>3, <4>4, <4>5, <4>6 DEF DispRecycle, shown, TypeShow,
          DisplayRec
    <3>2. /\ disp'.pc = disp.pc /\ disp'.f = disp.f /\ disp'.n = disp.n
          /\ drv'.outq = drv.outq /\ drv'.outd = drv.outd /\ drv'.capd =
             drv.capd /\ drv'.ev = drv.ev /\ drv'.st = drv.st /\ drv'.stop =
             drv.stop
          /\ cap'.gen = cap.gen /\ cap'.queued = cap.queued /\ cap'.recycle =
             cap.recycle
          /\ UNCHANGED <<dmx, cur, wrote, out, dec, eos_received, syn, ring,
             rec, started, last_frame, main, thread_quit, quit_thread>>
      BY <3>1
    <3>3. TypeOut' /\ TypeDecoder' /\ TypeRing' /\ DecoderHas' /\ PollSaw' /\
        HasBuffer' /\ EosAtEnd' /\ ShowHas' /\ OneChange' /\ ChangePending' /\
        FirstChange' /\ ChangeHandled'
      BY <3>2 DEF TypeOut, TypeDecoder, TypeRing, DecoderHas, PollSaw,
        HasBuffer, EosAtEnd, ShowHas, OneChange, Seen, Announced,
        ChangePending, Changing, FirstChange, ChangeHandled
    <3>4. TypeDriver'
      <4>0. drv.capq \in Seq(Frame) BY DEF TypeDriver, DriverRec
      <4>1. drv'.capq \in Seq(Frame) 
        <5>1. Append(drv.capq, Head(disp.cb)) \in Seq(Frame)
          BY <3>1, <4>0, AppendNonEmpty
        <5>2. drv'.capq \in {drv.capq, Append(drv.capq, Head(disp.cb))} BY <3>1
        <5>3. QED BY <4>0, <5>1, <5>2
      <4>2. drv' = [outq |-> drv.outq, outd |-> drv.outd, capq |-> drv'.capq,
                    capd |-> drv.capd, ev |-> drv.ev, st |-> drv.st,
                    stop |-> drv.stop]
        BY <3>1
      <4>3. QED BY <4>1, <4>2 DEF TypeDriver, DriverRec
    <3>5. TypeCapture'
      <4>1. lock' \in Frame \cup {None} /\ cap'.alive \subseteq Frame
        BY <3>1 DEF TypeCapture, CaptureRec
      <4>2. QED BY <3>1, <4>1 DEF TypeCapture, CaptureRec
    <3>6. TypeShow'
      <4>1. disp'.cb \in Seq(Frame)
        <5>1. disp'.cb = Tail(disp.cb) /\ disp.cb # <<>> BY <3>1
        <5>2. QED BY <5>1 DEF TypeShow, DisplayRec
      <4>2. /\ disp' = [pc |-> disp.pc, f |-> disp.f, cb |-> disp'.cb, n |-> disp.n,
                        flag |-> disp'.flag]
            /\ disp'.flag \in BOOLEAN /\ syn' = syn
        BY <3>1
      <4>3. QED BY <4>1, <4>2 DEF TypeShow, DisplayRec
    <3>7. Unstarted' BY <3>1 DEF Unstarted
    <3>8. LockHeld' BY <3>1 DEF LockHeld
    <3>9. QED BY <3>2, <3>3, <3>4, <3>5, <3>6, <3>7, <3>8
  <2>32. CASE DispFlag
    <3>1. /\ cap' = [gen |-> cap.gen, queued |-> cap.queued \cup {lock}, recycle |->
             cap.recycle, alive |-> cap.alive]
          /\ lock' = None
          /\ disp' = [pc |-> disp.pc, f |-> disp.f, cb |-> disp.cb, n |->
             disp.n, flag |-> FALSE]
          /\ disp.flag
          /\ UNCHANGED <<dmx, cur, wrote, out, drv, dec, eos_received, syn,
             ring, rec, started, last_frame, main, thread_quit, quit_thread,
             parked, fault>>
      BY <2>32 DEF TypeCapture, CaptureRec, TypeShow, DisplayRec, DispFlag,
        shown, RecycleFlag
    <3>2. TypeOut' /\ TypeDriver' /\ TypeDecoder' /\ TypeRing' /\ DecoderHas'
        /\ PollSaw' /\ HasBuffer' /\ EosAtEnd' /\ ShowHas' /\ OneChange' /\
        ChangePending' /\ FirstChange' /\ ChangeHandled'
      BY <3>1 DEF TypeOut, TypeDriver, TypeDecoder, TypeRing, DecoderHas,
        PollSaw, HasBuffer, EosAtEnd, ShowHas, OneChange, Seen, Announced,
        ChangePending, Changing, FirstChange, ChangeHandled
    <3>3. TypeCapture' BY <3>1 DEF TypeCapture, CaptureRec, LockHeld
    <3>4. TypeShow' BY <3>1 DEF TypeShow, SyncRec, DisplayRec
    <3>5. Unstarted' BY <3>1 DEF Unstarted
    <3>6. LockHeld' BY <3>1 DEF LockHeld
    <3>7. QED BY <3>2, <3>3, <3>4, <3>5, <3>6
  <2>33. CASE av_sync_pop_frame
    <3>1. /\ disp.pc = "pop" /\ started
          /\ disp.cb = <<>> /\ ~disp.flag
          /\ UNCHANGED <<dmx, cur, wrote, out, drv, dec, cap, eos_received,
             lock, ring, rec, started, main, thread_quit, quit_thread>>
      BY <2>33 DEF av_sync_pop_frame, dispIdle, MinOf
    <3>2. TypeOut' /\ TypeDriver' /\ TypeDecoder' /\ TypeCapture' /\ TypeRing'
        /\ DecoderHas' /\ PollSaw' /\ HasBuffer' /\ OneChange' /\
        ChangePending' /\ FirstChange' /\ ChangeHandled'
      BY <3>1 DEF TypeOut, TypeDriver, TypeDecoder, TypeCapture, TypeRing,
        DecoderHas, PollSaw, HasBuffer, OneChange, Seen, Announced,
        ChangePending, Changing, FirstChange, ChangeHandled
    <3>3. TypeShow'
      <4>1. PICK k \in {1, 2} :
              /\ k <= Len(syn.q) /\ syn' = [q |-> syn'.q, shown |-> syn.q[k]]
              /\ syn'.shown = syn.q[k] /\ syn.q[k] \in Frame \cup {Eos}
              /\ syn'.q \in Seq(Frame \cup {Eos}) /\ Len(syn'.q) = Len(syn.q) - k
              /\ \A i \in 1..Len(syn'.q) : syn'.q[i] = syn.q[i + k]
              /\ disp' = [pc |-> IF syn.q[k] = Eos THEN "end" ELSE "flip",
                          f |-> disp.f, cb |-> disp'.cb, n |-> disp.n,
                          flag |-> disp.flag]
              /\ Len(disp'.cb) = k - 1 /\ disp'.cb \in Seq({syn.q[1]})
        BY <2>33, PopOutcome
      <4>2. syn.q \in Seq(Frame \cup {Eos}) /\ Len(syn.q) \in Nat
        BY DEF TypeShow, SyncRec
      <4>3. syn'.shown = syn.q[k] /\ syn.q[k] \in Frame \cup {Eos}
        BY <4>1
      <4>4. disp'.cb \in Seq(Frame)
        <5>1. CASE k = 1 BY <4>1, <5>1
        <5>2. CASE k = 2
          <6>1. syn.q[1] \in Frame
            <7>1. syn.q[1] \in Frame \cup {Eos} /\ 1 \in 1..Len(syn.q)
              BY <4>1, <4>2, <5>2
            <7>2. 1 # Len(syn.q) BY <4>1, <4>2, <5>2
            <7>3. QED BY <7>1, <7>2 DEF EosAtEnd
          <6>2. QED BY <4>1, <6>1
        <5>3. QED BY <5>1, <5>2
      <4>5. syn' \in SyncRec
        <5>1. syn' = [q |-> syn'.q, shown |-> syn'.shown] BY <4>1, <4>3
        <5>2. QED BY <4>1, <4>3, <5>1 DEF SyncRec
      <4>6. disp' \in DisplayRec
        <5>1. /\ disp' = [pc |-> disp'.pc, f |-> disp.f, cb |-> disp'.cb,
                          n |-> disp.n, flag |-> disp.flag]
              /\ disp'.pc \in {"end", "flip"}
          BY <4>1
        <5>2. QED BY <4>4, <5>1 DEF TypeShow, DisplayRec
      <4>7. QED BY <4>5, <4>6 DEF TypeShow
    <3>4. Unstarted'
      BY <3>1 DEF Unstarted
    <3>5. LockHeld'
      <4>1. PICK k \in {1, 2} :
              /\ k <= Len(syn.q) /\ syn' = [q |-> syn'.q, shown |-> syn.q[k]]
              /\ syn'.shown = syn.q[k] /\ syn.q[k] \in Frame \cup {Eos}
              /\ syn'.q \in Seq(Frame \cup {Eos}) /\ Len(syn'.q) = Len(syn.q) - k
              /\ \A i \in 1..Len(syn'.q) : syn'.q[i] = syn.q[i + k]
              /\ disp' = [pc |-> IF syn.q[k] = Eos THEN "end" ELSE "flip",
                          f |-> disp.f, cb |-> disp'.cb, n |-> disp.n,
                          flag |-> disp.flag]
              /\ Len(disp'.cb) = k - 1 /\ disp'.cb \in Seq({syn.q[1]})
        BY <2>33, PopOutcome
      <4>2. syn.q \in Seq(Frame \cup {Eos}) /\ Len(syn.q) \in Nat
        BY DEF TypeShow, SyncRec
      <4>3. syn'.shown = syn.q[k] /\ syn.q[k] \in Frame \cup {Eos}
        BY <4>1
      <4>4. QED BY <3>1, <4>1 DEF LockHeld
    <3>6. EosAtEnd'
      <4>1. PICK k \in {1, 2} :
              /\ k <= Len(syn.q) /\ syn' = [q |-> syn'.q, shown |-> syn.q[k]]
              /\ syn'.shown = syn.q[k] /\ syn.q[k] \in Frame \cup {Eos}
              /\ syn'.q \in Seq(Frame \cup {Eos}) /\ Len(syn'.q) = Len(syn.q) - k
              /\ \A i \in 1..Len(syn'.q) : syn'.q[i] = syn.q[i + k]
              /\ disp' = [pc |-> IF syn.q[k] = Eos THEN "end" ELSE "flip",
                          f |-> disp.f, cb |-> disp'.cb, n |-> disp.n,
                          flag |-> disp.flag]
              /\ Len(disp'.cb) = k - 1 /\ disp'.cb \in Seq({syn.q[1]})
        BY <2>33, PopOutcome
      <4>2. syn.q \in Seq(Frame \cup {Eos}) /\ Len(syn.q) \in Nat
        BY DEF TypeShow, SyncRec
      <4>3. syn'.shown = syn.q[k] /\ syn.q[k] \in Frame \cup {Eos}
        BY <4>1
      <4>4. ASSUME NEW i \in 1..Len(syn'.q), syn'.q[i] = Eos
            PROVE  i = Len(syn'.q) /\ dec.pc \in {"eos", "wait", "off", "done"}
        <5>0. Len(syn'.q) = Len(syn.q) - k /\ syn'.q[i] = syn.q[i + k]
          BY <4>1
        <5>1. i + k \in 1..Len(syn.q) /\ syn.q[i + k] = Eos
          BY <4>2, <4>4, <5>0
        <5>2. i + k = Len(syn.q) /\ dec.pc \in {"eos", "wait", "off", "done"}
          BY <5>1 DEF EosAtEnd
        <5>3. QED BY <4>2, <5>0, <5>2
      <4>5. QED BY <3>1, <4>4 DEF EosAtEnd
    <3>7. ShowHas'
      <4>1. PICK k \in {1, 2} :
              /\ k <= Len(syn.q) /\ syn' = [q |-> syn'.q, shown |-> syn.q[k]]
              /\ syn'.shown = syn.q[k] /\ syn.q[k] \in Frame \cup {Eos}
              /\ syn'.q \in Seq(Frame \cup {Eos}) /\ Len(syn'.q) = Len(syn.q) - k
              /\ \A i \in 1..Len(syn'.q) : syn'.q[i] = syn.q[i + k]
              /\ disp' = [pc |-> IF syn.q[k] = Eos THEN "end" ELSE "flip",
                          f |-> disp.f, cb |-> disp'.cb, n |-> disp.n,
                          flag |-> disp.flag]
              /\ Len(disp'.cb) = k - 1 /\ disp'.cb \in Seq({syn.q[1]})
        BY <2>33, PopOutcome
      <4>2. syn.q \in Seq(Frame \cup {Eos}) /\ Len(syn.q) \in Nat
        BY DEF TypeShow, SyncRec
      <4>3. syn'.shown = syn.q[k] /\ syn.q[k] \in Frame \cup {Eos}
        BY <4>1
      <4>4. QED BY <3>1, <4>1, <4>3 DEF ShowHas
    <3>8. QED BY <3>2, <3>3, <3>4, <3>5, <3>6, <3>7
  <2>34. CASE PopAgain
    <3>1. /\ disp' = [pc |-> "flip", f |-> disp.f, cb |-> disp.cb, n |-> disp.n, flag |->
             disp.flag]
          /\ disp.pc = "pop" /\ disp.cb = <<>> /\ ~disp.flag
          /\ syn.shown \notin {disp.f, None, Eos}
          /\ UNCHANGED <<dmx, cur, wrote, out, drv, dec, cap, eos_received,
             lock, syn, ring, rec, started, last_frame, main, thread_quit,
             quit_thread, parked, fault>>
      BY <2>34 DEF TypeShow, DisplayRec, PopAgain, shown, dispIdle
    <3>2. TypeOut' /\ TypeDriver' /\ TypeDecoder' /\ TypeCapture' /\ TypeRing'
        /\ DecoderHas' /\ PollSaw' /\ HasBuffer' /\ LockHeld' /\ EosAtEnd' /\
        OneChange' /\ ChangePending' /\ FirstChange' /\ ChangeHandled'
      BY <3>1 DEF TypeOut, TypeDriver, TypeDecoder, TypeCapture, TypeRing,
        DecoderHas, PollSaw, HasBuffer, LockHeld, EosAtEnd, OneChange, Seen,
        Announced, ChangePending, Changing, FirstChange, ChangeHandled
    <3>3. TypeShow' BY <3>1 DEF TypeShow, SyncRec, DisplayRec
    <3>4. Unstarted' BY <3>1 DEF Unstarted
    <3>5. ShowHas' BY <3>1 DEF ShowHas, TypeShow, SyncRec
    <3>6. QED BY <3>2, <3>3, <3>4, <3>5
  <2>35. CASE FlipFail
    <3>1. /\ disp' = [pc |-> "pop", f |-> disp.f, cb |-> disp.cb, n |-> disp.n, flag |->
             disp.flag]
          /\ disp.pc = "flip" /\ disp.cb = <<>> /\ ~disp.flag
          /\ UNCHANGED <<dmx, cur, wrote, out, drv, dec, cap, eos_received,
             lock, syn, ring, rec, started, last_frame, main, thread_quit,
             quit_thread, parked, fault>>
      BY <2>35 DEF TypeShow, DisplayRec, FlipFail, shown, dispIdle
    <3>2. TypeOut' /\ TypeDriver' /\ TypeDecoder' /\ TypeCapture' /\ TypeRing'
        /\ DecoderHas' /\ PollSaw' /\ HasBuffer' /\ LockHeld' /\ EosAtEnd' /\
        OneChange' /\ ChangePending' /\ FirstChange' /\ ChangeHandled'
      BY <3>1 DEF TypeOut, TypeDriver, TypeDecoder, TypeCapture, TypeRing,
        DecoderHas, PollSaw, HasBuffer, LockHeld, EosAtEnd, OneChange, Seen,
        Announced, ChangePending, Changing, FirstChange, ChangeHandled
    <3>3. TypeShow' BY <3>1 DEF TypeShow, SyncRec, DisplayRec
    <3>4. Unstarted' BY <3>1 DEF Unstarted
    <3>5. ShowHas' BY <3>1 DEF ShowHas
    <3>6. QED BY <3>2, <3>3, <3>4, <3>5
  <2>36. CASE Flip
    <3>1. /\ disp' = [pc |-> disp'.pc, f |-> syn.shown, cb |-> disp'.cb, n |-> disp'.n, flag
             |-> disp.flag]
          /\ ring' = [slot |-> ring'.slot, ri |-> ring.ri, wi |-> ring'.wi, n
             |-> ring.n]
          /\ disp.pc = "flip" /\ disp.cb = <<>> /\ ~disp.flag
          /\ \/ /\ disp.f = None /\ ring' = ring /\ disp'.pc = "pop"
                /\ disp'.cb = <<>> /\ disp'.n = disp.n
             \/ /\ disp.f # None /\ ring.n = RingLen /\ ring' = ring
                /\ disp'.pc = "pop" /\ disp'.cb = <<disp.f>> /\ disp'.n = disp.n
             \/ /\ disp.f # None /\ ring.n # RingLen
                /\ disp'.pc = "inc" /\ disp'.cb = <<>> /\ disp'.n = ring.n
                /\ ring'.slot = [ring.slot EXCEPT ![ring.wi] = disp.f]
                /\ ring'.wi = (ring.wi + 1) % RingLen
          /\ UNCHANGED <<dmx, cur, wrote, out, drv, dec, cap, eos_received,
             lock, syn, rec, started, last_frame, main, thread_quit,
             quit_thread, parked, fault>>
      BY <2>36 DEF TypeShow, DisplayRec, TypeRing, RingRec, Flip, shown,
        dispIdle, RingFull, Replaced
    <3>2. /\ disp'.flag = disp.flag
          /\ ring'.ri = ring.ri /\ ring'.n = ring.n
          /\ UNCHANGED <<dmx, cur, wrote, out, drv, dec, cap, eos_received,
             lock, syn, rec, started, last_frame, main, thread_quit,
             quit_thread, parked, fault>>
      BY <3>1
    <3>3. TypeOut' /\ TypeDriver' /\ TypeDecoder' /\ TypeCapture' /\
        DecoderHas' /\ PollSaw' /\ HasBuffer' /\ LockHeld' /\ EosAtEnd' /\
        OneChange' /\ ChangePending' /\ FirstChange' /\ ChangeHandled'
      BY <3>2 DEF TypeOut, TypeDriver, TypeDecoder, TypeCapture, DecoderHas,
        PollSaw, HasBuffer, LockHeld, EosAtEnd, OneChange, Seen, Announced,
        ChangePending, Changing, FirstChange, ChangeHandled
    <3>4. TypeShow'
      <4>1. syn.shown \in Frame BY <3>1 DEF ShowHas
      <4>2. disp'.cb \in Seq(Frame) /\ disp'.n \in 0..RingLen
        <5>1. disp.f # None => <<disp.f>> \in Seq(Frame)
          BY DEF TypeShow, DisplayRec
        <5>2. disp.n \in 0..RingLen /\ ring.n \in 0..RingLen /\ <<>> \in Seq(Frame)
          BY DEF TypeShow, DisplayRec, TypeRing, RingRec
        <5>3. QED BY <3>1, <5>1, <5>2
      <4>3. QED BY <3>1, <4>1, <4>2 DEF TypeShow, DisplayRec
    <3>5. TypeRing'
      <4>1. ring'.slot \in [0 .. RingLen - 1 -> Frame \cup {None}]
        BY <3>1 DEF TypeRing, RingRec, TypeShow, DisplayRec
      <4>2. ring'.wi \in 0 .. RingLen - 1
        BY <3>1, RingStep DEF TypeRing, RingRec
      <4>3. QED BY <3>1, <4>1, <4>2 DEF TypeRing, RingRec
    <3>6. Unstarted' BY <3>1 DEF Unstarted
    <3>7. ShowHas' BY <3>1 DEF ShowHas, TypeRing, RingRec
    <3>8. QED BY <3>2, <3>3, <3>4, <3>5, <3>6, <3>7
  <2>37. CASE RingInc
    <3>1. /\ disp' = [pc |-> "pop", f |-> disp.f, cb |-> disp.cb, n |-> 0, flag |->
             disp.flag]
          /\ ring' = [slot |-> ring.slot, ri |-> ring.ri, wi |-> ring.wi, n |->
             disp.n + 1]
          /\ disp.pc = "inc"
          /\ UNCHANGED <<dmx, cur, wrote, out, drv, dec, cap, eos_received,
             lock, syn, rec, started, last_frame, main, thread_quit,
             quit_thread, parked, fault>>
      BY <2>37 DEF TypeShow, DisplayRec, TypeRing, RingRec, RingInc, shown
    <3>2. TypeOut' /\ TypeDriver' /\ TypeDecoder' /\ TypeCapture' /\
        DecoderHas' /\ PollSaw' /\ HasBuffer' /\ LockHeld' /\ EosAtEnd' /\
        OneChange' /\ ChangePending' /\ FirstChange' /\ ChangeHandled'
      BY <3>1 DEF TypeOut, TypeDriver, TypeDecoder, TypeCapture, DecoderHas,
        PollSaw, HasBuffer, LockHeld, EosAtEnd, OneChange, Seen, Announced,
        ChangePending, Changing, FirstChange, ChangeHandled
    <3>3. TypeShow' BY <3>1 DEF TypeShow, SyncRec, DisplayRec
    <3>4. TypeRing' BY <3>1 DEF TypeRing, RecycleRec, RingRec, ShowHas,
        TypeShow, DisplayRec
    <3>5. Unstarted' BY <3>1 DEF Unstarted
    <3>6. ShowHas' BY <3>1 DEF ShowHas
    <3>7. QED BY <3>2, <3>3, <3>4, <3>5, <3>6
  <2>38. CASE VblankFail
    <3>1. /\ disp' = [pc |-> "done", f |-> None, cb |-> disp.cb, n |-> disp.n, flag |->
             disp.flag]
          /\ disp.pc = "pop" /\ disp.cb = <<>> /\ ~disp.flag
          /\ UNCHANGED <<dmx, cur, wrote, out, drv, dec, cap, eos_received,
             lock, syn, ring, rec, started, last_frame, main, thread_quit,
             quit_thread>>
      BY <2>38 DEF TypeShow, DisplayRec, VblankFail, shown, dispIdle
    <3>2. TypeOut' /\ TypeDriver' /\ TypeDecoder' /\ TypeCapture' /\ TypeRing'
        /\ DecoderHas' /\ PollSaw' /\ HasBuffer' /\ LockHeld' /\ EosAtEnd' /\
        OneChange' /\ ChangePending' /\ FirstChange' /\ ChangeHandled'
      BY <3>1 DEF TypeOut, TypeDriver, TypeDecoder, TypeCapture, TypeRing,
        DecoderHas, PollSaw, HasBuffer, LockHeld, EosAtEnd, OneChange, Seen,
        Announced, ChangePending, Changing, FirstChange, ChangeHandled
    <3>3. TypeShow' BY <3>1 DEF TypeShow, SyncRec, DisplayRec
    <3>4. Unstarted' BY <3>1 DEF Unstarted
    <3>5. ShowHas' BY <3>1 DEF ShowHas
    <3>6. QED BY <3>2, <3>3, <3>4, <3>5
  <2>39. CASE DispQuit
    <3>1. /\ disp' = [pc |-> "end", f |-> disp.f, cb |-> disp.cb, n |-> disp.n, flag |->
             disp.flag]
          /\ disp.pc = "pop" /\ disp.cb = <<>> /\ ~disp.flag
          /\ UNCHANGED <<dmx, cur, wrote, out, drv, dec, cap, eos_received,
             lock, syn, ring, rec, started, last_frame, main, thread_quit,
             quit_thread, parked, fault>>
      BY <2>39 DEF TypeShow, DisplayRec, DispQuit, shown, dispIdle
    <3>2. TypeOut' /\ TypeDriver' /\ TypeDecoder' /\ TypeCapture' /\ TypeRing'
        /\ DecoderHas' /\ PollSaw' /\ HasBuffer' /\ LockHeld' /\ EosAtEnd' /\
        OneChange' /\ ChangePending' /\ FirstChange' /\ ChangeHandled'
      BY <3>1 DEF TypeOut, TypeDriver, TypeDecoder, TypeCapture, TypeRing,
        DecoderHas, PollSaw, HasBuffer, LockHeld, EosAtEnd, OneChange, Seen,
        Announced, ChangePending, Changing, FirstChange, ChangeHandled
    <3>3. TypeShow' BY <3>1 DEF TypeShow, SyncRec, DisplayRec
    <3>4. Unstarted' BY <3>1 DEF Unstarted
    <3>5. ShowHas' BY <3>1 DEF ShowHas
    <3>6. QED BY <3>2, <3>3, <3>4, <3>5
  <2>40. CASE DispEnd
    <3>1. /\ disp' = [pc |-> "done", f |-> None, cb |-> IF disp.f = None THEN <<>> ELSE
             <<disp.f>>, n |-> disp.n, flag |-> disp.flag]
          /\ disp.pc = "end" /\ disp.cb = <<>> /\ ~disp.flag
          /\ UNCHANGED <<dmx, cur, wrote, out, drv, dec, cap, eos_received,
             lock, syn, ring, rec, started, last_frame, main, thread_quit,
             quit_thread, parked, fault>>
      BY <2>40 DEF TypeShow, DisplayRec, DispEnd, shown, dispIdle
    <3>2. TypeOut' /\ TypeDriver' /\ TypeDecoder' /\ TypeCapture' /\ TypeRing'
        /\ DecoderHas' /\ PollSaw' /\ HasBuffer' /\ LockHeld' /\ EosAtEnd' /\
        OneChange' /\ ChangePending' /\ FirstChange' /\ ChangeHandled'
      BY <3>1 DEF TypeOut, TypeDriver, TypeDecoder, TypeCapture, TypeRing,
        DecoderHas, PollSaw, HasBuffer, LockHeld, EosAtEnd, OneChange, Seen,
        Announced, ChangePending, Changing, FirstChange, ChangeHandled
    <3>3. TypeShow' BY <3>1 DEF TypeShow, SyncRec, DisplayRec
    <3>4. Unstarted' BY <3>1 DEF Unstarted
    <3>5. ShowHas' BY <3>1 DEF ShowHas
    <3>6. QED BY <3>2, <3>3, <3>4, <3>5
  <2>41. CASE dequeue_frame
    <3>1. /\ ring' = [slot |-> ring.slot, ri |-> (ring.ri + 1) % RingLen, wi |-> ring.wi, n
             |-> ring.n]
          /\ rec' = [pc |-> "dec", f |-> ring.slot[ring.ri], n |-> ring.n]
          /\ rec.pc = "run" /\ ring.n # 0
          /\ UNCHANGED <<dmx, cur, wrote, out, drv, dec, cap, eos_received,
             lock, syn, disp, started, last_frame, main, thread_quit,
             quit_thread, parked, fault>>
      BY <2>41 DEF TypeRing, RingRec, RecycleRec, dequeue_frame, shown
    <3>2. TypeOut' /\ TypeDriver' /\ TypeDecoder' /\ TypeCapture' /\ TypeShow'
        /\ DecoderHas' /\ PollSaw' /\ HasBuffer' /\ EosAtEnd' /\ OneChange' /\
        ChangePending' /\ FirstChange' /\ ChangeHandled'
      BY <3>1 DEF TypeOut, TypeDriver, TypeDecoder, TypeCapture, TypeShow,
        DecoderHas, PollSaw, HasBuffer, EosAtEnd, OneChange, Seen, Announced,
        ChangePending, Changing, FirstChange, ChangeHandled
    <3>3. TypeRing' BY <3>1, RingStep DEF TypeRing, RecycleRec, RingRec
    <3>4. Unstarted' BY <3>1 DEF Unstarted
    <3>5. LockHeld' BY <3>1 DEF LockHeld
    <3>6. ShowHas' BY <3>1 DEF ShowHas, TypeRing, RingRec
    <3>7. QED BY <3>2, <3>3, <3>4, <3>5, <3>6
  <2>42. CASE RingDec
    <3>1. /\ ring' = [slot |-> ring.slot, ri |-> ring.ri, wi |-> ring.wi, n |-> rec.n - 1]
          /\ rec' = [pc |-> IF rec.f = None THEN "run" ELSE "fence", f |->
             rec.f, n |-> 0]
          /\ rec.pc = "dec"
          /\ UNCHANGED <<dmx, cur, wrote, out, drv, dec, cap, eos_received,
             lock, syn, disp, started, last_frame, main, thread_quit,
             quit_thread, parked, fault>>
      BY <2>42 DEF TypeRing, RingRec, RecycleRec, RingDec, shown
    <3>2. TypeOut' /\ TypeDriver' /\ TypeDecoder' /\ TypeCapture' /\ TypeShow'
        /\ DecoderHas' /\ PollSaw' /\ HasBuffer' /\ EosAtEnd' /\ OneChange' /\
        ChangePending' /\ FirstChange' /\ ChangeHandled'
      BY <3>1 DEF TypeOut, TypeDriver, TypeDecoder, TypeCapture, TypeShow,
        DecoderHas, PollSaw, HasBuffer, EosAtEnd, OneChange, Seen, Announced,
        ChangePending, Changing, FirstChange, ChangeHandled
    <3>3. TypeRing' BY <3>1 DEF TypeRing, RecycleRec, RingRec, ShowHas,
        TypeShow, DisplayRec
    <3>4. Unstarted' BY <3>1 DEF Unstarted
    <3>5. LockHeld' BY <3>1 DEF LockHeld
    <3>6. ShowHas' BY <3>1 DEF ShowHas, TypeRing, RecycleRec
    <3>7. QED BY <3>2, <3>3, <3>4, <3>5, <3>6
  <2>43. CASE RecRecycle
    <3>1. /\ drv' = [outq |-> drv.outq, outd |-> drv.outd, capq |-> drv'.capq, capd |->
             drv.capd, ev |-> drv.ev, st |-> drv.st, stop |-> drv.stop]
          /\ cap' = [gen |-> cap.gen, queued |-> cap.queued, recycle |->
             cap.recycle, alive |-> cap'.alive]
          /\ rec' = [pc |-> IF lock' # None THEN "flag" ELSE "run", f |-> None,
             n |-> rec.n]
          /\ rec.pc = "fence"
          /\ lock = None /\ lock' \in {None, rec.f}
          /\ (lock' = None /\ drv'.capq = drv.capq) \/ (lock' = rec.f /\
             drv'.capq = Append(drv.capq, rec.f))
          /\ cap'.alive \in {cap.alive, cap.alive \ {rec.f}}
          /\ rec.f \in Frame
          /\ UNCHANGED <<dmx, cur, wrote, out, dec, eos_received, syn, disp,
             ring, started, last_frame, main, thread_quit, quit_thread>>
      <4>1. rec.f \in Frame
        BY <2>43, FrameFacts DEF RecRecycle, ShowHas
      <4>2. Recycle(rec.f) BY <2>43 DEF RecRecycle
      <4>3. lock' \in {None, rec.f} /\ lock = None BY <4>1, <4>2, RecycleOutcome
      <4>4. drv' = [outq |-> drv.outq, outd |-> drv.outd, capq |-> drv'.capq,
                    capd |-> drv.capd, ev |-> drv.ev, st |-> drv.st,
                    stop |-> drv.stop]
        BY <4>1, <4>2, RecycleOutcome DEF TypeDriver, DriverRec
      <4>5. \/ lock' = None /\ drv'.capq = drv.capq
            \/ lock' = rec.f /\ drv'.capq = Append(drv.capq, rec.f)
        BY <4>1, <4>2, RecycleOutcome
      <4>6. /\ cap' = [gen |-> cap.gen, queued |-> cap.queued,
                       recycle |-> cap.recycle, alive |-> cap'.alive]
            /\ cap'.alive \in {cap.alive, cap.alive \ {rec.f}}
        BY <4>1, <4>2, RecycleOutcome DEF TypeCapture, CaptureRec
      <4>7. QED
        BY <2>43, <4>1, <4>3, <4>4, <4>5, <4>6 DEF RecRecycle, shown, TypeRing,
          RecycleRec
    <3>2. /\ drv'.outq = drv.outq /\ drv'.outd = drv.outd /\ drv'.capd = drv.capd /\ drv'.ev
             = drv.ev /\ drv'.st = drv.st /\ drv'.stop = drv.stop
          /\ cap'.gen = cap.gen /\ cap'.queued = cap.queued /\ cap'.recycle =
             cap.recycle
          /\ rec'.n = rec.n
          /\ UNCHANGED <<dmx, cur, wrote, out, dec, eos_received, syn, disp,
             ring, started, last_frame, main, thread_quit, quit_thread>>
      BY <3>1
    <3>3. TypeOut' /\ TypeDecoder' /\ TypeShow' /\ DecoderHas' /\ PollSaw' /\
        HasBuffer' /\ EosAtEnd' /\ OneChange' /\ ChangePending' /\ FirstChange'
        /\ ChangeHandled'
      BY <3>2 DEF TypeOut, TypeDecoder, TypeShow, DecoderHas, PollSaw,
        HasBuffer, EosAtEnd, OneChange, Seen, Announced, ChangePending,
        Changing, FirstChange, ChangeHandled
    <3>4. TypeDriver'
      <4>0. drv.capq \in Seq(Frame) BY DEF TypeDriver, DriverRec
      <4>1. drv'.capq \in Seq(Frame) 
        <5>1. Append(drv.capq, rec.f) \in Seq(Frame)
          BY <3>1, <4>0, AppendNonEmpty
        <5>2. drv'.capq \in {drv.capq, Append(drv.capq, rec.f)} BY <3>1
        <5>3. QED BY <4>0, <5>1, <5>2
      <4>2. drv' = [outq |-> drv.outq, outd |-> drv.outd, capq |-> drv'.capq,
                    capd |-> drv.capd, ev |-> drv.ev, st |-> drv.st,
                    stop |-> drv.stop]
        BY <3>1
      <4>3. QED BY <4>1, <4>2 DEF TypeDriver, DriverRec
    <3>5. TypeCapture'
      <4>1. lock' \in Frame \cup {None} /\ cap'.alive \subseteq Frame
        BY <3>1 DEF TypeCapture, CaptureRec
      <4>2. QED BY <3>1, <4>1 DEF TypeCapture, CaptureRec
    <3>6. TypeRing' BY <3>1 DEF TypeRing, RecycleRec, RingRec
    <3>7. Unstarted' BY <3>1 DEF Unstarted
    <3>8. LockHeld' BY <3>1 DEF LockHeld
    <3>9. ShowHas' BY <3>1 DEF ShowHas
    <3>10. QED BY <3>2, <3>3, <3>4, <3>5, <3>6, <3>7, <3>8, <3>9
  <2>44. CASE RecFlag
    <3>1. /\ cap' = [gen |-> cap.gen, queued |-> cap.queued \cup {lock}, recycle |->
             cap.recycle, alive |-> cap.alive]
          /\ lock' = None
          /\ rec' = [pc |-> "run", f |-> rec.f, n |-> rec.n]
          /\ rec.pc = "flag"
          /\ UNCHANGED <<dmx, cur, wrote, out, drv, dec, eos_received, syn,
             disp, ring, started, last_frame, main, thread_quit, quit_thread,
             parked, fault>>
      BY <2>44 DEF TypeCapture, CaptureRec, TypeRing, RecycleRec, RecFlag,
        shown, RecycleFlag
    <3>2. TypeOut' /\ TypeDriver' /\ TypeDecoder' /\ TypeShow' /\ DecoderHas'
        /\ PollSaw' /\ HasBuffer' /\ EosAtEnd' /\ OneChange' /\ ChangePending'
        /\ FirstChange' /\ ChangeHandled'
      BY <3>1 DEF TypeOut, TypeDriver, TypeDecoder, TypeShow, DecoderHas,
        PollSaw, HasBuffer, EosAtEnd, OneChange, Seen, Announced,
        ChangePending, Changing, FirstChange, ChangeHandled
    <3>3. TypeCapture' BY <3>1 DEF TypeCapture, CaptureRec, LockHeld
    <3>4. TypeRing' BY <3>1 DEF TypeRing, RecycleRec, RingRec
    <3>5. Unstarted' BY <3>1 DEF Unstarted
    <3>6. LockHeld' BY <3>1 DEF LockHeld
    <3>7. ShowHas' BY <3>1 DEF ShowHas
    <3>8. QED BY <3>2, <3>3, <3>4, <3>5, <3>6, <3>7
  <2>45. CASE RecQuit
    <3>1. /\ rec' = [pc |-> "done", f |-> rec.f, n |-> rec.n]
          /\ rec.pc = "run"
          /\ UNCHANGED <<dmx, cur, wrote, out, drv, dec, cap, eos_received,
             lock, syn, disp, ring, started, last_frame, main, thread_quit,
             quit_thread, parked, fault>>
      BY <2>45 DEF TypeRing, RecycleRec, RecQuit, shown
    <3>2. TypeOut' /\ TypeDriver' /\ TypeDecoder' /\ TypeCapture' /\ TypeShow'
        /\ DecoderHas' /\ PollSaw' /\ HasBuffer' /\ EosAtEnd' /\ OneChange' /\
        ChangePending' /\ FirstChange' /\ ChangeHandled'
      BY <3>1 DEF TypeOut, TypeDriver, TypeDecoder, TypeCapture, TypeShow,
        DecoderHas, PollSaw, HasBuffer, EosAtEnd, OneChange, Seen, Announced,
        ChangePending, Changing, FirstChange, ChangeHandled
    <3>3. TypeRing' BY <3>1 DEF TypeRing, RecycleRec, RingRec
    <3>4. Unstarted' BY <3>1 DEF Unstarted
    <3>5. LockHeld' BY <3>1 DEF LockHeld
    <3>6. ShowHas' BY <3>1 DEF ShowHas
    <3>7. QED BY <3>2, <3>3, <3>4, <3>5, <3>6
  <2>46. CASE sig_handler
    <3>1. /\ UNCHANGED <<dmx, cur, wrote, out, drv, dec, cap, eos_received, lock, syn, disp,
             ring, rec, started, last_frame, thread_quit, quit_thread, parked,
             fault>>
      BY <2>46 DEF sig_handler, mainOnly
    <3>2. TypeOut' /\ TypeDriver' /\ TypeDecoder' /\ TypeCapture' /\ TypeShow'
        /\ TypeRing' /\ DecoderHas' /\ PollSaw' /\ HasBuffer' /\ Unstarted' /\
        LockHeld' /\ EosAtEnd' /\ ShowHas' /\ OneChange' /\ ChangePending' /\
        FirstChange' /\ ChangeHandled'
      BY <3>1 DEF TypeOut, TypeDriver, TypeDecoder, TypeCapture, TypeShow,
        TypeRing, DecoderHas, PollSaw, HasBuffer, Unstarted, LockHeld,
        EosAtEnd, ShowHas, OneChange, Seen, Announced, ChangePending, Changing,
        FirstChange, ChangeHandled
    <3>3. QED BY <3>2
  <2>47. CASE MainWakes
    <3>1. /\ thread_quit' = TRUE
          /\ UNCHANGED <<dmx, cur, wrote, out, drv, dec, cap, eos_received,
             lock, syn, disp, ring, rec, started, last_frame, quit_thread,
             parked, fault>>
      BY <2>47 DEF MainWakes, mainOnly
    <3>2. TypeOut' /\ TypeDriver' /\ TypeDecoder' /\ TypeCapture' /\ TypeShow'
        /\ TypeRing' /\ DecoderHas' /\ PollSaw' /\ HasBuffer' /\ Unstarted' /\
        LockHeld' /\ EosAtEnd' /\ ShowHas' /\ OneChange' /\ ChangePending' /\
        FirstChange' /\ ChangeHandled'
      BY <3>1 DEF TypeOut, TypeDriver, TypeDecoder, TypeCapture, TypeShow,
        TypeRing, DecoderHas, PollSaw, HasBuffer, Unstarted, LockHeld,
        EosAtEnd, ShowHas, OneChange, Seen, Announced, ChangePending, Changing,
        FirstChange, ChangeHandled
    <3>3. QED BY <3>2
  <2>48. CASE dmx_destroy
    <3>1. /\ quit_thread' = TRUE
          /\ UNCHANGED <<dmx, cur, wrote, out, drv, dec, cap, eos_received,
             lock, syn, disp, ring, rec, started, last_frame, thread_quit,
             parked, fault>>
      BY <2>48 DEF dmx_destroy, mainOnly
    <3>2. TypeOut' /\ TypeDriver' /\ TypeDecoder' /\ TypeCapture' /\ TypeShow'
        /\ TypeRing' /\ DecoderHas' /\ PollSaw' /\ HasBuffer' /\ Unstarted' /\
        LockHeld' /\ EosAtEnd' /\ ShowHas' /\ OneChange' /\ ChangePending' /\
        FirstChange' /\ ChangeHandled'
      BY <3>1 DEF TypeOut, TypeDriver, TypeDecoder, TypeCapture, TypeShow,
        TypeRing, DecoderHas, PollSaw, HasBuffer, Unstarted, LockHeld,
        EosAtEnd, ShowHas, OneChange, Seen, Announced, ChangePending, Changing,
        FirstChange, ChangeHandled
    <3>3. QED BY <3>2
  <2>49. CASE v4l2_dec_destroy
    <3>1. /\ started' = FALSE
          /\ dec.pc = "done"
          /\ UNCHANGED <<dmx, cur, wrote, out, drv, dec, cap, eos_received,
             lock, syn, disp, ring, rec, last_frame, thread_quit, quit_thread,
             parked, fault>>
      BY <2>49 DEF v4l2_dec_destroy, mainOnly
    <3>2. TypeOut' /\ TypeDriver' /\ TypeDecoder' /\ TypeCapture' /\ TypeShow'
        /\ TypeRing' /\ DecoderHas' /\ PollSaw' /\ HasBuffer' /\ LockHeld' /\
        EosAtEnd' /\ ShowHas' /\ OneChange' /\ ChangePending' /\ FirstChange'
        /\ ChangeHandled'
      BY <3>1 DEF TypeOut, TypeDriver, TypeDecoder, TypeCapture, TypeShow,
        TypeRing, DecoderHas, PollSaw, HasBuffer, LockHeld, EosAtEnd, ShowHas,
        OneChange, Seen, Announced, ChangePending, Changing, FirstChange,
        ChangeHandled
    <3>3. Unstarted' BY <3>1 DEF Unstarted
    <3>4. QED BY <3>2, <3>3
  <2>50. CASE display_engine_stop
    <3>1. /\ UNCHANGED <<dmx, cur, wrote, out, drv, dec, cap, eos_received, lock, syn, disp,
             ring, rec, started, last_frame, thread_quit, quit_thread, parked,
             fault>>
      BY <2>50 DEF display_engine_stop, mainOnly
    <3>2. TypeOut' /\ TypeDriver' /\ TypeDecoder' /\ TypeCapture' /\ TypeShow'
        /\ TypeRing' /\ DecoderHas' /\ PollSaw' /\ HasBuffer' /\ Unstarted' /\
        LockHeld' /\ EosAtEnd' /\ ShowHas' /\ OneChange' /\ ChangePending' /\
        FirstChange' /\ ChangeHandled'
      BY <3>1 DEF TypeOut, TypeDriver, TypeDecoder, TypeCapture, TypeShow,
        TypeRing, DecoderHas, PollSaw, HasBuffer, Unstarted, LockHeld,
        EosAtEnd, ShowHas, OneChange, Seen, Announced, ChangePending, Changing,
        FirstChange, ChangeHandled
    <3>3. QED BY <3>2
  <2>51. CASE UNCHANGED vars
    BY <2>51 DEF vars, TypeOut, TypeDriver, TypeDecoder, TypeCapture, TypeShow,
      TypeRing, DecoderHas, PollSaw, HasBuffer, Unstarted, LockHeld, EosAtEnd,
      ShowHas, OneChange, Seen, Announced, ChangePending, Changing,
      FirstChange, ChangeHandled
  <2>52. QED
    BY <2>1, <2>2, <2>3, <2>4, <2>5, <2>6, <2>7, <2>8, <2>9, <2>10, <2>11,
       <2>12, <2>13, <2>14, <2>15, <2>16, <2>17, <2>18, <2>19, <2>20, <2>21,
       <2>22, <2>23, <2>24, <2>25, <2>26, <2>27, <2>28, <2>29, <2>30, <2>31,
       <2>32, <2>33, <2>34, <2>35, <2>36, <2>37, <2>38, <2>39, <2>40, <2>41,
       <2>42, <2>43, <2>44, <2>45, <2>46, <2>47, <2>48, <2>49, <2>50, <2>51
    DEF Next, Demux, Driver, Decoder, Display, Recycler, Main
<1>3. QED BY <1>1, <1>2, PTL DEF Spec

(* Types, for every number of buffers, whatever fails and races: "used"    *)
(* never leaves the output buffer, and total_num stays within the ring     *)
(* even where queue_frame and dequeue_frame tear it.                       *)
THEOREM TypeCorrect == Spec => []TypeOK
<1>1. BaseInv => TypeOK
  <2> SUFFICES ASSUME BaseInv PROVE TypeOK
    OBVIOUS
  <2>1. TypeOut BY DEF BaseInv
  <2>2. TypeCap
    BY DEF BaseInv, TypeCap, TypeDriver, DriverRec, TypeDecoder, DecoderRec,
      TypeCapture, CaptureRec, Pic
  <2>3. TypeDisplay
    BY DEF BaseInv, TypeDisplay, TypeShow, SyncRec, DisplayRec, TypeRing, RecycleRec,
      RingRec
  <2>4. QED BY <2>1, <2>2, <2>3 DEF TypeOK
<1>2. QED BY <1>1, BaseInvariant, PTL

-----------------------------------------------------------------------------
(***************************************************************************)
(* Output buffers.  A buffer is with the driver, the decoder thread or the *)
(* demuxer; one that is with nobody is empty, and the demuxer's holds what *)
(* it has written.                                                         *)
(***************************************************************************)
DriverHas(i) == \/ \E k \in 1..Len(drv.outq) : drv.outq[k] = i
                \/ \E k \in 1..Len(drv.outd) : drv.outd[k] = i

PacketsQueued ==
  /\ \A i \in OutIdx : DriverHas(i) => out[i].queued
  /\ dec.late # 0 => ~out[dec.late].queued
  /\ dmx.pc = "qbuf" => out[cur].queued

PacketsApart ==
  /\ cur # 0 => ~DriverHas(cur) /\ cur # dec.late
  /\ \A k, l \in 1..Len(drv.outq) : drv.outq[k] = drv.outq[l] => k = l
  /\ \A k, l \in 1..Len(drv.outd) : drv.outd[k] = drv.outd[l] => k = l
  /\ \A k \in 1..Len(drv.outq), l \in 1..Len(drv.outd) :
       drv.outq[k] # drv.outd[l]

BufferFilled ==
  /\ cur # 0 => out[cur].used = wrote
  /\ cur = 0 => wrote = 0
  /\ \A i \in OutIdx : ~out[i].queued /\ i # cur /\ i # dec.late => out[i].used = 0

PacketInv == PacketsQueued /\ PacketsApart /\ BufferFilled

(* PacketInv is inductive where the demuxer does not take a buffer before  *)
(* the decoder thread has reset it.                                        *)
LEMMA PacketInvariant ==
  ASSUME "late_used" \notin Allowed
  PROVE  Spec => []PacketInv
<1>1. Init => PacketInv
  BY DEF Init, PacketInv, PacketsQueued, PacketsApart, BufferFilled, DriverHas, OutIdx
<1>2. BaseInv /\ PacketInv /\ [Next]_vars => PacketInv'
  <2> SUFFICES ASSUME BaseInv, PacketInv, [Next]_vars PROVE PacketInv'
    OBVIOUS
  <2> USE DEF BaseInv, PacketInv
  <2>1. CASE av_read_frame
    <3>1. /\ dmx.pc = "read" /\ dmx.n < MaxPackets
          /\ dmx'.left \in 1..2
          /\ dmx'.pc = "write"
          /\ UNCHANGED <<cur, wrote, out, drv, dec>>
      BY <2>1 DEF TypeOut, av_read_frame, dmxOnly
    <3>2. PacketsApart' /\ BufferFilled'
      BY <3>1 DEF PacketsApart, DriverHas, BufferFilled
    <3>3. PacketsQueued' BY <3>1 DEF PacketsQueued, DriverHas
    <3>4. QED BY <3>2, <3>3
  <2>2. CASE DmxQuit
    <3>1. /\ dmx'.pc = "done"
          /\ UNCHANGED <<cur, wrote, out, drv, dec>>
      BY <2>2 DEF TypeOut, DmxQuit, dmxOnly
    <3>2. PacketsApart' /\ BufferFilled'
      BY <3>1 DEF PacketsApart, DriverHas, BufferFilled
    <3>3. PacketsQueued' BY <3>1 DEF PacketsQueued, DriverHas
    <3>4. QED BY <3>2, <3>3
  <2>3. CASE v4l2_dec_eos
    <3>1. /\ dmx.pc = "read"
          /\ dmx'.pc = "done"
          /\ drv'.outq = drv.outq /\ drv'.outd = drv.outd
          /\ UNCHANGED <<cur, wrote, out, dec>>
      BY <2>3 DEF TypeOut, TypeDriver, DriverRec, v4l2_dec_eos
    <3>2. PacketsApart' /\ BufferFilled'
      BY <3>1 DEF PacketsApart, DriverHas, BufferFilled
    <3>3. PacketsQueued' BY <3>1 DEF PacketsQueued, DriverHas
    <3>4. QED BY <3>2, <3>3
  <2>4. CASE get_free_output_buf
    <3>1. /\ dmx.pc = "write" /\ cur = 0
          /\ cur' \in OutIdx
          /\ UNCHANGED <<dmx, wrote, out, drv, dec>>
      BY <2>4 DEF get_free_output_buf, dmxOnly
    <3>2. PacketsQueued'
      BY <3>1 DEF PacketsQueued, DriverHas
    <3>3. PacketsApart'
      <4>1. cur' \in OutIdx /\ ~out[cur'].queued /\ dec.late # cur'
        BY <2>4 DEF get_free_output_buf, May
      <4>2. ~DriverHas(cur') BY <4>1 DEF PacketsQueued
      <4>3. QED BY <3>1, <4>1, <4>2 DEF PacketsApart, DriverHas
    <3>4. BufferFilled'
      <4>1. cur' \in OutIdx /\ ~out[cur'].queued /\ dec.late # cur'
        BY <2>4 DEF get_free_output_buf, May
      <4>2. out[cur'].used = 0 /\ wrote = 0
        BY <3>1, <4>1 DEF BufferFilled, OutIdx
      <4>3. QED BY <3>1, <4>1, <4>2 DEF BufferFilled, OutIdx
    <3>5. QED BY <3>2, <3>3, <3>4
  <2>5. CASE v4l2_dec_write_es
    <3>1. /\ dmx.pc = "write" /\ dmx.left > 0 /\ cur # 0
          /\ out' = [out EXCEPT ![cur].used = MinOf(out[cur].used + 1, Room)]
          /\ dmx'.pc = dmx.pc
          /\ wrote' = MinOf(wrote + 1, Room)
          /\ UNCHANGED <<cur, drv, dec>>
      BY <2>5 DEF TypeOut, v4l2_dec_write_es, dmxOnly, MinOf
    <3>2. PacketsApart'
      BY <3>1 DEF PacketsApart, DriverHas
    <3>3. PacketsQueued'
      <4>1. cur \in OutIdx BY <3>1 DEF TypeOut, OutIdx
      <4>2. MinOf(out[cur].used + 1, Room) \in 0..Room
        BY <3>1, <4>1 DEF TypeOut, MinOf
      <4>3. /\ out'[cur] = [queued |-> out[cur].queued,
                            used |-> MinOf(out[cur].used + 1, Room)]
            /\ \A j \in OutIdx \ {cur} : out'[j] = out[j]
        BY <3>1, <4>1, <4>2, OutUsed
      <4>4. \A j \in OutIdx : out'[j].queued = out[j].queued BY <4>1, <4>3
      <4>5. dec.late # 0 => dec.late \in OutIdx
        BY DEF TypeDecoder, DecoderRec, OutIdx
      <4>6. QED BY <3>1, <4>1, <4>4, <4>5 DEF PacketsQueued, DriverHas
    <3>4. BufferFilled'
      <4>1. cur \in OutIdx BY <3>1 DEF TypeOut, OutIdx
      <4>2. MinOf(out[cur].used + 1, Room) \in 0..Room
        BY <3>1, <4>1 DEF TypeOut, MinOf
      <4>3. /\ out'[cur] = [queued |-> out[cur].queued,
                            used |-> MinOf(out[cur].used + 1, Room)]
            /\ \A j \in OutIdx \ {cur} : out'[j] = out[j]
        BY <3>1, <4>1, <4>2, OutUsed
      <4>4. out[cur].used = wrote BY <3>1 DEF BufferFilled
      <4>5. QED BY <3>1, <4>1, <4>3, <4>4 DEF BufferFilled
    <3>5. QED BY <3>2, <3>3, <3>4
  <2>6. CASE DropNonKey
    <3>1. /\ dmx.pc = "write" /\ dmx.left = 0
          /\ dmx'.pc = "read"
          /\ UNCHANGED <<cur, wrote, out, drv, dec>>
      BY <2>6 DEF TypeOut, DropNonKey, dmxOnly
    <3>2. PacketsApart' /\ BufferFilled'
      BY <3>1 DEF PacketsApart, DriverHas, BufferFilled
    <3>3. PacketsQueued' BY <3>1 DEF PacketsQueued, DriverHas
    <3>4. QED BY <3>2, <3>3
  <2>7. CASE v4l2_dec_frame_done
    <3>1. /\ dmx.pc = "write" /\ dmx.left = 0
          /\ out' = [out EXCEPT ![cur].queued = TRUE]
          /\ dmx'.pc = "qbuf"
          /\ UNCHANGED <<cur, wrote, drv, dec>>
      BY <2>7 DEF TypeOut, v4l2_dec_frame_done, dmxOnly
    <3>2. PacketsApart'
      BY <3>1 DEF PacketsApart, DriverHas
    <3>3. PacketsQueued'
      <4>1. cur \in OutIdx BY <3>1 DEF TypeOut, OutIdx, HasBuffer
      <4>2. /\ out'[cur] = [queued |-> TRUE, used |-> out[cur].used]
            /\ \A j \in OutIdx \ {cur} : out'[j] = out[j]
        BY <3>1, <4>1, OutQueued
      <4>3. dec.late # 0 => dec.late \in OutIdx
        BY DEF TypeDecoder, DecoderRec, OutIdx
      <4>4. dec.late # cur BY <3>1, <4>1 DEF PacketsApart, OutIdx
      <4>5. QED BY <3>1, <4>1, <4>2, <4>3, <4>4 DEF PacketsQueued, DriverHas
    <3>4. BufferFilled'
      <4>1. cur \in OutIdx BY <3>1 DEF TypeOut, OutIdx, HasBuffer
      <4>2. /\ out'[cur] = [queued |-> TRUE, used |-> out[cur].used]
            /\ \A j \in OutIdx \ {cur} : out'[j] = out[j]
        BY <3>1, <4>1, OutQueued
      <4>3. dec.late # 0 => dec.late \in OutIdx
        BY DEF TypeDecoder, DecoderRec, OutIdx
      <4>4. QED BY <3>1, <4>1, <4>2 DEF BufferFilled
    <3>5. QED BY <3>2, <3>3, <3>4
  <2>8. CASE OutQbuf
    <3>1. /\ dmx.pc = "qbuf"
          /\ dmx'.pc = IF cap.gen = 0 THEN "first" ELSE "read"
          /\ cur' = 0
          /\ wrote' = 0
          /\ drv'.outq = Append(drv.outq, cur)
          /\ drv'.outd = drv.outd
          /\ UNCHANGED <<out, dec>>
      BY <2>8 DEF TypeOut, TypeDriver, DriverRec, OutQbuf
    <3>2. PacketsQueued'
      <4>1. cur \in OutIdx BY <3>1 DEF TypeOut, OutIdx, HasBuffer
      <4>2. \A i \in OutIdx : DriverHas(i)' => DriverHas(i) \/ i = cur
        BY <3>1, <4>1 DEF DriverHas, TypeDriver, DriverRec
      <4>3. QED BY <3>1, <4>1, <4>2 DEF PacketsQueued
    <3>3. PacketsApart'
      <4>1. cur \in OutIdx BY <3>1 DEF TypeOut, OutIdx, HasBuffer
      <4>2. ~DriverHas(cur) BY <3>1, <4>1 DEF PacketsApart, OutIdx
      <4>3. drv.outq \in Seq(OutIdx) /\ drv.outd \in Seq(OutIdx)
        BY DEF TypeDriver, DriverRec
      <4>4. QED BY <3>1, <4>1, <4>2, <4>3 DEF PacketsApart, DriverHas
    <3>4. BufferFilled'
      <4>1. cur \in OutIdx BY <3>1 DEF TypeOut, OutIdx, HasBuffer
      <4>2. QED BY <3>1, <4>1 DEF BufferFilled, PacketsQueued
    <3>5. QED BY <3>2, <3>3, <3>4
  <2>9. CASE OutQbufFail
    <3>1. /\ dmx.pc = "qbuf"
          /\ dmx'.pc = "read"
          /\ UNCHANGED <<cur, wrote, out, drv, dec>>
      BY <2>9 DEF TypeOut, OutQbufFail, dmxOnly
    <3>2. PacketsApart' /\ BufferFilled'
      BY <3>1 DEF PacketsApart, DriverHas, BufferFilled
    <3>3. PacketsQueued' BY <3>1 DEF PacketsQueued, DriverHas
    <3>4. QED BY <3>2, <3>3
  <2>10. CASE handle_first_frame
    <3>1. /\ dmx.pc = "first"
          /\ dmx'.pc = "read"
          /\ drv'.outq = drv.outq /\ drv'.outd = drv.outd
          /\ dec'.late = dec.late
          /\ UNCHANGED <<cur, wrote, out>>
      BY <2>10 DEF TypeOut, TypeDriver, DriverRec, TypeDecoder, DecoderRec,
        handle_first_frame, SetupCapture
    <3>2. PacketsApart' /\ BufferFilled'
      BY <3>1 DEF PacketsApart, DriverHas, BufferFilled
    <3>3. PacketsQueued' BY <3>1 DEF PacketsQueued, DriverHas
    <3>4. QED BY <3>2, <3>3
  <2>11. CASE FirstFrameFatal
    <3>1. /\ dmx'.pc = "stuck"
          /\ UNCHANGED <<cur, wrote, out, drv, dec>>
      BY <2>11 DEF TypeOut, FirstFrameFatal, dmxOnly
    <3>2. PacketsApart' /\ BufferFilled'
      BY <3>1 DEF PacketsApart, DriverHas, BufferFilled
    <3>3. PacketsQueued' BY <3>1 DEF PacketsQueued, DriverHas
    <3>4. QED BY <3>2, <3>3
  <2>12. CASE Decode
    <3>1. /\ drv.st = "run" /\ drv.outq # <<>> /\ drv.capq # <<>>
          /\ drv'.outq = Tail(drv.outq)
          /\ drv'.outd = Append(drv.outd, Head(drv.outq))
          /\ UNCHANGED <<dmx, cur, wrote, out, dec>>
      BY <2>12 DEF TypeDriver, DriverRec, Decode, drvOnly, Picture
    <3>2. BufferFilled'
      BY <3>1 DEF BufferFilled
    <3>3. PacketsQueued'
      <4>1. drv.outq \in Seq(OutIdx) /\ drv.outd \in Seq(OutIdx) /\ drv.outq # <<>>
        BY <3>1 DEF TypeDriver, DriverRec
      <4>2. drv'.outq = Tail(drv.outq) /\ drv'.outd = Append(drv.outd, Head(drv.outq))
        BY <3>1
      <4>3. \A i \in OutIdx : DriverHas(i)' => DriverHas(i)
        BY <4>1, <4>2 DEF DriverHas
      <4>4. QED BY <3>1, <4>3 DEF PacketsQueued
    <3>4. PacketsApart'
      <4>1. drv.outq \in Seq(OutIdx) /\ drv.outd \in Seq(OutIdx) /\ drv.outq # <<>>
        BY <3>1 DEF TypeDriver, DriverRec
      <4>2. drv'.outq = Tail(drv.outq) /\ drv'.outd = Append(drv.outd, Head(drv.outq))
        BY <3>1
      <4>3. \A i \in OutIdx : DriverHas(i)' => DriverHas(i)
        BY <4>1, <4>2 DEF DriverHas
      <4>4. /\ Len(drv.outq) \in Nat \ {0} /\ Len(drv.outd) \in Nat
            /\ Len(drv'.outq) = Len(drv.outq) - 1 /\ Len(drv'.outd) = Len(drv.outd) + 1
            /\ \A k \in 1..Len(drv'.outq) : drv'.outq[k] = drv.outq[k + 1]
            /\ \A k \in 1..Len(drv.outd) : drv'.outd[k] = drv.outd[k]
            /\ drv'.outd[Len(drv.outd) + 1] = drv.outq[1]
        BY <4>1, <4>2
      <4>5. cur # 0 => cur \in OutIdx BY DEF TypeOut, OutIdx
      <4>6. cur # 0 => ~DriverHas(cur)' /\ cur # dec.late
        BY <3>1, <4>3, <4>5 DEF PacketsApart
      <4>7. \A k, l \in 1..Len(drv'.outq) : drv'.outq[k] = drv'.outq[l] => k = l
        <5>1. ASSUME NEW k \in 1..Len(drv'.outq), NEW l \in 1..Len(drv'.outq),
                     drv'.outq[k] = drv'.outq[l]
              PROVE  k = l
          <6>1. k + 1 \in 1..Len(drv.outq) /\ l + 1 \in 1..Len(drv.outq) BY <4>4
          <6>2. drv.outq[k + 1] = drv.outq[l + 1] BY <4>4, <5>1
          <6>3. k + 1 = l + 1 BY <6>1, <6>2 DEF PacketsApart
          <6>4. QED BY <6>3
        <5>2. QED BY <5>1
      <4>8. \A k, l \in 1..Len(drv'.outd) : drv'.outd[k] = drv'.outd[l] => k = l
        <5>1. 1 \in 1..Len(drv.outq) BY <4>4
        <5>2. \A k \in 1..Len(drv.outd) : drv.outq[1] # drv.outd[k]
          BY <5>1 DEF PacketsApart
        <5>3. ASSUME NEW k \in 1..Len(drv'.outd), NEW l \in 1..Len(drv'.outd),
                     drv'.outd[k] = drv'.outd[l], k # l
              PROVE  FALSE
          <6>1. CASE k \in 1..Len(drv.outd) /\ l \in 1..Len(drv.outd)
            BY <4>4, <5>3, <6>1 DEF PacketsApart
          <6>2. CASE k = Len(drv.outd) + 1 /\ l \in 1..Len(drv.outd)
            BY <4>4, <5>2, <5>3, <6>2
          <6>3. CASE l = Len(drv.outd) + 1 /\ k \in 1..Len(drv.outd)
            BY <4>4, <5>2, <5>3, <6>3
          <6>4. QED BY <4>4, <5>3, <6>1, <6>2, <6>3
        <5>4. QED BY <5>3
      <4>9. \A k \in 1..Len(drv'.outq), l \in 1..Len(drv'.outd) :
              drv'.outq[k] # drv'.outd[l]
        <5>1. ASSUME NEW k \in 1..Len(drv'.outq), NEW l \in 1..Len(drv'.outd)
              PROVE  drv'.outq[k] # drv'.outd[l]
          <6>1. k + 1 \in 1..Len(drv.outq) /\ 1 \in 1..Len(drv.outq) /\ k + 1 # 1
            BY <4>4
          <6>2. drv.outq[k + 1] # drv.outq[1] BY <6>1 DEF PacketsApart
          <6>3. CASE l = Len(drv.outd) + 1 BY <4>4, <6>2, <6>3
          <6>4. CASE l \in 1..Len(drv.outd)
            <7>1. drv.outq[k + 1] # drv.outd[l] BY <6>1, <6>4 DEF PacketsApart
            <7>2. QED BY <4>4, <6>4, <7>1
          <6>5. QED BY <4>4, <6>3, <6>4
        <5>2. QED BY <5>1
      <4>10. QED BY <3>1, <4>6, <4>7, <4>8, <4>9 DEF PacketsApart
    <3>5. QED BY <3>2, <3>3, <3>4
  <2>13. CASE FirstResolution
    <3>1. /\ drv'.outq = drv.outq /\ drv'.outd = drv.outd
          /\ UNCHANGED <<dmx, cur, wrote, out, dec>>
      BY <2>13 DEF TypeDriver, DriverRec, FirstResolution, drvOnly
    <3>2. PacketsQueued' /\ PacketsApart' /\ BufferFilled'
      BY <3>1 DEF PacketsQueued, DriverHas, PacketsApart, BufferFilled
    <3>3. QED BY <3>2
  <2>14. CASE NewResolution
    <3>1. /\ drv'.outq = drv.outq /\ drv'.outd = drv.outd
          /\ UNCHANGED <<dmx, cur, wrote, out, dec>>
      BY <2>14 DEF TypeDriver, DriverRec, NewResolution, drvOnly
    <3>2. PacketsQueued' /\ PacketsApart' /\ BufferFilled'
      BY <3>1 DEF PacketsQueued, DriverHas, PacketsApart, BufferFilled
    <3>3. QED BY <3>2
  <2>15. CASE EndOfStream
    <3>1. /\ drv'.outq = drv.outq /\ drv'.outd = drv.outd
          /\ UNCHANGED <<dmx, cur, wrote, out, dec>>
      BY <2>15 DEF TypeDriver, DriverRec, EndOfStream, drvOnly
    <3>2. PacketsQueued' /\ PacketsApart' /\ BufferFilled'
      BY <3>1 DEF PacketsQueued, DriverHas, PacketsApart, BufferFilled
    <3>3. QED BY <3>2
  <2>16. CASE LastPicture
    <3>1. /\ drv'.outq = drv.outq /\ drv'.outd = drv.outd
          /\ UNCHANGED <<dmx, cur, wrote, out, dec>>
      BY <2>16 DEF TypeDriver, DriverRec, LastPicture, drvOnly, Picture
    <3>2. PacketsQueued' /\ PacketsApart' /\ BufferFilled'
      BY <3>1 DEF PacketsQueued, DriverHas, PacketsApart, BufferFilled
    <3>3. QED BY <3>2
  <2>17. CASE Poll
    <3>1. /\ drv'.outq = drv.outq /\ drv'.outd = drv.outd
          /\ dec'.late = dec.late
          /\ UNCHANGED <<dmx, cur, wrote, out>>
      BY <2>17 DEF TypeDriver, DriverRec, TypeDecoder, DecoderRec, Poll,
        decOnly
    <3>2. PacketsQueued' /\ PacketsApart' /\ BufferFilled'
      BY <3>1 DEF PacketsQueued, DriverHas, PacketsApart, BufferFilled
    <3>3. QED BY <3>2
  <2>18. CASE DqOutput
    <3>1. /\ dec.pc = "out"
          /\ out' = [out EXCEPT ![Head(drv.outd)].queued = FALSE]
          /\ drv'.outd = Tail(drv.outd)
          /\ drv'.outq = drv.outq
          /\ dec'.late = Head(drv.outd)
          /\ UNCHANGED <<dmx, cur, wrote>>
      BY <2>18 DEF TypeDriver, DriverRec, TypeDecoder, DecoderRec, DqOutput,
        decOnly
    <3>2. PacketsQueued'
      <4>1. Head(drv.outd) \in OutIdx /\ drv.outd # <<>> /\ drv.outd \in Seq(OutIdx)
        BY <3>1 DEF PollSaw, TypeDriver, DriverRec
      <4>2. /\ out'[Head(drv.outd)] = [queued |-> FALSE,
                                       used |-> out[Head(drv.outd)].used]
            /\ \A j \in OutIdx \ {Head(drv.outd)} : out'[j] = out[j]
        BY <3>1, <4>1, OutQueued
      <4>3. /\ drv'.outq = drv.outq /\ Head(drv.outd) = drv.outd[1]
            /\ Len(drv.outd) \in Nat \ {0} /\ Len(drv'.outd) = Len(drv.outd) - 1
            /\ \A k \in 1..Len(drv'.outd) : drv'.outd[k] = drv.outd[k + 1]
        BY <3>1, <4>1
      <4>4. ASSUME NEW i \in OutIdx, DriverHas(i)'
            PROVE  DriverHas(i) /\ i # Head(drv.outd)
        <5>1. 1 \in 1..Len(drv.outd) BY <4>3
        <5>2. CASE \E k \in 1..Len(drv.outq) : drv.outq[k] = i
          BY <4>3, <5>1, <5>2 DEF DriverHas, PacketsApart
        <5>3. ASSUME NEW k \in 1..Len(drv'.outd), drv'.outd[k] = i
              PROVE  DriverHas(i) /\ i # Head(drv.outd)
          <6>1. k + 1 \in 1..Len(drv.outd) /\ drv.outd[k + 1] = i /\ k + 1 # 1
            BY <4>3, <5>3
          <6>2. drv.outd[k + 1] # drv.outd[1] BY <5>1, <6>1 DEF PacketsApart
          <6>3. QED BY <4>3, <6>1, <6>2 DEF DriverHas
        <5>4. QED BY <4>3, <4>4, <5>2, <5>3 DEF DriverHas
      <4>5. DriverHas(Head(drv.outd))
        BY <4>3 DEF DriverHas
      <4>6. cur # 0 => cur \in OutIdx /\ cur # Head(drv.outd)
        BY <4>5 DEF PacketsApart, TypeOut, OutIdx
      <4>7. dmx.pc = "qbuf" => cur # 0 BY DEF HasBuffer
      <4>8. QED BY <3>1, <4>1, <4>2, <4>4, <4>6, <4>7 DEF PacketsQueued
    <3>3. PacketsApart'
      <4>1. Head(drv.outd) \in OutIdx /\ drv.outd # <<>> /\ drv.outd \in Seq(OutIdx)
        BY <3>1 DEF PollSaw, TypeDriver, DriverRec
      <4>2. /\ out'[Head(drv.outd)] = [queued |-> FALSE,
                                       used |-> out[Head(drv.outd)].used]
            /\ \A j \in OutIdx \ {Head(drv.outd)} : out'[j] = out[j]
        BY <3>1, <4>1, OutQueued
      <4>3. /\ drv'.outq = drv.outq /\ Head(drv.outd) = drv.outd[1]
            /\ Len(drv.outd) \in Nat \ {0} /\ Len(drv'.outd) = Len(drv.outd) - 1
            /\ \A k \in 1..Len(drv'.outd) : drv'.outd[k] = drv.outd[k + 1]
        BY <3>1, <4>1
      <4>4. ASSUME NEW i \in OutIdx, DriverHas(i)'
            PROVE  DriverHas(i) /\ i # Head(drv.outd)
        <5>1. 1 \in 1..Len(drv.outd) BY <4>3
        <5>2. CASE \E k \in 1..Len(drv.outq) : drv.outq[k] = i
          BY <4>3, <5>1, <5>2 DEF DriverHas, PacketsApart
        <5>3. ASSUME NEW k \in 1..Len(drv'.outd), drv'.outd[k] = i
              PROVE  DriverHas(i) /\ i # Head(drv.outd)
          <6>1. k + 1 \in 1..Len(drv.outd) /\ drv.outd[k + 1] = i /\ k + 1 # 1
            BY <4>3, <5>3
          <6>2. drv.outd[k + 1] # drv.outd[1] BY <5>1, <6>1 DEF PacketsApart
          <6>3. QED BY <4>3, <6>1, <6>2 DEF DriverHas
        <5>4. QED BY <4>3, <4>4, <5>2, <5>3 DEF DriverHas
      <4>5. DriverHas(Head(drv.outd))
        BY <4>3 DEF DriverHas
      <4>6. cur # 0 => cur \in OutIdx /\ cur # Head(drv.outd)
        BY <4>5 DEF PacketsApart, TypeOut, OutIdx
      <4>7. cur # 0 => ~DriverHas(cur)' /\ cur # dec'.late
        BY <3>1, <4>4, <4>6 DEF PacketsApart
      <4>8. \A k, l \in 1..Len(drv'.outd) : drv'.outd[k] = drv'.outd[l] => k = l
        <5>1. ASSUME NEW k \in 1..Len(drv'.outd), NEW l \in 1..Len(drv'.outd),
                     drv'.outd[k] = drv'.outd[l]
              PROVE  k = l
          <6>1. k + 1 \in 1..Len(drv.outd) /\ l + 1 \in 1..Len(drv.outd) BY <4>3
          <6>2. drv.outd[k + 1] = drv.outd[l + 1] BY <4>3, <5>1
          <6>3. k + 1 = l + 1 BY <6>1, <6>2 DEF PacketsApart
          <6>4. QED BY <6>3
        <5>2. QED BY <5>1
      <4>9. \A k \in 1..Len(drv'.outq), l \in 1..Len(drv'.outd) :
              drv'.outq[k] # drv'.outd[l]
        <5>1. ASSUME NEW k \in 1..Len(drv.outq), NEW l \in 1..Len(drv'.outd)
              PROVE  drv.outq[k] # drv'.outd[l]
          <6>1. l + 1 \in 1..Len(drv.outd) /\ drv'.outd[l] = drv.outd[l + 1]
            BY <4>3
          <6>2. QED BY <6>1 DEF PacketsApart
        <5>2. QED BY <4>3, <5>1
      <4>10. QED
        BY <3>1, <4>3, <4>7, <4>8, <4>9 DEF PacketsApart
    <3>4. BufferFilled'
      <4>1. Head(drv.outd) \in OutIdx /\ drv.outd # <<>> /\ drv.outd \in Seq(OutIdx)
        BY <3>1 DEF PollSaw, TypeDriver, DriverRec
      <4>2. /\ out'[Head(drv.outd)] = [queued |-> FALSE,
                                       used |-> out[Head(drv.outd)].used]
            /\ \A j \in OutIdx \ {Head(drv.outd)} : out'[j] = out[j]
        BY <3>1, <4>1, OutQueued
      <4>3. /\ drv'.outq = drv.outq /\ Head(drv.outd) = drv.outd[1]
            /\ Len(drv.outd) \in Nat \ {0} /\ Len(drv'.outd) = Len(drv.outd) - 1
            /\ \A k \in 1..Len(drv'.outd) : drv'.outd[k] = drv.outd[k + 1]
        BY <3>1, <4>1
      <4>4. ASSUME NEW i \in OutIdx, DriverHas(i)'
            PROVE  DriverHas(i) /\ i # Head(drv.outd)
        <5>1. 1 \in 1..Len(drv.outd) BY <4>3
        <5>2. CASE \E k \in 1..Len(drv.outq) : drv.outq[k] = i
          BY <4>3, <5>1, <5>2 DEF DriverHas, PacketsApart
        <5>3. ASSUME NEW k \in 1..Len(drv'.outd), drv'.outd[k] = i
              PROVE  DriverHas(i) /\ i # Head(drv.outd)
          <6>1. k + 1 \in 1..Len(drv.outd) /\ drv.outd[k + 1] = i /\ k + 1 # 1
            BY <4>3, <5>3
          <6>2. drv.outd[k + 1] # drv.outd[1] BY <5>1, <6>1 DEF PacketsApart
          <6>3. QED BY <4>3, <6>1, <6>2 DEF DriverHas
        <5>4. QED BY <4>3, <4>4, <5>2, <5>3 DEF DriverHas
      <4>5. DriverHas(Head(drv.outd))
        BY <4>3 DEF DriverHas
      <4>6. cur # 0 => cur \in OutIdx /\ cur # Head(drv.outd)
        BY <4>5 DEF PacketsApart, TypeOut, OutIdx
      <4>7. dec.late = 0 BY <3>1 DEF DecoderHas
      <4>8. \A i \in OutIdx : i # 0 BY DEF OutIdx
      <4>9. QED BY <3>1, <4>1, <4>2, <4>6, <4>7, <4>8 DEF BufferFilled
    <3>5. QED BY <3>2, <3>3, <3>4
  <2>19. CASE ResetUsed
    <3>1. /\ dec.pc = "used"
          /\ out' = [out EXCEPT ![dec.late].used = 0]
          /\ dec'.late = 0
          /\ UNCHANGED <<dmx, cur, wrote, drv>>
      BY <2>19 DEF TypeDecoder, DecoderRec, ResetUsed, decOnly
    <3>2. PacketsQueued'
      <4>1. dec.late \in OutIdx /\ 0 \in 0..Room
        BY <3>1 DEF DecoderHas, TypeDecoder, DecoderRec, OutIdx
      <4>2. /\ out'[dec.late] = [queued |-> out[dec.late].queued, used |-> 0]
            /\ \A j \in OutIdx \ {dec.late} : out'[j] = out[j]
        BY <3>1, <4>1, OutUsed
      <4>3. cur # 0 => cur \in OutIdx /\ cur # dec.late
        BY DEF PacketsApart, TypeOut, OutIdx
      <4>4. dmx.pc = "qbuf" => cur # 0 BY DEF HasBuffer
      <4>5. QED BY <3>1, <4>1, <4>2, <4>3, <4>4 DEF PacketsQueued, DriverHas
    <3>3. PacketsApart'
      <4>1. dec.late \in OutIdx /\ 0 \in 0..Room
        BY <3>1 DEF DecoderHas, TypeDecoder, DecoderRec, OutIdx
      <4>2. /\ out'[dec.late] = [queued |-> out[dec.late].queued, used |-> 0]
            /\ \A j \in OutIdx \ {dec.late} : out'[j] = out[j]
        BY <3>1, <4>1, OutUsed
      <4>3. cur # 0 => cur \in OutIdx /\ cur # dec.late
        BY DEF PacketsApart, TypeOut, OutIdx
      <4>4. QED BY <3>1, <4>3 DEF PacketsApart, DriverHas, OutIdx
    <3>4. BufferFilled'
      <4>1. dec.late \in OutIdx /\ 0 \in 0..Room
        BY <3>1 DEF DecoderHas, TypeDecoder, DecoderRec, OutIdx
      <4>2. /\ out'[dec.late] = [queued |-> out[dec.late].queued, used |-> 0]
            /\ \A j \in OutIdx \ {dec.late} : out'[j] = out[j]
        BY <3>1, <4>1, OutUsed
      <4>3. cur # 0 => cur \in OutIdx /\ cur # dec.late
        BY DEF PacketsApart, TypeOut, OutIdx
      <4>4. QED BY <3>1, <4>1, <4>2, <4>3 DEF BufferFilled
    <3>5. QED BY <3>2, <3>3, <3>4
  <2>20. CASE DqCapture
    <3>1. /\ drv'.outq = drv.outq /\ drv'.outd = drv.outd
          /\ dec'.late = dec.late
          /\ UNCHANGED <<dmx, cur, wrote, out>>
      BY <2>20 DEF TypeDriver, DriverRec, TypeDecoder, DecoderRec, DqCapture,
        decOnly
    <3>2. PacketsQueued' /\ PacketsApart' /\ BufferFilled'
      BY <3>1 DEF PacketsQueued, DriverHas, PacketsApart, BufferFilled
    <3>3. QED BY <3>2
  <2>21. CASE StartDisplay
    <3>1. /\ UNCHANGED <<dmx, cur, wrote, out, drv, dec>>
      BY <2>21 DEF StartDisplay
    <3>2. PacketsQueued' /\ PacketsApart' /\ BufferFilled'
      BY <3>1 DEF PacketsQueued, DriverHas, PacketsApart, BufferFilled
    <3>3. QED BY <3>2
  <2>22. CASE display_engine_show
    <3>1. /\ dec'.late = dec.late
          /\ UNCHANGED <<dmx, cur, wrote, out, drv>>
      BY <2>22 DEF TypeDecoder, DecoderRec, display_engine_show, decOnly
    <3>2. PacketsQueued' /\ PacketsApart' /\ BufferFilled'
      BY <3>1 DEF PacketsQueued, DriverHas, PacketsApart, BufferFilled
    <3>3. QED BY <3>2
  <2>23. CASE EosReceived
    <3>1. /\ dec'.late = dec.late
          /\ UNCHANGED <<dmx, cur, wrote, out, drv>>
      BY <2>23 DEF TypeDecoder, DecoderRec, EosReceived, decOnly
    <3>2. PacketsQueued' /\ PacketsApart' /\ BufferFilled'
      BY <3>1 DEF PacketsQueued, DriverHas, PacketsApart, BufferFilled
    <3>3. QED BY <3>2
  <2>24. CASE display_wait_for_display
    <3>1. /\ dec'.late = dec.late
          /\ UNCHANGED <<dmx, cur, wrote, out, drv>>
      BY <2>24 DEF TypeDecoder, DecoderRec, display_wait_for_display, decOnly
    <3>2. PacketsQueued' /\ PacketsApart' /\ BufferFilled'
      BY <3>1 DEF PacketsQueued, DriverHas, PacketsApart, BufferFilled
    <3>3. QED BY <3>2
  <2>25. CASE ResStreamOff
    <3>1. /\ drv'.outq = drv.outq /\ drv'.outd = drv.outd
          /\ dec'.late = dec.late
          /\ UNCHANGED <<dmx, cur, wrote, out>>
      BY <2>25 DEF TypeDriver, DriverRec, TypeDecoder, DecoderRec,
        ResStreamOff, decOnly
    <3>2. PacketsQueued' /\ PacketsApart' /\ BufferFilled'
      BY <3>1 DEF PacketsQueued, DriverHas, PacketsApart, BufferFilled
    <3>3. QED BY <3>2
  <2>26. CASE ResFree
    <3>1. /\ drv'.outq = drv.outq /\ drv'.outd = drv.outd
          /\ dec'.late = dec.late
          /\ UNCHANGED <<dmx, cur, wrote, out>>
      BY <2>26 DEF TypeDriver, DriverRec, TypeDecoder, DecoderRec, ResFree,
        decOnly, Freed
    <3>2. PacketsQueued' /\ PacketsApart' /\ BufferFilled'
      BY <3>1 DEF PacketsQueued, DriverHas, PacketsApart, BufferFilled
    <3>3. QED BY <3>2
  <2>27. CASE ResSetup
    <3>1. /\ drv'.outq = drv.outq /\ drv'.outd = drv.outd
          /\ dec'.late = dec.late
          /\ UNCHANGED <<dmx, cur, wrote, out>>
      BY <2>27 DEF TypeDriver, DriverRec, TypeDecoder, DecoderRec, ResSetup,
        decOnly, SetupCapture
    <3>2. PacketsQueued' /\ PacketsApart' /\ BufferFilled'
      BY <3>1 DEF PacketsQueued, DriverHas, PacketsApart, BufferFilled
    <3>3. QED BY <3>2
  <2>28. CASE ResFatal
    <3>1. /\ dec'.late = dec.late
          /\ UNCHANGED <<dmx, cur, wrote, out, drv>>
      BY <2>28 DEF TypeDecoder, DecoderRec, ResFatal, decOnly
    <3>2. PacketsQueued' /\ PacketsApart' /\ BufferFilled'
      BY <3>1 DEF PacketsQueued, DriverHas, PacketsApart, BufferFilled
    <3>3. QED BY <3>2
  <2>29. CASE DecQuit
    <3>1. /\ dec'.late = dec.late
          /\ UNCHANGED <<dmx, cur, wrote, out, drv>>
      BY <2>29 DEF TypeDecoder, DecoderRec, DecQuit, decOnly
    <3>2. PacketsQueued' /\ PacketsApart' /\ BufferFilled'
      BY <3>1 DEF PacketsQueued, DriverHas, PacketsApart, BufferFilled
    <3>3. QED BY <3>2
  <2>30. CASE DecOff
    <3>1. /\ dec.pc = "off"
          /\ drv'.outq = <<>>
          /\ drv'.outd = <<>>
          /\ dec'.late = dec.late
          /\ UNCHANGED <<dmx, cur, wrote, out>>
      BY <2>30 DEF TypeDriver, DriverRec, TypeDecoder, DecoderRec, DecOff,
        decOnly
    <3>2. BufferFilled'
      BY <3>1 DEF BufferFilled
    <3>3. PacketsQueued' BY <3>1 DEF PacketsQueued, DriverHas
    <3>4. PacketsApart' BY <3>1 DEF PacketsApart, DriverHas
    <3>5. QED BY <3>2, <3>3, <3>4
  <2>31. CASE DispRecycle
    <3>1. /\ drv'.outq = drv.outq /\ drv'.outd = drv.outd
          /\ UNCHANGED <<dmx, cur, wrote, out, dec>>
      BY <2>31 DEF TypeDriver, DriverRec, DispRecycle, shown, Recycle,
        RecycleQueue, RecycleFail, RecycleDrop, Requeues
    <3>2. PacketsQueued' /\ PacketsApart' /\ BufferFilled'
      BY <3>1 DEF PacketsQueued, DriverHas, PacketsApart, BufferFilled
    <3>3. QED BY <3>2
  <2>32. CASE DispFlag
    <3>1. /\ UNCHANGED <<dmx, cur, wrote, out, drv, dec>>
      BY <2>32 DEF DispFlag, shown, RecycleFlag
    <3>2. PacketsQueued' /\ PacketsApart' /\ BufferFilled'
      BY <3>1 DEF PacketsQueued, DriverHas, PacketsApart, BufferFilled
    <3>3. QED BY <3>2
  <2>33. CASE av_sync_pop_frame
    <3>1. /\ UNCHANGED <<dmx, cur, wrote, out, drv, dec>>
      BY <2>33 DEF av_sync_pop_frame, dispIdle, MinOf
    <3>2. PacketsQueued' /\ PacketsApart' /\ BufferFilled'
      BY <3>1 DEF PacketsQueued, DriverHas, PacketsApart, BufferFilled
    <3>3. QED BY <3>2
  <2>34. CASE PopAgain
    <3>1. /\ UNCHANGED <<dmx, cur, wrote, out, drv, dec>>
      BY <2>34 DEF PopAgain, shown, dispIdle
    <3>2. PacketsQueued' /\ PacketsApart' /\ BufferFilled'
      BY <3>1 DEF PacketsQueued, DriverHas, PacketsApart, BufferFilled
    <3>3. QED BY <3>2
  <2>35. CASE FlipFail
    <3>1. /\ UNCHANGED <<dmx, cur, wrote, out, drv, dec>>
      BY <2>35 DEF FlipFail, shown, dispIdle
    <3>2. PacketsQueued' /\ PacketsApart' /\ BufferFilled'
      BY <3>1 DEF PacketsQueued, DriverHas, PacketsApart, BufferFilled
    <3>3. QED BY <3>2
  <2>36. CASE Flip
    <3>1. /\ UNCHANGED <<dmx, cur, wrote, out, drv, dec>>
      BY <2>36 DEF Flip, shown, dispIdle, RingFull, Replaced
    <3>2. PacketsQueued' /\ PacketsApart' /\ BufferFilled'
      BY <3>1 DEF PacketsQueued, DriverHas, PacketsApart, BufferFilled
    <3>3. QED BY <3>2
  <2>37. CASE RingInc
    <3>1. /\ UNCHANGED <<dmx, cur, wrote, out, drv, dec>>
      BY <2>37 DEF RingInc, shown
    <3>2. PacketsQueued' /\ PacketsApart' /\ BufferFilled'
      BY <3>1 DEF PacketsQueued, DriverHas, PacketsApart, BufferFilled
    <3>3. QED BY <3>2
  <2>38. CASE VblankFail
    <3>1. /\ UNCHANGED <<dmx, cur, wrote, out, drv, dec>>
      BY <2>38 DEF VblankFail, shown, dispIdle
    <3>2. PacketsQueued' /\ PacketsApart' /\ BufferFilled'
      BY <3>1 DEF PacketsQueued, DriverHas, PacketsApart, BufferFilled
    <3>3. QED BY <3>2
  <2>39. CASE DispQuit
    <3>1. /\ UNCHANGED <<dmx, cur, wrote, out, drv, dec>>
      BY <2>39 DEF DispQuit, shown, dispIdle
    <3>2. PacketsQueued' /\ PacketsApart' /\ BufferFilled'
      BY <3>1 DEF PacketsQueued, DriverHas, PacketsApart, BufferFilled
    <3>3. QED BY <3>2
  <2>40. CASE DispEnd
    <3>1. /\ UNCHANGED <<dmx, cur, wrote, out, drv, dec>>
      BY <2>40 DEF DispEnd, shown, dispIdle
    <3>2. PacketsQueued' /\ PacketsApart' /\ BufferFilled'
      BY <3>1 DEF PacketsQueued, DriverHas, PacketsApart, BufferFilled
    <3>3. QED BY <3>2
  <2>41. CASE dequeue_frame
    <3>1. /\ UNCHANGED <<dmx, cur, wrote, out, drv, dec>>
      BY <2>41 DEF dequeue_frame, shown
    <3>2. PacketsQueued' /\ PacketsApart' /\ BufferFilled'
      BY <3>1 DEF PacketsQueued, DriverHas, PacketsApart, BufferFilled
    <3>3. QED BY <3>2
  <2>42. CASE RingDec
    <3>1. /\ UNCHANGED <<dmx, cur, wrote, out, drv, dec>>
      BY <2>42 DEF RingDec, shown
    <3>2. PacketsQueued' /\ PacketsApart' /\ BufferFilled'
      BY <3>1 DEF PacketsQueued, DriverHas, PacketsApart, BufferFilled
    <3>3. QED BY <3>2
  <2>43. CASE RecRecycle
    <3>1. /\ drv'.outq = drv.outq /\ drv'.outd = drv.outd
          /\ UNCHANGED <<dmx, cur, wrote, out, dec>>
      BY <2>43 DEF TypeDriver, DriverRec, RecRecycle, shown, Recycle,
        RecycleQueue, RecycleFail, RecycleDrop, Requeues
    <3>2. PacketsQueued' /\ PacketsApart' /\ BufferFilled'
      BY <3>1 DEF PacketsQueued, DriverHas, PacketsApart, BufferFilled
    <3>3. QED BY <3>2
  <2>44. CASE RecFlag
    <3>1. /\ UNCHANGED <<dmx, cur, wrote, out, drv, dec>>
      BY <2>44 DEF RecFlag, shown, RecycleFlag
    <3>2. PacketsQueued' /\ PacketsApart' /\ BufferFilled'
      BY <3>1 DEF PacketsQueued, DriverHas, PacketsApart, BufferFilled
    <3>3. QED BY <3>2
  <2>45. CASE RecQuit
    <3>1. /\ UNCHANGED <<dmx, cur, wrote, out, drv, dec>>
      BY <2>45 DEF RecQuit, shown
    <3>2. PacketsQueued' /\ PacketsApart' /\ BufferFilled'
      BY <3>1 DEF PacketsQueued, DriverHas, PacketsApart, BufferFilled
    <3>3. QED BY <3>2
  <2>46. CASE sig_handler
    <3>1. /\ UNCHANGED <<dmx, cur, wrote, out, drv, dec>>
      BY <2>46 DEF sig_handler, mainOnly
    <3>2. PacketsQueued' /\ PacketsApart' /\ BufferFilled'
      BY <3>1 DEF PacketsQueued, DriverHas, PacketsApart, BufferFilled
    <3>3. QED BY <3>2
  <2>47. CASE MainWakes
    <3>1. /\ UNCHANGED <<dmx, cur, wrote, out, drv, dec>>
      BY <2>47 DEF MainWakes, mainOnly
    <3>2. PacketsQueued' /\ PacketsApart' /\ BufferFilled'
      BY <3>1 DEF PacketsQueued, DriverHas, PacketsApart, BufferFilled
    <3>3. QED BY <3>2
  <2>48. CASE dmx_destroy
    <3>1. /\ UNCHANGED <<dmx, cur, wrote, out, drv, dec>>
      BY <2>48 DEF dmx_destroy, mainOnly
    <3>2. PacketsQueued' /\ PacketsApart' /\ BufferFilled'
      BY <3>1 DEF PacketsQueued, DriverHas, PacketsApart, BufferFilled
    <3>3. QED BY <3>2
  <2>49. CASE v4l2_dec_destroy
    <3>1. /\ UNCHANGED <<dmx, cur, wrote, out, drv, dec>>
      BY <2>49 DEF v4l2_dec_destroy, mainOnly
    <3>2. PacketsQueued' /\ PacketsApart' /\ BufferFilled'
      BY <3>1 DEF PacketsQueued, DriverHas, PacketsApart, BufferFilled
    <3>3. QED BY <3>2
  <2>50. CASE display_engine_stop
    <3>1. /\ UNCHANGED <<dmx, cur, wrote, out, drv, dec>>
      BY <2>50 DEF display_engine_stop, mainOnly
    <3>2. PacketsQueued' /\ PacketsApart' /\ BufferFilled'
      BY <3>1 DEF PacketsQueued, DriverHas, PacketsApart, BufferFilled
    <3>3. QED BY <3>2
  <2>51. CASE UNCHANGED vars
    BY <2>51 DEF vars, PacketsQueued, DriverHas, PacketsApart, BufferFilled
  <2>52. QED
    BY <2>1, <2>2, <2>3, <2>4, <2>5, <2>6, <2>7, <2>8, <2>9, <2>10, <2>11,
       <2>12, <2>13, <2>14, <2>15, <2>16, <2>17, <2>18, <2>19, <2>20, <2>21,
       <2>22, <2>23, <2>24, <2>25, <2>26, <2>27, <2>28, <2>29, <2>30, <2>31,
       <2>32, <2>33, <2>34, <2>35, <2>36, <2>37, <2>38, <2>39, <2>40, <2>41,
       <2>42, <2>43, <2>44, <2>45, <2>46, <2>47, <2>48, <2>49, <2>50, <2>51
    DEF Next, Demux, Driver, Decoder, Display, Recycler, Main
<1>3. QED BY <1>1, <1>2, BaseInvariant, PTL DEF Spec

(* A packet goes to the driver as it was written, for every number and     *)
(* size of output buffers: v4l2_dec_frame_done queues what the demuxer     *)
(* wrote, appended to nothing that an earlier packet left.  The reset of   *)
(* "used" outside output_p.lock is the one thing assumed away.             *)
THEOREM PacketsKept ==
  ASSUME "late_used" \notin Allowed
  PROVE  Spec => []PacketIntact
<1>1. BaseInv /\ PacketInv => PacketIntact
  BY DEF BaseInv, HasBuffer, PacketInv, BufferFilled, PacketIntact
<1>2. QED BY <1>1, BaseInvariant, PacketInvariant, PTL

-----------------------------------------------------------------------------
(***************************************************************************)
(* Capture buffers.  Frames move between places one at a time; a place is  *)
(* read here as a sequence, and a frame's whereabouts through Has.         *)
(***************************************************************************)
Item  == Frame \cup {None, Eos}
Place == Pipe \cup {"queued", "decoded"}

Typed(P) == \A p \in Place : P[p] \in Seq(Item)
Has(P, p, f) == \E k \in 1..Len(P[p]) : P[p][k] = f

(* No two positions hold the same frame.                                   *)
ApartIn(P) ==
  \A p, q \in Place : \A k \in 1..Len(P[p]), l \in 1..Len(P[q]) :
    P[p][k] = P[q][l] => p = q /\ k = l

Appended(s, t, x) ==
  /\ Len(t) = Len(s) + 1 /\ t[Len(s) + 1] = x
  /\ \A k \in 1..Len(s) : t[k] = s[k]

Shifted(s, t) ==
  /\ Len(s) # 0 /\ Len(t) = Len(s) - 1
  /\ \A k \in 1..Len(t) : t[k] = s[k + 1]

At(p, f)  == Has(Places, p, f)
InPipe(f) == \E p \in Pipe : At(p, f)
InPort(f) == At("queued", f) \/ At("decoded", f)

(***************************************************************************)
(* The ring: its count and its write index agree with its entries, and the *)
(* two threads do not update the count at the same time.                   *)
(***************************************************************************)
RingOK ==
  /\ RingCount \in 0..RingLen
  /\ ring.wi = (ring.ri + RingCount) % RingLen
  /\ disp.pc = "inc" => disp.n = ring.n /\ rec.pc # "dec"
  /\ rec.pc = "dec" => rec.n = ring.n
  /\ rec.f # None => rec.pc \in {"dec", "fence"}

(* What the display thread is about to flip is not on the screen yet, and  *)
(* it ends with the empty frame or after the decoder.                      *)
ShownNew ==
  /\ disp.pc = "flip" => syn.shown # disp.f
  /\ disp.pc = "end" => syn.shown = Eos \/ dec.pc = "done"

Apart == ApartIn(Places)

(* Frames are somewhere only while their buffers exist, and the sets of    *)
(* buffers so far are the only ones that do.                               *)
AllAlive ==
  /\ \A f \in Item : InPipe(f) \/ InPort(f) => f \in cap.alive \cup {Eos}
  /\ \A f \in cap.alive : f[1] <= cap.gen

(* The queued flags: set for what the driver has, once the recycle is      *)
(* done, and clear for what is on its way to or on the screen.             *)
FlagsTrue ==
  /\ \A f \in Item : InPipe(f) => f \notin cap.queued /\ f # lock
  /\ \A f \in Item : InPort(f) => f \in cap.queued \cup {lock}

(* A frame of a replaced set is marked to be destroyed at its recycle, and *)
(* the driver has none.                                                    *)
ReplacedMarked ==
  /\ \A f \in Frame : InPipe(f) /\ (f[1] < cap.gen \/ dec.pc = "setup") =>
       f \in cap.recycle
  /\ \A f \in Item : InPort(f) => f[1] = cap.gen

(* While the port is set up again the driver has nothing and decodes       *)
(* nothing: a LAST picture halts it.                                       *)
Halted ==
  /\ \A k \in 1..Len(drv.capd) : drv.capd[k].last => drv.st = "halt"
  /\ dec.pc \in {"res", "free", "setup"} => drv.st = "halt"
  /\ dec.pc \in {"free", "setup"} => drv.capd = <<>>
  /\ dec.pc = "setup" =>
       drv.capq = <<>> /\ lock = None /\ \A f \in cap.queued : f[1] # cap.gen

(* Where an existing frame is that no failure has put aside.               *)
Kept ==
  dec.pc \notin {"off", "done"} =>
    \A f \in cap.alive \ parked :
      InPipe(f) \/ (f[1] = cap.gen /\ f \in cap.queued \cup {lock})

FrameInv ==
  /\ ShownNew /\ Apart /\ AllAlive /\ FlagsTrue /\ ReplacedMarked /\ Halted /\ Kept

(* A frame that moves from the front of one place to the end of another.   *)
LEMMA MoveApart ==
  ASSUME NEW P, NEW Q, Typed(P), Typed(Q), ApartIn(P),
         NEW p \in Place, NEW q \in Place, p # q,
         Shifted(P[p], Q[p]), Appended(P[q], Q[q], P[p][1]),
         \A r \in Place \ {p, q} : Q[r] = P[r]
  PROVE  /\ ApartIn(Q) /\ P[p][1] \in Item
         /\ \A r \in Place : Has(P, r, P[p][1]) <=> r = p
         /\ \A r \in Place : Has(Q, r, P[p][1]) <=> r = q
         /\ \A r \in Place, f \in Item :
              f # P[p][1] => (Has(Q, r, f) <=> Has(P, r, f))
<1>1. \A r \in Place : Len(P[r]) \in Nat /\ Len(Q[r]) \in Nat
  BY DEF Typed
<1>2. 1 \in 1..Len(P[p]) /\ P[p][1] \in Item
  BY <1>1 DEF Shifted, Typed
<1>3. \A k \in 1..Len(Q[p]) : k + 1 \in 1..Len(P[p]) /\ Q[p][k] = P[p][k + 1]
  BY <1>1 DEF Shifted
<1>4. \A k \in 1..Len(P[p]) : k = 1 \/ (k - 1 \in 1..Len(Q[p]) /\ Q[p][k - 1] = P[p][k])
  BY <1>1 DEF Shifted
<1>5. \A k \in 1..Len(Q[q]) :
        \/ k \in 1..Len(P[q]) /\ Q[q][k] = P[q][k]
        \/ k = Len(P[q]) + 1 /\ Q[q][k] = P[p][1]
  BY <1>1 DEF Appended
<1>6. \A k \in 1..Len(P[q]) : k \in 1..Len(Q[q]) /\ Q[q][k] = P[q][k]
  BY <1>1 DEF Appended
<1>7. Len(Q[q]) \in 1..Len(Q[q]) /\ Q[q][Len(Q[q])] = P[p][1]
  BY <1>1 DEF Appended
<1>8. \A r \in Place : \A k \in 1..Len(P[r]) : P[r][k] = P[p][1] => r = p /\ k = 1
  BY <1>2 DEF ApartIn
<1>9. \A r \in Place : Has(P, r, P[p][1]) <=> r = p
  BY <1>2, <1>8 DEF Has
<1>10. \A r \in Place : Has(Q, r, P[p][1]) <=> r = q
  <2> SUFFICES ASSUME NEW r \in Place PROVE Has(Q, r, P[p][1]) <=> r = q
    OBVIOUS
  <2>1. CASE r = q BY <2>1, <1>7 DEF Has
  <2>2. CASE r = p
    <3>1. \A k \in 1..Len(Q[p]) : Q[p][k] # P[p][1]
      BY <1>1, <1>3, <1>8
    <3>2. QED BY <2>2, <3>1 DEF Has
  <2>3. CASE r \notin {p, q} BY <2>3, <1>8 DEF Has
  <2>4. QED BY <2>1, <2>2, <2>3
<1>11. ASSUME NEW r \in Place, NEW f \in Item, f # P[p][1]
       PROVE  Has(Q, r, f) <=> Has(P, r, f)
  <2>1. CASE r = p
    <3>1. \A k \in 1..Len(P[p]) : P[p][k] = f =>
            k - 1 \in 1..Len(Q[p]) /\ Q[p][k - 1] = f
      BY <1>4, <1>11
    <3>2. QED BY <2>1, <3>1, <1>3 DEF Has
  <2>2. CASE r = q BY <2>2, <1>5, <1>6, <1>11 DEF Has
  <2>3. CASE r \notin {p, q} BY <2>3 DEF Has
  <2>4. QED BY <2>1, <2>2, <2>3
<1>12. ApartIn(Q)
  <2> SUFFICES ASSUME NEW r \in Place, NEW s \in Place, NEW k \in 1..Len(Q[r]),
                      NEW l \in 1..Len(Q[s]), Q[r][k] = Q[s][l]
               PROVE  r = s /\ k = l
    BY DEF ApartIn
  <2>1. CASE Q[r][k] = P[p][1]
    <3>1. r = q /\ s = q
      BY <2>1, <1>10 DEF Has
    <3>2. \A m \in 1..Len(Q[q]) : Q[q][m] = P[p][1] => m = Len(P[q]) + 1
      BY <1>5, <1>8
    <3>3. QED BY <2>1, <3>1, <3>2
  <2>2. CASE Q[r][k] # P[p][1]
    <3> DEFINE old(t, m) == IF t = p THEN m + 1 ELSE m
    <3>1. \A t \in Place : \A m \in 1..Len(Q[t]) : Q[t][m] # P[p][1] =>
            old(t, m) \in 1..Len(P[t]) /\ P[t][old(t, m)] = Q[t][m]
      BY <1>3, <1>5
    <3>2. r = s /\ old(r, k) = old(s, l)
      <4>1. /\ old(r, k) \in 1..Len(P[r]) /\ P[r][old(r, k)] = Q[r][k]
            /\ old(s, l) \in 1..Len(P[s]) /\ P[s][old(s, l)] = Q[s][l]
        BY <2>2, <3>1
      <4> HIDE DEF old
      <4>2. QED BY <4>1 DEF ApartIn
    <3>3. QED BY <3>2
  <2>3. QED BY <2>1, <2>2
<1>13. QED BY <1>2, <1>9, <1>10, <1>11, <1>12

(* A frame that leaves the front of a place for nowhere.                   *)
LEMMA DropApart ==
  ASSUME NEW P, NEW Q, Typed(P), Typed(Q), ApartIn(P), NEW p \in Place,
         Shifted(P[p], Q[p]), \A r \in Place \ {p} : Q[r] = P[r]
  PROVE  /\ ApartIn(Q) /\ P[p][1] \in Item
         /\ \A r \in Place : Has(P, r, P[p][1]) <=> r = p
         /\ \A r \in Place : ~Has(Q, r, P[p][1])
         /\ \A r \in Place, f \in Item :
              f # P[p][1] => (Has(Q, r, f) <=> Has(P, r, f))
<1>1. \A r \in Place : Len(P[r]) \in Nat /\ Len(Q[r]) \in Nat
  BY DEF Typed
<1>2. 1 \in 1..Len(P[p]) /\ P[p][1] \in Item
  BY <1>1 DEF Shifted, Typed
<1>3. \A k \in 1..Len(Q[p]) : k + 1 \in 1..Len(P[p]) /\ Q[p][k] = P[p][k + 1]
  BY <1>1 DEF Shifted
<1>4. \A k \in 1..Len(P[p]) : k = 1 \/ (k - 1 \in 1..Len(Q[p]) /\ Q[p][k - 1] = P[p][k])
  BY <1>1 DEF Shifted
<1>5. \A r \in Place : \A k \in 1..Len(P[r]) : P[r][k] = P[p][1] => r = p /\ k = 1
  BY <1>2 DEF ApartIn
<1>6. \A r \in Place : Has(P, r, P[p][1]) <=> r = p
  BY <1>2, <1>5 DEF Has
<1>7. \A r \in Place : ~Has(Q, r, P[p][1])
  <2>1. \A k \in 1..Len(Q[p]) : Q[p][k] # P[p][1]
    BY <1>1, <1>3, <1>5
  <2>2. QED BY <2>1, <1>5 DEF Has
<1>8. ASSUME NEW r \in Place, NEW f \in Item, f # P[p][1]
      PROVE  Has(Q, r, f) <=> Has(P, r, f)
  <2>1. CASE r = p
    <3>1. \A k \in 1..Len(P[p]) : P[p][k] = f =>
            k - 1 \in 1..Len(Q[p]) /\ Q[p][k - 1] = f
      BY <1>4, <1>8
    <3>2. QED BY <2>1, <3>1, <1>3 DEF Has
  <2>2. CASE r # p BY <2>2 DEF Has
  <2>3. QED BY <2>1, <2>2
<1>9. ApartIn(Q)
  <2> DEFINE old(t, m) == IF t = p THEN m + 1 ELSE m
  <2> SUFFICES ASSUME NEW r \in Place, NEW s \in Place, NEW k \in 1..Len(Q[r]),
                      NEW l \in 1..Len(Q[s]), Q[r][k] = Q[s][l]
               PROVE  r = s /\ k = l
    BY DEF ApartIn
  <2>1. \A t \in Place : \A m \in 1..Len(Q[t]) :
          old(t, m) \in 1..Len(P[t]) /\ P[t][old(t, m)] = Q[t][m]
    BY <1>3
  <2>2. r = s /\ old(r, k) = old(s, l)
    <3>1. /\ old(r, k) \in 1..Len(P[r]) /\ P[r][old(r, k)] = Q[r][k]
          /\ old(s, l) \in 1..Len(P[s]) /\ P[s][old(s, l)] = Q[s][l]
      BY <2>1
    <3> HIDE DEF old
    <3>2. QED BY <3>1 DEF ApartIn
  <2>3. QED BY <2>2
<1>10. QED BY <1>2, <1>6, <1>7, <1>8, <1>9

(* A frame that comes from nowhere.                                        *)
LEMMA AddApart ==
  ASSUME NEW P, NEW Q, Typed(P), Typed(Q), ApartIn(P), NEW q \in Place,
         NEW x \in Item, \A r \in Place : ~Has(P, r, x),
         Appended(P[q], Q[q], x), \A r \in Place \ {q} : Q[r] = P[r]
  PROVE  /\ ApartIn(Q)
         /\ \A r \in Place : Has(Q, r, x) <=> r = q
         /\ \A r \in Place, f \in Item : f # x => (Has(Q, r, f) <=> Has(P, r, f))
<1>1. \A r \in Place : Len(P[r]) \in Nat /\ Len(Q[r]) \in Nat
  BY DEF Typed
<1>2. \A k \in 1..Len(Q[q]) :
        \/ k \in 1..Len(P[q]) /\ Q[q][k] = P[q][k]
        \/ k = Len(P[q]) + 1 /\ Q[q][k] = x
  BY <1>1 DEF Appended
<1>3. /\ \A k \in 1..Len(P[q]) : k \in 1..Len(Q[q]) /\ Q[q][k] = P[q][k]
      /\ Len(Q[q]) \in 1..Len(Q[q]) /\ Q[q][Len(Q[q])] = x
  BY <1>1 DEF Appended
<1>4. \A r \in Place : \A k \in 1..Len(P[r]) : P[r][k] # x
  BY DEF Has
<1>5. \A r \in Place : Has(Q, r, x) <=> r = q
  BY <1>3, <1>4 DEF Has
<1>6. \A r \in Place, f \in Item : f # x => (Has(Q, r, f) <=> Has(P, r, f))
  BY <1>2, <1>3 DEF Has
<1>7. ApartIn(Q)
  <2> SUFFICES ASSUME NEW r \in Place, NEW s \in Place, NEW k \in 1..Len(Q[r]),
                      NEW l \in 1..Len(Q[s]), Q[r][k] = Q[s][l]
               PROVE  r = s /\ k = l
    BY DEF ApartIn
  <2>1. CASE Q[r][k] = x
    <3>1. r = q /\ s = q BY <2>1, <1>4
    <3>2. QED BY <2>1, <3>1, <1>2, <1>4
  <2>2. CASE Q[r][k] # x
    <3>1. \A t \in Place : \A m \in 1..Len(Q[t]) : Q[t][m] # x =>
            m \in 1..Len(P[t]) /\ P[t][m] = Q[t][m]
      BY <1>2
    <3>2. QED BY <2>2, <3>1 DEF ApartIn
  <2>3. QED BY <2>1, <2>2
<1>8. QED BY <1>5, <1>6, <1>7

(* Places that are emptied.                                                *)
LEMMA ClearApart ==
  ASSUME NEW P, NEW Q, ApartIn(P), NEW C,
         \A r \in Place \ C : Q[r] = P[r], \A r \in C : Q[r] = <<>>
  PROVE  /\ ApartIn(Q)
         /\ \A r \in Place, f \in Item : Has(Q, r, f) <=> r \notin C /\ Has(P, r, f)
<1>1. \A r \in C : 1..Len(Q[r]) = {}
  OBVIOUS
<1>2. QED BY <1>1 DEF ApartIn, Has

(* A new set of buffers, all in the driver's queue.                        *)
LEMMA FillApart ==
  ASSUME NEW P, NEW Q, ApartIn(P), NEW g \in 1..MaxGen,
         \A r \in Place, f \in Set(g) : ~Has(P, r, f),
         Q["queued"] = Setup(g), \A r \in Place \ {"queued"} : Q[r] = P[r]
  PROVE  /\ ApartIn(Q)
         /\ \A f \in Item : Has(Q, "queued", f) <=> f \in Set(g)
         /\ \A r \in Place \ {"queued"}, f \in Item : Has(Q, r, f) <=> Has(P, r, f)
<1>1. Len(Q["queued"]) = NCap /\ \A k \in 1..NCap : Q["queued"][k] = <<g, k>>
  BY DEF Setup
<1>2. \A f \in Item : Has(Q, "queued", f) <=> f \in Set(g)
  <2>1. \A f : f \in Set(g) <=> \E k \in 1..NCap : f = <<g, k>>
    BY DEF Set
  <2>2. \A f : Has(Q, "queued", f) <=> \E k \in 1..NCap : Q["queued"][k] = f
    BY <1>1 DEF Has
  <2>3. ASSUME NEW f PROVE Has(Q, "queued", f) <=> f \in Set(g)
    <3>1. \A k \in 1..NCap : Q["queued"][k] = f <=> f = <<g, k>>
      BY <1>1
    <3>2. QED BY <2>1, <2>2, <3>1
  <2>4. QED BY <2>3
<1>3. \A r \in Place \ {"queued"}, f \in Item : Has(Q, r, f) <=> Has(P, r, f)
  BY DEF Has
<1>4. \A r \in Place \ {"queued"} : \A k \in 1..Len(Q[r]) : Q[r][k] \notin Set(g)
  BY DEF Has
<1>5. \A k \in 1..Len(Q["queued"]) : Q["queued"][k] \in Set(g)
  BY <1>1 DEF Set
<1>6. \A k, l \in 1..Len(Q["queued"]) : Q["queued"][k] = Q["queued"][l] => k = l
  BY <1>1
<1>7. ApartIn(Q)
  <2> SUFFICES ASSUME NEW r \in Place, NEW s \in Place, NEW k \in 1..Len(Q[r]),
                      NEW l \in 1..Len(Q[s]), Q[r][k] = Q[s][l]
               PROVE  r = s /\ k = l
    BY DEF ApartIn
  <2>1. CASE r = "queued" /\ s = "queued" BY <2>1, <1>6
  <2>2. CASE r # "queued" /\ s # "queued" BY <2>2 DEF ApartIn
  <2>3. CASE (r = "queued") # (s = "queued") BY <2>3, <1>4, <1>5
  <2>4. QED BY <2>1, <2>2, <2>3
<1>8. QED BY <1>2, <1>3, <1>7

(* Positions in the ring.                                                  *)
LEMMA RingPos ==
  ASSUME NEW i \in 0 .. RingLen - 1, NEW k \in 0..RingLen
  PROVE  /\ (i + k) % RingLen \in 0 .. RingLen - 1
         /\ (i + k) % RingLen = IF i + k < RingLen THEN i + k ELSE i + k - RingLen
<1>1. CASE i + k < RingLen BY <1>1
<1>2. CASE i + k >= RingLen
  <2>1. (i + k) - RingLen \in 0 .. RingLen - 1 BY <1>2
  <2>2. (i + k) % RingLen = (i + k) - RingLen BY <2>1
  <2>3. QED BY <1>2, <2>1, <2>2
<1>3. QED BY <1>1, <1>2

(* The ring, the decoded pictures and the frame on show, as sequences.     *)
RingSeq(n, slot, ri) == [k \in 1..n |-> slot[(ri + k - 1) % RingLen]]
PicSeq(s) == [k \in 1..Len(s) |-> s[k].f]
ShownSeq(s, d, pc) == IF s # d /\ pc # "done" THEN One(s) ELSE <<>>

(* The places as their owners' variables give them.                        *)
LEMMA PlacesAre ==
  /\ Places["hand"] = One(dec.hand) /\ Places["sync"] = syn.q
  /\ Places["shown"] = ShownSeq(syn.shown, disp.f, disp.pc)
  /\ Places["screen"] = One(disp.f) /\ Places["cb"] = disp.cb
  /\ Places["ring"] = RingSeq(RingCount, ring.slot, ring.ri)
  /\ Places["rec"] = One(rec.f) /\ Places["queued"] = drv.capq
  /\ Places["decoded"] = PicSeq(drv.capd)
BY DEF Places, RingSeq, PicSeq, ShownSeq

(* ... and after a step.                                                   *)
LEMMA PlacesNext ==
  /\ Places'["hand"] = One(dec'.hand) /\ Places'["sync"] = syn'.q
  /\ Places'["shown"] = ShownSeq(syn'.shown, disp'.f, disp'.pc)
  /\ Places'["screen"] = One(disp'.f) /\ Places'["cb"] = disp'.cb
  /\ Places'["ring"] = RingSeq(RingCount', ring'.slot, ring'.ri)
  /\ Places'["rec"] = One(rec'.f) /\ Places'["queued"] = drv'.capq
  /\ Places'["decoded"] = PicSeq(drv'.capd)
BY DEF Places, RingSeq, PicSeq, ShownSeq

(* Every place holds a sequence; all but av_sync's queue and the ring hold *)
(* capture buffers only.                                                   *)
PlacesOK ==
  /\ Typed(Places)
  /\ \A p \in Place \ {"sync", "ring"} : Places[p] \in Seq(Frame)
  /\ Places["sync"] \in Seq(Frame \cup {Eos})
  /\ Places["ring"] \in Seq(Frame \cup {None})

(* The types of the places follow from those of the variables.             *)
LEMMA PlacesTyped == BaseInv /\ RingOK => PlacesOK
<1> SUFFICES ASSUME BaseInv, RingOK PROVE PlacesOK
  OBVIOUS
<1>1. \A f : One(f) \in Seq(Frame)
  BY DEF One
<1>2. disp.cb \in Seq(Frame) /\ syn.q \in Seq(Frame \cup {Eos}) /\ drv.capq \in Seq(Frame)
  BY DEF BaseInv, TypeShow, SyncRec, DisplayRec, TypeDriver, DriverRec
<1>3. PicSeq(drv.capd) \in Seq(Frame)
  <2>1. drv.capd \in Seq(Pic) BY DEF BaseInv, TypeDriver, DriverRec
  <2>2. Len(drv.capd) \in Nat /\ \A k \in 1..Len(drv.capd) : drv.capd[k].f \in Frame
    <3>1. Len(drv.capd) \in Nat /\ \A k \in 1..Len(drv.capd) : drv.capd[k] \in Pic
      BY <2>1
    <3>2. QED BY <3>1 DEF Pic
  <2>3. QED BY <2>2 DEF PicSeq
<1>4. RingSeq(RingCount, ring.slot, ring.ri) \in Seq(Frame \cup {None})
  <2>1. /\ ring.slot \in [0 .. RingLen - 1 -> Frame \cup {None}]
        /\ ring.ri \in 0 .. RingLen - 1 /\ RingCount \in Nat /\ RingCount <= RingLen
    BY DEF BaseInv, TypeRing, RingRec, RingOK
  <2>2. \A k \in 1..RingCount : (ring.ri + k - 1) % RingLen \in 0 .. RingLen - 1
    BY <2>1
  <2>3. \A k \in 1..RingCount : ring.slot[(ring.ri + k - 1) % RingLen] \in Frame \cup {None}
    BY <2>1, <2>2
  <2>4. QED BY <2>1, <2>3 DEF RingSeq
<1>5. ShownSeq(syn.shown, disp.f, disp.pc) \in Seq(Frame)
  BY <1>1 DEF ShownSeq
<1>6. \A p \in Place \ {"sync", "ring"} : Places[p] \in Seq(Frame)
  BY <1>1, <1>2, <1>3, <1>5, PlacesAre DEF Place, Pipe
<1>7. Places["sync"] \in Seq(Frame \cup {Eos}) /\ Places["ring"] \in Seq(Frame \cup {None})
  BY <1>2, <1>4, PlacesAre
<1>8. Typed(Places)
  <2>1. \A S \in {Frame, Frame \cup {Eos}, Frame \cup {None}} : Seq(S) \subseteq Seq(Item)
    BY DEF Item
  <2>2. QED BY <1>6, <1>7, <2>1 DEF Typed
<1>9. QED BY <1>6, <1>7, <1>8 DEF PlacesOK

(* RingOK is inductive where the two halves of queue_frame and             *)
(* dequeue_frame do not overlap.                                           *)
LEMMA RingInvariant ==
  ASSUME "ring_race" \notin Allowed
  PROVE  Spec => []RingOK
<1>1. Init => RingOK
  BY DEF Init, RingOK, RingCount
<1>2. BaseInv /\ RingOK /\ [Next]_vars => RingOK'
  <2> SUFFICES ASSUME BaseInv, RingOK, [Next]_vars PROVE RingOK'
    OBVIOUS
  <2> USE DEF BaseInv
  <2>1. CASE av_read_frame
    <3>1. /\ UNCHANGED <<disp, ring, rec>>
      BY <2>1 DEF av_read_frame, dmxOnly
    <3>2. RingOK'
      BY <3>1 DEF RingOK, RingCount
    <3>3. QED BY <3>2
  <2>2. CASE DmxQuit
    <3>1. /\ UNCHANGED <<disp, ring, rec>>
      BY <2>2 DEF DmxQuit, dmxOnly
    <3>2. RingOK'
      BY <3>1 DEF RingOK, RingCount
    <3>3. QED BY <3>2
  <2>3. CASE v4l2_dec_eos
    <3>1. /\ UNCHANGED <<disp, ring, rec>>
      BY <2>3 DEF v4l2_dec_eos
    <3>2. RingOK'
      BY <3>1 DEF RingOK, RingCount
    <3>3. QED BY <3>2
  <2>4. CASE get_free_output_buf
    <3>1. /\ UNCHANGED <<disp, ring, rec>>
      BY <2>4 DEF get_free_output_buf, dmxOnly
    <3>2. RingOK'
      BY <3>1 DEF RingOK, RingCount
    <3>3. QED BY <3>2
  <2>5. CASE v4l2_dec_write_es
    <3>1. /\ UNCHANGED <<disp, ring, rec>>
      BY <2>5 DEF v4l2_dec_write_es, dmxOnly, MinOf
    <3>2. RingOK'
      BY <3>1 DEF RingOK, RingCount
    <3>3. QED BY <3>2
  <2>6. CASE DropNonKey
    <3>1. /\ UNCHANGED <<disp, ring, rec>>
      BY <2>6 DEF DropNonKey, dmxOnly
    <3>2. RingOK'
      BY <3>1 DEF RingOK, RingCount
    <3>3. QED BY <3>2
  <2>7. CASE v4l2_dec_frame_done
    <3>1. /\ UNCHANGED <<disp, ring, rec>>
      BY <2>7 DEF v4l2_dec_frame_done, dmxOnly
    <3>2. RingOK'
      BY <3>1 DEF RingOK, RingCount
    <3>3. QED BY <3>2
  <2>8. CASE OutQbuf
    <3>1. /\ UNCHANGED <<disp, ring, rec>>
      BY <2>8 DEF OutQbuf
    <3>2. RingOK'
      BY <3>1 DEF RingOK, RingCount
    <3>3. QED BY <3>2
  <2>9. CASE OutQbufFail
    <3>1. /\ UNCHANGED <<disp, ring, rec>>
      BY <2>9 DEF OutQbufFail, dmxOnly
    <3>2. RingOK'
      BY <3>1 DEF RingOK, RingCount
    <3>3. QED BY <3>2
  <2>10. CASE handle_first_frame
    <3>1. /\ UNCHANGED <<disp, ring, rec>>
      BY <2>10 DEF handle_first_frame, SetupCapture
    <3>2. RingOK'
      BY <3>1 DEF RingOK, RingCount
    <3>3. QED BY <3>2
  <2>11. CASE FirstFrameFatal
    <3>1. /\ UNCHANGED <<disp, ring, rec>>
      BY <2>11 DEF FirstFrameFatal, dmxOnly
    <3>2. RingOK'
      BY <3>1 DEF RingOK, RingCount
    <3>3. QED BY <3>2
  <2>12. CASE Decode
    <3>1. /\ UNCHANGED <<disp, ring, rec>>
      BY <2>12 DEF Decode, drvOnly, Picture
    <3>2. RingOK'
      BY <3>1 DEF RingOK, RingCount
    <3>3. QED BY <3>2
  <2>13. CASE FirstResolution
    <3>1. /\ UNCHANGED <<disp, ring, rec>>
      BY <2>13 DEF FirstResolution, drvOnly
    <3>2. RingOK'
      BY <3>1 DEF RingOK, RingCount
    <3>3. QED BY <3>2
  <2>14. CASE NewResolution
    <3>1. /\ UNCHANGED <<disp, ring, rec>>
      BY <2>14 DEF NewResolution, drvOnly
    <3>2. RingOK'
      BY <3>1 DEF RingOK, RingCount
    <3>3. QED BY <3>2
  <2>15. CASE EndOfStream
    <3>1. /\ UNCHANGED <<disp, ring, rec>>
      BY <2>15 DEF EndOfStream, drvOnly
    <3>2. RingOK'
      BY <3>1 DEF RingOK, RingCount
    <3>3. QED BY <3>2
  <2>16. CASE LastPicture
    <3>1. /\ UNCHANGED <<disp, ring, rec>>
      BY <2>16 DEF LastPicture, drvOnly, Picture
    <3>2. RingOK'
      BY <3>1 DEF RingOK, RingCount
    <3>3. QED BY <3>2
  <2>17. CASE Poll
    <3>1. /\ UNCHANGED <<disp, ring, rec>>
      BY <2>17 DEF Poll, decOnly
    <3>2. RingOK'
      BY <3>1 DEF RingOK, RingCount
    <3>3. QED BY <3>2
  <2>18. CASE DqOutput
    <3>1. /\ UNCHANGED <<disp, ring, rec>>
      BY <2>18 DEF DqOutput, decOnly
    <3>2. RingOK'
      BY <3>1 DEF RingOK, RingCount
    <3>3. QED BY <3>2
  <2>19. CASE ResetUsed
    <3>1. /\ UNCHANGED <<disp, ring, rec>>
      BY <2>19 DEF ResetUsed, decOnly
    <3>2. RingOK'
      BY <3>1 DEF RingOK, RingCount
    <3>3. QED BY <3>2
  <2>20. CASE DqCapture
    <3>1. /\ UNCHANGED <<disp, ring, rec>>
      BY <2>20 DEF DqCapture, decOnly
    <3>2. RingOK'
      BY <3>1 DEF RingOK, RingCount
    <3>3. QED BY <3>2
  <2>21. CASE StartDisplay
    <3>1. /\ dec.pc = "show" /\ ~started
          /\ disp'.pc = "pop"
          /\ disp'.n = disp.n
          /\ ring'.ri = 0
          /\ ring'.wi = 0
          /\ ring'.n = 0
          /\ rec'.pc = "run"
          /\ rec'.f = rec.f /\ rec'.n = rec.n
      BY <2>21 DEF TypeShow, DisplayRec, TypeRing, RingRec, RecycleRec,
        StartDisplay
    <3>2. RingOK'
      <4>1. rec.f = None BY <3>1 DEF Unstarted, DecoderHas
      <4>2. RingCount' = 0 BY <3>1 DEF RingCount
      <4>3. QED BY <3>1, <4>1, <4>2 DEF RingOK
    <3>3. QED BY <3>2
  <2>22. CASE display_engine_show
    <3>1. /\ UNCHANGED <<disp, ring, rec>>
      BY <2>22 DEF display_engine_show, decOnly
    <3>2. RingOK'
      BY <3>1 DEF RingOK, RingCount
    <3>3. QED BY <3>2
  <2>23. CASE EosReceived
    <3>1. /\ UNCHANGED <<disp, ring, rec>>
      BY <2>23 DEF EosReceived, decOnly
    <3>2. RingOK'
      BY <3>1 DEF RingOK, RingCount
    <3>3. QED BY <3>2
  <2>24. CASE display_wait_for_display
    <3>1. /\ UNCHANGED <<disp, ring, rec>>
      BY <2>24 DEF display_wait_for_display, decOnly
    <3>2. RingOK'
      BY <3>1 DEF RingOK, RingCount
    <3>3. QED BY <3>2
  <2>25. CASE ResStreamOff
    <3>1. /\ UNCHANGED <<disp, ring, rec>>
      BY <2>25 DEF ResStreamOff, decOnly
    <3>2. RingOK'
      BY <3>1 DEF RingOK, RingCount
    <3>3. QED BY <3>2
  <2>26. CASE ResFree
    <3>1. /\ UNCHANGED <<disp, ring, rec>>
      BY <2>26 DEF ResFree, decOnly, Freed
    <3>2. RingOK'
      BY <3>1 DEF RingOK, RingCount
    <3>3. QED BY <3>2
  <2>27. CASE ResSetup
    <3>1. /\ UNCHANGED <<disp, ring, rec>>
      BY <2>27 DEF ResSetup, decOnly, SetupCapture
    <3>2. RingOK'
      BY <3>1 DEF RingOK, RingCount
    <3>3. QED BY <3>2
  <2>28. CASE ResFatal
    <3>1. /\ UNCHANGED <<disp, ring, rec>>
      BY <2>28 DEF ResFatal, decOnly
    <3>2. RingOK'
      BY <3>1 DEF RingOK, RingCount
    <3>3. QED BY <3>2
  <2>29. CASE DecQuit
    <3>1. /\ UNCHANGED <<disp, ring, rec>>
      BY <2>29 DEF DecQuit, decOnly
    <3>2. RingOK'
      BY <3>1 DEF RingOK, RingCount
    <3>3. QED BY <3>2
  <2>30. CASE DecOff
    <3>1. /\ UNCHANGED <<disp, ring, rec>>
      BY <2>30 DEF DecOff, decOnly
    <3>2. RingOK'
      BY <3>1 DEF RingOK, RingCount
    <3>3. QED BY <3>2
  <2>31. CASE DispRecycle
    <3>1. /\ disp'.pc = disp.pc /\ disp'.n = disp.n
          /\ UNCHANGED <<ring, rec>>
      BY <2>31 DEF TypeShow, DisplayRec, DispRecycle, shown, Recycle,
        RecycleQueue, RecycleFail, RecycleDrop, Requeues
    <3>2. RingOK'
      BY <3>1 DEF RingOK, RingCount
    <3>3. QED BY <3>2
  <2>32. CASE DispFlag
    <3>1. /\ disp'.pc = disp.pc /\ disp'.n = disp.n
          /\ UNCHANGED <<ring, rec>>
      BY <2>32 DEF TypeShow, DisplayRec, DispFlag, shown, RecycleFlag
    <3>2. RingOK'
      BY <3>1 DEF RingOK, RingCount
    <3>3. QED BY <3>2
  <2>33. CASE av_sync_pop_frame
    <3>1. /\ disp.pc = "pop" /\ disp'.pc \in {"flip", "end"} /\ disp'.n = disp.n
          /\ UNCHANGED <<ring, rec>>
      BY <2>33, PopOutcome DEF av_sync_pop_frame
    <3>2. RingOK' BY <3>1 DEF RingOK, RingCount
    <3>3. QED BY <3>2
  <2>34. CASE PopAgain
    <3>1. /\ disp.pc = "pop" /\ disp.cb = <<>> /\ ~disp.flag
          /\ syn.shown \notin {disp.f, None, Eos}
          /\ disp'.pc = "flip"
          /\ disp'.n = disp.n
          /\ UNCHANGED <<ring, rec>>
      BY <2>34 DEF TypeShow, DisplayRec, PopAgain, shown, dispIdle
    <3>2. RingOK' BY <3>1 DEF RingOK, RingCount
    <3>3. QED BY <3>2
  <2>35. CASE FlipFail
    <3>1. /\ disp.pc = "flip" /\ disp.cb = <<>> /\ ~disp.flag
          /\ disp'.pc = "pop"
          /\ disp'.n = disp.n
          /\ UNCHANGED <<ring, rec>>
      BY <2>35 DEF TypeShow, DisplayRec, FlipFail, shown, dispIdle
    <3>2. RingOK' BY <3>1 DEF RingOK, RingCount
    <3>3. QED BY <3>2
  <2>36. CASE Flip
    <3>1. /\ disp.pc = "flip" /\ disp.cb = <<>> /\ ~disp.flag
          /\ \/ /\ disp.f = None /\ ring' = ring /\ disp'.pc = "pop"
                /\ disp'.cb = <<>> /\ disp'.n = disp.n
             \/ /\ disp.f # None /\ ring.n = RingLen /\ ring' = ring
                /\ disp'.pc = "pop" /\ disp'.cb = <<disp.f>> /\ disp'.n = disp.n
             \/ /\ disp.f # None /\ ring.n # RingLen /\ rec.pc # "dec"
                /\ disp'.pc = "inc" /\ disp'.cb = <<>> /\ disp'.n = ring.n
                /\ ring'.slot = [ring.slot EXCEPT ![ring.wi] = disp.f]
                /\ ring'.wi = (ring.wi + 1) % RingLen
          /\ ring'.ri = ring.ri /\ ring'.n = ring.n
          /\ UNCHANGED <<rec>>
      BY <2>36 DEF TypeShow, DisplayRec, TypeRing, RingRec, May, Flip, shown,
        dispIdle, RingFull, Replaced
    <3>2. RingOK'
      <4>1. /\ ring.ri \in 0 .. RingLen - 1 /\ ring.wi \in 0 .. RingLen - 1
            /\ ring.n \in 0..RingLen
        BY DEF TypeRing, RingRec
      <4>2. CASE disp'.pc = "pop"
        <5>1. /\ ring'.wi = ring.wi /\ ring'.ri = ring.ri /\ ring'.n = ring.n
          BY <3>1, <4>2
        <5>2. RingCount' = RingCount BY <3>1, <4>2, <5>1 DEF RingCount
        <5>3. QED BY <3>1, <4>2, <5>1, <5>2 DEF RingOK
      <4>3. CASE disp'.pc = "inc"
        <5>1. /\ rec.pc # "dec" /\ ring.n < RingLen /\ disp'.n = ring.n
              /\ ring'.wi = (ring.wi + 1) % RingLen
          BY <3>1, <4>1, <4>3
        <5>2. RingCount = ring.n /\ RingCount' = ring.n + 1
          BY <3>1, <4>1, <4>3, <5>1 DEF RingCount
        <5>3. (ring.wi + 1) % RingLen = (ring.ri + (ring.n + 1)) % RingLen
          <6>1. ring.wi = (ring.ri + ring.n) % RingLen BY <5>2 DEF RingOK
          <6>2. ring.wi = IF ring.ri + ring.n < RingLen THEN ring.ri + ring.n
                          ELSE ring.ri + ring.n - RingLen
            BY <4>1, <6>1, RingPos
          <6>3. (ring.ri + (ring.n + 1)) % RingLen
                  = IF ring.ri + (ring.n + 1) < RingLen THEN ring.ri + (ring.n + 1)
                    ELSE ring.ri + (ring.n + 1) - RingLen
            <7>1. ring.n + 1 \in 0..RingLen BY <4>1, <5>1
            <7>2. QED BY <4>1, <7>1, RingPos
          <6>4. (ring.wi + 1) % RingLen = IF ring.wi + 1 = RingLen THEN 0 ELSE ring.wi + 1
            BY <4>1, RingStep
          <6>5. QED BY <4>1, <5>1, <6>2, <6>3, <6>4
        <5>4. ring'.ri = ring.ri /\ ring'.n = ring.n /\ rec' = rec
          BY <3>1
        <5>5. RingCount' \in 0..RingLen BY <4>1, <5>1, <5>2
        <5>6. ring'.wi = (ring'.ri + RingCount') % RingLen
          BY <5>1, <5>2, <5>3, <5>4
        <5>7. QED BY <4>3, <5>1, <5>4, <5>5, <5>6 DEF RingOK
      <4>4. QED BY <3>1, <4>2, <4>3
    <3>3. QED BY <3>2
  <2>37. CASE RingInc
    <3>1. /\ disp.pc = "inc"
          /\ disp'.pc = "pop"
          /\ disp'.n = 0
          /\ ring'.n = disp.n + 1
          /\ ring'.ri = ring.ri /\ ring'.wi = ring.wi
          /\ UNCHANGED <<rec>>
      BY <2>37 DEF TypeShow, DisplayRec, TypeRing, RingRec, RingInc, shown
    <3>2. RingOK'
      <4>1. rec.pc # "dec" /\ disp.n = ring.n /\ ring.n \in 0..RingLen
        BY <3>1 DEF RingOK, TypeRing, RingRec
      <4>2. RingCount' = RingCount BY <3>1, <4>1 DEF RingCount
      <4>3. QED BY <3>1, <4>1, <4>2 DEF RingOK
    <3>3. QED BY <3>2
  <2>38. CASE VblankFail
    <3>1. /\ disp.pc = "pop" /\ disp.cb = <<>> /\ ~disp.flag
          /\ disp'.pc = "done"
          /\ disp'.n = disp.n
          /\ UNCHANGED <<ring, rec>>
      BY <2>38 DEF TypeShow, DisplayRec, VblankFail, shown, dispIdle
    <3>2. RingOK' BY <3>1 DEF RingOK, RingCount
    <3>3. QED BY <3>2
  <2>39. CASE DispQuit
    <3>1. /\ disp.pc = "pop" /\ disp.cb = <<>> /\ ~disp.flag
          /\ disp'.pc = "end"
          /\ disp'.n = disp.n
          /\ UNCHANGED <<ring, rec>>
      BY <2>39 DEF TypeShow, DisplayRec, DispQuit, shown, dispIdle
    <3>2. RingOK' BY <3>1 DEF RingOK, RingCount
    <3>3. QED BY <3>2
  <2>40. CASE DispEnd
    <3>1. /\ disp.pc = "end" /\ disp.cb = <<>> /\ ~disp.flag
          /\ disp'.pc = "done"
          /\ disp'.n = disp.n
          /\ UNCHANGED <<ring, rec>>
      BY <2>40 DEF TypeShow, DisplayRec, DispEnd, shown, dispIdle
    <3>2. RingOK' BY <3>1 DEF RingOK, RingCount
    <3>3. QED BY <3>2
  <2>41. CASE dequeue_frame
    <3>1. /\ rec.pc = "run" /\ ring.n # 0
          /\ disp.pc # "inc"
          /\ ring'.ri = (ring.ri + 1) % RingLen
          /\ ring'.wi = ring.wi /\ ring'.n = ring.n
          /\ rec'.pc = "dec"
          /\ rec'.f = ring.slot[ring.ri]
          /\ rec'.n = ring.n
          /\ UNCHANGED <<disp>>
      BY <2>41 DEF TypeRing, RingRec, RecycleRec, May, dequeue_frame, shown
    <3>2. RingOK'
      <4>1. /\ ring.ri \in 0 .. RingLen - 1 /\ ring.wi \in 0 .. RingLen - 1
            /\ ring.n \in 0..RingLen /\ ring.n # 0
        BY <3>1 DEF TypeRing, RingRec
      <4>2. RingCount = ring.n /\ RingCount' = ring.n - 1
        BY <3>1, <4>1 DEF RingCount
      <4>3. ring.wi = (((ring.ri + 1) % RingLen) + (ring.n - 1)) % RingLen
        <5>1. ring.wi = (ring.ri + ring.n) % RingLen BY <4>2 DEF RingOK
        <5>2. ring.wi = IF ring.ri + ring.n < RingLen THEN ring.ri + ring.n
                        ELSE ring.ri + ring.n - RingLen
          BY <4>1, <5>1, RingPos
        <5>3. /\ (ring.ri + 1) % RingLen \in 0 .. RingLen - 1
              /\ (ring.ri + 1) % RingLen = IF ring.ri + 1 = RingLen THEN 0 ELSE ring.ri + 1
          BY <4>1, RingStep
        <5>4. PICK r \in 0 .. RingLen - 1 : r = (ring.ri + 1) % RingLen
          BY <5>3
        <5>5. ring.n - 1 \in 0..RingLen BY <4>1
        <5>6. (r + (ring.n - 1)) % RingLen
                = IF r + (ring.n - 1) < RingLen THEN r + (ring.n - 1)
                  ELSE r + (ring.n - 1) - RingLen
          BY <5>5, RingPos
        <5>7. ring.wi = (r + (ring.n - 1)) % RingLen
          BY <4>1, <5>2, <5>3, <5>4, <5>6
        <5>8. QED BY <5>4, <5>7
      <4>4. QED BY <3>1, <4>1, <4>2, <4>3 DEF RingOK
    <3>3. QED BY <3>2
  <2>42. CASE RingDec
    <3>1. /\ rec.pc = "dec"
          /\ ring'.n = rec.n - 1
          /\ ring'.ri = ring.ri /\ ring'.wi = ring.wi
          /\ rec'.pc = IF rec.f = None THEN "run" ELSE "fence"
          /\ rec'.n = 0
          /\ rec'.f = rec.f
          /\ UNCHANGED <<disp>>
      BY <2>42 DEF TypeRing, RingRec, RecycleRec, RingDec, shown
    <3>2. RingOK'
      <4>1. disp.pc # "inc" /\ rec.n = ring.n /\ ring.n \in 0..RingLen
        BY <3>1 DEF RingOK, TypeRing, RingRec
      <4>2. RingCount' = RingCount BY <3>1, <4>1 DEF RingCount
      <4>3. QED BY <3>1, <4>1, <4>2 DEF RingOK
    <3>3. QED BY <3>2
  <2>43. CASE RecRecycle
    <3>1. /\ rec.pc = "fence"
          /\ rec'.pc = IF lock' # None THEN "flag" ELSE "run"
          /\ rec'.f = None
          /\ rec'.n = rec.n
          /\ UNCHANGED <<disp, ring>>
      BY <2>43 DEF TypeRing, RecycleRec, RecRecycle, shown, Recycle,
        RecycleQueue, RecycleFail, RecycleDrop, Requeues
    <3>2. RingOK' BY <3>1 DEF RingOK, RingCount
    <3>3. QED BY <3>2
  <2>44. CASE RecFlag
    <3>1. /\ rec.pc = "flag"
          /\ rec'.pc = "run"
          /\ rec'.f = rec.f /\ rec'.n = rec.n
          /\ UNCHANGED <<disp, ring>>
      BY <2>44 DEF TypeRing, RecycleRec, RecFlag, shown, RecycleFlag
    <3>2. RingOK' BY <3>1 DEF RingOK, RingCount
    <3>3. QED BY <3>2
  <2>45. CASE RecQuit
    <3>1. /\ rec.pc = "run"
          /\ rec'.pc = "done"
          /\ rec'.f = rec.f /\ rec'.n = rec.n
          /\ UNCHANGED <<disp, ring>>
      BY <2>45 DEF TypeRing, RecycleRec, RecQuit, shown
    <3>2. RingOK' BY <3>1 DEF RingOK, RingCount
    <3>3. QED BY <3>2
  <2>46. CASE sig_handler
    <3>1. /\ UNCHANGED <<disp, ring, rec>>
      BY <2>46 DEF sig_handler, mainOnly
    <3>2. RingOK'
      BY <3>1 DEF RingOK, RingCount
    <3>3. QED BY <3>2
  <2>47. CASE MainWakes
    <3>1. /\ UNCHANGED <<disp, ring, rec>>
      BY <2>47 DEF MainWakes, mainOnly
    <3>2. RingOK'
      BY <3>1 DEF RingOK, RingCount
    <3>3. QED BY <3>2
  <2>48. CASE dmx_destroy
    <3>1. /\ UNCHANGED <<disp, ring, rec>>
      BY <2>48 DEF dmx_destroy, mainOnly
    <3>2. RingOK'
      BY <3>1 DEF RingOK, RingCount
    <3>3. QED BY <3>2
  <2>49. CASE v4l2_dec_destroy
    <3>1. /\ UNCHANGED <<disp, ring, rec>>
      BY <2>49 DEF v4l2_dec_destroy, mainOnly
    <3>2. RingOK'
      BY <3>1 DEF RingOK, RingCount
    <3>3. QED BY <3>2
  <2>50. CASE display_engine_stop
    <3>1. /\ UNCHANGED <<disp, ring, rec>>
      BY <2>50 DEF display_engine_stop, mainOnly
    <3>2. RingOK'
      BY <3>1 DEF RingOK, RingCount
    <3>3. QED BY <3>2
  <2>51. CASE UNCHANGED vars
    BY <2>51 DEF vars, RingOK, RingCount
  <2>52. QED
    BY <2>1, <2>2, <2>3, <2>4, <2>5, <2>6, <2>7, <2>8, <2>9, <2>10, <2>11,
       <2>12, <2>13, <2>14, <2>15, <2>16, <2>17, <2>18, <2>19, <2>20, <2>21,
       <2>22, <2>23, <2>24, <2>25, <2>26, <2>27, <2>28, <2>29, <2>30, <2>31,
       <2>32, <2>33, <2>34, <2>35, <2>36, <2>37, <2>38, <2>39, <2>40, <2>41,
       <2>42, <2>43, <2>44, <2>45, <2>46, <2>47, <2>48, <2>49, <2>50, <2>51
    DEF Next, Demux, Driver, Decoder, Display, Recycler, Main
<1>3. QED BY <1>1, <1>2, BaseInvariant, PTL DEF Spec

(* Taking the first entry of a queue, and adding one at its end.           *)
LEMMA QueueEnds ==
  ASSUME NEW S, NEW s \in Seq(S)
  PROVE  /\ s # <<>> => Shifted(s, Tail(s)) /\ s[1] = Head(s) /\ Head(s) \in S
         /\ \A e \in S : Appended(s, Append(s, e), e)
BY DEF Shifted, Appended

(* The same for the frames of dequeued pictures.                           *)
LEMMA PicEnds ==
  ASSUME NEW s \in Seq(Pic)
  PROVE  /\ s # <<>> => /\ Shifted(PicSeq(s), PicSeq(Tail(s)))
                        /\ PicSeq(s)[1] = Head(s).f /\ Head(s).f \in Frame
         /\ \A e \in Pic : Appended(PicSeq(s), PicSeq(Append(s, e)), e.f)
<1>1. \A t \in Seq(Pic) : Len(PicSeq(t)) = Len(t)
                          /\ \A k \in 1..Len(t) : PicSeq(t)[k] = t[k].f
  BY DEF PicSeq
<1>2. ASSUME s # <<>>
      PROVE  Shifted(PicSeq(s), PicSeq(Tail(s))) /\ PicSeq(s)[1] = Head(s).f
             /\ Head(s).f \in Frame
  <2>1. /\ Tail(s) \in Seq(Pic) /\ Len(s) \in Nat \ {0} /\ Len(Tail(s)) = Len(s) - 1
        /\ \A k \in 1..Len(Tail(s)) : Tail(s)[k] = s[k + 1] /\ k + 1 \in 1..Len(s)
        /\ s[1] = Head(s) /\ Head(s) \in Pic
    BY <1>2
  <2>2. Head(s).f \in Frame BY <2>1 DEF Pic
  <2>3. /\ Len(PicSeq(s)) = Len(s) /\ Len(PicSeq(Tail(s))) = Len(s) - 1
        /\ \A k \in 1..Len(s) : PicSeq(s)[k] = s[k].f
        /\ \A k \in 1..Len(Tail(s)) : PicSeq(Tail(s))[k] = Tail(s)[k].f
    BY <1>1, <2>1
  <2>4. \A k \in 1..Len(Tail(s)) : PicSeq(Tail(s))[k] = PicSeq(s)[k + 1]
    BY <2>1, <2>3
  <2>5. PicSeq(s)[1] = Head(s).f
    <3>1. 1 \in 1..Len(s) BY <2>1
    <3>2. PicSeq(s)[1] = s[1].f BY <2>3, <3>1
    <3>3. QED BY <2>1, <3>2
  <2>6. Shifted(PicSeq(s), PicSeq(Tail(s))) BY <2>1, <2>3, <2>4 DEF Shifted
  <2>7. QED BY <2>2, <2>5, <2>6
<1>3. ASSUME NEW e \in Pic PROVE Appended(PicSeq(s), PicSeq(Append(s, e)), e.f)
  <2>1. /\ Append(s, e) \in Seq(Pic) /\ Len(s) \in Nat
        /\ Len(Append(s, e)) = Len(s) + 1 /\ Append(s, e)[Len(s) + 1] = e
        /\ \A k \in 1..Len(s) : Append(s, e)[k] = s[k] /\ k \in 1..Len(s) + 1
    OBVIOUS
  <2>2. /\ Len(PicSeq(s)) = Len(s) /\ Len(PicSeq(Append(s, e))) = Len(s) + 1
        /\ \A k \in 1..Len(s) : PicSeq(s)[k] = s[k].f
        /\ \A k \in 1..Len(s) + 1 : PicSeq(Append(s, e))[k] = Append(s, e)[k].f
    BY <1>1, <2>1
  <2>3. \A k \in 1..Len(s) : PicSeq(Append(s, e))[k] = PicSeq(s)[k]
    BY <2>1, <2>2
  <2>4. PicSeq(Append(s, e))[Len(s) + 1] = e.f
    BY <2>1, <2>2
  <2>5. QED BY <2>2, <2>3, <2>4 DEF Appended
<1>4. QED BY <1>2, <1>3

(* A place for one frame.                                                  *)
LEMMA OneEnds ==
  /\ \A x \in Frame : /\ Shifted(One(x), <<>>) /\ One(x)[1] = x
                      /\ Appended(<<>>, One(x), x) /\ One(x) = <<x>>
  /\ One(None) = <<>> /\ One(Eos) = <<>>
BY FrameFacts DEF One, Shifted, Appended

(* Nothing moves.                                                          *)
LEMMA SamePlaces ==
  ASSUME Apart, \A r \in Place : Places'[r] = Places[r]
  PROVE  /\ Apart'
         /\ \A f \in Item : (InPipe(f)' <=> InPipe(f)) /\ (InPort(f)' <=> InPort(f))
BY DEF Apart, ApartIn, InPipe, InPort, At, Has, Place

(* One frame moves from the front of a place to the end of another.        *)
LEMMA MoveFrame ==
  ASSUME PlacesOK, PlacesOK', Apart, NEW p \in Place, NEW q \in Place, p # q,
         NEW x, x = Places[p][1],
         Shifted(Places[p], Places'[p]), Appended(Places[q], Places'[q], x),
         \A r \in Place \ {p, q} : Places'[r] = Places[r]
  PROVE  /\ Apart' /\ x \in Item
         /\ (InPipe(x) <=> p \in Pipe) /\ (InPort(x) <=> p \notin Pipe)
         /\ (InPipe(x)' <=> q \in Pipe) /\ (InPort(x)' <=> q \notin Pipe)
         /\ \A f \in Item : f # x =>
              (InPipe(f)' <=> InPipe(f)) /\ (InPort(f)' <=> InPort(f))
<1>1. /\ ApartIn(Places') /\ x \in Item
      /\ \A r \in Place : Has(Places, r, x) <=> r = p
      /\ \A r \in Place : Has(Places', r, x) <=> r = q
      /\ \A r \in Place, f \in Item :
           f # x => (Has(Places', r, f) <=> Has(Places, r, f))
  BY MoveApart DEF PlacesOK, Typed, Apart
<1>2. \A r \in Place : r \notin Pipe <=> r \in {"queued", "decoded"}
  BY DEF Place, Pipe
<1>3. Pipe \subseteq Place /\ {"queued", "decoded"} \subseteq Place
  BY DEF Place
<1>4. \A r \in Place, f \in Item :
        (At(r, f) <=> Has(Places, r, f)) /\ (At(r, f)' <=> Has(Places', r, f))
  BY DEF At, Has
<1>5. Apart' BY <1>1 DEF Apart, ApartIn
<1>6. QED BY <1>1, <1>2, <1>3, <1>4, <1>5 DEF InPipe, InPort

(* One frame leaves the front of a place for nowhere.                      *)
LEMMA DropFrame ==
  ASSUME PlacesOK, PlacesOK', Apart, NEW p \in Place, NEW x, x = Places[p][1],
         Shifted(Places[p], Places'[p]),
         \A r \in Place \ {p} : Places'[r] = Places[r]
  PROVE  /\ Apart' /\ x \in Item
         /\ (InPipe(x) <=> p \in Pipe) /\ (InPort(x) <=> p \notin Pipe)
         /\ ~InPipe(x)' /\ ~InPort(x)'
         /\ \A f \in Item : f # x =>
              (InPipe(f)' <=> InPipe(f)) /\ (InPort(f)' <=> InPort(f))
<1>1. /\ ApartIn(Places') /\ x \in Item
      /\ \A r \in Place : Has(Places, r, x) <=> r = p
      /\ \A r \in Place : ~Has(Places', r, x)
      /\ \A r \in Place, f \in Item :
           f # x => (Has(Places', r, f) <=> Has(Places, r, f))
  BY DropApart DEF PlacesOK, Typed, Apart
<1>2. \A r \in Place : r \notin Pipe <=> r \in {"queued", "decoded"}
  BY DEF Place, Pipe
<1>3. Pipe \subseteq Place /\ {"queued", "decoded"} \subseteq Place
  BY DEF Place
<1>4. \A r \in Place, f \in Item :
        (At(r, f) <=> Has(Places, r, f)) /\ (At(r, f)' <=> Has(Places', r, f))
  BY DEF At, Has
<1>5. Apart' BY <1>1 DEF Apart, ApartIn
<1>6. QED BY <1>1, <1>2, <1>3, <1>4, <1>5 DEF InPipe, InPort

(* STREAMOFF and a failed wait for the screen empty places.                *)
LEMMA ClearPlaces ==
  ASSUME Apart, NEW C \in SUBSET Place,
         \A r \in Place \ C : Places'[r] = Places[r], \A r \in C : Places'[r] = <<>>
  PROVE  /\ Apart'
         /\ \A r \in Place, f \in Item : At(r, f)' <=> r \notin C /\ At(r, f)
<1>1. /\ ApartIn(Places')
      /\ \A r \in Place, f \in Item :
           Has(Places', r, f) <=> r \notin C /\ Has(Places, r, f)
  BY ClearApart DEF Apart
<1>2. QED BY <1>1 DEF Apart, ApartIn, At, Has

(* setup_capture_port fills the driver's queue with new buffers.           *)
LEMMA FillPlaces ==
  ASSUME Apart, NEW g \in 1..MaxGen,
         \A f \in Set(g) : ~InPipe(f) /\ ~InPort(f),
         Places'["queued"] = Setup(g),
         \A r \in Place \ {"queued"} : Places'[r] = Places[r]
  PROVE  /\ Apart'
         /\ \A f \in Item : InPipe(f)' <=> InPipe(f)
         /\ \A f \in Item : InPort(f)' => f \in Set(g) \/ InPort(f)
<1>1. \A r \in Place, f \in Set(g) : ~Has(Places, r, f)
  BY DEF InPipe, InPort, At, Place
<1>2. /\ ApartIn(Places')
      /\ \A f \in Item : Has(Places', "queued", f) <=> f \in Set(g)
      /\ \A r \in Place \ {"queued"}, f \in Item :
           Has(Places', r, f) <=> Has(Places, r, f)
  BY <1>1, FillApart DEF Apart
<1>3. Pipe \subseteq Place \ {"queued"} /\ "decoded" \in Place \ {"queued"}
  BY DEF Place, Pipe
<1>4. QED BY <1>2, <1>3 DEF Apart, ApartIn, InPipe, InPort, At, Has

(* queue_frame adds an entry to the ring ...                               *)
LEMMA RingAppended ==
  ASSUME NEW n \in 0 .. RingLen - 1, NEW S, NEW slot \in [0 .. RingLen - 1 -> S],
         NEW ri \in 0 .. RingLen - 1, NEW x \in S, NEW slot2,
         slot2 = [slot EXCEPT ![(ri + n) % RingLen] = x]
  PROVE  Appended(RingSeq(n, slot, ri), RingSeq(n + 1, slot2, ri), x)
<1>1. /\ Len(RingSeq(n, slot, ri)) = n /\ Len(RingSeq(n + 1, slot2, ri)) = n + 1
      /\ \A k \in 1..n : RingSeq(n, slot, ri)[k] = slot[(ri + k - 1) % RingLen]
      /\ \A k \in 1 .. n + 1 :
           RingSeq(n + 1, slot2, ri)[k] = slot2[(ri + k - 1) % RingLen]
  BY DEF RingSeq
<1>2. ASSUME NEW k \in 1..n
      PROVE  /\ (ri + k - 1) % RingLen \in 0 .. RingLen - 1
             /\ (ri + k - 1) % RingLen # (ri + n) % RingLen
  <2>1. k - 1 \in 0..RingLen /\ n \in 0..RingLen /\ ri + (k - 1) = ri + k - 1
    OBVIOUS
  <2>2. (ri + n) % RingLen = IF ri + n < RingLen THEN ri + n ELSE ri + n - RingLen
    BY <2>1, RingPos
  <2>3. /\ (ri + (k - 1)) % RingLen \in 0 .. RingLen - 1
        /\ (ri + (k - 1)) % RingLen
             = IF ri + (k - 1) < RingLen THEN ri + (k - 1) ELSE ri + (k - 1) - RingLen
    BY <2>1, RingPos
  <2>4. QED BY <2>1, <2>2, <2>3
<1>3. \A k \in 1..n : slot2[(ri + k - 1) % RingLen] = slot[(ri + k - 1) % RingLen]
  BY <1>2
<1>4. slot2[(ri + n) % RingLen] = x
  <2>1. (ri + n) % RingLen \in 0 .. RingLen - 1 BY RingPos
  <2>2. QED BY <2>1
<1>5. RingSeq(n + 1, slot2, ri)[n + 1] = x
  <2>1. n + 1 \in 1 .. n + 1 /\ ri + (n + 1) - 1 = ri + n OBVIOUS
  <2>2. QED BY <1>1, <1>4, <2>1
<1>6. \A k \in 1..n : RingSeq(n + 1, slot2, ri)[k] = RingSeq(n, slot, ri)[k]
  <2>1. \A k \in 1..n : k \in 1 .. n + 1 OBVIOUS
  <2>2. QED BY <1>1, <1>3, <2>1
<1>7. QED BY <1>1, <1>5, <1>6 DEF Appended

(* ... and dequeue_frame takes the first.                                  *)
LEMMA RingShifted ==
  ASSUME NEW n \in 1..RingLen, NEW slot, NEW ri \in 0 .. RingLen - 1
  PROVE  /\ Shifted(RingSeq(n, slot, ri), RingSeq(n - 1, slot, (ri + 1) % RingLen))
         /\ RingSeq(n, slot, ri)[1] = slot[ri]
<1> DEFINE r == (ri + 1) % RingLen
<1>1. r \in 0 .. RingLen - 1 /\ r = IF ri + 1 = RingLen THEN 0 ELSE ri + 1
  BY RingStep
<1> HIDE DEF r
<1>2. /\ Len(RingSeq(n, slot, ri)) = n /\ Len(RingSeq(n - 1, slot, r)) = n - 1
      /\ \A k \in 1..n : RingSeq(n, slot, ri)[k] = slot[(ri + k - 1) % RingLen]
      /\ \A k \in 1 .. n - 1 :
           RingSeq(n - 1, slot, r)[k] = slot[(r + k - 1) % RingLen]
  BY <1>1 DEF RingSeq
<1>3. ASSUME NEW k \in 1 .. n - 1
      PROVE  (r + k - 1) % RingLen = (ri + (k + 1) - 1) % RingLen
  <2>1. /\ k - 1 \in 0..RingLen /\ k \in 0..RingLen /\ r + (k - 1) = r + k - 1
        /\ ri + k = ri + (k + 1) - 1
    BY <1>1
  <2>2. (r + (k - 1)) % RingLen
          = IF r + (k - 1) < RingLen THEN r + (k - 1) ELSE r + (k - 1) - RingLen
    BY <1>1, <2>1, RingPos
  <2>3. (ri + k) % RingLen = IF ri + k < RingLen THEN ri + k ELSE ri + k - RingLen
    BY <2>1, RingPos
  <2>4. (r + (k - 1)) % RingLen = (ri + k) % RingLen
    BY <1>1, <2>2, <2>3
  <2>5. QED BY <2>1, <2>4
<1>4. \A k \in 1 .. n - 1 : RingSeq(n - 1, slot, r)[k] = RingSeq(n, slot, ri)[k + 1]
  <2>1. \A k \in 1 .. n - 1 : k + 1 \in 1..n OBVIOUS
  <2>2. QED BY <1>2, <1>3, <2>1
<1>5. RingSeq(n, slot, ri)[1] = slot[ri]
  <2>1. 1 \in 1..n /\ ri + 1 - 1 = ri /\ ri % RingLen = ri OBVIOUS
  <2>2. QED BY <1>2, <2>1
<1>6. QED BY <1>2, <1>4, <1>5 DEF Shifted, r

(* A flip: the frame on the screen goes to the ring or is to be recycled,  *)
(* the one that av_sync shows takes its place.                             *)
LEMMA FlipFrames ==
  ASSUME PlacesOK, PlacesOK', Apart, NEW q \in {"cb", "ring"},
         NEW x \in Frame, NEW y \in Frame,
         Places["screen"] = One(x), Places["shown"] = One(y),
         Appended(Places[q], Places'[q], x),
         Places'["screen"] = One(y), Places'["shown"] = <<>>,
         \A r \in Place \ {"screen", "shown", q} : Places'[r] = Places[r]
  PROVE  /\ Apart'
         /\ \A f \in Item : (InPipe(f)' <=> InPipe(f)) /\ (InPort(f)' <=> InPort(f))
<1> DEFINE M == [r \in Place |-> IF r = "screen" THEN <<>>
                                 ELSE IF r = q THEN Places'[q] ELSE Places[r]]
<1>1. /\ {"screen", "shown", q} \subseteq Pipe /\ q \notin {"screen", "shown"}
      /\ Pipe \subseteq Place /\ {"queued", "decoded"} \subseteq Place \ Pipe
  BY DEF Place, Pipe
<1>2. /\ M["screen"] = <<>> /\ M[q] = Places'[q] /\ M["shown"] = One(y)
      /\ \A r \in Place \ {"screen", q} : M[r] = Places[r]
  BY <1>1
<1>3. Typed(Places) /\ Typed(Places') BY DEF PlacesOK, Typed
<1>4. Typed(M) BY <1>3 DEF Typed
<1> HIDE DEF M
<1>5. /\ Shifted(Places["screen"], M["screen"]) /\ Places["screen"][1] = x
      /\ Shifted(M["shown"], Places'["shown"]) /\ M["shown"][1] = y
      /\ Appended(M["screen"], Places'["screen"], y)
      /\ Appended(Places[q], M[q], x)
  BY <1>2, OneEnds
<1>6. /\ ApartIn(M)
      /\ \A r \in Place : Has(Places, r, x) <=> r = "screen"
      /\ \A r \in Place : Has(M, r, x) <=> r = q
      /\ \A r \in Place, f \in Item : f # x => (Has(M, r, f) <=> Has(Places, r, f))
  BY <1>1, <1>2, <1>3, <1>4, <1>5, MoveApart DEF Apart
<1>7. \A r \in Place \ {"shown", "screen"} : Places'[r] = M[r]
  BY <1>2
<1>8. /\ ApartIn(Places')
      /\ \A r \in Place : Has(M, r, y) <=> r = "shown"
      /\ \A r \in Place : Has(Places', r, y) <=> r = "screen"
      /\ \A r \in Place, f \in Item : f # y => (Has(Places', r, f) <=> Has(M, r, f))
  <2>1. "shown" \in Place /\ "screen" \in Place /\ "shown" # "screen" /\ ApartIn(M)
    BY <1>1, <1>6
  <2>2. QED BY <1>3, <1>4, <1>5, <1>7, <2>1, MoveApart
<1>9. \A r \in Place, f \in Item :
        (At(r, f) <=> Has(Places, r, f)) /\ (At(r, f)' <=> Has(Places', r, f))
  BY DEF At, Has
<1>10. Apart' BY <1>8 DEF Apart, ApartIn
<1>11. ASSUME NEW f \in Item
       PROVE  (InPipe(f)' <=> InPipe(f)) /\ (InPort(f)' <=> InPort(f))
  <2>1. \A r \in {"queued", "decoded"} : At(r, f)' <=> At(r, f)
    BY <1>1, <1>6, <1>8, <1>9
  <2>2. CASE f \in {x, y}
    <3>1. /\ \E r \in Pipe : Has(Places, r, f)
          /\ \E r \in Pipe : Has(Places', r, f)
      BY <1>1, <1>6, <1>8, <2>2
    <3>2. QED BY <1>1, <1>9, <2>1, <3>1 DEF InPipe, InPort
  <2>3. CASE f \notin {x, y}
    <3>1. \A r \in Place : At(r, f)' <=> At(r, f)
      BY <1>6, <1>8, <1>9, <2>3
    <3>2. QED BY <1>1, <3>1 DEF InPipe, InPort
  <2>4. QED BY <2>2, <2>3
<1>12. QED BY <1>10, <1>11

(* av_sync_pop_frame: the first or second frame is shown, one before it is *)
(* to be recycled, and what was shown before is forgotten.                 *)
LEMMA PopFrames ==
  ASSUME PlacesOK, PlacesOK', Apart, NEW n \in {1, 2}, n <= Len(Places["sync"]),
         Len(Places'["sync"]) = Len(Places["sync"]) - n,
         \A i \in 1..Len(Places'["sync"]) : Places'["sync"][i] = Places["sync"][i + n],
         Len(Places'["cb"]) = n - 1,
         \A i \in 1..Len(Places'["cb"]) : Places'["cb"][i] = Places["sync"][1],
         Places["cb"] = <<>>, Places'["shown"] = One(Places["sync"][n]),
         \A r \in Place \ {"sync", "shown", "cb"} : Places'[r] = Places[r]
  PROVE  /\ Apart'
         /\ \A f \in Item : (InPipe(f)' => InPipe(f)) /\ (InPort(f)' <=> InPort(f))
         /\ \A f \in Frame : InPipe(f) => InPipe(f)' \/ At("shown", f)
<1> DEFINE at(r)    == IF r \in {"cb", "shown"} THEN "sync" ELSE r
           pos(r, i) == IF r = "sync" THEN i + n ELSE IF r = "cb" THEN 1
                        ELSE IF r = "shown" THEN n ELSE i
<1>1. /\ {"sync", "shown", "cb"} \subseteq Pipe /\ Pipe \subseteq Place
      /\ {"queued", "decoded"} \subseteq Place \ Pipe
  BY DEF Place, Pipe
<1>2. /\ \A r \in Place : Len(Places[r]) \in Nat /\ Len(Places'[r]) \in Nat
      /\ Len(Places'["shown"]) <= 1
      /\ \A i \in 1..Len(Places'["shown"]) : i = 1 /\ Places'["shown"][i] = Places["sync"][n]
  <2>1. \A r \in Place : Places[r] \in Seq(Item) /\ Places'[r] \in Seq(Item)
    BY DEF PlacesOK, Typed
  <2>2. QED BY <2>1 DEF One
<1>3. ASSUME NEW r \in Place, NEW i \in 1..Len(Places'[r])
      PROVE  /\ at(r) \in Place /\ pos(r, i) \in 1..Len(Places[at(r)])
             /\ Places[at(r)][pos(r, i)] = Places'[r][i]
  <2>1. CASE r = "sync" BY <1>1, <1>2, <2>1
  <2>2. CASE r = "cb" BY <1>1, <1>2, <2>2
  <2>3. CASE r = "shown" BY <1>1, <1>2, <2>3
  <2>4. CASE r \notin {"sync", "cb", "shown"} BY <1>2, <2>4
  <2>5. QED BY <2>1, <2>2, <2>3, <2>4
<1>4. ASSUME NEW r \in Place, NEW s \in Place, NEW i \in 1..Len(Places'[r]),
             NEW j \in 1..Len(Places'[s]), at(r) = at(s), pos(r, i) = pos(s, j)
      PROVE  r = s /\ i = j
  <2>1. r = "cb" => n = 2 /\ i = 1 BY <1>1, <1>2
  <2>2. s = "cb" => n = 2 /\ j = 1 BY <1>1, <1>2
  <2>3. (r = "shown" => i = 1) /\ (s = "shown" => j = 1) BY <1>2
  <2>4. QED BY <1>2, <1>4, <2>1, <2>2, <2>3
<1>5. Apart'
  <2> SUFFICES ASSUME NEW r \in Place, NEW s \in Place, NEW i \in 1..Len(Places'[r]),
                      NEW j \in 1..Len(Places'[s]), Places'[r][i] = Places'[s][j]
               PROVE  r = s /\ i = j
    BY DEF Apart, ApartIn
  <2>1. /\ at(r) \in Place /\ pos(r, i) \in 1..Len(Places[at(r)])
        /\ at(s) \in Place /\ pos(s, j) \in 1..Len(Places[at(s)])
        /\ Places[at(r)][pos(r, i)] = Places[at(s)][pos(s, j)]
    BY <1>3
  <2>2. at(r) = at(s) /\ pos(r, i) = pos(s, j)
    <3> HIDE DEF at, pos
    <3>1. QED BY <2>1 DEF Apart, ApartIn
  <2>3. QED BY <1>4, <2>2
<1>6. \A r \in Place, f \in Item :
        (At(r, f) <=> Has(Places, r, f)) /\ (At(r, f)' <=> Has(Places', r, f))
  BY DEF At, Has
<1>7. \A r \in Place, f \in Item : At(r, f)' => At(at(r), f)
  <2>1. \A r \in Place, f \in Item : Has(Places', r, f) => Has(Places, at(r), f)
    <3> SUFFICES ASSUME NEW r \in Place, NEW f \in Item,
                        NEW i \in 1..Len(Places'[r]), Places'[r][i] = f
                 PROVE  Has(Places, at(r), f)
      BY DEF Has
    <3>1. pos(r, i) \in 1..Len(Places[at(r)]) /\ Places[at(r)][pos(r, i)] = f
      BY <1>3
    <3> HIDE DEF at, pos
    <3>2. QED BY <3>1 DEF Has
  <2>2. \A r \in Place : at(r) \in Place BY <1>1
  <2>3. QED BY <1>6, <2>1, <2>2
<1>8. \A r \in Place \ {"sync", "shown", "cb"}, f \in Item : At(r, f)' <=> At(r, f)
  <2>1. \A r \in Place \ {"sync", "shown", "cb"}, f \in Item :
          Has(Places', r, f) <=> Has(Places, r, f)
    BY DEF Has
  <2>2. QED BY <1>6, <2>1
<1>9. \A f : ~Has(Places, "cb", f)
  BY DEF Has
<1>10. ASSUME NEW f \in Frame, Has(Places, "sync", f)
       PROVE  \E r \in Pipe : Has(Places', r, f)
  <2>1. PICK i \in 1..Len(Places["sync"]) : Places["sync"][i] = f
    BY <1>10 DEF Has
  <2>2. i \in Nat /\ Len(Places["sync"]) \in Nat BY <1>1, <1>2
  <2>3. CASE i > n
    <3>1. i - n \in 1..Len(Places'["sync"]) /\ Places'["sync"][i - n] = f
      <4>1. i - n \in 1..Len(Places'["sync"]) /\ (i - n) + n = i BY <2>2, <2>3
      <4>2. QED BY <2>1, <4>1
    <3>2. QED BY <1>1, <3>1 DEF Has
  <2>4. CASE i = n
    <3>1. Places'["shown"] = <<f>> BY <2>1, <2>4, OneEnds
    <3>2. Len(Places'["shown"]) = 1 /\ Places'["shown"][1] = f BY <3>1
    <3>3. QED BY <1>1, <3>2 DEF Has
  <2>5. CASE i < n
    <3>1. i = 1 /\ n = 2 BY <2>2, <2>5
    <3>2. 1 \in 1..Len(Places'["cb"]) /\ Places'["cb"][1] = f BY <2>1, <3>1
    <3>3. QED BY <1>1, <3>2 DEF Has
  <2>6. QED BY <2>2, <2>3, <2>4, <2>5
<1>11. \A f \in Item : (InPipe(f)' => InPipe(f)) /\ (InPort(f)' <=> InPort(f))
  <2>1. \A r \in Pipe : at(r) \in Pipe BY <1>1
  <2> HIDE DEF at, pos
  <2>2. QED BY <1>1, <1>7, <1>8, <2>1 DEF InPipe, InPort
<1>12. ASSUME NEW f \in Frame, InPipe(f) PROVE InPipe(f)' \/ At("shown", f)
  <2>0. f \in Item BY DEF Item
  <2>1. PICK r \in Pipe : At(r, f) BY <1>12 DEF InPipe
  <2>2. CASE r = "sync"
    <3>1. \E t \in Pipe : Has(Places', t, f)
      BY <1>1, <1>6, <1>10, <2>0, <2>1, <2>2
    <3>2. QED BY <1>1, <1>6, <2>0, <3>1 DEF InPipe
  <2>3. CASE r = "shown" BY <2>1, <2>3
  <2>4. CASE r = "cb" BY <1>1, <1>6, <1>9, <2>0, <2>1, <2>4
  <2>5. CASE r \notin {"sync", "shown", "cb"}
    BY <1>1, <1>8, <2>0, <2>1, <2>5 DEF InPipe
  <2>6. QED BY <2>2, <2>3, <2>4, <2>5
<1>13. QED BY <1>5, <1>11, <1>12

(* The end of the display thread: what is on the screen is to be recycled, *)
(* and av_sync's frame is forgotten.                                       *)
LEMMA EndFrames ==
  ASSUME PlacesOK, PlacesOK', Apart, NEW x \in Frame,
         Places["screen"] = One(x), Places["cb"] = <<>>, Places'["cb"] = <<x>>,
         Places'["screen"] = <<>>, Places'["shown"] = <<>>,
         \A r \in Place \ {"screen", "shown", "cb"} : Places'[r] = Places[r]
  PROVE  /\ Apart'
         /\ \A f \in Item : (InPipe(f)' => InPipe(f)) /\ (InPort(f)' <=> InPort(f))
         /\ \A f \in Item : InPipe(f) => InPipe(f)' \/ At("shown", f)
<1> DEFINE M == [r \in Place |-> IF r = "shown" THEN <<>> ELSE Places[r]]
<1>1. /\ {"screen", "shown", "cb"} \subseteq Pipe /\ Pipe \subseteq Place
      /\ {"queued", "decoded"} \subseteq Place \ Pipe
  BY DEF Place, Pipe
<1>2. M["shown"] = <<>> /\ \A r \in Place \ {"shown"} : M[r] = Places[r]
  BY <1>1
<1>3. Typed(Places) /\ Typed(Places') BY DEF PlacesOK, Typed
<1>4. Typed(M) BY <1>3 DEF Typed
<1> HIDE DEF M
<1>5. /\ ApartIn(M)
      /\ \A r \in Place, f \in Item : Has(M, r, f) <=> r # "shown" /\ Has(Places, r, f)
  <2>1. PICK C : C = {"shown"} OBVIOUS
  <2>2. /\ \A r \in Place \ C : M[r] = Places[r]
        /\ \A r \in C : M[r] = <<>>
    BY <1>2, <2>1
  <2>3. /\ ApartIn(M)
        /\ \A r \in Place, f \in Item : Has(M, r, f) <=> r \notin C /\ Has(Places, r, f)
    BY <2>2, ClearApart DEF Apart
  <2>4. QED BY <2>1, <2>3
<1>6. /\ Shifted(M["screen"], Places'["screen"]) /\ M["screen"][1] = x
      /\ Appended(M["cb"], Places'["cb"], x)
  <2>1. M["screen"] = One(x) /\ M["cb"] = <<>> /\ One(x) = <<x>>
    BY <1>1, <1>2, OneEnds
  <2>2. QED BY <2>1, OneEnds
<1>7. \A r \in Place \ {"screen", "cb"} : Places'[r] = M[r]
  BY <1>2
<1>8. /\ ApartIn(Places')
      /\ \A r \in Place : Has(M, r, x) <=> r = "screen"
      /\ \A r \in Place : Has(Places', r, x) <=> r = "cb"
      /\ \A r \in Place, f \in Item : f # x => (Has(Places', r, f) <=> Has(M, r, f))
  <2>1. "screen" \in Place /\ "cb" \in Place /\ "screen" # "cb" /\ ApartIn(M)
    BY <1>1, <1>5
  <2>2. QED BY <1>3, <1>4, <1>6, <1>7, <2>1, MoveApart
<1>9. \A r \in Place, f \in Item :
        (At(r, f) <=> Has(Places, r, f)) /\ (At(r, f)' <=> Has(Places', r, f))
  BY DEF At, Has
<1>10. Apart' BY <1>8 DEF Apart, ApartIn
<1>11. ASSUME NEW f \in Item
       PROVE  /\ InPipe(f)' => InPipe(f)
              /\ InPort(f)' <=> InPort(f)
              /\ InPipe(f) => InPipe(f)' \/ At("shown", f)
  <2>1. CASE f = x
    <3>1. /\ \A r \in {"queued", "decoded"} : ~At(r, f)' /\ ~At(r, f)
          /\ At("screen", f) /\ At("cb", f)'
      BY <1>1, <1>5, <1>8, <1>9, <2>1
    <3>2. QED BY <1>1, <3>1 DEF InPipe, InPort
  <2>2. CASE f # x
    <3>1. \A r \in Place : At(r, f)' <=> r # "shown" /\ At(r, f)
      BY <1>5, <1>8, <1>9, <2>2
    <3>2. QED BY <1>1, <3>1 DEF InPipe, InPort
  <2>3. QED BY <2>1, <2>2
<1>12. QED BY <1>10, <1>11

(* No entries, no places taken.                                            *)
LEMMA EmptySeqs ==
  /\ PicSeq(<<>>) = <<>> /\ \A slot, ri : RingSeq(0, slot, ri) = <<>>
<1>1. 1..0 = {} /\ Len(<<>>) = 0 OBVIOUS
<1>2. PicSeq(<<>>) = <<>>
  <2>1. PicSeq(<<>>) \in Seq(Frame) /\ Len(PicSeq(<<>>)) = 0
    BY <1>1 DEF PicSeq
  <2>2. QED BY <2>1
<1>3. ASSUME NEW slot, NEW ri PROVE RingSeq(0, slot, ri) = <<>>
  <2>1. RingSeq(0, slot, ri) \in Seq(Frame) /\ Len(RingSeq(0, slot, ri)) = 0
    BY <1>1 DEF RingSeq
  <2>2. QED BY <2>1
<1>4. QED BY <1>2, <1>3

(* The sets of buffers, by their generation.                               *)
LEMMA FrameSets ==
  /\ \A f \in Frame : f[1] \in Nat /\ f[1] # 0 /\ f \in Set(f[1])
  /\ \A g \in Nat : \A f \in Set(g) : f[1] = g
  /\ Eos[1] = 0 /\ None[1] = 0
BY DEF Frame, Set, Eos, None

(* The types that the frames' invariant rests on.                          *)
LEMMA FrameTypes ==
  ASSUME BaseInv, PlacesOK
  PROVE  /\ cap.alive \subseteq Frame /\ cap.queued \subseteq Frame
         /\ lock \in Frame \cup {None} /\ cap.gen \in 0..MaxGen
         /\ Frame \subseteq Item /\ None \in Item /\ Eos \in Item
         /\ None \notin Frame /\ Eos \notin Frame /\ None # Eos
         /\ \A f \in Item : f \in Frame \/ f = None \/ f = Eos
         /\ \A f : InPort(f) => f \in Frame
<1>1. \A f : InPort(f) => f \in Frame
  <2>1. Places["queued"] \in Seq(Frame) /\ Places["decoded"] \in Seq(Frame)
    BY DEF PlacesOK, Place, Pipe
  <2>2. \A r \in {"queued", "decoded"} : \A k \in 1..Len(Places[r]) : Places[r][k] \in Frame
    BY <2>1
  <2>3. QED BY <2>2 DEF InPort, At, Has
<1>2. QED BY <1>1, FrameFacts DEF BaseInv, TypeCapture, CaptureRec, Item

(* FrameInv is inductive where recycled frames are marked before the       *)
(* driver returns them and the ring's count is not torn.                   *)
LEMMA FrameInvariant ==
  ASSUME "late_queued" \notin Allowed, "ring_race" \notin Allowed
  PROVE  Spec => []FrameInv
<1>1. Init => FrameInv
  <2> SUFFICES ASSUME Init PROVE FrameInv
    OBVIOUS
  <2>1. \A r \in Place : Places[r] = <<>>
    <3>1. /\ dec.hand = None /\ syn.q = <<>> /\ syn.shown = None /\ disp.f = None
          /\ disp.cb = <<>> /\ RingCount = 0 /\ rec.f = None /\ drv.capq = <<>>
          /\ drv.capd = <<>>
      BY DEF Init, RingCount
    <3>2. QED BY <3>1, PlacesAre, OneEnds, EmptySeqs DEF Place, Pipe, ShownSeq
  <2>2. \A r \in Place : 1..Len(Places[r]) = {}
    BY <2>1
  <2>3. Apart /\ \A f : ~InPipe(f) /\ ~InPort(f)
    BY <2>2 DEF Apart, ApartIn, InPipe, InPort, At, Has, Place
  <2>4. QED
    BY <2>3 DEF Init, FrameInv, ShownNew, AllAlive, FlagsTrue, ReplacedMarked, Halted,
      Kept
<1>2. BaseInv /\ PlacesOK /\ PlacesOK' /\ RingOK /\ RingOK' /\ FrameInv /\ [Next]_vars
        => FrameInv'
  <2> SUFFICES ASSUME BaseInv, PlacesOK, PlacesOK', RingOK, RingOK', FrameInv,
                      [Next]_vars
               PROVE  FrameInv'
    OBVIOUS
  <2>0. /\ cap.alive \subseteq Frame /\ cap.queued \subseteq Frame
        /\ lock \in Frame \cup {None} /\ cap.gen \in 0..MaxGen
        /\ Frame \subseteq Item /\ None \in Item /\ Eos \in Item
        /\ None \notin Frame /\ Eos \notin Frame /\ None # Eos
        /\ \A f \in Item : f \in Frame \/ f = None \/ f = Eos
        /\ \A f : InPort(f) => f \in Frame
    BY FrameTypes
  <2> USE DEF BaseInv, FrameInv
  <2>1. CASE av_read_frame
    <3>1. /\ dmx.pc = "read" /\ dmx.n < MaxPackets
          /\ dmx'.left \in 1..2
          /\ UNCHANGED <<drv, dec, cap, lock, syn, disp, ring, rec, parked>>
      BY <2>1 DEF av_read_frame, dmxOnly
    <3>2. /\ Apart'
          /\ \A f \in Item : (InPipe(f)' <=> InPipe(f)) /\ (InPort(f)' <=> InPort(f))
      <4>1. \A r \in Place : Places'[r] = Places[r]
        BY <3>1, PlacesAre, PlacesNext DEF Place, Pipe, RingCount
      <4>2. QED BY <4>1, SamePlaces
    <3>3. ShownNew' /\ AllAlive' /\ FlagsTrue' /\ ReplacedMarked' /\ Halted' /\
        Kept'
      BY <2>0, <3>1, <3>2 DEF ShownNew, AllAlive, FlagsTrue, ReplacedMarked,
        Halted, Kept
    <3>4. QED BY <3>2, <3>3
  <2>2. CASE DmxQuit
    <3>1. /\ UNCHANGED <<drv, dec, cap, lock, syn, disp, ring, rec, parked>>
      BY <2>2 DEF DmxQuit, dmxOnly
    <3>2. /\ Apart'
          /\ \A f \in Item : (InPipe(f)' <=> InPipe(f)) /\ (InPort(f)' <=> InPort(f))
      <4>1. \A r \in Place : Places'[r] = Places[r]
        BY <3>1, PlacesAre, PlacesNext DEF Place, Pipe, RingCount
      <4>2. QED BY <4>1, SamePlaces
    <3>3. ShownNew' /\ AllAlive' /\ FlagsTrue' /\ ReplacedMarked' /\ Halted' /\
        Kept'
      BY <2>0, <3>1, <3>2 DEF ShownNew, AllAlive, FlagsTrue, ReplacedMarked,
        Halted, Kept
    <3>4. QED BY <3>2, <3>3
  <2>3. CASE v4l2_dec_eos
    <3>1. /\ dmx.pc = "read"
          /\ drv'.capq = drv.capq /\ drv'.capd = drv.capd /\ drv'.st = drv.st
          /\ UNCHANGED <<dec, cap, lock, syn, disp, ring, rec, parked>>
      BY <2>3 DEF TypeDriver, DriverRec, v4l2_dec_eos
    <3>2. /\ Apart'
          /\ \A f \in Item : (InPipe(f)' <=> InPipe(f)) /\ (InPort(f)' <=> InPort(f))
      <4>1. \A r \in Place : Places'[r] = Places[r]
        BY <3>1, PlacesAre, PlacesNext DEF Place, Pipe, RingCount
      <4>2. QED BY <4>1, SamePlaces
    <3>3. ShownNew' /\ AllAlive' /\ FlagsTrue' /\ ReplacedMarked' /\ Halted' /\
        Kept'
      BY <2>0, <3>1, <3>2 DEF ShownNew, AllAlive, FlagsTrue, ReplacedMarked,
        Halted, Kept
    <3>4. QED BY <3>2, <3>3
  <2>4. CASE get_free_output_buf
    <3>1. /\ dmx.pc = "write" /\ cur = 0
          /\ cur' \in OutIdx
          /\ UNCHANGED <<drv, dec, cap, lock, syn, disp, ring, rec, parked>>
      BY <2>4 DEF get_free_output_buf, dmxOnly
    <3>2. /\ Apart'
          /\ \A f \in Item : (InPipe(f)' <=> InPipe(f)) /\ (InPort(f)' <=> InPort(f))
      <4>1. \A r \in Place : Places'[r] = Places[r]
        BY <3>1, PlacesAre, PlacesNext DEF Place, Pipe, RingCount
      <4>2. QED BY <4>1, SamePlaces
    <3>3. ShownNew' /\ AllAlive' /\ FlagsTrue' /\ ReplacedMarked' /\ Halted' /\
        Kept'
      BY <2>0, <3>1, <3>2 DEF ShownNew, AllAlive, FlagsTrue, ReplacedMarked,
        Halted, Kept
    <3>4. QED BY <3>2, <3>3
  <2>5. CASE v4l2_dec_write_es
    <3>1. /\ dmx.pc = "write" /\ dmx.left > 0 /\ cur # 0
          /\ out' = [out EXCEPT ![cur].used = MinOf(out[cur].used + 1, Room)]
          /\ UNCHANGED <<drv, dec, cap, lock, syn, disp, ring, rec, parked>>
      BY <2>5 DEF v4l2_dec_write_es, dmxOnly, MinOf
    <3>2. /\ Apart'
          /\ \A f \in Item : (InPipe(f)' <=> InPipe(f)) /\ (InPort(f)' <=> InPort(f))
      <4>1. \A r \in Place : Places'[r] = Places[r]
        BY <3>1, PlacesAre, PlacesNext DEF Place, Pipe, RingCount
      <4>2. QED BY <4>1, SamePlaces
    <3>3. ShownNew' /\ AllAlive' /\ FlagsTrue' /\ ReplacedMarked' /\ Halted' /\
        Kept'
      BY <2>0, <3>1, <3>2 DEF ShownNew, AllAlive, FlagsTrue, ReplacedMarked,
        Halted, Kept
    <3>4. QED BY <3>2, <3>3
  <2>6. CASE DropNonKey
    <3>1. /\ dmx.pc = "write" /\ dmx.left = 0
          /\ UNCHANGED <<drv, dec, cap, lock, syn, disp, ring, rec, parked>>
      BY <2>6 DEF DropNonKey, dmxOnly
    <3>2. /\ Apart'
          /\ \A f \in Item : (InPipe(f)' <=> InPipe(f)) /\ (InPort(f)' <=> InPort(f))
      <4>1. \A r \in Place : Places'[r] = Places[r]
        BY <3>1, PlacesAre, PlacesNext DEF Place, Pipe, RingCount
      <4>2. QED BY <4>1, SamePlaces
    <3>3. ShownNew' /\ AllAlive' /\ FlagsTrue' /\ ReplacedMarked' /\ Halted' /\
        Kept'
      BY <2>0, <3>1, <3>2 DEF ShownNew, AllAlive, FlagsTrue, ReplacedMarked,
        Halted, Kept
    <3>4. QED BY <3>2, <3>3
  <2>7. CASE v4l2_dec_frame_done
    <3>1. /\ dmx.pc = "write" /\ dmx.left = 0
          /\ out' = [out EXCEPT ![cur].queued = TRUE]
          /\ UNCHANGED <<drv, dec, cap, lock, syn, disp, ring, rec, parked>>
      BY <2>7 DEF v4l2_dec_frame_done, dmxOnly
    <3>2. /\ Apart'
          /\ \A f \in Item : (InPipe(f)' <=> InPipe(f)) /\ (InPort(f)' <=> InPort(f))
      <4>1. \A r \in Place : Places'[r] = Places[r]
        BY <3>1, PlacesAre, PlacesNext DEF Place, Pipe, RingCount
      <4>2. QED BY <4>1, SamePlaces
    <3>3. ShownNew' /\ AllAlive' /\ FlagsTrue' /\ ReplacedMarked' /\ Halted' /\
        Kept'
      BY <2>0, <3>1, <3>2 DEF ShownNew, AllAlive, FlagsTrue, ReplacedMarked,
        Halted, Kept
    <3>4. QED BY <3>2, <3>3
  <2>8. CASE OutQbuf
    <3>1. /\ dmx.pc = "qbuf"
          /\ drv'.capq = drv.capq /\ drv'.capd = drv.capd /\ drv'.st = drv.st
          /\ UNCHANGED <<dec, cap, lock, syn, disp, ring, rec, parked>>
      BY <2>8 DEF TypeDriver, DriverRec, OutQbuf
    <3>2. /\ Apart'
          /\ \A f \in Item : (InPipe(f)' <=> InPipe(f)) /\ (InPort(f)' <=> InPort(f))
      <4>1. \A r \in Place : Places'[r] = Places[r]
        BY <3>1, PlacesAre, PlacesNext DEF Place, Pipe, RingCount
      <4>2. QED BY <4>1, SamePlaces
    <3>3. ShownNew' /\ AllAlive' /\ FlagsTrue' /\ ReplacedMarked' /\ Halted' /\
        Kept'
      BY <2>0, <3>1, <3>2 DEF ShownNew, AllAlive, FlagsTrue, ReplacedMarked,
        Halted, Kept
    <3>4. QED BY <3>2, <3>3
  <2>9. CASE OutQbufFail
    <3>1. /\ dmx.pc = "qbuf"
          /\ UNCHANGED <<drv, dec, cap, lock, syn, disp, ring, rec, parked>>
      BY <2>9 DEF OutQbufFail, dmxOnly
    <3>2. /\ Apart'
          /\ \A f \in Item : (InPipe(f)' <=> InPipe(f)) /\ (InPort(f)' <=> InPort(f))
      <4>1. \A r \in Place : Places'[r] = Places[r]
        BY <3>1, PlacesAre, PlacesNext DEF Place, Pipe, RingCount
      <4>2. QED BY <4>1, SamePlaces
    <3>3. ShownNew' /\ AllAlive' /\ FlagsTrue' /\ ReplacedMarked' /\ Halted' /\
        Kept'
      BY <2>0, <3>1, <3>2 DEF ShownNew, AllAlive, FlagsTrue, ReplacedMarked,
        Halted, Kept
    <3>4. QED BY <3>2, <3>3
  <2>10. CASE handle_first_frame
    <3>1. /\ dmx.pc = "first"
          /\ drv'.capq = Setup(1)
          /\ drv'.st = "run"
          /\ drv'.capd = drv.capd
          /\ dec'.pc = "poll"
          /\ dec'.hand = dec.hand
          /\ cap'.gen = 1
          /\ cap'.queued = cap.queued \cup Set(1)
          /\ cap'.alive = cap.alive \cup Set(1)
          /\ cap'.recycle = cap.recycle
          /\ UNCHANGED <<lock, syn, disp, ring, rec, parked>>
      BY <2>10 DEF TypeDriver, DriverRec, TypeDecoder, DecoderRec, TypeCapture,
        CaptureRec, handle_first_frame, SetupCapture
    <3>2. /\ Apart' /\ cap.gen = 0 /\ cap.alive = {} /\ dec.pc = "none"
          /\ drv.st = "new"
          /\ \A f \in Item : (InPipe(f)' => f = Eos) /\ (InPort(f)' => f \in Set(1))
      <4>1. cap.gen = 0 /\ dec.pc = "none" /\ drv.st = "new"
        BY <3>1 DEF DecoderHas
      <4>2. cap.alive = {}
        BY <2>0, <4>1, FrameSets DEF AllAlive
      <4>3. \A f \in Item : (InPipe(f) => f = Eos) /\ ~InPort(f)
        BY <2>0, <4>2 DEF AllAlive
      <4>4. 1 \in 1..MaxGen /\ Set(1) \subseteq Frame /\ Set(1) \subseteq Item
        BY <2>0, FrameFacts
      <4>5. \A f \in Set(1) : ~InPipe(f) /\ ~InPort(f)
        BY <2>0, <4>3, <4>4
      <4>6. Places'["queued"] = Setup(1)
        BY <3>1, PlacesNext
      <4>7. \A r \in Place \ {"queued"} : Places'[r] = Places[r]
        BY <3>1, PlacesAre, PlacesNext DEF Place, Pipe, RingCount
      <4>8. /\ Apart' /\ \A f \in Item : InPipe(f)' <=> InPipe(f)
            /\ \A f \in Item : InPort(f)' => f \in Set(1) \/ InPort(f)
        BY <4>4, <4>5, <4>6, <4>7, FillPlaces
      <4>9. QED BY <4>1, <4>2, <4>3, <4>8
    <3>3. ShownNew' BY <2>0, <3>1, <3>2, FrameSets, FrameFacts DEF ShownNew
    <3>4. AllAlive' BY <2>0, <3>1, <3>2, FrameSets, FrameFacts DEF AllAlive
    <3>5. FlagsTrue' BY <2>0, <3>1, <3>2, FrameSets, FrameFacts DEF FlagsTrue
    <3>6. ReplacedMarked' BY <2>0, <3>1, <3>2, FrameSets, FrameFacts DEF
        ReplacedMarked
    <3>7. Halted' BY <2>0, <3>1, <3>2, FrameSets, FrameFacts DEF Halted
    <3>8. Kept' BY <2>0, <3>1, <3>2, FrameSets, FrameFacts DEF Kept
    <3>9. QED BY <3>2, <3>3, <3>4, <3>5, <3>6, <3>7, <3>8
  <2>11. CASE FirstFrameFatal
    <3>1. /\ UNCHANGED <<drv, dec, cap, lock, syn, disp, ring, rec, parked>>
      BY <2>11 DEF FirstFrameFatal, dmxOnly
    <3>2. /\ Apart'
          /\ \A f \in Item : (InPipe(f)' <=> InPipe(f)) /\ (InPort(f)' <=> InPort(f))
      <4>1. \A r \in Place : Places'[r] = Places[r]
        BY <3>1, PlacesAre, PlacesNext DEF Place, Pipe, RingCount
      <4>2. QED BY <4>1, SamePlaces
    <3>3. ShownNew' /\ AllAlive' /\ FlagsTrue' /\ ReplacedMarked' /\ Halted' /\
        Kept'
      BY <2>0, <3>1, <3>2 DEF ShownNew, AllAlive, FlagsTrue, ReplacedMarked,
        Halted, Kept
    <3>4. QED BY <3>2, <3>3
  <2>12. CASE Decode
    <3>1. /\ drv.st = "run" /\ drv.outq # <<>> /\ drv.capq # <<>>
          /\ drv'.capq = Tail(drv.capq)
          /\ drv'.capd = Append(drv.capd, [f |-> Head(drv.capq), last |->
             FALSE])
          /\ drv'.st = drv.st
          /\ UNCHANGED <<dec, cap, lock, syn, disp, ring, rec, parked>>
      BY <2>12 DEF TypeDriver, DriverRec, Decode, drvOnly, Picture
    <3>2. /\ Apart'
          /\ \A f \in Item : (InPipe(f)' <=> InPipe(f)) /\ (InPort(f)' <=> InPort(f))
      <4>1. drv.capq \in Seq(Frame) /\ drv.capd \in Seq(Pic)
        BY DEF TypeDriver, DriverRec
      <4>2. Head(drv.capq) \in Frame
        BY <3>1, <4>1, QueueEnds
      <4>3. [f |-> Head(drv.capq), last |-> FALSE] \in Pic
        BY <4>2 DEF Pic
      <4>4. /\ Shifted(Places["queued"], Places'["queued"])
            /\ Head(drv.capq) = Places["queued"][1]
        BY <3>1, <4>1, PlacesAre, PlacesNext, QueueEnds
      <4>5. Appended(Places["decoded"], Places'["decoded"], Head(drv.capq))
        <5>1. Appended(PicSeq(drv.capd),
                       PicSeq(Append(drv.capd, [f |-> Head(drv.capq), last |-> FALSE])),
                       Head(drv.capq))
          BY <4>1, <4>3, PicEnds
        <5>2. QED BY <3>1, <5>1, PlacesAre, PlacesNext
      <4>6. \A r \in Place \ {"queued", "decoded"} : Places'[r] = Places[r]
        BY <3>1, PlacesAre, PlacesNext DEF Place, Pipe, RingCount
      <4>7. "queued" \in Place \ Pipe /\ "decoded" \in Place \ Pipe
        BY DEF Place, Pipe
      <4>8. QED BY <4>4, <4>5, <4>6, <4>7, MoveFrame
    <3>3. ShownNew' /\ AllAlive' /\ FlagsTrue' /\ ReplacedMarked' /\ Kept'
      BY <2>0, <3>1, <3>2 DEF ShownNew, AllAlive, FlagsTrue, ReplacedMarked,
        Kept
    <3>4. Halted'
      <4>1. drv.capd \in Seq(Pic) /\ Head(drv.capq) \in Frame
        BY <3>1 DEF TypeDriver, DriverRec
      <4>2. \A k \in 1..Len(drv.capd) : ~drv.capd[k].last
        BY <3>1 DEF Halted
      <4>3. PICK e : e = [f |-> Head(drv.capq), last |-> FALSE] OBVIOUS
      <4>4. e \in Pic /\ ~e.last BY <4>1, <4>3 DEF Pic
      <4>5. \A k \in 1..Len(drv'.capd) : ~drv'.capd[k].last
        <5>1. drv'.capd = Append(drv.capd, e) BY <3>1, <4>3
        <5>2. \A k \in 1..Len(drv'.capd) :
                drv'.capd[k] = e \/ (k \in 1..Len(drv.capd) /\ drv'.capd[k] = drv.capd[k])
          BY <4>1, <4>4, <5>1
        <5>3. QED BY <4>2, <4>4, <5>2
      <4>6. QED BY <3>1, <4>5 DEF Halted
    <3>5. QED BY <3>2, <3>3, <3>4
  <2>13. CASE FirstResolution
    <3>1. /\ drv.st = "run" /\ ~dec.push /\ drv.capd = <<>>
          /\ drv.ev = <<>> /\ ~dec.res
          /\ drv'.capq = drv.capq /\ drv'.capd = drv.capd /\ drv'.st = drv.st
          /\ UNCHANGED <<dec, cap, lock, syn, disp, ring, rec, parked>>
      BY <2>13 DEF TypeDriver, DriverRec, FirstResolution, drvOnly
    <3>2. /\ Apart'
          /\ \A f \in Item : (InPipe(f)' <=> InPipe(f)) /\ (InPort(f)' <=> InPort(f))
      <4>1. \A r \in Place : Places'[r] = Places[r]
        BY <3>1, PlacesAre, PlacesNext DEF Place, Pipe, RingCount
      <4>2. QED BY <4>1, SamePlaces
    <3>3. ShownNew' /\ AllAlive' /\ FlagsTrue' /\ ReplacedMarked' /\ Halted' /\
        Kept'
      BY <2>0, <3>1, <3>2 DEF ShownNew, AllAlive, FlagsTrue, ReplacedMarked,
        Halted, Kept
    <3>4. QED BY <3>2, <3>3
  <2>14. CASE NewResolution
    <3>1. /\ drv.st = "run" /\ cap.gen < MaxGen
          /\ drv'.st = "flush"
          /\ drv'.capq = drv.capq /\ drv'.capd = drv.capd
          /\ UNCHANGED <<dec, cap, lock, syn, disp, ring, rec, parked>>
      BY <2>14 DEF TypeDriver, DriverRec, NewResolution, drvOnly
    <3>2. /\ Apart'
          /\ \A f \in Item : (InPipe(f)' <=> InPipe(f)) /\ (InPort(f)' <=> InPort(f))
      <4>1. \A r \in Place : Places'[r] = Places[r]
        BY <3>1, PlacesAre, PlacesNext DEF Place, Pipe, RingCount
      <4>2. QED BY <4>1, SamePlaces
    <3>3. ShownNew' /\ AllAlive' /\ FlagsTrue' /\ ReplacedMarked' /\ Kept'
      BY <2>0, <3>1, <3>2 DEF ShownNew, AllAlive, FlagsTrue, ReplacedMarked,
        Kept
    <3>4. Halted' BY <2>0, <3>1, <3>2 DEF Halted
    <3>5. QED BY <3>2, <3>3, <3>4
  <2>15. CASE EndOfStream
    <3>1. /\ drv.st = "run"
          /\ drv'.st = "flush"
          /\ drv'.capq = drv.capq /\ drv'.capd = drv.capd
          /\ UNCHANGED <<dec, cap, lock, syn, disp, ring, rec, parked>>
      BY <2>15 DEF TypeDriver, DriverRec, EndOfStream, drvOnly
    <3>2. /\ Apart'
          /\ \A f \in Item : (InPipe(f)' <=> InPipe(f)) /\ (InPort(f)' <=> InPort(f))
      <4>1. \A r \in Place : Places'[r] = Places[r]
        BY <3>1, PlacesAre, PlacesNext DEF Place, Pipe, RingCount
      <4>2. QED BY <4>1, SamePlaces
    <3>3. ShownNew' /\ AllAlive' /\ FlagsTrue' /\ ReplacedMarked' /\ Kept'
      BY <2>0, <3>1, <3>2 DEF ShownNew, AllAlive, FlagsTrue, ReplacedMarked,
        Kept
    <3>4. Halted' BY <2>0, <3>1, <3>2 DEF Halted
    <3>5. QED BY <3>2, <3>3, <3>4
  <2>16. CASE LastPicture
    <3>1. /\ drv.st = "flush" /\ drv.capq # <<>>
          /\ drv'.capq = Tail(drv.capq)
          /\ drv'.capd = Append(drv.capd, [f |-> Head(drv.capq), last |->
             TRUE])
          /\ drv'.st = "halt"
          /\ UNCHANGED <<dec, cap, lock, syn, disp, ring, rec, parked>>
      BY <2>16 DEF TypeDriver, DriverRec, LastPicture, drvOnly, Picture
    <3>2. /\ Apart'
          /\ \A f \in Item : (InPipe(f)' <=> InPipe(f)) /\ (InPort(f)' <=> InPort(f))
      <4>1. drv.capq \in Seq(Frame) /\ drv.capd \in Seq(Pic)
        BY DEF TypeDriver, DriverRec
      <4>2. Head(drv.capq) \in Frame
        BY <3>1, <4>1, QueueEnds
      <4>3. [f |-> Head(drv.capq), last |-> TRUE] \in Pic
        BY <4>2 DEF Pic
      <4>4. /\ Shifted(Places["queued"], Places'["queued"])
            /\ Head(drv.capq) = Places["queued"][1]
        BY <3>1, <4>1, PlacesAre, PlacesNext, QueueEnds
      <4>5. Appended(Places["decoded"], Places'["decoded"], Head(drv.capq))
        <5>1. Appended(PicSeq(drv.capd),
                       PicSeq(Append(drv.capd, [f |-> Head(drv.capq), last |-> TRUE])),
                       Head(drv.capq))
          BY <4>1, <4>3, PicEnds
        <5>2. QED BY <3>1, <5>1, PlacesAre, PlacesNext
      <4>6. \A r \in Place \ {"queued", "decoded"} : Places'[r] = Places[r]
        BY <3>1, PlacesAre, PlacesNext DEF Place, Pipe, RingCount
      <4>7. "queued" \in Place \ Pipe /\ "decoded" \in Place \ Pipe
        BY DEF Place, Pipe
      <4>8. QED BY <4>4, <4>5, <4>6, <4>7, MoveFrame
    <3>3. ShownNew' /\ AllAlive' /\ FlagsTrue' /\ ReplacedMarked' /\ Kept'
      BY <2>0, <3>1, <3>2 DEF ShownNew, AllAlive, FlagsTrue, ReplacedMarked,
        Kept
    <3>4. Halted'
      BY <3>1 DEF Halted
    <3>5. QED BY <3>2, <3>3, <3>4
  <2>17. CASE Poll
    <3>1. /\ dec.pc = "poll"
          /\ dec'.pc \in {"out", "in", "poll"}
          /\ dec'.pc = "out" => drv.outd # <<>>
          /\ dec'.pc = "in" \/ dec'.in => drv.capd # <<>>
          /\ dec'.pc = "out" \/ drv.capd = <<>> \/ dec'.pc = "in"
          /\ dec'.in \in BOOLEAN /\ dec'.res \in BOOLEAN /\ dec'.eos \in
             BOOLEAN
          /\ dec'.res => dec.res \/ (drv.ev # <<>> /\ Head(drv.ev) = "src")
          /\ (drv.ev = <<>> /\ drv'.ev = drv.ev) \/ (drv.ev # <<>> /\ drv'.ev =
             Tail(drv.ev))
          /\ drv'.capq = drv.capq /\ drv'.capd = drv.capd /\ drv'.st = drv.st
          /\ dec'.hand = dec.hand
          /\ UNCHANGED <<cap, lock, syn, disp, ring, rec, parked>>
      BY <2>17 DEF TypeDriver, DriverRec, TypeDecoder, DecoderRec, Poll,
        decOnly
    <3>2. /\ Apart'
          /\ \A f \in Item : (InPipe(f)' <=> InPipe(f)) /\ (InPort(f)' <=> InPort(f))
      <4>1. \A r \in Place : Places'[r] = Places[r]
        BY <3>1, PlacesAre, PlacesNext DEF Place, Pipe, RingCount
      <4>2. QED BY <4>1, SamePlaces
    <3>3. AllAlive' /\ FlagsTrue'
      BY <2>0, <3>1, <3>2 DEF AllAlive, FlagsTrue
    <3>4. ShownNew' BY <2>0, <3>1, <3>2 DEF ShownNew
    <3>5. ReplacedMarked' BY <2>0, <3>1, <3>2 DEF ReplacedMarked
    <3>6. Halted' BY <2>0, <3>1, <3>2 DEF Halted
    <3>7. Kept' BY <2>0, <3>1, <3>2 DEF Kept
    <3>8. QED BY <3>2, <3>3, <3>4, <3>5, <3>6, <3>7
  <2>18. CASE DqOutput
    <3>1. /\ dec.pc = "out"
          /\ out' = [out EXCEPT ![Head(drv.outd)].queued = FALSE]
          /\ drv'.capq = drv.capq /\ drv'.capd = drv.capd /\ drv'.st = drv.st
          /\ dec'.pc = "used"
          /\ dec'.hand = dec.hand
          /\ UNCHANGED <<cap, lock, syn, disp, ring, rec, parked>>
      BY <2>18 DEF TypeDriver, DriverRec, TypeDecoder, DecoderRec, DqOutput,
        decOnly
    <3>2. /\ Apart'
          /\ \A f \in Item : (InPipe(f)' <=> InPipe(f)) /\ (InPort(f)' <=> InPort(f))
      <4>1. \A r \in Place : Places'[r] = Places[r]
        BY <3>1, PlacesAre, PlacesNext DEF Place, Pipe, RingCount
      <4>2. QED BY <4>1, SamePlaces
    <3>3. AllAlive' /\ FlagsTrue'
      BY <2>0, <3>1, <3>2 DEF AllAlive, FlagsTrue
    <3>4. ShownNew' BY <2>0, <3>1, <3>2 DEF ShownNew
    <3>5. ReplacedMarked' BY <2>0, <3>1, <3>2 DEF ReplacedMarked
    <3>6. Halted' BY <2>0, <3>1, <3>2 DEF Halted
    <3>7. Kept' BY <2>0, <3>1, <3>2 DEF Kept
    <3>8. QED BY <3>2, <3>3, <3>4, <3>5, <3>6, <3>7
  <2>19. CASE ResetUsed
    <3>1. /\ dec.pc = "used"
          /\ out' = [out EXCEPT ![dec.late].used = 0]
          /\ dec'.pc = IF dec.in THEN "in" ELSE "poll"
          /\ dec'.hand = dec.hand
          /\ UNCHANGED <<drv, cap, lock, syn, disp, ring, rec, parked>>
      BY <2>19 DEF TypeDecoder, DecoderRec, ResetUsed, decOnly
    <3>2. /\ Apart'
          /\ \A f \in Item : (InPipe(f)' <=> InPipe(f)) /\ (InPort(f)' <=> InPort(f))
      <4>1. \A r \in Place : Places'[r] = Places[r]
        BY <3>1, PlacesAre, PlacesNext DEF Place, Pipe, RingCount
      <4>2. QED BY <4>1, SamePlaces
    <3>3. AllAlive' /\ FlagsTrue'
      BY <2>0, <3>1, <3>2 DEF AllAlive, FlagsTrue
    <3>4. ShownNew' BY <2>0, <3>1, <3>2 DEF ShownNew
    <3>5. ReplacedMarked' BY <2>0, <3>1, <3>2 DEF ReplacedMarked
    <3>6. Halted' BY <2>0, <3>1, <3>2 DEF Halted
    <3>7. Kept' BY <2>0, <3>1, <3>2 DEF Kept
    <3>8. QED BY <3>2, <3>3, <3>4, <3>5, <3>6, <3>7
  <2>20. CASE DqCapture
    <3>1. /\ dec.pc = "in" /\ drv.capd # <<>> /\ Head(drv.capd).f # lock
          /\ drv'.capd = Tail(drv.capd) /\ drv'.capq = drv.capq /\ drv'.st =
             drv.st
          /\ cap'.gen = cap.gen /\ cap'.alive = cap.alive /\ cap'.recycle =
             cap.recycle
          /\ \/ /\ dec'.hand = Head(drv.capd).f /\ dec'.pc = "show"
                /\ cap'.queued = cap.queued \ {Head(drv.capd).f} /\ parked' = parked
             \/ /\ dec'.hand = None /\ dec'.pc = "res" /\ Head(drv.capd).last
                /\ cap'.queued = cap.queued /\ parked' = parked
             \/ /\ dec'.hand \in {None, Eos} /\ dec'.pc \in {"show", "poll"}
                /\ cap'.queued = cap.queued \ {Head(drv.capd).f}
                /\ parked' = parked \cup {Head(drv.capd).f}
          /\ UNCHANGED <<lock, syn, disp, ring, rec>>
      <4>1. dec.pc = "in" BY <2>20 DEF DqCapture
      <4>2. drv.capd # <<>> BY <4>1 DEF PollSaw
      <4>3. Head(drv.capd) \in Pic /\ Head(drv.capd).last \in BOOLEAN
        BY <4>2, PicHead DEF Pic
      <4>4. QED
        BY <2>20, <4>1, <4>2, <4>3 DEF DqCapture, decOnly, May, TypeDriver, DriverRec,
          TypeDecoder, DecoderRec, TypeCapture, CaptureRec
    <3>2. /\ Apart' /\ Head(drv.capd).f \in Frame
          /\ InPort(Head(drv.capd).f) /\ ~InPipe(Head(drv.capd).f)
          /\ \A f \in Item :
               /\ InPipe(f)' <=> InPipe(f) \/ (f = Head(drv.capd).f /\ f = dec'.hand)
               /\ InPort(f)' <=> InPort(f) /\ f # Head(drv.capd).f
      <4>1. drv.capd \in Seq(Pic) BY DEF TypeDriver, DriverRec
      <4>2. PICK x : x = Head(drv.capd).f OBVIOUS
      <4>3. /\ Shifted(Places["decoded"], Places'["decoded"]) /\ x = Places["decoded"][1]
            /\ x \in Frame /\ x \in Item
        BY <2>0, <3>1, <4>1, <4>2, PlacesAre, PlacesNext, PicEnds
      <4>4. dec.hand = None /\ Places["hand"] = <<>>
        BY <3>1, PlacesAre, OneEnds DEF DecoderHas
      <4>5. \A r \in Place \ {"decoded", "hand"} : Places'[r] = Places[r]
        BY <3>1, PlacesAre, PlacesNext DEF Place, Pipe, RingCount
      <4>6. /\ "decoded" \in Place /\ "decoded" \notin Pipe
            /\ "hand" \in Place /\ "hand" \in Pipe
        BY DEF Place, Pipe
      <4>7. CASE dec'.hand = x
        <5>1. Appended(Places["hand"], Places'["hand"], x)
          BY <4>3, <4>4, <4>7, PlacesNext, OneEnds
        <5>2. /\ Apart' /\ ~InPipe(x) /\ InPort(x) /\ InPipe(x)' /\ ~InPort(x)'
              /\ \A f \in Item : f # x =>
                   (InPipe(f)' <=> InPipe(f)) /\ (InPort(f)' <=> InPort(f))
          BY <4>3, <4>5, <4>6, <5>1, MoveFrame
        <5>3. QED BY <4>2, <4>3, <4>7, <5>2
      <4>8. CASE dec'.hand # x
        <5>1. Places'["hand"] = Places["hand"]
          BY <3>1, <4>2, <4>4, <4>8, PlacesNext, OneEnds
        <5>2. \A r \in Place \ {"decoded"} : Places'[r] = Places[r]
          BY <4>5, <5>1
        <5>3. /\ Apart' /\ ~InPipe(x) /\ InPort(x) /\ ~InPipe(x)' /\ ~InPort(x)'
              /\ \A f \in Item : f # x =>
                   (InPipe(f)' <=> InPipe(f)) /\ (InPort(f)' <=> InPort(f))
          BY <4>3, <4>6, <5>2, DropFrame
        <5>4. QED BY <4>2, <4>3, <4>8, <5>3
      <4>9. QED BY <4>7, <4>8
    <3>3. ShownNew' BY <2>0, <3>1, <3>2 DEF ShownNew
    <3>4. AllAlive' BY <2>0, <3>1, <3>2 DEF AllAlive
    <3>5. FlagsTrue' BY <2>0, <3>1, <3>2 DEF FlagsTrue
    <3>6. ReplacedMarked'
      <4>1. PICK x : x = Head(drv.capd).f OBVIOUS
      <4>2. x[1] = cap.gen /\ x \in Item BY <2>0, <3>2, <4>1 DEF ReplacedMarked
      <4>3. ~(cap.gen < cap.gen) BY <2>0
      <4>4. QED BY <2>0, <3>1, <3>2, <4>1, <4>2, <4>3 DEF ReplacedMarked
    <3>7. Halted'
      <4>1. drv.capd \in Seq(Pic) BY DEF TypeDriver, DriverRec
      <4>2. \A k \in 1..Len(drv'.capd) :
              k + 1 \in 1..Len(drv.capd) /\ drv'.capd[k] = drv.capd[k + 1]
        BY <3>1, <4>1
      <4>3. Head(drv.capd) = drv.capd[1] /\ 1 \in 1..Len(drv.capd)
        BY <3>1, <4>1
      <4>4. Head(drv.capd).last => drv.st = "halt"
        BY <4>3 DEF Halted
      <4>5. QED BY <3>1, <4>2, <4>4 DEF Halted
    <3>8. Kept' BY <2>0, <3>1, <3>2 DEF Kept
    <3>9. QED BY <3>2, <3>3, <3>4, <3>5, <3>6, <3>7, <3>8
  <2>21. CASE StartDisplay
    <3>1. /\ dec.pc = "show" /\ ~started
          /\ disp'.pc = "pop"
          /\ disp'.f = disp.f /\ disp'.cb = disp.cb
          /\ ring'.ri = 0
          /\ ring'.wi = 0
          /\ ring'.n = 0
          /\ ring'.slot = ring.slot
          /\ rec'.pc = "run"
          /\ rec'.f = rec.f
          /\ UNCHANGED <<drv, dec, cap, lock, syn, parked>>
      BY <2>21 DEF TypeShow, DisplayRec, TypeRing, RingRec, RecycleRec,
        StartDisplay
    <3>2. /\ Apart'
          /\ \A f \in Item : (InPipe(f)' <=> InPipe(f)) /\ (InPort(f)' <=> InPort(f))
      <4>1. /\ disp.pc = "none" /\ rec.pc = "none" /\ ring.n = 0
        BY <3>1 DEF Unstarted
      <4>2. RingCount = 0 /\ RingCount' = 0
        BY <3>1, <4>1 DEF RingCount
      <4>3. Places["ring"] = <<>> /\ Places'["ring"] = <<>>
        BY <4>2, PlacesAre, PlacesNext, EmptySeqs
      <4>4. \A r \in Place : Places'[r] = Places[r]
        BY <3>1, <4>1, <4>3, PlacesAre, PlacesNext DEF Place, Pipe, ShownSeq
      <4>5. QED BY <4>4, SamePlaces
    <3>3. AllAlive' /\ FlagsTrue' /\ ReplacedMarked' /\ Halted' /\ Kept'
      BY <2>0, <3>1, <3>2 DEF AllAlive, FlagsTrue, ReplacedMarked, Halted, Kept
    <3>4. ShownNew' BY <2>0, <3>1, <3>2 DEF ShownNew
    <3>5. QED BY <3>2, <3>3, <3>4
  <2>22. CASE display_engine_show
    <3>1. /\ dec.pc = "show" /\ started
          /\ dec'.pc = IF dec.hand = Eos THEN "eos" ELSE "poll"
          /\ dec'.hand = None
          /\ syn'.q = Append(syn.q, dec.hand)
          /\ syn'.shown = syn.shown
          /\ UNCHANGED <<drv, cap, lock, disp, ring, rec, parked>>
      BY <2>22 DEF TypeDecoder, DecoderRec, TypeShow, SyncRec,
        display_engine_show, decOnly
    <3>2. /\ Apart'
          /\ \A f \in Item \ {Eos} : InPipe(f)' <=> InPipe(f)
          /\ \A f \in Item : InPort(f)' <=> InPort(f)
      <4>1. /\ dec.hand \in Frame \cup {Eos} /\ syn.q \in Seq(Item)
            /\ syn.q \in Seq(Frame \cup {Eos})
        <5>1. dec.hand \in Frame \cup {Eos} /\ syn.q \in Seq(Frame \cup {Eos})
          BY <3>1 DEF DecoderHas, TypeDecoder, DecoderRec, TypeShow, SyncRec
        <5>2. QED BY <5>1, PlacesAre DEF PlacesOK, Typed, Place, Pipe
      <4>2. Appended(Places["sync"], Places'["sync"], dec.hand)
        BY <3>1, <4>1, PlacesAre, PlacesNext, QueueEnds
      <4>3. Places'["hand"] = <<>> BY <3>1, PlacesNext, OneEnds
      <4>4. \A r \in Place \ {"hand", "sync"} : Places'[r] = Places[r]
        BY <3>1, PlacesAre, PlacesNext DEF Place, Pipe, RingCount
      <4>5. {"hand", "sync"} \subseteq Pipe /\ Pipe \subseteq Place
            /\ {"queued", "decoded"} \subseteq Place \ Pipe
        BY DEF Place, Pipe
      <4>6. CASE dec.hand \in Frame
        <5>1. /\ Shifted(Places["hand"], Places'["hand"])
              /\ dec.hand = Places["hand"][1]
          BY <4>3, <4>6, PlacesAre, OneEnds
        <5>2. QED BY <4>2, <4>4, <4>5, <5>1, MoveFrame
      <4>7. CASE dec.hand = Eos
        <5>1. \A r \in Place : ~Has(Places, r, Eos)
          <6>1. \A k \in 1..Len(syn.q) : syn.q[k] # Eos
            BY <3>1 DEF EosAtEnd
          <6>2. \A r \in Place \ {"sync", "ring"} : \A k \in 1..Len(Places[r]) :
                  Places[r][k] \in Frame
            BY DEF PlacesOK
          <6>3. \A k \in 1..Len(Places["ring"]) : Places["ring"][k] \in Frame \cup {None}
            BY DEF PlacesOK
          <6>4. QED BY <2>0, <6>1, <6>2, <6>3, PlacesAre DEF Has
        <5>2. Places["hand"] = <<>> BY <4>7, PlacesAre, OneEnds
        <5>3. \A r \in Place \ {"sync"} : Places'[r] = Places[r]
          BY <4>3, <4>4, <5>2
        <5>4. Typed(Places) /\ Typed(Places') /\ "sync" \in Place
          BY <4>5 DEF PlacesOK, Typed
        <5>5. Eos \in Item /\ Appended(Places["sync"], Places'["sync"], Eos)
          BY <2>0, <4>2, <4>7
        <5>6. /\ ApartIn(Places')
              /\ \A r \in Place : Has(Places', r, Eos) <=> r = "sync"
              /\ \A r \in Place, f \in Item :
                   f # Eos => (Has(Places', r, f) <=> Has(Places, r, f))
          BY <5>1, <5>3, <5>4, <5>5, AddApart DEF Apart
        <5>7. \A r \in Place, f \in Item :
                (At(r, f) <=> Has(Places, r, f)) /\ (At(r, f)' <=> Has(Places', r, f))
          BY DEF At, Has
        <5>8. Apart' BY <5>6 DEF Apart, ApartIn
        <5>9. \A f \in Item \ {Eos} : InPipe(f)' <=> InPipe(f)
          BY <4>5, <5>6, <5>7 DEF InPipe
        <5>10. \A f \in Item : InPort(f)' <=> InPort(f)
          BY <4>5, <5>1, <5>6, <5>7 DEF InPort
        <5>11. QED BY <5>8, <5>9, <5>10
      <4>8. QED BY <4>1, <4>6, <4>7
    <3>3. ShownNew' BY <2>0, <3>1, <3>2 DEF ShownNew
    <3>4. AllAlive' BY <2>0, <3>1, <3>2 DEF AllAlive
    <3>5. FlagsTrue' BY <2>0, <3>1, <3>2 DEF FlagsTrue
    <3>6. ReplacedMarked' BY <2>0, <3>1, <3>2 DEF ReplacedMarked
    <3>7. Halted' BY <2>0, <3>1, <3>2 DEF Halted
    <3>8. Kept' BY <2>0, <3>1, <3>2 DEF Kept
    <3>9. QED BY <3>2, <3>3, <3>4, <3>5, <3>6, <3>7, <3>8
  <2>23. CASE EosReceived
    <3>1. /\ dec.pc = "eos"
          /\ dec'.pc = "wait"
          /\ dec'.hand = dec.hand
          /\ UNCHANGED <<drv, cap, lock, syn, disp, ring, rec, parked>>
      BY <2>23 DEF TypeDecoder, DecoderRec, EosReceived, decOnly
    <3>2. /\ Apart'
          /\ \A f \in Item : (InPipe(f)' <=> InPipe(f)) /\ (InPort(f)' <=> InPort(f))
      <4>1. \A r \in Place : Places'[r] = Places[r]
        BY <3>1, PlacesAre, PlacesNext DEF Place, Pipe, RingCount
      <4>2. QED BY <4>1, SamePlaces
    <3>3. AllAlive' /\ FlagsTrue'
      BY <2>0, <3>1, <3>2 DEF AllAlive, FlagsTrue
    <3>4. ShownNew' BY <2>0, <3>1, <3>2 DEF ShownNew
    <3>5. ReplacedMarked' BY <2>0, <3>1, <3>2 DEF ReplacedMarked
    <3>6. Halted' BY <2>0, <3>1, <3>2 DEF Halted
    <3>7. Kept' BY <2>0, <3>1, <3>2 DEF Kept
    <3>8. QED BY <3>2, <3>3, <3>4, <3>5, <3>6, <3>7
  <2>24. CASE display_wait_for_display
    <3>1. /\ dec.pc = "wait"
          /\ dec'.pc = "off"
          /\ dec'.hand = dec.hand
          /\ UNCHANGED <<drv, cap, lock, syn, disp, ring, rec, parked>>
      BY <2>24 DEF TypeDecoder, DecoderRec, display_wait_for_display, decOnly
    <3>2. /\ Apart'
          /\ \A f \in Item : (InPipe(f)' <=> InPipe(f)) /\ (InPort(f)' <=> InPort(f))
      <4>1. \A r \in Place : Places'[r] = Places[r]
        BY <3>1, PlacesAre, PlacesNext DEF Place, Pipe, RingCount
      <4>2. QED BY <4>1, SamePlaces
    <3>3. AllAlive' /\ FlagsTrue'
      BY <2>0, <3>1, <3>2 DEF AllAlive, FlagsTrue
    <3>4. ShownNew' BY <2>0, <3>1, <3>2 DEF ShownNew
    <3>5. ReplacedMarked' BY <2>0, <3>1, <3>2 DEF ReplacedMarked
    <3>6. Halted' BY <2>0, <3>1, <3>2 DEF Halted
    <3>7. Kept' BY <2>0, <3>1, <3>2 DEF Kept
    <3>8. QED BY <3>2, <3>3, <3>4, <3>5, <3>6, <3>7
  <2>25. CASE ResStreamOff
    <3>1. /\ dec.pc = "res"
          /\ drv'.capq = <<>>
          /\ drv'.capd = <<>>
          /\ drv'.st = drv.st
          /\ dec'.pc = "free"
          /\ dec'.hand = dec.hand
          /\ UNCHANGED <<cap, lock, syn, disp, ring, rec, parked>>
      BY <2>25 DEF TypeDriver, DriverRec, TypeDecoder, DecoderRec,
        ResStreamOff, decOnly
    <3>2. /\ Apart' /\ \A f \in Item : (InPipe(f)' <=> InPipe(f)) /\ ~InPort(f)'
      <4>1. PICK C : C = {"queued", "decoded"} OBVIOUS
      <4>2. C \in SUBSET Place BY <4>1 DEF Place, Pipe
      <4>3. \A r \in C : Places'[r] = <<>>
        BY <3>1, <4>1, PlacesAre, PlacesNext, EmptySeqs, OneEnds DEF ShownSeq
      <4>4. \A r \in Place \ C : Places'[r] = Places[r]
        BY <3>1, <4>1, PlacesAre, PlacesNext DEF Place, Pipe, RingCount
      <4>5. Apart' /\ \A r \in Place, f \in Item : At(r, f)' <=> r \notin C /\ At(r, f)
        BY <4>2, <4>3, <4>4, ClearPlaces
      <4>6. QED BY <4>1, <4>5 DEF InPipe, InPort, Place, Pipe
    <3>3. ShownNew' BY <2>0, <3>1, <3>2 DEF ShownNew
    <3>4. AllAlive' BY <2>0, <3>1, <3>2 DEF AllAlive
    <3>5. FlagsTrue' BY <2>0, <3>1, <3>2 DEF FlagsTrue
    <3>6. ReplacedMarked' BY <2>0, <3>1, <3>2 DEF ReplacedMarked
    <3>7. Halted' BY <2>0, <3>1, <3>2 DEF Halted
    <3>8. Kept' BY <2>0, <3>1, <3>2 DEF Kept
    <3>9. QED BY <3>2, <3>3, <3>4, <3>5, <3>6, <3>7, <3>8
  <2>26. CASE ResFree
    <3>1. /\ dec.pc = "free" /\ lock = None
          /\ drv'.capq = <<>>
          /\ drv'.capd = drv.capd /\ drv'.st = drv.st
          /\ dec'.pc = "setup"
          /\ dec'.hand = dec.hand
          /\ cap'.queued = cap.queued \ Set(cap.gen)
          /\ cap'.recycle = cap.recycle \cup (Set(cap.gen) \ Freed)
          /\ cap'.alive = cap.alive \ Freed
          /\ cap'.gen = cap.gen
          /\ UNCHANGED <<lock, syn, disp, ring, rec, parked>>
      BY <2>26 DEF TypeDriver, DriverRec, TypeDecoder, DecoderRec, TypeCapture,
        CaptureRec, ResFree, decOnly, Freed
    <3>2. /\ Apart' /\ \A f \in Item : (InPipe(f)' <=> InPipe(f)) /\ ~InPort(f)'
      <4>1. PICK C : C = {"queued", "decoded"} OBVIOUS
      <4>2. C \in SUBSET Place BY <4>1 DEF Place, Pipe
      <4>3. \A r \in C : Places'[r] = <<>>
        BY <3>1, <4>1, PlacesAre, PlacesNext, EmptySeqs, OneEnds DEF ShownSeq, Halted
      <4>4. \A r \in Place \ C : Places'[r] = Places[r]
        BY <3>1, <4>1, PlacesAre, PlacesNext DEF Place, Pipe, RingCount
      <4>5. Apart' /\ \A r \in Place, f \in Item : At(r, f)' <=> r \notin C /\ At(r, f)
        BY <4>2, <4>3, <4>4, ClearPlaces
      <4>6. QED BY <4>1, <4>5 DEF InPipe, InPort, Place, Pipe
    <3>3. ShownNew' BY <2>0, <3>1, <3>2 DEF ShownNew
    <3>4. AllAlive'
      <4>1. /\ cap'.alive \subseteq cap.alive /\ cap'.gen = cap.gen /\ cap'.queued \subseteq cap.queued
            /\ \A f \in Frame : f[1] = cap.gen <=> f \in Set(cap.gen)
            /\ \A f \in cap.alive : f \in Set(cap.gen) /\ f \in cap.queued => f \notin cap'.alive
            /\ \A f \in cap.alive : ~(f \in Set(cap.gen) /\ f \in cap.queued) => f \in cap'.alive
            /\ \A f \in Set(cap.gen) : f \notin cap'.queued /\ (f \notin cap.queued => f \in cap'.recycle)
            /\ \A f \in cap.recycle : f \in cap'.recycle
        BY <2>0, <3>1, FrameSets DEF Freed
      <4>2. \A f \in cap.alive : f[1] \in Nat BY <2>0, FrameSets
      <4>3. QED BY <2>0, <3>1, <3>2, <4>1, <4>2 DEF AllAlive, FlagsTrue
    <3>5. FlagsTrue'
      <4>1. /\ cap'.alive \subseteq cap.alive /\ cap'.gen = cap.gen /\ cap'.queued \subseteq cap.queued
            /\ \A f \in Frame : f[1] = cap.gen <=> f \in Set(cap.gen)
            /\ \A f \in cap.alive : f \in Set(cap.gen) /\ f \in cap.queued => f \notin cap'.alive
            /\ \A f \in cap.alive : ~(f \in Set(cap.gen) /\ f \in cap.queued) => f \in cap'.alive
            /\ \A f \in Set(cap.gen) : f \notin cap'.queued /\ (f \notin cap.queued => f \in cap'.recycle)
            /\ \A f \in cap.recycle : f \in cap'.recycle
        BY <2>0, <3>1, FrameSets DEF Freed
      <4>2. \A f \in cap.alive : f[1] \in Nat BY <2>0, FrameSets
      <4>3. QED BY <2>0, <3>1, <3>2, <4>1, <4>2 DEF FlagsTrue, AllAlive
    <3>6. ReplacedMarked'
      <4>1. /\ cap'.alive \subseteq cap.alive /\ cap'.gen = cap.gen /\ cap'.queued \subseteq cap.queued
            /\ \A f \in Frame : f[1] = cap.gen <=> f \in Set(cap.gen)
            /\ \A f \in cap.alive : f \in Set(cap.gen) /\ f \in cap.queued => f \notin cap'.alive
            /\ \A f \in cap.alive : ~(f \in Set(cap.gen) /\ f \in cap.queued) => f \in cap'.alive
            /\ \A f \in Set(cap.gen) : f \notin cap'.queued /\ (f \notin cap.queued => f \in cap'.recycle)
            /\ \A f \in cap.recycle : f \in cap'.recycle
        BY <2>0, <3>1, FrameSets DEF Freed
      <4>2. \A f \in cap.alive : f[1] \in Nat BY <2>0, FrameSets
      <4>3. QED BY <2>0, <3>1, <3>2, <4>1, <4>2 DEF ReplacedMarked, AllAlive, FlagsTrue
    <3>7. Halted'
      <4>1. /\ cap'.alive \subseteq cap.alive /\ cap'.gen = cap.gen /\ cap'.queued \subseteq cap.queued
            /\ \A f \in Frame : f[1] = cap.gen <=> f \in Set(cap.gen)
            /\ \A f \in cap.alive : f \in Set(cap.gen) /\ f \in cap.queued => f \notin cap'.alive
            /\ \A f \in cap.alive : ~(f \in Set(cap.gen) /\ f \in cap.queued) => f \in cap'.alive
            /\ \A f \in Set(cap.gen) : f \notin cap'.queued /\ (f \notin cap.queued => f \in cap'.recycle)
            /\ \A f \in cap.recycle : f \in cap'.recycle
        BY <2>0, <3>1, FrameSets DEF Freed
      <4>2. \A f \in cap.alive : f[1] \in Nat BY <2>0, FrameSets
      <4>3. QED BY <2>0, <3>1, <3>2, <4>1, <4>2 DEF Halted, AllAlive, FlagsTrue
    <3>8. Kept'
      <4>1. /\ cap'.alive \subseteq cap.alive /\ cap'.gen = cap.gen /\ cap'.queued \subseteq cap.queued
            /\ \A f \in Frame : f[1] = cap.gen <=> f \in Set(cap.gen)
            /\ \A f \in cap.alive : f \in Set(cap.gen) /\ f \in cap.queued => f \notin cap'.alive
            /\ \A f \in cap.alive : ~(f \in Set(cap.gen) /\ f \in cap.queued) => f \in cap'.alive
            /\ \A f \in Set(cap.gen) : f \notin cap'.queued /\ (f \notin cap.queued => f \in cap'.recycle)
            /\ \A f \in cap.recycle : f \in cap'.recycle
        BY <2>0, <3>1, FrameSets DEF Freed
      <4>2. \A f \in cap.alive : f[1] \in Nat BY <2>0, FrameSets
      <4>3. QED BY <2>0, <3>1, <3>2, <4>1, <4>2 DEF Kept, AllAlive, FlagsTrue
    <3>9. QED BY <3>2, <3>3, <3>4, <3>5, <3>6, <3>7, <3>8
  <2>27. CASE ResSetup
    <3>1. /\ dec.pc = "setup"
          /\ drv'.capq = Setup(cap.gen + 1)
          /\ drv'.st = "run"
          /\ drv'.capd = drv.capd
          /\ dec'.pc = "poll"
          /\ dec'.hand = dec.hand
          /\ cap'.gen = cap.gen + 1
          /\ cap'.queued = cap.queued \cup Set(cap.gen + 1)
          /\ cap'.alive = cap.alive \cup Set(cap.gen + 1)
          /\ cap'.recycle = cap.recycle
          /\ UNCHANGED <<lock, syn, disp, ring, rec, parked>>
      BY <2>27 DEF TypeDriver, DriverRec, TypeDecoder, DecoderRec, TypeCapture,
        CaptureRec, ResSetup, decOnly, SetupCapture
    <3>2. /\ Apart' /\ cap.gen + 1 \in 1..MaxGen
          /\ \A f \in Item : (InPipe(f)' <=> InPipe(f)) /\ ~InPort(f)
          /\ \A f \in Item : InPort(f)' => f \in Set(cap.gen + 1)
      <4>1. cap.gen + 1 \in 1..MaxGen
        BY <2>0, <3>1 DEF ChangeHandled, Changing
      <4>2. \A f \in Item : ~InPort(f)
        BY <2>0, <3>1 DEF FlagsTrue, ReplacedMarked, Halted
      <4>3. Set(cap.gen + 1) \subseteq Frame /\ \A f \in Set(cap.gen + 1) : f[1] = cap.gen + 1
        BY <2>0, <4>1, FrameFacts, FrameSets
      <4>4. \A f \in Set(cap.gen + 1) : ~InPipe(f) /\ ~InPort(f)
        <5>1. \A f \in cap.alive : f[1] # cap.gen + 1
          BY <2>0, FrameSets DEF AllAlive
        <5>2. QED BY <2>0, <4>2, <4>3, <5>1 DEF AllAlive
      <4>5. Places'["queued"] = Setup(cap.gen + 1)
        BY <3>1, PlacesNext
      <4>6. \A r \in Place \ {"queued"} : Places'[r] = Places[r]
        BY <3>1, PlacesAre, PlacesNext DEF Place, Pipe, RingCount
      <4>7. /\ Apart' /\ \A f \in Item : InPipe(f)' <=> InPipe(f)
            /\ \A f \in Item : InPort(f)' => f \in Set(cap.gen + 1) \/ InPort(f)
        BY <4>1, <4>4, <4>5, <4>6, FillPlaces
      <4>8. QED BY <4>1, <4>2, <4>7
    <3>3. ShownNew' BY <2>0, <3>1, <3>2 DEF ShownNew
    <3>4. AllAlive'
      <4>1. /\ Set(cap.gen + 1) \subseteq Frame /\ \A f \in Set(cap.gen + 1) : f[1] = cap.gen + 1
            /\ \A f \in cap.alive : f[1] \in Nat /\ f[1] <= cap.gen /\ f[1] # cap.gen + 1
        BY <2>0, <3>2, FrameFacts, FrameSets DEF AllAlive
      <4>2. QED BY <2>0, <3>1, <3>2, <4>1 DEF AllAlive
    <3>5. FlagsTrue'
      <4>1. /\ Set(cap.gen + 1) \subseteq Frame /\ \A f \in Set(cap.gen + 1) : f[1] = cap.gen + 1
            /\ \A f \in cap.alive : f[1] \in Nat /\ f[1] <= cap.gen /\ f[1] # cap.gen + 1
        BY <2>0, <3>2, FrameFacts, FrameSets DEF AllAlive
      <4>2. QED BY <2>0, <3>1, <3>2, <4>1 DEF FlagsTrue, AllAlive, Halted
    <3>6. ReplacedMarked'
      <4>1. /\ Set(cap.gen + 1) \subseteq Frame /\ \A f \in Set(cap.gen + 1) : f[1] = cap.gen + 1
            /\ \A f \in cap.alive : f[1] \in Nat /\ f[1] <= cap.gen /\ f[1] # cap.gen + 1
        BY <2>0, <3>2, FrameFacts, FrameSets DEF AllAlive
      <4>2. QED BY <2>0, <3>1, <3>2, <4>1 DEF ReplacedMarked, AllAlive
    <3>7. Halted'
      BY <3>1 DEF Halted
    <3>8. Kept'
      <4>1. /\ Set(cap.gen + 1) \subseteq Frame /\ \A f \in Set(cap.gen + 1) : f[1] = cap.gen + 1
            /\ \A f \in cap.alive : f[1] \in Nat /\ f[1] <= cap.gen /\ f[1] # cap.gen + 1
        BY <2>0, <3>2, FrameFacts, FrameSets DEF AllAlive
      <4>2. QED BY <2>0, <3>1, <3>2, <4>1 DEF Kept, Halted
    <3>9. QED BY <3>2, <3>3, <3>4, <3>5, <3>6, <3>7, <3>8
  <2>28. CASE ResFatal
    <3>1. /\ dec.pc \in {"res", "free", "setup"}
          /\ dec'.pc = "stuck"
          /\ dec'.hand = dec.hand
          /\ UNCHANGED <<drv, cap, lock, syn, disp, ring, rec, parked>>
      BY <2>28 DEF TypeDecoder, DecoderRec, ResFatal, decOnly
    <3>2. /\ Apart'
          /\ \A f \in Item : (InPipe(f)' <=> InPipe(f)) /\ (InPort(f)' <=> InPort(f))
      <4>1. \A r \in Place : Places'[r] = Places[r]
        BY <3>1, PlacesAre, PlacesNext DEF Place, Pipe, RingCount
      <4>2. QED BY <4>1, SamePlaces
    <3>3. AllAlive' /\ FlagsTrue'
      BY <2>0, <3>1, <3>2 DEF AllAlive, FlagsTrue
    <3>4. ShownNew' BY <2>0, <3>1, <3>2 DEF ShownNew
    <3>5. ReplacedMarked' BY <2>0, <3>1, <3>2 DEF ReplacedMarked
    <3>6. Halted' BY <2>0, <3>1, <3>2 DEF Halted
    <3>7. Kept' BY <2>0, <3>1, <3>2 DEF Kept
    <3>8. QED BY <3>2, <3>3, <3>4, <3>5, <3>6, <3>7
  <2>29. CASE DecQuit
    <3>1. /\ dec.pc = "poll"
          /\ dec'.pc = "off"
          /\ dec'.hand = dec.hand
          /\ UNCHANGED <<drv, cap, lock, syn, disp, ring, rec, parked>>
      BY <2>29 DEF TypeDecoder, DecoderRec, DecQuit, decOnly
    <3>2. /\ Apart'
          /\ \A f \in Item : (InPipe(f)' <=> InPipe(f)) /\ (InPort(f)' <=> InPort(f))
      <4>1. \A r \in Place : Places'[r] = Places[r]
        BY <3>1, PlacesAre, PlacesNext DEF Place, Pipe, RingCount
      <4>2. QED BY <4>1, SamePlaces
    <3>3. AllAlive' /\ FlagsTrue'
      BY <2>0, <3>1, <3>2 DEF AllAlive, FlagsTrue
    <3>4. ShownNew' BY <2>0, <3>1, <3>2 DEF ShownNew
    <3>5. ReplacedMarked' BY <2>0, <3>1, <3>2 DEF ReplacedMarked
    <3>6. Halted' BY <2>0, <3>1, <3>2 DEF Halted
    <3>7. Kept' BY <2>0, <3>1, <3>2 DEF Kept
    <3>8. QED BY <3>2, <3>3, <3>4, <3>5, <3>6, <3>7
  <2>30. CASE DecOff
    <3>1. /\ dec.pc = "off"
          /\ drv'.capq = <<>>
          /\ drv'.capd = <<>>
          /\ drv'.st = "off"
          /\ dec'.pc = "done"
          /\ dec'.hand = dec.hand
          /\ UNCHANGED <<cap, lock, syn, disp, ring, rec, parked>>
      BY <2>30 DEF TypeDriver, DriverRec, TypeDecoder, DecoderRec, DecOff,
        decOnly
    <3>2. /\ Apart' /\ \A f \in Item : (InPipe(f)' <=> InPipe(f)) /\ ~InPort(f)'
      <4>1. PICK C : C = {"queued", "decoded"} OBVIOUS
      <4>2. C \in SUBSET Place BY <4>1 DEF Place, Pipe
      <4>3. \A r \in C : Places'[r] = <<>>
        BY <3>1, <4>1, PlacesAre, PlacesNext, EmptySeqs, OneEnds DEF ShownSeq
      <4>4. \A r \in Place \ C : Places'[r] = Places[r]
        BY <3>1, <4>1, PlacesAre, PlacesNext DEF Place, Pipe, RingCount
      <4>5. Apart' /\ \A r \in Place, f \in Item : At(r, f)' <=> r \notin C /\ At(r, f)
        BY <4>2, <4>3, <4>4, ClearPlaces
      <4>6. QED BY <4>1, <4>5 DEF InPipe, InPort, Place, Pipe
    <3>3. ShownNew' BY <2>0, <3>1, <3>2 DEF ShownNew
    <3>4. AllAlive' BY <2>0, <3>1, <3>2 DEF AllAlive
    <3>5. FlagsTrue' BY <2>0, <3>1, <3>2 DEF FlagsTrue
    <3>6. ReplacedMarked' BY <2>0, <3>1, <3>2 DEF ReplacedMarked
    <3>7. Halted' BY <2>0, <3>1, <3>2 DEF Halted
    <3>8. Kept' BY <2>0, <3>1, <3>2 DEF Kept
    <3>9. QED BY <3>2, <3>3, <3>4, <3>5, <3>6, <3>7, <3>8
  <2>31. CASE DispRecycle
    <3>1. /\ disp.cb # <<>> /\ disp'.cb = Tail(disp.cb)
          /\ lock = None /\ Head(disp.cb) \in Frame
          /\ \/ /\ lock' = Head(disp.cb) /\ cap' = cap /\ parked' = parked
                /\ Head(disp.cb) \notin cap.recycle /\ drv'.capq = Append(drv.capq, Head(disp.cb))
             \/ /\ lock' = None /\ cap' = cap /\ drv'.capq = drv.capq
                /\ parked' = parked \cup {Head(disp.cb)}
             \/ /\ lock' = None /\ drv'.capq = drv.capq /\ parked' = parked
                /\ Head(disp.cb) \in cap.recycle /\ cap'.alive = cap.alive \ {Head(disp.cb)}
                /\ cap'.gen = cap.gen /\ cap'.queued = cap.queued
                /\ cap'.recycle = cap.recycle
          /\ drv'.capd = drv.capd /\ drv'.st = drv.st
          /\ disp'.pc = disp.pc /\ disp'.f = disp.f
          /\ UNCHANGED <<dec, syn, ring, rec>>
      <4>1. Head(disp.cb) \in Frame
        BY <2>31, FrameFacts DEF DispRecycle, TypeShow, DisplayRec
      <4>2. Recycle(Head(disp.cb)) BY <2>31 DEF DispRecycle
      <4>3. /\ lock = None /\ drv'.capd = drv.capd /\ drv'.st = drv.st
            /\ \/ /\ lock' = Head(disp.cb) /\ cap' = cap /\ parked' = parked
                  /\ Head(disp.cb) \notin cap.recycle /\ drv'.capq = Append(drv.capq, Head(disp.cb))
               \/ /\ lock' = None /\ cap' = cap /\ drv'.capq = drv.capq
                  /\ parked' = parked \cup {Head(disp.cb)}
               \/ /\ lock' = None /\ drv'.capq = drv.capq /\ parked' = parked
                  /\ Head(disp.cb) \in cap.recycle /\ cap'.alive = cap.alive \ {Head(disp.cb)}
                  /\ cap'.gen = cap.gen /\ cap'.queued = cap.queued
                  /\ cap'.recycle = cap.recycle
        BY <4>1, <4>2, RecycleOutcome
      <4>4. QED BY <2>31, <4>1, <4>3 DEF DispRecycle, shown, TypeShow, DisplayRec
    <3>2. /\ Apart' /\ InPipe(Head(disp.cb)) /\ ~InPort(Head(disp.cb))
          /\ \A f \in Item :
               /\ InPipe(f)' <=> InPipe(f) /\ f # Head(disp.cb)
               /\ InPort(f)' <=> InPort(f) \/ (f = Head(disp.cb) /\ lock' = f)
      <4>1. PICK x : x = Head(disp.cb) OBVIOUS
      <4>2. /\ Shifted(Places["cb"], Places'["cb"]) /\ x = Places["cb"][1]
            /\ x \in Frame /\ x \in Item
        <5>1. disp.cb \in Seq(Frame) BY DEF TypeShow, DisplayRec
        <5>2. QED BY <2>0, <3>1, <4>1, <5>1, PlacesAre, PlacesNext, QueueEnds
      <4>3. \A r \in Place \ {"cb", "queued"} : Places'[r] = Places[r]
        BY <3>1, PlacesAre, PlacesNext DEF Place, Pipe, RingCount
      <4>4. /\ "cb" \in Place /\ "cb" \in Pipe
            /\ "queued" \in Place /\ "queued" \notin Pipe
        BY DEF Place, Pipe
      <4>5. CASE lock' = x
        <5>1. drv.capq \in Seq(Frame) BY DEF TypeDriver, DriverRec
        <5>2. Appended(Places["queued"], Places'["queued"], x)
          <6>1. Appended(drv.capq, Append(drv.capq, x), x)
            BY <4>2, <5>1, QueueEnds
          <6>2. drv'.capq = Append(drv.capq, x)
            BY <2>0, <3>1, <4>1, <4>2, <4>5
          <6>3. QED BY <6>1, <6>2, PlacesAre, PlacesNext
        <5>3. /\ Apart' /\ InPipe(x) /\ ~InPort(x) /\ ~InPipe(x)' /\ InPort(x)'
              /\ \A f \in Item : f # x =>
                   (InPipe(f)' <=> InPipe(f)) /\ (InPort(f)' <=> InPort(f))
          BY <4>2, <4>3, <4>4, <5>2, MoveFrame
        <5>4. QED BY <4>1, <4>5, <5>3
      <4>6. CASE lock' # x
        <5>1. Places'["queued"] = Places["queued"]
          BY <3>1, <4>1, <4>6, PlacesAre, PlacesNext
        <5>2. \A r \in Place \ {"cb"} : Places'[r] = Places[r]
          BY <4>3, <5>1
        <5>3. /\ Apart' /\ InPipe(x) /\ ~InPort(x) /\ ~InPipe(x)' /\ ~InPort(x)'
              /\ \A f \in Item : f # x =>
                   (InPipe(f)' <=> InPipe(f)) /\ (InPort(f)' <=> InPort(f))
          BY <4>2, <4>4, <5>2, DropFrame
        <5>4. QED BY <4>1, <4>6, <5>3
      <4>7. QED BY <4>5, <4>6
    <3>3. ShownNew'
      BY <2>0, <3>1, <3>2 DEF ShownNew
    <3>4. AllAlive'
      <4>1. PICK x : x = Head(disp.cb) OBVIOUS
      <4>2. x \in Frame /\ x \in Item BY <2>0, <3>1, <4>1
      <4>3. QED BY <2>0, <3>1, <3>2, <4>1, <4>2 DEF AllAlive
    <3>5. FlagsTrue'
      <4>1. PICK x : x = Head(disp.cb) OBVIOUS
      <4>2. x \in Frame /\ x \in Item BY <2>0, <3>1, <4>1
      <4>3. QED BY <2>0, <3>1, <3>2, <4>1, <4>2 DEF FlagsTrue
    <3>6. ReplacedMarked'
      <4>1. PICK x : x = Head(disp.cb) OBVIOUS
      <4>2. x \in Frame /\ x \in Item BY <2>0, <3>1, <4>1
      <4>3. lock' = x => x[1] = cap.gen /\ dec.pc # "setup"
        <5>1. x \in cap.alive /\ x[1] \in Nat
          BY <2>0, <3>2, <4>1, <4>2, FrameSets DEF AllAlive
        <5>2. x[1] <= cap.gen BY <5>1 DEF AllAlive
        <5>3. lock' = x => x \notin cap.recycle
          BY <2>0, <3>1, <4>1, <4>2
        <5>4. QED BY <2>0, <3>2, <4>1, <4>2, <5>1, <5>2, <5>3 DEF ReplacedMarked
      <4>4. QED BY <2>0, <3>1, <3>2, <4>1, <4>2, <4>3 DEF ReplacedMarked
    <3>7. Halted'
      <4>1. PICK x : x = Head(disp.cb) OBVIOUS
      <4>2. x \in Frame /\ x \in Item BY <2>0, <3>1, <4>1
      <4>3. lock' = x => x[1] = cap.gen /\ dec.pc # "setup"
        <5>1. x \in cap.alive /\ x[1] \in Nat
          BY <2>0, <3>2, <4>1, <4>2, FrameSets DEF AllAlive
        <5>2. x[1] <= cap.gen BY <5>1 DEF AllAlive
        <5>3. lock' = x => x \notin cap.recycle
          BY <2>0, <3>1, <4>1, <4>2
        <5>4. QED BY <2>0, <3>2, <4>1, <4>2, <5>1, <5>2, <5>3 DEF ReplacedMarked
      <4>4. QED BY <2>0, <3>1, <4>1, <4>3 DEF Halted
    <3>8. Kept'
      <4>1. PICK x : x = Head(disp.cb) OBVIOUS
      <4>2. x \in Frame /\ x \in Item BY <2>0, <3>1, <4>1
      <4>3. lock' = x => x[1] = cap.gen /\ dec.pc # "setup"
        <5>1. x \in cap.alive /\ x[1] \in Nat
          BY <2>0, <3>2, <4>1, <4>2, FrameSets DEF AllAlive
        <5>2. x[1] <= cap.gen BY <5>1 DEF AllAlive
        <5>3. lock' = x => x \notin cap.recycle
          BY <2>0, <3>1, <4>1, <4>2
        <5>4. QED BY <2>0, <3>2, <4>1, <4>2, <5>1, <5>2, <5>3 DEF ReplacedMarked
      <4>4. QED BY <2>0, <3>1, <3>2, <4>1, <4>2, <4>3 DEF Kept
    <3>9. QED BY <3>2, <3>3, <3>4, <3>5, <3>6, <3>7, <3>8
  <2>32. CASE DispFlag
    <3>1. /\ disp.flag
          /\ lock # None
          /\ cap'.queued = cap.queued \cup {lock}
          /\ cap'.gen = cap.gen /\ cap'.recycle = cap.recycle /\ cap'.alive =
             cap.alive
          /\ lock' = None
          /\ disp'.pc = disp.pc /\ disp'.f = disp.f /\ disp'.cb = disp.cb
          /\ UNCHANGED <<drv, dec, syn, ring, rec, parked>>
      BY <2>32 DEF TypeCapture, CaptureRec, TypeShow, DisplayRec, LockHeld,
        DispFlag, shown, RecycleFlag
    <3>2. /\ Apart'
          /\ \A f \in Item : (InPipe(f)' <=> InPipe(f)) /\ (InPort(f)' <=> InPort(f))
      <4>1. \A r \in Place : Places'[r] = Places[r]
        BY <3>1, PlacesAre, PlacesNext DEF Place, Pipe, RingCount
      <4>2. QED BY <4>1, SamePlaces
    <3>3. ShownNew' /\ AllAlive' /\ ReplacedMarked'
      BY <2>0, <3>1, <3>2 DEF ShownNew, AllAlive, ReplacedMarked
    <3>4. FlagsTrue' BY <2>0, <3>1, <3>2 DEF FlagsTrue, LockHeld, AllAlive
    <3>5. Halted' BY <2>0, <3>1, <3>2 DEF Halted, LockHeld
    <3>6. Kept' BY <2>0, <3>1, <3>2 DEF Kept, LockHeld
    <3>7. QED BY <3>2, <3>3, <3>4, <3>5, <3>6
  <2>33. CASE av_sync_pop_frame
    <3>1. /\ disp.pc = "pop" /\ disp.cb = <<>> /\ disp'.f = disp.f
          /\ disp'.pc = IF syn'.shown = Eos THEN "end" ELSE "flip"
          /\ \E n \in {1, 2} :
                /\ n <= Len(syn.q) /\ syn'.shown = syn.q[n]
                /\ Len(syn'.q) = Len(syn.q) - n
                /\ \A i \in 1..Len(syn'.q) : syn'.q[i] = syn.q[i + n]
                /\ Len(disp'.cb) = n - 1
                /\ \A i \in 1..Len(disp'.cb) : disp'.cb[i] = syn.q[1]
          /\ \/ syn.shown \in {disp.f, None, Eos} /\ parked' = parked
             \/ syn.shown \notin {disp.f, None, Eos} /\ parked' = parked \cup {syn.shown}
          /\ UNCHANGED <<drv, dec, cap, lock, ring, rec>>
      <4>1. PICK n \in {1, 2} :
              /\ n <= Len(syn.q) /\ syn' = [q |-> syn'.q, shown |-> syn.q[n]]
              /\ syn'.shown = syn.q[n] /\ syn.q[n] \in Frame \cup {Eos}
              /\ syn'.q \in Seq(Frame \cup {Eos}) /\ Len(syn'.q) = Len(syn.q) - n
              /\ \A i \in 1..Len(syn'.q) : syn'.q[i] = syn.q[i + n]
              /\ disp' = [pc |-> IF syn.q[n] = Eos THEN "end" ELSE "flip",
                          f |-> disp.f, cb |-> disp'.cb, n |-> disp.n,
                          flag |-> disp.flag]
              /\ Len(disp'.cb) = n - 1 /\ disp'.cb \in Seq({syn.q[1]})
        BY <2>33, PopOutcome
      <4>2. /\ syn'.shown = syn.q[n] /\ disp'.f = disp.f
            /\ disp'.pc = IF syn.q[n] = Eos THEN "end" ELSE "flip"
        BY <4>1
      <4>3. \A i \in 1..Len(disp'.cb) : disp'.cb[i] = syn.q[1]
        <5>1. disp'.cb \in Seq({syn.q[1]}) BY <4>1
        <5>2. \A i \in 1..Len(disp'.cb) : disp'.cb[i] \in {syn.q[1]} BY <5>1
        <5>3. QED BY <5>2
      <4>4. /\ disp.pc = "pop" /\ disp.cb = <<>>
            /\ \/ syn.shown \in {disp.f, None, Eos} /\ parked' = parked
               \/ syn.shown \notin {disp.f, None, Eos} /\ parked' = parked \cup {syn.shown}
            /\ UNCHANGED <<drv, dec, cap, lock, ring, rec>>
        BY <2>33 DEF av_sync_pop_frame, dispIdle
      <4>5. QED BY <4>1, <4>2, <4>3, <4>4
    <3>2. /\ Apart'
          /\ \A f \in Item : (InPipe(f)' => InPipe(f)) /\ (InPort(f)' <=> InPort(f))
          /\ \A f \in Frame : InPipe(f) => InPipe(f)' \/ f \in parked'
      <4>1. PICK n \in {1, 2} :
              /\ n <= Len(syn.q) /\ syn'.shown = syn.q[n]
              /\ Len(syn'.q) = Len(syn.q) - n
              /\ \A i \in 1..Len(syn'.q) : syn'.q[i] = syn.q[i + n]
              /\ Len(disp'.cb) = n - 1
              /\ \A i \in 1..Len(disp'.cb) : disp'.cb[i] = syn.q[1]
        BY <3>1
      <4>2. disp'.pc # "done" /\ RingCount' = RingCount
        BY <3>1 DEF RingCount
      <4>3. syn'.shown # disp'.f \/ syn'.shown = Eos
        <5> SUFFICES ASSUME syn'.shown = disp.f, syn'.shown # Eos PROVE FALSE
          BY <3>1
        <5>2. syn.q \in Seq(Frame \cup {Eos}) /\ n \in 1..Len(syn.q)
          BY <4>1 DEF TypeShow, SyncRec
        <5>3. disp.f \in Frame /\ disp.f = syn.q[n]
          <6>1. syn.q[n] \in Frame \cup {Eos} BY <5>2
          <6>2. QED BY <4>1, <6>1
        <5>4. Places["screen"] = <<disp.f>> /\ Places["sync"] = syn.q
          BY <5>3, PlacesAre, OneEnds
        <5>5. 1 \in 1..Len(Places["screen"]) /\ Places["screen"][1] = Places["sync"][n]
          BY <5>3, <5>4
        <5>6. "screen" \in Place /\ "sync" \in Place BY DEF Place, Pipe
        <5>7. QED BY <5>2, <5>4, <5>5, <5>6 DEF Apart, ApartIn
      <4>4. Places'["shown"] = One(syn.q[n])
        BY <4>1, <4>2, <4>3, PlacesNext, OneEnds DEF ShownSeq
      <4>5. \A r \in Place \ {"sync", "shown", "cb"} : Places'[r] = Places[r]
        BY <3>1, <4>2, PlacesAre, PlacesNext DEF Place, Pipe
      <4>6. Places["sync"] = syn.q /\ Places'["sync"] = syn'.q
            /\ Places["cb"] = <<>> /\ Places'["cb"] = disp'.cb
        BY <3>1, PlacesAre, PlacesNext
      <4>7. /\ Apart'
            /\ \A f \in Item : (InPipe(f)' => InPipe(f)) /\ (InPort(f)' <=> InPort(f))
            /\ \A f \in Frame : InPipe(f) => InPipe(f)' \/ At("shown", f)
        BY <4>1, <4>4, <4>5, <4>6, PopFrames
      <4>8. ASSUME NEW f \in Frame, At("shown", f) PROVE f \in parked'
        <5>1. Has(Places, "shown", f) BY <4>8 DEF At
        <5>2. PICK k \in 1..Len(Places["shown"]) : Places["shown"][k] = f
          BY <5>1 DEF Has
        <5>3. syn.shown # disp.f /\ syn.shown = f
          BY <5>2, PlacesAre DEF ShownSeq, One
        <5>4. QED BY <2>0, <3>1, <5>3
      <4>9. QED BY <4>7, <4>8
    <3>3. Halted'
      BY <2>0, <3>1, <3>2 DEF Halted
    <3>4. ShownNew'
      <4>1. PICK n \in {1, 2} : n <= Len(syn.q) /\ syn'.shown = syn.q[n]
        BY <3>1
      <4>2. CASE syn'.shown = Eos
        BY <3>1, <4>2 DEF ShownNew
      <4>3. CASE syn'.shown # Eos
        <5> SUFFICES ASSUME syn'.shown = disp.f PROVE FALSE
          BY <3>1, <4>3 DEF ShownNew
        <5>2. syn.q \in Seq(Frame \cup {Eos}) /\ n \in 1..Len(syn.q)
          BY <4>1 DEF TypeShow, SyncRec
        <5>3. disp.f \in Frame /\ disp.f = syn.q[n]
          <6>1. syn.q[n] \in Frame \cup {Eos} BY <5>2
          <6>2. QED BY <4>1, <4>3, <6>1
        <5>4. Places["screen"] = <<disp.f>> /\ Places["sync"] = syn.q
          BY <5>3, PlacesAre, OneEnds
        <5>5. 1 \in 1..Len(Places["screen"]) /\ Places["screen"][1] = Places["sync"][n]
          BY <5>3, <5>4
        <5>6. "screen" \in Place /\ "sync" \in Place BY DEF Place, Pipe
        <5>7. QED BY <5>2, <5>4, <5>5, <5>6 DEF Apart, ApartIn
      <4>4. QED BY <4>2, <4>3
    <3>5. AllAlive' BY <2>0, <3>1, <3>2 DEF AllAlive
    <3>6. FlagsTrue' BY <2>0, <3>1, <3>2 DEF FlagsTrue
    <3>7. ReplacedMarked' BY <2>0, <3>1, <3>2 DEF ReplacedMarked
    <3>8. Kept' BY <2>0, <3>1, <3>2 DEF Kept
    <3>9. QED BY <3>2, <3>3, <3>4, <3>5, <3>6, <3>7, <3>8
  <2>34. CASE PopAgain
    <3>1. /\ disp.pc = "pop" /\ disp.cb = <<>> /\ ~disp.flag
          /\ syn.shown \notin {disp.f, None, Eos}
          /\ disp'.pc = "flip"
          /\ disp'.f = disp.f /\ disp'.cb = disp.cb
          /\ UNCHANGED <<drv, dec, cap, lock, syn, ring, rec, parked>>
      BY <2>34 DEF TypeShow, DisplayRec, PopAgain, shown, dispIdle
    <3>2. /\ Apart'
          /\ \A f \in Item : (InPipe(f)' <=> InPipe(f)) /\ (InPort(f)' <=> InPort(f))
      <4>1. \A r \in Place : Places'[r] = Places[r]
        BY <3>1, PlacesAre, PlacesNext DEF Place, Pipe, RingCount, ShownSeq
      <4>2. QED BY <4>1, SamePlaces
    <3>3. AllAlive' /\ FlagsTrue' /\ ReplacedMarked' /\ Halted' /\ Kept'
      BY <2>0, <3>1, <3>2 DEF AllAlive, FlagsTrue, ReplacedMarked, Halted, Kept
    <3>4. ShownNew' BY <2>0, <3>1, <3>2 DEF ShownNew
    <3>5. QED BY <3>2, <3>3, <3>4
  <2>35. CASE FlipFail
    <3>1. /\ disp.pc = "flip" /\ disp.cb = <<>> /\ ~disp.flag
          /\ disp'.pc = "pop"
          /\ disp'.f = disp.f /\ disp'.cb = disp.cb
          /\ UNCHANGED <<drv, dec, cap, lock, syn, ring, rec, parked>>
      BY <2>35 DEF TypeShow, DisplayRec, FlipFail, shown, dispIdle
    <3>2. /\ Apart'
          /\ \A f \in Item : (InPipe(f)' <=> InPipe(f)) /\ (InPort(f)' <=> InPort(f))
      <4>1. \A r \in Place : Places'[r] = Places[r]
        BY <3>1, PlacesAre, PlacesNext DEF Place, Pipe, RingCount, ShownSeq
      <4>2. QED BY <4>1, SamePlaces
    <3>3. AllAlive' /\ FlagsTrue' /\ ReplacedMarked' /\ Halted' /\ Kept'
      BY <2>0, <3>1, <3>2 DEF AllAlive, FlagsTrue, ReplacedMarked, Halted, Kept
    <3>4. ShownNew' BY <2>0, <3>1, <3>2 DEF ShownNew
    <3>5. QED BY <3>2, <3>3, <3>4
  <2>36. CASE Flip
    <3>1. /\ disp.pc = "flip" /\ disp.cb = <<>> /\ ~disp.flag
          /\ \/ /\ disp.f = None /\ ring' = ring /\ disp'.pc = "pop"
                /\ disp'.cb = <<>> /\ disp'.n = disp.n
             \/ /\ disp.f # None /\ ring.n = RingLen /\ ring' = ring
                /\ disp'.pc = "pop" /\ disp'.cb = <<disp.f>> /\ disp'.n = disp.n
             \/ /\ disp.f # None /\ ring.n # RingLen /\ rec.pc # "dec"
                /\ disp'.pc = "inc" /\ disp'.cb = <<>> /\ disp'.n = ring.n
                /\ ring'.slot = [ring.slot EXCEPT ![ring.wi] = disp.f]
                /\ ring'.wi = (ring.wi + 1) % RingLen
          /\ syn'.q = syn.q /\ syn'.shown = syn.shown
          /\ disp'.f = syn.shown
          /\ ring'.ri = ring.ri /\ ring'.n = ring.n
          /\ UNCHANGED <<drv, dec, cap, lock, syn, rec, parked>>
      BY <2>36 DEF TypeShow, DisplayRec, TypeRing, RingRec, May, Flip, shown,
        dispIdle, RingFull, Replaced
    <3>2. /\ Apart'
          /\ \A f \in Item : (InPipe(f)' <=> InPipe(f)) /\ (InPort(f)' <=> InPort(f))
      <4>1. /\ syn.shown \in Frame /\ syn.shown # disp.f /\ disp.f \in Frame \cup {None}
            /\ disp'.pc # "done"
        BY <3>1 DEF ShowHas, ShownNew, TypeShow, DisplayRec
      <4>2. /\ Places["shown"] = One(syn.shown) /\ Places'["shown"] = <<>>
            /\ Places["screen"] = One(disp.f) /\ Places'["screen"] = One(syn.shown)
            /\ Places["cb"] = <<>>
        BY <3>1, <4>1, PlacesAre, PlacesNext DEF ShownSeq
      <4>3. {"screen", "shown", "cb", "ring"} \subseteq Pipe /\ Pipe \subseteq Place
        BY DEF Place, Pipe
      <4>4. \A r \in Place \ {"screen", "shown", "cb", "ring"} : Places'[r] = Places[r]
        BY <3>1, PlacesAre, PlacesNext DEF Place, Pipe
      <4>5. CASE disp.f = None
        <5>1. ring' = ring /\ disp'.pc = "pop" /\ disp'.cb = <<>>
          BY <3>1, <4>5
        <5>2. RingCount' = RingCount BY <3>1, <5>1 DEF RingCount
        <5>3. Places'["cb"] = Places["cb"] /\ Places'["ring"] = Places["ring"]
          BY <4>2, <5>1, <5>2, PlacesAre, PlacesNext
        <5>4. \A r \in Place \ {"shown", "screen"} : Places'[r] = Places[r]
          BY <4>4, <5>3
        <5>5. /\ Shifted(Places["shown"], Places'["shown"])
              /\ syn.shown = Places["shown"][1]
              /\ Appended(Places["screen"], Places'["screen"], syn.shown)
          BY <4>1, <4>2, <4>5, OneEnds
        <5>6. QED BY <4>3, <5>4, <5>5, MoveFrame
      <4>6. CASE disp.f # None /\ ring.n = RingLen
        <5>1. ring' = ring /\ disp'.pc = "pop" /\ disp'.cb = <<disp.f>> /\ disp.f \in Frame
          BY <3>1, <4>1, <4>6
        <5>2. RingCount' = RingCount BY <3>1, <5>1 DEF RingCount
        <5>3. Places'["ring"] = Places["ring"]
          BY <5>1, <5>2, PlacesAre, PlacesNext
        <5>4. Appended(Places["cb"], Places'["cb"], disp.f)
          BY <4>2, <5>1, PlacesNext, OneEnds
        <5>5. \A r \in Place \ {"screen", "shown", "cb"} : Places'[r] = Places[r]
          BY <4>4, <5>3
        <5>6. QED BY <4>1, <4>2, <5>1, <5>4, <5>5, FlipFrames
      <4>7. CASE disp.f # None /\ ring.n # RingLen
        <5>1. /\ disp'.pc = "inc" /\ disp'.cb = <<>> /\ disp.f \in Frame
              /\ rec.pc # "dec" /\ ring'.ri = ring.ri /\ ring'.n = ring.n
              /\ ring'.slot = [ring.slot EXCEPT ![ring.wi] = disp.f] /\ rec' = rec
          BY <3>1, <4>1, <4>7
        <5>2. /\ ring.n \in 0 .. RingLen - 1 /\ ring.ri \in 0 .. RingLen - 1
              /\ ring.slot \in [0 .. RingLen - 1 -> Frame \cup {None}]
          BY <4>7 DEF TypeRing, RingRec
        <5>3. RingCount = ring.n /\ RingCount' = ring.n + 1
          BY <3>1, <5>1, <5>2 DEF RingCount
        <5>4. ring'.slot = [ring.slot EXCEPT ![(ring.ri + ring.n) % RingLen] = disp.f]
          BY <5>1, <5>3 DEF RingOK
        <5>5. Appended(Places["ring"], Places'["ring"], disp.f)
          <6>1. disp.f \in Frame \cup {None} BY <5>1
          <6>2. Appended(RingSeq(ring.n, ring.slot, ring.ri),
                         RingSeq(ring.n + 1, ring'.slot, ring.ri), disp.f)
            BY <5>2, <5>4, <6>1, RingAppended
          <6>3. QED BY <5>1, <5>3, <6>2, PlacesAre, PlacesNext
        <5>6. Places'["cb"] = Places["cb"]
          BY <4>2, <5>1, PlacesNext
        <5>7. \A r \in Place \ {"screen", "shown", "ring"} : Places'[r] = Places[r]
          BY <4>4, <5>6
        <5>8. QED BY <4>1, <4>2, <5>1, <5>5, <5>7, FlipFrames
      <4>8. QED BY <4>5, <4>6, <4>7
    <3>3. AllAlive' /\ FlagsTrue' /\ ReplacedMarked' /\ Halted' /\ Kept'
      BY <2>0, <3>1, <3>2 DEF AllAlive, FlagsTrue, ReplacedMarked, Halted, Kept
    <3>4. ShownNew' BY <2>0, <3>1, <3>2 DEF ShownNew
    <3>5. QED BY <3>2, <3>3, <3>4
  <2>37. CASE RingInc
    <3>1. /\ disp.pc = "inc"
          /\ disp'.pc = "pop"
          /\ disp'.f = disp.f /\ disp'.cb = disp.cb
          /\ ring'.n = disp.n + 1
          /\ ring'.slot = ring.slot /\ ring'.ri = ring.ri /\ ring'.wi = ring.wi
          /\ UNCHANGED <<drv, dec, cap, lock, syn, rec, parked>>
      BY <2>37 DEF TypeShow, DisplayRec, TypeRing, RingRec, RingInc, shown
    <3>2. /\ Apart'
          /\ \A f \in Item : (InPipe(f)' <=> InPipe(f)) /\ (InPort(f)' <=> InPort(f))
      <4>1. RingCount' = RingCount
        <5>1. rec.pc # "dec" /\ disp.n = ring.n /\ ring.n \in Nat
          BY <3>1 DEF RingOK, TypeRing, RingRec
        <5>2. QED BY <3>1, <5>1 DEF RingCount
      <4>2. \A r \in Place : Places'[r] = Places[r]
        BY <3>1, <4>1, PlacesAre, PlacesNext DEF Place, Pipe, ShownSeq
      <4>3. QED BY <4>2, SamePlaces
    <3>3. AllAlive' /\ FlagsTrue' /\ ReplacedMarked' /\ Halted' /\ Kept'
      BY <2>0, <3>1, <3>2 DEF AllAlive, FlagsTrue, ReplacedMarked, Halted, Kept
    <3>4. ShownNew' BY <2>0, <3>1, <3>2 DEF ShownNew
    <3>5. QED BY <3>2, <3>3, <3>4
  <2>38. CASE VblankFail
    <3>1. /\ disp.pc = "pop" /\ disp.cb = <<>> /\ ~disp.flag
          /\ parked' = parked \cup ({disp.f, syn.shown} \ {None, Eos})
          /\ disp'.pc = "done"
          /\ disp'.f = None
          /\ disp'.cb = disp.cb
          /\ UNCHANGED <<drv, dec, cap, lock, syn, ring, rec>>
      BY <2>38 DEF TypeShow, DisplayRec, VblankFail, shown, dispIdle
    <3>2. /\ Apart'
          /\ \A f \in Item : (InPipe(f)' => InPipe(f)) /\ (InPort(f)' <=> InPort(f))
          /\ \A f \in Frame : InPipe(f) => InPipe(f)' \/ f \in parked'
      <4>1. PICK C : C = {"screen", "shown"} OBVIOUS
      <4>2. C \in SUBSET Place BY <4>1 DEF Place, Pipe
      <4>3. \A r \in C : Places'[r] = <<>>
        BY <3>1, <4>1, PlacesAre, PlacesNext, EmptySeqs, OneEnds DEF ShownSeq
      <4>4. \A r \in Place \ C : Places'[r] = Places[r]
        BY <3>1, <4>1, PlacesAre, PlacesNext DEF Place, Pipe, RingCount
      <4>5. Apart' /\ \A r \in Place, f \in Item : At(r, f)' <=> r \notin C /\ At(r, f)
        BY <4>2, <4>3, <4>4, ClearPlaces
      <4>6. ASSUME NEW f \in Frame, NEW r \in {"screen", "shown"}, At(r, f)
            PROVE  f \in {disp.f, syn.shown}
        <5>1. Has(Places, r, f) BY <4>6 DEF At
        <5>2. PICK k \in 1..Len(Places[r]) : Places[r][k] = f
          BY <5>1 DEF Has
        <5>3. QED BY <5>2, PlacesAre DEF ShownSeq, One
      <4>7. \A f \in Frame : InPipe(f) => InPipe(f)' \/ f \in parked'
        <5>1. \A f \in Frame, r \in Pipe : At(r, f) => At(r, f)' \/ f \in {disp.f, syn.shown}
          BY <2>0, <4>1, <4>5, <4>6 DEF Place
        <5>2. \A f \in Frame : f \in {disp.f, syn.shown} => f \in parked'
          BY <2>0, <3>1
        <5>3. QED BY <5>1, <5>2 DEF InPipe
      <4>8. \A f \in Item : (InPipe(f)' => InPipe(f)) /\ (InPort(f)' <=> InPort(f))
        BY <4>1, <4>5 DEF InPipe, InPort, Place, Pipe
      <4>9. QED BY <4>5, <4>7, <4>8
    <3>3. Halted'
      BY <2>0, <3>1, <3>2 DEF Halted
    <3>4. ShownNew' BY <2>0, <3>1, <3>2 DEF ShownNew
    <3>5. AllAlive' BY <2>0, <3>1, <3>2 DEF AllAlive
    <3>6. FlagsTrue' BY <2>0, <3>1, <3>2 DEF FlagsTrue
    <3>7. ReplacedMarked' BY <2>0, <3>1, <3>2 DEF ReplacedMarked
    <3>8. Kept' BY <2>0, <3>1, <3>2 DEF Kept
    <3>9. QED BY <3>2, <3>3, <3>4, <3>5, <3>6, <3>7, <3>8
  <2>39. CASE DispQuit
    <3>1. /\ disp.pc = "pop" /\ disp.cb = <<>> /\ ~disp.flag
          /\ dec.pc = "done"
          /\ disp'.pc = "end"
          /\ disp'.f = disp.f /\ disp'.cb = disp.cb
          /\ UNCHANGED <<drv, dec, cap, lock, syn, ring, rec, parked>>
      BY <2>39 DEF TypeShow, DisplayRec, Unstarted, DispQuit, shown, dispIdle
    <3>2. /\ Apart'
          /\ \A f \in Item : (InPipe(f)' <=> InPipe(f)) /\ (InPort(f)' <=> InPort(f))
      <4>1. \A r \in Place : Places'[r] = Places[r]
        BY <3>1, PlacesAre, PlacesNext DEF Place, Pipe, RingCount, ShownSeq
      <4>2. QED BY <4>1, SamePlaces
    <3>3. AllAlive' /\ FlagsTrue' /\ ReplacedMarked' /\ Halted' /\ Kept'
      BY <2>0, <3>1, <3>2 DEF AllAlive, FlagsTrue, ReplacedMarked, Halted, Kept
    <3>4. ShownNew' BY <2>0, <3>1, <3>2 DEF ShownNew
    <3>5. QED BY <3>2, <3>3, <3>4
  <2>40. CASE DispEnd
    <3>1. /\ disp.pc = "end" /\ disp.cb = <<>> /\ ~disp.flag
          /\ disp'.pc = "done"
          /\ disp'.f = None
          /\ disp'.cb = IF disp.f = None THEN <<>> ELSE <<disp.f>>
          /\ UNCHANGED <<drv, dec, cap, lock, syn, ring, rec, parked>>
      BY <2>40 DEF TypeShow, DisplayRec, DispEnd, shown, dispIdle
    <3>2. /\ Apart'
          /\ \A f \in Item : (InPipe(f)' => InPipe(f)) /\ (InPort(f)' <=> InPort(f))
          /\ \A f \in Frame : InPipe(f) => InPipe(f)' \/ dec.pc = "done"
      <4>1. ASSUME NEW f \in Frame, At("shown", f) PROVE dec.pc = "done"
        <5>1. Has(Places, "shown", f) BY <4>1 DEF At
        <5>2. PICK k \in 1..Len(Places["shown"]) : Places["shown"][k] = f
          BY <5>1 DEF Has
        <5>3. syn.shown = f
          BY <5>2, PlacesAre DEF ShownSeq, One
        <5>4. QED BY <2>0, <3>1, <5>3 DEF ShownNew
      <4>2. CASE disp.f = None
        <5>1. PICK C : C = {"shown"} OBVIOUS
        <5>2. C \in SUBSET Place BY <5>1 DEF Place, Pipe
        <5>3. \A r \in C : Places'[r] = <<>>
          BY <3>1, <5>1, PlacesNext DEF ShownSeq
        <5>4. \A r \in Place \ C : Places'[r] = Places[r]
          BY <3>1, <4>2, <5>1, PlacesAre, PlacesNext DEF Place, Pipe, RingCount
        <5>5. Apart' /\ \A r \in Place, f \in Item : At(r, f)' <=> r \notin C /\ At(r, f)
          BY <5>2, <5>3, <5>4, ClearPlaces
        <5>6. \A f \in Item : (InPipe(f)' => InPipe(f)) /\ (InPort(f)' <=> InPort(f))
          BY <5>1, <5>5 DEF InPipe, InPort, Place, Pipe
        <5>7. \A f \in Frame : InPipe(f) => InPipe(f)' \/ dec.pc = "done"
          <6>1. \A f \in Frame, r \in Pipe : At(r, f) => At(r, f)' \/ dec.pc = "done"
            BY <2>0, <4>1, <5>1, <5>5 DEF Place
          <6>2. QED BY <6>1 DEF InPipe
        <5>8. QED BY <5>5, <5>6, <5>7
      <4>3. CASE disp.f # None
        <5>1. disp.f \in Frame BY <4>3 DEF TypeShow, DisplayRec
        <5>2. /\ Places["screen"] = One(disp.f) /\ Places["cb"] = <<>>
              /\ Places'["cb"] = <<disp.f>> /\ Places'["screen"] = <<>>
              /\ Places'["shown"] = <<>>
          BY <3>1, <4>3, PlacesAre, PlacesNext, OneEnds DEF ShownSeq
        <5>3. \A r \in Place \ {"screen", "shown", "cb"} : Places'[r] = Places[r]
          BY <3>1, PlacesAre, PlacesNext DEF Place, Pipe, RingCount
        <5>4. /\ Apart'
              /\ \A f \in Item : (InPipe(f)' => InPipe(f)) /\ (InPort(f)' <=> InPort(f))
              /\ \A f \in Item : InPipe(f) => InPipe(f)' \/ At("shown", f)
          BY <5>1, <5>2, <5>3, EndFrames
        <5>5. QED BY <2>0, <4>1, <5>4
      <4>4. QED BY <4>2, <4>3
    <3>3. Halted'
      BY <2>0, <3>1, <3>2 DEF Halted
    <3>4. ShownNew' BY <2>0, <3>1, <3>2 DEF ShownNew
    <3>5. AllAlive' BY <2>0, <3>1, <3>2 DEF AllAlive
    <3>6. FlagsTrue' BY <2>0, <3>1, <3>2 DEF FlagsTrue
    <3>7. ReplacedMarked' BY <2>0, <3>1, <3>2 DEF ReplacedMarked
    <3>8. Kept' BY <2>0, <3>1, <3>2 DEF Kept
    <3>9. QED BY <3>2, <3>3, <3>4, <3>5, <3>6, <3>7, <3>8
  <2>41. CASE dequeue_frame
    <3>1. /\ rec.pc = "run" /\ ring.n # 0
          /\ disp.pc # "inc"
          /\ ring'.ri = (ring.ri + 1) % RingLen
          /\ ring'.slot = ring.slot /\ ring'.wi = ring.wi /\ ring'.n = ring.n
          /\ rec'.pc = "dec"
          /\ rec'.f = ring.slot[ring.ri]
          /\ UNCHANGED <<drv, dec, cap, lock, syn, disp, parked>>
      BY <2>41 DEF TypeRing, RingRec, RecycleRec, May, dequeue_frame, shown
    <3>2. /\ Apart'
          /\ \A f \in Item : (InPipe(f)' <=> InPipe(f)) /\ (InPort(f)' <=> InPort(f))
      <4>1. /\ ring.ri \in 0 .. RingLen - 1 /\ ring.n \in 1..RingLen
        BY <3>1 DEF TypeRing, RingRec
      <4>2. RingCount = ring.n /\ RingCount' = ring.n - 1
        BY <3>1, <4>1 DEF RingCount
      <4>3. /\ Shifted(Places["ring"], Places'["ring"])
            /\ Places["ring"][1] = ring.slot[ring.ri]
        BY <3>1, <4>1, <4>2, PlacesAre, PlacesNext, RingShifted
      <4>4. rec.f = None /\ Places["rec"] = <<>>
        BY <3>1, PlacesAre, OneEnds DEF RingOK
      <4>5. {"ring", "rec"} \subseteq Pipe /\ Pipe \subseteq Place
        BY DEF Place, Pipe
      <4>6. ring.slot[ring.ri] \in Frame
        <5>1. /\ Places["ring"] \in Seq(Frame \cup {None}) /\ Len(Places["ring"]) # 0
          BY <4>3 DEF PlacesOK, Shifted
        <5>2. 1 \in 1..Len(Places["ring"]) /\ Places["ring"][1] \in Frame \cup {None}
          BY <5>1
        <5>3. InPipe(Places["ring"][1]) BY <4>5, <5>2 DEF InPipe, At, Has
        <5>4. QED BY <2>0, <4>3, <5>2, <5>3 DEF AllAlive
      <4>7. Appended(Places["rec"], Places'["rec"], ring.slot[ring.ri])
        BY <3>1, <4>4, <4>6, PlacesNext, OneEnds
      <4>8. \A r \in Place \ {"ring", "rec"} : Places'[r] = Places[r]
        BY <3>1, PlacesAre, PlacesNext DEF Place, Pipe
      <4>9. QED BY <4>3, <4>5, <4>7, <4>8, MoveFrame
    <3>3. ShownNew' /\ AllAlive' /\ FlagsTrue' /\ ReplacedMarked' /\ Halted' /\
        Kept'
      BY <2>0, <3>1, <3>2 DEF ShownNew, AllAlive, FlagsTrue, ReplacedMarked,
        Halted, Kept
    <3>4. QED BY <3>2, <3>3
  <2>42. CASE RingDec
    <3>1. /\ rec.pc = "dec"
          /\ ring'.n = rec.n - 1
          /\ ring'.slot = ring.slot /\ ring'.ri = ring.ri /\ ring'.wi = ring.wi
          /\ rec'.pc = IF rec.f = None THEN "run" ELSE "fence"
          /\ rec'.f = rec.f
          /\ UNCHANGED <<drv, dec, cap, lock, syn, disp, parked>>
      BY <2>42 DEF TypeRing, RingRec, RecycleRec, RingDec, shown
    <3>2. /\ Apart'
          /\ \A f \in Item : (InPipe(f)' <=> InPipe(f)) /\ (InPort(f)' <=> InPort(f))
      <4>1. RingCount' = RingCount
        <5>1. disp.pc # "inc" /\ rec.n = ring.n /\ ring.n \in Nat
          BY <3>1 DEF RingOK, TypeRing, RingRec
        <5>2. QED BY <3>1, <5>1 DEF RingCount
      <4>2. \A r \in Place : Places'[r] = Places[r]
        BY <3>1, <4>1, PlacesAre, PlacesNext DEF Place, Pipe, ShownSeq
      <4>3. QED BY <4>2, SamePlaces
    <3>3. ShownNew' /\ AllAlive' /\ FlagsTrue' /\ ReplacedMarked' /\ Halted' /\
        Kept'
      BY <2>0, <3>1, <3>2 DEF ShownNew, AllAlive, FlagsTrue, ReplacedMarked,
        Halted, Kept
    <3>4. QED BY <3>2, <3>3
  <2>43. CASE RecRecycle
    <3>1. /\ rec.pc = "fence" /\ rec'.f = None /\ rec'.pc \in {"flag", "run"}
          /\ lock = None /\ rec.f \in Frame
          /\ \/ /\ lock' = rec.f /\ cap' = cap /\ parked' = parked
                /\ rec.f \notin cap.recycle /\ drv'.capq = Append(drv.capq, rec.f)
             \/ /\ lock' = None /\ cap' = cap /\ drv'.capq = drv.capq
                /\ parked' = parked \cup {rec.f}
             \/ /\ lock' = None /\ drv'.capq = drv.capq /\ parked' = parked
                /\ rec.f \in cap.recycle /\ cap'.alive = cap.alive \ {rec.f}
                /\ cap'.gen = cap.gen /\ cap'.queued = cap.queued
                /\ cap'.recycle = cap.recycle
          /\ drv'.capd = drv.capd /\ drv'.st = drv.st
          /\ UNCHANGED <<dec, syn, ring, disp>>
      <4>1. rec.f \in Frame
        BY <2>43, FrameFacts DEF RecRecycle, ShowHas
      <4>2. Recycle(rec.f) BY <2>43 DEF RecRecycle
      <4>3. /\ lock = None /\ drv'.capd = drv.capd /\ drv'.st = drv.st
            /\ \/ /\ lock' = rec.f /\ cap' = cap /\ parked' = parked
                  /\ rec.f \notin cap.recycle /\ drv'.capq = Append(drv.capq, rec.f)
               \/ /\ lock' = None /\ cap' = cap /\ drv'.capq = drv.capq
                  /\ parked' = parked \cup {rec.f}
               \/ /\ lock' = None /\ drv'.capq = drv.capq /\ parked' = parked
                  /\ rec.f \in cap.recycle /\ cap'.alive = cap.alive \ {rec.f}
                  /\ cap'.gen = cap.gen /\ cap'.queued = cap.queued
                  /\ cap'.recycle = cap.recycle
        BY <4>1, <4>2, RecycleOutcome
      <4>4. QED BY <2>43, <4>1, <4>3 DEF RecRecycle, shown, TypeRing, RecycleRec
    <3>2. /\ Apart' /\ InPipe(rec.f) /\ ~InPort(rec.f)
          /\ \A f \in Item :
               /\ InPipe(f)' <=> InPipe(f) /\ f # rec.f
               /\ InPort(f)' <=> InPort(f) \/ (f = rec.f /\ lock' = f)
      <4>1. PICK x : x = rec.f OBVIOUS
      <4>2. /\ Shifted(Places["rec"], Places'["rec"]) /\ x = Places["rec"][1]
            /\ x \in Frame /\ x \in Item
        BY <2>0, <3>1, <4>1, PlacesAre, PlacesNext, OneEnds
      <4>3. \A r \in Place \ {"rec", "queued"} : Places'[r] = Places[r]
        BY <3>1, PlacesAre, PlacesNext DEF Place, Pipe, RingCount
      <4>4. /\ "rec" \in Place /\ "rec" \in Pipe
            /\ "queued" \in Place /\ "queued" \notin Pipe
        BY DEF Place, Pipe
      <4>5. CASE lock' = x
        <5>1. drv.capq \in Seq(Frame) BY DEF TypeDriver, DriverRec
        <5>2. Appended(Places["queued"], Places'["queued"], x)
          <6>1. Appended(drv.capq, Append(drv.capq, x), x)
            BY <4>2, <5>1, QueueEnds
          <6>2. drv'.capq = Append(drv.capq, x)
            BY <2>0, <3>1, <4>1, <4>2, <4>5
          <6>3. QED BY <6>1, <6>2, PlacesAre, PlacesNext
        <5>3. /\ Apart' /\ InPipe(x) /\ ~InPort(x) /\ ~InPipe(x)' /\ InPort(x)'
              /\ \A f \in Item : f # x =>
                   (InPipe(f)' <=> InPipe(f)) /\ (InPort(f)' <=> InPort(f))
          BY <4>2, <4>3, <4>4, <5>2, MoveFrame
        <5>4. QED BY <4>1, <4>5, <5>3
      <4>6. CASE lock' # x
        <5>1. Places'["queued"] = Places["queued"]
          BY <3>1, <4>1, <4>6, PlacesAre, PlacesNext
        <5>2. \A r \in Place \ {"rec"} : Places'[r] = Places[r]
          BY <4>3, <5>1
        <5>3. /\ Apart' /\ InPipe(x) /\ ~InPort(x) /\ ~InPipe(x)' /\ ~InPort(x)'
              /\ \A f \in Item : f # x =>
                   (InPipe(f)' <=> InPipe(f)) /\ (InPort(f)' <=> InPort(f))
          BY <4>2, <4>4, <5>2, DropFrame
        <5>4. QED BY <4>1, <4>6, <5>3
      <4>7. QED BY <4>5, <4>6
    <3>3. ShownNew'
      BY <2>0, <3>1, <3>2 DEF ShownNew
    <3>4. AllAlive'
      <4>1. PICK x : x = rec.f OBVIOUS
      <4>2. x \in Frame /\ x \in Item BY <2>0, <3>1, <4>1
      <4>3. QED BY <2>0, <3>1, <3>2, <4>1, <4>2 DEF AllAlive
    <3>5. FlagsTrue'
      <4>1. PICK x : x = rec.f OBVIOUS
      <4>2. x \in Frame /\ x \in Item BY <2>0, <3>1, <4>1
      <4>3. QED BY <2>0, <3>1, <3>2, <4>1, <4>2 DEF FlagsTrue
    <3>6. ReplacedMarked'
      <4>1. PICK x : x = rec.f OBVIOUS
      <4>2. x \in Frame /\ x \in Item BY <2>0, <3>1, <4>1
      <4>3. lock' = x => x[1] = cap.gen /\ dec.pc # "setup"
        <5>1. x \in cap.alive /\ x[1] \in Nat
          BY <2>0, <3>2, <4>1, <4>2, FrameSets DEF AllAlive
        <5>2. x[1] <= cap.gen BY <5>1 DEF AllAlive
        <5>3. lock' = x => x \notin cap.recycle
          BY <2>0, <3>1, <4>1, <4>2
        <5>4. QED BY <2>0, <3>2, <4>1, <4>2, <5>1, <5>2, <5>3 DEF ReplacedMarked
      <4>4. QED BY <2>0, <3>1, <3>2, <4>1, <4>2, <4>3 DEF ReplacedMarked
    <3>7. Halted'
      <4>1. PICK x : x = rec.f OBVIOUS
      <4>2. x \in Frame /\ x \in Item BY <2>0, <3>1, <4>1
      <4>3. lock' = x => x[1] = cap.gen /\ dec.pc # "setup"
        <5>1. x \in cap.alive /\ x[1] \in Nat
          BY <2>0, <3>2, <4>1, <4>2, FrameSets DEF AllAlive
        <5>2. x[1] <= cap.gen BY <5>1 DEF AllAlive
        <5>3. lock' = x => x \notin cap.recycle
          BY <2>0, <3>1, <4>1, <4>2
        <5>4. QED BY <2>0, <3>2, <4>1, <4>2, <5>1, <5>2, <5>3 DEF ReplacedMarked
      <4>4. QED BY <2>0, <3>1, <4>1, <4>3 DEF Halted
    <3>8. Kept'
      <4>1. PICK x : x = rec.f OBVIOUS
      <4>2. x \in Frame /\ x \in Item BY <2>0, <3>1, <4>1
      <4>3. lock' = x => x[1] = cap.gen /\ dec.pc # "setup"
        <5>1. x \in cap.alive /\ x[1] \in Nat
          BY <2>0, <3>2, <4>1, <4>2, FrameSets DEF AllAlive
        <5>2. x[1] <= cap.gen BY <5>1 DEF AllAlive
        <5>3. lock' = x => x \notin cap.recycle
          BY <2>0, <3>1, <4>1, <4>2
        <5>4. QED BY <2>0, <3>2, <4>1, <4>2, <5>1, <5>2, <5>3 DEF ReplacedMarked
      <4>4. QED BY <2>0, <3>1, <3>2, <4>1, <4>2, <4>3 DEF Kept
    <3>9. QED BY <3>2, <3>3, <3>4, <3>5, <3>6, <3>7, <3>8
  <2>44. CASE RecFlag
    <3>1. /\ rec.pc = "flag"
          /\ lock # None
          /\ cap'.queued = cap.queued \cup {lock}
          /\ cap'.gen = cap.gen /\ cap'.recycle = cap.recycle /\ cap'.alive =
             cap.alive
          /\ lock' = None
          /\ rec'.pc = "run"
          /\ rec'.f = rec.f
          /\ UNCHANGED <<drv, dec, syn, disp, ring, parked>>
      BY <2>44 DEF TypeCapture, CaptureRec, TypeRing, RecycleRec, LockHeld,
        RecFlag, shown, RecycleFlag
    <3>2. /\ Apart'
          /\ \A f \in Item : (InPipe(f)' <=> InPipe(f)) /\ (InPort(f)' <=> InPort(f))
      <4>1. \A r \in Place : Places'[r] = Places[r]
        BY <3>1, PlacesAre, PlacesNext DEF Place, Pipe, RingCount
      <4>2. QED BY <4>1, SamePlaces
    <3>3. ShownNew' /\ AllAlive' /\ ReplacedMarked'
      BY <2>0, <3>1, <3>2 DEF ShownNew, AllAlive, ReplacedMarked
    <3>4. FlagsTrue' BY <2>0, <3>1, <3>2 DEF FlagsTrue, LockHeld, AllAlive
    <3>5. Halted' BY <2>0, <3>1, <3>2 DEF Halted, LockHeld
    <3>6. Kept' BY <2>0, <3>1, <3>2 DEF Kept, LockHeld
    <3>7. QED BY <3>2, <3>3, <3>4, <3>5, <3>6
  <2>45. CASE RecQuit
    <3>1. /\ rec.pc = "run"
          /\ rec'.pc = "done"
          /\ rec'.f = rec.f
          /\ UNCHANGED <<drv, dec, cap, lock, syn, disp, ring, parked>>
      BY <2>45 DEF TypeRing, RecycleRec, RecQuit, shown
    <3>2. /\ Apart'
          /\ \A f \in Item : (InPipe(f)' <=> InPipe(f)) /\ (InPort(f)' <=> InPort(f))
      <4>1. \A r \in Place : Places'[r] = Places[r]
        BY <3>1, PlacesAre, PlacesNext DEF Place, Pipe, RingCount
      <4>2. QED BY <4>1, SamePlaces
    <3>3. ShownNew' /\ AllAlive' /\ FlagsTrue' /\ ReplacedMarked' /\ Halted' /\
        Kept'
      BY <2>0, <3>1, <3>2 DEF ShownNew, AllAlive, FlagsTrue, ReplacedMarked,
        Halted, Kept
    <3>4. QED BY <3>2, <3>3
  <2>46. CASE sig_handler
    <3>1. /\ UNCHANGED <<drv, dec, cap, lock, syn, disp, ring, rec, parked>>
      BY <2>46 DEF sig_handler, mainOnly
    <3>2. /\ Apart'
          /\ \A f \in Item : (InPipe(f)' <=> InPipe(f)) /\ (InPort(f)' <=> InPort(f))
      <4>1. \A r \in Place : Places'[r] = Places[r]
        BY <3>1, PlacesAre, PlacesNext DEF Place, Pipe, RingCount
      <4>2. QED BY <4>1, SamePlaces
    <3>3. ShownNew' /\ AllAlive' /\ FlagsTrue' /\ ReplacedMarked' /\ Halted' /\
        Kept'
      BY <2>0, <3>1, <3>2 DEF ShownNew, AllAlive, FlagsTrue, ReplacedMarked,
        Halted, Kept
    <3>4. QED BY <3>2, <3>3
  <2>47. CASE MainWakes
    <3>1. /\ UNCHANGED <<drv, dec, cap, lock, syn, disp, ring, rec, parked>>
      BY <2>47 DEF MainWakes, mainOnly
    <3>2. /\ Apart'
          /\ \A f \in Item : (InPipe(f)' <=> InPipe(f)) /\ (InPort(f)' <=> InPort(f))
      <4>1. \A r \in Place : Places'[r] = Places[r]
        BY <3>1, PlacesAre, PlacesNext DEF Place, Pipe, RingCount
      <4>2. QED BY <4>1, SamePlaces
    <3>3. ShownNew' /\ AllAlive' /\ FlagsTrue' /\ ReplacedMarked' /\ Halted' /\
        Kept'
      BY <2>0, <3>1, <3>2 DEF ShownNew, AllAlive, FlagsTrue, ReplacedMarked,
        Halted, Kept
    <3>4. QED BY <3>2, <3>3
  <2>48. CASE dmx_destroy
    <3>1. /\ UNCHANGED <<drv, dec, cap, lock, syn, disp, ring, rec, parked>>
      BY <2>48 DEF dmx_destroy, mainOnly
    <3>2. /\ Apart'
          /\ \A f \in Item : (InPipe(f)' <=> InPipe(f)) /\ (InPort(f)' <=> InPort(f))
      <4>1. \A r \in Place : Places'[r] = Places[r]
        BY <3>1, PlacesAre, PlacesNext DEF Place, Pipe, RingCount
      <4>2. QED BY <4>1, SamePlaces
    <3>3. ShownNew' /\ AllAlive' /\ FlagsTrue' /\ ReplacedMarked' /\ Halted' /\
        Kept'
      BY <2>0, <3>1, <3>2 DEF ShownNew, AllAlive, FlagsTrue, ReplacedMarked,
        Halted, Kept
    <3>4. QED BY <3>2, <3>3
  <2>49. CASE v4l2_dec_destroy
    <3>1. /\ dec.pc = "done"
          /\ UNCHANGED <<drv, dec, cap, lock, syn, disp, ring, rec, parked>>
      BY <2>49 DEF v4l2_dec_destroy, mainOnly
    <3>2. /\ Apart'
          /\ \A f \in Item : (InPipe(f)' <=> InPipe(f)) /\ (InPort(f)' <=> InPort(f))
      <4>1. \A r \in Place : Places'[r] = Places[r]
        BY <3>1, PlacesAre, PlacesNext DEF Place, Pipe, RingCount
      <4>2. QED BY <4>1, SamePlaces
    <3>3. ShownNew' /\ AllAlive' /\ FlagsTrue' /\ ReplacedMarked' /\ Halted' /\
        Kept'
      BY <2>0, <3>1, <3>2 DEF ShownNew, AllAlive, FlagsTrue, ReplacedMarked,
        Halted, Kept
    <3>4. QED BY <3>2, <3>3
  <2>50. CASE display_engine_stop
    <3>1. /\ UNCHANGED <<drv, dec, cap, lock, syn, disp, ring, rec, parked>>
      BY <2>50 DEF display_engine_stop, mainOnly
    <3>2. /\ Apart'
          /\ \A f \in Item : (InPipe(f)' <=> InPipe(f)) /\ (InPort(f)' <=> InPort(f))
      <4>1. \A r \in Place : Places'[r] = Places[r]
        BY <3>1, PlacesAre, PlacesNext DEF Place, Pipe, RingCount
      <4>2. QED BY <4>1, SamePlaces
    <3>3. ShownNew' /\ AllAlive' /\ FlagsTrue' /\ ReplacedMarked' /\ Halted' /\
        Kept'
      BY <2>0, <3>1, <3>2 DEF ShownNew, AllAlive, FlagsTrue, ReplacedMarked,
        Halted, Kept
    <3>4. QED BY <3>2, <3>3
  <2>51. CASE UNCHANGED vars
    <3>1. /\ Apart'
          /\ \A f \in Item : (InPipe(f)' <=> InPipe(f)) /\ (InPort(f)' <=> InPort(f))
      <4>1. \A r \in Place : Places'[r] = Places[r]
        BY <2>51, PlacesAre, PlacesNext DEF vars, Place, Pipe, RingCount
      <4>2. QED BY <4>1, SamePlaces
    <3>2. QED
      BY <2>0, <2>51, <3>1 DEF vars, ShownNew, AllAlive, FlagsTrue, ReplacedMarked,
        Halted, Kept
  <2>52. QED
    BY <2>1, <2>2, <2>3, <2>4, <2>5, <2>6, <2>7, <2>8, <2>9, <2>10, <2>11,
       <2>12, <2>13, <2>14, <2>15, <2>16, <2>17, <2>18, <2>19, <2>20, <2>21,
       <2>22, <2>23, <2>24, <2>25, <2>26, <2>27, <2>28, <2>29, <2>30, <2>31,
       <2>32, <2>33, <2>34, <2>35, <2>36, <2>37, <2>38, <2>39, <2>40, <2>41,
       <2>42, <2>43, <2>44, <2>45, <2>46, <2>47, <2>48, <2>49, <2>50, <2>51
    DEF Next, Demux, Driver, Decoder, Display, Recycler, Main
<1>3. QED BY <1>1, <1>2, BaseInvariant, RingInvariant, PlacesTyped, PTL DEF Spec

(* What the properties say of the places, through Has.                     *)
LEMMA PlacesHold ==
  PlacesOK =>
    /\ DOMAIN Places = Place /\ \A p \in Place : DOMAIN Places[p] = 1..Len(Places[p])
    /\ \A f : f \in Pipeline <=> InPipe(f) /\ f # Eos
    /\ \A f : f \in InDriver <=> InPort(f)
<1> SUFFICES ASSUME PlacesOK
             PROVE  /\ DOMAIN Places = Place
                    /\ \A p \in Place : DOMAIN Places[p] = 1..Len(Places[p])
                    /\ \A f : f \in Pipeline <=> InPipe(f) /\ f # Eos
                    /\ \A f : f \in InDriver <=> InPort(f)
  OBVIOUS
<1>1. DOMAIN Places = Place
  BY DEF Places, Place, Pipe
<1>2. \A p \in Place : DOMAIN Places[p] = 1..Len(Places[p])
  BY DEF PlacesOK, Typed
<1>3. \A p \in Place : \A f : f \in ToSet(Places[p]) <=> At(p, f)
  BY <1>2 DEF ToSet, At, Has
<1>4. Pipe \subseteq Place /\ {"queued", "decoded"} \subseteq Place
  BY DEF Place
<1>5. \A f : f \in Pipeline <=> InPipe(f) /\ f # Eos
  BY <1>3, <1>4 DEF Pipeline, In, InPipe
<1>6. \A f : f \in InDriver <=> InPort(f)
  BY <1>3, <1>4 DEF InDriver, In, InPort
<1>7. QED BY <1>1, <1>2, <1>5, <1>6

(* No frame on its way to or on the screen is destroyed, whatever changes  *)
(* of the resolution, failures and interrupts come between: ResFree spares *)
(* by the queued flags exactly what the pipeline still has.  Assumed away  *)
(* are the two races that the code leaves open, a frame dequeued before    *)
(* capture_buffer_recycle has set its flag and a torn total_num.           *)
THEOREM FramesAlive ==
  ASSUME "late_queued" \notin Allowed, "ring_race" \notin Allowed
  PROVE  Spec => []HeldAlive
<1>1. BaseInv /\ RingOK /\ PlacesOK /\ FrameInv => HeldAlive
  <2> SUFFICES ASSUME BaseInv, RingOK, PlacesOK, FrameInv, NEW f \in Pipeline
               PROVE  f \in cap.alive
    BY DEF HeldAlive
  <2>1. InPipe(f) /\ f # Eos BY PlacesHold
  <2>2. f \in Item
    <3>1. PICK p \in Pipe : \E k \in 1..Len(Places[p]) : Places[p][k] = f
      BY <2>1 DEF InPipe, At, Has
    <3>2. Places[p] \in Seq(Item) BY DEF PlacesOK, Typed, Place
    <3>3. QED BY <3>1, <3>2
  <2>3. QED BY <2>1, <2>2 DEF FrameInv, AllAlive
<1>2. QED
  BY <1>1, BaseInvariant, RingInvariant, PlacesTyped, FrameInvariant, PTL

(* A capture buffer is in one place, under the same two assumptions: the   *)
(* driver never decodes into a frame that is still shown, and no frame is  *)
(* recycled twice, however the four threads interleave.                    *)
THEOREM FramesApart ==
  ASSUME "late_queued" \notin Allowed, "ring_race" \notin Allowed
  PROVE  Spec => []OneOwner
<1>1. PlacesOK /\ FrameInv => OneOwner
  <2> SUFFICES ASSUME PlacesOK, FrameInv PROVE OneOwner
    OBVIOUS
  <2>1. DOMAIN Places = Place /\ \A p \in Place : DOMAIN Places[p] = 1..Len(Places[p])
    BY PlacesHold
  <2>2. ApartIn(Places) BY DEF FrameInv, Apart
  <2>3. QED BY <2>1, <2>2 DEF OneOwner, ApartIn
<1>2. QED
  BY <1>1, BaseInvariant, RingInvariant, PlacesTyped, FrameInvariant, PTL

(* No frame is lost while the decoder runs, under the same assumptions: a  *)
(* buffer of the current set comes back to the driver, and one of a        *)
(* replaced set is destroyed once the display has done with it.            *)
THEOREM FramesKept ==
  ASSUME "late_queued" \notin Allowed, "ring_race" \notin Allowed
  PROVE  Spec => []NoFrameLost
<1>1. BaseInv /\ PlacesOK /\ FrameInv => NoFrameLost
  <2> SUFFICES ASSUME BaseInv, PlacesOK, FrameInv, dec.pc \notin {"off", "done"},
                      NEW f \in cap.alive \ (parked \cup Pipeline)
               PROVE  f[1] = cap.gen /\ f \in InDriver \cup cap.queued \cup {lock}
    BY DEF NoFrameLost
  <2>1. f \in Frame /\ f # Eos BY FrameTypes
  <2>2. ~InPipe(f) BY <2>1, PlacesHold
  <2>3. QED BY <2>2 DEF FrameInv, Kept
<1>2. QED
  BY <1>1, BaseInvariant, RingInvariant, PlacesTyped, FrameInvariant, PTL

=============================================================================
