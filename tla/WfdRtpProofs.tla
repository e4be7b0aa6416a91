---------------------------- MODULE WfdRtpProofs ----------------------------
(***************************************************************************)
(* Theorems about the media path of the Wi-Fi display sink, WfdRtp: for    *)
(* every width of the sequence numbers, every number of packets and wraps, *)
(* every size of the windows and of the listener.                          *)
(***************************************************************************)
EXTENDS WfdRtp, WellFoundedInduction, TLAPS

-----------------------------------------------------------------------------
(* The constants are numbers, and the modulus covers both windows.         *)
LEMMA Numbers ==
  /\ RtpSeqMod \in Nat \ {0} /\ MaxDropout \in Nat \ {0} /\ MaxMisorder \in Nat \ {0}
  /\ NumBuffers \in Nat \ {0} /\ MaxSend \in Nat
  /\ MaxDropout + MaxMisorder <= RtpSeqMod
  /\ Bases \subseteq 0 .. RtpSeqMod - 1
BY RtpAssumption

(* Remainders and quotients by a positive number.                          *)
LEMMA Remainder ==
  ASSUME NEW M \in Nat \ {0}, NEW x \in Int
  PROVE  x % M \in 0 .. M - 1 /\ x \div M \in Int /\ x = M * (x \div M) + (x % M)
OBVIOUS

(* The first element of a sequence, the rest, and an element more.         *)
LEMMA Popped ==
  ASSUME NEW S, NEW q \in Seq(S), q # <<>>
  PROVE  /\ Head(q) \in S /\ Head(q) = q[1] /\ 1 \in DOMAIN q
         /\ Tail(q) \in Seq(S) /\ Len(Tail(q)) = Len(q) - 1
         /\ DOMAIN q = 1..Len(q) /\ DOMAIN Tail(q) = 1 .. Len(q) - 1
         /\ \A k \in 1 .. Len(q) - 1 : Tail(q)[k] = q[k + 1]
OBVIOUS

LEMMA Pushed ==
  ASSUME NEW S, NEW q \in Seq(S), NEW e \in S
  PROVE  /\ Append(q, e) \in Seq(S) /\ Len(Append(q, e)) = Len(q) + 1
         /\ DOMAIN q = 1..Len(q) /\ DOMAIN Append(q, e) = 1 .. Len(q) + 1
         /\ Append(q, e)[Len(q) + 1] = e
         /\ \A k \in 1..Len(q) : Append(q, e)[k] = q[k]
OBVIOUS

(* A message taken from the looper's queue is one of the four kinds.       *)
LEMMA Kinds ==
  ASSUME NEW m \in Messages
  PROVE  /\ m.k = "packet" => m.v \in Nat /\ m.n \in 1..MaxSend
         /\ m.k = "avail" => m.v \in 1..NumBuffers
         /\ m.k = "lost" => m.v \in 0 .. RtpSeqMod - 1
BY DEF Messages

LEMMA Letters ==
  /\ \A v \in Nat, n \in 1..MaxSend : [k |-> "packet", v |-> v, n |-> n] \in Messages
  /\ \A v \in 1..NumBuffers : [k |-> "avail", v |-> v, n |-> 0] \in Messages
  /\ \A v \in 0 .. RtpSeqMod - 1 : [k |-> "lost", v |-> v, n |-> 0] \in Messages
  /\ [k |-> "poke", v |-> 0, n |-> 0] \in Messages
BY DEF Messages

(* A sequence number of the sender, and the cycle it is in, make up the    *)
(* extended number that the packet is to get.                              *)
LEMMA ExtOf ==
  ASSUME base \in Bases, NEW n \in 1..MaxSend
  PROVE  /\ SeqNo(n) \in 0 .. RtpSeqMod - 1 /\ Cycle(n) \in Nat
         /\ Offset \in Int /\ n + Offset \in Nat
         /\ n + Offset = RtpSeqMod * Cycle(n) + SeqNo(n)
<1> DEFINE a == base + n
           b == base + 1
<1>1. base \in 0 .. RtpSeqMod - 1 /\ RtpSeqMod \in Nat \ {0} /\ MaxSend \in Nat
  BY Numbers
<1>2. a \in Int /\ b \in Int /\ b <= a
  BY <1>1
<1>3. /\ a % RtpSeqMod \in 0 .. RtpSeqMod - 1 /\ a \div RtpSeqMod \in Int
      /\ a = RtpSeqMod * (a \div RtpSeqMod) + (a % RtpSeqMod)
  BY <1>1, <1>2, Remainder
<1>4. /\ b % RtpSeqMod \in 0 .. RtpSeqMod - 1 /\ b \div RtpSeqMod \in Int
      /\ b = RtpSeqMod * (b \div RtpSeqMod) + (b % RtpSeqMod)
  BY <1>1, <1>2, Remainder
<1>5. b \div RtpSeqMod <= a \div RtpSeqMod
  BY <1>1, <1>2
<1>6. Cycle(n) = (a \div RtpSeqMod) - (b \div RtpSeqMod) /\ SeqNo(n) = a % RtpSeqMod
  BY DEF Cycle, SeqNo
<1>7. Offset = base - RtpSeqMod * (b \div RtpSeqMod)
  BY DEF Offset
<1> HIDE DEF a, b
<1>8. Cycle(n) \in Nat
  BY <1>3, <1>4, <1>5, <1>6
<1>9. RtpSeqMod * Cycle(n) = RtpSeqMod * (a \div RtpSeqMod) - RtpSeqMod * (b \div RtpSeqMod)
  BY <1>1, <1>3, <1>4, <1>6
<1>10. n + Offset = RtpSeqMod * Cycle(n) + SeqNo(n)
  <2>1. n + Offset = a - RtpSeqMod * (b \div RtpSeqMod)
    BY <1>1, <1>4, <1>7 DEF a
  <2>2. QED BY <1>1, <1>3, <1>4, <1>6, <1>9, <2>1
<1>11. RtpSeqMod * Cycle(n) \in Nat
  BY <1>1, <1>8
<1>12. n + Offset \in Nat
  BY <1>3, <1>6, <1>10, <1>11
<1>13. QED
  BY <1>1, <1>3, <1>4, <1>6, <1>7, <1>8, <1>10, <1>12

(* A source with another sequence number.                                 *)
LEMMA SourceJoins ==
  ASSUME NEW s \in Sources, NEW m \in 0 .. RtpSeqMod - 1
  PROVE  /\ [s EXCEPT !.max = m, !.prob = 1] \in Sources
         /\ [s EXCEPT !.max = m, !.prob = 1].cycles = s.cycles
         /\ [s EXCEPT !.max = m, !.prob = 1].prob = 1
<1> DEFINE t == [s EXCEPT !.max = m]
<1>1. t \in Sources /\ t.cycles = s.cycles
  BY DEF Sources
<1>2. [s EXCEPT !.max = m, !.prob = 1] = [t EXCEPT !.prob = 1]
  OBVIOUS
<1> HIDE DEF t
<1>3. 1 \in 0..kMinSequential
  BY DEF kMinSequential
<1>4. /\ [t EXCEPT !.prob = 1] \in Sources /\ [t EXCEPT !.prob = 1].cycles = t.cycles
      /\ [t EXCEPT !.prob = 1].prob = 1
  BY <1>1, <1>3 DEF Sources
<1>5. QED BY <1>1, <1>2, <1>4

LEMMA SourceCounts ==
  ASSUME NEW s \in Sources, NEW m \in 0 .. RtpSeqMod - 1, NEW c \in Nat
  PROVE  /\ [s EXCEPT !.max = m, !.cycles = c] \in Sources
         /\ [s EXCEPT !.max = m, !.cycles = c].cycles = c
         /\ [s EXCEPT !.max = m, !.cycles = c].prob = s.prob
<1> DEFINE t == [s EXCEPT !.max = m]
<1>1. t \in Sources /\ t.prob = s.prob
  BY DEF Sources
<1>2. [s EXCEPT !.max = m, !.cycles = c] = [t EXCEPT !.cycles = c]
  OBVIOUS
<1> HIDE DEF t
<1>3. /\ [t EXCEPT !.cycles = c] \in Sources /\ [t EXCEPT !.cycles = c].cycles = c
      /\ [t EXCEPT !.cycles = c].prob = t.prob
  BY <1>1 DEF Sources
<1>4. QED BY <1>1, <1>2, <1>3

(* The source that the first packet makes.                                 *)
LEMMA FirstSource ==
  ASSUME NEW q \in 0 .. RtpSeqMod - 1
  PROVE  NewSource(q) \in Sources /\ NewSource(q).cycles = 0 /\ NewSource(q).prob > 0
<1> DEFINE m == (q - 1) % RtpSeqMod
           r == initSeq(q)
           t == [r EXCEPT !.max = m]
<1>1. m \in 0 .. RtpSeqMod - 1 /\ RtpSeqMod \in Nat \ {0}
  BY Numbers
<1>2. NewSource(q) = [t EXCEPT !.prob = kMinSequential]
  BY DEF NewSource
<1>3. r \in Sources /\ r.cycles = 0
  BY <1>1 DEF initSeq, Sources, kMinSequential
<1> HIDE DEF m, r
<1>4. t \in Sources /\ t.cycles = 0
  BY <1>1, <1>3 DEF Sources
<1> HIDE DEF t
<1>5. kMinSequential \in 0..kMinSequential /\ kMinSequential > 0
  BY DEF kMinSequential
<1>6. QED BY <1>2, <1>4, <1>5 DEF Sources

(* What updateSeq makes of a sequence number: in probation, in order, late, *)
(* the second after a jump, the first after a jump.                        *)
Delta(seq) == (seq - src.max) % RtpSeqMod
InProbation(u, seq) ==
  /\ src.prob > 0 /\ u.queue /\ u.ext = src.cycles + seq
  /\ \/ u.s.cycles = 0 /\ u.s.prob = 0
     \/ u.s.cycles = src.cycles /\ u.s.prob > 0
InOrder(u, seq) ==
  /\ src.prob = 0 /\ Delta(seq) < MaxDropout /\ u.queue /\ u.s.prob = 0
  /\ seq < src.max => u.s.cycles = src.cycles + RtpSeqMod
  /\ ~(seq < src.max) => u.s.cycles = src.cycles
  /\ u.ext = u.s.cycles + seq
Late(u, seq) ==
  /\ src.prob = 0 /\ Delta(seq) > RtpSeqMod - MaxMisorder /\ u.queue
  /\ u.s = src /\ u.ext = src.cycles + seq
Restarts(u, seq) ==
  /\ src.prob = 0 /\ u.queue /\ u.s = initSeq(seq) /\ u.ext = seq
  /\ u.s.cycles = 0 /\ u.s.prob = 0
Jumps(u) ==
  src.prob = 0 /\ ~u.queue /\ u.s.cycles = src.cycles /\ u.s.prob = 0

LEMMA Update ==
  ASSUME src \in Sources, NEW seq \in 0 .. RtpSeqMod - 1, NEW u, u = updateSeq(seq)
  PROVE  /\ u.s \in Sources /\ u.ext \in Nat /\ u.queue \in BOOLEAN
         /\ \/ InProbation(u, seq) \/ InOrder(u, seq) \/ Late(u, seq)
            \/ Restarts(u, seq) \/ Jumps(u)
<1>1. /\ RtpSeqMod \in Nat \ {0} /\ src.max \in 0 .. RtpSeqMod - 1 /\ src.cycles \in Nat
      /\ src.bad \in 0 .. RtpSeqMod + 1 /\ src.prob \in 0..2 /\ src.cycles + seq \in Nat
  BY Numbers DEF Sources, kMinSequential
<1>2. /\ initSeq(seq) \in Sources
      /\ initSeq(seq).cycles = 0 /\ initSeq(seq).prob = 0
  BY <1>1 DEF initSeq, Sources, kMinSequential
<1>3. CASE src.prob > 0
  <2> DEFINE s == IF seq = src.max + 1
                  THEN IF src.prob = 1 THEN initSeq(seq)
                       ELSE [src EXCEPT !.max = seq, !.prob = @ - 1]
                  ELSE [src EXCEPT !.max = seq, !.prob = kMinSequential - 1]
  <2>1. u = [s |-> s, ext |-> src.cycles + seq, queue |-> TRUE]
    BY <1>3 DEF updateSeq
  <2>2. /\ s \in Sources
        /\ \/ s.cycles = 0 /\ s.prob = 0
           \/ s.cycles = src.cycles /\ s.prob > 0
    <3>1. CASE seq = src.max + 1 /\ src.prob = 1
      BY <1>2, <3>1
    <3>2. CASE seq = src.max + 1 /\ src.prob # 1
      <4>1. src.prob - 1 = 1 BY <1>1, <1>3, <3>2
      <4>2. s = [src EXCEPT !.max = seq, !.prob = 1] BY <3>2, <4>1
      <4> HIDE DEF s
      <4>3. s \in Sources /\ s.cycles = src.cycles /\ s.prob = 1
        BY <4>2, SourceJoins, Zenon
      <4>4. QED BY <4>3
    <3>3. CASE seq # src.max + 1
      <4>1. s = [src EXCEPT !.max = seq, !.prob = 1] BY <3>3 DEF kMinSequential
      <4> HIDE DEF s
      <4>2. s \in Sources /\ s.cycles = src.cycles /\ s.prob = 1
        BY <4>1, SourceJoins, Zenon
      <4>3. QED BY <4>2
    <3>4. QED BY <3>1, <3>2, <3>3
  <2> HIDE DEF s
  <2>3. InProbation(u, seq) BY <1>3, <2>1, <2>2 DEF InProbation
  <2>4. QED BY <1>1, <2>1, <2>2, <2>3
<1>4. CASE src.prob = 0 /\ Delta(seq) < MaxDropout
  <2>1. u = [s |-> Advance(seq), ext |-> Advance(seq).cycles + seq, queue |-> TRUE]
    BY <1>4 DEF updateSeq, Delta
  <2>2. /\ Advance(seq) \in Sources /\ Advance(seq).prob = src.prob
        /\ seq < src.max => Advance(seq).cycles = src.cycles + RtpSeqMod
        /\ ~(seq < src.max) => Advance(seq).cycles = src.cycles
    <3>1. CASE seq < src.max
      <4> DEFINE c == src.cycles + RtpSeqMod
      <4>1. Advance(seq) = [src EXCEPT !.max = seq, !.cycles = c]
        BY <3>1 DEF Advance
      <4>2. c \in Nat BY <1>1
      <4> HIDE DEF c
      <4>3. /\ Advance(seq) \in Sources /\ Advance(seq).prob = src.prob
            /\ Advance(seq).cycles = c
        <5>1. /\ [src EXCEPT !.max = seq, !.cycles = c] \in Sources
              /\ [src EXCEPT !.max = seq, !.cycles = c].cycles = c
              /\ [src EXCEPT !.max = seq, !.cycles = c].prob = src.prob
          BY <4>2, SourceCounts
        <5>2. QED BY <4>1, <5>1, Zenon
      <4>4. QED BY <3>1, <4>3 DEF c
    <3>2. CASE ~(seq < src.max)
      <4>1. Advance(seq) = [src EXCEPT !.max = seq, !.cycles = src.cycles]
        BY <3>2 DEF Advance
      <4>2. QED BY <1>1, <3>2, <4>1 DEF Sources
    <3>3. QED BY <3>1, <3>2
  <2>3. Advance(seq).cycles \in Nat BY <2>2 DEF Sources
  <2>4. InOrder(u, seq) BY <1>4, <2>1, <2>2 DEF InOrder
  <2>5. QED BY <2>1, <2>2, <2>3, <2>4
<1>5. CASE src.prob = 0 /\ ~(Delta(seq) < MaxDropout) /\ Delta(seq) > RtpSeqMod - MaxMisorder
  <2>1. u = [s |-> src, ext |-> src.cycles + seq, queue |-> TRUE]
    BY <1>5 DEF updateSeq, Delta
  <2>2. Late(u, seq) BY <1>5, <2>1 DEF Late
  <2>3. QED BY <1>1, <2>1, <2>2
<1>6. CASE /\ src.prob = 0 /\ ~(Delta(seq) < MaxDropout)
           /\ ~(Delta(seq) > RtpSeqMod - MaxMisorder) /\ seq = src.bad
  <2>1. u = [s |-> initSeq(seq), ext |-> seq, queue |-> TRUE]
    BY <1>6 DEF updateSeq, Delta
  <2>2. Restarts(u, seq) BY <1>2, <1>6, <2>1 DEF Restarts
  <2>3. QED BY <1>2, <2>1, <2>2
<1>7. CASE /\ src.prob = 0 /\ ~(Delta(seq) < MaxDropout)
           /\ ~(Delta(seq) > RtpSeqMod - MaxMisorder) /\ seq # src.bad
  <2> DEFINE b == (seq + 1) % RtpSeqMod
             s == [src EXCEPT !.bad = b]
  <2>1. u = [s |-> s, ext |-> 0, queue |-> FALSE]
    BY <1>7 DEF updateSeq, Delta
  <2>2. b \in 0 .. RtpSeqMod + 1
    <3>1. b \in 0 .. RtpSeqMod - 1 BY <1>1
    <3> HIDE DEF b
    <3>2. QED BY <1>1, <3>1
  <2> HIDE DEF b
  <2>3. s \in Sources /\ s.cycles = src.cycles /\ s.prob = src.prob
    BY <1>1, <2>2 DEF Sources
  <2> HIDE DEF s
  <2>4. Jumps(u) BY <1>7, <2>1, <2>3 DEF Jumps
  <2>5. QED BY <2>1, <2>3, <2>4
<1>8. QED BY <1>1, <1>3, <1>4, <1>5, <1>6, <1>7

(* The front of the packet queue: there is a packet with the least number. *)
LEMMA Front ==
  ASSUME packets \subseteq Nat \X (1..MaxSend), packets # {}
  PROVE  /\ Oldest \in packets /\ \A q \in packets : Oldest[1] <= q[1]
         /\ Oldest[1] \in Nat /\ Oldest[2] \in 1..MaxSend
<1> DEFINE S == {q[1] : q \in packets}
<1>1. S \subseteq Nat /\ S # {}
  OBVIOUS
<1>2. PICK o \in S : \A p \in S : ~(<<p, o>> \in OpToRel(<, Nat))
  <2> HIDE DEF S
  <2> QED BY <1>1, NatLessThanWellFounded, WFMin
<1>3. ASSUME NEW p \in S PROVE o <= p
  <2> SUFFICES ASSUME p < o PROVE FALSE
    BY <1>1
  <2>1. <<p, o>> \in Nat \X Nat /\ <<p, o>>[1] < <<p, o>>[2]
    BY <1>1
  <2>2. <<p, o>> \in OpToRel(<, Nat)
    BY <2>1, Zenon DEF OpToRel
  <2>3. QED BY <1>2, <1>3, <2>2
<1>4. PICK p \in packets : p[1] = o
  OBVIOUS
<1>5. \A q \in packets : q[1] \in S
  OBVIOUS
<1> HIDE DEF S
<1>6. \A q \in packets : p[1] <= q[1]
  BY <1>3, <1>4, <1>5
<1>7. Oldest \in packets /\ \A q \in packets : Oldest[1] <= q[1]
  BY <1>6 DEF Oldest
<1>8. QED BY <1>7

-----------------------------------------------------------------------------
(* parseRTP: the packet leaves the network, and unless src drops it, it is *)
(* posted with the number that src gives it.                               *)
LEMMA Parsed ==
  ASSUME TypeOK, NEW n \in net, parseRTP(n)
  PROVE  /\ n \in 1..MaxSend /\ SeqNo(n) \in 0 .. RtpSeqMod - 1
         /\ src' \in Sources
         /\ \/ /\ src = NoSource /\ src' = NewSource(SeqNo(n))
               /\ msgs' = Append(msgs, [k |-> "packet", v |-> SeqNo(n), n |-> n])
            \/ /\ src \in Sources /\ src' = updateSeq(SeqNo(n)).s
               /\ updateSeq(SeqNo(n)).queue
               /\ updateSeq(SeqNo(n)).ext \in Nat
               /\ msgs' = Append(msgs, [k |-> "packet", v |-> updateSeq(SeqNo(n)).ext,
                                        n |-> n])
            \/ /\ src \in Sources /\ src' = updateSeq(SeqNo(n)).s
               /\ ~updateSeq(SeqNo(n)).queue
               /\ msgs' = msgs
<1>1. n \in 1..MaxSend /\ base \in Bases
  BY Numbers DEF TypeOK
<1>2. SeqNo(n) \in 0 .. RtpSeqMod - 1
  BY <1>1, ExtOf
<1>3. CASE src = NoSource
  <2>1. /\ src' = NewSource(SeqNo(n))
        /\ msgs' = Append(msgs, [k |-> "packet", v |-> SeqNo(n), n |-> n])
    BY <1>3 DEF parseRTP, Post
  <2>2. NewSource(SeqNo(n)) \in Sources
    BY <1>2, FirstSource
  <2>3. QED BY <1>1, <1>2, <1>3, <2>1, <2>2
<1>4. CASE src # NoSource
  <2>1. src \in Sources
    BY <1>4 DEF TypeOK
  <2>2. PICK u : u = updateSeq(SeqNo(n))
    OBVIOUS
  <2>3. /\ src' = u.s
        /\ u.queue => msgs' = Append(msgs, [k |-> "packet", v |-> u.ext, n |-> n])
        /\ ~u.queue => msgs' = msgs
    BY <1>4, <2>2 DEF parseRTP, Post
  <2>4. u.s \in Sources /\ u.ext \in Nat /\ u.queue \in BOOLEAN
    BY <1>2, <2>1, <2>2, Update
  <2>5. QED BY <1>1, <1>2, <2>1, <2>2, <2>3, <2>4
<1>5. QED BY <1>3, <1>4

(* A step of the looper takes the first message.                           *)
LEMMA Handled ==
  ASSUME TypeOK, NEW k, Handle(k)
  PROVE  /\ msgs # <<>> /\ Head(msgs) \in Messages /\ Head(msgs).k = k
         /\ msgs' = Tail(msgs) /\ msgs' \in Seq(Messages)
BY Popped DEF Handle, TypeOK

(* A packet is returned: it was the oldest, and the first available buffer *)
(* goes to the player with it, the first time behind a discontinuity.      *)
LEMMA Returns ==
  ASSUME TypeOK, packets # {}, avail # <<>>, Return
  PROVE  /\ Oldest[1] \in Nat /\ Oldest[2] \in 1..MaxSend
         /\ Head(avail) \in 1..NumBuffers
         /\ last' = Oldest[1] /\ packets' = packets \ {Oldest}
         /\ avail' = Tail(avail) /\ avail' \in Seq(1..NumBuffers)
         /\ \E f \in Seq(Entries) :
              /\ f = IF fixed THEN filled ELSE Append(filled, [i |-> Disc, n |-> 0])
              /\ filled' = Append(f, [i |-> Head(avail), n |-> Oldest[2]])
              /\ filled' \in Seq(Entries)
<1>1. /\ Oldest[1] \in Nat /\ Oldest[2] \in 1..MaxSend
  BY Front DEF TypeOK
<1>2. Head(avail) \in 1..NumBuffers /\ Tail(avail) \in Seq(1..NumBuffers)
  BY Popped DEF TypeOK
<1>3. PICK f : f = IF fixed THEN filled ELSE Append(filled, [i |-> Disc, n |-> 0])
  OBVIOUS
<1>4. f \in Seq(Entries)
  <2>1. [i |-> Disc, n |-> 0] \in Entries BY DEF Entries
  <2>2. QED BY <1>3, <2>1, Pushed DEF TypeOK
<1>5. PICK e : e = [i |-> Head(avail), n |-> Oldest[2]]
  OBVIOUS
<1>6. e \in Entries
  BY <1>1, <1>2, <1>5 DEF Entries
<1>7. filled' = f \o <<e>>
  BY <1>3, <1>5 DEF Return
<1>8. filled' = Append(f, e)
  BY <1>4, <1>6, <1>7
<1>9. Append(f, e) \in Seq(Entries)
  BY <1>4, <1>6, Pushed
<1>10. QED
  BY <1>1, <1>2, <1>3, <1>4, <1>5, <1>8, <1>9 DEF Return, IndicesLeft

(* Source_open offers all buffers, behind what is posted already.          *)
LEMMA Opened ==
  ASSUME TypeOK, Source_open
  PROVE  /\ msgs' \in Seq(Messages) /\ Len(msgs') = Len(msgs) + NumBuffers
         /\ \A k \in 1..Len(msgs) : msgs'[k] = msgs[k]
         /\ \A i \in 1..NumBuffers :
              msgs'[Len(msgs) + i] = [k |-> "avail", v |-> i, n |-> 0]
<1> DEFINE offers == [i \in 1..NumBuffers |-> [k |-> "avail", v |-> i, n |-> 0]]
<1>1. NumBuffers \in Nat /\ msgs \in Seq(Messages)
  BY Numbers DEF TypeOK
<1>2. \A i \in 1..NumBuffers : offers[i] \in Messages
  BY Letters
<1>3. offers \in Seq(Messages) /\ Len(offers) = NumBuffers
  <2>1. offers \in [1..NumBuffers -> Messages] BY <1>2
  <2>2. DOMAIN offers = 1..NumBuffers OBVIOUS
  <2> HIDE DEF offers
  <2>3. QED BY <1>1, <2>1, <2>2
<1>4. msgs' = msgs \o offers
  BY DEF Source_open
<1>5. \A i \in 1..NumBuffers : offers[i] = [k |-> "avail", v |-> i, n |-> 0]
  OBVIOUS
<1> HIDE DEF offers
<1>6. msgs' \in Seq(Messages) /\ Len(msgs') = Len(msgs) + NumBuffers
  <2>1. msgs \o offers \in Seq(Messages) BY <1>1, <1>3
  <2>2. Len(msgs \o offers) = Len(msgs) + Len(offers) BY <1>1, <1>3
  <2>3. QED BY <1>3, <1>4, <2>1, <2>2
<1>7. \A k \in 1..Len(msgs) : msgs'[k] = msgs[k]
  BY <1>1, <1>3, <1>4
<1>8. ASSUME NEW i \in 1..NumBuffers
      PROVE  msgs'[Len(msgs) + i] = [k |-> "avail", v |-> i, n |-> 0]
  <2>1. msgs'[Len(msgs) + i] = offers[i]
    BY <1>1, <1>3, <1>4
  <2>2. QED BY <1>5, <2>1
<1>9. QED BY <1>6, <1>7, <1>8

(* Types: for every width of the sequence numbers and whatever the network *)
(* does.  A request names a number of that width, and no packet is posted  *)
(* with a negative number.                                                 *)
THEOREM TypeCorrect == Spec => []TypeOK
<1>1. Init => TypeOK
  <2> SUFFICES ASSUME Init PROVE TypeOK
    OBVIOUS
  <2>1. 0 \in 0..MaxSend BY Numbers
  <2>2. \A S : <<>> \in Seq(S) OBVIOUS
  <2>3. QED BY <2>1, <2>2 DEF Init, TypeOK
<1>2. TypeOK /\ [Next]_vars => TypeOK'
  <2> SUFFICES ASSUME TypeOK, [Next]_vars PROVE TypeOK'
    OBVIOUS
  <2> USE DEF wire, queue, sink, netOnly
  <2>1. CASE Send
    BY <2>1, Numbers DEF Send, TypeOK
  <2>2. ASSUME NEW n \in net, Lose(n) PROVE TypeOK'
    BY <2>2 DEF Lose, TypeOK
  <2>3. ASSUME NEW n \in net, parseRTP(n) PROVE TypeOK'
    <3>1. n \in 1..MaxSend /\ SeqNo(n) \in Nat /\ src' \in Sources
      <4>1. SeqNo(n) \in 0 .. RtpSeqMod - 1 /\ n \in 1..MaxSend /\ src' \in Sources
        BY <2>3, Parsed, Zenon
      <4>2. QED BY <4>1
    <3>2. msgs' \in Seq(Messages)
      <4>1. \A v \in Nat : [k |-> "packet", v |-> v, n |-> n] \in Messages
        BY <3>1, Letters
      <4>2. \A m \in Messages : Append(msgs, m) \in Seq(Messages)
        BY Pushed DEF TypeOK
      <4>3. msgs \in Seq(Messages) BY DEF TypeOK
      <4>4. QED BY <2>3, <3>1, <4>1, <4>2, <4>3, Parsed
    <3>3. net' \subseteq net /\ UNCHANGED <<base, sent, nacks, queue, working, sink>>
      BY <2>3 DEF parseRTP
    <3>4. QED BY <3>1, <3>2, <3>3 DEF TypeOK
  <2>4. ASSUME NEW s \in nacks, Retransmit(s) PROVE TypeOK'
    BY <2>4 DEF Retransmit, TypeOK
  <2>5. ASSUME NEW s \in nacks, LoseNack(s) PROVE TypeOK'
    BY <2>5 DEF LoseNack, TypeOK
  <2>6. CASE OnQueueBuffer
    <3>1. /\ msgs' \in Seq(Messages)
          /\ Head(msgs).v \in Nat /\ Head(msgs).n \in 1..MaxSend
      BY <2>6, Handled, Kinds DEF OnQueueBuffer
    <3>2. packets' \subseteq Nat \X (1..MaxSend)
      BY <2>6, <3>1 DEF OnQueueBuffer, queueBuffer, TypeOK
    <3>3. player' \in {"none", "init", "open"} /\ working' \in BOOLEAN
      BY <2>6 DEF OnQueueBuffer, TypeOK
    <3>4. QED BY <2>6, <3>1, <3>2, <3>3 DEF OnQueueBuffer, TypeOK
  <2>7. CASE OnBufferAvailable
    <3>1. msgs' \in Seq(Messages) /\ Head(msgs).v \in 1..NumBuffers
      BY <2>7, Handled, Kinds DEF OnBufferAvailable
    <3>2. avail' \in Seq(1..NumBuffers)
      BY <2>7, <3>1, Pushed DEF OnBufferAvailable, TypeOK
    <3>3. QED BY <2>7, <3>1, <3>2 DEF OnBufferAvailable, TypeOK
  <2>8. CASE OnPoke
    <3>1. msgs' \in Seq(Messages)
      BY <2>8, Handled DEF OnPoke
    <3>2. QED BY <2>8, <3>1 DEF OnPoke, TypeOK
  <2>9. CASE onPacketLost
    <3>1. msgs' \in Seq(Messages) /\ Head(msgs).v \in 0 .. RtpSeqMod - 1
      BY <2>9, Handled, Kinds DEF onPacketLost
    <3>2. QED BY <2>9, <3>1 DEF onPacketLost, TypeOK
  <2>10. CASE WorkDone
    BY <2>10 DEF WorkDone, TypeOK
  <2>11. CASE DropTaken
    BY <2>11 DEF DropTaken, TypeOK
  <2>12. CASE Empty
    BY <2>12 DEF Empty, TypeOK
  <2>13. CASE InOrderPacket \/ GapSkip
    <3>1. packets # {} /\ avail # <<>> /\ Return
      BY <2>13 DEF InOrderPacket, GapSkip, Due, Gap
    <3>2. /\ last' \in Nat /\ packets' \subseteq packets
          /\ avail' \in Seq(1..NumBuffers) /\ filled' \in Seq(Entries)
      BY <3>1, Returns
    <3>3. QED BY <3>1, <3>2 DEF Return, TypeOK
  <2>14. CASE GapSeen
    BY <2>14 DEF GapSeen, TypeOK
  <2>15. CASE GapWait
    <3>1. LostSeqNo \in 0 .. RtpSeqMod - 1
      BY Numbers DEF LostSeqNo, TypeOK
    <3>2. [k |-> "lost", v |-> LostSeqNo, n |-> 0] \in Messages
      BY <3>1, Letters
    <3>3. Append(msgs, [k |-> "lost", v |-> LostSeqNo, n |-> 0]) \in Seq(Messages)
      BY <3>2, Pushed DEF TypeOK
    <3>4. msgs' \in Seq(Messages)
      BY <2>15, <3>3 DEF GapWait, Post, TypeOK
    <3>5. QED BY <2>15, <3>4 DEF GapWait, TypeOK
  <2>16. CASE FiftyMs
    BY <2>16 DEF FiftyMs, TypeOK
  <2>17. CASE Source_open
    <3>1. msgs' \in Seq(Messages)
      BY <2>17, Opened
    <3>2. QED BY <2>17, <3>1 DEF Source_open, TypeOK
  <2>18. CASE ReadBuffer
    <3>1. /\ Head(filled) \in Entries /\ Tail(filled) \in Seq(Entries)
      BY <2>18, Popped DEF ReadBuffer, TypeOK
    <3>2. Head(filled).i \in 1..NumBuffers /\ Head(filled).n \in 1..MaxSend
      BY <2>18, <3>1 DEF ReadBuffer, Entries
    <3>3. [k |-> "avail", v |-> Head(filled).i, n |-> 0] \in Messages
      BY <3>2, Letters
    <3>4. msgs' \in Seq(Messages)
      BY <2>18, <3>3, Pushed DEF ReadBuffer, Post, TypeOK
    <3>5. read' \in 0..MaxSend
      BY <2>18, <3>2, Numbers DEF ReadBuffer, TypeOK
    <3>6. QED BY <2>18, <3>1, <3>4, <3>5 DEF ReadBuffer, TypeOK
  <2>19. CASE ReadDiscontinuity
    <3>1. Tail(filled) \in Seq(Entries)
      BY <2>19, Popped DEF ReadDiscontinuity, TypeOK
    <3>2. QED BY <2>19, <3>1 DEF ReadDiscontinuity, TypeOK
  <2>20. CASE ReadEmpty
    <3>1. msgs' \in Seq(Messages)
      BY <2>20, Letters, Pushed DEF ReadEmpty, Post, TypeOK
    <3>2. QED BY <2>20, <3>1 DEF ReadEmpty, TypeOK
  <2>21. CASE UNCHANGED vars
    BY <2>21 DEF vars, TypeOK
  <2>22. QED
    BY <2>1, <2>2, <2>3, <2>4, <2>5, <2>6, <2>7, <2>8, <2>9, <2>10, <2>11, <2>12,
       <2>13, <2>14, <2>15, <2>16, <2>17, <2>18, <2>19, <2>20, <2>21
    DEF Next, Network, Looper, doSomeWork, Player
<1>3. QED BY <1>1, <1>2, PTL DEF Spec

-----------------------------------------------------------------------------
(***************************************************************************)
(* Extended sequence numbers.                                              *)
(***************************************************************************)

(* Every packet that was numbered has its extended number, and src counts  *)
(* in whole cycles, none of them before the probation is over.             *)
Right(ms) == \A k \in DOMAIN ms : ms[k].k = "packet" => ms[k].v = ms[k].n + Offset
Numbered  == Right(msgs) /\ \A p \in packets : p[1] = p[2] + Offset
Counted ==
  src # NoSource =>
    /\ src.cycles = RtpSeqMod * (src.cycles \div RtpSeqMod)
    /\ src.prob > 0 => src.cycles = 0
NumberInv == Numbered /\ Counted

(* Two packets with the numbers m and q in the cycles c and e, the second  *)
(* sent in the same cycle or later, and less than most of a cycle apart:   *)
(* the 16-bit difference tells whether there is a wrap between them.       *)
LEMMA InWindow ==
  ASSUME NEW c \in Nat, NEW e \in Nat, c <= e,
         NEW m \in 0 .. RtpSeqMod - 1, NEW q \in 0 .. RtpSeqMod - 1,
         (RtpSeqMod * c + m) - (RtpSeqMod * e + q) <= RtpSeqMod - MaxDropout,
         (RtpSeqMod * e + q) - (RtpSeqMod * c + m) <= RtpSeqMod - MaxMisorder
  PROVE  /\ (q - m) % RtpSeqMod < MaxDropout /\ q < m
               => RtpSeqMod * e = RtpSeqMod * c + RtpSeqMod
         /\ (q - m) % RtpSeqMod < MaxDropout /\ ~(q < m) => RtpSeqMod * e = RtpSeqMod * c
         /\ (q - m) % RtpSeqMod > RtpSeqMod - MaxMisorder => e = c
<1> DEFINE M == RtpSeqMod
           D == MaxDropout
           R == MaxMisorder
<1>1. M \in Nat \ {0} /\ D \in Nat \ {0} /\ R \in Nat \ {0} /\ D + R <= M
  BY Numbers
<1>2. /\ m \in 0 .. M - 1 /\ q \in 0 .. M - 1
      /\ (M * c + m) - (M * e + q) <= M - D /\ (M * e + q) - (M * c + m) <= M - R
  OBVIOUS
<1> SUFFICES /\ (q - m) % M < D /\ q < m => M * e = M * c + M
             /\ (q - m) % M < D /\ ~(q < m) => M * e = M * c
             /\ (q - m) % M > M - R => e = c
  OBVIOUS
<1> HIDE DEF M, D, R
<1> USE <1>1, <1>2
<1>3. M * c \in Nat /\ M * e \in Nat
  OBVIOUS
<1>4. q >= m => (q - m) % M = q - m
  OBVIOUS
<1>5. q < m => (q - m) % M = q - m + M
  OBVIOUS
<1>6. e = c \/ e = c + 1
  <2> SUFFICES ASSUME e - c >= 2 PROVE FALSE
    OBVIOUS
  <2>1. M * (e - c) >= 2 * M
    OBVIOUS
  <2>2. M * (e - c) = M * e - M * c
    OBVIOUS
  <2>3. QED BY <1>3, <2>1, <2>2
<1>7. CASE e = c
  BY <1>3, <1>4, <1>5, <1>7
<1>8. CASE e = c + 1
  <2>1. M * e = M * c + M
    BY <1>8
  <2>2. q < m
    BY <1>3, <2>1
  <2>3. QED BY <1>3, <1>5, <2>1, <2>2
<1>9. QED BY <1>6, <1>7, <1>8

(* A multiple of the modulus counts whole cycles.                          *)
LEMMA Multiple ==
  ASSUME NEW M \in Nat \ {0}, NEW c \in Nat
  PROVE  (M * c) \div M = c /\ M * c \in Nat
OBVIOUS

(* A packet that src numbers gets its extended number, and src goes on     *)
(* counting whole cycles.                                                  *)
LEMMA NumberedRight ==
  ASSUME TypeOK, Counted, NEW n \in net, parseRTP(n),
         ~May("late_wrap"), ~May("early_wrap"), ~May("outage")
  PROVE  /\ Counted'
         /\ \/ msgs' = msgs
            \/ msgs' = Append(msgs, [k |-> "packet", v |-> n + Offset, n |-> n])
<1> DEFINE q == SeqNo(n)
           u == updateSeq(q)
<1>1. /\ n \in 1..MaxSend /\ q \in 0 .. RtpSeqMod - 1 /\ RtpSeqMod \in Nat \ {0}
      /\ base \in Bases
  BY Parsed, Numbers DEF TypeOK
<1>2. /\ Cycle(n) \in Nat /\ Offset \in Int
      /\ n + Offset = RtpSeqMod * Cycle(n) + q
  BY <1>1, ExtOf
<1>3. ~OverWrap(n) /\ ~EarlyWrap(n) /\ ~Forgets(n)
  BY DEF parseRTP
<1>4. Cycle(n) = 0 => n + Offset = q
  BY <1>1, <1>2
<1>5. RtpSeqMod * (0 \div RtpSeqMod) = 0
  BY <1>1, Multiple
<1>6. CASE src = NoSource
  <2>1. Cycle(n) = 0 BY <1>2, <1>3, <1>6 DEF EarlyWrap
  <2>2. /\ src' = NewSource(q)
        /\ msgs' = Append(msgs, [k |-> "packet", v |-> q, n |-> n])
    BY <1>6 DEF parseRTP, Post
  <2>3. src'.cycles = 0 BY <1>1, <2>2, FirstSource
  <2>4. Counted' BY <1>5, <2>3 DEF Counted
  <2>5. QED BY <1>4, <2>1, <2>2, <2>4
<1>7. CASE src # NoSource
  <2>1. src \in Sources BY <1>7 DEF TypeOK
  <2>2. /\ src' = u.s
        /\ u.queue => msgs' = Append(msgs, [k |-> "packet", v |-> u.ext, n |-> n])
        /\ ~u.queue => msgs' = msgs
    BY <1>7 DEF parseRTP, Post
  <2>3. /\ u.queue \in BOOLEAN
        /\ \/ InProbation(u, q) \/ InOrder(u, q) \/ Late(u, q) \/ Restarts(u, q) \/ Jumps(u)
    BY <1>1, <2>1, Update
  <2>4. (u.s = initSeq(q)) => Cycle(n) = 0
    BY <1>2, <1>3, <1>7 DEF Forgets
  <2> HIDE DEF u, q
  <2> SUFFICES Counted' /\ (u.queue => u.ext = n + Offset)
    BY <2>2, <2>3
  <2> DEFINE c == src.cycles \div RtpSeqMod
  <2>5. /\ src.cycles = RtpSeqMod * c /\ src.cycles \in Nat /\ src.prob \in 0..2
        /\ src.max \in 0 .. RtpSeqMod - 1
        /\ src.prob > 0 => src.cycles = 0
    BY <1>7, <2>1 DEF Counted, Sources, kMinSequential
  <2>6. c \in Nat
    BY <1>1, <2>5
  <2>7. CASE InProbation(u, q)
    <3>1. Cycle(n) = 0 BY <1>2, <1>3, <2>7 DEF EarlyWrap, InProbation
    <3>2. src'.cycles = 0 BY <2>2, <2>5, <2>7 DEF InProbation
    <3>3. Counted' BY <1>5, <3>2 DEF Counted
    <3>4. u.ext = q BY <1>1, <2>5, <2>7 DEF InProbation
    <3>5. QED BY <1>4, <3>1, <3>3, <3>4
  <2>8. CASE Restarts(u, q)
    <3>1. Cycle(n) = 0 BY <2>4, <2>8 DEF Restarts
    <3>2. src'.cycles = 0 BY <2>2, <2>8 DEF Restarts
    <3>3. Counted' BY <1>5, <3>2 DEF Counted
    <3>4. QED BY <1>4, <2>8, <3>1, <3>3 DEF Restarts
  <2>9. CASE Jumps(u)
    <3>1. src'.cycles = src.cycles /\ src'.prob = 0 BY <2>2, <2>9 DEF Jumps
    <3>2. Counted' BY <2>5, <3>1 DEF Counted
    <3>3. QED BY <2>9, <3>2 DEF Jumps
  <2>10. CASE InOrder(u, q) \/ Late(u, q)
    <3>1. src.prob = 0 /\ u.queue /\ u.s.prob = 0 BY <2>10 DEF InOrder, Late
    <3>2. /\ c <= Cycle(n)
          /\ Newest - n <= RtpSeqMod - MaxDropout
          /\ n - Newest <= RtpSeqMod - MaxMisorder
      <4>1. Newest \in Int BY <1>2, <2>5 DEF Newest
      <4>2. QED
        BY <1>1, <1>2, <1>3, <1>7, <2>6, <3>1, <4>1, Numbers DEF OverWrap, Forgets, Counts
    <3>3. Newest + Offset = RtpSeqMod * c + src.max
      BY <1>2, <2>5 DEF Newest
    <3>4. /\ (RtpSeqMod * c + src.max) - (RtpSeqMod * Cycle(n) + q) <= RtpSeqMod - MaxDropout
          /\ (RtpSeqMod * Cycle(n) + q) - (RtpSeqMod * c + src.max) <= RtpSeqMod - MaxMisorder
      <4>1. Newest \in Int BY <1>2, <2>5 DEF Newest
      <4>2. /\ (Newest + Offset) - (n + Offset) = Newest - n
            /\ (n + Offset) - (Newest + Offset) = n - Newest
        BY <1>1, <1>2, <4>1
      <4>3. QED BY <1>2, <3>2, <3>3, <4>2
    <3>5. /\ Delta(q) < MaxDropout /\ q < src.max
               => RtpSeqMod * Cycle(n) = RtpSeqMod * c + RtpSeqMod
          /\ Delta(q) < MaxDropout /\ ~(q < src.max)
               => RtpSeqMod * Cycle(n) = RtpSeqMod * c
          /\ Delta(q) > RtpSeqMod - MaxMisorder => Cycle(n) = c
      <4> HIDE DEF c
      <4>1. src.max \in 0 .. RtpSeqMod - 1
        BY <2>5
      <4>2. QED BY <1>1, <1>2, <2>6, <3>2, <3>4, <4>1, InWindow, Zenon DEF Delta
    <3>6. CASE InOrder(u, q)
      <4>1. u.s.cycles = RtpSeqMod * Cycle(n)
        BY <2>5, <3>5, <3>6 DEF InOrder
      <4>2. u.ext = n + Offset
        BY <1>2, <3>6, <4>1 DEF InOrder
      <4>3. (RtpSeqMod * Cycle(n)) \div RtpSeqMod = Cycle(n)
        BY <1>1, <1>2, Multiple
      <4>4. Counted'
        BY <2>2, <3>1, <4>1, <4>3 DEF Counted
      <4>5. QED BY <4>2, <4>4
    <3>7. CASE Late(u, q)
      <4>1. u.ext = n + Offset
        BY <1>2, <2>5, <3>5, <3>7 DEF Late
      <4>2. Counted'
        BY <2>2, <2>5, <3>7 DEF Counted, Late
      <4>3. QED BY <4>1, <4>2
    <3>8. QED BY <2>10, <3>6, <3>7
  <2>11. QED BY <2>3, <2>7, <2>8, <2>9, <2>10
<1>8. QED BY <1>6, <1>7

(* Messages that come and go.                                              *)
LEMMA RightPushed ==
  ASSUME NEW q \in Seq(Messages), NEW m \in Messages, Right(q),
         m.k = "packet" => m.v = m.n + Offset
  PROVE  Right(Append(q, m))
BY Pushed DEF Right

LEMMA RightPopped ==
  ASSUME NEW q \in Seq(Messages), q # <<>>, Right(q)
  PROVE  /\ Right(Tail(q))
         /\ Head(q).k = "packet" => Head(q).v = Head(q).n + Offset
<1>1. Right(Tail(q))
  <2> SUFFICES ASSUME NEW k \in DOMAIN Tail(q), Tail(q)[k].k = "packet"
               PROVE  Tail(q)[k].v = Tail(q)[k].n + Offset
    BY DEF Right
  <2>1. k + 1 \in DOMAIN q /\ Tail(q)[k] = q[k + 1] BY Popped
  <2>2. QED BY <2>1 DEF Right
<1>2. QED BY <1>1, Popped DEF Right

(* NumberInv is kept where no packet is so late, and no gap so long, that  *)
(* 16 bits do not tell old from new.                                       *)
LEMMA NumberInvariant ==
  ASSUME "late_wrap" \notin Allowed, "early_wrap" \notin Allowed, "outage" \notin Allowed
  PROVE  Spec => []NumberInv
<1>1. Init => NumberInv
  BY DEF Init, NumberInv, Numbered, Right, Counted
<1>2. TypeOK /\ NumberInv /\ [Next]_vars => NumberInv'
  <2> SUFFICES ASSUME TypeOK, NumberInv, [Next]_vars PROVE NumberInv'
    OBVIOUS
  <2> USE DEF NumberInv, wire, queue, sink, netOnly
  <2>1. Offset' = Offset
    <3>1. base' = base
      BY DEF Next, Network, Looper, doSomeWork, Player, Send, Lose, parseRTP, Retransmit,
         LoseNack, OnQueueBuffer, OnBufferAvailable, OnPoke, onPacketLost, WorkDone,
         DropTaken, Empty, InOrderPacket, Return, GapSeen, GapWait, GapSkip, FiftyMs,
         Source_open, ReadBuffer, ReadDiscontinuity, ReadEmpty, vars
    <3>2. QED BY <3>1 DEF Offset
  <2>2. ASSUME Right(msgs'), packets' \subseteq packets, UNCHANGED src PROVE NumberInv'
    BY <2>1, <2>2 DEF Numbered, Right, Counted
  <2>3. msgs \in Seq(Messages) /\ Right(msgs) BY DEF TypeOK, Numbered
  <2>4. ASSUME NEW n \in net, parseRTP(n) PROVE NumberInv'
    <3>1. /\ Counted'
          /\ \/ msgs' = msgs
             \/ msgs' = Append(msgs, [k |-> "packet", v |-> n + Offset, n |-> n])
      BY <2>4, NumberedRight DEF May
    <3>2. Right(msgs')
      <4>1. n \in 1..MaxSend /\ n + Offset \in Nat
        BY <2>4, Parsed, ExtOf DEF TypeOK
      <4>2. [k |-> "packet", v |-> n + Offset, n |-> n] \in Messages
        BY <4>1, Letters
      <4>3. Right(Append(msgs, [k |-> "packet", v |-> n + Offset, n |-> n]))
        BY <2>3, <4>2, RightPushed
      <4>4. QED BY <2>3, <3>1, <4>3
    <3>3. packets' = packets BY <2>4 DEF parseRTP
    <3>4. QED BY <2>1, <3>1, <3>2, <3>3 DEF Numbered, Right
  <2>5. CASE OnQueueBuffer
    <3>1. /\ msgs # <<>> /\ msgs' = Tail(msgs) /\ Head(msgs).k = "packet"
      BY <2>5 DEF OnQueueBuffer, Handle
    <3>2. Right(msgs') /\ Head(msgs).v = Head(msgs).n + Offset
      BY <2>3, <3>1, RightPopped
    <3>3. \A p \in packets' : p[1] = p[2] + Offset
      BY <2>5, <3>2 DEF OnQueueBuffer, queueBuffer, Numbered
    <3>4. Counted' BY <2>5 DEF OnQueueBuffer, Counted
    <3>5. QED BY <2>1, <3>2, <3>3, <3>4 DEF Numbered, Right
  <2>6. CASE OnBufferAvailable \/ OnPoke \/ onPacketLost
    <3>1. msgs # <<>> /\ msgs' = Tail(msgs) /\ UNCHANGED <<src, packets>>
      BY <2>6 DEF OnBufferAvailable, OnPoke, onPacketLost, Handle
    <3>2. Right(msgs') BY <2>3, <3>1, RightPopped
    <3>3. QED BY <2>2, <3>1, <3>2
  <2>7. ASSUME NEW m \in Messages, m.k # "packet", msgs' = Append(msgs, m),
               UNCHANGED <<src, packets>>
        PROVE  NumberInv'
    <3>1. Right(msgs') BY <2>3, <2>7, RightPushed
    <3>2. QED BY <2>2, <2>7, <3>1
  <2>8. CASE GapWait
    <3>1. LostSeqNo \in 0 .. RtpSeqMod - 1
      BY Numbers DEF LostSeqNo, TypeOK
    <3>2. [k |-> "lost", v |-> LostSeqNo, n |-> 0] \in Messages
      BY <3>1, Letters
    <3>3. UNCHANGED <<src, packets>>
      BY <2>8 DEF GapWait
    <3>4. CASE asked
      <4>1. msgs' = msgs BY <2>8, <3>4 DEF GapWait
      <4>2. QED BY <2>2, <2>3, <3>3, <4>1
    <3>5. CASE ~asked
      <4>1. msgs' = Append(msgs, [k |-> "lost", v |-> LostSeqNo, n |-> 0])
        BY <2>8, <3>5 DEF GapWait, Post
      <4>2. [k |-> "lost", v |-> LostSeqNo, n |-> 0].k # "packet" OBVIOUS
      <4>3. QED BY <2>7, <3>2, <3>3, <4>1, <4>2
    <3>6. QED BY <3>4, <3>5
  <2>9. CASE Source_open
    <3>1. /\ Len(msgs') = Len(msgs) + NumBuffers /\ msgs' \in Seq(Messages)
          /\ \A k \in 1..Len(msgs) : msgs'[k] = msgs[k]
          /\ \A i \in 1..NumBuffers :
               msgs'[Len(msgs) + i] = [k |-> "avail", v |-> i, n |-> 0]
      BY <2>9, Opened
    <3>2. ASSUME NEW k \in DOMAIN msgs', msgs'[k].k = "packet" PROVE k \in 1..Len(msgs)
      <4> SUFFICES ASSUME k > Len(msgs) PROVE FALSE
        BY <2>3, <3>1, <3>2
      <4>1. k - Len(msgs) \in 1..NumBuffers /\ k = Len(msgs) + (k - Len(msgs))
        BY <2>3, <3>1, <3>2, Numbers
      <4>2. msgs'[k] = [k |-> "avail", v |-> k - Len(msgs), n |-> 0]
        BY <3>1, <4>1
      <4>3. QED BY <3>2, <4>2
    <3>3. Right(msgs') BY <2>3, <3>1, <3>2 DEF Right
    <3>4. QED BY <2>2, <2>9, <3>3 DEF Source_open
  <2>10. CASE ReadBuffer
    <3>1. Head(filled) \in Entries
      BY <2>10, Popped DEF ReadBuffer, TypeOK
    <3>2. Head(filled).i \in 1..NumBuffers
      BY <2>10, <3>1 DEF ReadBuffer, Entries
    <3>3. [k |-> "avail", v |-> Head(filled).i, n |-> 0] \in Messages
      BY <3>2, Letters
    <3>4. [k |-> "avail", v |-> Head(filled).i, n |-> 0].k # "packet" OBVIOUS
    <3>5. /\ msgs' = Append(msgs, [k |-> "avail", v |-> Head(filled).i, n |-> 0])
          /\ UNCHANGED <<src, packets>>
      BY <2>10 DEF ReadBuffer, Post
    <3>6. QED BY <2>7, <3>3, <3>4, <3>5
  <2>11. CASE ReadEmpty
    <3>1. [k |-> "poke", v |-> 0, n |-> 0] \in Messages
      BY Letters
    <3>2. [k |-> "poke", v |-> 0, n |-> 0].k # "packet" OBVIOUS
    <3>3. /\ msgs' = Append(msgs, [k |-> "poke", v |-> 0, n |-> 0])
          /\ UNCHANGED <<src, packets>>
      BY <2>11 DEF ReadEmpty, Post
    <3>4. QED BY <2>7, <3>1, <3>2, <3>3
  <2>12. ASSUME UNCHANGED <<src, msgs>>, packets' \subseteq packets PROVE NumberInv'
    BY <2>2, <2>3, <2>12
  <2>13. CASE Send \/ WorkDone \/ Empty \/ GapSeen \/ FiftyMs \/ ReadDiscontinuity
    BY <2>12, <2>13 DEF Send, WorkDone, Empty, GapSeen, FiftyMs, ReadDiscontinuity
  <2>14. CASE DropTaken \/ InOrderPacket \/ GapSkip
    BY <2>12, <2>14 DEF DropTaken, InOrderPacket, GapSkip, Return
  <2>15. ASSUME NEW n \in net, Lose(n) PROVE NumberInv'
    BY <2>12, <2>15 DEF Lose
  <2>16. ASSUME NEW s \in nacks, Retransmit(s) \/ LoseNack(s) PROVE NumberInv'
    BY <2>12, <2>16 DEF Retransmit, LoseNack
  <2>17. CASE UNCHANGED vars
    BY <2>12, <2>17 DEF vars
  <2>18. QED
    BY <2>4, <2>5, <2>6, <2>8, <2>9, <2>10, <2>11, <2>13, <2>14, <2>15, <2>16, <2>17
    DEF Next, Network, Looper, doSomeWork, Player
<1>3. QED BY <1>1, <1>2, TypeCorrect, PTL DEF Spec

-----------------------------------------------------------------------------
(***************************************************************************)
(* Order.  What was returned is not newer than the packet returned last,   *)
(* which the player has read or is going to read.  A queue of the listener *)
(* is looked at together with the newest packet that was read, r.          *)
(***************************************************************************)
DataOf(q) == {k \in DOMAIN q : q[k].i # Disc}

Sorted(q, r) ==
  \A k \in DataOf(q) : /\ r < q[k].n
                       /\ \A j \in DataOf(q) : j < k => q[j].n < q[k].n

EndsWith(q, r, x) ==
  /\ r <= x /\ \A k \in DataOf(q) : q[k].n <= x
  /\ r = x \/ \E k \in DataOf(q) : q[k].n = x

Returned ==
  /\ last = -1 => read = 0 /\ DataOf(filled) = {}
  /\ last # -1 => EndsWith(filled, read, last - Offset)

OrderInv == Returned /\ Sorted(filled, read)

(* A discontinuity at the end of the queue changes nothing.                *)
LEMMA PushDisc ==
  ASSUME NEW q \in Seq(Entries), NEW e \in Entries, e.i = Disc
  PROVE  /\ DataOf(Append(q, e)) = DataOf(q)
         /\ \A r : Sorted(q, r) => Sorted(Append(q, e), r)
         /\ \A r, x : EndsWith(q, r, x) => EndsWith(Append(q, e), r, x)
<1> DEFINE t == Append(q, e)
<1>1. /\ DOMAIN q = 1..Len(q) /\ DOMAIN t = 1 .. Len(q) + 1 /\ t[Len(q) + 1] = e
      /\ \A k \in 1..Len(q) : t[k] = q[k]
  BY Pushed
<1> HIDE DEF t
<1>2. DataOf(t) = DataOf(q) BY <1>1 DEF DataOf
<1>3. \A k \in DataOf(q) : t[k] = q[k] BY <1>1 DEF DataOf
<1>4. ASSUME NEW r, Sorted(q, r) PROVE Sorted(t, r)
  BY <1>2, <1>3, <1>4 DEF Sorted
<1>5. ASSUME NEW r, NEW x, EndsWith(q, r, x) PROVE EndsWith(t, r, x)
  BY <1>2, <1>3, <1>5 DEF EndsWith
<1>6. QED BY <1>2, <1>4, <1>5 DEF t

(* A packet at the end that is newer than all others.                      *)
LEMMA PushPacket ==
  ASSUME NEW q \in Seq(Entries), NEW e \in Entries, e.i # Disc, NEW r \in Int,
         Sorted(q, r), r < e.n, \A k \in DataOf(q) : q[k].n < e.n
  PROVE  Sorted(Append(q, e), r) /\ EndsWith(Append(q, e), r, e.n)
<1> DEFINE t == Append(q, e)
<1>1. /\ DOMAIN q = 1..Len(q) /\ DOMAIN t = 1 .. Len(q) + 1 /\ t[Len(q) + 1] = e
      /\ \A k \in 1..Len(q) : t[k] = q[k]
  BY Pushed
<1>2. e.n \in Int /\ \A k \in DataOf(q) : q[k].n \in Int
  BY <1>1 DEF Entries, DataOf
<1> HIDE DEF t
<1>3. DataOf(t) = DataOf(q) \cup {Len(q) + 1} BY <1>1 DEF DataOf
<1>4. \A k \in DataOf(q) : k \in 1..Len(q) /\ t[k] = q[k] BY <1>1 DEF DataOf
<1>5. Sorted(t, r)
  <2> SUFFICES ASSUME NEW k \in DataOf(t)
               PROVE  r < t[k].n /\ \A j \in DataOf(t) : j < k => t[j].n < t[k].n
    BY DEF Sorted
  <2>1. CASE k = Len(q) + 1
    BY <1>1, <1>3, <1>4, <2>1
  <2>2. CASE k \in DataOf(q)
    <3>1. \A j \in DataOf(t) : j < k => j \in DataOf(q)
      BY <1>3, <1>4, <2>2
    <3>2. QED BY <1>4, <2>2, <3>1 DEF Sorted
  <2>3. QED BY <1>3, <2>1, <2>2
<1>6. EndsWith(t, r, e.n)
  BY <1>1, <1>2, <1>3, <1>4 DEF EndsWith
<1>7. QED BY <1>5, <1>6 DEF t

(* The first entry is read: a discontinuity, or the oldest packet.         *)
LEMMA PopData ==
  ASSUME NEW q \in Seq(Entries), q # <<>>
  PROVE  /\ \A k \in DataOf(Tail(q)) : k + 1 \in DataOf(q) /\ Tail(q)[k] = q[k + 1]
         /\ \A k \in DataOf(q) : \/ k = 1 /\ Head(q).i # Disc
                                 \/ k - 1 \in DataOf(Tail(q)) /\ Tail(q)[k - 1] = q[k]
         /\ Head(q).i # Disc => 1 \in DataOf(q)
         /\ Head(q) = q[1] /\ DataOf(q) \subseteq Nat
<1>1. /\ DOMAIN q = 1..Len(q) /\ DOMAIN Tail(q) = 1 .. Len(q) - 1 /\ 1 \in DOMAIN q
      /\ Head(q) = q[1] /\ \A k \in 1 .. Len(q) - 1 : Tail(q)[k] = q[k + 1]
  BY Popped
<1>2. \A k \in 1..Len(q) : k = 1 \/ (k - 1 \in 1 .. Len(q) - 1 /\ Tail(q)[k - 1] = q[k])
  BY <1>1
<1>3. QED BY <1>1, <1>2 DEF DataOf

LEMMA PopDisc ==
  ASSUME NEW q \in Seq(Entries), q # <<>>, Head(q).i = Disc
  PROVE  /\ DataOf(q) = {} => DataOf(Tail(q)) = {}
         /\ \A r : Sorted(q, r) => Sorted(Tail(q), r)
         /\ \A r, x : EndsWith(q, r, x) => EndsWith(Tail(q), r, x)
<1> DEFINE t == Tail(q)
<1>1. /\ \A k \in DataOf(t) : k + 1 \in DataOf(q) /\ t[k] = q[k + 1]
      /\ \A k \in DataOf(q) : k - 1 \in DataOf(t) /\ t[k - 1] = q[k]
  BY PopData
<1>2. DataOf(t) \subseteq Nat
  BY Popped DEF DataOf
<1> HIDE DEF t
<1>3. ASSUME NEW r, Sorted(q, r) PROVE Sorted(t, r)
  <2> SUFFICES ASSUME NEW k \in DataOf(t)
               PROVE  r < t[k].n /\ \A j \in DataOf(t) : j < k => t[j].n < t[k].n
    BY DEF Sorted
  <2>1. k + 1 \in DataOf(q) /\ t[k] = q[k + 1] BY <1>1
  <2>2. \A j \in DataOf(t) : j < k => j + 1 \in DataOf(q) /\ t[j] = q[j + 1] /\ j + 1 < k + 1
    BY <1>1, <1>2
  <2>3. QED BY <1>3, <2>1, <2>2 DEF Sorted
<1>4. ASSUME NEW r, NEW x, EndsWith(q, r, x) PROVE EndsWith(t, r, x)
  BY <1>1, <1>4 DEF EndsWith
<1>5. QED BY <1>1, <1>3, <1>4 DEF t

LEMMA PopPacket ==
  ASSUME NEW q \in Seq(Entries), q # <<>>, Head(q).i # Disc, NEW r \in Int, Sorted(q, r)
  PROVE  /\ r < Head(q).n /\ Sorted(Tail(q), Head(q).n) /\ DataOf(q) # {}
         /\ \A x \in Int : EndsWith(q, r, x) => EndsWith(Tail(q), Head(q).n, x)
<1> DEFINE t == Tail(q)
           h == Head(q).n
<1>1. /\ \A k \in DataOf(t) : k + 1 \in DataOf(q) /\ t[k] = q[k + 1]
      /\ \A k \in DataOf(q) : k = 1 \/ (k - 1 \in DataOf(t) /\ t[k - 1] = q[k])
      /\ 1 \in DataOf(q) /\ h = q[1].n
  BY PopData
<1>2. DataOf(t) \subseteq Nat \ {0}
  BY Popped DEF DataOf
<1>3. \A k \in DataOf(q) : q[k].n \in Int
  BY DEF Entries, DataOf
<1> HIDE DEF t, h
<1>4. r < h BY <1>1 DEF Sorted
<1>5. \A k \in DataOf(t) : h < t[k].n
  <2> SUFFICES ASSUME NEW k \in DataOf(t) PROVE h < t[k].n
    OBVIOUS
  <2>1. k + 1 \in DataOf(q) /\ t[k] = q[k + 1] /\ 1 < k + 1 BY <1>1, <1>2
  <2>2. QED BY <1>1, <2>1 DEF Sorted
<1>6. Sorted(t, h)
  <2> SUFFICES ASSUME NEW k \in DataOf(t), NEW j \in DataOf(t), j < k
               PROVE  t[j].n < t[k].n
    BY <1>5 DEF Sorted
  <2>1. /\ k + 1 \in DataOf(q) /\ t[k] = q[k + 1]
        /\ j + 1 \in DataOf(q) /\ t[j] = q[j + 1] /\ j + 1 < k + 1
    BY <1>1, <1>2
  <2>2. QED BY <2>1 DEF Sorted
<1>7. ASSUME NEW x \in Int, EndsWith(q, r, x) PROVE EndsWith(t, h, x)
  <2>1. h <= x /\ \A k \in DataOf(t) : t[k].n <= x
    BY <1>1, <1>7 DEF EndsWith
  <2>2. PICK k \in DataOf(q) : q[k].n = x
    BY <1>1, <1>3, <1>4, <1>7, <2>1 DEF EndsWith
  <2>3. h = x \/ \E j \in DataOf(t) : t[j].n = x
    BY <1>1, <2>2
  <2>4. QED BY <2>1, <2>3 DEF EndsWith
<1>8. QED BY <1>1, <1>4, <1>6, <1>7 DEF t, h

(* OrderInv is kept: a packet is returned only if it is newer than the one *)
(* returned last.                                                          *)
LEMMA OrderInvariant ==
  ASSUME "late_wrap" \notin Allowed, "early_wrap" \notin Allowed, "outage" \notin Allowed
  PROVE  Spec => []OrderInv
<1>1. Init => OrderInv
  BY DEF Init, OrderInv, Returned, Sorted, DataOf
<1>2. TypeOK /\ NumberInv /\ OrderInv /\ [Next]_vars => OrderInv'
  <2> SUFFICES ASSUME TypeOK, NumberInv, OrderInv, [Next]_vars PROVE OrderInv'
    OBVIOUS
  <2> USE DEF wire, queue, sink, netOnly
  <2>1. ASSUME UNCHANGED <<base, last, filled, read>> PROVE OrderInv'
    BY <2>1 DEF OrderInv, Returned, Sorted, EndsWith, DataOf, Offset
  <2>2. filled \in Seq(Entries) /\ read \in Int /\ last \in Int /\ Offset \in Int
    BY Numbers DEF TypeOK, Offset
  <2>3. CASE InOrderPacket \/ GapSkip
    <3>1. packets # {} /\ avail # <<>> /\ Return /\ ~Taken
      BY <2>3 DEF InOrderPacket, GapSkip, Due, Gap
    <3>2. PICK f \in Seq(Entries) :
            /\ f = IF fixed THEN filled ELSE Append(filled, [i |-> Disc, n |-> 0])
            /\ filled' = Append(f, [i |-> Head(avail), n |-> Oldest[2]])
      BY <3>1, Returns
    <3>3. /\ Oldest[2] \in 1..MaxSend /\ Head(avail) \in 1..NumBuffers
          /\ last' = Oldest[1] /\ Oldest[1] \in Nat
      BY <3>1, Returns
    <3>4. Oldest[1] = Oldest[2] + Offset
      <4>1. Oldest \in packets BY <3>1, Front DEF TypeOK
      <4>2. QED BY <4>1 DEF NumberInv, Numbered
    <3>5. UNCHANGED <<base, read>> BY <3>1 DEF Return
    <3>6. \/ last = -1
          \/ last # -1 /\ last - Offset < Oldest[2]
      BY <2>2, <3>1, <3>3, <3>4 DEF Taken, TypeOK
    <3>7. DataOf(f) = DataOf(filled) /\ Sorted(f, read) /\ \A k \in DataOf(f) : f[k] = filled[k]
      <4>1. [i |-> Disc, n |-> 0] \in Entries BY DEF Entries
      <4>2. CASE fixed
        BY <3>2, <4>2 DEF OrderInv
      <4>3. CASE ~fixed
        <5>1. f = Append(filled, [i |-> Disc, n |-> 0]) BY <3>2, <4>3
        <5>2. DataOf(f) = DataOf(filled) /\ Sorted(f, read)
          BY <2>2, <4>1, <5>1, PushDisc DEF OrderInv
        <5>3. \A k \in DataOf(filled) : f[k] = filled[k]
          BY <2>2, <4>1, <5>1, Pushed DEF DataOf
        <5>4. QED BY <5>2, <5>3
      <4>4. QED BY <4>2, <4>3
    <3>8. read < Oldest[2] /\ \A k \in DataOf(f) : f[k].n < Oldest[2]
      <4>1. CASE last = -1
        BY <3>3, <3>7, <4>1 DEF OrderInv, Returned
      <4>2. CASE last # -1 /\ last - Offset < Oldest[2]
        <5>1. EndsWith(filled, read, last - Offset) BY <4>2 DEF OrderInv, Returned
        <5>2. \A k \in DataOf(filled) : filled[k].n \in Int
          BY <2>2 DEF Entries, DataOf
        <5>3. QED BY <2>2, <3>3, <3>7, <4>2, <5>1, <5>2 DEF EndsWith
      <4>3. QED BY <3>6, <4>1, <4>2
    <3>9. PICK e : e = [i |-> Head(avail), n |-> Oldest[2]] OBVIOUS
    <3>10. e \in Entries /\ e.i # Disc /\ e.n = Oldest[2]
      BY <3>3, <3>9 DEF Entries, Disc
    <3>11. Sorted(filled', read) /\ EndsWith(filled', read, Oldest[2])
      BY <2>2, <3>2, <3>7, <3>8, <3>9, <3>10, PushPacket
    <3>12. last' # -1 /\ last' - Offset' = Oldest[2]
      BY <2>2, <3>3, <3>4, <3>5 DEF Offset
    <3>13. QED
      BY <3>5, <3>11, <3>12 DEF OrderInv, Returned, Sorted, EndsWith, DataOf
  <2>4. CASE ReadBuffer
    <3>1. filled # <<>> /\ Head(filled).i # Disc /\ filled' = Tail(filled)
      BY <2>4 DEF ReadBuffer
    <3>2. /\ read < Head(filled).n /\ Sorted(filled', Head(filled).n) /\ DataOf(filled) # {}
          /\ \A x \in Int : EndsWith(filled, read, x) => EndsWith(filled', Head(filled).n, x)
      BY <2>2, <3>1, PopPacket DEF OrderInv
    <3>3. read' = Head(filled).n /\ UNCHANGED <<base, last>>
      BY <2>4, <3>2 DEF ReadBuffer
    <3>4. last # -1 /\ EndsWith(filled, read, last - Offset)
      BY <3>2 DEF OrderInv, Returned
    <3>5. last - Offset \in Int BY <2>2
    <3>6. EndsWith(filled', read', last - Offset)
      BY <3>2, <3>3, <3>4, <3>5
    <3>7. QED
      BY <3>2, <3>3, <3>4, <3>6 DEF OrderInv, Returned, Sorted, EndsWith, DataOf, Offset
  <2>5. CASE ReadDiscontinuity
    <3>1. /\ filled # <<>> /\ Head(filled).i = Disc /\ filled' = Tail(filled)
          /\ UNCHANGED <<base, last, read>>
      BY <2>5 DEF ReadDiscontinuity
    <3>2. /\ DataOf(filled) = {} => DataOf(filled') = {}
          /\ Sorted(filled', read)
          /\ \A x : EndsWith(filled, read, x) => EndsWith(filled', read, x)
      BY <2>2, <3>1, PopDisc DEF OrderInv
    <3>3. QED
      BY <3>1, <3>2 DEF OrderInv, Returned, Sorted, EndsWith, DataOf, Offset
  <2>6. ASSUME NEW n \in net, Lose(n) \/ parseRTP(n) PROVE OrderInv'
    BY <2>1, <2>6 DEF Lose, parseRTP
  <2>7. ASSUME NEW s \in nacks, Retransmit(s) \/ LoseNack(s) PROVE OrderInv'
    BY <2>1, <2>7 DEF Retransmit, LoseNack
  <2>8. CASE OnQueueBuffer \/ OnBufferAvailable \/ OnPoke \/ onPacketLost
    BY <2>1, <2>8 DEF OnQueueBuffer, OnBufferAvailable, OnPoke, onPacketLost
  <2>9. CASE WorkDone \/ DropTaken \/ Empty \/ GapSeen \/ GapWait \/ FiftyMs \/ Send
    BY <2>1, <2>9 DEF WorkDone, DropTaken, Empty, GapSeen, GapWait, FiftyMs, Send
  <2>10. CASE Source_open \/ ReadEmpty
    BY <2>1, <2>10 DEF Source_open, ReadEmpty
  <2>11. CASE UNCHANGED vars
    BY <2>1, <2>11 DEF vars
  <2>12. QED
    BY <2>3, <2>4, <2>5, <2>6, <2>7, <2>8, <2>9, <2>10, <2>11
    DEF Next, Network, Looper, doSomeWork, Player
<1>3. QED BY <1>1, <1>2, TypeCorrect, NumberInvariant, PTL DEF Spec

(* The player reads the packets in the order in which they were sent, none *)
(* twice, over any number of wraps, losses, duplicates and requests, where *)
(* no packet comes from before a wrap, the numbers do not wrap during the  *)
(* probation, and no gap spans most of a cycle.                            *)
THEOREM PacketsInOrder ==
  ASSUME "late_wrap" \notin Allowed, "early_wrap" \notin Allowed, "outage" \notin Allowed
  PROVE  Spec => []ReadInOrder
<1>1. OrderInv => ReadInOrder
  BY DEF OrderInv, Sorted, DataOf, ReadInOrder, Data
<1>2. QED BY <1>1, OrderInvariant, PTL

(* Under the same conditions dequeueBuffer drops no packet as a            *)
(* retransmission that is newer than what it has returned.                 *)
THEOREM OnlyReturnedDropped ==
  ASSUME "late_wrap" \notin Allowed, "early_wrap" \notin Allowed, "outage" \notin Allowed
  PROVE  Spec => []DropsOnlyReturned
<1>1. TypeOK /\ NumberInv /\ OrderInv => DropsOnlyReturned
  <2> SUFFICES ASSUME TypeOK, NumberInv, OrderInv, Taken
               PROVE  Oldest[2] <= read \/ \E k \in Data : Oldest[2] <= filled[k].n
    BY DEF DropsOnlyReturned
  <2>1. packets # {} /\ last >= 0 /\ Oldest[1] <= last BY DEF Taken
  <2>2. Oldest[1] = Oldest[2] + Offset /\ Oldest[2] \in Int
    <3>1. Oldest \in packets /\ Oldest[2] \in 1..MaxSend BY <2>1, Front DEF TypeOK
    <3>2. QED BY <3>1 DEF NumberInv, Numbered
  <2>3. last \in Int /\ Offset \in Int BY Numbers DEF TypeOK, Offset
  <2>4. EndsWith(filled, read, last - Offset) BY <2>1, <2>3 DEF OrderInv, Returned
  <2>5. Oldest[2] <= last - Offset BY <2>1, <2>2, <2>3
  <2>6. read = last - Offset \/ \E k \in DataOf(filled) : filled[k].n = last - Offset
    BY <2>4 DEF EndsWith
  <2>7. QED BY <2>5, <2>6 DEF DataOf, Data
<1>2. QED BY <1>1, TypeCorrect, NumberInvariant, OrderInvariant, PTL

-----------------------------------------------------------------------------
(***************************************************************************)
(* The buffers that the looper and the player share.  They move between    *)
(* three sequences, from the front of one to the end of another.           *)
(***************************************************************************)
Spots == {"offered", "available", "full"}

Each(P) ==
  \A b \in 1..NumBuffers : \E p \in Spots : \E k \in 1..Len(P[p]) :
    /\ P[p][k] = b
    /\ \A q \in Spots : \A j \in 1..Len(P[q]) : P[q][j] = b => q = p /\ j = k

NoneIn(P) == \A p \in Spots : \A k \in 1..Len(P[p]) : P[p][k] \notin 1..NumBuffers

Lists(P) == \A p \in Spots : P[p] \in Seq(Int)

(* Nothing is offered before the player has opened its source.             *)
BuffersIn(P, open) == (open => Each(P)) /\ (~open => NoneIn(P))
BufferInv == BuffersIn(Places, player = "open")

Appended(s, t, x) ==
  /\ Len(t) = Len(s) + 1 /\ t[Len(s) + 1] = x
  /\ \A k \in 1..Len(s) : t[k] = s[k]

Shifted(s, t) ==
  /\ Len(s) # 0 /\ Len(t) = Len(s) - 1
  /\ \A k \in 1..Len(t) : t[k] = s[k + 1]

(* A buffer moves.                                                         *)
LEMMA MoveBuffer ==
  ASSUME NEW P, NEW Q, Lists(P), Lists(Q), Each(P),
         NEW p \in Spots, NEW q \in Spots, p # q,
         Shifted(P[p], Q[p]), Appended(P[q], Q[q], P[p][1]),
         \A r \in Spots \ {p, q} : Q[r] = P[r]
  PROVE  Each(Q)
<1> DEFINE x == P[p][1]
<1>1. \A r \in Spots : Len(P[r]) \in Nat /\ Len(Q[r]) \in Nat
  BY DEF Lists
<1>2. 1 \in 1..Len(P[p])
  BY <1>1 DEF Shifted
<1>3. \A k \in 1..Len(Q[p]) : k + 1 \in 1..Len(P[p]) /\ Q[p][k] = P[p][k + 1]
  BY <1>1 DEF Shifted
<1>4. \A k \in 1..Len(P[p]) : k = 1 \/ (k - 1 \in 1..Len(Q[p]) /\ Q[p][k - 1] = P[p][k])
  BY <1>1 DEF Shifted
<1>5. \A k \in 1..Len(Q[q]) :
        \/ k \in 1..Len(P[q]) /\ Q[q][k] = P[q][k]
        \/ k = Len(P[q]) + 1 /\ Q[q][k] = x
  BY <1>1 DEF Appended
<1>6. \A k \in 1..Len(P[q]) : k \in 1..Len(Q[q]) /\ Q[q][k] = P[q][k]
  BY <1>1 DEF Appended
<1>7. Len(P[q]) + 1 \in 1..Len(Q[q]) /\ Q[q][Len(P[q]) + 1] = x
  BY <1>1 DEF Appended
<1> SUFFICES ASSUME NEW b \in 1..NumBuffers
             PROVE  \E r \in Spots : \E k \in 1..Len(Q[r]) :
                      /\ Q[r][k] = b
                      /\ \A s \in Spots : \A j \in 1..Len(Q[s]) :
                           Q[s][j] = b => s = r /\ j = k
  BY DEF Each
<1>8. PICK r \in Spots : \E k \in 1..Len(P[r]) :
        /\ P[r][k] = b
        /\ \A s \in Spots : \A j \in 1..Len(P[s]) : P[s][j] = b => s = r /\ j = k
  BY DEF Each
<1>9. PICK k \in 1..Len(P[r]) :
        /\ P[r][k] = b
        /\ \A s \in Spots : \A j \in 1..Len(P[s]) : P[s][j] = b => s = r /\ j = k
  BY <1>8
<1>10. CASE x = b
  <2>1. r = p /\ k = 1 BY <1>2, <1>9, <1>10
  <2>2. ASSUME NEW s \in Spots, NEW j \in 1..Len(Q[s]), Q[s][j] = b
        PROVE  s = q /\ j = Len(P[q]) + 1
    <3>1. CASE s = p
      <4>1. j + 1 \in 1..Len(P[p]) /\ P[p][j + 1] = b BY <1>3, <2>2, <3>1
      <4>2. QED BY <1>1, <1>9, <2>1, <2>2, <3>1, <4>1
    <3>2. CASE s = q BY <1>5, <1>9, <2>1, <2>2, <3>2
    <3>3. CASE s \notin {p, q} BY <1>9, <2>1, <2>2, <3>3
    <3>4. QED BY <3>1, <3>2, <3>3
  <2>3. QED BY <1>7, <1>10, <2>2
<1>11. CASE x # b
  <2> DEFINE n == IF r = p THEN k - 1 ELSE k
  <2>1. n \in 1..Len(Q[r]) /\ Q[r][n] = b
    <3>1. CASE r = p BY <1>4, <1>9, <1>11, <3>1
    <3>2. CASE r = q BY <1>6, <1>9, <3>2
    <3>3. CASE r \notin {p, q} BY <1>9, <3>3
    <3>4. QED BY <3>1, <3>2, <3>3
  <2>2. ASSUME NEW s \in Spots, NEW j \in 1..Len(Q[s]), Q[s][j] = b
        PROVE  s = r /\ j = n
    <3>1. CASE s = p
      <4>1. j + 1 \in 1..Len(P[p]) /\ P[p][j + 1] = b BY <1>3, <2>2, <3>1
      <4>2. QED BY <1>1, <1>9, <2>2, <3>1, <4>1
    <3>2. CASE s = q BY <1>5, <1>9, <1>11, <2>2, <3>2
    <3>3. CASE s \notin {p, q} BY <1>9, <2>2, <3>3
    <3>4. QED BY <3>1, <3>2, <3>3
  <2> HIDE DEF n
  <2>3. QED BY <2>1, <2>2
<1>12. QED BY <1>10, <1>11

(* Something else leaves.                                                  *)
LEMMA DropOther ==
  ASSUME NEW P, NEW Q, Lists(P), Lists(Q), NEW p \in Spots,
         Shifted(P[p], Q[p]), P[p][1] \notin 1..NumBuffers,
         \A r \in Spots \ {p} : Q[r] = P[r]
  PROVE  (Each(P) => Each(Q)) /\ (NoneIn(P) => NoneIn(Q))
<1>1. \A r \in Spots : Len(P[r]) \in Nat /\ Len(Q[r]) \in Nat
  BY DEF Lists
<1>2. \A k \in 1..Len(Q[p]) : k + 1 \in 1..Len(P[p]) /\ Q[p][k] = P[p][k + 1]
  BY <1>1 DEF Shifted
<1>3. \A k \in 1..Len(P[p]) : k = 1 \/ (k - 1 \in 1..Len(Q[p]) /\ Q[p][k - 1] = P[p][k])
  BY <1>1 DEF Shifted
<1>4. ASSUME Each(P), NEW b \in 1..NumBuffers
      PROVE  \E r \in Spots : \E k \in 1..Len(Q[r]) :
               /\ Q[r][k] = b
               /\ \A s \in Spots : \A j \in 1..Len(Q[s]) : Q[s][j] = b => s = r /\ j = k
  <2>1. PICK r \in Spots : \E k \in 1..Len(P[r]) :
          /\ P[r][k] = b
          /\ \A s \in Spots : \A j \in 1..Len(P[s]) : P[s][j] = b => s = r /\ j = k
    BY <1>4 DEF Each
  <2>2. PICK k \in 1..Len(P[r]) :
          /\ P[r][k] = b
          /\ \A s \in Spots : \A j \in 1..Len(P[s]) : P[s][j] = b => s = r /\ j = k
    BY <2>1
  <2> DEFINE n == IF r = p THEN k - 1 ELSE k
  <2>3. n \in 1..Len(Q[r]) /\ Q[r][n] = b
    <3>1. CASE r = p BY <1>3, <1>4, <2>2, <3>1
    <3>2. CASE r # p BY <2>2, <3>2
    <3>3. QED BY <3>1, <3>2
  <2>4. ASSUME NEW s \in Spots, NEW j \in 1..Len(Q[s]), Q[s][j] = b
        PROVE  s = r /\ j = n
    <3>1. CASE s = p
      <4>1. j + 1 \in 1..Len(P[p]) /\ P[p][j + 1] = b BY <1>2, <2>4, <3>1
      <4>2. QED BY <1>1, <2>2, <2>4, <3>1, <4>1
    <3>2. CASE s # p BY <2>2, <2>4, <3>2
    <3>3. QED BY <3>1, <3>2
  <2> HIDE DEF n
  <2>5. QED BY <2>3, <2>4
<1>5. ASSUME NoneIn(P) PROVE NoneIn(Q)
  <2> SUFFICES ASSUME NEW r \in Spots, NEW k \in 1..Len(Q[r])
               PROVE  Q[r][k] \notin 1..NumBuffers
    BY DEF NoneIn
  <2>1. CASE r = p BY <1>2, <1>5, <2>1 DEF NoneIn
  <2>2. CASE r # p BY <1>5, <2>2 DEF NoneIn
  <2>3. QED BY <2>1, <2>2
<1>6. QED BY <1>4, <1>5 DEF Each

(* Something else comes.                                                   *)
LEMMA AddOther ==
  ASSUME NEW P, NEW Q, Lists(P), Lists(Q), NEW p \in Spots,
         NEW x, x \notin 1..NumBuffers, Appended(P[p], Q[p], x),
         \A r \in Spots \ {p} : Q[r] = P[r]
  PROVE  (Each(P) => Each(Q)) /\ (NoneIn(P) => NoneIn(Q))
<1>1. \A r \in Spots : Len(P[r]) \in Nat /\ Len(Q[r]) \in Nat
  BY DEF Lists
<1>2. \A r \in Spots : \A k \in 1..Len(Q[r]) :
        \/ k \in 1..Len(P[r]) /\ Q[r][k] = P[r][k]
        \/ Q[r][k] = x
  BY <1>1 DEF Appended
<1>3. \A r \in Spots : \A k \in 1..Len(P[r]) : k \in 1..Len(Q[r]) /\ Q[r][k] = P[r][k]
  BY <1>1 DEF Appended
<1>4. ASSUME Each(P), NEW b \in 1..NumBuffers
      PROVE  \E r \in Spots : \E k \in 1..Len(Q[r]) :
               /\ Q[r][k] = b
               /\ \A s \in Spots : \A j \in 1..Len(Q[s]) : Q[s][j] = b => s = r /\ j = k
  <2>1. PICK r \in Spots : \E k \in 1..Len(P[r]) :
          /\ P[r][k] = b
          /\ \A s \in Spots : \A j \in 1..Len(P[s]) : P[s][j] = b => s = r /\ j = k
    BY <1>4 DEF Each
  <2>2. PICK k \in 1..Len(P[r]) :
          /\ P[r][k] = b
          /\ \A s \in Spots : \A j \in 1..Len(P[s]) : P[s][j] = b => s = r /\ j = k
    BY <2>1
  <2>3. k \in 1..Len(Q[r]) /\ Q[r][k] = b BY <1>3, <2>2
  <2>4. ASSUME NEW s \in Spots, NEW j \in 1..Len(Q[s]), Q[s][j] = b
        PROVE  s = r /\ j = k
    <3>1. x # b BY <1>4
    <3>2. j \in 1..Len(P[s]) /\ P[s][j] = b BY <1>2, <2>4, <3>1
    <3>3. QED BY <2>2, <3>2
  <2>5. QED BY <2>3, <2>4
<1>5. ASSUME NoneIn(P) PROVE NoneIn(Q)
  BY <1>2, <1>5 DEF NoneIn
<1>6. QED BY <1>4, <1>5 DEF Each

(* The three sequences of Places.                                          *)
OfferedIn(ms) == [k \in DOMAIN ms |-> IF ms[k].k = "avail" THEN ms[k].v ELSE 0]
FullIn(fs)    == [k \in DOMAIN fs |-> fs[k].i]
At(P, ms, av, fs) ==
  /\ P["offered"] = OfferedIn(ms) /\ P["available"] = av /\ P["full"] = FullIn(fs)
  /\ DOMAIN P = Spots

LEMMA OfferedList ==
  ASSUME NEW q \in Seq(Messages)
  PROVE  /\ OfferedIn(q) \in Seq(Int) /\ Len(OfferedIn(q)) = Len(q)
         /\ \A k \in 1..Len(q) :
              OfferedIn(q)[k] = IF q[k].k = "avail" THEN q[k].v ELSE 0
<1>1. \A k \in 1..Len(q) : (IF q[k].k = "avail" THEN q[k].v ELSE 0) \in Int
  <2> SUFFICES ASSUME NEW k \in 1..Len(q), q[k].k = "avail" PROVE q[k].v \in Int
    OBVIOUS
  <2>1. q[k] \in Messages OBVIOUS
  <2>2. QED BY <2>1, Kinds, Numbers
<1>2. DOMAIN q = 1..Len(q) /\ Len(q) \in Nat OBVIOUS
<1>3. OfferedIn(q) \in [1..Len(q) -> Int] BY <1>1, <1>2 DEF OfferedIn
<1>4. OfferedIn(q) \in Seq(Int) /\ Len(OfferedIn(q)) = Len(q)
  BY <1>2, <1>3
<1>5. QED BY <1>2, <1>4 DEF OfferedIn

LEMMA FullList ==
  ASSUME NEW q \in Seq(Entries)
  PROVE  /\ FullIn(q) \in Seq(Int) /\ Len(FullIn(q)) = Len(q)
         /\ \A k \in 1..Len(q) : FullIn(q)[k] = q[k].i
<1>1. \A k \in 1..Len(q) : q[k].i \in Int
  <2>1. \A e \in Entries : e.i \in Int BY Numbers DEF Entries, Disc
  <2>2. QED BY <2>1
<1>2. DOMAIN q = 1..Len(q) /\ Len(q) \in Nat OBVIOUS
<1>3. FullIn(q) \in [1..Len(q) -> Int] BY <1>1, <1>2 DEF FullIn
<1>4. FullIn(q) \in Seq(Int) /\ Len(FullIn(q)) = Len(q)
  BY <1>2, <1>3
<1>5. QED BY <1>2, <1>4 DEF FullIn

(* A message more or less is a buffer, or something else, more or less.    *)
LEMMA OfferPushed ==
  ASSUME NEW q \in Seq(Messages), NEW m \in Messages
  PROVE  Appended(OfferedIn(q), OfferedIn(Append(q, m)),
                  IF m.k = "avail" THEN m.v ELSE 0)
<1>1. PICK r : r = Append(q, m)
  OBVIOUS
<1>2. /\ r \in Seq(Messages) /\ Len(r) = Len(q) + 1 /\ Len(q) \in Nat
      /\ r[Len(q) + 1] = m /\ \A k \in 1..Len(q) : r[k] = q[k]
  BY <1>1, Pushed
<1>3. PICK s, t : s = OfferedIn(q) /\ t = OfferedIn(r)
  OBVIOUS
<1>4. Len(s) = Len(q) /\ Len(t) = Len(q) + 1
  BY <1>2, <1>3, OfferedList
<1>5. Len(q) + 1 \in 1..Len(r) /\ \A k \in 1..Len(q) : k \in 1..Len(r)
  BY <1>2
<1>6. t[Len(q) + 1] = IF m.k = "avail" THEN m.v ELSE 0
  BY <1>2, <1>3, <1>5, OfferedList
<1>7. \A k \in 1..Len(q) : t[k] = s[k]
  BY <1>2, <1>3, <1>5, OfferedList
<1>8. QED BY <1>1, <1>3, <1>4, <1>6, <1>7 DEF Appended

LEMMA OfferPopped ==
  ASSUME NEW q \in Seq(Messages), q # <<>>
  PROVE  /\ Shifted(OfferedIn(q), OfferedIn(Tail(q)))
         /\ OfferedIn(q)[1] = IF Head(q).k = "avail" THEN Head(q).v ELSE 0
<1>1. /\ Head(q) = q[1] /\ 1 \in 1..Len(q) /\ Tail(q) \in Seq(Messages)
      /\ Len(Tail(q)) = Len(q) - 1 /\ Len(q) \in Nat
      /\ \A k \in 1 .. Len(q) - 1 : Tail(q)[k] = q[k + 1]
  BY Popped
<1>2. PICK r, s, t : r = Tail(q) /\ s = OfferedIn(q) /\ t = OfferedIn(r)
  OBVIOUS
<1>3. Len(s) = Len(q) /\ Len(t) = Len(q) - 1
  BY <1>1, <1>2, OfferedList
<1>4. \A k \in 1 .. Len(q) - 1 : k \in 1..Len(r) /\ k + 1 \in 1..Len(q) /\ r[k] = q[k + 1]
  BY <1>1, <1>2
<1>5. \A k \in 1 .. Len(q) - 1 : t[k] = s[k + 1]
  BY <1>1, <1>2, <1>4, OfferedList
<1>6. Len(q) # 0 BY <1>1
<1>7. Shifted(s, t)
  BY <1>3, <1>5, <1>6 DEF Shifted
<1>8. QED BY <1>1, <1>2, <1>7, OfferedList

LEMMA FullPushed ==
  ASSUME NEW q \in Seq(Entries), NEW e \in Entries
  PROVE  Appended(FullIn(q), FullIn(Append(q, e)), e.i)
<1>1. PICK r : r = Append(q, e)
  OBVIOUS
<1>2. /\ r \in Seq(Entries) /\ Len(r) = Len(q) + 1 /\ Len(q) \in Nat
      /\ r[Len(q) + 1] = e /\ \A k \in 1..Len(q) : r[k] = q[k]
  BY <1>1, Pushed
<1>3. PICK s, t : s = FullIn(q) /\ t = FullIn(r)
  OBVIOUS
<1>4. Len(s) = Len(q) /\ Len(t) = Len(q) + 1
  BY <1>2, <1>3, FullList
<1>5. Len(q) + 1 \in 1..Len(r) /\ \A k \in 1..Len(q) : k \in 1..Len(r)
  BY <1>2
<1>6. t[Len(q) + 1] = e.i
  BY <1>2, <1>3, <1>5, FullList
<1>7. \A k \in 1..Len(q) : t[k] = s[k]
  BY <1>2, <1>3, <1>5, FullList
<1>8. QED BY <1>1, <1>3, <1>4, <1>6, <1>7 DEF Appended

LEMMA FullPopped ==
  ASSUME NEW q \in Seq(Entries), q # <<>>
  PROVE  Shifted(FullIn(q), FullIn(Tail(q))) /\ FullIn(q)[1] = Head(q).i
<1>1. /\ Head(q) = q[1] /\ 1 \in 1..Len(q) /\ Tail(q) \in Seq(Entries)
      /\ Len(Tail(q)) = Len(q) - 1 /\ Len(q) \in Nat
      /\ \A k \in 1 .. Len(q) - 1 : Tail(q)[k] = q[k + 1]
  BY Popped
<1>2. PICK r, s, t : r = Tail(q) /\ s = FullIn(q) /\ t = FullIn(r)
  OBVIOUS
<1>3. Len(s) = Len(q) /\ Len(t) = Len(q) - 1
  BY <1>1, <1>2, FullList
<1>4. \A k \in 1 .. Len(q) - 1 : k \in 1..Len(r) /\ k + 1 \in 1..Len(q) /\ r[k] = q[k + 1]
  BY <1>1, <1>2
<1>5. \A k \in 1 .. Len(q) - 1 : t[k] = s[k + 1]
  BY <1>1, <1>2, <1>4, FullList
<1>6. Len(q) # 0 BY <1>1
<1>7. Shifted(s, t)
  BY <1>3, <1>5, <1>6 DEF Shifted
<1>8. QED BY <1>1, <1>2, <1>7, FullList

(* Such a record, and that it consists of sequences.                       *)
LEMMA Spot ==
  ASSUME NEW ms \in Seq(Messages), NEW av \in Seq(1..NumBuffers), NEW fs \in Seq(Entries)
  PROVE  /\ \E P : At(P, ms, av, fs)
         /\ \A P : At(P, ms, av, fs) => Lists(P)
<1>1. At([offered |-> OfferedIn(ms), available |-> av, full |-> FullIn(fs)], ms, av, fs)
  BY DEF At, Spots
<1>2. ASSUME NEW P, At(P, ms, av, fs) PROVE Lists(P)
  <2>1. OfferedIn(ms) \in Seq(Int) BY OfferedList
  <2>2. FullIn(fs) \in Seq(Int) BY FullList
  <2>3. av \in Seq(Int) BY Numbers
  <2>4. QED BY <1>2, <2>1, <2>2, <2>3 DEF At, Lists, Spots
<1>3. QED BY <1>1, <1>2

LEMMA BufferInvariant == Spec => []BufferInv
<1>1. Init => BufferInv
  <2> SUFFICES ASSUME Init PROVE NoneIn(Places)
    BY DEF Init, BufferInv, BuffersIn
  <2>1. msgs = <<>> /\ avail = <<>> /\ filled = <<>>
    BY DEF Init
  <2>2. Places["offered"] = <<>> /\ Places["available"] = <<>> /\ Places["full"] = <<>>
    BY <2>1 DEF Places
  <2>3. QED BY <2>2 DEF NoneIn, Spots
<1>2. TypeOK /\ TypeOK' /\ BufferInv /\ [Next]_vars => BufferInv'
  <2> SUFFICES ASSUME TypeOK, TypeOK', BufferInv, [Next]_vars PROVE BufferInv'
    OBVIOUS
  <2> USE DEF wire, queue, sink, netOnly
  <2>1. PICK P, Q : P = Places /\ Q = Places'
    OBVIOUS
  <2>2. At(P, msgs, avail, filled) /\ At(Q, msgs', avail', filled')
    BY <2>1 DEF At, Places, OfferedIn, FullIn, Spots
  <2>3. Lists(P) /\ Lists(Q)
    <3>1. /\ msgs \in Seq(Messages) /\ avail \in Seq(1..NumBuffers) /\ filled \in Seq(Entries)
          /\ msgs' \in Seq(Messages) /\ avail' \in Seq(1..NumBuffers)
          /\ filled' \in Seq(Entries)
      BY DEF TypeOK
    <3>2. QED BY <2>2, <3>1, Spot
  <2>4. (player = "open" => Each(P)) /\ (player # "open" => NoneIn(P))
    BY <2>1 DEF BufferInv, BuffersIn
  <2>5. ASSUME player' = "open" => Each(Q), player' # "open" => NoneIn(Q)
        PROVE  BufferInv'
    BY <2>1, <2>5 DEF BufferInv, BuffersIn
  <2>6. ASSUME (Each(P) => Each(Q)) /\ (NoneIn(P) => NoneIn(Q)),
               player' = "open" <=> player = "open"
        PROVE  BufferInv'
    BY <2>4, <2>5, <2>6
  <2>7. msgs \in Seq(Messages) /\ filled \in Seq(Entries) /\ avail \in Seq(1..NumBuffers)
    BY DEF TypeOK
  <2>8. 0 \notin 1..NumBuffers /\ Disc \notin 1..NumBuffers
    BY Numbers DEF Disc
  \* A message that offers no buffer is posted, or handled.
  <2>9. ASSUME NEW m \in Messages, m.k # "avail", msgs' = Append(msgs, m),
               UNCHANGED <<avail, filled, player>>
        PROVE  BufferInv'
    <3>1. Appended(P["offered"], Q["offered"], 0)
      BY <2>2, <2>7, <2>9, OfferPushed DEF At
    <3>2. \A r \in Spots \ {"offered"} : Q[r] = P[r]
      BY <2>2, <2>9 DEF At, Spots
    <3>3. "offered" \in Spots BY DEF Spots
    <3>4. (Each(P) => Each(Q)) /\ (NoneIn(P) => NoneIn(Q))
      BY <2>3, <2>8, <3>1, <3>2, <3>3, AddOther
    <3>5. QED BY <2>6, <2>9, <3>4
  <2>10. ASSUME msgs # <<>>, Head(msgs).k # "avail", msgs' = Tail(msgs),
                UNCHANGED <<avail, filled>>, player' = "open" <=> player = "open"
         PROVE  BufferInv'
    <3>1. Shifted(P["offered"], Q["offered"]) /\ P["offered"][1] \notin 1..NumBuffers
      BY <2>2, <2>7, <2>8, <2>10, OfferPopped DEF At
    <3>2. \A r \in Spots \ {"offered"} : Q[r] = P[r]
      BY <2>2, <2>10 DEF At, Spots
    <3>3. "offered" \in Spots BY DEF Spots
    <3>4. (Each(P) => Each(Q)) /\ (NoneIn(P) => NoneIn(Q))
      BY <2>3, <3>1, <3>2, <3>3, DropOther
    <3>5. QED BY <2>6, <2>10, <3>4
  <2>11. ASSUME UNCHANGED <<msgs, avail, filled, player>> PROVE BufferInv'
    <3>1. Places' = Places BY <2>11 DEF Places
    <3>2. QED BY <2>1, <2>6, <2>11, <3>1
  <2>12. ASSUME NEW n \in net, parseRTP(n) PROVE BufferInv'
    <3>1. UNCHANGED <<avail, filled, player>> BY <2>12 DEF parseRTP
    <3>2. \/ msgs' = msgs
          \/ \E v \in Nat : n \in 1..MaxSend /\
               msgs' = Append(msgs, [k |-> "packet", v |-> v, n |-> n])
      <4>1. /\ n \in 1..MaxSend /\ SeqNo(n) \in 0 .. RtpSeqMod - 1
            /\ \/ msgs' = Append(msgs, [k |-> "packet", v |-> SeqNo(n), n |-> n])
               \/ /\ updateSeq(SeqNo(n)).ext \in Nat
                  /\ msgs' = Append(msgs, [k |-> "packet", v |-> updateSeq(SeqNo(n)).ext,
                                           n |-> n])
               \/ msgs' = msgs
        BY <2>12, Parsed, Zenon
      <4>2. SeqNo(n) \in Nat BY <4>1, Numbers
      <4>3. QED BY <4>1, <4>2, Zenon
    <3>3. CASE msgs' = msgs BY <2>11, <3>1, <3>3
    <3>4. ASSUME NEW v \in Nat, n \in 1..MaxSend,
                 msgs' = Append(msgs, [k |-> "packet", v |-> v, n |-> n])
          PROVE  BufferInv'
      <4>1. [k |-> "packet", v |-> v, n |-> n] \in Messages BY <3>4, Letters
      <4>2. [k |-> "packet", v |-> v, n |-> n].k # "avail" OBVIOUS
      <4>3. QED BY <2>9, <3>1, <3>4, <4>1, <4>2
    <3>5. QED BY <3>2, <3>3, <3>4
  <2>13. CASE OnQueueBuffer
    <3>1. /\ msgs # <<>> /\ Head(msgs).k # "avail" /\ msgs' = Tail(msgs)
          /\ UNCHANGED <<avail, filled>> /\ (player' = "open" <=> player = "open")
      BY <2>13 DEF OnQueueBuffer, Handle
    <3>2. QED BY <2>10, <3>1
  <2>14. CASE OnPoke \/ onPacketLost
    <3>1. /\ msgs # <<>> /\ Head(msgs).k # "avail" /\ msgs' = Tail(msgs)
          /\ UNCHANGED <<avail, filled, player>>
      BY <2>14 DEF OnPoke, onPacketLost, Handle
    <3>2. QED BY <2>10, <3>1
  <2>15. CASE OnBufferAvailable
    <3>1. /\ msgs # <<>> /\ Head(msgs).k = "avail" /\ msgs' = Tail(msgs)
          /\ avail' = Append(avail, Head(msgs).v) /\ UNCHANGED <<filled, player>>
      BY <2>15 DEF OnBufferAvailable, Handle
    <3>2. Head(msgs).v \in 1..NumBuffers
      BY <2>7, <3>1, Popped, Kinds
    <3>3. Shifted(P["offered"], Q["offered"]) /\ P["offered"][1] = Head(msgs).v
      BY <2>2, <2>7, <3>1, OfferPopped DEF At
    <3>4. player = "open"
      <4>1. 1 \in 1..Len(P["offered"]) /\ "offered" \in Spots
        BY <2>3, <3>3 DEF Shifted, Lists, Spots
      <4>2. ~NoneIn(P) BY <3>2, <3>3, <4>1 DEF NoneIn
      <4>3. QED BY <2>4, <4>2
    <3>5. Appended(P["available"], Q["available"], P["offered"][1])
      <4>1. Appended(avail, Append(avail, Head(msgs).v), Head(msgs).v)
        BY <2>7, <3>2, Pushed DEF Appended
      <4>2. QED BY <2>2, <3>1, <3>3, <4>1 DEF At
    <3>6. /\ "offered" \in Spots /\ "available" \in Spots /\ "offered" # "available"
          /\ \A r \in Spots \ {"offered", "available"} : Q[r] = P[r]
      BY <2>2, <3>1 DEF At, Spots
    <3>7. Each(P) BY <2>4, <3>4
    <3>8. Each(Q) BY <2>3, <3>3, <3>5, <3>6, <3>7, MoveBuffer
    <3>9. QED BY <2>5, <3>1, <3>4, <3>8
  <2>16. CASE InOrderPacket \/ GapSkip
    <3>1. packets # {} /\ avail # <<>> /\ Return
      BY <2>16 DEF InOrderPacket, GapSkip, Due, Gap
    <3>2. UNCHANGED <<msgs, player>> BY <3>1 DEF Return
    <3>3. /\ Head(avail) \in 1..NumBuffers /\ avail' = Tail(avail) /\ Oldest[2] \in 1..MaxSend
          /\ \E f \in Seq(Entries) :
               /\ f = IF fixed THEN filled ELSE Append(filled, [i |-> Disc, n |-> 0])
               /\ filled' = Append(f, [i |-> Head(avail), n |-> Oldest[2]])
      BY <3>1, Returns
    <3>4. PICK f \in Seq(Entries) :
            /\ f = IF fixed THEN filled ELSE Append(filled, [i |-> Disc, n |-> 0])
            /\ filled' = Append(f, [i |-> Head(avail), n |-> Oldest[2]])
      BY <3>3
    <3>5. PICK R : At(R, msgs, avail, f) /\ (fixed => R = P)
      BY <2>2, <2>7, <3>4, Spot
    <3>6. Lists(R) BY <2>7, <3>5, Spot
    <3>7. (Each(P) => Each(R)) /\ (NoneIn(P) => NoneIn(R))
      <4>1. CASE fixed BY <3>5, <4>1
      <4>2. CASE ~fixed
        <5>1. [i |-> Disc, n |-> 0] \in Entries BY DEF Entries
        <5>2. Appended(P["full"], R["full"], Disc)
          BY <2>2, <2>7, <3>4, <3>5, <4>2, <5>1, FullPushed DEF At
        <5>3. "full" \in Spots /\ \A r \in Spots \ {"full"} : R[r] = P[r]
          BY <2>2, <3>5 DEF At, Spots
        <5>4. QED BY <2>3, <2>8, <3>6, <5>2, <5>3, AddOther
      <4>3. QED BY <4>1, <4>2
    <3>8. Shifted(R["available"], Q["available"]) /\ R["available"][1] = Head(avail)
      <4>1. Shifted(avail, Tail(avail)) /\ avail[1] = Head(avail)
        BY <2>7, <3>1, Popped DEF Shifted
      <4>2. QED BY <2>2, <3>3, <3>5, <4>1 DEF At
    <3>9. Appended(R["full"], Q["full"], R["available"][1])
      <4>1. PICK e : e = [i |-> Head(avail), n |-> Oldest[2]] OBVIOUS
      <4>2. e \in Entries /\ e.i = Head(avail) BY <3>3, <4>1 DEF Entries
      <4>3. Appended(FullIn(f), FullIn(filled'), Head(avail))
        BY <3>4, <4>1, <4>2, FullPushed
      <4>4. QED BY <2>2, <3>5, <3>8, <4>3 DEF At
    <3>10. /\ "full" \in Spots /\ "available" \in Spots /\ "full" # "available"
           /\ \A r \in Spots \ {"available", "full"} : Q[r] = R[r]
      BY <2>2, <3>2, <3>5 DEF At, Spots
    <3>11. player = "open"
      <4>1. 1 \in 1..Len(R["available"])
        BY <3>6, <3>8, <3>10 DEF Shifted, Lists
      <4>2. ~NoneIn(R) BY <3>3, <3>8, <3>10, <4>1 DEF NoneIn
      <4>3. QED BY <2>4, <3>7, <4>2
    <3>12. Each(R) BY <2>4, <3>7, <3>11
    <3>13. Each(Q) BY <2>3, <3>6, <3>8, <3>9, <3>10, <3>12, MoveBuffer
    <3>14. QED BY <2>5, <3>2, <3>11, <3>13
  <2>17. CASE GapWait
    <3>1. LostSeqNo \in 0 .. RtpSeqMod - 1
      BY Numbers DEF LostSeqNo, TypeOK
    <3>2. [k |-> "lost", v |-> LostSeqNo, n |-> 0] \in Messages
      BY <3>1, Letters
    <3>3. UNCHANGED <<avail, filled, player>>
      BY <2>17 DEF GapWait
    <3>4. CASE asked
      <4>1. msgs' = msgs BY <2>17, <3>4 DEF GapWait
      <4>2. QED BY <2>11, <3>3, <4>1
    <3>5. CASE ~asked
      <4>1. msgs' = Append(msgs, [k |-> "lost", v |-> LostSeqNo, n |-> 0])
        BY <2>17, <3>5 DEF GapWait, Post
      <4>2. [k |-> "lost", v |-> LostSeqNo, n |-> 0].k # "avail" OBVIOUS
      <4>3. QED BY <2>9, <3>2, <3>3, <4>1, <4>2
    <3>6. QED BY <3>4, <3>5
  <2>18. CASE Source_open
    <3>1. /\ Len(msgs') = Len(msgs) + NumBuffers /\ msgs' \in Seq(Messages)
          /\ \A k \in 1..Len(msgs) : msgs'[k] = msgs[k]
          /\ \A i \in 1..NumBuffers :
               msgs'[Len(msgs) + i] = [k |-> "avail", v |-> i, n |-> 0]
      BY <2>18, Opened
    <3>2. player # "open" /\ player' = "open" /\ UNCHANGED <<avail, filled>>
      BY <2>18 DEF Source_open
    <3>3. NoneIn(P) BY <2>4, <3>2
    <3>4. PICK N, o, s, t : N = Len(msgs) /\ o = "offered" /\ s = P[o] /\ t = Q[o]
      OBVIOUS
    <3>5. /\ N \in Nat /\ Len(s) = N /\ Len(t) = N + NumBuffers
          /\ o \in Spots /\ \A r \in Spots \ {o} : Q[r] = P[r]
      BY <2>2, <2>7, <3>1, <3>2, <3>4, OfferedList, Numbers DEF At, Spots
    <3>6. \A k \in 1..N : t[k] = s[k]
      <4>1. \A k \in 1..N : k \in 1..Len(msgs') BY <3>1, <3>4, <3>5, Numbers
      <4>2. QED BY <2>2, <2>7, <3>1, <3>4, <4>1, OfferedList DEF At
    <3>7. \A i \in 1..NumBuffers : t[N + i] = i
      <4> SUFFICES ASSUME NEW i \in 1..NumBuffers PROVE t[N + i] = i
        OBVIOUS
      <4>1. N + i \in 1..Len(msgs') BY <3>1, <3>4, <3>5, Numbers
      <4>2. t[N + i] = IF msgs'[N + i].k = "avail" THEN msgs'[N + i].v ELSE 0
        BY <2>2, <3>1, <3>4, <4>1, OfferedList DEF At
      <4>3. msgs'[N + i] = [k |-> "avail", v |-> i, n |-> 0] BY <3>1, <3>4
      <4>4. QED BY <4>2, <4>3
    <3>8. ASSUME NEW b \in 1..NumBuffers
          PROVE  \E r \in Spots : \E k \in 1..Len(Q[r]) :
                   /\ Q[r][k] = b
                   /\ \A z \in Spots : \A j \in 1..Len(Q[z]) : Q[z][j] = b => z = r /\ j = k
      <4>1. N + b \in 1..Len(t) /\ t[N + b] = b
        BY <3>5, <3>7, Numbers
      <4>2. ASSUME NEW z \in Spots, NEW j \in 1..Len(Q[z]), Q[z][j] = b
            PROVE  z = o /\ j = N + b
        <5>1. z = o BY <3>3, <3>5, <4>2 DEF NoneIn
        <5>2. j \in 1 .. N + NumBuffers /\ t[j] = b BY <3>4, <3>5, <4>2, <5>1
        <5>3. j \notin 1..N BY <3>3, <3>4, <3>5, <3>6, <5>2 DEF NoneIn
        <5>4. j - N \in 1..NumBuffers /\ j = N + (j - N) BY <3>5, <5>2, <5>3, Numbers
        <5>5. t[j] = j - N BY <3>7, <5>4
        <5>6. QED BY <3>5, <5>1, <5>2, <5>4, <5>5
      <4>3. QED BY <3>4, <3>5, <4>1, <4>2
    <3>9. Each(Q) BY <3>8 DEF Each
    <3>10. QED BY <2>5, <3>2, <3>9
  <2>19. CASE ReadBuffer
    <3>1. /\ player = "open" /\ filled # <<>> /\ Head(filled).i # Disc
          /\ filled' = Tail(filled) /\ UNCHANGED <<avail, player>>
          /\ msgs' = Append(msgs, [k |-> "avail", v |-> Head(filled).i, n |-> 0])
      BY <2>19 DEF ReadBuffer, Post
    <3>2. Head(filled).i \in 1..NumBuffers
      <4>1. Head(filled) \in Entries BY <2>7, <3>1, Popped
      <4>2. QED BY <3>1, <4>1 DEF Entries
    <3>3. Shifted(P["full"], Q["full"]) /\ P["full"][1] = Head(filled).i
      BY <2>2, <2>7, <3>1, FullPopped DEF At
    <3>4. Appended(P["offered"], Q["offered"], P["full"][1])
      <4>1. PICK m : m = [k |-> "avail", v |-> Head(filled).i, n |-> 0] OBVIOUS
      <4>2. m \in Messages /\ m.k = "avail" /\ m.v = Head(filled).i
        BY <3>2, <4>1, Letters
      <4>3. Appended(OfferedIn(msgs), OfferedIn(msgs'), Head(filled).i)
        BY <2>7, <3>1, <4>1, <4>2, OfferPushed
      <4>4. QED BY <2>2, <3>3, <4>3 DEF At
    <3>5. /\ "full" \in Spots /\ "offered" \in Spots /\ "full" # "offered"
          /\ \A r \in Spots \ {"full", "offered"} : Q[r] = P[r]
      BY <2>2, <3>1 DEF At, Spots
    <3>6. Each(P) BY <2>4, <3>1
    <3>7. Each(Q) BY <2>3, <3>3, <3>4, <3>5, <3>6, MoveBuffer
    <3>8. QED BY <2>5, <3>1, <3>7
  <2>20. CASE ReadDiscontinuity
    <3>1. /\ filled # <<>> /\ Head(filled).i = Disc /\ filled' = Tail(filled)
          /\ UNCHANGED <<msgs, avail, player>>
      BY <2>20 DEF ReadDiscontinuity
    <3>2. Shifted(P["full"], Q["full"]) /\ P["full"][1] \notin 1..NumBuffers
      BY <2>2, <2>7, <2>8, <3>1, FullPopped DEF At
    <3>3. "full" \in Spots /\ \A r \in Spots \ {"full"} : Q[r] = P[r]
      BY <2>2, <3>1 DEF At, Spots
    <3>4. (Each(P) => Each(Q)) /\ (NoneIn(P) => NoneIn(Q))
      BY <2>3, <3>2, <3>3, DropOther
    <3>5. QED BY <2>6, <3>1, <3>4
  <2>21. CASE ReadEmpty
    <3>1. [k |-> "poke", v |-> 0, n |-> 0] \in Messages
      BY Letters
    <3>2. [k |-> "poke", v |-> 0, n |-> 0].k # "avail" OBVIOUS
    <3>3. /\ msgs' = Append(msgs, [k |-> "poke", v |-> 0, n |-> 0])
          /\ UNCHANGED <<avail, filled, player>>
      BY <2>21 DEF ReadEmpty, Post
    <3>4. QED BY <2>9, <3>1, <3>2, <3>3
  <2>22. CASE Send \/ WorkDone \/ DropTaken \/ Empty \/ GapSeen \/ FiftyMs
    BY <2>11, <2>22 DEF Send, WorkDone, DropTaken, Empty, GapSeen, FiftyMs
  <2>23. ASSUME NEW n \in net, Lose(n) PROVE BufferInv'
    BY <2>11, <2>23 DEF Lose
  <2>24. ASSUME NEW s \in nacks, Retransmit(s) \/ LoseNack(s) PROVE BufferInv'
    BY <2>11, <2>24 DEF Retransmit, LoseNack
  <2>25. CASE UNCHANGED vars
    BY <2>11, <2>25 DEF vars
  <2>26. QED
    BY <2>12, <2>13, <2>14, <2>15, <2>16, <2>17, <2>18, <2>19, <2>20, <2>21, <2>22,
       <2>23, <2>24, <2>25
    DEF Next, Network, Looper, doSomeWork, Player
<1>3. QED BY <1>1, <1>2, TypeCorrect, PTL DEF Spec

(* Once the player has opened its source, every buffer of the listener is  *)
(* in one place, offered in a message, available or filled: whatever the   *)
(* network does, and however many buffers there are.  No index is lost and *)
(* none is handed out twice between the looper and the player thread.      *)
THEOREM BuffersKept == Spec => []BufferOneOwner
<1>1. TypeOK /\ BufferInv => BufferOneOwner
  <2> SUFFICES ASSUME TypeOK, BufferInv, player = "open" PROVE
        \A b \in 1..NumBuffers :
          \E p \in DOMAIN Places : \E k \in DOMAIN Places[p] :
            /\ Places[p][k] = b
            /\ \A q \in DOMAIN Places : \A j \in DOMAIN Places[q] :
                 Places[q][j] = b => q = p /\ j = k
    BY DEF BufferOneOwner
  <2>1. PICK P : P = Places
    OBVIOUS
  <2>2. At(P, msgs, avail, filled)
    BY <2>1 DEF At, Places, OfferedIn, FullIn, Spots
  <2>3. Each(P) BY <2>1 DEF BufferInv, BuffersIn
  <2>4. Lists(P) /\ DOMAIN P = Spots
    BY <2>2, Spot DEF TypeOK, At
  <2>5. \A p \in Spots : DOMAIN P[p] = 1..Len(P[p])
    BY <2>4 DEF Lists
  <2>6. QED BY <2>1, <2>3, <2>4, <2>5 DEF Each
<1>2. QED BY <1>1, TypeCorrect, BufferInvariant, PTL
=============================================================================
