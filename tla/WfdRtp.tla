------------------------------- MODULE WfdRtp -------------------------------
(***************************************************************************)
(* The media path of the Wi-Fi display sink (wifidisplay/src): RTP packets *)
(* get an extended sequence number (RTPSink.cpp), are put in order again,  *)
(* asked for once and given up after 50 ms (TunnelRenderer.cpp), and are   *)
(* copied to the buffers that the player thread reads                      *)
(* (WifiPlayerStreamSource.cpp, WifiPlayerStreamSourceListener.cpp).       *)
(*                                                                         *)
(* Everything but the player thread runs on one looper, whose messages are *)
(* handled in the order of their posting.  The sender and the network,     *)
(* which loses, duplicates, delays and reorders packets, are external.     *)
(***************************************************************************)
EXTENDS Integers, Sequences, FiniteSets

CONSTANTS
  RtpSeqMod,     \* kRTPSeqMod, 2^16 in the code
  MaxDropout, \* kMaxDropout, 3000
  MaxMisorder,\* kMaxMisorder, 100
  NumBuffers, \* kNumBuffers, 8
  Bases,      \* sequence numbers before the first packet
  MaxSend,    \* bound: packets of the sender
  MaxFlight,  \* bound: packets on their way at a time
  Allowed     \* which of RtpBehaviours happen

(***************************************************************************)
(*   loss         packets and requests are lost                            *)
(*   late_wrap    a packet arrives after the sequence numbers wrapped,     *)
(*                although it was sent before, as a retransmission does,   *)
(*                or most of a cycle late                                  *)
(*   early_wrap   the sequence numbers wrap during the probation           *)
(*   outage       a gap of MaxDropout or more after a wrap, or one of most *)
(*                of a cycle                                               *)
(***************************************************************************)
RtpBehaviours == {"loss", "late_wrap", "early_wrap", "outage"}

kMinSequential == 2
NoSource == <<>>
Disc     == -1      \* IStreamListener::DISCONTINUITY in the player's queue

ASSUME RtpAssumption ==
  /\ {RtpSeqMod, MaxDropout, MaxMisorder, NumBuffers} \subseteq Nat \ {0}
  /\ MaxDropout + MaxMisorder <= RtpSeqMod
  /\ Bases \subseteq 0 .. RtpSeqMod - 1 /\ MaxSend \in Nat /\ MaxFlight \in Nat
  /\ Allowed \subseteq RtpBehaviours

VARIABLES
  base,    \* sequence number before the first packet
  sent,    \* packets sent so far; packet n has sequence number base + n
  net,     \* packets on their way
  nacks,   \* retransmission requests on their way, as sequence numbers
  src,     \* RTPSink::Source, or NoSource
  msgs,    \* messages of the looper
  packets, \* mPackets: pairs of extended sequence number and packet
  last,    \* mLastDequeuedExtSeqNo
  failed,  \* mFirstFailedAttemptUs: "never", "recent" or 50 ms "ago"
  asked,   \* mRequestedRetransmission
  working, \* the looper is in the loop of doSomeWork
  player,  \* "none", "init" after initPlayer, "open" after Source_open
  avail,   \* mIndicesAvailable
  filled,  \* the listener's mQueue: indexes with their packet, or Disc
  fixed,   \* mNumDeqeued > 0: the discontinuity was issued
  read     \* the newest packet that the player has read

vars == <<base, sent, net, nacks, src, msgs, packets, last, failed, asked,
          working, player, avail, filled, fixed, read>>
wire  == <<base, sent, net, nacks>>
queue == <<packets, last, failed, asked>>
sink  == <<player, avail, filled, fixed, read>>

May(b)   == b \in Allowed
SeqNo(n) == (base + n) % RtpSeqMod
Post(m)  == msgs' = Append(msgs, m)

Init ==
  /\ base \in Bases /\ sent = 0 /\ net = {} /\ nacks = {}
  /\ src = NoSource /\ msgs = <<>>
  /\ packets = {} /\ last = -1 /\ failed = "never" /\ asked = FALSE
  /\ working = FALSE /\ player = "none" /\ avail = <<>> /\ filled = <<>>
  /\ fixed = FALSE /\ read = 0

-----------------------------------------------------------------------------
(* The sender and the network (external).                                  *)

netOnly == <<base, src, msgs, queue, working, sink>>

Send ==
  /\ sent < MaxSend /\ Cardinality(net) < MaxFlight
  /\ sent' = sent + 1 /\ net' = net \cup {sent + 1}
  /\ UNCHANGED <<nacks, netOnly>>

Lose(n) ==
  /\ May("loss") /\ n \in net
  /\ net' = net \ {n} /\ UNCHANGED <<sent, nacks, netOnly>>

(* A request brings the newest packet with that number back.               *)
Retransmit(s) ==
  /\ s \in nacks /\ nacks' = nacks \ {s}
  /\ net' = net \cup {n \in 1..sent : SeqNo(n) = s /\
                        \A k \in n + 1 .. sent : SeqNo(k) # s}
  /\ UNCHANGED <<sent, netOnly>>

LoseNack(s) ==
  /\ May("loss") /\ s \in nacks /\ nacks' = nacks \ {s}
  /\ UNCHANGED <<sent, net, netOnly>>

-----------------------------------------------------------------------------
(* RTPSink::Source.                                                        *)

initSeq(seq) == [max |-> seq, cycles |-> 0, bad |-> RtpSeqMod + 1, prob |-> 0]

(* Source::Source: the first packet starts the probation.                  *)
NewSource(seq) ==
  [initSeq(seq) EXCEPT !.max = (seq - 1) % RtpSeqMod, !.prob = kMinSequential]

(* Faulty variant: the wrap of the sequence numbers is not counted.        *)
AdvanceUncounted(seq) == [src EXCEPT !.max = seq]

(* In order, with permissible gap.                                         *)
Advance(seq) ==
  [src EXCEPT !.max = seq,
              !.cycles = IF seq < src.max THEN @ + RtpSeqMod ELSE @]

(* updateSeq: the new state, and whether the packet is queued.  In         *)
(* probation the comparison is made in int, so that 0 never follows        *)
(* RtpSeqMod - 1.                                                          *)
updateSeq(seq) ==
  LET udelta == (seq - src.max) % RtpSeqMod
  IN IF src.prob > 0
     THEN IF seq = src.max + 1
          THEN [s |-> IF src.prob = 1 THEN initSeq(seq)
                      ELSE [src EXCEPT !.max = seq, !.prob = @ - 1],
                ext |-> src.cycles + seq, queue |-> TRUE]
          ELSE [s |-> [src EXCEPT !.max = seq, !.prob = kMinSequential - 1],
                ext |-> src.cycles + seq, queue |-> TRUE]
     ELSE IF udelta < MaxDropout
     THEN [s |-> Advance(seq), ext |-> Advance(seq).cycles + seq, queue |-> TRUE]
     ELSE IF udelta > RtpSeqMod - MaxMisorder
     THEN [s |-> src, ext |-> src.cycles + seq, queue |-> TRUE]
     ELSE IF seq = src.bad
     THEN [s |-> initSeq(seq), ext |-> seq, queue |-> TRUE]
     ELSE [s |-> [src EXCEPT !.bad = (seq + 1) % RtpSeqMod], ext |-> 0,
           queue |-> FALSE]

(* How often the sequence numbers have wrapped since the first packet.     *)
Cycle(n) == (base + n) \div RtpSeqMod - (base + 1) \div RtpSeqMod

(* Packet n is to get the extended number n + Offset; Newest is the packet *)
(* that src has counted up to.                                             *)
Offset  == base - RtpSeqMod * ((base + 1) \div RtpSeqMod)
Newest  == src.cycles + src.max - Offset
Counts  == src # NoSource /\ src.prob = 0

(* Deliveries that the extended numbers do not survive: of a packet sent   *)
(* before the wrap that src has counted last, or so late that it looks     *)
(* new; of one sent after a wrap when src is still in probation; and of    *)
(* one with which src starts again and counts no wraps, or so far ahead    *)
(* that it looks old.                                                      *)
OverWrap(n)  == \/ src # NoSource /\ Cycle(n) < src.cycles \div RtpSeqMod
                \/ Counts /\ Newest - n > RtpSeqMod - MaxDropout
EarlyWrap(n) == (src = NoSource \/ src.prob > 0) /\ Cycle(n) > 0
Forgets(n)   == \/ /\ src # NoSource /\ Cycle(n) > 0
                   /\ updateSeq(SeqNo(n)).s = initSeq(SeqNo(n))
                \/ Counts /\ n - Newest > RtpSeqMod - MaxMisorder

(* parseRTP of a datagram of the looper's network session.                 *)
parseRTP(n) ==
  /\ n \in net
  /\ May("late_wrap") \/ ~OverWrap(n)
  /\ May("early_wrap") \/ ~EarlyWrap(n)
  /\ May("outage") \/ ~Forgets(n)
  /\ net' = net \ {n}
  /\ IF src = NoSource
     THEN /\ src' = NewSource(SeqNo(n))
          /\ Post([k |-> "packet", v |-> SeqNo(n), n |-> n])
     ELSE LET u == updateSeq(SeqNo(n))
          IN /\ src' = u.s
             /\ IF u.queue THEN Post([k |-> "packet", v |-> u.ext, n |-> n])
                ELSE UNCHANGED msgs
  /\ UNCHANGED <<base, sent, nacks, queue, working, sink>>

-----------------------------------------------------------------------------
(* TunnelRenderer: messages of the looper.                                 *)

Handle(k) == msgs # <<>> /\ ~working /\ Head(msgs).k = k /\ msgs' = Tail(msgs)

(* Insertion by extended sequence number; a duplicate is dropped.          *)
queueBuffer(ext, n) ==
  IF \E p \in packets : p[1] = ext THEN packets ELSE packets \cup {<<ext, n>>}

(* kWhatQueueBuffer: the first packet makes the player, later ones wake    *)
(* the stream source.                                                      *)
OnQueueBuffer ==
  /\ Handle("packet")
  /\ packets' = queueBuffer(Head(msgs).v, Head(msgs).n)
  /\ IF player = "none" THEN player' = "init" /\ UNCHANGED working
     ELSE working' = TRUE /\ UNCHANGED player
  /\ UNCHANGED <<wire, src, last, failed, asked, avail, filled, fixed, read>>

(* kWhatBufferAvailable with an index.                                     *)
OnBufferAvailable ==
  /\ Handle("avail") /\ avail' = Append(avail, Head(msgs).v) /\ working' = TRUE
  /\ UNCHANGED <<wire, src, queue, player, filled, fixed, read>>

(* The same with 0x80000001: the player found its queue empty.             *)
OnPoke ==
  /\ Handle("poke") /\ working' = TRUE
  /\ UNCHANGED <<wire, src, queue, sink>>

(* RTPSink::onPacketLost sends a generic NACK.                             *)
onPacketLost ==
  /\ Handle("lost") /\ nacks' = nacks \cup {Head(msgs).v}
  /\ UNCHANGED <<base, sent, net, src, queue, working, sink>>

-----------------------------------------------------------------------------
(* StreamSource::doSomeWork with TunnelRenderer::dequeueBuffer, one packet *)
(* at a time.                                                              *)

Oldest == CHOOSE p \in packets : \A q \in packets : p[1] <= q[1]
(* Faulty variant: the packet returned last is returned again.             *)
TakenOlder == packets # {} /\ last >= 0 /\ Oldest[1] < last

Taken == packets # {} /\ last >= 0 /\ Oldest[1] <= last
Due   == packets # {} /\ ~Taken /\ (last < 0 \/ Oldest[1] = last + 1)
Gap   == packets # {} /\ ~Taken /\ ~Due

WorkDone ==
  /\ working /\ avail = <<>> /\ working' = FALSE
  /\ UNCHANGED <<wire, src, msgs, queue, sink>>

(* "This is a retransmission of a packet we've already returned."          *)
DropTaken ==
  /\ working /\ avail # <<>> /\ Taken
  /\ packets' = packets \ {Oldest}
  /\ UNCHANGED <<wire, src, msgs, last, failed, asked, working, sink>>

(* Nothing to return.                                                      *)
Empty ==
  /\ working /\ avail # <<>> /\ packets = {}
  /\ failed' = IF failed = "never" THEN "recent" ELSE failed
  /\ asked' = (asked /\ failed # "never")
  /\ working' = FALSE
  /\ UNCHANGED <<wire, src, msgs, packets, last, sink>>

(* Faulty variant: the index of the buffer is not erased.                  *)
IndicesLeftAll == avail

IndicesLeft == Tail(avail)

(* The front packet is copied to the first available buffer.               *)
Return ==
  /\ last' = Oldest[1] /\ failed' = "never" /\ asked' = FALSE
  /\ packets' = packets \ {Oldest}
  /\ avail' = IndicesLeft
  /\ filled' = (IF fixed THEN filled ELSE Append(filled, [i |-> Disc, n |-> 0]))
               \o <<[i |-> Head(avail), n |-> Oldest[2]]>>
  /\ fixed' = TRUE
  /\ UNCHANGED <<wire, src, msgs, working, player, read>>

InOrderPacket == working /\ avail # <<>> /\ Due /\ Return

GapSeen ==
  /\ working /\ avail # <<>> /\ Gap /\ failed = "never"
  /\ failed' = "recent" /\ working' = FALSE
  /\ UNCHANGED <<wire, src, msgs, packets, last, asked, sink>>

LostSeqNo == (last + 1) % RtpSeqMod

(* Within 50 ms: the packet is asked for, once.                            *)
GapWait ==
  /\ working /\ avail # <<>> /\ Gap /\ failed = "recent"
  /\ IF asked THEN UNCHANGED msgs
     ELSE Post([k |-> "lost", v |-> LostSeqNo, n |-> 0])
  /\ asked' = TRUE /\ working' = FALSE
  /\ UNCHANGED <<wire, src, packets, last, failed, sink>>

(* Faulty variant: the missing packet is waited for without end.           *)
GapSkipNever == FALSE

(* Later: the missing packet is given up.                                  *)
GapSkip == working /\ avail # <<>> /\ Gap /\ failed = "ago" /\ Return

FiftyMs ==
  /\ failed = "recent" /\ failed' = "ago"
  /\ UNCHANGED <<wire, src, msgs, packets, last, asked, working, sink>>

doSomeWork ==
  \/ WorkDone \/ DropTaken \/ Empty \/ InOrderPacket \/ GapSeen \/ GapWait \/ GapSkip

-----------------------------------------------------------------------------
(* The player thread: Source_open and Source_read on the listener.         *)

Source_open ==
  /\ player = "init" /\ player' = "open"
  /\ msgs' = msgs \o [i \in 1..NumBuffers |-> [k |-> "avail", v |-> i, n |-> 0]]
  /\ UNCHANGED <<wire, src, queue, working, avail, filled, fixed, read>>

(* A buffer is read and offered again.                                     *)
ReadBuffer ==
  /\ player = "open" /\ filled # <<>> /\ Head(filled).i # Disc
  /\ read' = IF Head(filled).n > read THEN Head(filled).n ELSE read
  /\ filled' = Tail(filled) /\ Post([k |-> "avail", v |-> Head(filled).i, n |-> 0])
  /\ UNCHANGED <<wire, src, queue, working, player, avail, fixed>>

ReadDiscontinuity ==
  /\ player = "open" /\ filled # <<>> /\ Head(filled).i = Disc
  /\ filled' = Tail(filled)
  /\ UNCHANGED <<wire, src, msgs, queue, working, player, avail, fixed, read>>

(* Nothing to read: the source is woken and read again 10 ms later.        *)
ReadEmpty ==
  /\ player = "open" /\ filled = <<>>
  /\ \A i \in 1..Len(msgs) : msgs[i].k # "poke"
  /\ Post([k |-> "poke", v |-> 0, n |-> 0])
  /\ UNCHANGED <<wire, src, queue, working, sink>>

Player == Source_open \/ ReadBuffer \/ ReadDiscontinuity \/ ReadEmpty

Looper == OnQueueBuffer \/ OnBufferAvailable \/ OnPoke \/ onPacketLost \/ doSomeWork

Network ==
  \/ Send
  \/ \E n \in net : Lose(n) \/ parseRTP(n)
  \/ \E s \in nacks : Retransmit(s) \/ LoseNack(s)

Next == Network \/ Looper \/ FiftyMs \/ Player

Spec == Init /\ [][Next]_vars

(* Fairness: the looper and the player thread run and time passes.  The    *)
(* network and the sender owe nothing.                                     *)
FairSpec == Spec /\ WF_vars(Looper) /\ WF_vars(Player) /\ WF_vars(FiftyMs)

-----------------------------------------------------------------------------
(* Properties.                                                             *)

Messages ==
       [k : {"packet"}, v : Nat, n : 1..MaxSend]
  \cup [k : {"avail"}, v : 1..NumBuffers, n : {0}]
  \cup [k : {"lost"}, v : 0 .. RtpSeqMod - 1, n : {0}]
  \cup [k : {"poke"}, v : {0}, n : {0}]
Sources ==
  [max : 0 .. RtpSeqMod - 1, cycles : Nat, bad : 0 .. RtpSeqMod + 1,
   prob : 0..kMinSequential]
Entries == [i : 1..NumBuffers, n : 1..MaxSend] \cup [i : {Disc}, n : {0}]

(* Types; in particular a request names a 16-bit sequence number.          *)
TypeOK ==
  /\ base \in Bases /\ sent \in 0..MaxSend /\ net \subseteq 1..sent
  /\ nacks \subseteq 0 .. RtpSeqMod - 1
  /\ src \in Sources \cup {NoSource} /\ msgs \in Seq(Messages)
  /\ packets \subseteq Nat \X (1..MaxSend) /\ last \in Nat \cup {-1}
  /\ failed \in {"never", "recent", "ago"} /\ asked \in BOOLEAN /\ working \in BOOLEAN
  /\ player \in {"none", "init", "open"}
  /\ avail \in Seq(1..NumBuffers) /\ filled \in Seq(Entries)
  /\ fixed \in BOOLEAN /\ read \in 0..MaxSend

(* Where the listener's queue holds packets.                               *)
Data == {k \in DOMAIN filled : filled[k].i # Disc}

(* The packets that dequeueBuffer returned and the player still has to     *)
(* read are newer than those it has read and in the order of their         *)
(* sending, none twice: over losses, delays, retransmissions and wraps of  *)
(* the sequence numbers.                                                   *)
ReadInOrder ==
  \A k \in Data : /\ read < filled[k].n
                  /\ \A j \in Data : j < k => filled[j].n < filled[k].n

(* What dequeueBuffer drops as "a retransmission of a packet we've already *)
(* returned" is not newer than everything it has returned.                 *)
DropsOnlyReturned ==
  working /\ Taken =>
    Oldest[2] <= read \/ \E k \in Data : Oldest[2] <= filled[k].n

(* The indexes that are offered in messages (0: another message),          *)
(* available, or filled (Disc: no buffer).                                 *)
Places ==
  [offered   |-> [k \in DOMAIN msgs |-> IF msgs[k].k = "avail" THEN msgs[k].v ELSE 0],
   available |-> avail,
   full      |-> [k \in DOMAIN filled |-> filled[k].i]]

(* Every buffer of the listener is in one place: offered in a message,     *)
(* available, or filled.  None is lost and none is filled twice.           *)
BufferOneOwner ==
  player = "open" =>
    \A b \in 1..NumBuffers :
      \E p \in DOMAIN Places : \E k \in DOMAIN Places[p] :
        /\ Places[p][k] = b
        /\ \A q \in DOMAIN Places : \A j \in DOMAIN Places[q] :
             Places[q][j] = b => q = p /\ j = k

(* A packet that the renderer has queued leaves it again: gaps are waited  *)
(* for 50 ms only, and an idle player still wakes the source.              *)
NoStall ==
  \A n \in 1..MaxSend :
    (\E p \in packets : p[2] = n) ~> (\A p \in packets : p[2] # n)
=============================================================================
