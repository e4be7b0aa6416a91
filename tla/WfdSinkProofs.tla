---------------------------- MODULE WfdSinkProofs ----------------------------
(***************************************************************************)
(* Theorems about the control session of the Wi-Fi display sink, WfdSink:  *)
(* for any number of sessions, by URI and by request.                      *)
(***************************************************************************)
EXTENDS WfdSink, TLAPS

-----------------------------------------------------------------------------
(***************************************************************************)
(* Sequences.                                                              *)
(***************************************************************************)
Items(q) == {q[i] : i \in DOMAIN q}

(* The first element of a sequence and the rest.                           *)
LEMMA Popped ==
  ASSUME NEW S, NEW q \in Seq(S), q # <<>>
  PROVE  /\ Head(q) \in S /\ Head(q) = q[1] /\ 1 \in DOMAIN q
         /\ Tail(q) \in Seq(S) /\ Len(Tail(q)) = Len(q) - 1
         /\ DOMAIN q = 1..Len(q) /\ DOMAIN Tail(q) = 1 .. Len(q) - 1
         /\ \A k \in 1 .. Len(q) - 1 : Tail(q)[k] = q[k + 1]
OBVIOUS

(* The elements of a sequence are its first and those of the rest.         *)
LEMMA ItemsPopped ==
  ASSUME NEW S, NEW q \in Seq(S), q # <<>>
  PROVE  /\ Items(Tail(q)) \subseteq Items(q) /\ Head(q) \in Items(q)
         /\ Items(q) = Items(Tail(q)) \cup {Head(q)}
<1>1. \A k \in 1 .. Len(q) - 1 : k + 1 \in 1..Len(q) OBVIOUS
<1>2. \A k \in 1..Len(q) : k = 1 \/ k - 1 \in 1 .. Len(q) - 1 OBVIOUS
<1>3. Items(Tail(q)) \subseteq Items(q)
  BY <1>1, Popped DEF Items
<1>4. ASSUME NEW x \in Items(q), x # Head(q) PROVE x \in Items(Tail(q))
  <2>1. PICK k \in 1..Len(q) : x = q[k] BY Popped DEF Items
  <2>2. k # 1 BY <1>4, <2>1, Popped
  <2>3. k - 1 \in 1 .. Len(q) - 1 /\ Tail(q)[k - 1] = q[(k - 1) + 1] /\ (k - 1) + 1 = k
    BY <1>2, <2>2, Popped
  <2>4. QED BY <2>1, <2>3, Popped DEF Items
<1>5. Head(q) \in Items(q) BY Popped DEF Items
<1>6. QED BY <1>3, <1>4, <1>5

(* An element more.                                                        *)
LEMMA Pushed ==
  ASSUME NEW S, NEW q \in Seq(S), NEW e \in S
  PROVE  /\ Append(q, e) \in Seq(S) /\ Len(Append(q, e)) = Len(q) + 1
         /\ DOMAIN q = 1..Len(q) /\ DOMAIN Append(q, e) = 1 .. Len(q) + 1
         /\ Append(q, e)[Len(q) + 1] = e
         /\ \A k \in 1..Len(q) : Append(q, e)[k] = q[k]
OBVIOUS

(* The elements of a sequence that has grown.                              *)
LEMMA ItemsPushed ==
  ASSUME NEW S, NEW q \in Seq(S), NEW e \in S
  PROVE  Items(Append(q, e)) = Items(q) \cup {e}
<1>1. Len(q) \in Nat OBVIOUS
<1>2. \A k \in 1 .. Len(q) + 1 : k \in 1..Len(q) \/ k = Len(q) + 1 BY <1>1
<1>3. \A k \in 1..Len(q) : k \in 1 .. Len(q) + 1 BY <1>1
<1>4. Len(q) + 1 \in 1 .. Len(q) + 1 BY <1>1
<1>5. Items(Append(q, e)) \subseteq Items(q) \cup {e}
  BY <1>2, Pushed DEF Items
<1>6. Items(q) \cup {e} \subseteq Items(Append(q, e))
  BY <1>3, <1>4, Pushed DEF Items
<1>7. QED BY <1>5, <1>6

(* The elements of a sequence over S are in S; only the empty one has      *)
(* none.                                                                   *)
LEMMA ItemsOf ==
  ASSUME NEW S, NEW q \in Seq(S)
  PROVE  Items(q) \subseteq S /\ (q = <<>> <=> Items(q) = {})
<1>1. DOMAIN q = 1..Len(q) /\ Len(q) \in Nat /\ \A k \in 1..Len(q) : q[k] \in S OBVIOUS
<1>2. q = <<>> <=> Len(q) = 0 OBVIOUS
<1>3. Len(q) # 0 => 1 \in 1..Len(q) BY <1>1
<1>4. Items(q) \subseteq S BY <1>1 DEF Items
<1>5. ASSUME q # <<>> PROVE Items(q) # {} BY <1>1, <1>2, <1>3, <1>5 DEF Items
<1>6. ASSUME q = <<>> PROVE Items(q) = {}
  <2>1. DOMAIN q = {} BY <1>1, <1>2, <1>6
  <2>2. QED BY <2>1 DEF Items
<1>7. QED BY <1>4, <1>5, <1>6

-----------------------------------------------------------------------------
(***************************************************************************)
(* What the steps do to a session: to its socket, or to the messages that  *)
(* are on their way.                                                       *)
(***************************************************************************)
Only(s) == sess' \in [Sessions -> Connections] /\ \A t \in Sessions \ {s} : sess'[t] = sess[t]
Socket(s, st, rfail, wfail, closed) ==
  /\ Only(s)
  /\ sess'[s].st = st /\ sess'[s].rfail = rfail /\ sess'[s].wfail = wfail
  /\ sess'[s].closed = closed /\ sess'[s].out = sess[s].out
  /\ sess'[s].inbox = sess[s].inbox /\ sess'[s].in = sess[s].in
Wire(s, out, inbox, in) ==
  /\ Only(s)
  /\ sess'[s].st = sess[s].st /\ sess'[s].rfail = sess[s].rfail
  /\ sess'[s].wfail = sess[s].wfail /\ sess'[s].closed = sess[s].closed
  /\ sess'[s].out = out /\ sess'[s].inbox = inbox /\ sess'[s].in = in

Letters == Incoming \cup Notes

(* The types of a session's fields.                                        *)
LEMMA Fields ==
  ASSUME TypeOK, NEW s \in Sessions
  PROVE  /\ sess[s] \in Connections
         /\ sess[s].st \in {"none", "connecting", "connected", "gone"}
         /\ sess[s].rfail \in BOOLEAN /\ sess[s].wfail \in BOOLEAN /\ sess[s].closed \in BOOLEAN
         /\ sess[s].out \in Seq(Outgoing) /\ sess[s].inbox \in Seq(Outgoing)
         /\ sess[s].in \in Seq(Incoming)
BY DEF TypeOK, Connections

(* postMessage appends, or drops the message of an unregistered handler.   *)
LEMMA Posts ==
  ASSUME TypeOK, NEW m \in Letters
  PROVE  /\ Posted(m) \in Seq(Letters) /\ Append(msgs, m) \in Seq(Letters)
         /\ Items(Append(msgs, m)) = Items(msgs) \cup {m}
         /\ reg = "yes" => Posted(m) = Append(msgs, m)
         /\ reg # "yes" => Posted(m) = msgs
<1>1. msgs \in Seq(Letters) BY DEF TypeOK, Letters
<1>2. QED BY <1>1, Pushed, ItemsPushed DEF Posted

(* What the sink and the network thread post are messages of the looper.   *)
LEMMA Letter ==
  /\ \A s \in Sessions, k \in {"start", "connected", "error"} : Note(s, k) \in Letters
  /\ Note(0, "stop") \in Letters
  /\ \A s \in Nat \ {0}, d \in {"rtp", "rtcp"} :
       [k |-> "udp", s |-> s, d |-> d, c |-> 0] \in Letters
  /\ Incoming \subseteq Letters
BY DEF Letters, Notes, Note

(* The kinds of the looper's messages, and whose they are.                 *)
LEMMA Kinds ==
  ASSUME NEW m \in Letters
  PROVE  /\ m.k \in {"data", "start", "connected", "error", "stop", "udp"}
         /\ m.k = "data" => m \in Incoming
         /\ m.k \in {"data", "start", "connected", "error"} => m.s \in Sessions
         /\ m.k = "udp" => m.s \in Nat \ {0} /\ m.d \in {"rtp", "rtcp"}
         /\ m.k = "stop" => m.s = 0
         /\ m.k # "data" => m.d \notin Requests
BY DEF Letters, Notes, Incoming, Requests

(* What comes from the source is a request with number 0, or a response    *)
(* with a number.                                                          *)
LEMMA IncomingKinds ==
  /\ \A m \in Incoming : /\ m.k = "data" /\ m.s \in Sessions
                         /\ \/ m.d \in Requests /\ m.d \notin {"200", "4xx"} /\ m.c = 0
                            \/ m.d \in {"200", "4xx"} /\ m.c \in Nat \ {0}
  /\ \A s \in Sessions, d \in Requests :
       [k |-> "data", s |-> s, d |-> d, c |-> 0] \in Incoming
  /\ \A s \in Sessions, d \in {"200", "4xx"}, c \in Nat \ {0} :
       [k |-> "data", s |-> s, d |-> d, c |-> c] \in Incoming
BY DEF Incoming, Requests

(* What the sink sends is an answer with number 0, or a request with the   *)
(* next number.                                                            *)
LEMMA OutgoingKinds ==
  /\ \A m \in Outgoing : \/ m.d = "answer" /\ m.c = 0
                         \/ m.d \in Functions /\ m.d # "answer" /\ m.c \in Nat \ {0}
  /\ Answer \in Outgoing
  /\ \A d \in Functions : mNextCSeq \in Nat \ {0} =>
       Request(d) \in Outgoing /\ Request(d).d = d /\ Request(d).c = mNextCSeq
BY DEF Outgoing, Answer, Request, Functions

(* The network thread.                                                     *)
LEMMA ConnectedStep ==
  ASSUME TypeOK, NEW s \in Sessions, Connected(s)
  PROVE  /\ Quiet /\ sess[s].st = "connecting" /\ ~sess[s].wfail
         /\ \/ /\ Socket(s, "connected", sess[s].rfail, sess[s].wfail, sess[s].closed)
               /\ msgs' = Posted(Note(s, "connected"))
            \/ /\ Socket(s, "connecting", sess[s].rfail, TRUE, sess[s].closed)
               /\ msgs' = Posted(Note(s, "error"))
         /\ UNCHANGED <<udp, peer, netOnly>>
<1>1. sess \in [Sessions -> Connections] BY DEF TypeOK
<1>2. \/ /\ sess' = [sess EXCEPT ![s].st = "connected"]
         /\ msgs' = Posted(Note(s, "connected"))
      \/ /\ sess' = [sess EXCEPT ![s].wfail = TRUE]
         /\ msgs' = Posted(Note(s, "error"))
  BY DEF Connected
<1>3. sess[s].st = "connecting" BY DEF Connected
<1>4. ASSUME sess' = [sess EXCEPT ![s].st = "connected"]
      PROVE  Socket(s, "connected", sess[s].rfail, sess[s].wfail, sess[s].closed)
  BY <1>1, <1>4 DEF Socket, Only, Connections
<1>5. ASSUME sess' = [sess EXCEPT ![s].wfail = TRUE]
      PROVE  Socket(s, "connecting", sess[s].rfail, TRUE, sess[s].closed)
  BY <1>1, <1>3, <1>5 DEF Socket, Only, Connections
<1>6. QED BY <1>2, <1>4, <1>5 DEF Connected

(* readMore: data goes to the looper, or the end of the stream is an       *)
(* error.                                                                  *)
LEMMA readMoreStep ==
  ASSUME TypeOK, NEW s \in Sessions, readMore(s)
  PROVE  /\ Quiet /\ sess[s].st = "connected" /\ ~sess[s].rfail
         /\ \/ /\ sess[s].in # <<>>
               /\ Wire(s, sess[s].out, sess[s].inbox, Tail(sess[s].in))
               /\ msgs' = Posted(Head(sess[s].in))
            \/ /\ sess[s].in = <<>> /\ sess[s].closed
               /\ Socket(s, sess[s].st, TRUE, sess[s].wfail, sess[s].closed)
               /\ msgs' = Posted(Note(s, "error"))
         /\ UNCHANGED <<udp, peer, netOnly>>
<1>1. sess \in [Sessions -> Connections] BY DEF TypeOK
<1>2. CASE sess[s].in # <<>>
  <2>1. Tail(sess[s].in) \in Seq(Incoming) BY <1>2, Fields, Popped
  <2>2. sess' = [sess EXCEPT ![s].in = Tail(sess[s].in)] BY <1>2 DEF readMore
  <2>3. Wire(s, sess[s].out, sess[s].inbox, Tail(sess[s].in))
    BY <1>1, <2>1, <2>2 DEF Wire, Only, Connections
  <2>4. QED BY <1>2, <2>3 DEF readMore, wantsToRead
<1>3. CASE sess[s].in = <<>>
  <2>1. sess' = [sess EXCEPT ![s].rfail = TRUE] BY <1>3 DEF readMore
  <2>2. Socket(s, sess[s].st, TRUE, sess[s].wfail, sess[s].closed)
    BY <1>1, <2>1 DEF Socket, Only, Connections
  <2>3. QED BY <1>3, <2>2 DEF readMore, wantsToRead, EndOfStream
<1>4. QED BY <1>2, <1>3

(* writeMore: one message goes to the source, or the send fails.           *)
LEMMA writeMoreStep ==
  ASSUME TypeOK, NEW s \in Sessions, writeMore(s)
  PROVE  /\ sess[s].st = "connected" /\ ~sess[s].wfail /\ sess[s].out # <<>>
         /\ \/ /\ Wire(s, Tail(sess[s].out), Append(sess[s].inbox, Head(sess[s].out)),
                       sess[s].in)
               /\ msgs' = msgs
            \/ /\ May("send_fail") \/ (sess[s].closed /\ sess[s].in = <<>>)
               /\ Socket(s, sess[s].st, sess[s].rfail, TRUE, sess[s].closed)
               /\ msgs' = Posted(Note(s, "error"))
         /\ UNCHANGED <<udp, peer, netOnly>>
<1>1. sess \in [Sessions -> Connections] BY DEF TypeOK
<1>2. sess[s].out # <<>> BY DEF writeMore
<1>3. PICK o, i : o = Tail(sess[s].out) /\ i = Append(sess[s].inbox, Head(sess[s].out))
  OBVIOUS
<1>4. o \in Seq(Outgoing) /\ i \in Seq(Outgoing) BY <1>2, <1>3, Fields, Popped, Pushed
<1>5. ASSUME sess' = [sess EXCEPT ![s].out = o, ![s].inbox = i]
      PROVE  Wire(s, o, i, sess[s].in)
  BY <1>1, <1>3, <1>4, <1>5 DEF Wire, Only, Connections
<1>6. ASSUME sess' = [sess EXCEPT ![s].wfail = TRUE]
      PROVE  Socket(s, sess[s].st, sess[s].rfail, TRUE, sess[s].closed)
  BY <1>1, <1>6 DEF Socket, Only, Connections
<1>7. \/ sess' = [sess EXCEPT ![s].out = o, ![s].inbox = i] /\ msgs' = msgs
      \/ /\ May("send_fail") \/ (sess[s].closed /\ sess[s].in = <<>>)
         /\ sess' = [sess EXCEPT ![s].wfail = TRUE]
         /\ msgs' = Posted(Note(s, "error"))
  BY <1>3 DEF writeMore
<1>8. QED BY <1>3, <1>5, <1>6, <1>7 DEF writeMore

(* The source.                                                             *)
Peers == [asked : Nat, answered : Nat, playing : BOOLEAN]
PeerIs(s, asked, answered, playing) ==
  /\ peer' \in [Sessions -> Peers] /\ \A t \in Sessions \ {s} : peer'[t] = peer[t]
  /\ peer'[s].asked = asked /\ peer'[s].answered = answered /\ peer'[s].playing = playing

(* The types of the source's side of a session.                            *)
LEMMA PeerFields ==
  ASSUME TypeOK, NEW s \in Sessions
  PROVE  /\ peer[s].asked \in Nat /\ peer[s].answered \in Nat /\ peer[s].playing \in BOOLEAN
         /\ peer \in [Sessions -> Peers]
BY DEF TypeOK, Peers

(* The source's next request; the trigger is its fourth, and only of a     *)
(* session that was not started by URI.                                    *)
LEMMA Scripted ==
  ASSUME NEW n \in Nat, NEW b \in BOOLEAN, NEW m,
         m \in IF n < Len(Script) THEN {Script[n + 1]}
               ELSE IF n = Len(Script) /\ b THEN {"GET", "OTHER"} ELSE {}
  PROVE  m \in Requests /\ (m = "TRIGGER" => ~uri /\ n = 3)
<1>1. CASE uri
  <2>1. Len(Script) = 0 BY <1>1 DEF Script
  <2>2. m \in {"GET", "OTHER"} BY <2>1
  <2>3. QED BY <2>2 DEF Requests
<1>2. CASE ~uri
  <2>1. Script = <<"OPTIONS", "GET", "SET", "TRIGGER">> BY <1>2 DEF Script
  <2>2. Len(Script) = 4 /\ Script[1] = "OPTIONS" /\ Script[2] = "GET"
        /\ Script[3] = "SET" /\ Script[4] = "TRIGGER"
    BY <2>1
  <2>3. n = 0 \/ n = 1 \/ n = 2 \/ n = 3 \/ n >= 4 OBVIOUS
  <2>4. CASE n >= 4 BY <2>2, <2>4 DEF Requests
  <2>5. CASE n = 0 BY <2>2, <2>5 DEF Requests
  <2>6. CASE n = 1 BY <2>2, <2>6 DEF Requests
  <2>7. CASE n = 2 BY <2>2, <2>7 DEF Requests
  <2>8. CASE n = 3 BY <1>2, <2>2, <2>8 DEF Requests
  <2>9. QED BY <2>3, <2>4, <2>5, <2>6, <2>7, <2>8
<1>3. QED BY <1>1, <1>2

(* The source sends the next request once the sink has answered the last.  *)
LEMMA PeerAskStep ==
  ASSUME TypeOK, NEW s \in Sessions, PeerAsk(s)
  PROVE  /\ sess[s].st = "connected" /\ ~sess[s].closed
         /\ peer[s].asked = peer[s].answered
         /\ \E d \in Requests :
              /\ d = "TRIGGER" => ~uri /\ peer[s].asked = 3
              /\ Wire(s, sess[s].out, sess[s].inbox,
                      Append(sess[s].in, [k |-> "data", s |-> s, d |-> d, c |-> 0]))
         /\ PeerIs(s, peer[s].asked + 1, peer[s].answered, peer[s].playing)
         /\ UNCHANGED <<msgs, udp, netOnly>>
<1>1. sess \in [Sessions -> Connections] BY DEF TypeOK
<1>2. PICK d \in IF peer[s].asked < Len(Script) THEN {Script[peer[s].asked + 1]}
                 ELSE IF peer[s].asked = Len(Script) /\ peer[s].playing
                 THEN {"GET", "OTHER"} ELSE {} :
        sess' = [sess EXCEPT ![s].in = Append(@, [k |-> "data", s |-> s, d |-> d, c |-> 0])]
  BY DEF PeerAsk
<1>3. d \in Requests /\ (d = "TRIGGER" => ~uri /\ peer[s].asked = 3)
  BY <1>2, Scripted, PeerFields
<1>4. PICK q : q = Append(sess[s].in, [k |-> "data", s |-> s, d |-> d, c |-> 0])
  OBVIOUS
<1>5. q \in Seq(Incoming)
  BY <1>3, <1>4, Fields, IncomingKinds, Pushed
<1>6. sess' = [sess EXCEPT ![s].in = q] BY <1>2, <1>4
<1>7. Wire(s, sess[s].out, sess[s].inbox, q)
  BY <1>1, <1>5, <1>6 DEF Wire, Only, Connections
<1>8. PeerIs(s, peer[s].asked + 1, peer[s].answered, peer[s].playing)
  <2>1. peer' = [peer EXCEPT ![s].asked = @ + 1] BY DEF PeerAsk
  <2>2. QED BY <2>1, PeerFields DEF PeerIs, Peers
<1>9. QED BY <1>3, <1>4, <1>7, <1>8 DEF PeerAsk

(* The source takes an answer, or takes a request and responds to it.      *)
LEMMA PeerTakesStep ==
  ASSUME TypeOK, NEW s \in Sessions, PeerTakes(s)
  PROVE  /\ ~sess[s].closed /\ sess[s].inbox # <<>> /\ Head(sess[s].inbox) \in Outgoing
         /\ \/ /\ Head(sess[s].inbox).d = "answer"
               /\ Wire(s, sess[s].out, Tail(sess[s].inbox), sess[s].in)
               /\ PeerIs(s, peer[s].asked, peer[s].answered + 1, peer[s].playing)
            \/ \E ok \in Outcomes("refuse") :
                 /\ Head(sess[s].inbox).d # "answer"
                 /\ Wire(s, sess[s].out, Tail(sess[s].inbox),
                         Append(sess[s].in, [k |-> "data", s |-> s,
                                             d |-> IF ok THEN "200" ELSE "4xx",
                                             c |-> Head(sess[s].inbox).c]))
                 /\ PeerIs(s, peer[s].asked, peer[s].answered,
                           peer[s].playing \/ (ok /\ Head(sess[s].inbox).d = "PLAY"))
         /\ UNCHANGED <<msgs, udp, netOnly>>
<1>1. sess \in [Sessions -> Connections] BY DEF TypeOK
<1>2. ~sess[s].closed /\ sess[s].inbox # <<>> BY DEF PeerTakes
<1>3. PICK m, r : m = Head(sess[s].inbox) /\ r = Tail(sess[s].inbox) OBVIOUS
<1>4. m \in Outgoing /\ r \in Seq(Outgoing) BY <1>2, <1>3, Fields, Popped
<1>5. CASE m.d = "answer"
  <2>1. /\ sess' = [sess EXCEPT ![s].inbox = r]
        /\ peer' = [peer EXCEPT ![s].answered = @ + 1]
    BY <1>3, <1>5 DEF PeerTakes
  <2>2. Wire(s, sess[s].out, r, sess[s].in)
    BY <1>1, <1>4, <2>1 DEF Wire, Only, Connections
  <2>3. PeerIs(s, peer[s].asked, peer[s].answered + 1, peer[s].playing)
    BY <2>1, PeerFields DEF PeerIs, Peers
  <2>4. QED BY <1>2, <1>3, <1>4, <1>5, <2>2, <2>3 DEF PeerTakes
<1>6. CASE m.d # "answer"
  <2>1. PICK ok \in Outcomes("refuse") :
          /\ sess' = [sess EXCEPT ![s].inbox = Tail(@), ![s].in =
                        Append(@, [k |-> "data", s |-> s, d |-> IF ok THEN "200" ELSE "4xx",
                                   c |-> m.c])]
          /\ peer' = [peer EXCEPT ![s].playing = @ \/ (ok /\ m.d = "PLAY")]
    BY <1>3, <1>6 DEF PeerTakes
  <2>2. PICK e, q : /\ e = [k |-> "data", s |-> s, d |-> IF ok THEN "200" ELSE "4xx", c |-> m.c]
                    /\ q = Append(sess[s].in, e)
    OBVIOUS
  <2>3. e \in Incoming BY <1>4, <1>6, <2>2, IncomingKinds, OutgoingKinds
  <2>4. q \in Seq(Incoming) BY <2>2, <2>3, Fields, Pushed
  <2>5. sess' = [sess EXCEPT ![s].inbox = r, ![s].in = q]
    <3>1. PICK g : g = [sess EXCEPT ![s].inbox = r] OBVIOUS
    <3>2. g[s].in = sess[s].in BY <1>1, <3>1 DEF Connections
    <3>3. sess' = [g EXCEPT ![s].in = Append(@, e)] BY <1>3, <2>1, <2>2, <3>1
    <3>4. QED BY <2>2, <3>1, <3>2, <3>3
  <2>6. Wire(s, sess[s].out, r, q)
    BY <1>1, <1>4, <2>4, <2>5 DEF Wire, Only, Connections
  <2>7. PeerIs(s, peer[s].asked, peer[s].answered, peer[s].playing \/ (ok /\ m.d = "PLAY"))
    BY <2>1, PeerFields DEF PeerIs, Peers
  <2>8. QED BY <1>2, <1>3, <1>4, <1>6, <2>2, <2>6, <2>7 DEF PeerTakes
<1>7. QED BY <1>5, <1>6

(* The source closes the connection.                                       *)
LEMMA PeerCloseStep ==
  ASSUME TypeOK, NEW s \in Sessions, PeerClose(s)
  PROVE  /\ sess[s].st = "connected"
         /\ Socket(s, sess[s].st, sess[s].rfail, sess[s].wfail, TRUE)
         /\ UNCHANGED <<msgs, udp, peer, netOnly>>
<1>1. sess \in [Sessions -> Connections] BY DEF TypeOK
<1>2. sess' = [sess EXCEPT ![s].closed = TRUE] BY DEF PeerClose
<1>3. Socket(s, sess[s].st, sess[s].rfail, sess[s].wfail, TRUE)
  BY <1>1, <1>2 DEF Socket, Only, Connections
<1>4. QED BY <1>3 DEF PeerClose

(* The looper.                                                             *)
LEMMA Delivered ==
  ASSUME TypeOK, NEW k, Deliver(k)
  PROVE  /\ msgs # <<>> /\ M \in Letters /\ M.k = k /\ reg = "yes" /\ msgs' = Tail(msgs)
         /\ msgs' \in Seq(Letters) /\ M \in Items(msgs) /\ Items(msgs') \subseteq Items(msgs)
         /\ Items(msgs) = Items(msgs') \cup {M}
<1>1. msgs \in Seq(Letters) BY DEF TypeOK, Letters
<1>2. msgs # <<>> /\ M.k = k /\ reg = "yes" /\ msgs' = Tail(msgs) BY DEF Deliver, M
<1>3. QED BY <1>1, <1>2, Popped, ItemsPopped DEF M

(* Concatenation with one or two elements, as appending.                   *)
LEMMA Joined ==
  ASSUME NEW S, NEW q \in Seq(S), NEW x \in S, NEW y \in S
  PROVE  /\ q \o <<x>> = Append(q, x)
         /\ q \o <<x, y>> = Append(Append(q, x), y)
         /\ <<x>> \o <<y>> = <<x, y>> /\ <<>> \o <<y>> = <<y>>
<1>1. q \o <<x>> = Append(q, x) OBVIOUS
<1>2. q \o <<x, y>> = Append(Append(q, x), y)
  <2>1. DOMAIN (q \o <<x, y>>) = 1 .. Len(q) + 2 OBVIOUS
  <2>2. DOMAIN Append(Append(q, x), y) = 1 .. Len(q) + 2 OBVIOUS
  <2>3. \A k \in 1 .. Len(q) + 2 : (q \o <<x, y>>)[k] = Append(Append(q, x), y)[k]
    OBVIOUS
  <2>4. QED BY <2>1, <2>2, <2>3
<1>3. <<x>> \o <<y>> = <<x, y>>
  <2>1. PICK t, u : t = <<x>> \o <<y>> /\ u = <<x, y>> OBVIOUS
  <2>2. t \in Seq(S) /\ u \in Seq(S) BY <2>1
  <2>3. Len(t) = 2 /\ Len(u) = 2 BY <2>1
  <2>4. t[1] = u[1] /\ t[2] = u[2] BY <2>1
  <2>5. \A k \in 1..Len(t) : t[k] = u[k] BY <2>2, <2>3, <2>4
  <2>6. t = u BY <2>2, <2>3, <2>5
  <2>7. QED BY <2>1, <2>6
<1>4. <<>> \o <<y>> = <<y>> OBVIOUS
<1>5. QED BY <1>1, <1>2, <1>3, <1>4

(* An answer more is queued.                                               *)
LEMMA Answers ==
  ASSUME NEW q \in Seq(Outgoing), NEW x \in Outgoing
  PROVE  q \o <<x>> = Append(q, x) /\ Append(q, x) \in Seq(Outgoing)
BY Joined, Pushed

(* An answer and a request more are queued.                                *)
LEMMA AnswersAndAsks ==
  ASSUME NEW q \in Seq(Outgoing), NEW x \in Outgoing, NEW y \in Outgoing
  PROVE  /\ q \o <<x, y>> = Append(Append(q, x), y)
         /\ Append(Append(q, x), y) \in Seq(Outgoing)
<1>1. Append(q, x) \in Seq(Outgoing) BY Pushed
<1>2. QED BY <1>1, Joined, Pushed

(* A step that only queues messages to the source.                         *)
LEMMA Sends ==
  ASSUME TypeOK, NEW s \in Sessions, NEW q \in Seq(Outgoing),
         sess' = [sess EXCEPT ![s].out = q]
  PROVE  Wire(s, q, sess[s].inbox, sess[s].in)
<1>1. sess \in [Sessions -> Connections] BY DEF TypeOK
<1>2. QED BY <1>1 DEF Wire, Only, Connections

(* A request goes out on session s, after the messages o, and a function   *)
(* waits for its response.                                                 *)
Asks(s, f, o, rest) ==
  /\ Alive(s) /\ s \in Sessions
  /\ Wire(s, Append(o, Request(f)), sess[s].inbox, sess[s].in)
  /\ handlers' = rest \cup {[s |-> s, c |-> mNextCSeq, f |-> f]}
  /\ mNextCSeq' = mNextCSeq + 1
NoFunction == UNCHANGED <<handlers, mNextCSeq>>
SinkKept   == UNCHANGED <<rtp, sinks, udp>>

(* After NeedSink there is an RTPSink.                                     *)
LEMMA NeedSinkStep ==
  ASSUME TypeOK, NeedSink
  PROVE  /\ \/ rtp.id # 0 /\ SinkKept
            \/ /\ rtp.id = 0 /\ sinks' = sinks + 1
               /\ rtp' = [id |-> sinks + 1, open |-> {"rtp", "rtcp"}, conn |-> FALSE]
         /\ sinks' \in Nat
         /\ rtp' \in [id : 0..sinks', open : SUBSET {"rtp", "rtcp"}, conn : BOOLEAN]
         /\ udp' \subseteq (1..sinks') \X {"rtp", "rtcp"} /\ rtp'.id # 0
<1>1. CASE rtp.id # 0
  BY <1>1 DEF NeedSink, SinkKept, TypeOK
<1>2. CASE rtp.id = 0
  <2>1. /\ sinks' = sinks + 1
        /\ rtp' = [id |-> sinks + 1, open |-> {"rtp", "rtcp"}, conn |-> FALSE]
        /\ udp' = udp \cup {<<sinks + 1, x>> : x \in {"rtp", "rtcp"}}
    BY <1>2 DEF NeedSink
  <2>2. sinks \in Nat /\ udp \subseteq (1..sinks) \X {"rtp", "rtcp"} BY DEF TypeOK
  <2>3. {<<sinks + 1, x>> : x \in {"rtp", "rtcp"}} \subseteq (1..sinks') \X {"rtp", "rtcp"}
    BY <2>1, <2>2
  <2>4. (1..sinks) \X {"rtp", "rtcp"} \subseteq (1..sinks') \X {"rtp", "rtcp"}
    BY <2>1, <2>2
  <2>5. QED BY <1>2, <2>1, <2>2, <2>3, <2>4
<1>3. QED BY <1>1, <1>2

(* The connection is made: the sink waits for the source, or asks for its  *)
(* description.                                                            *)
LEMMA OnConnectedStep ==
  ASSUME TypeOK, OnConnected
  PROVE  /\ Deliver("connected") /\ UNCHANGED looperOnly
         /\ \/ /\ ~uri /\ mState' = "CONNECTED"
               /\ UNCHANGED <<sess, mSessionID, aborted>> /\ NoFunction /\ SinkKept
            \/ uri /\ ~Alive(mSessionID) /\ Abort
            \/ /\ uri /\ mState' = "CONNECTED"
               /\ Asks(mSessionID, "DESCRIBE", sess[mSessionID].out, handlers)
               /\ UNCHANGED <<mSessionID, aborted>> /\ SinkKept
<1>1. ASSUME uri, Alive(mSessionID)
      PROVE  Asks(mSessionID, "DESCRIBE", sess[mSessionID].out, handlers)
  <2>1. mSessionID \in Sessions BY <1>1 DEF Alive, TypeOK, Sessions
  <2>2. /\ Send(mSessionID, <<Request("DESCRIBE")>>)
        /\ registerResponseHandler(mSessionID, "DESCRIBE")
    BY <1>1 DEF OnConnected
  <2>3. PICK m : m = Request("DESCRIBE") OBVIOUS
  <2>4. m \in Outgoing BY <2>3, OutgoingKinds DEF TypeOK, Functions
  <2>5. PICK q : q = Append(sess[mSessionID].out, m) OBVIOUS
  <2>6. q \in Seq(Outgoing) /\ q = sess[mSessionID].out \o <<m>>
    <3>1. sess[mSessionID].out \in Seq(Outgoing) BY <2>1, Fields
    <3>2. QED BY <2>4, <2>5, <3>1, Answers
  <2>7. sess' = [sess EXCEPT ![mSessionID].out = q]
    BY <2>2, <2>3, <2>6 DEF Send
  <2>8. Wire(mSessionID, q, sess[mSessionID].inbox, sess[mSessionID].in)
    BY <2>1, <2>6, <2>7, Sends
  <2>9. QED BY <1>1, <2>1, <2>2, <2>3, <2>5, <2>8 DEF Asks, registerResponseHandler
<1>2. QED BY <1>1 DEF OnConnected, NoFunction, SinkKept

(* What a handler of a request of the source does.                         *)
LEMMA OnRequestStep ==
  ASSUME TypeOK, OnRequest
  PROVE  /\ Deliver("data") /\ M \in Incoming /\ M.d \in Requests /\ UNCHANGED looperOnly
         /\ \/ ~Alive(M.s) /\ Abort
            \/ /\ Alive(M.s) /\ NoFunction /\ M.d # "TRIGGER"
               /\ Wire(M.s, Append(sess[M.s].out, Answer), sess[M.s].inbox, sess[M.s].in)
               /\ NeedSink \/ SinkKept
               /\ UNCHANGED <<mSessionID, mState, aborted>>
            \/ /\ M.d # "TRIGGER"
               /\ Asks(M.s, "OPTIONS", Append(sess[M.s].out, Answer), handlers)
               /\ SinkKept /\ UNCHANGED <<mSessionID, mState, aborted>>
            \/ /\ M.d = "TRIGGER"
               /\ Asks(M.s, "SETUP", Append(sess[M.s].out, Answer), handlers)
               /\ NeedSink /\ UNCHANGED <<mSessionID, mState, aborted>>
<1>1. Deliver("data") /\ M.d \in Requests /\ UNCHANGED looperOnly
  BY DEF OnRequest, Data
<1>2. M \in Incoming BY <1>1, Delivered, Kinds
<1>3. M.s \in Sessions BY <1>2, IncomingKinds
<1>4. PICK s, o : s = M.s /\ o = Append(sess[s].out, Answer) OBVIOUS
<1>5. o \in Seq(Outgoing) /\ sess[s].out \in Seq(Outgoing) /\ o = sess[s].out \o <<Answer>>
  <2>1. sess[s].out \in Seq(Outgoing) BY <1>3, <1>4, Fields
  <2>2. Answer \in Outgoing BY OutgoingKinds
  <2>3. QED BY <1>4, <2>1, <2>2, Answers
<1>6. ASSUME Send(s, <<Answer>>) PROVE Wire(s, o, sess[s].inbox, sess[s].in)
  <2>1. sess' = [sess EXCEPT ![s].out = o] BY <1>5, <1>6 DEF Send
  <2>2. QED BY <1>3, <1>4, <1>5, <2>1, Sends
<1>7. ASSUME NEW f \in Functions, Alive(s), Send(s, <<Answer, Request(f)>>),
             registerResponseHandler(s, f)
      PROVE  Asks(s, f, o, handlers)
  <2>1. PICK m : m = Request(f) OBVIOUS
  <2>2. m \in Outgoing BY <2>1, OutgoingKinds DEF TypeOK
  <2>3. PICK q : q = Append(o, m) OBVIOUS
  <2>4. Answer \in Outgoing BY OutgoingKinds
  <2>5. q \in Seq(Outgoing) /\ q = sess[s].out \o <<Answer, m>>
    <3>1. q = Append(Append(sess[s].out, Answer), m) BY <1>4, <2>3
    <3>2. /\ sess[s].out \o <<Answer, m>> = Append(Append(sess[s].out, Answer), m)
          /\ Append(Append(sess[s].out, Answer), m) \in Seq(Outgoing)
      BY <1>5, <2>2, <2>4, AnswersAndAsks
    <3>3. QED BY <3>1, <3>2
  <2>6. sess' = [sess EXCEPT ![s].out = q] BY <1>7, <2>1, <2>5 DEF Send
  <2>7. Wire(s, q, sess[s].inbox, sess[s].in) BY <1>3, <1>4, <2>5, <2>6, Sends
  <2>8. QED BY <1>3, <1>4, <1>7, <2>1, <2>3, <2>7 DEF Asks, registerResponseHandler
<1>8. CASE ~Alive(s) BY <1>1, <1>2, <1>4, <1>8 DEF OnRequest
<1>9. CASE Alive(s) /\ M.d = "OPTIONS"
  <2>1. onOptionsRequest(s) BY <1>4, <1>9 DEF OnRequest
  <2>2. Asks(s, "OPTIONS", o, handlers)
    BY <1>7, <1>9, <2>1 DEF onOptionsRequest, Functions
  <2>3. QED BY <1>1, <1>2, <1>4, <1>9, <2>1, <2>2 DEF onOptionsRequest, SinkKept
<1>10. CASE Alive(s) /\ M.d = "GET"
  <2>1. onGetParameterRequest(s) BY <1>4, <1>10 DEF OnRequest
  <2>2. QED BY <1>1, <1>2, <1>4, <1>6, <1>10, <2>1 DEF onGetParameterRequest, NoFunction
<1>11. CASE Alive(s) /\ M.d = "SET"
  <2>1. onSetParameterRequest(s) BY <1>4, <1>11 DEF OnRequest
  <2>2. ~TriggersSetup BY <1>11 DEF TriggersSetup
  <2>3. QED BY <1>1, <1>2, <1>4, <1>6, <1>11, <2>1, <2>2
        DEF onSetParameterRequest, NoFunction, SinkKept
<1>12. CASE Alive(s) /\ M.d = "TRIGGER"
  <2>1. onSetParameterRequest(s) BY <1>4, <1>12 DEF OnRequest
  <2>2. TriggersSetup BY <1>12 DEF TriggersSetup
  <2>3. sendSetup(s, <<Answer>>) /\ UNCHANGED <<mSessionID, mState, aborted>>
    BY <2>1, <2>2 DEF onSetParameterRequest
  <2>4. Send(s, <<Answer, Request("SETUP")>>)
    <3>1. Answer \in Outgoing /\ Request("SETUP") \in Outgoing
      BY OutgoingKinds DEF TypeOK, Functions
    <3>2. <<Answer>> \o <<Request("SETUP")>> = <<Answer, Request("SETUP")>>
      BY <1>5, <3>1, Joined
    <3>3. QED BY <2>3, <3>2 DEF sendSetup
  <2>5. Asks(s, "SETUP", o, handlers)
    BY <1>7, <1>12, <2>3, <2>4 DEF sendSetup, Functions
  <2>6. QED BY <1>1, <1>2, <1>4, <1>12, <2>3, <2>5 DEF sendSetup
<1>13. CASE Alive(s) /\ M.d = "OTHER"
  <2>1. sendErrorResponse(s) BY <1>4, <1>13 DEF OnRequest
  <2>2. QED BY <1>1, <1>2, <1>4, <1>6, <1>13, <2>1
        DEF sendErrorResponse, NoFunction, SinkKept
<1>14. QED BY <1>1, <1>8, <1>9, <1>10, <1>11, <1>12, <1>13 DEF Requests

(* What the function registered for a response does.                       *)
LEMMA OnResponseStep ==
  ASSUME TypeOK, OnResponse
  PROVE  /\ Deliver("data") /\ M \in Incoming /\ M.d \in {"200", "4xx"}
         /\ UNCHANGED looperOnly
         /\ \/ /\ HandlersOf = {}
               /\ UNCHANGED <<sess, mSessionID, mState, aborted>> /\ NoFunction /\ SinkKept
            \/ \E h \in HandlersOf :
                 /\ Abort
                 /\ \/ M.d # "200"
                    \/ h.f \in {"DESCRIBE", "SETUP"} /\ ~Alive(M.s)
                    \/ h.f = "SETUP" /\ rtp.open # {"rtp", "rtcp"}
            \/ \E h \in HandlersOf :
                 /\ M.d = "200" /\ h.f = "DESCRIBE" /\ NeedSink
                 /\ Asks(M.s, "SETUP", sess[M.s].out, handlers \ {h})
                 /\ UNCHANGED <<mSessionID, mState, aborted>>
            \/ \E h \in HandlersOf :
                 /\ M.d = "200" /\ h.f = "SETUP" /\ rtp.open = {"rtp", "rtcp"}
                 /\ rtp' = [rtp EXCEPT !.conn = TRUE] /\ mState' = "PAUSED"
                 /\ Asks(M.s, "PLAY", sess[M.s].out, handlers \ {h})
                 /\ UNCHANGED <<mSessionID, sinks, udp, aborted>>
            \/ \E h \in HandlersOf :
                 /\ M.d = "200" /\ h.f \in {"OPTIONS", "PLAY"}
                 /\ handlers' = handlers \ {h}
                 /\ mState' = IF h.f = "PLAY" THEN "PLAYING" ELSE mState
                 /\ UNCHANGED <<sess, mSessionID, mNextCSeq, aborted>> /\ SinkKept
<1>1. Deliver("data") /\ M.d \in {"200", "4xx"} /\ UNCHANGED looperOnly
  BY DEF OnResponse, Data
<1>2. M \in Incoming BY <1>1, Delivered, Kinds
<1>3. M.s \in Sessions BY <1>2, IncomingKinds
<1>4. CASE HandlersOf = {}
  BY <1>1, <1>2, <1>4 DEF OnResponse, NoFunction, SinkKept
<1>5. ASSUME HandlersOf # {}
      PROVE  \E h \in HandlersOf :
        IF M.d # "200" THEN Abort
        ELSE CASE h.f = "DESCRIBE" -> onReceiveDescribeResponse(M.s, Others(h))
               [] h.f = "SETUP" -> onReceiveSetupResponse(M.s, Others(h))
               [] OTHER -> onReceiveLast(h.f, Others(h))
  BY <1>5 DEF OnResponse
<1>6. ASSUME NEW f \in Functions, NEW h \in HandlersOf, Alive(M.s),
             Send(M.s, <<Request(f)>>),
             handlers' = Others(h) \cup {[s |-> M.s, c |-> mNextCSeq, f |-> f]},
             mNextCSeq' = mNextCSeq + 1
      PROVE  Asks(M.s, f, sess[M.s].out, handlers \ {h})
  <2>1. PICK m, s : m = Request(f) /\ s = M.s OBVIOUS
  <2>2. m \in Outgoing BY <2>1, OutgoingKinds DEF TypeOK
  <2>3. PICK q : q = Append(sess[s].out, m) OBVIOUS
  <2>4. q \in Seq(Outgoing) /\ q = sess[s].out \o <<m>>
    <3>1. sess[s].out \in Seq(Outgoing) BY <1>3, <2>1, Fields
    <3>2. QED BY <2>2, <2>3, <3>1, Answers
  <2>5. sess' = [sess EXCEPT ![s].out = q] BY <1>6, <2>1, <2>4 DEF Send
  <2>6. Wire(s, q, sess[s].inbox, sess[s].in) BY <1>3, <2>1, <2>4, <2>5, Sends
  <2>7. QED BY <1>3, <1>6, <2>1, <2>3, <2>6 DEF Asks, Others
<1>7. CASE HandlersOf # {}
  <2>1. PICK h \in HandlersOf :
          IF M.d # "200" THEN Abort
          ELSE CASE h.f = "DESCRIBE" -> onReceiveDescribeResponse(M.s, Others(h))
                 [] h.f = "SETUP" -> onReceiveSetupResponse(M.s, Others(h))
                 [] OTHER -> onReceiveLast(h.f, Others(h))
    BY <1>5, <1>7
  <2>2. h.f \in Functions BY DEF HandlersOf, TypeOK
  <2>3. CASE M.d # "200" BY <1>1, <1>2, <2>1, <2>3
  <2>4. CASE M.d = "200" /\ h.f = "DESCRIBE"
    <3>1. onReceiveDescribeResponse(M.s, Others(h)) BY <2>1, <2>4
    <3>2. CASE ~Alive(M.s)
      <4>1. Abort BY <3>1, <3>2 DEF onReceiveDescribeResponse
      <4>2. QED BY <1>1, <1>2, <2>4, <3>2, <4>1
    <3>3. CASE Alive(M.s)
      <4>1. /\ Send(M.s, <<Request("SETUP")>>) /\ mNextCSeq' = mNextCSeq + 1
            /\ handlers' = Others(h) \cup {[s |-> M.s, c |-> mNextCSeq, f |-> "SETUP"]}
            /\ NeedSink /\ UNCHANGED <<mSessionID, mState, aborted>>
        BY <3>1, <3>3 DEF onReceiveDescribeResponse
      <4>2. Asks(M.s, "SETUP", sess[M.s].out, handlers \ {h})
        BY <1>6, <3>3, <4>1 DEF Functions
      <4>3. QED BY <1>1, <1>2, <2>4, <4>1, <4>2
    <3>4. QED BY <3>2, <3>3
  <2>5. CASE M.d = "200" /\ h.f = "SETUP"
    <3>1. onReceiveSetupResponse(M.s, Others(h)) BY <2>1, <2>5
    <3>2. CASE ~Alive(M.s) \/ rtp.open # {"rtp", "rtcp"}
      <4>1. Abort BY <3>1, <3>2 DEF onReceiveSetupResponse
      <4>2. QED BY <1>1, <1>2, <2>5, <3>2, <4>1
    <3>3. CASE Alive(M.s) /\ rtp.open = {"rtp", "rtcp"}
      <4>1. /\ Send(M.s, <<Request("PLAY")>>) /\ mNextCSeq' = mNextCSeq + 1
            /\ handlers' = Others(h) \cup {[s |-> M.s, c |-> mNextCSeq, f |-> "PLAY"]}
            /\ rtp' = [rtp EXCEPT !.conn = TRUE] /\ mState' = "PAUSED"
            /\ UNCHANGED <<mSessionID, sinks, udp, aborted>>
        BY <3>1, <3>3 DEF onReceiveSetupResponse, configureTransport
      <4>2. Asks(M.s, "PLAY", sess[M.s].out, handlers \ {h})
        BY <1>6, <3>3, <4>1 DEF Functions
      <4>3. QED BY <1>1, <1>2, <2>5, <3>3, <4>1, <4>2
    <3>4. QED BY <3>2, <3>3
  <2>6. CASE M.d = "200" /\ h.f \in {"OPTIONS", "PLAY"}
    <3>1. onReceiveLast(h.f, Others(h)) BY <2>1, <2>6
    <3>2. /\ handlers' = handlers \ {h}
          /\ mState' = IF h.f = "PLAY" THEN "PLAYING" ELSE mState
          /\ UNCHANGED <<sess, mSessionID, mNextCSeq, aborted>> /\ SinkKept
      BY <3>1 DEF onReceiveLast, Others, SinkKept
    <3>3. QED BY <1>1, <1>2, <2>6, <3>2
  <2>7. QED BY <2>2, <2>3, <2>4, <2>5, <2>6 DEF Functions
<1>8. QED BY <1>4, <1>7

(* A session begins, or ends with its RTPSink.                             *)
LEMMA OnStartStep ==
  ASSUME TypeOK, OnStart
  PROVE  /\ Deliver("start") /\ M.s \in Sessions /\ UNCHANGED looperOnly
         /\ \/ May("no_host") /\ Abort
            \/ /\ Socket(M.s, "connecting", sess[M.s].rfail, sess[M.s].wfail,
                         sess[M.s].closed)
               /\ mSessionID' = M.s /\ mState' = "CONNECTING"
               /\ UNCHANGED aborted /\ NoFunction /\ SinkKept
<1>1. sess \in [Sessions -> Connections] BY DEF TypeOK
<1>2. Deliver("start") /\ UNCHANGED looperOnly BY DEF OnStart
<1>3. M.s \in Sessions BY <1>2, Delivered, Kinds
<1>4. PICK ok \in Outcomes("no_host") :
        IF ~ok THEN Abort
        ELSE /\ sess' = [sess EXCEPT ![M.s].st = "connecting"]
             /\ mSessionID' = M.s /\ mState' = "CONNECTING"
             /\ UNCHANGED <<rtp, sinks, udp, handlers, mNextCSeq, aborted>>
  BY DEF OnStart
<1>5. CASE ~ok
  <2>1. May("no_host") BY <1>4, <1>5 DEF Outcomes
  <2>2. QED BY <1>2, <1>3, <1>4, <1>5, <2>1
<1>6. CASE ok
  <2>1. PICK s : s = M.s OBVIOUS
  <2>2. sess' = [sess EXCEPT ![s].st = "connecting"] BY <1>4, <1>6, <2>1
  <2>3. Socket(s, "connecting", sess[s].rfail, sess[s].wfail, sess[s].closed)
    BY <1>1, <1>3, <2>1, <2>2 DEF Socket, Only, Connections
  <2>4. QED BY <1>2, <1>3, <1>4, <1>6, <2>1, <2>3 DEF NoFunction, SinkKept
<1>7. QED BY <1>4, <1>5, <1>6

Ends(s) ==
  /\ s \in Sessions /\ s = mSessionID /\ mSessionID' = 0 /\ ReleaseSink
  /\ Socket(s, "gone", sess[s].rfail, sess[s].wfail, sess[s].closed)

(* An error or a stop ends the sink's session, or is for a session that is *)
(* over.                                                                   *)
LEMMA OnEndStep ==
  ASSUME TypeOK, OnError \/ OnStop
  PROVE  /\ UNCHANGED <<mState, sinks, aborted>> /\ NoFunction /\ UNCHANGED looperOnly
         /\ \/ /\ Deliver("error") /\ M.s = mSessionID /\ Ends(M.s)
            \/ /\ Deliver("error") /\ M.s # mSessionID
               /\ UNCHANGED <<sess, mSessionID, rtp, udp>>
            \/ Deliver("stop") /\ mSessionID # 0 /\ Ends(mSessionID)
            \/ /\ Deliver("stop") /\ mSessionID = 0 /\ ReleaseSink
               /\ UNCHANGED <<sess, mSessionID>>
<1>1. sess \in [Sessions -> Connections] BY DEF TypeOK
<1>2. UNCHANGED <<mState, sinks, aborted>> /\ NoFunction /\ UNCHANGED looperOnly
  BY DEF OnError, OnStop, NoFunction
<1>3. ASSUME NEW s \in Sessions, s = mSessionID, sess' = [sess EXCEPT ![s].st = "gone"],
             mSessionID' = 0, ReleaseSink
      PROVE  Ends(s)
  BY <1>1, <1>3 DEF Ends, Socket, Only, Connections
<1>4. CASE OnError
  <2>1. Deliver("error") BY <1>4 DEF OnError
  <2>2. M.s \in Sessions BY <2>1, Delivered, Kinds
  <2>3. CASE M.s = mSessionID
    <3>1. sess' = [sess EXCEPT ![M.s].st = "gone"] /\ mSessionID' = 0 /\ ReleaseSink
      BY <1>4, <2>3 DEF OnError
    <3>2. Ends(M.s) BY <1>3, <2>2, <2>3, <3>1
    <3>3. QED BY <1>2, <2>1, <2>3, <3>2
  <2>4. CASE M.s # mSessionID BY <1>2, <1>4, <2>1, <2>4 DEF OnError
  <2>5. QED BY <2>3, <2>4
<1>5. CASE OnStop
  <2>1. Deliver("stop") /\ mSessionID' = 0 /\ ReleaseSink BY <1>5 DEF OnStop
  <2>2. CASE mSessionID = 0 BY <1>2, <1>5, <2>1, <2>2 DEF OnStop
  <2>3. CASE mSessionID # 0
    <3>1. mSessionID \in Sessions BY <2>3 DEF TypeOK, Sessions
    <3>2. sess' = [sess EXCEPT ![mSessionID].st = "gone"] BY <1>5, <2>3 DEF OnStop
    <3>3. Ends(mSessionID) BY <1>3, <2>1, <3>1, <3>2
    <3>4. QED BY <1>2, <2>1, <2>3, <3>3
  <2>4. QED BY <2>2, <2>3
<1>6. QED BY <1>4, <1>5

(* Types: whatever source, network and application do.  In particular a    *)
(* registered function waits for a number that a request has taken, and    *)
(* every message of the looper is of a session that was asked for.         *)
THEOREM TypeCorrect == Spec => []TypeOK
<1>1. Init => TypeOK
  <2> SUFFICES ASSUME Init PROVE TypeOK
    OBVIOUS
  <2>1. NoSess \in Connections
    <3>1. <<>> \in Seq(Outgoing) /\ <<>> \in Seq(Incoming) OBVIOUS
    <3>2. QED BY <3>1 DEF NoSess, Connections
  <2>2. uri \in BOOLEAN /\ connects \in 0..MaxConnects /\ mSessionID \in 0..MaxConnects
    BY SinkAssumption DEF Init
  <2>3. msgs \in Seq(Incoming \cup Notes) BY DEF Init
  <2>4. sess \in [Sessions -> Connections] BY <2>1 DEF Init
  <2>5. peer \in [Sessions -> [asked : Nat, answered : Nat, playing : BOOLEAN]]
    BY DEF Init, NoPeer
  <2>6. rtp \in [id : 0..sinks, open : SUBSET {"rtp", "rtcp"}, conn : BOOLEAN]
    BY DEF Init, NoSink
  <2>7. /\ udp \subseteq (1..sinks) \X {"rtp", "rtcp"}
        /\ handlers \subseteq [s : Sessions, c : 1 .. mNextCSeq - 1, f : Functions]
    <3>1. udp = {} /\ handlers = {} BY DEF Init
    <3>2. QED BY <3>1
  <2>8. /\ app \in {"idle", "posted", "stopped"} /\ reg \in {"new", "yes", "no"}
        /\ mState \in {"UNDEFINED", "CONNECTING", "CONNECTED", "PAUSED", "PLAYING"}
        /\ sinks \in Nat /\ mNextCSeq \in Nat \ {0}
    BY DEF Init
  <2>9. netRun \in BOOLEAN /\ aborted \in BOOLEAN
    BY Zenon DEF Init
  <2>10. QED BY <2>2, <2>3, <2>4, <2>5, <2>6, <2>7, <2>8, <2>9 DEF TypeOK
<1>2. TypeOK /\ [Next]_vars => TypeOK'
  <2> SUFFICES ASSUME TypeOK, [Next]_vars PROVE TypeOK'
    OBVIOUS
  <2> USE DEF sinkState, netOnly, looperOnly, NoFunction, SinkKept
  <2>1. msgs \in Seq(Letters) BY DEF TypeOK, Letters
  <2>2. ASSUME NEW s \in Sessions, Only(s), msgs' \in Seq(Letters), UNCHANGED <<udp, peer>>,
               UNCHANGED netOnly
        PROVE  TypeOK'
    BY <2>2 DEF TypeOK, Only, Letters
  <2>3. ASSUME msgs' \in Seq(Letters), connects' \in 0..MaxConnects, netRun' \in BOOLEAN,
               reg' \in {"new", "yes", "no"}, app' \in {"idle", "posted", "stopped"},
               UNCHANGED sinkState
        PROVE  TypeOK'
    BY <2>3 DEF TypeOK, Letters
  <2>4. CASE connect_to_wifi_source
    <3>1. connects' \in 1..MaxConnects /\ connects' \in Sessions
      BY <2>4, SinkAssumption DEF connect_to_wifi_source, TypeOK, Sessions
    <3>2. msgs' \in Seq(Letters)
      BY <2>1, <2>4, <3>1, Letter, Posts DEF connect_to_wifi_source
    <3>3. QED BY <2>3, <2>4, <3>1, <3>2 DEF connect_to_wifi_source, TypeOK
  <2>5. CASE disconnectSink
    <3>1. msgs' \in Seq(Letters)
      BY <2>1, <2>5, Letter, Posts DEF disconnectSink, DisconnectPost, DisconnectNet,
         DisconnectUnregister
    <3>2. QED BY <2>3, <2>5, <3>1
          DEF disconnectSink, DisconnectPost, DisconnectNet, DisconnectUnregister, TypeOK
  <2>6. ASSUME NEW s \in Sessions, Connected(s) PROVE TypeOK'
    BY <2>1, <2>2, <2>6, ConnectedStep, Letter, Posts DEF Socket
  <2>7. ASSUME NEW s \in Sessions, readMore(s) PROVE TypeOK'
    <3>1. msgs' \in Seq(Letters)
      <4>1. sess[s].in # <<>> => Head(sess[s].in) \in Letters
        BY Fields, Popped, Letter
      <4>2. QED BY <2>7, <4>1, readMoreStep, Letter, Posts
    <3>2. Only(s) BY <2>7, readMoreStep DEF Socket, Wire
    <3>3. QED BY <2>2, <2>7, <3>1, <3>2, readMoreStep
  <2>8. ASSUME NEW s \in Sessions, writeMore(s) PROVE TypeOK'
    <3>1. msgs' \in Seq(Letters) BY <2>1, <2>8, writeMoreStep, Letter, Posts
    <3>2. Only(s) BY <2>8, writeMoreStep DEF Socket, Wire
    <3>3. QED BY <2>2, <2>8, <3>1, <3>2, writeMoreStep
  <2>9. ASSUME NEW u \in udp, UdpFails(u) PROVE TypeOK'
    <3>1. u[1] \in Nat \ {0} /\ u[2] \in {"rtp", "rtcp"} BY DEF TypeOK
    <3>2. msgs' \in Seq(Letters) BY <2>9, <3>1, Letter, Posts DEF UdpFails
    <3>3. QED BY <2>9, <3>2 DEF UdpFails, TypeOK, Letters
  <2>10. ASSUME NEW s \in Sessions, Only(s), PeerIs(s, peer'[s].asked, peer'[s].answered,
                peer'[s].playing), UNCHANGED <<msgs, udp, netOnly>>
         PROVE  TypeOK'
    BY <2>10 DEF Only, PeerIs, Peers, TypeOK
  <2>11. ASSUME NEW s \in Sessions, PeerAsk(s) PROVE TypeOK'
    BY <2>10, <2>11, PeerAskStep DEF Wire, PeerIs
  <2>12. ASSUME NEW s \in Sessions, PeerTakes(s) PROVE TypeOK'
    BY <2>10, <2>12, PeerTakesStep DEF Wire, PeerIs
  <2>13. ASSUME NEW s \in Sessions, PeerClose(s) PROVE TypeOK'
    BY <2>1, <2>2, <2>13, PeerCloseStep DEF Socket
  <2>14. CASE DropUnregistered
    <3>1. msgs' \in Seq(Letters) BY <2>1, <2>14, Popped DEF DropUnregistered
    <3>2. QED BY <2>3, <2>14, <3>1 DEF DropUnregistered, TypeOK
  \* The steps of the looper: functions, session and RTPSink keep their types.
  <2>15. ASSUME NEW k, Deliver(k), UNCHANGED looperOnly, sess' \in [Sessions -> Connections],
                mSessionID' \in 0..MaxConnects, mState' \in {"UNDEFINED", "CONNECTING",
                "CONNECTED", "PAUSED", "PLAYING"}, sinks' \in Nat,
                rtp' \in [id : 0..sinks', open : SUBSET {"rtp", "rtcp"}, conn : BOOLEAN],
                udp' \subseteq (1..sinks') \X {"rtp", "rtcp"}, mNextCSeq' \in Nat \ {0},
                handlers' \subseteq [s : Sessions, c : 1 .. mNextCSeq' - 1, f : Functions],
                aborted' \in BOOLEAN
         PROVE  TypeOK'
    <3>1. msgs' \in Seq(Letters) BY <2>15, Delivered
    <3>2. QED BY <2>15, <3>1 DEF TypeOK, Letters
  <2>16. ASSUME NEW k, Deliver(k), UNCHANGED looperOnly, Abort PROVE TypeOK'
    BY <2>15, <2>16 DEF Abort, TypeOK
  <2>17. ASSUME NEW s, NEW f \in Functions, NEW o, NEW rest \in SUBSET handlers,
                Asks(s, f, o, rest)
         PROVE  /\ sess' \in [Sessions -> Connections] /\ mNextCSeq' \in Nat \ {0}
                /\ handlers' \subseteq [s : Sessions, c : 1 .. mNextCSeq' - 1, f : Functions]
    <3>1. mNextCSeq \in Nat \ {0} /\ mNextCSeq' = mNextCSeq + 1 /\ s \in Sessions
      BY <2>17 DEF Asks, TypeOK
    <3>2. handlers \subseteq [s : Sessions, c : 1 .. mNextCSeq' - 1, f : Functions]
      BY <3>1 DEF TypeOK
    <3>3. QED BY <2>17, <3>1, <3>2 DEF Asks, Wire, Only
  <2>18. ASSUME SinkKept
         PROVE  /\ sinks' \in Nat /\ udp' \subseteq (1..sinks') \X {"rtp", "rtcp"}
                /\ rtp' \in [id : 0..sinks', open : SUBSET {"rtp", "rtcp"}, conn : BOOLEAN]
    BY <2>18 DEF TypeOK
  <2>19. ASSUME NoFunction
         PROVE  /\ mNextCSeq' \in Nat \ {0}
                /\ handlers' \subseteq [s : Sessions, c : 1 .. mNextCSeq' - 1, f : Functions]
    BY <2>19 DEF TypeOK
  <2>20. CASE OnStart
    <3>1. CASE Abort BY <2>16, <2>20, <3>1, OnStartStep
    <3>2. CASE ~Abort
      <4>1. /\ sess' \in [Sessions -> Connections] /\ mSessionID' \in 0..MaxConnects
            /\ mState' = "CONNECTING" /\ UNCHANGED aborted
            /\ NoFunction /\ SinkKept /\ Deliver("start") /\ UNCHANGED looperOnly
        BY <2>20, <3>2, OnStartStep DEF Socket, Only, Sessions
      <4>2. aborted' \in BOOLEAN BY <4>1 DEF TypeOK
      <4>3. QED BY <2>15, <2>18, <2>19, <4>1, <4>2
    <3>3. QED BY <3>1, <3>2
  <2>21. CASE OnError \/ OnStop
    <3>1. /\ sess' \in [Sessions -> Connections] /\ mSessionID' \in 0..MaxConnects
      <4>1. (\E s : Ends(s)) \/ UNCHANGED <<sess, mSessionID>> BY <2>21, OnEndStep
      <4>2. ASSUME NEW s, Ends(s) PROVE sess' \in [Sessions -> Connections] /\ mSessionID' = 0
        BY <4>2 DEF Ends, Socket, Only
      <4>3. 0 \in 0..MaxConnects BY SinkAssumption
      <4>4. sess \in [Sessions -> Connections] /\ mSessionID \in 0..MaxConnects BY DEF TypeOK
      <4>5. QED BY <4>1, <4>2, <4>3, <4>4
    <3>2. UNCHANGED <<mState, sinks, aborted>> /\ NoFunction /\ UNCHANGED looperOnly
      BY <2>21, OnEndStep
    <3>3. \E k : Deliver(k) BY <2>21, OnEndStep
    <3>4. ReleaseSink \/ UNCHANGED <<rtp, udp>> BY <2>21, OnEndStep DEF Ends
    <3>5. /\ sinks' \in Nat /\ udp' \subseteq (1..sinks') \X {"rtp", "rtcp"}
          /\ rtp' \in [id : 0..sinks', open : SUBSET {"rtp", "rtcp"}, conn : BOOLEAN]
      <4>1. sinks' = sinks /\ sinks \in Nat BY <3>2 DEF TypeOK
      <4>2. NoSink \in [id : 0..sinks, open : SUBSET {"rtp", "rtcp"}, conn : BOOLEAN]
        BY <4>1 DEF NoSink
      <4>3. udp' \subseteq udp BY <3>4 DEF ReleaseSink
      <4>4. rtp' = NoSink \/ rtp' = rtp BY <3>4 DEF ReleaseSink
      <4>5. QED BY <4>1, <4>2, <4>3, <4>4 DEF TypeOK
    <3>6. mState' \in {"UNDEFINED", "CONNECTING", "CONNECTED", "PAUSED", "PLAYING"}
          /\ aborted' \in BOOLEAN
      BY <3>2 DEF TypeOK
    <3>7. QED BY <2>15, <2>19, <3>1, <3>2, <3>3, <3>5, <3>6
  <2>22. CASE OnConnected
    <3>1. Deliver("connected") /\ UNCHANGED looperOnly BY <2>22, OnConnectedStep
    <3>2. CASE Abort BY <2>16, <3>1, <3>2
    <3>3. CASE ~Abort
      <4>1. /\ sess' \in [Sessions -> Connections] /\ mNextCSeq' \in Nat \ {0}
            /\ handlers' \subseteq [s : Sessions, c : 1 .. mNextCSeq' - 1, f : Functions]
        <5>1. CASE ~uri BY <2>19, <2>22, <3>3, <5>1, OnConnectedStep DEF TypeOK
        <5>2. CASE uri
          <6>1. Asks(mSessionID, "DESCRIBE", sess[mSessionID].out, handlers)
            BY <2>22, <3>3, <5>2, OnConnectedStep
          <6>2. QED BY <2>17, <6>1 DEF Functions
        <5>3. QED BY <5>1, <5>2
      <4>2. /\ mState' = "CONNECTED" /\ UNCHANGED <<mSessionID, aborted>> /\ SinkKept
        BY <2>22, <3>3, OnConnectedStep
      <4>3. mSessionID' \in 0..MaxConnects /\ aborted' \in BOOLEAN BY <4>2 DEF TypeOK
      <4>4. QED BY <2>15, <2>18, <3>1, <4>1, <4>2, <4>3
    <3>4. QED BY <3>2, <3>3
  <2>23. CASE OnRequest
    <3>1. Deliver("data") /\ UNCHANGED looperOnly BY <2>23, OnRequestStep
    <3>2. CASE Abort BY <2>16, <3>1, <3>2
    <3>3. CASE ~Abort
      <4>1. UNCHANGED <<mSessionID, mState, aborted>> /\ (NeedSink \/ SinkKept)
        BY <2>23, <3>3, OnRequestStep
      <4>2. /\ sess' \in [Sessions -> Connections] /\ mNextCSeq' \in Nat \ {0}
            /\ handlers' \subseteq [s : Sessions, c : 1 .. mNextCSeq' - 1, f : Functions]
        <5>1. \/ NoFunction /\ Wire(M.s, Append(sess[M.s].out, Answer), sess[M.s].inbox,
                                    sess[M.s].in)
              \/ \E f \in Functions : Asks(M.s, f, Append(sess[M.s].out, Answer), handlers)
          BY <2>23, <3>3, OnRequestStep DEF Functions
        <5>2. QED BY <2>17, <2>19, <5>1 DEF Wire, Only
      <4>3. /\ sinks' \in Nat /\ udp' \subseteq (1..sinks') \X {"rtp", "rtcp"}
            /\ rtp' \in [id : 0..sinks', open : SUBSET {"rtp", "rtcp"}, conn : BOOLEAN]
        BY <2>18, <4>1, NeedSinkStep
      <4>4. /\ mSessionID' \in 0..MaxConnects /\ aborted' \in BOOLEAN
            /\ mState' \in {"UNDEFINED", "CONNECTING", "CONNECTED", "PAUSED", "PLAYING"}
        BY <4>1 DEF TypeOK
      <4>5. QED BY <2>15, <3>1, <4>2, <4>3, <4>4
    <3>4. QED BY <3>2, <3>3
  <2>24. CASE OnResponse
    <3>1. Deliver("data") /\ UNCHANGED looperOnly BY <2>24, OnResponseStep
    <3>2. CASE Abort BY <2>16, <3>1, <3>2
    <3>3. CASE ~Abort
      <4>1. UNCHANGED <<mSessionID, aborted>>
            /\ mState' \in {mState, "PAUSED", "PLAYING"}
        BY <2>24, <3>3, OnResponseStep
      <4>2. /\ sess' \in [Sessions -> Connections] /\ mNextCSeq' \in Nat \ {0}
            /\ handlers' \subseteq [s : Sessions, c : 1 .. mNextCSeq' - 1, f : Functions]
        <5>1. \/ UNCHANGED sess /\ handlers' \subseteq handlers /\ UNCHANGED mNextCSeq
              \/ \E f \in Functions, h \in HandlersOf :
                   Asks(M.s, f, sess[M.s].out, handlers \ {h})
          BY <2>24, <3>3, OnResponseStep DEF Functions
        <5>2. CASE UNCHANGED sess /\ handlers' \subseteq handlers /\ UNCHANGED mNextCSeq
          BY <5>2 DEF TypeOK
        <5>3. ASSUME NEW f \in Functions, NEW h \in HandlersOf,
                     Asks(M.s, f, sess[M.s].out, handlers \ {h})
              PROVE  /\ sess' \in [Sessions -> Connections] /\ mNextCSeq' \in Nat \ {0}
                     /\ handlers' \subseteq [s : Sessions, c : 1 .. mNextCSeq' - 1,
                                             f : Functions]
          <6>1. handlers \ {h} \in SUBSET handlers OBVIOUS
          <6>2. QED BY <2>17, <5>3, <6>1
        <5>4. QED BY <5>1, <5>2, <5>3
      <4>3. /\ sinks' \in Nat /\ udp' \subseteq (1..sinks') \X {"rtp", "rtcp"}
            /\ rtp' \in [id : 0..sinks', open : SUBSET {"rtp", "rtcp"}, conn : BOOLEAN]
        <5>1. \/ SinkKept \/ NeedSink
              \/ rtp' = [rtp EXCEPT !.conn = TRUE] /\ UNCHANGED <<sinks, udp>>
          BY <2>24, <3>3, OnResponseStep
        <5>2. QED BY <2>18, <5>1, NeedSinkStep DEF TypeOK
      <4>4. /\ mSessionID' \in 0..MaxConnects /\ aborted' \in BOOLEAN
            /\ mState' \in {"UNDEFINED", "CONNECTING", "CONNECTED", "PAUSED", "PLAYING"}
        BY <4>1 DEF TypeOK
      <4>5. QED BY <2>15, <3>1, <4>2, <4>3, <4>4
    <3>4. QED BY <3>2, <3>3
  <2>25. CASE OnUdpError
    <3>1. msgs' \in Seq(Letters) BY <2>1, <2>25, Popped DEF OnUdpError
    <3>2. udp' \subseteq udp BY <2>25 DEF OnUdpError
    <3>3. rtp' \in [id : 0..sinks, open : SUBSET {"rtp", "rtcp"}, conn : BOOLEAN]
      <4>1. rtp \in [id : 0..sinks, open : SUBSET {"rtp", "rtcp"}, conn : BOOLEAN]
        BY DEF TypeOK
      <4>2. rtp' = [rtp EXCEPT !.open = @ \ {M.d}] \/ rtp' = rtp BY <2>25 DEF OnUdpError
      <4>3. PICK d : d = M.d OBVIOUS
      <4>4. [rtp EXCEPT !.open = @ \ {d}]
              \in [id : 0..sinks, open : SUBSET {"rtp", "rtcp"}, conn : BOOLEAN]
        BY <4>1
      <4>5. QED BY <4>1, <4>2, <4>3, <4>4
    <3>4. QED BY <2>25, <3>1, <3>2, <3>3 DEF OnUdpError, TypeOK, Letters
  <2>26. CASE UNCHANGED vars
    BY <2>26 DEF vars, TypeOK
  <2>27. QED
    BY <2>4, <2>5, <2>6, <2>7, <2>8, <2>9, <2>11, <2>12, <2>13, <2>14, <2>20, <2>21, <2>22,
       <2>23, <2>24, <2>25, <2>26
    DEF Next, Network, Peer, Looper
<1>3. QED BY <1>1, <1>2, PTL DEF Spec


-----------------------------------------------------------------------------
(***************************************************************************)
(* What is proved leaves out the behaviours that the run of WfdSink leaves *)
(* out: each of them breaks NoAbort or ResponsesMatched.                    *)
(***************************************************************************)
Covered ==
  \A b \in {"send_fail", "udp_early", "refuse", "no_host", "overlap", "stop_race",
            "drop_stop"} : ~May(b)

(* The behaviours that Covered leaves out, one by one.                     *)
LEMMA Excluded ==
  ASSUME Covered
  PROVE  /\ ~May("send_fail") /\ ~May("udp_early") /\ ~May("refuse") /\ ~May("no_host")
         /\ ~May("overlap") /\ ~May("stop_race") /\ ~May("drop_stop")
         /\ Outcomes("refuse") = {TRUE}
BY DEF Covered, Outcomes

(* The session that exists, if any, is the sink's, and the sink's handler  *)
(* is registered; a session that nobody has asked for is untouched.        *)
Unused(s) == sess[s] = NoSess /\ peer[s] = NoPeer /\ \A h \in handlers : h.s # s
SessInv ==
  /\ \A s \in Sessions : Alive(s) => s = mSessionID /\ reg = "yes"
  /\ mSessionID # 0 => Alive(mSessionID)
  /\ \A s \in Sessions : s > connects => Unused(s)
  /\ \A s \in Sessions : \A m \in Items(sess[s].in) : m.s = s /\ m.d # "4xx"
  /\ \A s \in Sessions : sess[s].st = "connecting" => ~sess[s].closed

(* The messages of the looper: a start message is the last call's, data is *)
(* of the session that exists, an error is of a session on which nothing   *)
(* more arrives, and a stop is of a disconnectSink that still runs.        *)
Dead(s) ==
  \/ sess[s].st = "gone"
  \/ sess[s].st = "connecting" /\ sess[s].wfail
  \/ sess[s].closed /\ sess[s].in = <<>>
Started(m) == m.k = "start" => m.s = connects /\ mSessionID = 0 /\ Unused(m.s)
Current(m) ==
  m.k \in {"data", "connected"} =>
    m.s = mSessionID /\ sess[m.s].st = "connected" /\ m.d # "4xx"
Fatal(m) == m.k = "error" => Dead(m.s)
Ended(m) == m.k = "stop" => app # "idle"
Good(m)  == Started(m) /\ Current(m) /\ Fatal(m) /\ Ended(m)

(* Their order: no data of a session comes after its error, and after a    *)
(* stop only errors come.                                                  *)
Rest == {"error", "udp"}
Before(m, n) ==
  /\ m.k = "start" => n.k # "start"
  /\ m.k = "error" => ~(n.k \in {"data", "connected"} /\ n.s = m.s)
  /\ m.k = "stop" => n.k \in Rest
  /\ m.k \in {"data", "connected"} => n.k # "connected"
Ordered(q)  == \A i, j \in 1..Len(q) : i < j => Before(q[i], q[j])
Holds(q, k) == \E m \in Items(q) : m.k = k
OrderInv ==
  /\ \A m \in Items(msgs) : Good(m)
  /\ Ordered(msgs)
  /\ \/ app = "idle" /\ reg = "yes"
     \/ app # "idle" /\ Holds(msgs, "stop")
     \/ mSessionID = 0 /\ \A m \in Items(msgs) : m.k \in Rest
  /\ app # "idle" => reg = "yes"

(* The guard Pending, over the elements of the looper's queue.             *)
LEMMA PendingHolds ==
  ASSUME TypeOK, NEW k PROVE Pending(k) <=> Holds(msgs, k)
<1>1. DOMAIN msgs = 1..Len(msgs) BY DEF TypeOK
<1>2. QED BY <1>1 DEF Pending, Holds, Items

(* The order is kept by a message that may follow all those queued.        *)
LEMMA OrderedPush ==
  ASSUME NEW q \in Seq(Letters), NEW m \in Letters, Ordered(q),
         \A x \in Items(q) : Before(x, m)
  PROVE  Ordered(Append(q, m))
<1>1. PICK r : r = Append(q, m) OBVIOUS
<1>2. /\ Len(r) = Len(q) + 1 /\ r[Len(q) + 1] = m /\ Len(q) \in Nat
      /\ \A k \in 1..Len(q) : r[k] = q[k] /\ q[k] \in Items(q)
  BY <1>1, Pushed DEF Items
<1>3. ASSUME NEW i \in 1..Len(r), NEW j \in 1..Len(r), i < j PROVE Before(r[i], r[j])
  <2>1. i \in 1..Len(q) BY <1>2, <1>3
  <2>2. j \in 1..Len(q) \/ j = Len(q) + 1 BY <1>2, <1>3
  <2>3. CASE j \in 1..Len(q) BY <1>2, <1>3, <2>1, <2>3 DEF Ordered
  <2>4. CASE j = Len(q) + 1
    <3>1. Before(q[i], m) BY <1>2, <2>1
    <3>2. QED BY <1>2, <2>1, <2>4, <3>1
  <2>5. QED BY <2>2, <2>3, <2>4
<1>4. QED BY <1>1, <1>3 DEF Ordered

(* The order is kept by a delivery; the rest may follow the message        *)
(* delivered.                                                              *)
LEMMA OrderedPop ==
  ASSUME NEW q \in Seq(Letters), q # <<>>, Ordered(q)
  PROVE  Ordered(Tail(q)) /\ \A x \in Items(Tail(q)) : Before(Head(q), x)
<1>1. PICK r : r = Tail(q) OBVIOUS
<1>2. /\ Len(r) = Len(q) - 1 /\ Len(q) \in Nat /\ Head(q) = q[1] /\ DOMAIN r = 1 .. Len(q) - 1
      /\ \A k \in 1 .. Len(q) - 1 : r[k] = q[k + 1]
  BY <1>1, Popped
<1>3. Ordered(r)
  <2> SUFFICES ASSUME NEW i \in 1..Len(r), NEW j \in 1..Len(r), i < j
               PROVE  Before(r[i], r[j])
    BY DEF Ordered
  <2>1. i + 1 \in 1..Len(q) /\ j + 1 \in 1..Len(q) /\ i + 1 < j + 1 BY <1>2
  <2>2. Before(q[i + 1], q[j + 1]) BY <2>1 DEF Ordered
  <2>3. r[i] = q[i + 1] /\ r[j] = q[j + 1] BY <1>2
  <2>4. QED BY <2>2, <2>3
<1>4. ASSUME NEW x \in Items(r) PROVE Before(Head(q), x)
  <2>1. PICK k \in 1 .. Len(q) - 1 : x = r[k] BY <1>2 DEF Items
  <2>2. 1 \in 1..Len(q) /\ k + 1 \in 1..Len(q) /\ 1 < k + 1 BY <1>2, <2>1
  <2>3. Before(q[1], q[k + 1]) BY <2>2 DEF Ordered
  <2>4. QED BY <1>2, <2>1, <2>3
<1>5. QED BY <1>1, <1>3, <1>4

(* A step on session s that neither begins nor ends it, and one that       *)
(* leaves the sessions alone.                                              *)
Touches(s) ==
  /\ s \in Sessions /\ Only(s) /\ sess[s] # NoSess
  /\ sess'[s].st = sess[s].st \/ (sess[s].st = "connecting" /\ sess'[s].st = "connected")
  /\ sess'[s].st = "connecting" => ~sess'[s].closed
  /\ Dead(s) => Dead(s)'
  /\ \A m \in Items(sess'[s].in) : m.s = s /\ m.d # "4xx"
  /\ \A t \in Sessions \ {s} : peer'[t] = peer[t]
  /\ \A h \in handlers' : h \in handlers \/ h.s = s
  /\ UNCHANGED <<mSessionID, reg, connects, app>>
Still ==
  /\ UNCHANGED <<sess, peer, mSessionID, reg, connects, app>>
  /\ handlers' \subseteq handlers

(* A step on one session that does not end it keeps SessInv and what the   *)
(* queued messages say.                                                    *)
LEMMA Touched ==
  ASSUME TypeOK, SessInv, NEW s, Touches(s)
  PROVE  SessInv' /\ \A m \in Letters : Good(m) => Good(m)'
<1>1. s \in Sessions /\ \A t \in Sessions \ {s} : sess'[t] = sess[t] /\ peer'[t] = peer[t]
  BY DEF Touches, Only
<1>2. UNCHANGED <<mSessionID, reg, connects, app>> BY DEF Touches
<1>3. sess[s] # NoSess BY DEF Touches
<1>4. ASSUME NEW t \in Sessions, Unused(t) PROVE t # s /\ Unused(t)'
  <2>1. t # s BY <1>3, <1>4 DEF Unused
  <2>2. sess'[t] = sess[t] /\ peer'[t] = peer[t] BY <1>1, <2>1
  <2>3. \A h \in handlers' : h.s # t BY <1>4, <2>1 DEF Touches, Unused
  <2>4. QED BY <1>4, <2>1, <2>2, <2>3 DEF Unused
<1>5. \A t \in Sessions : Alive(t)' <=> Alive(t)
  BY <1>1 DEF Touches, Alive
<1>6. \A t \in Sessions : sess[t].st = "connected" => sess'[t].st = "connected"
  BY <1>1 DEF Touches
<1>7. \A t \in Sessions : Dead(t) => Dead(t)'
  BY <1>1 DEF Touches, Dead
<1>8. SessInv'
  <2>1. \A t \in Sessions : Alive(t)' => t = mSessionID' /\ reg' = "yes"
    BY <1>2, <1>5 DEF SessInv
  <2>2. mSessionID' # 0 => Alive(mSessionID)'
    <3>1. mSessionID # 0 => mSessionID \in Sessions BY DEF TypeOK, Sessions
    <3>2. mSessionID # 0 => Alive(mSessionID) BY DEF SessInv
    <3>3. \A t \in Sessions : Alive(t) => t # 0 /\ sess'[t].st \in {"connecting", "connected"}
      BY <1>5 DEF Alive
    <3>4. QED BY <1>2, <3>1, <3>2, <3>3 DEF Alive
  <2>3. \A t \in Sessions : t > connects' => Unused(t)'
    BY <1>2, <1>4 DEF SessInv
  <2>4. \A t \in Sessions : \A m \in Items(sess'[t].in) : m.s = t /\ m.d # "4xx"
    BY <1>1 DEF Touches, SessInv
  <2>5. \A t \in Sessions : sess'[t].st = "connecting" => ~sess'[t].closed
    BY <1>1 DEF Touches, SessInv
  <2>6. QED BY <2>1, <2>2, <2>3, <2>4, <2>5 DEF SessInv
<1>9. ASSUME NEW m \in Letters, Good(m) PROVE Good(m)'
  <2>1. m.k \in {"start", "data", "connected", "error"} => m.s \in Sessions BY Kinds
  <2>2. Started(m)' BY <1>2, <1>4, <1>9, <2>1 DEF Good, Started
  <2>3. Current(m)' BY <1>2, <1>6, <1>9, <2>1 DEF Good, Current
  <2>4. Fatal(m)' BY <1>7, <1>9, <2>1 DEF Good, Fatal
  <2>5. Ended(m)' BY <1>2, <1>9 DEF Good, Ended
  <2>6. QED BY <2>2, <2>3, <2>4, <2>5 DEF Good
<1>10. QED BY <1>8, <1>9

(* So does a step that leaves the sessions alone.                          *)
LEMMA Unmoved ==
  ASSUME SessInv, Still
  PROVE  SessInv' /\ \A m \in Letters : Good(m) => Good(m)'
<1>1. UNCHANGED <<sess, peer, mSessionID, reg, connects, app>> /\ handlers' \subseteq handlers
  BY DEF Still
<1>2. \A s : Unused(s) => Unused(s)' BY <1>1 DEF Unused
<1>3. \A s : (Alive(s)' <=> Alive(s)) /\ (Dead(s)' <=> Dead(s)) BY <1>1 DEF Alive, Dead
<1>4. SessInv' BY <1>1, <1>2, <1>3 DEF SessInv, Alive
<1>5. ASSUME NEW m \in Letters, Good(m) PROVE Good(m)'
  BY <1>1, <1>2, <1>3, <1>5 DEF Good, Started, Current, Fatal, Ended
<1>6. QED BY <1>4, <1>5

(* OrderInv when a message is posted.                                      *)
LEMMA Pushes ==
  ASSUME TypeOK, OrderInv, NEW m \in Letters, msgs' = Append(msgs, m), Good(m)',
         \A n \in Letters : Good(n) => Good(n)', \A x \in Items(msgs) : Before(x, m),
         mSessionID # 0 \/ m.k \in Rest, UNCHANGED <<app, reg, mSessionID>>
  PROVE  OrderInv'
<1>1. msgs \in Seq(Letters) BY DEF TypeOK, Letters
<1>2. Items(msgs') = Items(msgs) \cup {m} /\ Items(msgs) \subseteq Letters
  BY <1>1, ItemsPushed, ItemsOf
<1>3. Ordered(msgs') BY <1>1, OrderedPush DEF OrderInv
<1>4. \A n \in Items(msgs') : Good(n)' BY <1>2 DEF OrderInv
<1>5. Holds(msgs, "stop") => Holds(msgs', "stop") BY <1>2 DEF Holds
<1>6. QED BY <1>2, <1>3, <1>4, <1>5 DEF OrderInv

(* OrderInv when a message is delivered.                                   *)
LEMMA Pops ==
  ASSUME TypeOK, OrderInv, msgs # <<>>, msgs' = Tail(msgs), M.k # "stop" \/ mSessionID = 0,
         \A n \in Letters : Good(n) => Good(n)', UNCHANGED <<app, reg, mSessionID>>
  PROVE  OrderInv'
<1>1. msgs \in Seq(Letters) BY DEF TypeOK, Letters
<1>2. Items(msgs) = Items(msgs') \cup {M} /\ Items(msgs) \subseteq Letters
  BY <1>1, ItemsPopped, ItemsOf DEF M
<1>3. Ordered(msgs') /\ \A x \in Items(msgs') : Before(M, x)
  BY <1>1, OrderedPop DEF OrderInv, M
<1>4. \A n \in Items(msgs') : Good(n)' BY <1>2 DEF OrderInv
<1>5. CASE M.k # "stop"
  <2>1. Holds(msgs, "stop") => Holds(msgs', "stop") BY <1>2, <1>5 DEF Holds
  <2>2. QED BY <1>2, <1>3, <1>4, <2>1 DEF OrderInv
<1>6. CASE M.k = "stop"
  <2>1. \A x \in Items(msgs') : x.k \in Rest BY <1>3, <1>6 DEF Before
  <2>2. QED BY <1>3, <1>4, <1>6, <2>1 DEF OrderInv
<1>7. QED BY <1>5, <1>6

(* OrderInv when the queue stays as it is.                                 *)
LEMMA Keeps ==
  ASSUME TypeOK, OrderInv, UNCHANGED <<msgs, app, reg, mSessionID>>,
         \A n \in Letters : Good(n) => Good(n)'
  PROVE  OrderInv'
<1>1. msgs \in Seq(Letters) BY DEF TypeOK, Letters
<1>2. Items(msgs) \subseteq Letters BY <1>1, ItemsOf
<1>3. QED BY <1>2 DEF OrderInv

(* The application's calls.                                                *)
LEMMA AppOrder ==
  ASSUME Covered, TypeOK, SessInv, OrderInv, connect_to_wifi_source \/ disconnectSink
  PROVE  SessInv' /\ OrderInv'
<1>1. msgs \in Seq(Letters) BY DEF TypeOK, Letters
<1>2. Items(msgs) \subseteq Letters BY <1>1, ItemsOf
<1>3. UNCHANGED <<sess, mSessionID, handlers, peer>>
  BY DEF connect_to_wifi_source, disconnectSink, DisconnectPost, DisconnectNet,
     DisconnectUnregister, sinkState
<1>4. \A s : (Alive(s)' <=> Alive(s)) /\ (Dead(s)' <=> Dead(s)) /\ (Unused(s)' <=> Unused(s))
  BY <1>3 DEF Alive, Dead, Unused
<1>5. ASSUME connects' >= connects, Alive(mSessionID) => reg' = "yes", connects' \in Nat
      PROVE  SessInv'
  <2>1. connects \in Nat BY DEF TypeOK
  <2>2. \A s \in Sessions : s > connects' => s > connects BY <1>5, <2>1 DEF Sessions
  <2>3. QED BY <1>3, <1>4, <1>5, <2>2 DEF SessInv, Alive
<1>6. CASE connect_to_wifi_source
  <2>1. /\ app = "idle" /\ mSessionID = 0 /\ ~Pending("start")
        /\ connects' = connects + 1 /\ connects < MaxConnects
        /\ reg' = (IF reg = "new" THEN "yes" ELSE reg) /\ app' = app
        /\ msgs' = IF reg' = "yes" THEN Append(msgs, Note(connects', "start")) ELSE msgs
    BY <1>6, Excluded DEF connect_to_wifi_source
  <2>2. connects \in Nat /\ connects' \in Nat /\ connects' \in Sessions
    BY <2>1, SinkAssumption DEF TypeOK, Sessions
  <2>3. SessInv' BY <1>5, <2>1, <2>2 DEF Alive
  <2>4. \A x \in Items(msgs) : x.k # "start" BY <2>1, PendingHolds DEF Holds
  <2>5. \A x \in Items(msgs) : x.k # "stop" BY <2>1 DEF OrderInv, Good, Ended
  <2>6. \A x \in Items(msgs) : Good(x)'
    BY <1>3, <1>4, <2>1, <2>4 DEF OrderInv, Good, Started, Current, Fatal, Ended
  <2>7. CASE reg' = "yes"
    <3>1. PICK m : m = Note(connects', "start") OBVIOUS
    <3>2. m \in Letters /\ m.k = "start" /\ m.s = connects' BY <2>2, <3>1, Letter DEF Note
    <3>3. Unused(connects') BY <2>1, <2>2 DEF SessInv
    <3>4. Good(m)'
      BY <1>3, <1>4, <2>1, <3>2, <3>3 DEF Good, Started, Current, Fatal, Ended
    <3>5. \A x \in Items(msgs) : Before(x, m) BY <2>4, <2>5, <3>2 DEF Before
    <3>6. msgs' = Append(msgs, m) BY <2>1, <2>7, <3>1
    <3>7. Items(msgs') = Items(msgs) \cup {m} /\ Ordered(msgs')
      BY <1>1, <3>2, <3>5, <3>6, ItemsPushed, OrderedPush DEF OrderInv
    <3>8. OrderInv' BY <2>1, <2>6, <2>7, <3>4, <3>7 DEF OrderInv
    <3>9. QED BY <2>3, <3>8
  <2>8. CASE reg' # "yes"
    <3>1. msgs' = msgs /\ reg # "yes" BY <2>1, <2>8
    <3>2. OrderInv' BY <1>3, <2>1, <2>6, <3>1 DEF OrderInv
    <3>3. QED BY <2>3, <3>2
  <2>9. QED BY <2>7, <2>8
<1>7. CASE DisconnectPost
  <2>1. /\ app = "idle" /\ reg = "yes" /\ app' = "posted"
        /\ UNCHANGED <<connects, reg>> /\ msgs' = Posted(Note(0, "stop"))
    BY <1>7 DEF DisconnectPost
  <2>2. PICK m : m = Note(0, "stop") OBVIOUS
  <2>3. m \in Letters /\ m.k = "stop" BY <2>2, Letter DEF Note
  <2>4. msgs' = Append(msgs, m) BY <2>1, <2>2, <2>3, Posts
  <2>5. SessInv' BY <1>5, <2>1 DEF TypeOK
  <2>6. \A x \in Items(msgs) : x.k # "stop" BY <2>1 DEF OrderInv, Good, Ended
  <2>7. \A x \in Items(msgs) : Good(x)'
    BY <1>3, <1>4, <2>1 DEF OrderInv, Good, Started, Current, Fatal, Ended
  <2>8. Good(m)' BY <2>1, <2>3 DEF Good, Started, Current, Fatal, Ended
  <2>9. \A x \in Items(msgs) : Before(x, m) BY <2>3, <2>6 DEF Before
  <2>10. Items(msgs') = Items(msgs) \cup {m} /\ Ordered(msgs')
    BY <1>1, <2>3, <2>4, <2>9, ItemsPushed, OrderedPush DEF OrderInv
  <2>11. Holds(msgs', "stop") BY <2>3, <2>10 DEF Holds
  <2>12. OrderInv' BY <2>1, <2>7, <2>8, <2>10, <2>11 DEF OrderInv
  <2>13. QED BY <2>5, <2>12
<1>8. CASE DisconnectNet
  <2>1. app = "posted" /\ app' = "stopped" /\ UNCHANGED <<connects, reg, msgs>>
    BY <1>8 DEF DisconnectNet
  <2>2. SessInv' BY <1>5, <2>1 DEF TypeOK, SessInv, OrderInv
  <2>3. \A x \in Items(msgs) : Good(x)'
    BY <1>3, <1>4, <2>1 DEF OrderInv, Good, Started, Current, Fatal, Ended
  <2>4. OrderInv' BY <1>3, <2>1, <2>3 DEF OrderInv
  <2>5. QED BY <2>2, <2>4
<1>9. CASE DisconnectUnregister
  <2>1. /\ app = "stopped" /\ ~Pending("stop") /\ reg' = "no" /\ app' = "idle"
        /\ UNCHANGED <<connects, msgs>>
    BY <1>9, Excluded DEF DisconnectUnregister
  <2>2. ~Holds(msgs, "stop") BY <2>1, PendingHolds
  <2>3. mSessionID = 0 /\ \A m \in Items(msgs) : m.k \in Rest BY <2>1, <2>2 DEF OrderInv
  <2>4. SessInv' BY <1>5, <2>1, <2>3 DEF TypeOK, Alive
  <2>5. \A x \in Items(msgs) : Good(x)'
    BY <1>3, <1>4, <2>1, <2>2 DEF OrderInv, Good, Started, Current, Fatal, Ended, Holds
  <2>6. OrderInv' BY <1>3, <2>1, <2>3, <2>5 DEF OrderInv
  <2>7. QED BY <2>4, <2>6
<1>10. QED BY <1>6, <1>7, <1>8, <1>9 DEF disconnectSink

(* The network thread.                                                     *)
LEMMA NetOrder ==
  ASSUME Covered, TypeOK, SessInv, OrderInv, NEW s \in Sessions,
         Connected(s) \/ readMore(s) \/ writeMore(s)
  PROVE  SessInv' /\ OrderInv' /\ Touches(s)
<1> USE DEF netOnly
<1>1. UNCHANGED <<app, connects, reg, mSessionID, handlers, peer>>
  BY ConnectedStep, readMoreStep, writeMoreStep
<1>2. Alive(s) /\ sess[s] # NoSess
  <2>1. sess[s].st \in {"connecting", "connected"}
    BY ConnectedStep, readMoreStep, writeMoreStep
  <2>2. QED BY <2>1 DEF Alive, NoSess, Sessions
<1>3. s = mSessionID /\ reg = "yes" /\ mSessionID # 0 BY <1>2 DEF SessInv, Sessions
<1>4. \A x \in Items(msgs) : Good(x) BY DEF OrderInv
<1>5. \A k \in {"connected", "error"} :
        /\ Note(s, k) \in Letters /\ Note(s, k).k = k /\ Note(s, k).s = s /\ Note(s, k).d = ""
        /\ Posted(Note(s, k)) = Append(msgs, Note(s, k))
  BY <1>3, Letter, Posts DEF Note
<1>6. ASSUME Touches(s), Dead(s)', msgs' = Posted(Note(s, "error"))
      PROVE  SessInv' /\ OrderInv' /\ Touches(s)
  <2>1. PICK m : m = Note(s, "error") OBVIOUS
  <2>2. m \in Letters /\ m.k = "error" /\ m.s = s /\ msgs' = Append(msgs, m)
    BY <1>5, <1>6, <2>1
  <2>3. Good(m)' BY <1>6, <2>2 DEF Good, Started, Current, Fatal, Ended
  <2>4. \A x \in Items(msgs) : Before(x, m) BY <2>2 DEF Before, Rest
  <2>5. SessInv' /\ \A n \in Letters : Good(n) => Good(n)' BY <1>6, Touched
  <2>6. OrderInv' BY <1>1, <1>3, <2>2, <2>3, <2>4, <2>5, Pushes
  <2>7. QED BY <1>6, <2>5, <2>6
<1>7. ASSUME Touches(s), NEW m \in Letters, m.k \in {"data", "connected"}, m.s = s, m.d # "4xx",
             sess'[s].st = "connected", app = "idle", ~Dead(s), msgs' = Append(msgs, m),
             m.k = "connected" => sess[s].st # "connected"
      PROVE  SessInv' /\ OrderInv' /\ Touches(s)
  <2>1. Good(m)' BY <1>1, <1>3, <1>7 DEF Good, Started, Current, Fatal, Ended
  <2>2. \A x \in Items(msgs) : x.k # "stop" /\ (x.k = "error" => x.s # s)
    BY <1>4, <1>7 DEF Good, Fatal, Ended
  <2>3. m.k = "connected" => \A x \in Items(msgs) : x.k \notin {"data", "connected"}
    BY <1>3, <1>4, <1>7 DEF Good, Current
  <2>4. \A x \in Items(msgs) : Before(x, m) BY <1>7, <2>2, <2>3 DEF Before
  <2>5. SessInv' /\ \A n \in Letters : Good(n) => Good(n)' BY <1>7, Touched
  <2>6. OrderInv' BY <1>1, <1>3, <1>7, <2>1, <2>4, <2>5, Pushes
  <2>7. QED BY <1>7, <2>5, <2>6
<1>8. \A m \in Items(sess[s].in) : m.s = s /\ m.d # "4xx" BY DEF SessInv
<1>9. sess[s].st = "connecting" => ~sess[s].closed BY DEF SessInv
<1>10. CASE Connected(s)
  <2>1. Quiet /\ sess[s].st = "connecting" /\ ~sess[s].wfail BY <1>10, ConnectedStep
  <2>2. app = "idle" BY <2>1, Excluded DEF Quiet
  <2>3. ~Dead(s) BY <1>9, <2>1 DEF Dead
  <2>4. CASE /\ Socket(s, "connected", sess[s].rfail, sess[s].wfail, sess[s].closed)
             /\ msgs' = Posted(Note(s, "connected"))
    <3>1. Touches(s) BY <1>1, <1>2, <1>8, <2>1, <2>3, <2>4 DEF Touches, Socket
    <3>2. PICK m : m = Note(s, "connected") OBVIOUS
    <3>3. /\ m \in Letters /\ m.k = "connected" /\ m.s = s /\ m.d # "4xx"
          /\ msgs' = Append(msgs, m)
      BY <1>5, <2>4, <3>2
    <3>4. QED BY <1>7, <2>1, <2>2, <2>3, <2>4, <3>1, <3>3 DEF Socket
  <2>5. CASE /\ Socket(s, "connecting", sess[s].rfail, TRUE, sess[s].closed)
             /\ msgs' = Posted(Note(s, "error"))
    <3>1. Touches(s) BY <1>1, <1>2, <1>8, <1>9, <2>1, <2>3, <2>5 DEF Touches, Socket
    <3>2. Dead(s)' BY <2>5 DEF Dead, Socket
    <3>3. QED BY <1>6, <2>5, <3>1, <3>2
  <2>6. QED BY <1>10, <2>4, <2>5, ConnectedStep
<1>11. CASE readMore(s)
  <2>1. Quiet /\ sess[s].st = "connected" BY <1>11, readMoreStep
  <2>2. app = "idle" BY <2>1, Excluded DEF Quiet
  <2>3. CASE /\ sess[s].in # <<>>
             /\ Wire(s, sess[s].out, sess[s].inbox, Tail(sess[s].in))
             /\ msgs' = Posted(Head(sess[s].in))
    <3>1. ~Dead(s) BY <2>1, <2>3 DEF Dead
    <3>2. Items(Tail(sess[s].in)) \subseteq Items(sess[s].in)
          /\ Head(sess[s].in) \in Items(sess[s].in) /\ Head(sess[s].in) \in Incoming
      BY <2>3, Fields, ItemsPopped, Popped
    <3>3. Touches(s) BY <1>1, <1>2, <1>8, <2>1, <2>3, <3>1, <3>2 DEF Touches, Wire
    <3>4. PICK m : m = Head(sess[s].in) OBVIOUS
    <3>5. m \in Letters /\ m.k = "data" /\ m.s = s /\ m.d # "4xx"
      BY <1>8, <3>2, <3>4, Letter, IncomingKinds
    <3>6. msgs' = Append(msgs, m) BY <1>3, <2>3, <3>4, <3>5, Posts
    <3>7. QED BY <1>7, <2>1, <2>2, <2>3, <3>1, <3>3, <3>5, <3>6 DEF Wire
  <2>4. CASE /\ sess[s].in = <<>> /\ sess[s].closed
             /\ Socket(s, sess[s].st, TRUE, sess[s].wfail, sess[s].closed)
             /\ msgs' = Posted(Note(s, "error"))
    <3>1. Dead(s)' BY <2>4 DEF Dead, Socket
    <3>2. Touches(s) BY <1>1, <1>2, <1>8, <2>1, <2>4, <3>1 DEF Touches, Socket
    <3>3. QED BY <1>6, <2>4, <3>1, <3>2
  <2>5. QED BY <1>11, <2>3, <2>4, readMoreStep
<1>12. CASE writeMore(s)
  <2>1. sess[s].st = "connected" BY <1>12, writeMoreStep
  <2>2. CASE /\ Wire(s, Tail(sess[s].out), Append(sess[s].inbox, Head(sess[s].out)), sess[s].in)
             /\ msgs' = msgs
    <3>1. Dead(s) => Dead(s)' BY <2>2 DEF Dead, Wire
    <3>2. Touches(s) BY <1>1, <1>2, <1>8, <2>1, <2>2, <3>1 DEF Touches, Wire
    <3>3. SessInv' /\ \A n \in Letters : Good(n) => Good(n)' BY <3>2, Touched
    <3>4. OrderInv' BY <1>1, <2>2, <3>3, Keeps
    <3>5. QED BY <3>2, <3>3, <3>4
  <2>3. CASE /\ May("send_fail") \/ (sess[s].closed /\ sess[s].in = <<>>)
             /\ Socket(s, sess[s].st, sess[s].rfail, TRUE, sess[s].closed)
             /\ msgs' = Posted(Note(s, "error"))
    <3>1. Dead(s)' BY <2>3, Excluded DEF Dead, Socket
    <3>2. Touches(s) BY <1>1, <1>2, <1>8, <2>1, <2>3, <3>1 DEF Touches, Socket
    <3>3. QED BY <1>6, <2>3, <3>1, <3>2
  <2>4. QED BY <1>12, <2>2, <2>3, writeMoreStep
<1>13. QED BY <1>10, <1>11, <1>12

(* A datagram socket that fails posts a message that may follow any other. *)
LEMMA UdpOrder ==
  ASSUME Covered, TypeOK, SessInv, OrderInv, NEW u \in udp, UdpFails(u)
  PROVE  SessInv' /\ OrderInv'
<1> USE DEF netOnly
<1>1. Still BY DEF UdpFails, Still
<1>2. PICK m : m = [k |-> "udp", s |-> u[1], d |-> u[2], c |-> 0] OBVIOUS
<1>3. u[1] \in Nat \ {0} /\ u[2] \in {"rtp", "rtcp"} BY DEF TypeOK
<1>4. m \in Letters /\ m.k = "udp" BY <1>2, <1>3, Letter
<1>5. msgs' = Append(msgs, m) BY <1>2 DEF UdpFails
<1>6. Good(m)' BY <1>4 DEF Good, Started, Current, Fatal, Ended
<1>7. \A x \in Items(msgs) : Before(x, m) BY <1>4 DEF Before, Rest
<1>8. SessInv' /\ \A n \in Letters : Good(n) => Good(n)' BY <1>1, Unmoved
<1>9. m.k \in Rest BY <1>4 DEF Rest
<1>10. UNCHANGED <<app, reg, mSessionID>> BY <1>1 DEF Still
<1>11. OrderInv' BY <1>4, <1>5, <1>6, <1>7, <1>8, <1>9, <1>10, Pushes
<1>12. QED BY <1>8, <1>11

(* The source.                                                             *)
LEMMA PeerOrder ==
  ASSUME Covered, TypeOK, SessInv, OrderInv, NEW s \in Sessions,
         PeerAsk(s) \/ PeerTakes(s) \/ PeerClose(s)
  PROVE  SessInv' /\ OrderInv' /\ Touches(s)
<1> USE DEF netOnly
<1>1. UNCHANGED <<app, connects, reg, mSessionID, handlers, msgs>>
  BY PeerAskStep, PeerTakesStep, PeerCloseStep
<1>2. sess[s] # NoSess
  <2>1. sess[s].st = "connected" \/ sess[s].inbox # <<>>
    BY PeerAskStep, PeerTakesStep, PeerCloseStep
  <2>2. QED BY <2>1 DEF NoSess
<1>3. \A m \in Items(sess[s].in) : m.s = s /\ m.d # "4xx" BY DEF SessInv
<1>4. sess[s].st = "connecting" => ~sess[s].closed BY DEF SessInv
<1>5. SUFFICES Touches(s)
  <2>1. SessInv' /\ \A n \in Letters : Good(n) => Good(n)' BY <1>5, Touched
  <2>2. OrderInv' BY <1>1, <2>1, Keeps
  <2>3. QED BY <1>5, <2>1, <2>2
<1>6. \A e \in Incoming : Items(Append(sess[s].in, e)) = Items(sess[s].in) \cup {e}
  BY Fields, ItemsPushed
<1>7. CASE PeerAsk(s)
  <2>1. PICK d \in Requests :
          Wire(s, sess[s].out, sess[s].inbox,
               Append(sess[s].in, [k |-> "data", s |-> s, d |-> d, c |-> 0]))
    BY <1>7, PeerAskStep
  <2>2. PICK e : e = [k |-> "data", s |-> s, d |-> d, c |-> 0] OBVIOUS
  <2>3. e \in Incoming /\ e.s = s /\ e.d # "4xx" BY <2>2, IncomingKinds DEF Requests
  <2>4. Wire(s, sess[s].out, sess[s].inbox, Append(sess[s].in, e)) BY <2>1, <2>2
  <2>5. \A m \in Items(sess'[s].in) : m.s = s /\ m.d # "4xx"
    BY <1>3, <1>6, <2>3, <2>4 DEF Wire
  <2>6. /\ sess[s].st = "connected" /\ ~sess[s].closed
        /\ \A t \in Sessions \ {s} : peer'[t] = peer[t]
    BY <1>7, PeerAskStep DEF PeerIs
  <2>7. Dead(s) => Dead(s)' BY <2>4, <2>6 DEF Dead, Wire
  <2>8. QED BY <1>1, <1>2, <2>4, <2>5, <2>6, <2>7 DEF Touches, Wire
<1>8. CASE PeerTakes(s)
  <2>1. ~sess[s].closed /\ Head(sess[s].inbox) \in Outgoing BY <1>8, PeerTakesStep
  <2>2. \A t \in Sessions \ {s} : peer'[t] = peer[t]
    BY <1>8, PeerTakesStep DEF PeerIs
  <2>3. CASE Wire(s, sess[s].out, Tail(sess[s].inbox), sess[s].in)
    <3>1. Dead(s) => Dead(s)' BY <2>3 DEF Dead, Wire
    <3>2. QED BY <1>1, <1>2, <1>3, <1>4, <2>2, <2>3, <3>1 DEF Touches, Wire
  <2>4. CASE \E ok \in Outcomes("refuse") :
               /\ Head(sess[s].inbox).d # "answer"
               /\ Wire(s, sess[s].out, Tail(sess[s].inbox),
                       Append(sess[s].in, [k |-> "data", s |-> s,
                                           d |-> IF ok THEN "200" ELSE "4xx",
                                           c |-> Head(sess[s].inbox).c]))
    <3>1. PICK e : e = [k |-> "data", s |-> s, d |-> "200", c |-> Head(sess[s].inbox).c]
      OBVIOUS
    <3>2. /\ Wire(s, sess[s].out, Tail(sess[s].inbox), Append(sess[s].in, e))
          /\ Head(sess[s].inbox).d # "answer"
      <4>1. PICK ok \in Outcomes("refuse") :
              /\ Head(sess[s].inbox).d # "answer"
              /\ Wire(s, sess[s].out, Tail(sess[s].inbox),
                      Append(sess[s].in, [k |-> "data", s |-> s,
                                          d |-> IF ok THEN "200" ELSE "4xx",
                                          c |-> Head(sess[s].inbox).c]))
        BY <2>4
      <4>2. (IF ok THEN "200" ELSE "4xx") = "200"
        <5>1. ok = TRUE BY <4>1, Excluded
        <5>2. QED BY Zenon, <5>1
      <4>3. [k |-> "data", s |-> s, d |-> IF ok THEN "200" ELSE "4xx",
             c |-> Head(sess[s].inbox).c] = e
        BY <3>1, <4>2
      <4>4. QED BY <4>1, <4>3
    <3>3. e \in Incoming /\ e.s = s /\ e.d # "4xx"
      BY <2>1, <3>1, <3>2, IncomingKinds, OutgoingKinds
    <3>4. \A m \in Items(sess'[s].in) : m.s = s /\ m.d # "4xx"
      BY <1>3, <1>6, <3>2, <3>3 DEF Wire
    <3>5. Dead(s) => Dead(s)' BY <2>1, <3>2 DEF Dead, Wire
    <3>6. QED BY <1>1, <1>2, <1>4, <2>2, <3>2, <3>4, <3>5 DEF Touches, Wire
  <2>5. QED BY <1>8, <2>3, <2>4, PeerTakesStep
<1>9. CASE PeerClose(s)
  <2>1. /\ sess[s].st = "connected" /\ peer' = peer
        /\ Socket(s, sess[s].st, sess[s].rfail, sess[s].wfail, TRUE)
    BY <1>9, PeerCloseStep
  <2>2. Dead(s) => Dead(s)' BY <2>1 DEF Dead, Socket
  <2>3. QED BY <1>1, <1>2, <1>3, <2>1, <2>2 DEF Touches, Socket
<1>10. QED BY <1>7, <1>8, <1>9

(* The looper.                                                             *)
LEMMA LooperOrder ==
  ASSUME Covered, TypeOK, SessInv, OrderInv, Looper
  PROVE  SessInv' /\ OrderInv'
<1> USE DEF looperOnly, NoFunction
<1>1. msgs \in Seq(Letters) BY DEF TypeOK, Letters
<1>2. Items(msgs) \subseteq Letters BY <1>1, ItemsOf
<1>3. ASSUME msgs # <<>>, msgs' = Tail(msgs), M.k # "stop" \/ mSessionID = 0,
             Still \/ \E s : Touches(s)
      PROVE  SessInv' /\ OrderInv'
  <2>1. SessInv' /\ \A n \in Letters : Good(n) => Good(n)' BY <1>3, Touched, Unmoved
  <2>2. UNCHANGED <<app, reg, mSessionID>> BY <1>3 DEF Still, Touches
  <2>3. OrderInv' BY <1>3, <2>1, <2>2, Pops
  <2>4. QED BY <2>1, <2>3
<1>4. ASSUME NEW s \in Sessions, Alive(s), NEW o, Wire(s, o, sess[s].inbox, sess[s].in),
             UNCHANGED mSessionID, UNCHANGED looperOnly,
             \A h \in handlers' : h \in handlers \/ h.s = s
      PROVE  Touches(s)
  <2>1. sess[s] # NoSess BY <1>4 DEF Alive, NoSess
  <2>2. Dead(s) => Dead(s)' BY <1>4 DEF Dead, Wire
  <2>3. \A m \in Items(sess[s].in) : m.s = s /\ m.d # "4xx" BY DEF SessInv
  <2>4. sess[s].st = "connecting" => ~sess[s].closed BY DEF SessInv
  <2>5. QED BY <1>4, <2>1, <2>2, <2>3, <2>4 DEF Touches, Wire
<1>5. ASSUME NEW s, NEW f, NEW o, NEW rest \in SUBSET handlers, Asks(s, f, o, rest),
             UNCHANGED mSessionID, UNCHANGED looperOnly
      PROVE  Touches(s)
  <2>1. s \in Sessions /\ Alive(s) /\ Wire(s, Append(o, Request(f)), sess[s].inbox, sess[s].in)
    BY <1>5 DEF Asks
  <2>2. \A h \in handlers' : h \in handlers \/ h.s = s BY <1>5 DEF Asks
  <2>3. QED BY <1>4, <1>5, <2>1, <2>2
<1>6. ASSUME Abort, UNCHANGED looperOnly PROVE Still
  BY <1>6 DEF Abort, Still
\* A session ends: its errors and the messages of the others remain.
<1>7. ASSUME NEW s, Ends(s), UNCHANGED looperOnly, NoFunction, msgs # <<>>, msgs' = Tail(msgs),
             \/ M.k = "error" /\ M.s = s
             \/ M.k = "stop"
      PROVE  SessInv' /\ OrderInv'
  <2>1. /\ s \in Sessions /\ s = mSessionID /\ mSessionID' = 0 /\ s # 0
        /\ sess'[s].st = "gone" /\ sess'[s].in = sess[s].in
        /\ \A t \in Sessions \ {s} : sess'[t] = sess[t]
    BY <1>7 DEF Ends, Socket, Only, Sessions
  <2>2. Alive(s) BY <2>1 DEF SessInv
  <2>3. \A t \in Sessions : ~Alive(t)'
    <3>1. \A t \in Sessions : Alive(t) => t = s BY <2>1 DEF SessInv
    <3>2. QED BY <2>1, <3>1 DEF Alive
  <2>4. \A t \in Sessions : Unused(t) => t # s /\ Unused(t)'
    <3>1. sess[s] # NoSess BY <2>2 DEF Alive, NoSess
    <3>2. QED BY <1>7, <2>1, <3>1 DEF Unused
  <2>5. \A t \in Sessions : Dead(t) => Dead(t)' BY <2>1 DEF Dead
  <2>6. SessInv'
    <3>1. \A t \in Sessions : t > connects' => Unused(t)' BY <1>7, <2>4 DEF SessInv
    <3>2. \A t \in Sessions : \A m \in Items(sess'[t].in) : m.s = t /\ m.d # "4xx"
      BY <2>1 DEF SessInv
    <3>3. \A t \in Sessions : sess'[t].st = "connecting" => ~sess'[t].closed
      BY <2>1 DEF SessInv
    <3>4. QED BY <2>1, <2>3, <3>1, <3>2, <3>3 DEF SessInv
  <2>7. Items(msgs) = Items(msgs') \cup {M} /\ Ordered(msgs') /\ M \in Letters
        /\ \A x \in Items(msgs') : Before(M, x)
    BY <1>1, <1>2, <1>7, ItemsPopped, OrderedPop DEF OrderInv, M
  <2>8. ASSUME NEW m \in Items(msgs') PROVE Good(m)'
    <3>1. m \in Letters /\ Good(m) BY <1>2, <2>7 DEF OrderInv
    <3>2. Started(m)' BY <2>1, <3>1 DEF Good, Started
    <3>3. m.k \notin {"data", "connected"}
      BY <1>7, <2>1, <2>7, <3>1 DEF Good, Current, Before, Rest
    <3>4. Fatal(m)' BY <2>5, <3>1, Kinds DEF Good, Fatal
    <3>5. Ended(m)' BY <1>7, <3>1 DEF Good, Ended
    <3>6. QED BY <3>2, <3>3, <3>4, <3>5 DEF Good, Current
  <2>9. CASE M.k = "error"
    <3>1. Holds(msgs, "stop") => Holds(msgs', "stop") BY <2>7, <2>9 DEF Holds
    <3>2. QED BY <1>7, <2>1, <2>6, <2>7, <2>8, <3>1 DEF OrderInv
  <2>10. CASE M.k = "stop"
    <3>1. \A x \in Items(msgs') : x.k \in Rest BY <2>7, <2>10 DEF Before
    <3>2. QED BY <1>7, <2>1, <2>6, <2>7, <2>8, <3>1 DEF OrderInv
  <2>11. QED BY <1>7, <2>9, <2>10
<1>8. CASE DropUnregistered
  <2>1. /\ msgs # <<>> /\ msgs' = Tail(msgs) /\ reg = "no" /\ UNCHANGED <<sess, peer,
           mSessionID, reg, connects, app, handlers>>
    BY <1>8 DEF DropUnregistered, sinkState
  <2>2. Still BY <2>1 DEF Still
  <2>3. M.k # "stop" \/ mSessionID = 0
    BY <2>1 DEF OrderInv
  <2>4. QED BY <1>3, <2>1, <2>2, <2>3
<1>9. CASE OnStart
  <2>1. /\ Deliver("start") /\ M.s \in Sessions /\ UNCHANGED looperOnly /\ NoFunction
        /\ Socket(M.s, "connecting", sess[M.s].rfail, sess[M.s].wfail, sess[M.s].closed)
        /\ mSessionID' = M.s
    BY <1>9, OnStartStep, Excluded
  <2>2. M \in Items(msgs) /\ M.k = "start" /\ reg = "yes" /\ msgs # <<>> /\ msgs' = Tail(msgs)
    BY <2>1, Delivered
  <2>3. M.s = connects /\ mSessionID = 0 /\ Unused(M.s)
    BY <2>2 DEF OrderInv, Good, Started
  <2>4. PICK s : s = M.s OBVIOUS
  <2>5. /\ s \in Sessions /\ sess'[s].st = "connecting" /\ ~sess'[s].closed
        /\ sess'[s].in = <<>> /\ mSessionID' = s /\ sess[s] = NoSess
        /\ \A t \in Sessions \ {s} : sess'[t] = sess[t]
    <3>1. sess[s] = NoSess BY <2>3, <2>4 DEF Unused
    <3>2. sess[s].in = <<>> /\ ~sess[s].closed BY <3>1 DEF NoSess
    <3>3. Socket(s, "connecting", sess[s].rfail, sess[s].wfail, sess[s].closed)
      BY <2>1, <2>4
    <3>4. QED BY <2>1, <2>4, <3>1, <3>2, <3>3 DEF Socket, Only
  <2>6. \A t \in Sessions : ~Alive(t) BY <2>3 DEF SessInv, Sessions
  <2>7. \A t \in Sessions : Alive(t)' => t = s BY <2>5, <2>6 DEF Alive
  <2>8. Alive(s)' BY <2>5 DEF Alive, Sessions
  <2>9. SessInv'
    <3>1. \A t \in Sessions : t > connects' => Unused(t)'
      <4>1. connects' = connects BY <2>1
      <4>2. \A t \in Sessions : t > connects => t # s BY <2>3, <2>4 DEF TypeOK, Sessions
      <4>3. \A t \in Sessions \ {s} : Unused(t) => Unused(t)' BY <2>1, <2>5 DEF Unused
      <4>4. QED BY <4>1, <4>2, <4>3 DEF SessInv
    <3>2. \A t \in Sessions : \A m \in Items(sess'[t].in) : m.s = t /\ m.d # "4xx"
      <4>1. Items(sess'[s].in) = {}
        <5>1. <<>> \in Seq(Incoming) OBVIOUS
        <5>2. QED BY <2>5, <5>1, ItemsOf
      <4>2. QED BY <2>5, <4>1 DEF SessInv
    <3>3. \A t \in Sessions : sess'[t].st = "connecting" => ~sess'[t].closed
      BY <2>5 DEF SessInv
    <3>4. mSessionID' # 0 => Alive(mSessionID)' BY <2>5 DEF Alive
    <3>5. \A t \in Sessions : Alive(t)' => t = mSessionID' /\ reg' = "yes"
      BY <2>1, <2>2, <2>5, <2>7
    <3>6. QED BY <3>1, <3>2, <3>3, <3>4, <3>5 DEF SessInv
  <2>10. Items(msgs) = Items(msgs') \cup {M} /\ Ordered(msgs')
         /\ \A x \in Items(msgs') : Before(M, x)
    BY <1>1, <2>2, ItemsPopped, OrderedPop DEF OrderInv, M
  <2>11. ASSUME NEW m \in Items(msgs') PROVE Good(m)'
    <3>1. m \in Letters /\ Good(m) /\ m.k # "start" BY <1>2, <2>2, <2>10 DEF OrderInv, Before
    <3>2. m.k \notin {"data", "connected"}
      BY <2>3, <3>1, Kinds DEF Good, Current, Sessions
    <3>3. ~Dead(s) BY <2>5 DEF Dead, NoSess
    <3>4. Fatal(m)'
      <4>1. \A t \in Sessions \ {s} : Dead(t) => Dead(t)' BY <2>5 DEF Dead
      <4>2. QED BY <3>1, <3>3, <4>1, Kinds DEF Good, Fatal
    <3>5. Ended(m)' BY <2>1, <3>1 DEF Good, Ended
    <3>6. QED BY <3>1, <3>2, <3>4, <3>5 DEF Good, Started, Current
  <2>12. Holds(msgs, "stop") => Holds(msgs', "stop") BY <2>2, <2>10 DEF Holds
  <2>13. ~\A x \in Items(msgs) : x.k \in Rest BY <2>2 DEF Rest
  <2>14. OrderInv' BY <2>1, <2>2, <2>10, <2>11, <2>12, <2>13 DEF OrderInv
  <2>15. QED BY <2>9, <2>14
<1>10. CASE OnError \/ OnStop
  <2>1. UNCHANGED looperOnly /\ NoFunction BY <1>10, OnEndStep
  <2>2. CASE Deliver("error") /\ M.s = mSessionID /\ Ends(M.s)
    BY <1>7, <2>1, <2>2, Delivered
  <2>3. CASE Deliver("error") /\ M.s # mSessionID /\ UNCHANGED <<sess, mSessionID, rtp, udp>>
    <3>1. Still BY <2>1, <2>3 DEF Still
    <3>2. QED BY <1>3, <2>3, <3>1, Delivered
  <2>4. CASE Deliver("stop") /\ mSessionID # 0 /\ Ends(mSessionID)
    BY <1>7, <2>1, <2>4, Delivered
  <2>5. CASE Deliver("stop") /\ mSessionID = 0 /\ UNCHANGED <<sess, mSessionID>>
    <3>1. Still BY <2>1, <2>5 DEF Still
    <3>2. QED BY <1>3, <2>5, <3>1, Delivered
  <2>6. QED BY <1>10, <2>2, <2>3, <2>4, <2>5, OnEndStep
<1>11. CASE OnConnected
  <2>1. Deliver("connected") /\ UNCHANGED looperOnly BY <1>11, OnConnectedStep
  <2>2. CASE UNCHANGED <<sess, mSessionID>> /\ NoFunction
    <3>1. Still BY <2>1, <2>2 DEF Still
    <3>2. QED BY <1>3, <2>1, <3>1, Delivered
  <2>3. CASE Abort BY <1>3, <1>6, <2>1, <2>3, Delivered
  <2>4. CASE Asks(mSessionID, "DESCRIBE", sess[mSessionID].out, handlers)
             /\ UNCHANGED mSessionID
    <3>1. Touches(mSessionID) BY <1>5, <2>1, <2>4
    <3>2. QED BY <1>3, <2>1, <3>1, Delivered
  <2>5. QED BY <1>11, <2>2, <2>3, <2>4, OnConnectedStep
<1>12. CASE OnRequest
  <2>1. Deliver("data") /\ UNCHANGED looperOnly /\ M.s \in Sessions
    BY <1>12, OnRequestStep, IncomingKinds
  <2>2. CASE Abort BY <1>3, <1>6, <2>1, <2>2, Delivered
  <2>3. CASE /\ Alive(M.s) /\ NoFunction /\ UNCHANGED mSessionID
             /\ Wire(M.s, Append(sess[M.s].out, Answer), sess[M.s].inbox, sess[M.s].in)
    <3>1. Touches(M.s) BY <1>4, <2>1, <2>3
    <3>2. QED BY <1>3, <2>1, <3>1, Delivered
  <2>4. CASE \E f : Asks(M.s, f, Append(sess[M.s].out, Answer), handlers)
                    /\ UNCHANGED mSessionID
    <3>1. Touches(M.s) BY <1>5, <2>1, <2>4
    <3>2. QED BY <1>3, <2>1, <3>1, Delivered
  <2>5. QED BY <1>12, <2>2, <2>3, <2>4, OnRequestStep
<1>13. CASE OnResponse
  <2>1. Deliver("data") /\ UNCHANGED looperOnly BY <1>13, OnResponseStep
  <2>2. CASE Abort BY <1>3, <1>6, <2>1, <2>2, Delivered
  <2>3. CASE UNCHANGED <<sess, mSessionID>> /\ handlers' \subseteq handlers
    <3>1. Still BY <2>1, <2>3 DEF Still
    <3>2. QED BY <1>3, <2>1, <3>1, Delivered
  <2>4. CASE \E f, h : Asks(M.s, f, sess[M.s].out, handlers \ {h}) /\ UNCHANGED mSessionID
    <3>1. PICK f, h : Asks(M.s, f, sess[M.s].out, handlers \ {h}) /\ UNCHANGED mSessionID
      BY <2>4
    <3>2. handlers \ {h} \in SUBSET handlers OBVIOUS
    <3>3. Touches(M.s) BY <1>5, <2>1, <3>1, <3>2
    <3>4. QED BY <1>3, <2>1, <3>3, Delivered
  <2>5. QED BY <1>13, <2>2, <2>3, <2>4, OnResponseStep
<1>14. CASE OnUdpError
  <2>1. Still /\ msgs # <<>> /\ msgs' = Tail(msgs) /\ M.k # "stop"
    BY <1>14 DEF OnUdpError, Still
  <2>2. QED BY <1>3, <2>1
<1>15. QED BY <1>8, <1>9, <1>10, <1>11, <1>12, <1>13, <1>14 DEF Looper

(* The order of the messages is kept by every step.                        *)
LEMMA OrderStep ==
  ASSUME Covered, TypeOK, SessInv, OrderInv, [Next]_vars
  PROVE  SessInv' /\ OrderInv'
<1>1. CASE connect_to_wifi_source \/ disconnectSink BY <1>1, AppOrder
<1>2. CASE Network BY <1>2, NetOrder DEF Network
<1>3. CASE \E u \in udp : UdpFails(u) BY <1>3, UdpOrder
<1>4. CASE Peer \/ \E s \in Sessions : PeerClose(s) BY <1>4, PeerOrder DEF Peer
<1>5. CASE Looper BY <1>5, LooperOrder
<1>6. CASE UNCHANGED vars
  <2>1. Still BY <1>6 DEF vars, Still
  <2>2. SessInv' /\ \A n \in Letters : Good(n) => Good(n)' BY <2>1, Unmoved
  <2>3. OrderInv' BY <1>6, <2>2, Keeps DEF vars
  <2>4. QED BY <2>2, <2>3
<1>7. QED BY <1>1, <1>2, <1>3, <1>4, <1>5, <1>6 DEF Next

(* The first state: no message, no session.                                *)
LEMMA OrderInit ==
  ASSUME Init PROVE SessInv /\ OrderInv
<1>1. msgs = <<>> /\ \A s \in Sessions : sess[s].in = <<>> BY DEF Init, NoSess
<1>2. <<>> \in Seq(Letters) /\ <<>> \in Seq(Incoming) OBVIOUS
<1>3. Items(msgs) = {} /\ \A s \in Sessions : Items(sess[s].in) = {} BY <1>1, <1>2, ItemsOf
<1>4. Ordered(msgs) BY <1>1 DEF Ordered
<1>5. \A s \in Sessions : sess[s].st = "none" /\ Unused(s) BY DEF Init, NoSess, Unused
<1>6. SessInv BY <1>3, <1>5 DEF SessInv, Alive, Init
<1>7. OrderInv BY <1>3, <1>4 DEF OrderInv, Init
<1>8. QED BY <1>6, <1>7

-----------------------------------------------------------------------------
(***************************************************************************)
(* The messages between the sink and the source, by number: in the         *)
(* session's two queues to the source, in the one from it, or with the     *)
(* looper.                                                                 *)
(***************************************************************************)
Has(q, X)  == \E m \in Items(q) : m \in X
Once(q, X) == \A i, j \in DOMAIN q : q[i] \in X /\ q[j] \in X => i = j
Ours(x)    == {m \in Outgoing : m.c = x}
Theirs(x)  == {m \in Letters : m.k = "data" /\ m.c = x}

AnyOf(o, i, n, l, x) ==
  Has(o, Ours(x)) \/ Has(i, Ours(x)) \/ Has(n, Theirs(x)) \/ Has(l, Theirs(x))
OneOf(o, i, n, l, x) ==
  /\ Once(o, Ours(x)) /\ Once(i, Ours(x)) /\ Once(n, Theirs(x)) /\ Once(l, Theirs(x))
  /\ Has(o, Ours(x)) => ~Has(i, Ours(x)) /\ ~Has(n, Theirs(x)) /\ ~Has(l, Theirs(x))
  /\ Has(i, Ours(x)) => ~Has(n, Theirs(x)) /\ ~Has(l, Theirs(x))
  /\ Has(n, Theirs(x)) => ~Has(l, Theirs(x))

(* A message of X in a queue that has grown.                               *)
LEMMA HasPushed ==
  ASSUME NEW S, NEW q \in Seq(S), NEW e \in S, NEW X
  PROVE  /\ Has(Append(q, e), X) <=> Has(q, X) \/ e \in X
         /\ Once(q, X) /\ ~(Has(q, X) /\ e \in X) => Once(Append(q, e), X)
<1>1. Items(Append(q, e)) = Items(q) \cup {e} BY ItemsPushed
<1>2. Has(Append(q, e), X) <=> Has(q, X) \/ e \in X BY <1>1 DEF Has
<1>3. ASSUME Once(q, X), ~(Has(q, X) /\ e \in X) PROVE Once(Append(q, e), X)
  <2>1. PICK r : r = Append(q, e) OBVIOUS
  <2>2. /\ DOMAIN r = 1 .. Len(q) + 1 /\ DOMAIN q = 1..Len(q) /\ Len(q) \in Nat
        /\ r[Len(q) + 1] = e /\ \A k \in 1..Len(q) : r[k] = q[k]
    BY <2>1, Pushed
  <2>3. \A k \in DOMAIN r : k \in DOMAIN q \/ k = Len(q) + 1 BY <2>2
  <2>4. \A k \in DOMAIN q : r[k] \in X => Has(q, X) BY <2>2 DEF Has, Items
  <2>5. \A j, k \in DOMAIN q : r[j] \in X /\ r[k] \in X => j = k BY <1>3, <2>2 DEF Once
  <2>6. \A j, k \in DOMAIN r : r[j] \in X /\ r[k] \in X => j = k
    BY <1>3, <2>2, <2>3, <2>4, <2>5
  <2>7. QED BY <2>1, <2>6 DEF Once
<1>4. QED BY <1>2, <1>3

(* A message of X in a queue and in its rest.                              *)
LEMMA HasPopped ==
  ASSUME NEW S, NEW q \in Seq(S), q # <<>>, NEW X
  PROVE  /\ Has(q, X) <=> Has(Tail(q), X) \/ Head(q) \in X
         /\ Once(q, X) => /\ Once(Tail(q), X)
                          /\ Head(q) \in X => ~Has(Tail(q), X)
<1>1. Items(q) = Items(Tail(q)) \cup {Head(q)} BY ItemsPopped
<1>2. Has(q, X) <=> Has(Tail(q), X) \/ Head(q) \in X BY <1>1 DEF Has
<1>3. ASSUME Once(q, X)
      PROVE  Once(Tail(q), X) /\ (Head(q) \in X => ~Has(Tail(q), X))
  <2>1. PICK r : r = Tail(q) OBVIOUS
  <2>2. /\ DOMAIN r = 1 .. Len(q) - 1 /\ DOMAIN q = 1..Len(q) /\ Len(q) \in Nat
        /\ Head(q) = q[1] /\ 1 \in DOMAIN q /\ \A k \in 1 .. Len(q) - 1 : r[k] = q[k + 1]
    BY <2>1, Popped
  <2>3. \A k \in DOMAIN r : k \in Int /\ k + 1 \in DOMAIN q /\ k + 1 # 1 /\ r[k] = q[k + 1]
    BY <2>2
  <2>4. \A j, k \in DOMAIN r : r[j] \in X /\ r[k] \in X => j = k
    <3>1. \A j, k \in DOMAIN r : r[j] \in X /\ r[k] \in X => j + 1 = k + 1
      BY <1>3, <2>3 DEF Once
    <3>2. QED BY <2>3, <3>1
  <2>5. ASSUME Head(q) \in X, NEW k \in DOMAIN r PROVE r[k] \notin X
    BY <1>3, <2>2, <2>3, <2>5 DEF Once
  <2>6. Head(q) \in X => ~Has(r, X) BY <2>5 DEF Has, Items
  <2>7. QED BY <2>1, <2>4, <2>6 DEF Once
<1>4. QED BY <1>2, <1>3

(* A message moves to the next of the four places.                         *)
LEMMA Carried ==
  ASSUME NEW o \in Seq(Outgoing), NEW i \in Seq(Outgoing), NEW n, NEW l, NEW x, o # <<>>
  PROVE  /\ OneOf(o, i, n, l, x) => OneOf(Tail(o), Append(i, Head(o)), n, l, x)
         /\ AnyOf(o, i, n, l, x) <=> AnyOf(Tail(o), Append(i, Head(o)), n, l, x)
<1>1. PICK X : X = Ours(x) OBVIOUS
<1>2. PICK h, t, j : h = Head(o) /\ t = Tail(o) /\ j = Append(i, h) OBVIOUS
<1>3. h \in Outgoing BY <1>2, Popped
<1>4. /\ Has(o, X) <=> Has(t, X) \/ h \in X
      /\ Once(o, X) => Once(t, X) /\ (h \in X => ~Has(t, X))
  BY <1>2, HasPopped
<1>5. /\ Has(j, X) <=> Has(i, X) \/ h \in X
      /\ Once(i, X) /\ ~(Has(i, X) /\ h \in X) => Once(j, X)
  BY <1>2, <1>3, HasPushed
<1>6. OneOf(o, i, n, l, x) => OneOf(t, j, n, l, x) BY <1>1, <1>4, <1>5 DEF OneOf
<1>7. AnyOf(o, i, n, l, x) <=> AnyOf(t, j, n, l, x) BY <1>1, <1>4, <1>5 DEF AnyOf
<1>8. QED BY <1>2, <1>6, <1>7

(* A message from the source's stream to the looper is still in one place. *)
LEMMA Arrived ==
  ASSUME NEW o, NEW i, NEW n \in Seq(Incoming), NEW l \in Seq(Letters), NEW x, n # <<>>
  PROVE  /\ OneOf(o, i, n, l, x) => OneOf(o, i, Tail(n), Append(l, Head(n)), x)
         /\ AnyOf(o, i, n, l, x) <=> AnyOf(o, i, Tail(n), Append(l, Head(n)), x)
<1>1. PICK X : X = Theirs(x) OBVIOUS
<1>2. PICK h, t, j : h = Head(n) /\ t = Tail(n) /\ j = Append(l, h) OBVIOUS
<1>3. h \in Letters BY <1>2, Popped, Letter
<1>4. /\ Has(n, X) <=> Has(t, X) \/ h \in X
      /\ Once(n, X) => Once(t, X) /\ (h \in X => ~Has(t, X))
  BY <1>2, HasPopped
<1>5. /\ Has(j, X) <=> Has(l, X) \/ h \in X
      /\ Once(l, X) /\ ~(Has(l, X) /\ h \in X) => Once(j, X)
  BY <1>2, <1>3, HasPushed
<1>6. OneOf(o, i, n, l, x) => OneOf(o, i, t, j, x) BY <1>1, <1>4, <1>5 DEF OneOf
<1>7. AnyOf(o, i, n, l, x) <=> AnyOf(o, i, t, j, x) BY <1>1, <1>4, <1>5 DEF AnyOf
<1>8. QED BY <1>2, <1>6, <1>7

(* The source takes a message, and may answer it with e.                   *)
LEMMA Dropped ==
  ASSUME NEW o, NEW i \in Seq(Outgoing), NEW n, NEW l, NEW x, i # <<>>
  PROVE  /\ OneOf(o, i, n, l, x) =>
              /\ OneOf(o, Tail(i), n, l, x)
              /\ Head(i).c = x => ~AnyOf(o, Tail(i), n, l, x)
         /\ Head(i).c # x => (AnyOf(o, i, n, l, x) <=> AnyOf(o, Tail(i), n, l, x))
         /\ Head(i).c = x => AnyOf(o, i, n, l, x)
         /\ AnyOf(o, Tail(i), n, l, x) => AnyOf(o, i, n, l, x)
<1>1. PICK X : X = Ours(x) OBVIOUS
<1>2. PICK h, t : h = Head(i) /\ t = Tail(i) OBVIOUS
<1>3. h \in X <=> h.c = x BY <1>1, <1>2, Popped DEF Ours
<1>4. /\ Has(i, X) <=> Has(t, X) \/ h \in X
      /\ Once(i, X) => Once(t, X) /\ (h \in X => ~Has(t, X))
  BY <1>2, HasPopped
<1>5. OneOf(o, i, n, l, x) => OneOf(o, t, n, l, x) /\ (h.c = x => ~AnyOf(o, t, n, l, x))
  BY <1>1, <1>3, <1>4 DEF OneOf, AnyOf
<1>6. /\ h.c # x => (AnyOf(o, i, n, l, x) <=> AnyOf(o, t, n, l, x))
      /\ h.c = x => AnyOf(o, i, n, l, x)
      /\ AnyOf(o, t, n, l, x) => AnyOf(o, i, n, l, x)
  BY <1>1, <1>3, <1>4 DEF AnyOf
<1>7. QED BY <1>2, <1>5, <1>6

(* A message more in the stream from the source.                           *)
LEMMA Returned ==
  ASSUME NEW o, NEW i, NEW n \in Seq(Incoming), NEW l, NEW x, NEW e \in Incoming
  PROVE  /\ OneOf(o, i, n, l, x) /\ (e.c = x => ~AnyOf(o, i, n, l, x)) =>
              OneOf(o, i, Append(n, e), l, x)
         /\ AnyOf(o, i, Append(n, e), l, x) <=> AnyOf(o, i, n, l, x) \/ e.c = x
<1>1. PICK X : X = Theirs(x) OBVIOUS
<1>2. PICK j : j = Append(n, e) OBVIOUS
<1>3. e \in X <=> e.c = x BY <1>1, Letter, IncomingKinds DEF Theirs
<1>4. /\ Has(j, X) <=> Has(n, X) \/ e \in X
      /\ Once(n, X) /\ ~(Has(n, X) /\ e \in X) => Once(j, X)
  BY <1>2, HasPushed
<1>5. OneOf(o, i, n, l, x) /\ (e.c = x => ~AnyOf(o, i, n, l, x)) => OneOf(o, i, j, l, x)
  BY <1>1, <1>3, <1>4 DEF OneOf, AnyOf
<1>6. AnyOf(o, i, j, l, x) <=> AnyOf(o, i, n, l, x) \/ e.c = x
  BY <1>1, <1>3, <1>4 DEF AnyOf
<1>7. QED BY <1>2, <1>5, <1>6

(* The sink takes a message, and may send one.                             *)
LEMMA Taken ==
  ASSUME NEW o, NEW i, NEW n, NEW l \in Seq(Letters), NEW x, l # <<>>
  PROVE  /\ OneOf(o, i, n, l, x) =>
              /\ OneOf(o, i, n, Tail(l), x)
              /\ Head(l) \in Theirs(x) => ~AnyOf(o, i, n, Tail(l), x)
         /\ Head(l) \notin Theirs(x) => (AnyOf(o, i, n, l, x) <=> AnyOf(o, i, n, Tail(l), x))
         /\ Head(l) \in Theirs(x) => AnyOf(o, i, n, l, x)
         /\ AnyOf(o, i, n, Tail(l), x) => AnyOf(o, i, n, l, x)
<1>1. PICK X : X = Theirs(x) OBVIOUS
<1>2. PICK h, t : h = Head(l) /\ t = Tail(l) OBVIOUS
<1>3. /\ Has(l, X) <=> Has(t, X) \/ h \in X
      /\ Once(l, X) => Once(t, X) /\ (h \in X => ~Has(t, X))
  BY <1>2, HasPopped
<1>4. OneOf(o, i, n, l, x) => OneOf(o, i, n, t, x) /\ (h \in X => ~AnyOf(o, i, n, t, x))
  BY <1>1, <1>3 DEF OneOf, AnyOf
<1>5. /\ h \notin X => (AnyOf(o, i, n, l, x) <=> AnyOf(o, i, n, t, x))
      /\ h \in X => AnyOf(o, i, n, l, x)
      /\ AnyOf(o, i, n, t, x) => AnyOf(o, i, n, l, x)
  BY <1>1, <1>3 DEF AnyOf
<1>6. QED BY <1>1, <1>2, <1>4, <1>5

(* A message more in the queue to the source.                              *)
LEMMA Sent ==
  ASSUME NEW o \in Seq(Outgoing), NEW i, NEW n, NEW l, NEW x, NEW e \in Outgoing
  PROVE  /\ OneOf(o, i, n, l, x) /\ (e.c = x => ~AnyOf(o, i, n, l, x)) =>
              OneOf(Append(o, e), i, n, l, x)
         /\ AnyOf(Append(o, e), i, n, l, x) <=> AnyOf(o, i, n, l, x) \/ e.c = x
<1>1. PICK X : X = Ours(x) OBVIOUS
<1>2. PICK j : j = Append(o, e) OBVIOUS
<1>3. e \in X <=> e.c = x BY <1>1 DEF Ours
<1>4. /\ Has(j, X) <=> Has(o, X) \/ e \in X
      /\ Once(o, X) /\ ~(Has(o, X) /\ e \in X) => Once(j, X)
  BY <1>2, HasPushed
<1>5. OneOf(o, i, n, l, x) /\ (e.c = x => ~AnyOf(o, i, n, l, x)) => OneOf(j, i, n, l, x)
  BY <1>1, <1>3, <1>4 DEF OneOf, AnyOf
<1>6. AnyOf(j, i, n, l, x) <=> AnyOf(o, i, n, l, x) \/ e.c = x
  BY <1>1, <1>3, <1>4 DEF AnyOf
<1>7. QED BY <1>2, <1>5, <1>6

(* A note of the looper is no message of the source.                       *)
LEMMA Noted ==
  ASSUME NEW o, NEW i, NEW n, NEW l \in Seq(Letters), NEW x, NEW e \in Letters, e.k # "data"
  PROVE  /\ OneOf(o, i, n, l, x) => OneOf(o, i, n, Append(l, e), x)
         /\ AnyOf(o, i, n, Append(l, e), x) <=> AnyOf(o, i, n, l, x)
<1>1. PICK X : X = Theirs(x) OBVIOUS
<1>2. PICK j : j = Append(l, e) OBVIOUS
<1>3. e \notin X BY <1>1 DEF Theirs
<1>4. /\ Has(j, X) <=> Has(l, X) \/ e \in X
      /\ Once(l, X) /\ ~(Has(l, X) /\ e \in X) => Once(j, X)
  BY <1>2, HasPushed
<1>5. OneOf(o, i, n, l, x) => OneOf(o, i, n, j, x) BY <1>1, <1>3, <1>4 DEF OneOf
<1>6. AnyOf(o, i, n, j, x) <=> AnyOf(o, i, n, l, x) BY <1>1, <1>3, <1>4 DEF AnyOf
<1>7. QED BY <1>2, <1>5, <1>6

(* A number that no message has is in one place at most.                   *)
LEMMA Nowhere ==
  ASSUME NEW o, NEW i, NEW n, NEW l, NEW x, ~AnyOf(o, i, n, l, x)
  PROVE  OneOf(o, i, n, l, x)
<1>1. ASSUME NEW q, NEW X, ~Has(q, X) PROVE Once(q, X) BY <1>1 DEF Has, Once, Items
<1>2. QED BY <1>1 DEF AnyOf, OneOf

(* The looper's other messages have number 0 and are no trigger.           *)
LEMMA NoteKinds ==
  ASSUME NEW m \in Letters, m.k # "data" PROVE m.c = 0 /\ m.d # "TRIGGER"
BY DEF Letters, Notes, Incoming

(* The messages of the sink's session: numbered below the next number; the *)
(* request or the response that a function waits for is in one place, and  *)
(* the source has one request out at most.                                 *)
One(s, x) == OneOf(sess[s].out, sess[s].inbox, sess[s].in, msgs, x)
Any(s, x) == AnyOf(sess[s].out, sess[s].inbox, sess[s].in, msgs, x)
SentOf(s) == Items(sess[s].out) \cup Items(sess[s].inbox)
BackOf(s) == Items(sess[s].in) \cup Items(msgs)

HandlersInv == \A g, h \in handlers : g.c = h.c => g = h
Numbered(s) == \A m \in SentOf(s) \cup BackOf(s) : m.c < mNextCSeq
Matched(s)  ==
  \A h \in handlers : h.s = s =>
    /\ One(s, h.c) /\ Any(s, h.c)
    /\ \A m \in SentOf(s) : m.c = h.c => m.d = h.f
Polite(s) ==
  /\ One(s, 0) /\ (Any(s, 0) => peer[s].asked = peer[s].answered + 1)
  /\ peer[s].asked \in {peer[s].answered, peer[s].answered + 1}
Post(s)   == Numbered(s) /\ Matched(s) /\ Polite(s)

(* A step that moves messages and sends none.                              *)
LEMMA Moved ==
  ASSUME NEW s, Post(s), UNCHANGED <<handlers, mNextCSeq>>,
         peer'[s].asked = peer[s].asked, peer'[s].answered = peer[s].answered,
         \A x : (One(s, x) => One(s, x)') /\ (Any(s, x) <=> Any(s, x)'),
         SentOf(s)' \subseteq SentOf(s),
         \A m \in BackOf(s)' : m \in BackOf(s) \/ m.c < mNextCSeq
  PROVE  Post(s)'
<1>1. Numbered(s)' BY DEF Post, Numbered
<1>2. Matched(s)' BY DEF Post, Matched
<1>3. Polite(s)' BY DEF Post, Polite
<1>4. QED BY <1>1, <1>2, <1>3 DEF Post

(* A note more, or a note less.                                            *)
LEMMA NotedPost ==
  ASSUME TypeOK, NEW s \in Sessions, Post(s), UNCHANGED <<handlers, mNextCSeq>>,
         peer'[s] = peer[s], sess'[s].out = sess[s].out, sess'[s].inbox = sess[s].inbox,
         sess'[s].in = sess[s].in,
         \/ msgs' = msgs
         \/ \E m \in Letters : m.k # "data" /\ msgs' = Append(msgs, m)
         \/ msgs # <<>> /\ M.k # "data" /\ msgs' = Tail(msgs)
  PROVE  Post(s)'
<1>1. msgs \in Seq(Letters) BY DEF TypeOK, Letters
<1>2. mNextCSeq \in Nat \ {0} BY DEF TypeOK
<1>3. PICK o, i, n : o = sess[s].out /\ i = sess[s].inbox /\ n = sess[s].in OBVIOUS
<1>4. \A x : /\ One(s, x) = OneOf(o, i, n, msgs, x) /\ Any(s, x) = AnyOf(o, i, n, msgs, x)
             /\ One(s, x)' = OneOf(o, i, n, msgs', x) /\ Any(s, x)' = AnyOf(o, i, n, msgs', x)
  BY <1>3 DEF One, Any
<1>5. SentOf(s)' = SentOf(s) BY DEF SentOf
<1>6. CASE msgs' = msgs
  BY <1>4, <1>5, <1>6, Moved DEF BackOf
<1>7. CASE \E m \in Letters : m.k # "data" /\ msgs' = Append(msgs, m)
  <2>1. PICK m \in Letters : m.k # "data" /\ msgs' = Append(msgs, m) BY <1>7
  <2>2. \A x : /\ OneOf(o, i, n, msgs, x) => OneOf(o, i, n, msgs', x)
               /\ AnyOf(o, i, n, msgs', x) <=> AnyOf(o, i, n, msgs, x)
    BY <1>1, <2>1, Noted
  <2>3. Items(msgs') = Items(msgs) \cup {m} BY <1>1, <2>1, ItemsPushed
  <2>4. m.c < mNextCSeq BY <1>2, <2>1, NoteKinds
  <2>5. \A e \in BackOf(s)' : e \in BackOf(s) \/ e.c < mNextCSeq BY <2>3, <2>4 DEF BackOf
  <2>6. QED BY <1>4, <1>5, <2>2, <2>5, Moved
<1>8. CASE msgs # <<>> /\ M.k # "data" /\ msgs' = Tail(msgs)
  <2>1. \A x : M \notin Theirs(x) BY <1>8 DEF Theirs
  <2>2. \A x : /\ OneOf(o, i, n, msgs, x) => OneOf(o, i, n, msgs', x)
               /\ AnyOf(o, i, n, msgs', x) <=> AnyOf(o, i, n, msgs, x)
    BY <1>1, <1>8, <2>1, Taken DEF M
  <2>3. Items(msgs') \subseteq Items(msgs) BY <1>1, <1>8, ItemsPopped
  <2>4. \A e \in BackOf(s)' : e \in BackOf(s) BY <2>3 DEF BackOf
  <2>5. QED BY <1>4, <1>5, <2>2, <2>4, Moved
<1>9. QED BY <1>6, <1>7, <1>8

(* The network thread moves messages.                                      *)
LEMMA NetPost ==
  ASSUME Covered, TypeOK, SessInv, NEW s \in Sessions, Post(s),
         Connected(s) \/ readMore(s) \/ writeMore(s)
  PROVE  Post(s)' /\ SentOf(s)' = SentOf(s)
         /\ \A m \in BackOf(s)' : m \in BackOf(s) \/ (m \in Letters /\ m.k # "data")
<1> USE DEF netOnly
<1>1. UNCHANGED <<handlers, mNextCSeq, peer>>
  BY ConnectedStep, readMoreStep, writeMoreStep
<1>2. msgs \in Seq(Letters) BY DEF TypeOK, Letters
<1>3. \A k \in {"connected", "error"} : Note(s, k) \in Letters /\ Note(s, k).k # "data"
  BY Letter DEF Note
<1>4. \A k \in {"connected", "error"} : msgs' = Posted(Note(s, k)) =>
        \/ msgs' = msgs
        \/ \E m \in Letters : m.k # "data" /\ msgs' = Append(msgs, m)
  BY <1>3 DEF Posted
<1>5. ASSUME NEW k \in {"connected", "error"}, msgs' = Posted(Note(s, k)),
             sess'[s].out = sess[s].out, sess'[s].inbox = sess[s].inbox,
             sess'[s].in = sess[s].in
      PROVE  Post(s)' /\ SentOf(s)' = SentOf(s)
             /\ \A m \in BackOf(s)' : m \in BackOf(s) \/ (m \in Letters /\ m.k # "data")
  <2>1. \A m \in Letters : msgs' = Append(msgs, m) => Items(msgs') = Items(msgs) \cup {m}
    BY <1>2, ItemsPushed
  <2>2. \A m \in Items(msgs') : m \in Items(msgs) \/ (m \in Letters /\ m.k # "data")
    BY <1>4, <1>5, <2>1
  <2>3. Post(s)' BY <1>1, <1>4, <1>5, NotedPost
  <2>4. QED BY <1>5, <2>2, <2>3 DEF SentOf, BackOf
<1>6. CASE Connected(s)
  BY <1>5, <1>6, ConnectedStep DEF Socket
<1>7. CASE readMore(s)
  <2>1. CASE sess[s].in = <<>> BY <1>5, <1>7, <2>1, readMoreStep DEF Socket
  <2>2. CASE sess[s].in # <<>>
    <3>1. Alive(s)
      <4>1. sess[s].st = "connected" BY <1>7, readMoreStep
      <4>2. s # 0 BY DEF Sessions
      <4>3. QED BY <4>1, <4>2 DEF Alive
    <3>2. reg = "yes" BY <3>1 DEF SessInv
    <3>3. PICK o, i, n : o = sess[s].out /\ i = sess[s].inbox /\ n = sess[s].in OBVIOUS
    <3>4. n \in Seq(Incoming) /\ n # <<>> /\ Head(n) \in Letters
      BY <2>2, <3>3, Fields, Popped, Letter
    <3>5. /\ sess'[s].out = o /\ sess'[s].inbox = i /\ sess'[s].in = Tail(n)
          /\ msgs' = Append(msgs, Head(n))
      BY <1>7, <2>2, <3>2, <3>3, <3>4, Posts, readMoreStep DEF Wire
    <3>6. \A x : /\ OneOf(o, i, n, msgs, x) => OneOf(o, i, Tail(n), msgs', x)
                 /\ AnyOf(o, i, n, msgs, x) <=> AnyOf(o, i, Tail(n), msgs', x)
      BY <1>2, <3>4, <3>5, Arrived
    <3>7. \A x : (One(s, x) => One(s, x)') /\ (Any(s, x) <=> Any(s, x)')
      BY <3>3, <3>5, <3>6 DEF One, Any
    <3>8. Items(msgs') = Items(msgs) \cup {Head(n)} /\ Items(n) = Items(Tail(n)) \cup {Head(n)}
      BY <1>2, <3>4, <3>5, ItemsPushed, ItemsPopped
    <3>9. SentOf(s)' = SentOf(s) /\ BackOf(s)' = BackOf(s)
      BY <3>3, <3>5, <3>8 DEF SentOf, BackOf
    <3>10. Post(s)' BY <1>1, <3>7, <3>9, Moved
    <3>11. QED BY <3>9, <3>10
  <2>3. QED BY <2>1, <2>2
<1>8. CASE writeMore(s)
  <2>1. CASE Socket(s, sess[s].st, sess[s].rfail, TRUE, sess[s].closed)
             /\ msgs' = Posted(Note(s, "error"))
    BY <1>5, <2>1 DEF Socket
  <2>2. CASE /\ Wire(s, Tail(sess[s].out), Append(sess[s].inbox, Head(sess[s].out)), sess[s].in)
             /\ msgs' = msgs
    <3>1. PICK o, i, n : o = sess[s].out /\ i = sess[s].inbox /\ n = sess[s].in OBVIOUS
    <3>2. o \in Seq(Outgoing) /\ i \in Seq(Outgoing) /\ o # <<>> /\ Head(o) \in Outgoing
      BY <1>8, <3>1, Fields, Popped, writeMoreStep
    <3>3. sess'[s].out = Tail(o) /\ sess'[s].inbox = Append(i, Head(o)) /\ sess'[s].in = n
      BY <2>2, <3>1 DEF Wire
    <3>4. \A x : /\ OneOf(o, i, n, msgs, x) => OneOf(Tail(o), Append(i, Head(o)), n, msgs, x)
                 /\ AnyOf(o, i, n, msgs, x) <=> AnyOf(Tail(o), Append(i, Head(o)), n, msgs, x)
      BY <3>2, Carried
    <3>5. \A x : (One(s, x) => One(s, x)') /\ (Any(s, x) <=> Any(s, x)')
      BY <2>2, <3>1, <3>3, <3>4 DEF One, Any
    <3>6. /\ Items(Append(i, Head(o))) = Items(i) \cup {Head(o)}
          /\ Items(o) = Items(Tail(o)) \cup {Head(o)}
      BY <3>2, ItemsPushed, ItemsPopped
    <3>7. SentOf(s)' = SentOf(s) /\ BackOf(s)' = BackOf(s)
      BY <2>2, <3>1, <3>3, <3>6 DEF SentOf, BackOf
    <3>8. Post(s)' BY <1>1, <3>5, <3>7, Moved
    <3>9. QED BY <3>7, <3>8
  <2>3. QED BY <1>8, <2>1, <2>2, writeMoreStep
<1>9. QED BY <1>6, <1>7, <1>8

(* The source asks, takes an answer, or answers.                           *)
LEMMA PeerAskPost ==
  ASSUME TypeOK, NEW s \in Sessions, Post(s), PeerAsk(s)
  PROVE  /\ Post(s)' /\ SentOf(s)' = SentOf(s) /\ ~Any(s, 0)
         /\ \E e \in Incoming :
              /\ BackOf(s)' = BackOf(s) \cup {e} /\ e.c = 0
              /\ e.d = "TRIGGER" => ~uri /\ peer[s].asked = 3
<1> USE DEF netOnly
<1>1. UNCHANGED <<handlers, mNextCSeq, msgs>> BY PeerAskStep
<1>2. PICK d \in Requests :
        /\ d = "TRIGGER" => ~uri /\ peer[s].asked = 3
        /\ Wire(s, sess[s].out, sess[s].inbox,
                Append(sess[s].in, [k |-> "data", s |-> s, d |-> d, c |-> 0]))
  BY PeerAskStep
<1>3. PICK e : e = [k |-> "data", s |-> s, d |-> d, c |-> 0] OBVIOUS
<1>4. e \in Incoming /\ e.c = 0 /\ e.d = d BY <1>3, IncomingKinds
<1>5. PICK o, i, n : o = sess[s].out /\ i = sess[s].inbox /\ n = sess[s].in OBVIOUS
<1>6. sess'[s].out = o /\ sess'[s].inbox = i /\ sess'[s].in = Append(n, e)
  BY <1>2, <1>3, <1>5 DEF Wire
<1>7. n \in Seq(Incoming) BY <1>5, Fields
<1>8. \A x : /\ One(s, x) /\ (0 = x => ~Any(s, x)) => One(s, x)'
             /\ Any(s, x)' <=> Any(s, x) \/ 0 = x
  <2>1. \A x : /\ OneOf(o, i, n, msgs, x) /\ (0 = x => ~AnyOf(o, i, n, msgs, x)) =>
                    OneOf(o, i, Append(n, e), msgs, x)
               /\ AnyOf(o, i, Append(n, e), msgs, x) <=> AnyOf(o, i, n, msgs, x) \/ 0 = x
    BY <1>4, <1>7, Returned
  <2>2. QED BY <1>1, <1>5, <1>6, <2>1 DEF One, Any
<1>9. /\ peer[s].asked = peer[s].answered
      /\ peer'[s].asked = peer[s].asked + 1 /\ peer'[s].answered = peer[s].answered
  BY PeerAskStep DEF PeerIs
<1>10. peer[s].asked \in Nat /\ mNextCSeq \in Nat \ {0} BY PeerFields DEF TypeOK
<1>11. ~Any(s, 0) BY <1>9, <1>10 DEF Post, Polite
<1>12. Polite(s)' BY <1>8, <1>9, <1>10, <1>11 DEF Post, Polite
<1>13. SentOf(s)' = SentOf(s) BY <1>5, <1>6 DEF SentOf
<1>14. Matched(s)'
  <2>1. \A h \in handlers : h.c # 0 BY DEF TypeOK
  <2>2. QED BY <1>1, <1>8, <1>13, <2>1 DEF Post, Matched
<1>15. BackOf(s)' = BackOf(s) \cup {e}
  BY <1>1, <1>4, <1>5, <1>6, <1>7, ItemsPushed DEF BackOf
<1>16. Numbered(s)' BY <1>1, <1>4, <1>10, <1>13, <1>15 DEF Post, Numbered
<1>17. QED BY <1>2, <1>4, <1>11, <1>12, <1>13, <1>14, <1>15, <1>16 DEF Post

(* The source takes a message: the number of a request goes to its         *)
(* response, and playing begins with the response to PLAY.                 *)
LEMMA PeerTakesPost ==
  ASSUME Covered, TypeOK, NEW s \in Sessions, Post(s), PeerTakes(s)
  PROVE  /\ Post(s)' /\ SentOf(s)' \subseteq SentOf(s) /\ peer'[s].asked = peer[s].asked
         /\ \/ BackOf(s)' = BackOf(s) /\ peer'[s].playing = peer[s].playing
            \/ \E m \in SentOf(s), e \in Incoming :
                 /\ BackOf(s)' = BackOf(s) \cup {e} /\ e.c = m.c /\ e.d = "200"
                 /\ peer'[s].playing = (peer[s].playing \/ m.d = "PLAY")
<1> USE DEF netOnly
<1>1. UNCHANGED <<handlers, mNextCSeq, msgs>> BY PeerTakesStep
<1>2. PICK o, i, n, m : o = sess[s].out /\ i = sess[s].inbox /\ n = sess[s].in /\ m = Head(i)
  OBVIOUS
<1>3. /\ o \in Seq(Outgoing) /\ i \in Seq(Outgoing) /\ n \in Seq(Incoming) /\ i # <<>>
      /\ m \in Outgoing /\ m = Head(i)
  BY <1>2, Fields, PeerTakesStep
<1>4. Items(i) = Items(Tail(i)) \cup {m} BY <1>3, ItemsPopped
<1>5. /\ peer[s].asked \in Nat /\ peer[s].answered \in Nat /\ mNextCSeq \in Nat \ {0}
      /\ \A h \in handlers : h.c # 0
  BY PeerFields DEF TypeOK
<1>6. \A x : /\ OneOf(o, i, n, msgs, x) =>
                  /\ OneOf(o, Tail(i), n, msgs, x)
                  /\ m.c = x => ~AnyOf(o, Tail(i), n, msgs, x)
             /\ m.c # x => (AnyOf(o, i, n, msgs, x) <=> AnyOf(o, Tail(i), n, msgs, x))
             /\ m.c = x => AnyOf(o, i, n, msgs, x)
             /\ AnyOf(o, Tail(i), n, msgs, x) => AnyOf(o, i, n, msgs, x)
  BY <1>3, Dropped
<1>7. \A x : One(s, x) = OneOf(o, i, n, msgs, x) /\ Any(s, x) = AnyOf(o, i, n, msgs, x)
  BY <1>2 DEF One, Any
<1>8. CASE m.d = "answer"
  <2>1. /\ sess'[s].out = o /\ sess'[s].inbox = Tail(i) /\ sess'[s].in = n
        /\ peer'[s].asked = peer[s].asked /\ peer'[s].answered = peer[s].answered + 1
        /\ peer'[s].playing = peer[s].playing
    BY <1>2, <1>8, PeerTakesStep DEF Wire, PeerIs
  <2>2. m.c = 0 BY <1>3, <1>8, OutgoingKinds
  <2>3. \A x : /\ One(s, x)' = OneOf(o, Tail(i), n, msgs, x)
               /\ Any(s, x)' = AnyOf(o, Tail(i), n, msgs, x)
    BY <1>1, <2>1 DEF One, Any
  <2>4. SentOf(s)' \subseteq SentOf(s) /\ BackOf(s)' = BackOf(s)
    BY <1>1, <1>2, <1>4, <2>1 DEF SentOf, BackOf
  <2>5. peer[s].asked = peer[s].answered + 1
    BY <1>6, <1>7, <2>2 DEF Post, Polite
  <2>6. One(s, 0)' /\ ~Any(s, 0)' BY <1>6, <1>7, <2>2, <2>3 DEF Post, Polite
  <2>7. Polite(s)' BY <1>5, <2>1, <2>5, <2>6 DEF Polite
  <2>8. Numbered(s)' BY <1>1, <2>4 DEF Post, Numbered
  <2>9. Matched(s)' BY <1>1, <1>5, <1>6, <1>7, <2>2, <2>3, <2>4 DEF Post, Matched
  <2>10. QED BY <2>1, <2>4, <2>7, <2>8, <2>9 DEF Post
<1>9. CASE m.d # "answer"
  <2>1. PICK e : e = [k |-> "data", s |-> s, d |-> "200", c |-> m.c] OBVIOUS
  <2>2. m.c \in Nat \ {0} BY <1>3, <1>9, OutgoingKinds
  <2>3. e \in Incoming /\ e.c = m.c /\ e.d = "200" BY <2>1, <2>2, IncomingKinds
  <2>4. /\ sess'[s].out = o /\ sess'[s].inbox = Tail(i) /\ sess'[s].in = Append(n, e)
        /\ peer'[s].asked = peer[s].asked /\ peer'[s].answered = peer[s].answered
        /\ peer'[s].playing = (peer[s].playing \/ m.d = "PLAY")
    <3>1. PICK ok \in Outcomes("refuse") :
            /\ Wire(s, sess[s].out, Tail(sess[s].inbox),
                    Append(sess[s].in, [k |-> "data", s |-> s,
                                        d |-> IF ok THEN "200" ELSE "4xx",
                                        c |-> Head(sess[s].inbox).c]))
            /\ PeerIs(s, peer[s].asked, peer[s].answered,
                      peer[s].playing \/ (ok /\ Head(sess[s].inbox).d = "PLAY"))
      BY <1>2, <1>9, PeerTakesStep
    <3>2. ok = TRUE BY <3>1, Excluded
    <3>3. (IF ok THEN "200" ELSE "4xx") = "200" BY Zenon, <3>2
    <3>4. [k |-> "data", s |-> s, d |-> IF ok THEN "200" ELSE "4xx",
           c |-> Head(sess[s].inbox).c] = e
      BY <1>2, <2>1, <3>3
    <3>5. Wire(s, o, Tail(i), Append(n, e)) BY <1>2, <3>1, <3>4
    <3>6. PeerIs(s, peer[s].asked, peer[s].answered,
                 peer[s].playing \/ (ok /\ m.d = "PLAY"))
      BY <1>2, <3>1
    <3>7. peer'[s].playing = (peer[s].playing \/ m.d = "PLAY")
      BY <3>2, <3>6 DEF PeerIs
    <3>8. QED BY <3>5, <3>6, <3>7 DEF Wire, PeerIs
  <2>5. \A x : /\ OneOf(o, Tail(i), n, msgs, x) /\ (e.c = x => ~AnyOf(o, Tail(i), n, msgs, x)) =>
                    OneOf(o, Tail(i), Append(n, e), msgs, x)
               /\ AnyOf(o, Tail(i), Append(n, e), msgs, x) <=>
                    AnyOf(o, Tail(i), n, msgs, x) \/ e.c = x
    BY <1>3, <2>3, Returned
  <2>6. \A x : /\ One(s, x)' = OneOf(o, Tail(i), Append(n, e), msgs, x)
               /\ Any(s, x)' = AnyOf(o, Tail(i), Append(n, e), msgs, x)
    BY <1>1, <2>4 DEF One, Any
  <2>7. \A x : (One(s, x) => One(s, x)') /\ (Any(s, x) <=> Any(s, x)')
    BY <1>6, <1>7, <2>3, <2>5, <2>6
  <2>8. Items(Append(n, e)) = Items(n) \cup {e} BY <1>3, <2>3, ItemsPushed
  <2>9. /\ SentOf(s)' \subseteq SentOf(s) /\ BackOf(s)' = BackOf(s) \cup {e}
        /\ m \in SentOf(s)
    BY <1>1, <1>2, <1>4, <2>4, <2>8 DEF SentOf, BackOf
  <2>10. e.c < mNextCSeq BY <2>3, <2>9 DEF Post, Numbered
  <2>11. Post(s)' BY <1>1, <2>4, <2>7, <2>9, <2>10, Moved
  <2>12. QED BY <2>3, <2>4, <2>9, <2>11
<1>10. QED BY <1>8, <1>9

(* The sink takes a message of the looper, and answers it if it is a       *)
(* request: then o is what it has to send.                                 *)
Replies(s, o) ==
  /\ msgs # <<>> /\ msgs' = Tail(msgs) /\ peer'[s] = peer[s]
  /\ \/ o = sess[s].out /\ M \notin Theirs(0)
     \/ o = Append(sess[s].out, Answer) /\ M \in Theirs(0)

(* The sink takes a message and perhaps answers: the numbers of all others *)
(* stay where they are.                                                    *)
LEMMA SinkTakes ==
  ASSUME TypeOK, NEW s \in Sessions, Post(s), NEW o, Replies(s, o)
  PROVE  /\ OneOf(o, sess[s].inbox, sess[s].in, msgs', 0)
         /\ AnyOf(o, sess[s].inbox, sess[s].in, msgs', 0) => Any(s, 0)
         /\ \A x : x # 0 =>
              /\ One(s, x) => OneOf(o, sess[s].inbox, sess[s].in, msgs', x)
              /\ AnyOf(o, sess[s].inbox, sess[s].in, msgs', x) => Any(s, x)
              /\ Any(s, x) /\ M \notin Theirs(x) =>
                   AnyOf(o, sess[s].inbox, sess[s].in, msgs', x)
         /\ o \in Seq(Outgoing) /\ \A m \in Items(o) : m \in Items(sess[s].out) \/ m = Answer
         /\ Items(msgs') \subseteq Items(msgs)
<1>1. msgs \in Seq(Letters) /\ msgs # <<>> /\ msgs' = Tail(msgs)
  BY DEF TypeOK, Letters, Replies
<1>2. PICK p, i, n : p = sess[s].out /\ i = sess[s].inbox /\ n = sess[s].in OBVIOUS
<1>3. p \in Seq(Outgoing) BY <1>2, Fields
<1>4. \A x : /\ OneOf(p, i, n, msgs, x) =>
                  /\ OneOf(p, i, n, msgs', x)
                  /\ M \in Theirs(x) => ~AnyOf(p, i, n, msgs', x)
             /\ M \notin Theirs(x) => (AnyOf(p, i, n, msgs, x) <=> AnyOf(p, i, n, msgs', x))
             /\ M \in Theirs(x) => AnyOf(p, i, n, msgs, x)
             /\ AnyOf(p, i, n, msgs', x) => AnyOf(p, i, n, msgs, x)
  BY <1>1, Taken DEF M
<1>5. \A x : One(s, x) = OneOf(p, i, n, msgs, x) /\ Any(s, x) = AnyOf(p, i, n, msgs, x)
  BY <1>2 DEF One, Any
<1>6. OneOf(p, i, n, msgs, 0) BY <1>5 DEF Post, Polite
<1>7. Items(msgs') \subseteq Items(msgs) BY <1>1, ItemsPopped
<1>8. CASE o = p /\ M \notin Theirs(0)
  BY <1>2, <1>3, <1>4, <1>5, <1>6, <1>7, <1>8
<1>9. CASE o = Append(p, Answer) /\ M \in Theirs(0)
  <2>1. Answer \in Outgoing /\ Answer.c = 0 BY OutgoingKinds DEF Answer
  <2>2. \A x : /\ OneOf(p, i, n, msgs', x) /\ (0 = x => ~AnyOf(p, i, n, msgs', x)) =>
                    OneOf(o, i, n, msgs', x)
               /\ AnyOf(o, i, n, msgs', x) <=> AnyOf(p, i, n, msgs', x) \/ 0 = x
    BY <1>3, <1>9, <2>1, Sent
  <2>3. o \in Seq(Outgoing) /\ Items(o) = Items(p) \cup {Answer}
    BY <1>3, <1>9, <2>1, Pushed, ItemsPushed
  <2>4. OneOf(o, i, n, msgs', 0) /\ (AnyOf(o, i, n, msgs', 0) => Any(s, 0))
    BY <1>4, <1>5, <1>6, <1>9, <2>2
  <2>5. \A x : x # 0 =>
          /\ One(s, x) => OneOf(o, i, n, msgs', x)
          /\ AnyOf(o, i, n, msgs', x) => Any(s, x)
          /\ Any(s, x) /\ M \notin Theirs(x) => AnyOf(o, i, n, msgs', x)
    BY <1>4, <1>5, <2>2
  <2>6. QED BY <1>2, <1>7, <2>3, <2>4, <2>5
<1>10. QED BY <1>2, <1>8, <1>9 DEF Replies

(* Without a request of its own.                                           *)
LEMMA AnswerPost ==
  ASSUME TypeOK, NEW s \in Sessions, Post(s), NEW o, Replies(s, o),
         sess'[s].out = o, sess'[s].inbox = sess[s].inbox, sess'[s].in = sess[s].in,
         UNCHANGED mNextCSeq, handlers' \subseteq handlers,
         \A h \in handlers' : h.s = s => M \notin Theirs(h.c)
  PROVE  /\ Post(s)' /\ BackOf(s)' \subseteq BackOf(s)
         /\ \A m \in SentOf(s)' : m \in SentOf(s) \/ m = Answer
<1>1. PICK i, n : i = sess[s].inbox /\ n = sess[s].in OBVIOUS
<1>2. \A x : One(s, x)' = OneOf(o, i, n, msgs', x) /\ Any(s, x)' = AnyOf(o, i, n, msgs', x)
  BY <1>1 DEF One, Any
<1>3. /\ One(s, 0)' /\ (Any(s, 0)' => Any(s, 0))
      /\ \A x : x # 0 => /\ One(s, x) => One(s, x)'
                         /\ Any(s, x) /\ M \notin Theirs(x) => Any(s, x)'
  BY <1>1, <1>2, SinkTakes
<1>4. (\A m \in Items(o) : m \in Items(sess[s].out) \/ m = Answer)
      /\ Items(msgs') \subseteq Items(msgs)
  BY SinkTakes
<1>5. /\ BackOf(s)' \subseteq BackOf(s)
      /\ \A m \in SentOf(s)' : m \in SentOf(s) \/ m = Answer
  BY <1>4 DEF BackOf, SentOf
<1>6. mNextCSeq \in Nat \ {0} /\ Answer.c = 0 /\ \A h \in handlers : h.c # 0
  BY DEF TypeOK, Answer
<1>7. Numbered(s)' BY <1>5, <1>6 DEF Post, Numbered
<1>8. Polite(s)' BY <1>3 DEF Post, Polite, Replies
<1>9. Matched(s)' BY <1>3, <1>5, <1>6 DEF Post, Matched
<1>10. QED BY <1>5, <1>7, <1>8, <1>9 DEF Post

(* With a request: its number is new.                                      *)
LEMMA AskPost ==
  ASSUME TypeOK, NEW s \in Sessions, Post(s), NEW o, Replies(s, o), NEW f \in Functions,
         NEW rest \in SUBSET handlers, Asks(s, f, o, rest),
         \A h \in rest : h.s = s => M \notin Theirs(h.c)
  PROVE  /\ Post(s)' /\ BackOf(s)' \subseteq BackOf(s)
         /\ \A m \in SentOf(s)' : m \in SentOf(s) \/ m.d = "answer" \/ m.d = f
         /\ ~\E m \in BackOf(s)' : m.c = mNextCSeq
<1>1. PICK i, n, e : i = sess[s].inbox /\ n = sess[s].in /\ e = Request(f) OBVIOUS
<1>2. /\ sess'[s].out = Append(o, e) /\ sess'[s].inbox = i /\ sess'[s].in = n
      /\ handlers' = rest \cup {[s |-> s, c |-> mNextCSeq, f |-> f]}
      /\ mNextCSeq' = mNextCSeq + 1
  BY <1>1 DEF Asks, Wire
<1>3. mNextCSeq \in Nat \ {0} /\ \A h \in handlers : h.c # 0 /\ h.c < mNextCSeq
  <2>1. mNextCSeq \in Nat \ {0} BY DEF TypeOK
  <2>2. \A h \in handlers : h.c \in 1 .. mNextCSeq - 1 BY DEF TypeOK
  <2>3. QED BY <2>1, <2>2
<1>4. e \in Outgoing /\ e.d = f /\ e.c = mNextCSeq BY <1>1, <1>3, OutgoingKinds
<1>5. o \in Seq(Outgoing) BY SinkTakes
<1>6. \A x : /\ OneOf(o, i, n, msgs', x) /\ (e.c = x => ~AnyOf(o, i, n, msgs', x)) =>
                  OneOf(Append(o, e), i, n, msgs', x)
             /\ AnyOf(Append(o, e), i, n, msgs', x) <=> AnyOf(o, i, n, msgs', x) \/ e.c = x
  BY <1>4, <1>5, Sent
<1>7. \A x : /\ One(s, x)' = OneOf(Append(o, e), i, n, msgs', x)
             /\ Any(s, x)' = AnyOf(Append(o, e), i, n, msgs', x)
  BY <1>2 DEF One, Any
<1>8. Items(Append(o, e)) = Items(o) \cup {e} BY <1>4, <1>5, ItemsPushed
<1>9. (\A m \in Items(o) : m \in Items(sess[s].out) \/ m = Answer)
      /\ Items(msgs') \subseteq Items(msgs)
  BY SinkTakes
<1>10. /\ BackOf(s)' \subseteq BackOf(s)
       /\ \A m \in SentOf(s)' : m \in SentOf(s) \/ m = Answer \/ m = e
  BY <1>1, <1>2, <1>8, <1>9 DEF BackOf, SentOf
<1>11. Answer.c = 0 /\ Answer.d = "answer" BY DEF Answer
<1>12. \A m \in SentOf(s) \cup BackOf(s) : m.c \in Nat /\ m.c < mNextCSeq
  <2>1. Items(sess[s].out) \subseteq Outgoing /\ Items(sess[s].inbox) \subseteq Outgoing
        /\ Items(sess[s].in) \subseteq Incoming
    BY Fields, ItemsOf
  <2>2. msgs \in Seq(Letters) BY DEF TypeOK, Letters
  <2>3. Items(msgs) \subseteq Letters BY <2>2, ItemsOf
  <2>4. \A m \in Outgoing \cup Incoming \cup Letters : m.c \in Nat
    <3>1. \A m \in Incoming : m.c \in Nat BY IncomingKinds
    <3>2. \A m \in Letters : m.c \in Nat BY <3>1, Kinds, NoteKinds
    <3>3. \A m \in Outgoing : m.c \in Nat BY OutgoingKinds
    <3>4. QED BY <3>1, <3>2, <3>3
  <2>5. QED BY <2>1, <2>3, <2>4 DEF SentOf, BackOf, Post, Numbered
<1>13. Numbered(s)' BY <1>2, <1>3, <1>4, <1>10, <1>11, <1>12 DEF Numbered
<1>14. ~Any(s, mNextCSeq)
  <2>1. \A m \in SentOf(s) \cup BackOf(s) : m.c # mNextCSeq BY <1>3, <1>12
  <2>2. QED BY <2>1 DEF Any, AnyOf, Has, Ours, Theirs, SentOf, BackOf
<1>15. ~AnyOf(o, i, n, msgs', mNextCSeq) BY <1>1, <1>3, <1>14, SinkTakes
<1>16. OneOf(o, i, n, msgs', mNextCSeq) BY <1>15, Nowhere
<1>17. \A x : x = mNextCSeq => One(s, x)' /\ Any(s, x)'
  BY <1>4, <1>6, <1>7, <1>15, <1>16
<1>18. One(s, 0)' /\ (Any(s, 0)' => Any(s, 0))
  <2>1. OneOf(o, i, n, msgs', 0) /\ (AnyOf(o, i, n, msgs', 0) => Any(s, 0)) BY <1>1, SinkTakes
  <2>2. QED BY <1>3, <1>4, <1>6, <1>7, <2>1
<1>19. ASSUME NEW x, x # 0, x # mNextCSeq, One(s, x), Any(s, x), M \notin Theirs(x)
       PROVE  One(s, x)' /\ Any(s, x)'
  <2>1. OneOf(o, i, n, msgs', x) /\ AnyOf(o, i, n, msgs', x) BY <1>1, <1>19, SinkTakes
  <2>2. QED BY <1>4, <1>6, <1>7, <1>19, <2>1
<1>20. Polite(s)' BY <1>18 DEF Post, Polite, Replies
<1>21. Matched(s)'
  <2> SUFFICES ASSUME NEW h \in handlers', h.s = s
               PROVE  /\ One(s, h.c)' /\ Any(s, h.c)'
                      /\ \A m \in SentOf(s)' : m.c = h.c => m.d = h.f
    BY DEF Matched
  <2>1. CASE h = [s |-> s, c |-> mNextCSeq, f |-> f]
    <3>1. h.c = mNextCSeq /\ h.f = f BY <2>1
    <3>2. \A m \in SentOf(s)' : m.c = h.c => m.d = h.f
      BY <1>3, <1>4, <1>10, <1>11, <1>12, <3>1
    <3>3. QED BY <1>17, <3>1, <3>2
  <2>2. CASE h \in rest
    <3>1. /\ One(s, h.c) /\ Any(s, h.c) /\ h.c # 0 /\ h.c # mNextCSeq
          /\ \A m \in SentOf(s) : m.c = h.c => m.d = h.f
      BY <1>3, <2>2 DEF Post, Matched
    <3>2. One(s, h.c)' /\ Any(s, h.c)' BY <1>19, <2>2, <3>1
    <3>3. QED BY <1>4, <1>10, <1>11, <3>1, <3>2
  <2>3. QED BY <1>2, <2>1, <2>2
<1>22. ~\E m \in BackOf(s)' : m.c = mNextCSeq BY <1>3, <1>10, <1>12
<1>23. QED BY <1>4, <1>10, <1>11, <1>13, <1>20, <1>21, <1>22 DEF Post

-----------------------------------------------------------------------------
(***************************************************************************)
(* The negotiation of the sink's session, and its RTPSink.  It goes from   *)
(* Early (before the SETUP request) through Mid (a function waits for the  *)
(* response to SETUP) to Late (PLAY is sent), and not back.                *)
(***************************************************************************)
Waits(s, f)    == \E h \in handlers : h.s = s /\ h.f = f
Triggered(s)   == \E m \in BackOf(s) : m.d = "TRIGGER"
Starts(s)      == sess[s].st = "connecting" \/ Holds(msgs, "connected")
PlaySent(s)    == \E m \in SentOf(s) : m.d = "PLAY"
Answered(s, c) == \E m \in BackOf(s) : m.c = c
Early(s) ==
  \/ Starts(s) \/ Waits(s, "DESCRIBE")
  \/ ~uri /\ (peer[s].asked <= 3 \/ Triggered(s))
Mid(s)  == Waits(s, "SETUP")
Late(s) == Waits(s, "PLAY") \/ PlaySent(s) \/ peer[s].playing \/ mState = "PLAYING"

Stages(s) ==
  /\ Starts(s) => mState = "CONNECTING" /\ \A h \in handlers : h.s # s
  /\ Early(s) => ~Mid(s) /\ ~Late(s)
  /\ Mid(s) => ~Late(s) /\ rtp.id # 0
  /\ Late(s) => rtp.id # 0 /\ rtp.conn
Single(s) ==
  \A g, h \in handlers :
    g.s = s /\ h.s = s /\ g.f = h.f /\ g.f \in {"DESCRIBE", "SETUP"} => g = h
Requested(s) ==
  /\ Triggered(s) => ~uri /\ peer[s].asked = 4
  /\ Waits(s, "DESCRIBE") => uri
Playing(s) ==
  /\ mState = "PLAYING" => peer[s].playing
  /\ \A h \in handlers : h.s = s /\ h.f = "PLAY" /\ Answered(s, h.c) => peer[s].playing
Progress(s) == Stages(s) /\ Single(s) /\ Requested(s) /\ Playing(s)

LiveInv == mSessionID # 0 => Post(mSessionID) /\ Progress(mSessionID)
RtpInv ==
  /\ mSessionID = 0 => rtp.id = 0
  /\ rtp.id # 0 /\ mState # "PLAYING" => rtp.open = {"rtp", "rtcp"}
  /\ \A m \in Items(msgs) :
       m.k = "udp" => m.s <= sinks /\ (m.s = rtp.id => mState = "PLAYING")

(* Steps that take the negotiation no further.                             *)
LEMMA Onward ==
  ASSUME TypeOK, NEW s, Progress(s), UNCHANGED <<uri, mState>>, handlers' \subseteq handlers,
         Starts(s)' => Starts(s), PlaySent(s)' => PlaySent(s),
         peer'[s].asked = peer[s].asked, peer'[s].playing = peer[s].playing,
         rtp.id # 0 => rtp'.id # 0 /\ rtp'.conn = rtp.conn,
         \A m \in BackOf(s)' : m \in BackOf(s) \/ (m.d # "TRIGGER" /\ m.c = 0)
  PROVE  Progress(s)'
<1>1. \A f : Waits(s, f)' => Waits(s, f) BY DEF Waits
<1>2. Triggered(s)' => Triggered(s) BY DEF Triggered
<1>3. Early(s)' => Early(s) BY <1>1, <1>2 DEF Early
<1>4. Mid(s)' => Mid(s) BY <1>1 DEF Mid
<1>5. Late(s)' => Late(s) BY <1>1 DEF Late
<1>6. Stages(s)' BY <1>3, <1>4, <1>5 DEF Progress, Stages
<1>7. Single(s)' BY DEF Progress, Single
<1>8. Requested(s)' BY <1>1, <1>2 DEF Progress, Requested
<1>9. Playing(s)'
  <2>1. \A h \in handlers : h.c # 0 BY DEF TypeOK
  <2>2. \A h \in handlers' : Answered(s, h.c)' => Answered(s, h.c) BY <2>1 DEF Answered
  <2>3. QED BY <2>2 DEF Progress, Playing
<1>10. QED BY <1>6, <1>7, <1>8, <1>9 DEF Progress

(* RtpInv when RTPSink and its messages stay.                              *)
LEMMA RtpKept ==
  ASSUME RtpInv, UNCHANGED <<mSessionID, mState, sinks>>, rtp'.id = rtp.id,
         rtp'.open = rtp.open, \A m \in Items(msgs') : m \in Items(msgs) \/ m.k # "udp"
  PROVE  RtpInv'
BY DEF RtpInv

(* A note more, or a note less, and nothing else of the session.           *)
Noting(s) ==
  /\ UNCHANGED <<uri, handlers, mNextCSeq, peer, mState>>
  /\ sess'[s].out = sess[s].out /\ sess'[s].inbox = sess[s].inbox /\ sess'[s].in = sess[s].in
  /\ rtp'.id = rtp.id /\ rtp'.conn = rtp.conn
  /\ \/ msgs' = msgs
     \/ \E m \in Letters : m.k # "data" /\ msgs' = Append(msgs, m)
     \/ msgs # <<>> /\ M.k # "data" /\ msgs' = Tail(msgs)
  /\ Starts(s)' => Starts(s)

(* Such a step keeps the session's invariants.                             *)
LEMMA NotingLive ==
  ASSUME TypeOK, NEW s \in Sessions, Post(s), Progress(s), Noting(s)
  PROVE  Post(s)' /\ Progress(s)'
<1>1. Post(s)' BY NotedPost DEF Noting
<1>2. msgs \in Seq(Letters) BY DEF TypeOK, Letters
<1>3. \A m \in Letters : msgs' = Append(msgs, m) => Items(msgs') = Items(msgs) \cup {m}
  BY <1>2, ItemsPushed
<1>4. msgs # <<>> /\ msgs' = Tail(msgs) => Items(msgs') \subseteq Items(msgs)
  BY <1>2, ItemsPopped
<1>5. \A m \in Items(msgs') : m \in Items(msgs) \/ (m \in Letters /\ m.k # "data")
  BY <1>3, <1>4 DEF Noting
<1>6. \A m \in BackOf(s)' : m \in BackOf(s) \/ (m.d # "TRIGGER" /\ m.c = 0)
  BY <1>5, NoteKinds DEF BackOf, Noting
<1>7. SentOf(s)' = SentOf(s) BY DEF SentOf, Noting
<1>8. PlaySent(s)' => PlaySent(s) BY <1>7 DEF PlaySent
<1>9. Progress(s)' BY <1>6, <1>8, Onward DEF Noting
<1>10. QED BY <1>1, <1>9

(* Everything that is kept by the steps.                                   *)
Inv == SessInv /\ OrderInv /\ HandlersInv /\ LiveInv /\ RtpInv /\ ~aborted

(* The sink's session is alive.                                            *)
LEMMA LiveSession ==
  ASSUME TypeOK, Inv, mSessionID # 0
  PROVE  mSessionID \in Sessions /\ Alive(mSessionID) /\ Post(mSessionID) /\ Progress(mSessionID)
BY DEF Inv, LiveInv, SessInv, TypeOK, Sessions

(* The application's calls change nothing of the session.                  *)
LEMMA AppLive ==
  ASSUME Covered, TypeOK, Inv, connect_to_wifi_source \/ disconnectSink
  PROVE  HandlersInv' /\ LiveInv' /\ RtpInv' /\ ~aborted'
<1>1. UNCHANGED <<uri, sess, mSessionID, mState, rtp, sinks, handlers, mNextCSeq, peer, aborted>>
  BY DEF connect_to_wifi_source, disconnectSink, DisconnectPost, DisconnectNet,
     DisconnectUnregister, sinkState
<1>2. HandlersInv' /\ ~aborted' BY <1>1 DEF Inv, HandlersInv
<1>3. msgs \in Seq(Letters) BY DEF TypeOK, Letters
<1>4. \/ msgs' = msgs
      \/ \E m \in Letters : m.k \in {"start", "stop"} /\ msgs' = Append(msgs, m)
  <2>1. ASSUME connect_to_wifi_source, msgs' # msgs
        PROVE  \E m \in Letters : m.k \in {"start", "stop"} /\ msgs' = Append(msgs, m)
    <3>1. connects' \in Sessions
      BY <2>1, SinkAssumption DEF connect_to_wifi_source, TypeOK, Sessions
    <3>2. Note(connects', "start") \in Letters /\ Note(connects', "start").k = "start"
      BY <3>1, Letter DEF Note
    <3>3. msgs' = Append(msgs, Note(connects', "start"))
      BY <2>1 DEF connect_to_wifi_source
    <3>4. QED BY <3>2, <3>3
  <2>2. ASSUME DisconnectPost
        PROVE  \E m \in Letters : m.k \in {"start", "stop"} /\ msgs' = Append(msgs, m)
    <3>1. Note(0, "stop") \in Letters /\ Note(0, "stop").k = "stop" BY Letter DEF Note
    <3>2. msgs' = Append(msgs, Note(0, "stop")) BY <2>2 DEF DisconnectPost, Posted
    <3>3. QED BY <3>1, <3>2
  <2>3. QED BY <2>1, <2>2 DEF disconnectSink, DisconnectNet, DisconnectUnregister
<1>5. \A m \in Letters : msgs' = Append(msgs, m) => Items(msgs') = Items(msgs) \cup {m}
  BY <1>3, ItemsPushed
<1>6. \A m \in Items(msgs') : m \in Items(msgs) \/ m.k \in {"start", "stop"}
  BY <1>4, <1>5
<1>7. RtpInv' BY <1>1, <1>6, RtpKept DEF Inv
<1>8. ASSUME mSessionID # 0 PROVE Post(mSessionID)' /\ Progress(mSessionID)'
  <2>1. PICK s : s = mSessionID OBVIOUS
  <2>2. s \in Sessions /\ Post(s) /\ Progress(s) BY <1>8, <2>1, LiveSession
  <2>3. Starts(s)' => Starts(s) BY <1>1, <1>6 DEF Starts, Holds
  <2>4. Noting(s) BY <1>1, <1>4, <2>3 DEF Noting
  <2>5. Post(s)' /\ Progress(s)' BY <2>2, <2>4, NotingLive
  <2>6. mSessionID' = s BY <1>1, <2>1
  <2>7. QED BY <2>5, <2>6
<1>9. QED BY <1>1, <1>2, <1>7, <1>8 DEF LiveInv

(* The network thread moves the session's messages.                        *)
LEMMA NetLive ==
  ASSUME Covered, TypeOK, Inv, NEW s \in Sessions,
         Connected(s) \/ readMore(s) \/ writeMore(s)
  PROVE  HandlersInv' /\ LiveInv' /\ RtpInv' /\ ~aborted'
<1> USE DEF netOnly
<1>1. UNCHANGED <<uri, mSessionID, mState, rtp, sinks, handlers, mNextCSeq, aborted, peer>>
  BY ConnectedStep, readMoreStep, writeMoreStep
<1>2. HandlersInv' /\ ~aborted' BY <1>1 DEF Inv, HandlersInv
<1>3. sess[s].st \in {"connecting", "connected"}
  BY ConnectedStep, readMoreStep, writeMoreStep
<1>4. Alive(s) BY <1>3 DEF Alive, Sessions
<1>5. s = mSessionID /\ reg = "yes" /\ mSessionID # 0 BY <1>4 DEF Inv, SessInv, Sessions
<1>6. Post(s) /\ Progress(s) BY <1>5, LiveSession
<1>7. /\ Post(s)' /\ SentOf(s)' = SentOf(s)
      /\ \A m \in BackOf(s)' : m \in BackOf(s) \/ (m \in Letters /\ m.k # "data")
  BY <1>6, NetPost DEF Inv
<1>8. \A m \in Items(msgs') : \/ m \in Items(msgs) \/ m.k \in {"data", "error"}
                              \/ m.k = "connected" /\ Connected(s)
  <2>1. msgs \in Seq(Letters) BY DEF TypeOK, Letters
  <2>2. \A m \in Letters : msgs' = Posted(m) => Items(msgs') = Items(msgs) \cup {m}
    BY <1>5, <2>1, Posts
  <2>3. \A k \in {"connected", "error"} : Note(s, k) \in Letters /\ Note(s, k).k = k
    BY Letter DEF Note
  <2>4. CASE Connected(s) BY <2>2, <2>3, <2>4, ConnectedStep
  <2>5. CASE readMore(s)
    <3>1. sess[s].in # <<>> => Head(sess[s].in) \in Letters /\ Head(sess[s].in).k = "data"
      BY Fields, Popped, Letter, IncomingKinds
    <3>2. QED BY <2>2, <2>3, <2>5, <3>1, readMoreStep
  <2>6. CASE writeMore(s) BY <2>2, <2>3, <2>6, writeMoreStep
  <2>7. QED BY <2>4, <2>5, <2>6
<1>9. RtpInv' BY <1>1, <1>8, RtpKept DEF Inv
<1>10. Starts(s)' => Starts(s)
  <2>1. CASE Connected(s) BY <2>1, ConnectedStep DEF Starts
  <2>2. CASE ~Connected(s)
    <3>1. sess'[s].st = sess[s].st BY <2>2, readMoreStep, writeMoreStep DEF Socket, Wire
    <3>2. Holds(msgs', "connected") => Holds(msgs, "connected") BY <1>8, <2>2 DEF Holds
    <3>3. QED BY <3>1, <3>2 DEF Starts
  <2>3. QED BY <2>1, <2>2
<1>11. \A m \in BackOf(s)' : m \in BackOf(s) \/ (m.d # "TRIGGER" /\ m.c = 0)
  BY <1>7, NoteKinds
<1>12. PlaySent(s)' => PlaySent(s) BY <1>7 DEF PlaySent
<1>13. Progress(s)' BY <1>1, <1>6, <1>10, <1>11, <1>12, Onward
<1>14. mSessionID' = s BY <1>1, <1>5
<1>15. LiveInv' BY <1>7, <1>13, <1>14 DEF LiveInv
<1>16. QED BY <1>2, <1>9, <1>15

(* A datagram socket fails only while the source plays.                    *)
LEMMA UdpLive ==
  ASSUME Covered, TypeOK, Inv, NEW u \in udp, UdpFails(u)
  PROVE  HandlersInv' /\ LiveInv' /\ RtpInv' /\ ~aborted'
<1> USE DEF netOnly
<1>1. UNCHANGED <<uri, sess, mSessionID, mState, rtp, sinks, handlers, mNextCSeq, aborted, peer>>
  BY DEF UdpFails
<1>2. HandlersInv' /\ ~aborted' BY <1>1 DEF Inv, HandlersInv
<1>3. rtp.id = u[1] /\ mState = "PLAYING" BY Excluded DEF UdpFails
<1>4. PICK m : m = [k |-> "udp", s |-> u[1], d |-> u[2], c |-> 0] OBVIOUS
<1>5. u[1] \in Nat \ {0} /\ u[2] \in {"rtp", "rtcp"} /\ u[1] <= sinks
  <2>1. udp \subseteq (1..sinks) \X {"rtp", "rtcp"} /\ sinks \in Nat BY DEF TypeOK
  <2>2. u[1] \in 1..sinks /\ u[2] \in {"rtp", "rtcp"} BY <2>1
  <2>3. QED BY <2>1, <2>2
<1>6. m \in Letters /\ m.k = "udp" /\ m.s = u[1] BY <1>4, <1>5, Letter
<1>7. msgs' = Append(msgs, m) BY <1>4 DEF UdpFails
<1>8. msgs \in Seq(Letters) BY DEF TypeOK, Letters
<1>9. Items(msgs') = Items(msgs) \cup {m} BY <1>6, <1>7, <1>8, ItemsPushed
<1>10. RtpInv' BY <1>1, <1>3, <1>5, <1>6, <1>9 DEF Inv, RtpInv
<1>11. ASSUME mSessionID # 0 PROVE Post(mSessionID)' /\ Progress(mSessionID)'
  <2>1. PICK s : s = mSessionID OBVIOUS
  <2>2. s \in Sessions /\ Post(s) /\ Progress(s) BY <1>11, <2>1, LiveSession
  <2>3. Starts(s)' => Starts(s) BY <1>1, <1>6, <1>9 DEF Starts, Holds
  <2>4. Noting(s) BY <1>1, <1>6, <1>7, <2>3 DEF Noting
  <2>5. Post(s)' /\ Progress(s)' BY <2>2, <2>4, NotingLive
  <2>6. mSessionID' = s BY <1>1, <2>1
  <2>7. QED BY <2>5, <2>6
<1>12. QED BY <1>1, <1>2, <1>10, <1>11 DEF LiveInv

(* The source's steps: its request is the next of its script, its response *)
(* has the number of the request.                                          *)
LEMMA PeerLive ==
  ASSUME Covered, TypeOK, Inv, NEW s \in Sessions, PeerAsk(s) \/ PeerTakes(s) \/ PeerClose(s)
  PROVE  HandlersInv' /\ LiveInv' /\ RtpInv' /\ ~aborted'
<1> USE DEF netOnly
<1>1. UNCHANGED <<uri, mSessionID, mState, rtp, sinks, handlers, mNextCSeq, aborted, msgs>>
  BY PeerAskStep, PeerTakesStep, PeerCloseStep
<1>2. HandlersInv' /\ ~aborted' BY <1>1 DEF Inv, HandlersInv
<1>3. RtpInv' BY <1>1, RtpKept DEF Inv
<1>4. /\ sess'[s].st = sess[s].st
      /\ \A t \in Sessions \ {s} : sess'[t] = sess[t] /\ peer'[t] = peer[t]
  <2>1. CASE PeerAsk(s) BY <2>1, PeerAskStep DEF PeerIs, Wire, Only
  <2>2. CASE PeerTakes(s) BY <2>2, PeerTakesStep DEF PeerIs, Wire, Only
  <2>3. CASE PeerClose(s) BY <2>3, PeerCloseStep DEF Socket, Only
  <2>4. QED BY <2>1, <2>2, <2>3
<1>5. SUFFICES ASSUME mSessionID # 0 PROVE Post(mSessionID)' /\ Progress(mSessionID)'
  BY <1>1, <1>2, <1>3 DEF LiveInv
<1>6. PICK v : v = mSessionID OBVIOUS
<1>7. v \in Sessions /\ Post(v) /\ Progress(v) BY <1>5, <1>6, LiveSession
<1>8. SUFFICES Post(v)' /\ Progress(v)'
  <2>1. mSessionID' = v BY <1>1, <1>6
  <2>2. QED BY <1>8, <2>1
<1>9. Starts(v)' => Starts(v)
  <2>1. sess'[v].st = sess[v].st BY <1>4, <1>7
  <2>2. QED BY <1>1, <2>1 DEF Starts
<1>10. CASE v # s
  <2>1. sess'[v] = sess[v] /\ peer'[v] = peer[v] BY <1>4, <1>7, <1>10
  <2>2. Post(v)' BY <1>1, <1>7, <2>1, NotedPost
  <2>3. BackOf(v)' = BackOf(v) /\ SentOf(v)' = SentOf(v) BY <1>1, <2>1 DEF BackOf, SentOf
  <2>4. PlaySent(v)' => PlaySent(v) BY <2>3 DEF PlaySent
  <2>5. Progress(v)' BY <1>1, <1>7, <1>9, <2>1, <2>3, <2>4, Onward
  <2>6. QED BY <2>2, <2>5
<1>11. CASE v = s /\ PeerClose(s)
  <2>1. peer' = peer /\ sess'[s].out = sess[s].out /\ sess'[s].inbox = sess[s].inbox
        /\ sess'[s].in = sess[s].in
    BY <1>11, PeerCloseStep DEF Socket
  <2>2. Noting(s) BY <1>1, <1>9, <1>11, <2>1 DEF Noting
  <2>3. QED BY <1>7, <1>11, <2>2, NotingLive
<1>12. CASE v = s /\ PeerAsk(s)
  <2>1. /\ Post(s)' /\ SentOf(s)' = SentOf(s) /\ ~Any(s, 0)
    BY <1>7, <1>12, PeerAskPost
  <2>2. PICK e \in Incoming :
          /\ BackOf(s)' = BackOf(s) \cup {e} /\ e.c = 0
          /\ e.d = "TRIGGER" => ~uri /\ peer[s].asked = 3
    BY <1>7, <1>12, PeerAskPost
  <2>3. peer'[s].asked = peer[s].asked + 1 /\ peer'[s].playing = peer[s].playing
    BY <1>12, PeerAskStep DEF PeerIs
  <2>4. peer[s].asked \in Nat BY PeerFields
  <2>5. ~Triggered(s)
    <3>1. Items(sess[s].in) \subseteq Incoming BY Fields, ItemsOf
    <3>2. msgs \in Seq(Letters) BY DEF TypeOK, Letters
    <3>3. Items(msgs) \subseteq Letters BY <3>2, ItemsOf
    <3>4. ASSUME NEW m \in BackOf(s), m.d = "TRIGGER" PROVE m \in Theirs(0)
      <4>1. m \in Letters BY <3>1, <3>3, <3>4, Letter DEF BackOf
      <4>2. m.k = "data" BY <3>4, <4>1, NoteKinds
      <4>3. m \in Incoming BY <4>1, <4>2, Kinds
      <4>4. m.c = 0 BY <3>4, <4>3, IncomingKinds
      <4>5. QED BY <4>1, <4>2, <4>4 DEF Theirs
    <3>5. QED BY <2>1, <3>4 DEF Triggered, Any, AnyOf, Has, BackOf
  <2>6. Triggered(s)' => ~uri /\ peer[s].asked = 3 BY <2>2, <2>5 DEF Triggered
  <2>7. \A f : Waits(s, f)' <=> Waits(s, f) BY <1>1 DEF Waits
  <2>8. PlaySent(s)' <=> PlaySent(s) BY <2>1 DEF PlaySent
  <2>9. Early(s)' => Early(s)
    BY <1>1, <1>9, <1>12, <2>3, <2>4, <2>6, <2>7 DEF Early
  <2>10. (Mid(s)' <=> Mid(s)) /\ (Late(s)' <=> Late(s))
    BY <1>1, <2>3, <2>7, <2>8 DEF Mid, Late
  <2>11. Stages(s)'
    BY <1>1, <1>7, <1>9, <1>12, <2>9, <2>10 DEF Progress, Stages
  <2>12. Single(s)' BY <1>1, <1>7, <1>12 DEF Progress, Single
  <2>13. Requested(s)' BY <1>1, <1>7, <1>12, <2>3, <2>6, <2>7 DEF Progress, Requested
  <2>14. Playing(s)'
    <3>1. \A h \in handlers : h.c # 0 BY DEF TypeOK
    <3>2. \A h \in handlers : Answered(s, h.c)' => Answered(s, h.c)
      BY <2>2, <3>1 DEF Answered
    <3>3. QED BY <1>1, <1>7, <1>12, <2>3, <3>2 DEF Progress, Playing
  <2>15. QED BY <1>12, <2>1, <2>11, <2>12, <2>13, <2>14 DEF Progress
<1>13. CASE v = s /\ PeerTakes(s)
  <2>1. Post(s)' /\ SentOf(s)' \subseteq SentOf(s) /\ peer'[s].asked = peer[s].asked
    BY <1>7, <1>13, PeerTakesPost
  <2>2. PlaySent(s)' => PlaySent(s) BY <2>1 DEF PlaySent
  <2>3. CASE BackOf(s)' = BackOf(s) /\ peer'[s].playing = peer[s].playing
    BY <1>1, <1>7, <1>9, <1>13, <2>1, <2>2, <2>3, Onward
  <2>4. CASE \E m \in SentOf(s), e \in Incoming :
               /\ BackOf(s)' = BackOf(s) \cup {e} /\ e.c = m.c /\ e.d = "200"
               /\ peer'[s].playing = (peer[s].playing \/ m.d = "PLAY")
    <3>1. PICK m \in SentOf(s), e \in Incoming :
            /\ BackOf(s)' = BackOf(s) \cup {e} /\ e.c = m.c /\ e.d = "200"
            /\ peer'[s].playing = (peer[s].playing \/ m.d = "PLAY")
      BY <2>4
    <3>2. Triggered(s)' => Triggered(s) BY <3>1 DEF Triggered
    <3>3. \A f : Waits(s, f)' <=> Waits(s, f) BY <1>1 DEF Waits
    <3>4. Early(s)' => Early(s) BY <1>1, <1>9, <1>13, <2>1, <3>2, <3>3 DEF Early
    <3>5. Mid(s)' <=> Mid(s) BY <3>3 DEF Mid
    <3>6. Late(s)' => Late(s)
      BY <1>1, <2>2, <3>1, <3>3 DEF Late, PlaySent
    <3>7. Stages(s)' BY <1>1, <1>7, <1>9, <1>13, <3>4, <3>5, <3>6 DEF Progress, Stages
    <3>8. Single(s)' BY <1>1, <1>7, <1>13 DEF Progress, Single
    <3>9. Requested(s)' BY <1>1, <1>7, <1>13, <2>1, <3>2, <3>3 DEF Progress, Requested
    <3>10. peer[s].playing => peer'[s].playing BY <3>1
    <3>11. ASSUME NEW h \in handlers, h.s = s, h.f = "PLAY", Answered(s, h.c)'
           PROVE  peer'[s].playing
      <4>1. CASE Answered(s, h.c)
        BY <1>7, <1>13, <3>10, <3>11, <4>1 DEF Progress, Playing
      <4>2. CASE ~Answered(s, h.c)
        <5>1. e.c = h.c BY <3>1, <3>11, <4>2 DEF Answered
        <5>2. m.d = h.f BY <1>7, <1>13, <3>1, <3>11, <5>1 DEF Post, Matched
        <5>3. QED BY <3>1, <3>11, <5>2
      <4>3. QED BY <4>1, <4>2
    <3>12. Playing(s)' BY <1>1, <1>7, <1>13, <3>10, <3>11 DEF Progress, Playing
    <3>13. QED BY <1>13, <2>1, <3>7, <3>8, <3>9, <3>12 DEF Progress
  <2>5. QED BY <1>7, <1>13, <2>3, <2>4, PeerTakesPost
<1>14. QED BY <1>10, <1>11, <1>12, <1>13

(* The looper.                                                             *)
LEMMA NeedSinkRtp ==
  ASSUME TypeOK, RtpInv, NeedSink \/ SinkKept, mSessionID # 0, UNCHANGED <<mSessionID, mState>>,
         Items(msgs') \subseteq Items(msgs)
  PROVE  /\ RtpInv' /\ (NeedSink => rtp'.id # 0)
         /\ rtp.id # 0 => rtp'.id # 0 /\ rtp'.conn = rtp.conn
<1>1. CASE SinkKept BY <1>1, NeedSinkStep DEF SinkKept, RtpInv
<1>2. CASE NeedSink /\ rtp.id # 0
  <2>1. SinkKept /\ rtp'.id # 0 BY <1>2, NeedSinkStep
  <2>2. QED BY <1>2, <2>1 DEF SinkKept, RtpInv
<1>3. CASE NeedSink /\ rtp.id = 0
  <2>1. sinks' = sinks + 1 /\ rtp' = [id |-> sinks + 1, open |-> {"rtp", "rtcp"}, conn |-> FALSE]
    BY <1>3, NeedSinkStep
  <2>2. rtp'.id = sinks + 1 /\ rtp'.open = {"rtp", "rtcp"} BY <2>1
  <2>3. sinks \in Nat BY DEF TypeOK
  <2>4. msgs \in Seq(Letters) BY DEF TypeOK, Letters
  <2>5. Items(msgs) \subseteq Letters BY <2>4, ItemsOf
  <2>6. ASSUME NEW m \in Items(msgs'), m.k = "udp"
        PROVE  m.s <= sinks' /\ (m.s = rtp'.id => mState' = "PLAYING")
    <3>1. m.s \in Nat /\ m.s <= sinks BY <2>5, <2>6, Kinds DEF RtpInv
    <3>2. QED BY <2>1, <2>2, <2>3, <3>1
  <2>7. QED BY <1>3, <2>2, <2>3, <2>6 DEF RtpInv
<1>4. QED BY <1>1, <1>2, <1>3

(* A new function waits for a number of its own.                           *)
LEMMA AsksHandlers ==
  ASSUME TypeOK, HandlersInv, NEW s, NEW f, NEW o, NEW rest \in SUBSET handlers,
         Asks(s, f, o, rest)
  PROVE  HandlersInv'
<1>1. handlers' = rest \cup {[s |-> s, c |-> mNextCSeq, f |-> f]} BY DEF Asks
<1>2. \A h \in handlers : h.c # mNextCSeq
  <2>1. mNextCSeq \in Nat BY DEF TypeOK
  <2>2. \A h \in handlers : h.c \in 1 .. mNextCSeq - 1 BY DEF TypeOK
  <2>3. QED BY <2>1, <2>2
<1>3. QED BY <1>1, <1>2 DEF HandlersInv

(* Data and "connected" are of the sink's session, which is connected; it  *)
(* no longer starts when they are handled.                                 *)
LEMMA Handled ==
  ASSUME TypeOK, Inv, NEW k \in {"data", "connected"}, Deliver(k)
  PROVE  /\ M.s = mSessionID /\ mSessionID \in Sessions /\ Alive(M.s) /\ M.d # "4xx"
         /\ sess[M.s].st = "connected" /\ Post(M.s) /\ Progress(M.s)
         /\ msgs # <<>> /\ msgs' = Tail(msgs) /\ Items(msgs') \subseteq Items(msgs)
         /\ M \in Items(msgs) /\ M \in Letters /\ M.k = k
         /\ ~Holds(msgs', "connected")
<1>1. /\ msgs # <<>> /\ M \in Letters /\ M.k = k /\ msgs' = Tail(msgs)
      /\ M \in Items(msgs) /\ Items(msgs') \subseteq Items(msgs)
  BY Delivered
<1>2. M.s = mSessionID /\ sess[M.s].st = "connected" /\ M.d # "4xx"
  BY <1>1 DEF Inv, OrderInv, Good, Current
<1>3. M.s \in Sessions BY <1>1, Kinds
<1>4. M.s # 0 BY <1>3 DEF Sessions
<1>5. Alive(M.s) BY <1>2, <1>4 DEF Alive
<1>6. Post(M.s) /\ Progress(M.s) BY <1>2, <1>4, LiveSession
<1>7. ~Holds(msgs', "connected")
  <2>1. msgs \in Seq(Letters) BY DEF TypeOK, Letters
  <2>2. \A x \in Items(msgs') : Before(M, x)
    BY <1>1, <2>1, OrderedPop DEF Inv, OrderInv, M
  <2>3. QED BY <1>1, <2>2 DEF Before, Holds
<1>8. QED BY <1>1, <1>2, <1>3, <1>5, <1>6, <1>7

(* OnConnected begins the negotiation.                                     *)
LEMMA ConnectedLive ==
  ASSUME Covered, TypeOK, Inv, OnConnected
  PROVE  HandlersInv' /\ LiveInv' /\ RtpInv' /\ ~aborted'
<1> USE DEF looperOnly, NoFunction, SinkKept
<1>1. Deliver("connected") /\ UNCHANGED looperOnly BY OnConnectedStep
<1>2. PICK s : s = M.s OBVIOUS
<1>3. /\ s = mSessionID /\ s \in Sessions /\ Alive(s) /\ sess[s].st = "connected"
      /\ Post(s) /\ Progress(s) /\ msgs # <<>> /\ msgs' = Tail(msgs)
      /\ Items(msgs') \subseteq Items(msgs) /\ M \in Items(msgs) /\ M.k = "connected"
      /\ ~Holds(msgs', "connected")
  BY <1>1, <1>2, Handled
<1>4. mState' = "CONNECTED" /\ UNCHANGED <<mSessionID, aborted>> /\ SinkKept
      /\ UNCHANGED <<uri, peer>>
  BY <1>1, <1>3, OnConnectedStep
<1>5. Starts(s) BY <1>3 DEF Starts, Holds
<1>6. mState = "CONNECTING" /\ (\A h \in handlers : h.s # s) /\ ~Mid(s) /\ ~Late(s)
  BY <1>3, <1>5 DEF Progress, Stages, Early
<1>7. RtpInv'
  <2>1. rtp.id # 0 => rtp.open = {"rtp", "rtcp"} BY <1>6 DEF Inv, RtpInv
  <2>2. \A m \in Items(msgs) : m.k = "udp" => m.s <= sinks /\ m.s # rtp.id
    BY <1>6 DEF Inv, RtpInv
  <2>3. mSessionID' # 0 BY <1>3, <1>4 DEF Sessions
  <2>4. QED BY <1>3, <1>4, <2>1, <2>2, <2>3 DEF RtpInv
<1>8. \A x : M \notin Theirs(x) BY <1>3 DEF Theirs
<1>9. Replies(s, sess[s].out) BY <1>1, <1>3, <1>8 DEF Replies
<1>10. /\ HandlersInv' /\ Post(s)' /\ sess'[s].st = "connected"
       /\ BackOf(s)' \subseteq BackOf(s) /\ (PlaySent(s)' => PlaySent(s))
       /\ \A h \in handlers' : h \in handlers \/ (h.s = s /\ h.f = "DESCRIBE" /\ uri)
       /\ \A g, h \in handlers' : g.s = s /\ h.s = s => g = h
  <2>1. CASE ~uri
    <3>1. UNCHANGED sess /\ NoFunction BY <1>3, <2>1, OnConnectedStep
    <3>2. Post(s)' /\ BackOf(s)' \subseteq BackOf(s)
      BY <1>3, <1>4, <1>8, <1>9, <3>1, AnswerPost
    <3>3. SentOf(s)' = SentOf(s) BY <3>1 DEF SentOf
    <3>4. HandlersInv' BY <3>1 DEF Inv, HandlersInv
    <3>5. PlaySent(s)' => PlaySent(s) BY <3>3 DEF PlaySent
    <3>6. QED BY <1>3, <1>6, <3>1, <3>2, <3>4, <3>5
  <2>2. CASE uri
    <3>1. Asks(s, "DESCRIBE", sess[s].out, handlers) BY <1>2, <1>3, <2>2, OnConnectedStep
    <3>2. "DESCRIBE" \in Functions /\ handlers \in SUBSET handlers BY DEF Functions
    <3>3. /\ Post(s)' /\ BackOf(s)' \subseteq BackOf(s)
          /\ \A m \in SentOf(s)' : m \in SentOf(s) \/ m.d = "answer" \/ m.d = "DESCRIBE"
      BY <1>3, <1>8, <1>9, <3>1, <3>2, AskPost
    <3>4. HandlersInv' BY <3>1, <3>2, AsksHandlers DEF Inv
    <3>5. PlaySent(s)' => PlaySent(s) BY <3>3 DEF PlaySent
    <3>6. /\ handlers' = handlers \cup {[s |-> s, c |-> mNextCSeq, f |-> "DESCRIBE"]}
          /\ sess'[s].st = "connected"
      BY <1>3, <3>1 DEF Asks, Wire
    <3>7. QED BY <1>6, <2>2, <3>3, <3>4, <3>5, <3>6
  <2>3. QED BY <2>1, <2>2
<1>11. ~Starts(s)' BY <1>3, <1>10 DEF Starts
<1>12. ~Mid(s)' BY <1>6, <1>10 DEF Mid, Waits
<1>13. ~Late(s)' BY <1>4, <1>6, <1>10 DEF Late, Waits
<1>14. Stages(s)' BY <1>11, <1>12, <1>13 DEF Stages
<1>15. Single(s)' BY <1>10 DEF Single
<1>16. Requested(s)'
  <2>1. Triggered(s)' => Triggered(s) BY <1>10 DEF Triggered
  <2>2. Waits(s, "DESCRIBE")' => uri BY <1>6, <1>10 DEF Waits
  <2>3. QED BY <1>3, <1>4, <2>1, <2>2 DEF Progress, Requested
<1>17. Playing(s)'
  <2>1. \A h \in handlers' : h.s = s => h.f = "DESCRIBE" BY <1>6, <1>10
  <2>2. QED BY <1>4, <2>1 DEF Playing
<1>18. Post(s)' /\ Progress(s)' BY <1>10, <1>14, <1>15, <1>16, <1>17 DEF Progress
<1>19. mSessionID' = s BY <1>3, <1>4
<1>20. LiveInv' BY <1>18, <1>19 DEF LiveInv
<1>21. ~aborted' BY <1>4 DEF Inv
<1>22. QED BY <1>7, <1>10, <1>20, <1>21

(* A handler that sends the request f and waits for its response.          *)
LEMMA AskedOnce ==
  ASSUME NEW s, NEW f, NEW o, NEW rest \in SUBSET handlers, Asks(s, f, o, rest)
  PROVE  /\ \A g : Waits(s, g)' <=> (g = f \/ \E h \in rest : h.s = s /\ h.f = g)
         /\ sess'[s].st = sess[s].st /\ handlers' = rest \cup {[s |-> s, c |-> mNextCSeq, f |-> f]}
<1>1. /\ handlers' = rest \cup {[s |-> s, c |-> mNextCSeq, f |-> f]}
      /\ sess'[s].st = sess[s].st
  BY DEF Asks, Wire
<1>2. PICK n : n = [s |-> s, c |-> mNextCSeq, f |-> f] OBVIOUS
<1>3. n.s = s /\ n.f = f BY <1>2
<1>4. \A g : Waits(s, g)' <=> \E h \in rest \cup {n} : h.s = s /\ h.f = g
  BY <1>1, <1>2 DEF Waits
<1>5. QED BY <1>1, <1>3, <1>4

(* A request of the source is answered; an RTPSink is made when it needs   *)
(* one, and the trigger sends SETUP.                                       *)
LEMMA RequestLive ==
  ASSUME Covered, TypeOK, Inv, OnRequest
  PROVE  HandlersInv' /\ LiveInv' /\ RtpInv' /\ ~aborted'
<1> USE DEF looperOnly, NoFunction
<1>1. Deliver("data") /\ UNCHANGED looperOnly /\ M \in Incoming /\ M.d \in Requests
  BY OnRequestStep
<1>2. PICK s, o : s = M.s /\ o = Append(sess[s].out, Answer) OBVIOUS
<1>3. /\ s = mSessionID /\ s \in Sessions /\ Alive(s) /\ sess[s].st = "connected"
      /\ Post(s) /\ Progress(s) /\ msgs # <<>> /\ msgs' = Tail(msgs) /\ M \in Letters
      /\ Items(msgs') \subseteq Items(msgs) /\ M \in Items(msgs) /\ M.k = "data"
      /\ ~Holds(msgs', "connected")
  BY <1>1, <1>2, Handled
<1>4. M.c = 0 BY <1>1, IncomingKinds
<1>5. M \in Theirs(0) /\ \A x : x # 0 => M \notin Theirs(x) BY <1>3, <1>4 DEF Theirs
<1>6. \A h \in handlers : M \notin Theirs(h.c) BY <1>5 DEF TypeOK
<1>7. Replies(s, o) BY <1>1, <1>2, <1>3, <1>5 DEF Replies
<1>8. UNCHANGED <<mSessionID, mState, aborted, uri, peer>> /\ (NeedSink \/ SinkKept)
  BY <1>1, <1>2, <1>3, OnRequestStep
<1>9. s # 0 BY <1>3 DEF Sessions
<1>10. /\ RtpInv' /\ (NeedSink => rtp'.id # 0)
       /\ rtp.id # 0 => rtp'.id # 0 /\ rtp'.conn = rtp.conn
  BY <1>3, <1>8, <1>9, NeedSinkRtp DEF Inv
<1>11. ~aborted' BY <1>8 DEF Inv
<1>12. SUFFICES HandlersInv' /\ Post(s)' /\ Progress(s)'
  <2>1. mSessionID' = s BY <1>3, <1>8
  <2>2. QED BY <1>10, <1>11, <1>12, <2>1 DEF LiveInv
<1>13. ASSUME sess'[s].st = sess[s].st PROVE ~Starts(s)' BY <1>3, <1>13 DEF Starts
<1>14. CASE NoFunction /\ Wire(s, o, sess[s].inbox, sess[s].in)
  <2>1. /\ sess'[s].out = o /\ sess'[s].inbox = sess[s].inbox /\ sess'[s].in = sess[s].in
        /\ sess'[s].st = sess[s].st
    BY <1>14 DEF Wire
  <2>2. /\ Post(s)' /\ BackOf(s)' \subseteq BackOf(s)
        /\ \A m \in SentOf(s)' : m \in SentOf(s) \/ m = Answer
    BY <1>3, <1>6, <1>7, <1>14, <2>1, AnswerPost
  <2>3. PlaySent(s)' => PlaySent(s) BY <2>2 DEF PlaySent, Answer
  <2>4. Progress(s)' BY <1>3, <1>8, <1>10, <1>13, <1>14, <2>1, <2>2, <2>3, Onward
  <2>5. HandlersInv' BY <1>14 DEF Inv, HandlersInv
  <2>6. QED BY <2>2, <2>4, <2>5
<1>15. ASSUME NEW f \in {"OPTIONS", "SETUP"}, Asks(s, f, o, handlers)
       PROVE  /\ HandlersInv' /\ Post(s)' /\ ~Starts(s)' /\ BackOf(s)' \subseteq BackOf(s)
              /\ PlaySent(s)' => PlaySent(s)
              /\ \A g : Waits(s, g)' <=> Waits(s, g) \/ g = f
              /\ handlers' = handlers \cup {[s |-> s, c |-> mNextCSeq, f |-> f]}
  <2>1. f \in Functions /\ handlers \in SUBSET handlers BY DEF Functions
  <2>2. /\ Post(s)' /\ BackOf(s)' \subseteq BackOf(s)
        /\ \A m \in SentOf(s)' : m \in SentOf(s) \/ m.d = "answer" \/ m.d = f
    BY <1>3, <1>6, <1>7, <1>15, <2>1, AskPost
  <2>3. HandlersInv' BY <1>15, <2>1, AsksHandlers DEF Inv
  <2>4. PlaySent(s)' => PlaySent(s) BY <2>2 DEF PlaySent
  <2>5. /\ \A g : Waits(s, g)' <=> (g = f \/ \E h \in handlers : h.s = s /\ h.f = g)
        /\ sess'[s].st = sess[s].st
        /\ handlers' = handlers \cup {[s |-> s, c |-> mNextCSeq, f |-> f]}
    BY <1>15, <2>1, AskedOnce
  <2>6. QED BY <1>13, <2>2, <2>3, <2>4, <2>5 DEF Waits
<1>16. ASSUME BackOf(s)' \subseteq BackOf(s)
       PROVE  /\ Triggered(s)' => Triggered(s)
              /\ \A c : Answered(s, c)' => Answered(s, c)
  BY <1>16 DEF Triggered, Answered
<1>17. CASE Asks(s, "OPTIONS", o, handlers)
  <2>1. /\ HandlersInv' /\ Post(s)' /\ ~Starts(s)' /\ BackOf(s)' \subseteq BackOf(s)
        /\ PlaySent(s)' => PlaySent(s)
        /\ \A g : Waits(s, g)' <=> Waits(s, g) \/ g = "OPTIONS"
        /\ handlers' = handlers \cup {[s |-> s, c |-> mNextCSeq, f |-> "OPTIONS"]}
    BY <1>15, <1>17
  <2>2. Early(s)' => Early(s) BY <1>8, <1>16, <2>1 DEF Early
  <2>3. Mid(s)' => Mid(s) BY <2>1 DEF Mid
  <2>4. Late(s)' => Late(s) BY <1>8, <2>1 DEF Late
  <2>5. Stages(s)' BY <1>3, <1>8, <1>10, <2>1, <2>2, <2>3, <2>4 DEF Progress, Stages
  <2>6. Single(s)' BY <1>3, <2>1 DEF Progress, Single
  <2>7. Requested(s)' BY <1>3, <1>8, <1>16, <2>1 DEF Progress, Requested
  <2>8. Playing(s)' BY <1>3, <1>8, <1>16, <2>1 DEF Progress, Playing
  <2>9. QED BY <2>1, <2>5, <2>6, <2>7, <2>8 DEF Progress
<1>18. CASE M.d = "TRIGGER" /\ Asks(s, "SETUP", o, handlers) /\ NeedSink
  <2>1. /\ HandlersInv' /\ Post(s)' /\ ~Starts(s)' /\ BackOf(s)' \subseteq BackOf(s)
        /\ PlaySent(s)' => PlaySent(s)
        /\ \A g : Waits(s, g)' <=> Waits(s, g) \/ g = "SETUP"
        /\ handlers' = handlers \cup {[s |-> s, c |-> mNextCSeq, f |-> "SETUP"]}
    BY <1>15, <1>18
  <2>2. M \in BackOf(s) BY <1>3 DEF BackOf
  <2>3. Triggered(s) BY <1>18, <2>2 DEF Triggered
  <2>4. ~uri /\ peer[s].asked = 4 BY <1>3, <2>3 DEF Progress, Requested
  <2>5. Early(s) BY <2>3, <2>4 DEF Early
  <2>6. ~Mid(s) /\ ~Late(s) BY <1>3, <2>5 DEF Progress, Stages
  \* The trigger is the one request of the source: no other is left.
  <2>7. ~Triggered(s)'
    <3>1. msgs \in Seq(Letters) BY DEF TypeOK, Letters
    <3>2. OneOf(sess[s].out, sess[s].inbox, sess[s].in, msgs, 0)
      BY <1>3 DEF Post, Polite, One
    <3>3. ~AnyOf(sess[s].out, sess[s].inbox, sess[s].in, msgs', 0)
      BY <1>3, <1>5, <3>1, <3>2, Taken DEF M
    <3>4. Items(sess[s].in) \subseteq Incoming /\ Items(msgs) \subseteq Letters
      BY <1>3, <3>1, Fields, ItemsOf
    <3>5. ASSUME NEW m \in Letters, m.d = "TRIGGER" PROVE m \in Theirs(0)
      <4>1. m.k = "data" BY <3>5, NoteKinds
      <4>2. m \in Incoming BY <4>1, Kinds
      <4>3. m.c = 0 BY <3>5, <4>2, IncomingKinds
      <4>4. QED BY <4>1, <4>3 DEF Theirs
    <3>6. \A m \in Items(sess[s].in) \cup Items(msgs') : m.d # "TRIGGER"
      BY <1>3, <3>3, <3>4, <3>5, Letter DEF AnyOf, Has
    <3>7. sess'[s].in = sess[s].in BY <1>18 DEF Asks, Wire
    <3>8. QED BY <3>6, <3>7 DEF Triggered, BackOf
  <2>8. ~Waits(s, "DESCRIBE")
    BY <1>3, <2>4 DEF Progress, Requested
  <2>9. ~Early(s)' BY <1>8, <2>1, <2>4, <2>7, <2>8 DEF Early
  <2>10. ~Late(s)' BY <1>8, <2>1, <2>6 DEF Late
  <2>11. Stages(s)' BY <1>10, <1>18, <2>1, <2>9, <2>10 DEF Stages
  <2>12. Single(s)' BY <1>3, <2>1, <2>6 DEF Progress, Single, Mid, Waits
  <2>13. Requested(s)' BY <2>1, <2>7, <2>8 DEF Requested
  <2>14. Playing(s)' BY <1>3, <1>8, <1>16, <2>1 DEF Progress, Playing
  <2>15. QED BY <2>1, <2>11, <2>12, <2>13, <2>14 DEF Progress
<1>19. QED BY <1>2, <1>3, <1>14, <1>17, <1>18, OnRequestStep

(* A response finds its function; SETUP's finds the RTPSink and connects   *)
(* it, PLAY's a source that plays.                                         *)
LEMMA ResponseLive ==
  ASSUME Covered, TypeOK, Inv, OnResponse
  PROVE  HandlersInv' /\ LiveInv' /\ RtpInv' /\ ~aborted'
<1> USE DEF looperOnly, NoFunction
<1>1. Deliver("data") /\ UNCHANGED looperOnly /\ M \in Incoming /\ M.d \in {"200", "4xx"}
  BY OnResponseStep
<1>2. PICK s, o : s = M.s /\ o = sess[s].out OBVIOUS
<1>3. /\ s = mSessionID /\ s \in Sessions /\ Alive(s) /\ sess[s].st = "connected"
      /\ Post(s) /\ Progress(s) /\ msgs # <<>> /\ msgs' = Tail(msgs) /\ M \in Letters
      /\ Items(msgs') \subseteq Items(msgs) /\ M \in Items(msgs) /\ M.k = "data"
      /\ ~Holds(msgs', "connected") /\ M.d # "4xx"
  BY <1>1, <1>2, Handled
<1>4. M.c \in Nat \ {0} /\ M.d = "200" BY <1>1, <1>3, IncomingKinds DEF Requests
<1>5. \A x : M \in Theirs(x) => x = M.c BY DEF Theirs
<1>6. Replies(s, o) BY <1>1, <1>2, <1>3, <1>4, <1>5 DEF Replies
<1>7. s # 0 BY <1>3 DEF Sessions
<1>8. ASSUME sess'[s].st = sess[s].st PROVE ~Starts(s)' BY <1>3, <1>8 DEF Starts
<1>9. ASSUME HandlersInv', Post(s)', Progress(s)', RtpInv', UNCHANGED <<mSessionID, aborted>>
      PROVE  HandlersInv' /\ LiveInv' /\ RtpInv' /\ ~aborted'
  <2>1. mSessionID' = s BY <1>3, <1>9
  <2>2. QED BY <1>9, <2>1 DEF LiveInv, Inv
<1>10. ASSUME NEW h \in HandlersOf
       PROVE  /\ h \in handlers /\ h.s = s /\ h.c = M.c
              /\ \A g \in handlers \ {h} : M \notin Theirs(g.c)
  <2>1. h \in handlers /\ h.s = s /\ h.c = M.c BY <1>2 DEF HandlersOf
  <2>2. \A g \in handlers : g.c = M.c => g = h BY <2>1 DEF Inv, HandlersInv
  <2>3. QED BY <1>5, <2>1, <2>2
\* Nothing is sent.
<1>11. ASSUME UNCHANGED <<sess, mNextCSeq>>, handlers' \subseteq handlers,
              \A h \in handlers' : h.s = s => M \notin Theirs(h.c)
       PROVE  /\ HandlersInv' /\ Post(s)' /\ BackOf(s)' \subseteq BackOf(s) /\ ~Starts(s)'
              /\ SentOf(s)' = SentOf(s)
  <2>1. Post(s)' /\ BackOf(s)' \subseteq BackOf(s) BY <1>2, <1>3, <1>6, <1>11, AnswerPost
  <2>2. SentOf(s)' = SentOf(s) BY <1>11 DEF SentOf
  <2>3. HandlersInv' BY <1>11 DEF Inv, HandlersInv
  <2>4. QED BY <1>8, <1>11, <2>1, <2>2, <2>3
<1>12. ASSUME UNCHANGED <<sess, mNextCSeq, mSessionID, mState, aborted>>, SinkKept,
              handlers' \subseteq handlers, \A h \in handlers' : h.s = s => M \notin Theirs(h.c)
       PROVE  HandlersInv' /\ LiveInv' /\ RtpInv' /\ ~aborted'
  <2>1. /\ HandlersInv' /\ Post(s)' /\ BackOf(s)' \subseteq BackOf(s) /\ ~Starts(s)'
        /\ SentOf(s)' = SentOf(s)
    BY <1>11, <1>12
  <2>2. PlaySent(s)' => PlaySent(s) BY <2>1 DEF PlaySent
  <2>3. Progress(s)' BY <1>1, <1>3, <1>12, <2>1, <2>2, Onward DEF SinkKept
  <2>4. RtpInv' BY <1>3, <1>12, RtpKept DEF Inv, SinkKept
  <2>5. QED BY <1>9, <1>12, <2>1, <2>3, <2>4
<1>13. CASE HandlersOf = {}
  <2>1. UNCHANGED <<sess, mSessionID, mState, aborted>> /\ NoFunction /\ SinkKept
    BY <1>13, OnResponseStep
  <2>2. \A h \in handlers : h.s = s => h.c # M.c BY <1>2, <1>13 DEF HandlersOf
  <2>3. \A h \in handlers' : h.s = s => M \notin Theirs(h.c) BY <1>5, <2>1, <2>2
  <2>4. QED BY <1>12, <2>1, <2>3
\* The function of h has sent the request f.
<1>14. ASSUME NEW h \in HandlersOf, NEW f \in {"SETUP", "PLAY"}, Asks(s, f, o, handlers \ {h})
       PROVE  /\ HandlersInv' /\ Post(s)' /\ ~Starts(s)' /\ BackOf(s)' \subseteq BackOf(s)
              /\ \A m \in SentOf(s)' : m \in SentOf(s) \/ m.d = "answer" \/ m.d = f
              /\ ~\E m \in BackOf(s)' : m.c = mNextCSeq
              /\ \A g : Waits(s, g)' <=> (g = f \/ \E e \in handlers \ {h} : e.s = s /\ e.f = g)
              /\ handlers' = (handlers \ {h}) \cup {[s |-> s, c |-> mNextCSeq, f |-> f]}
  <2>1. f \in Functions /\ handlers \ {h} \in SUBSET handlers BY DEF Functions
  <2>2. \A g \in handlers \ {h} : g.s = s => M \notin Theirs(g.c) BY <1>10
  <2>3. /\ Post(s)' /\ BackOf(s)' \subseteq BackOf(s)
        /\ \A m \in SentOf(s)' : m \in SentOf(s) \/ m.d = "answer" \/ m.d = f
        /\ ~\E m \in BackOf(s)' : m.c = mNextCSeq
    BY <1>3, <1>6, <1>14, <2>1, <2>2, AskPost
  <2>4. HandlersInv' BY <1>14, <2>1, AsksHandlers DEF Inv
  <2>5. /\ \A g : Waits(s, g)' <=> (g = f \/ \E e \in handlers \ {h} : e.s = s /\ e.f = g)
        /\ sess'[s].st = sess[s].st
        /\ handlers' = (handlers \ {h}) \cup {[s |-> s, c |-> mNextCSeq, f |-> f]}
    BY <1>14, <2>1, AskedOnce
  <2>6. QED BY <1>8, <2>3, <2>4, <2>5
<1>15. ASSUME BackOf(s)' \subseteq BackOf(s)
       PROVE  /\ Triggered(s)' => Triggered(s)
              /\ \A c : Answered(s, c)' => Answered(s, c)
  BY <1>15 DEF Triggered, Answered
<1>16. ASSUME NEW h \in HandlersOf, h.f = "DESCRIBE", NeedSink,
              Asks(s, "SETUP", o, handlers \ {h}), UNCHANGED <<mSessionID, mState, aborted>>
       PROVE  HandlersInv' /\ LiveInv' /\ RtpInv' /\ ~aborted'
  <2>1. /\ HandlersInv' /\ Post(s)' /\ ~Starts(s)' /\ BackOf(s)' \subseteq BackOf(s)
        /\ \A m \in SentOf(s)' : m \in SentOf(s) \/ m.d = "answer" \/ m.d = "SETUP"
        /\ \A g : Waits(s, g)' <=> (g = "SETUP" \/ \E e \in handlers \ {h} : e.s = s /\ e.f = g)
        /\ handlers' = (handlers \ {h}) \cup {[s |-> s, c |-> mNextCSeq, f |-> "SETUP"]}
    BY <1>14, <1>16
  <2>2. h \in handlers /\ h.s = s BY <1>10, <1>16
  <2>3. Waits(s, "DESCRIBE") BY <1>16, <2>2 DEF Waits
  <2>4. uri /\ ~Mid(s) /\ ~Late(s)
    BY <1>3, <2>3 DEF Progress, Requested, Stages, Early
  <2>5. ~Waits(s, "DESCRIBE")' BY <1>3, <1>16, <2>1, <2>2 DEF Progress, Single
  <2>6. RtpInv' /\ rtp'.id # 0 BY <1>3, <1>7, <1>16, NeedSinkRtp DEF Inv
  <2>7. ~Early(s)' BY <1>1, <2>1, <2>4, <2>5 DEF Early
  <2>8. ~Late(s)'
    <3>1. ~Waits(s, "PLAY")' BY <2>1, <2>4 DEF Late, Waits
    <3>2. ~PlaySent(s)' BY <2>1, <2>4 DEF Late, PlaySent
    <3>3. QED BY <1>1, <1>16, <2>4, <3>1, <3>2 DEF Late
  <2>9. Stages(s)' BY <2>1, <2>6, <2>7, <2>8 DEF Stages
  <2>10. Single(s)'
    <3>1. ASSUME NEW g \in handlers', g.s = s, g.f \in {"DESCRIBE", "SETUP"}
          PROVE  g = [s |-> s, c |-> mNextCSeq, f |-> "SETUP"]
      BY <2>1, <2>4, <2>5, <3>1 DEF Mid, Waits
    <3>2. QED BY <3>1 DEF Single
  <2>11. Requested(s)' BY <1>1, <1>3, <1>15, <2>1, <2>5 DEF Progress, Requested
  <2>12. Playing(s)' BY <2>8 DEF Playing, Late, Waits
  <2>13. QED BY <1>9, <1>16, <2>1, <2>6, <2>9, <2>10, <2>11, <2>12 DEF Progress
<1>17. ASSUME NEW h \in HandlersOf, h.f = "SETUP", rtp.open = {"rtp", "rtcp"},
              rtp' = [rtp EXCEPT !.conn = TRUE], mState' = "PAUSED",
              Asks(s, "PLAY", o, handlers \ {h}), UNCHANGED <<mSessionID, sinks, aborted>>
       PROVE  HandlersInv' /\ LiveInv' /\ RtpInv' /\ ~aborted'
  <2>1. /\ HandlersInv' /\ Post(s)' /\ ~Starts(s)' /\ BackOf(s)' \subseteq BackOf(s)
        /\ ~\E m \in BackOf(s)' : m.c = mNextCSeq
        /\ \A g : Waits(s, g)' <=> (g = "PLAY" \/ \E e \in handlers \ {h} : e.s = s /\ e.f = g)
        /\ handlers' = (handlers \ {h}) \cup {[s |-> s, c |-> mNextCSeq, f |-> "PLAY"]}
    BY <1>14, <1>17
  <2>2. h \in handlers /\ h.s = s BY <1>10, <1>17
  <2>3. Mid(s) BY <1>17, <2>2 DEF Mid, Waits
  <2>4. ~Early(s) /\ ~Late(s) /\ rtp.id # 0 BY <1>3, <2>3 DEF Progress, Stages
  <2>5. rtp'.id = rtp.id /\ rtp'.open = rtp.open /\ rtp'.conn
    BY <1>17 DEF TypeOK
  <2>6. RtpInv'
    <3>1. \A m \in Items(msgs) : m.k = "udp" => m.s <= sinks /\ m.s # rtp.id
      BY <2>4 DEF Inv, RtpInv, Late
    <3>2. QED BY <1>3, <1>7, <1>17, <2>5, <3>1 DEF RtpInv
  <2>7. ~Mid(s)' BY <1>3, <1>17, <2>1, <2>2 DEF Progress, Single, Mid
  <2>8. Waits(s, "DESCRIBE")' => Waits(s, "DESCRIBE") BY <2>1 DEF Waits
  <2>9. ~Early(s)' BY <1>1, <1>15, <2>1, <2>4, <2>8 DEF Early
  <2>10. Stages(s)' BY <2>1, <2>4, <2>5, <2>7, <2>9 DEF Stages
  <2>11. Single(s)'
    <3>1. \A g \in handlers' : g.s = s /\ g.f \in {"DESCRIBE", "SETUP"} => g \in handlers
      BY <2>1
    <3>2. QED BY <1>3, <3>1 DEF Progress, Single
  <2>12. Requested(s)' BY <1>1, <1>3, <1>15, <2>1, <2>8 DEF Progress, Requested
  <2>13. Playing(s)'
    <3>1. ASSUME NEW g \in handlers', g.s = s, g.f = "PLAY" PROVE ~Answered(s, g.c)'
      <4>1. g = [s |-> s, c |-> mNextCSeq, f |-> "PLAY"]
        BY <2>1, <2>4, <3>1 DEF Late, Waits
      <4>2. g.c = mNextCSeq BY <4>1
      <4>3. QED BY <2>1, <4>2 DEF Answered
    <3>2. QED BY <1>17, <3>1 DEF Playing
  <2>14. QED BY <1>9, <1>17, <2>1, <2>6, <2>10, <2>11, <2>12, <2>13 DEF Progress
<1>18. ASSUME NEW h \in HandlersOf, h.f = "OPTIONS", handlers' = handlers \ {h},
              UNCHANGED <<sess, mSessionID, mState, mNextCSeq, aborted>>, SinkKept
       PROVE  HandlersInv' /\ LiveInv' /\ RtpInv' /\ ~aborted'
  <2>1. \A g \in handlers' : g.s = s => M \notin Theirs(g.c) BY <1>10, <1>18
  <2>2. QED BY <1>12, <1>18, <2>1
<1>19. ASSUME NEW h \in HandlersOf, h.f = "PLAY", handlers' = handlers \ {h},
              mState' = "PLAYING", UNCHANGED <<sess, mSessionID, mNextCSeq, aborted>>, SinkKept
       PROVE  HandlersInv' /\ LiveInv' /\ RtpInv' /\ ~aborted'
  <2>1. \A g \in handlers' : g.s = s => M \notin Theirs(g.c) BY <1>10, <1>19
  <2>2. /\ HandlersInv' /\ Post(s)' /\ BackOf(s)' \subseteq BackOf(s) /\ ~Starts(s)'
        /\ SentOf(s)' = SentOf(s)
    BY <1>11, <1>19, <2>1
  <2>3. h \in handlers /\ h.s = s /\ h.c = M.c BY <1>10, <1>19
  <2>4. Late(s) BY <1>19, <2>3 DEF Late, Waits
  <2>5. rtp.id # 0 /\ rtp.conn /\ ~Early(s) /\ ~Mid(s) BY <1>3, <2>4 DEF Progress, Stages
  <2>6. peer[s].playing
    <3>1. Answered(s, h.c) BY <1>3, <2>3 DEF Answered, BackOf
    <3>2. QED BY <1>3, <1>19, <2>3, <3>1 DEF Progress, Playing
  <2>7. \A f : Waits(s, f)' => Waits(s, f) BY <1>19 DEF Waits
  <2>8. ~Early(s)' /\ ~Mid(s)' BY <1>1, <1>15, <2>2, <2>5, <2>7 DEF Early, Mid
  <2>9. Stages(s)' BY <1>19, <2>2, <2>5, <2>8 DEF Stages, SinkKept
  <2>10. Single(s)' BY <1>3, <1>19 DEF Progress, Single
  <2>11. Requested(s)' BY <1>1, <1>3, <1>15, <2>2, <2>7 DEF Progress, Requested
  <2>12. Playing(s)' BY <1>1, <2>6 DEF Playing
  <2>13. RtpInv' BY <1>3, <1>19 DEF Inv, RtpInv, SinkKept
  <2>14. QED BY <1>9, <1>19, <2>2, <2>9, <2>10, <2>11, <2>12, <2>13 DEF Progress
\* No CHECK fails: SETUP is answered while no socket of the RTPSink can have failed.
<1>20. ASSUME NEW h \in HandlersOf, h.f = "SETUP" PROVE rtp.open = {"rtp", "rtcp"}
  <2>1. h \in handlers /\ h.s = s BY <1>10
  <2>2. Mid(s) BY <1>20, <2>1 DEF Mid, Waits
  <2>3. rtp.id # 0 /\ mState # "PLAYING" BY <1>3, <2>2 DEF Progress, Stages, Late
  <2>4. QED BY <2>3 DEF Inv, RtpInv
<1>21. CASE HandlersOf # {}
  <2>1. CASE \E h \in HandlersOf :
               /\ h.f = "DESCRIBE" /\ NeedSink
               /\ Asks(M.s, "SETUP", sess[M.s].out, handlers \ {h})
               /\ UNCHANGED <<mSessionID, mState, aborted>>
    BY <1>2, <1>16, <2>1
  <2>2. CASE \E h \in HandlersOf :
               /\ h.f = "SETUP" /\ rtp.open = {"rtp", "rtcp"}
               /\ rtp' = [rtp EXCEPT !.conn = TRUE] /\ mState' = "PAUSED"
               /\ Asks(M.s, "PLAY", sess[M.s].out, handlers \ {h})
               /\ UNCHANGED <<mSessionID, sinks, udp, aborted>>
    BY <1>2, <1>17, <2>2
  <2>3. CASE \E h \in HandlersOf :
               /\ h.f \in {"OPTIONS", "PLAY"} /\ handlers' = handlers \ {h}
               /\ mState' = IF h.f = "PLAY" THEN "PLAYING" ELSE mState
               /\ UNCHANGED <<sess, mSessionID, mNextCSeq, aborted>> /\ SinkKept
    BY <1>18, <1>19, <2>3
  <2>4. QED BY <1>2, <1>3, <1>4, <1>20, <1>21, <2>1, <2>2, <2>3, OnResponseStep
<1>22. QED BY <1>13, <1>21

(* A session begins: nothing is on its way, and nothing of another session *)
(* is with the looper.                                                     *)
LEMMA StartLive ==
  ASSUME Covered, TypeOK, Inv, OnStart
  PROVE  HandlersInv' /\ LiveInv' /\ RtpInv' /\ ~aborted'
<1> USE DEF looperOnly, NoFunction, SinkKept
<1>1. /\ Deliver("start") /\ M.s \in Sessions /\ UNCHANGED looperOnly /\ NoFunction /\ SinkKept
      /\ Socket(M.s, "connecting", sess[M.s].rfail, sess[M.s].wfail, sess[M.s].closed)
      /\ mSessionID' = M.s /\ mState' = "CONNECTING" /\ UNCHANGED aborted
  BY OnStartStep, Excluded
<1>2. /\ M \in Items(msgs) /\ M.k = "start" /\ Items(msgs') \subseteq Items(msgs)
      /\ msgs' = Tail(msgs) /\ msgs # <<>>
  BY <1>1, Delivered
<1>3. mSessionID = 0 /\ Unused(M.s) BY <1>2 DEF Inv, OrderInv, Good, Started
<1>4. HandlersInv' /\ ~aborted' BY <1>1 DEF Inv, HandlersInv
<1>5. rtp.id = 0 BY <1>3 DEF Inv, RtpInv
<1>6. msgs \in Seq(Letters) BY DEF TypeOK, Letters
<1>7. Items(msgs) \subseteq Letters BY <1>6, ItemsOf
<1>8. PICK s : s = M.s OBVIOUS
<1>9. s # 0 /\ s \in Sessions BY <1>1, <1>8 DEF Sessions
<1>10. RtpInv'
  <2>1. \A m \in Items(msgs) : m.k = "udp" => m.s # 0 BY <1>7, Kinds
  <2>2. QED BY <1>1, <1>2, <1>5, <1>8, <1>9, <2>1 DEF Inv, RtpInv
<1>11. \A m \in Items(msgs) : m.k # "data" /\ m.k # "connected"
  BY <1>3, <1>7, Kinds DEF Inv, OrderInv, Good, Current, Sessions
<1>12. /\ sess[s].out = <<>> /\ sess[s].inbox = <<>> /\ sess[s].in = <<>>
       /\ peer[s].asked = 0 /\ peer[s].answered = 0 /\ ~peer[s].playing
       /\ \A h \in handlers : h.s # s
  <2>1. sess[s] = NoSess /\ peer[s] = NoPeer /\ \A h \in handlers : h.s # s
    BY <1>3, <1>8 DEF Unused
  <2>2. QED BY <2>1 DEF NoSess, NoPeer
<1>13. /\ sess'[s].out = <<>> /\ sess'[s].inbox = <<>> /\ sess'[s].in = <<>>
       /\ sess'[s].st = "connecting" /\ peer' = peer /\ handlers' = handlers
  BY <1>1, <1>8, <1>12 DEF Socket
<1>14. SentOf(s)' = {} /\ BackOf(s)' = Items(msgs')
  <2>1. <<>> \in Seq(Outgoing) OBVIOUS
  <2>2. Items(<<>>) = {} BY <2>1, ItemsOf
  <2>3. QED BY <1>13, <2>2 DEF SentOf, BackOf
<1>15. \A m \in BackOf(s)' : m.c = 0 /\ m.d # "TRIGGER" /\ m.k # "data"
  BY <1>2, <1>7, <1>11, <1>14, NoteKinds
<1>16. \A x : ~Any(s, x)'
  <2>1. \A x : ~Has(sess'[s].out, Ours(x)) /\ ~Has(sess'[s].inbox, Ours(x))
    BY <1>14 DEF Has, SentOf
  <2>2. \A x : ~Has(sess'[s].in, Theirs(x)) /\ ~Has(msgs', Theirs(x))
    BY <1>15 DEF Has, BackOf, Theirs
  <2>3. QED BY <2>1, <2>2 DEF Any, AnyOf
<1>17. Post(s)'
  <2>1. Numbered(s)' BY <1>1, <1>14, <1>15 DEF Numbered, TypeOK
  <2>2. Matched(s)' BY <1>12, <1>13 DEF Matched
  <2>3. One(s, 0)' BY <1>16, Nowhere DEF One, Any
  <2>4. Polite(s)' BY <1>12, <1>13, <1>16, <2>3 DEF Polite
  <2>5. QED BY <2>1, <2>2, <2>4 DEF Post
<1>18. Progress(s)'
  <2>1. \A f : ~Waits(s, f)' BY <1>12, <1>13 DEF Waits
  <2>2. ~Triggered(s)' BY <1>15 DEF Triggered
  <2>3. ~PlaySent(s)' BY <1>14 DEF PlaySent
  <2>4. ~Mid(s)' /\ ~Late(s)' BY <1>1, <1>12, <1>13, <2>1, <2>3 DEF Mid, Late
  <2>5. Stages(s)' BY <1>1, <1>12, <1>13, <2>4 DEF Stages
  <2>6. Single(s)' BY <1>12, <1>13 DEF Single
  <2>7. Requested(s)' BY <2>1, <2>2 DEF Requested
  <2>8. Playing(s)' BY <1>1, <1>12, <1>13 DEF Playing
  <2>9. QED BY <2>5, <2>6, <2>7, <2>8 DEF Progress
<1>19. mSessionID' = s BY <1>1, <1>8
<1>20. LiveInv' BY <1>17, <1>18, <1>19 DEF LiveInv
<1>21. QED BY <1>4, <1>10, <1>20

(* A message that is not for the sink's session, or ends it.               *)
LEMMA OtherLive ==
  ASSUME Covered, TypeOK, Inv, DropUnregistered \/ OnError \/ OnStop \/ OnUdpError
  PROVE  HandlersInv' /\ LiveInv' /\ RtpInv' /\ ~aborted'
<1> USE DEF looperOnly, NoFunction
<1>1. msgs # <<>> /\ msgs' = Tail(msgs)
  BY DEF DropUnregistered, OnError, OnStop, OnUdpError, Deliver
<1>2. UNCHANGED <<handlers, aborted, mState, sinks>>
  BY DEF DropUnregistered, OnError, OnStop, OnUdpError, sinkState
<1>3. HandlersInv' /\ ~aborted' BY <1>2 DEF Inv, HandlersInv
<1>4. msgs \in Seq(Letters) BY DEF TypeOK, Letters
<1>5. /\ Items(msgs') \subseteq Items(msgs) /\ Items(msgs) \subseteq Letters
      /\ M \in Items(msgs)
  BY <1>1, <1>4, ItemsPopped, ItemsOf DEF M
\* The RTPSink is released.
<1>6. ASSUME mSessionID' = 0, rtp' = NoSink
      PROVE  HandlersInv' /\ LiveInv' /\ RtpInv' /\ ~aborted'
  <2>1. rtp'.id = 0 BY <1>6 DEF NoSink
  <2>2. \A m \in Items(msgs) : m.k = "udp" => m.s # 0 BY <1>5, Kinds
  <2>3. RtpInv' BY <1>2, <1>5, <2>1, <2>2 DEF Inv, RtpInv
  <2>4. QED BY <1>3, <1>6, <2>3 DEF LiveInv
\* The session stays.
<1>7. ASSUME M.k # "data", UNCHANGED <<uri, sess, mSessionID, mNextCSeq, peer>>,
             rtp'.id = rtp.id, rtp'.conn = rtp.conn
      PROVE  LiveInv'
  <2>1. SUFFICES ASSUME mSessionID # 0 PROVE Post(mSessionID)' /\ Progress(mSessionID)'
    BY <1>7 DEF LiveInv
  <2>2. PICK s : s = mSessionID OBVIOUS
  <2>3. s \in Sessions /\ Post(s) /\ Progress(s) BY <2>1, <2>2, LiveSession
  <2>4. Starts(s)' => Starts(s) BY <1>5, <1>7 DEF Starts, Holds
  <2>5. Noting(s) BY <1>1, <1>2, <1>7, <2>4 DEF Noting
  <2>6. Post(s)' /\ Progress(s)' BY <2>3, <2>5, NotingLive
  <2>7. mSessionID' = s BY <1>7, <2>2
  <2>8. QED BY <2>6, <2>7
<1>8. CASE DropUnregistered
  <2>1. reg = "no" /\ UNCHANGED <<mSessionID, rtp>> BY <1>8 DEF DropUnregistered, sinkState
  <2>2. mSessionID = 0
    <3>1. mSessionID # 0 => reg = "yes" BY LiveSession DEF Inv, SessInv
    <3>2. QED BY <2>1, <3>1
  <2>3. RtpInv' BY <1>2, <1>5, <2>1, RtpKept DEF Inv
  <2>4. QED BY <1>3, <2>1, <2>2, <2>3 DEF LiveInv
<1>9. CASE OnError \/ OnStop
  <2>1. CASE mSessionID' = 0 /\ ReleaseSink BY <1>6, <2>1 DEF ReleaseSink
  <2>2. CASE Deliver("error") /\ UNCHANGED <<sess, mSessionID, rtp, udp>>
    <3>1. M.k # "data" BY <2>2, Delivered
    <3>2. UNCHANGED <<uri, peer, mNextCSeq>> BY <1>9, OnEndStep
    <3>3. LiveInv' BY <1>7, <2>2, <3>1, <3>2
    <3>4. RtpInv' BY <1>2, <1>5, <2>2, RtpKept DEF Inv
    <3>5. QED BY <1>3, <3>3, <3>4
  <2>3. QED BY <1>9, <2>1, <2>2, OnEndStep DEF Ends
<1>10. CASE OnUdpError
  <2>1. /\ M.k = "udp" /\ UNCHANGED <<uri, sess, mSessionID, mNextCSeq, peer>>
        /\ IF rtp.id = M.s THEN rtp' = [rtp EXCEPT !.open = @ \ {M.d}] ELSE rtp' = rtp
    BY <1>10 DEF OnUdpError
  <2>2. rtp'.id = rtp.id /\ rtp'.conn = rtp.conn BY <2>1 DEF TypeOK
  <2>3. LiveInv' BY <1>7, <2>1, <2>2
  <2>4. CASE rtp.id = M.s
    <3>1. mState = "PLAYING" BY <1>5, <2>1, <2>4 DEF Inv, RtpInv
    <3>2. RtpInv' BY <1>2, <1>5, <2>1, <2>2, <3>1 DEF Inv, RtpInv
    <3>3. QED BY <1>3, <2>3, <3>2
  <2>5. CASE rtp.id # M.s
    <3>1. rtp' = rtp BY <2>1, <2>5
    <3>2. RtpInv' BY <1>2, <1>5, <2>1, <3>1, RtpKept DEF Inv
    <3>3. QED BY <1>3, <2>3, <3>2
  <2>6. QED BY <2>4, <2>5
<1>11. QED BY <1>8, <1>9, <1>10

(* The first state.                                                        *)
LEMMA InvInit ==
  ASSUME Init PROVE Inv
<1>1. msgs = <<>> BY DEF Init
<1>2. <<>> \in Seq(Letters) OBVIOUS
<1>3. Items(msgs) = {} BY <1>1, <1>2, ItemsOf
<1>4. RtpInv BY <1>3 DEF RtpInv, Init, NoSink
<1>5. LiveInv BY DEF LiveInv, Init
<1>6. HandlersInv BY DEF HandlersInv, Init
<1>7. ~aborted BY DEF Init
<1>8. QED BY <1>4, <1>5, <1>6, <1>7, OrderInit DEF Inv

(* Every step keeps Inv.                                                   *)
LEMMA InvStep ==
  ASSUME Covered, TypeOK, Inv, [Next]_vars PROVE Inv'
<1>1. SessInv' /\ OrderInv' BY OrderStep DEF Inv
<1>2. HandlersInv' /\ LiveInv' /\ RtpInv' /\ ~aborted'
  <2>1. CASE connect_to_wifi_source \/ disconnectSink BY <2>1, AppLive
  <2>2. CASE Network BY <2>2, NetLive DEF Network
  <2>3. CASE \E u \in udp : UdpFails(u) BY <2>3, UdpLive
  <2>4. CASE Peer \/ \E s \in Sessions : PeerClose(s) BY <2>4, PeerLive DEF Peer
  <2>5. CASE Looper
    BY <2>5, StartLive, OtherLive, ConnectedLive, RequestLive, ResponseLive DEF Looper
  <2>6. CASE UNCHANGED vars
    <3>1. UNCHANGED <<uri, msgs, sess, mSessionID, mState, rtp, sinks, handlers, mNextCSeq,
                      peer, aborted>>
      BY <2>6 DEF vars
    <3>2. HandlersInv' /\ ~aborted' BY <3>1 DEF Inv, HandlersInv
    <3>3. RtpInv' BY <3>1, RtpKept DEF Inv
    <3>4. ASSUME mSessionID # 0 PROVE Post(mSessionID)' /\ Progress(mSessionID)'
      <4>1. PICK s : s = mSessionID OBVIOUS
      <4>2. s \in Sessions /\ Post(s) /\ Progress(s) BY <3>4, <4>1, LiveSession
      <4>3. Noting(s) BY <3>1 DEF Noting, Starts
      <4>4. Post(s)' /\ Progress(s)' BY <4>2, <4>3, NotingLive
      <4>5. mSessionID' = s BY <3>1, <4>1
      <4>6. QED BY <4>4, <4>5
    <3>5. QED BY <3>1, <3>2, <3>3, <3>4 DEF LiveInv
  <2>7. QED BY <2>1, <2>2, <2>3, <2>4, <2>5, <2>6 DEF Next
<1>3. QED BY <1>1, <1>2 DEF Inv

-----------------------------------------------------------------------------
(* Inv is an invariant.                                                    *)
LEMMA Invariant ==
  ASSUME Covered PROVE Spec => [](TypeOK /\ Inv)
<1>1. Init => Inv BY InvInit
<1>2. TypeOK /\ Inv /\ [Next]_vars => Inv' BY InvStep
<1>3. QED BY <1>1, <1>2, TypeCorrect, PTL DEF Spec

(* No CHECK of the sink fails: whatever the connection does, a request, a  *)
(* response and the failure of a datagram socket find the session and the  *)
(* RTPSink they are for.                                                   *)
THEOREM NoCheckFails ==
  ASSUME Covered PROVE Spec => []NoAbort
<1>1. Inv => NoAbort BY DEF Inv, NoAbort
<1>2. QED BY <1>1, Invariant, PTL

(* A function that waits for a response of a live session waits for the    *)
(* one request of its name: sent, taken by the source, or answered.        *)
THEOREM ResponsesMeetRequests ==
  ASSUME Covered PROVE Spec => []ResponsesMatched
<1>1. ASSUME TypeOK, Inv PROVE ResponsesMatched
  <2> SUFFICES ASSUME NEW h \in handlers, Alive(h.s)
               PROVE  /\ \E p \in DOMAIN Mail(h.s) : \E k \in DOMAIN Mail(h.s)[p] :
                           /\ Mail(h.s)[p][k] = h.c
                           /\ \A q \in DOMAIN Mail(h.s) : \A j \in DOMAIN Mail(h.s)[q] :
                                Mail(h.s)[q][j] = h.c => q = p /\ j = k
                      /\ \A k \in DOMAIN sess[h.s].out :
                           sess[h.s].out[k].c = h.c => sess[h.s].out[k].d = h.f
                      /\ \A k \in DOMAIN sess[h.s].inbox :
                           sess[h.s].inbox[k].c = h.c => sess[h.s].inbox[k].d = h.f
    BY DEF ResponsesMatched
  <2>1. PICK s, x : s = h.s /\ x = h.c OBVIOUS
  <2>2. s \in Sessions /\ x \in Nat /\ x # 0 BY <1>1, <2>1 DEF TypeOK
  <2>3. s = mSessionID /\ s # 0 BY <1>1, <2>1, <2>2 DEF Inv, SessInv, Sessions
  <2>4. /\ One(s, x) /\ Any(s, x) /\ \A m \in SentOf(s) : m.c = x => m.d = h.f
    BY <1>1, <2>1, <2>3 DEF Inv, LiveInv, Post, Matched
  <2>5. PICK o, i, n, P : /\ o = sess[s].out /\ i = sess[s].inbox /\ n = sess[s].in
                          /\ P = Mail(s)
    OBVIOUS
  <2>6. /\ o \in Seq(Outgoing) /\ i \in Seq(Outgoing) /\ n \in Seq(Incoming)
        /\ msgs \in Seq(Letters)
    BY <1>1, <2>2, <2>5, Fields DEF TypeOK, Letters
  <2>7. /\ DOMAIN P = {"out", "inbox", "in", "looper"}
        /\ DOMAIN P["out"] = DOMAIN o /\ DOMAIN P["inbox"] = DOMAIN i
        /\ DOMAIN P["in"] = DOMAIN n /\ DOMAIN P["looper"] = DOMAIN msgs
        /\ \A k \in DOMAIN o : P["out"][k] = o[k].c
        /\ \A k \in DOMAIN i : P["inbox"][k] = i[k].c
        /\ \A k \in DOMAIN n : P["in"][k] = n[k].c
        /\ \A k \in DOMAIN msgs :
             P["looper"][k] = IF msgs[k].k = "data" /\ msgs[k].s = s THEN msgs[k].c ELSE -1
    BY <2>5 DEF Mail
  \* The numbers of Mail are those of the messages.
  <2>8. \A k \in DOMAIN o : P["out"][k] = x <=> o[k] \in Ours(x)
    BY <2>6, <2>7 DEF Ours
  <2>9. \A k \in DOMAIN i : P["inbox"][k] = x <=> i[k] \in Ours(x)
    BY <2>6, <2>7 DEF Ours
  <2>10. \A k \in DOMAIN n : P["in"][k] = x <=> n[k] \in Theirs(x)
    <3>1. \A k \in DOMAIN n : n[k] \in Incoming BY <2>6
    <3>2. QED BY <2>7, <3>1, IncomingKinds, Letter DEF Theirs
  <2>11. \A k \in DOMAIN msgs : P["looper"][k] = x <=> msgs[k] \in Theirs(x)
    <3>1. ASSUME NEW k \in DOMAIN msgs PROVE P["looper"][k] = x <=> msgs[k] \in Theirs(x)
      <4>1. msgs[k] \in Letters /\ msgs[k] \in Items(msgs) BY <2>6 DEF Items
      <4>2. msgs[k].k = "data" => msgs[k].s = s
        BY <1>1, <2>3, <4>1 DEF Inv, OrderInv, Good, Current
      <4>3. x # -1 BY <2>2
      <4>4. QED BY <2>7, <4>1, <4>2, <4>3 DEF Theirs
    <3>2. QED BY <3>1
  <2>12. OneOf(o, i, n, msgs, x) /\ AnyOf(o, i, n, msgs, x) BY <2>4, <2>5 DEF One, Any
  <2>13. ASSUME NEW p \in DOMAIN P, NEW q \in DOMAIN P, NEW k \in DOMAIN P[p],
                NEW j \in DOMAIN P[q], P[p][k] = x, P[q][j] = x
         PROVE  q = p /\ j = k
    <3>1. CASE p = "out"
      BY <2>7, <2>8, <2>9, <2>10, <2>11, <2>12, <2>13, <3>1 DEF OneOf, Once, Has, Items
    <3>2. CASE p = "inbox"
      BY <2>7, <2>8, <2>9, <2>10, <2>11, <2>12, <2>13, <3>2 DEF OneOf, Once, Has, Items
    <3>3. CASE p = "in"
      BY <2>7, <2>8, <2>9, <2>10, <2>11, <2>12, <2>13, <3>3 DEF OneOf, Once, Has, Items
    <3>4. CASE p = "looper"
      BY <2>7, <2>8, <2>9, <2>10, <2>11, <2>12, <2>13, <3>4 DEF OneOf, Once, Has, Items
    <3>5. QED BY <2>7, <3>1, <3>2, <3>3, <3>4
  <2>14. \E p \in DOMAIN P : \E k \in DOMAIN P[p] : P[p][k] = x
    BY <2>7, <2>8, <2>9, <2>10, <2>11, <2>12 DEF AnyOf, Has, Items
  <2>15. \E p \in DOMAIN P : \E k \in DOMAIN P[p] :
           /\ P[p][k] = x
           /\ \A q \in DOMAIN P : \A j \in DOMAIN P[q] : P[q][j] = x => q = p /\ j = k
    BY <2>13, <2>14
  <2>16. /\ \A k \in DOMAIN o : o[k].c = x => o[k].d = h.f
         /\ \A k \in DOMAIN i : i[k].c = x => i[k].d = h.f
    BY <2>4, <2>5 DEF SentOf, Items
  <2>17. QED BY <2>1, <2>5, <2>15, <2>16
<1>2. QED BY <1>1, Invariant, PTL

(* A source that plays on the sink's session plays to an RTPSink connected *)
(* to it, and PLAYING is said of a source that plays.                      *)
THEOREM PlaysToItsSink ==
  ASSUME Covered PROVE Spec => []PlaysToSink
<1>1. ASSUME TypeOK, Inv PROVE PlaysToSink
  <2>1. ASSUME NEW s \in Sessions, peer[s].playing, Alive(s)
        PROVE  s = mSessionID /\ rtp.id # 0 /\ rtp.conn
    <3>1. s = mSessionID /\ mSessionID # 0 BY <1>1, <2>1 DEF Inv, SessInv, Sessions
    <3>2. Progress(s) BY <1>1, <3>1, LiveSession
    <3>3. QED BY <2>1, <3>1, <3>2 DEF Progress, Stages, Late
  <2>2. mState = "PLAYING" /\ mSessionID # 0 => peer[mSessionID].playing
    BY <1>1, LiveSession DEF Progress, Playing
  <2>3. QED BY <2>1, <2>2 DEF PlaysToSink
<1>2. QED BY <1>1, Invariant, PTL
=============================================================================
