------------------------------ MODULE WfdSink ------------------------------
(***************************************************************************)
(* The control side of the Wi-Fi display sink (wifidisplay/src): the       *)
(* application's two calls (interface/amlogic_miracast_wfd.cpp), the RTSP  *)
(* client (WifiDisplaySink.cpp) with its RTPSink, the looper that delivers *)
(* their messages (ALooper.cpp, ALooperRoster.cpp) and the thread that     *)
(* owns the sockets (ANetworkSession.cpp).                                 *)
(*                                                                         *)
(* The application thread, the looper and the network thread interleave;   *)
(* a handler runs to its end.  The Wi-Fi display source is external: it    *)
(* goes through its requests in order and answers those of the sink.       *)
(***************************************************************************)
EXTENDS Integers, Sequences

CONSTANTS
  Uris,        \* whether a session is started by URI: a subset of BOOLEAN
  MaxConnects, \* bound: calls of connect_to_wifi_source
  Allowed      \* which of SinkBehaviours happen

(***************************************************************************)
(*   conn_fail   the TCP connection is refused                             *)
(*   peer_close  the source closes the connection                          *)
(*   send_fail   a send fails while data still arrives                     *)
(*   udp_fail    a datagram socket fails; udp_early: also before PLAY      *)
(*   refuse      the source answers with another status than 200           *)
(*   no_host     the address of the source cannot be resolved              *)
(*   overlap     connect_to_wifi_source is called during a session         *)
(*   stop_race   data arrives while disconnectSink runs                    *)
(*   drop_stop   disconnectSink unregisters the sink before the looper has *)
(*               delivered its stop message                                *)
(***************************************************************************)
SinkBehaviours == {"conn_fail", "peer_close", "send_fail", "udp_fail", "udp_early",
                   "refuse", "no_host", "overlap", "stop_race", "drop_stop"}

ASSUME SinkAssumption ==
  /\ Uris \subseteq BOOLEAN /\ MaxConnects \in Nat /\ Allowed \subseteq SinkBehaviours

VARIABLES
  uri,      \* the sink was started with a URI
  app,      \* disconnectSink: "idle", or what it has done
  connects, \* calls of connect_to_wifi_source
  reg,      \* mSink's handler: "new", "yes" or "no" once unregistered
  netRun,   \* the network thread runs
  msgs,     \* messages of the looper
  sess,     \* control sessions, with the byte streams from and to the source
  mSessionID,
  mState,
  rtp,      \* mRTPSink: its number (0: NULL), its sessions, connected or not
  sinks,    \* RTPSinks made so far
  udp,      \* UDP sessions of ANetworkSession
  handlers, \* mResponseHandlers
  mNextCSeq,
  peer,     \* the source's side of each session
  aborted   \* a CHECK has failed

vars == <<uri, app, connects, reg, netRun, msgs, sess, mSessionID, mState, rtp,
          sinks, udp, handlers, mNextCSeq, peer, aborted>>

Sessions == 1..MaxConnects
NoSink   == [id |-> 0, open |-> {}, conn |-> FALSE]
NoSess   == [st |-> "none", rfail |-> FALSE, wfail |-> FALSE, closed |-> FALSE,
             out |-> <<>>, inbox |-> <<>>, in |-> <<>>]
NoPeer   == [asked |-> 0, answered |-> 0, playing |-> FALSE]

May(b)      == b \in Allowed
Outcomes(b) == IF May(b) THEN BOOLEAN ELSE {TRUE}
Alive(s)    == s # 0 /\ sess[s].st \in {"connecting", "connected"}

(* ALooperRoster::postMessage: nothing is queued for an unknown handler.   *)
Posted(m) == IF reg = "yes" THEN Append(msgs, m) ELSE msgs
Note(s, k) == [k |-> k, s |-> s, d |-> "", c |-> 0]
Pending(k) == \E i \in 1..Len(msgs) : msgs[i].k = k

Init ==
  /\ uri \in Uris /\ app = "idle" /\ connects = 0 /\ reg = "new" /\ netRun = FALSE
  /\ msgs = <<>> /\ sess = [s \in Sessions |-> NoSess] /\ mSessionID = 0
  /\ mState = "UNDEFINED" /\ rtp = NoSink /\ sinks = 0 /\ udp = {}
  /\ handlers = {} /\ mNextCSeq = 1 /\ peer = [s \in Sessions |-> NoPeer]
  /\ aborted = FALSE

-----------------------------------------------------------------------------
(* The application thread.                                                 *)

sinkState == <<sess, mSessionID, mState, rtp, sinks, udp, handlers, mNextCSeq,
               peer, aborted, uri>>

(* The first call registers the sink; after disconnectSink it stays        *)
(* unregistered, and its start message goes nowhere.  The session that it  *)
(* asks for has the number of the call.                                    *)
connect_to_wifi_source ==
  /\ app = "idle" /\ connects < MaxConnects
  /\ May("overlap") \/ (mSessionID = 0 /\ ~Pending("start"))
  /\ connects' = connects + 1 /\ netRun' = TRUE
  /\ reg' = IF reg = "new" THEN "yes" ELSE reg
  /\ msgs' = IF reg' = "yes" THEN Append(msgs, Note(connects', "start")) ELSE msgs
  /\ UNCHANGED <<app, sinkState>>

DisconnectPost ==
  /\ app = "idle" /\ reg = "yes"
  /\ msgs' = Posted(Note(0, "stop")) /\ app' = "posted"
  /\ UNCHANGED <<connects, reg, netRun, sinkState>>

(* ANetworkSession::stop joins the network thread.                         *)
DisconnectNet ==
  /\ app = "posted" /\ netRun' = FALSE /\ app' = "stopped"
  /\ UNCHANGED <<connects, reg, msgs, sinkState>>

DisconnectUnregister ==
  /\ app = "stopped"
  /\ May("drop_stop") \/ ~Pending("stop")
  /\ reg' = "no" /\ app' = "idle"
  /\ UNCHANGED <<connects, netRun, msgs, sinkState>>

disconnectSink == DisconnectPost \/ DisconnectNet \/ DisconnectUnregister

-----------------------------------------------------------------------------
(* The network thread: one ready socket of ANetworkSession::threadLoop.    *)

netOnly == <<uri, app, connects, reg, netRun, mSessionID, mState, rtp, sinks,
             handlers, mNextCSeq, aborted>>
Quiet == May("stop_race") \/ app = "idle"

(* writeMore of a session that connects.                                   *)
Connected(s) ==
  /\ netRun /\ Quiet /\ sess[s].st = "connecting" /\ ~sess[s].wfail
  /\ \E ok \in Outcomes("conn_fail") :
       IF ok THEN /\ sess' = [sess EXCEPT ![s].st = "connected"]
                  /\ msgs' = Posted(Note(s, "connected"))
       ELSE /\ sess' = [sess EXCEPT ![s].wfail = TRUE]
            /\ msgs' = Posted(Note(s, "error"))
  /\ UNCHANGED <<udp, peer, netOnly>>

wantsToRead(s) == sess[s].st = "connected" /\ ~sess[s].rfail

(* Faulty variant: recv() = 0 is not taken for an error.                   *)
EndOfStreamQuiet(s) == msgs

EndOfStream(s) == Posted(Note(s, "error"))

(* Faulty variant: the error of a closed connection is reported before the *)
(* message that came with it.                                              *)
readMoreErrorFirst(s) ==
  /\ netRun /\ Quiet /\ wantsToRead(s)
  /\ sess[s].in # <<>> \/ sess[s].closed
  /\ msgs' = (IF sess[s].closed THEN EndOfStream(s) ELSE msgs)
             \o (IF sess[s].in = <<>> THEN <<>> ELSE <<Head(sess[s].in)>>)
  /\ sess' = [sess EXCEPT ![s].in = IF @ = <<>> THEN @ ELSE Tail(@),
                          ![s].rfail = sess[s].closed]
  /\ UNCHANGED <<udp, peer, netOnly>>

(* readMore: a message, or the end of the stream.                          *)
readMore(s) ==
  /\ netRun /\ Quiet /\ wantsToRead(s)
  /\ IF sess[s].in # <<>>
     THEN /\ msgs' = Posted(Head(sess[s].in))
          /\ sess' = [sess EXCEPT ![s].in = Tail(@)]
     ELSE /\ sess[s].closed
          /\ msgs' = EndOfStream(s)
          /\ sess' = [sess EXCEPT ![s].rfail = TRUE]
  /\ UNCHANGED <<udp, peer, netOnly>>

(* writeMore: a message goes out, or the session is not written again.     *)
writeMore(s) ==
  /\ netRun /\ sess[s].st = "connected" /\ ~sess[s].wfail /\ sess[s].out # <<>>
  /\ \/ /\ sess' = [sess EXCEPT ![s].out = Tail(@),
                                ![s].inbox = Append(@, Head(sess[s].out))]
        /\ UNCHANGED msgs
     \/ /\ May("send_fail") \/ (sess[s].closed /\ sess[s].in = <<>>)
        /\ sess' = [sess EXCEPT ![s].wfail = TRUE]
        /\ msgs' = Posted(Note(s, "error"))
  /\ UNCHANGED <<udp, peer, netOnly>>

(* recvfrom fails on a UDP session: its RTPSink is told.                   *)
UdpFails(u) ==
  /\ May("udp_fail") /\ netRun /\ u \in udp /\ rtp.id = u[1]
  /\ May("udp_early") \/ (rtp.conn /\ mState = "PLAYING")
  /\ \A i \in 1..Len(msgs) : msgs[i].k # "udp"
  /\ msgs' = Append(msgs, [k |-> "udp", s |-> u[1], d |-> u[2], c |-> 0])
  /\ UNCHANGED <<sess, udp, peer, netOnly>>

Network == \E s \in Sessions : Connected(s) \/ readMore(s) \/ writeMore(s)

-----------------------------------------------------------------------------
(* The source (external): requests M1, M3, M4 and M5 of the Wi-Fi display  *)
(* protocol, each after the answer to the one before, one more request     *)
(* when it plays, and answers to the requests of the sink.                 *)

Script == IF uri THEN <<>> ELSE <<"OPTIONS", "GET", "SET", "TRIGGER">>

PeerAsk(s) ==
  /\ sess[s].st = "connected" /\ ~sess[s].closed /\ peer[s].asked = peer[s].answered
  /\ \E m \in IF peer[s].asked < Len(Script) THEN {Script[peer[s].asked + 1]}
              ELSE IF peer[s].asked = Len(Script) /\ peer[s].playing
              THEN {"GET", "OTHER"} ELSE {} :
       sess' = [sess EXCEPT ![s].in = Append(@, [k |-> "data", s |-> s, d |-> m, c |-> 0])]
  /\ peer' = [peer EXCEPT ![s].asked = @ + 1]
  /\ UNCHANGED <<msgs, udp, netOnly>>

PeerTakes(s) ==
  /\ ~sess[s].closed /\ sess[s].inbox # <<>>
  /\ LET m == Head(sess[s].inbox)
     IN IF m.d = "answer"
        THEN /\ sess' = [sess EXCEPT ![s].inbox = Tail(@)]
             /\ peer' = [peer EXCEPT ![s].answered = @ + 1]
        ELSE \E ok \in Outcomes("refuse") :
             /\ sess' = [sess EXCEPT ![s].inbox = Tail(@), ![s].in =
                  Append(@, [k |-> "data", s |-> s, d |-> IF ok THEN "200" ELSE "4xx",
                             c |-> m.c])]
             /\ peer' = [peer EXCEPT ![s].playing = @ \/ (ok /\ m.d = "PLAY")]
  /\ UNCHANGED <<msgs, udp, netOnly>>

PeerClose(s) ==
  /\ May("peer_close") /\ sess[s].st = "connected" /\ ~sess[s].closed
  /\ sess' = [sess EXCEPT ![s].closed = TRUE]
  /\ UNCHANGED <<msgs, udp, peer, netOnly>>

Peer == \E s \in Sessions : PeerAsk(s) \/ PeerTakes(s)

-----------------------------------------------------------------------------
(* The looper.  A message of an unregistered handler is dropped.           *)

Deliver(k) ==
  /\ msgs # <<>> /\ Head(msgs).k = k /\ reg = "yes" /\ msgs' = Tail(msgs)
M == Head(msgs)

looperOnly == <<uri, app, connects, reg, netRun, peer>>

DropUnregistered ==
  /\ msgs # <<>> /\ reg = "no" /\ Head(msgs).k # "udp" /\ msgs' = Tail(msgs)
  /\ UNCHANGED <<sinkState, app, connects, reg, netRun>>

(* CHECK: the process ends.                                                *)
Abort ==
  /\ aborted' = TRUE
  /\ UNCHANGED <<sess, mSessionID, mState, rtp, sinks, udp, handlers, mNextCSeq>>

(* sendRequest of one or more messages to session s: -ENOENT without the   *)
(* session.                                                                *)
Send(s, ms) == sess' = [sess EXCEPT ![s].out = @ \o ms]
Answer      == [d |-> "answer", c |-> 0]
Request(d)  == [d |-> d, c |-> mNextCSeq]

registerResponseHandler(s, f) ==
  /\ handlers' = handlers \cup {[s |-> s, c |-> mNextCSeq, f |-> f]}
  /\ mNextCSeq' = mNextCSeq + 1

(* unregisterHandler and mRTPSink.clear(): ~RTPSink destroys its sessions. *)
ReleaseSink ==
  /\ rtp' = NoSink
  /\ udp' = udp \ {<<rtp.id, x>> : x \in rtp.open}

OnStart ==
  /\ Deliver("start")
  /\ \E ok \in Outcomes("no_host") :
       IF ~ok THEN Abort
       ELSE /\ sess' = [sess EXCEPT ![M.s].st = "connecting"]
            /\ mSessionID' = M.s /\ mState' = "CONNECTING"
            /\ UNCHANGED <<rtp, sinks, udp, handlers, mNextCSeq, aborted>>
  /\ UNCHANGED looperOnly

(* kWhatError.                                                             *)
OnError ==
  /\ Deliver("error")
  /\ IF M.s = mSessionID
     THEN /\ sess' = [sess EXCEPT ![M.s].st = "gone"] /\ mSessionID' = 0 /\ ReleaseSink
     ELSE UNCHANGED <<sess, mSessionID, rtp, udp>>
  /\ UNCHANGED <<mState, sinks, handlers, mNextCSeq, aborted, looperOnly>>

(* kWhatStop.                                                              *)
OnStop ==
  /\ Deliver("stop")
  /\ sess' = IF mSessionID = 0 THEN sess ELSE [sess EXCEPT ![mSessionID].st = "gone"]
  /\ mSessionID' = 0 /\ ReleaseSink
  /\ UNCHANGED <<mState, sinks, handlers, mNextCSeq, aborted, looperOnly>>

(* kWhatConnected; with a URI, DESCRIBE is sent to mSessionID.             *)
OnConnected ==
  /\ Deliver("connected")
  /\ IF ~uri
     THEN /\ mState' = "CONNECTED"
          /\ UNCHANGED <<sess, mSessionID, rtp, sinks, udp, handlers, mNextCSeq, aborted>>
     ELSE IF ~Alive(mSessionID) THEN Abort
     ELSE /\ mState' = "CONNECTED" /\ Send(mSessionID, <<Request("DESCRIBE")>>)
          /\ registerResponseHandler(mSessionID, "DESCRIBE")
          /\ UNCHANGED <<mSessionID, rtp, sinks, udp, aborted>>
  /\ UNCHANGED looperOnly

-----------------------------------------------------------------------------
(* kWhatData: onReceiveClientData.                                         *)

Data(ds) == Deliver("data") /\ M.d \in ds

(* A request on a session that is gone fails the CHECK of its handler.     *)
Requests == {"OPTIONS", "GET", "SET", "TRIGGER", "OTHER"}

(* mRTPSink is made by the first handler that needs it; RTPSink::init      *)
(* takes the first free pair of ports.                                     *)
NeedSink ==
  IF rtp.id # 0 THEN UNCHANGED <<rtp, sinks, udp>>
  ELSE /\ sinks' = sinks + 1
       /\ rtp' = [id |-> sinks + 1, open |-> {"rtp", "rtcp"}, conn |-> FALSE]
       /\ udp' = udp \cup {<<sinks + 1, x>> : x \in {"rtp", "rtcp"}}

onOptionsRequest(s) ==
  /\ Send(s, <<Answer, Request("OPTIONS")>>) /\ registerResponseHandler(s, "OPTIONS")
  /\ UNCHANGED <<mSessionID, mState, rtp, sinks, udp, aborted>>

onGetParameterRequest(s) ==
  /\ NeedSink /\ Send(s, <<Answer>>)
  /\ UNCHANGED <<mSessionID, mState, handlers, mNextCSeq, aborted>>

sendSetup(s, before) ==
  /\ NeedSink /\ Send(s, before \o <<Request("SETUP")>>)
  /\ registerResponseHandler(s, "SETUP")

(* Faulty variant: the trigger is not recognised.                          *)
TriggersSetupNever == FALSE

TriggersSetup == M.d = "TRIGGER"

(* A trigger other than SETUP is answered and ignored.                     *)
onSetParameterRequest(s) ==
  IF TriggersSetup
  THEN sendSetup(s, <<Answer>>) /\ UNCHANGED <<mSessionID, mState, aborted>>
  ELSE /\ Send(s, <<Answer>>)
       /\ UNCHANGED <<mSessionID, mState, rtp, sinks, udp, handlers, mNextCSeq, aborted>>

sendErrorResponse(s) ==
  /\ Send(s, <<Answer>>)
  /\ UNCHANGED <<mSessionID, mState, rtp, sinks, udp, handlers, mNextCSeq, aborted>>

OnRequest ==
  /\ Data(Requests)
  /\ IF ~Alive(M.s) THEN Abort
     ELSE CASE M.d = "OPTIONS" -> onOptionsRequest(M.s)
            [] M.d = "GET" -> onGetParameterRequest(M.s)
            [] M.d \in {"SET", "TRIGGER"} -> onSetParameterRequest(M.s)
            [] OTHER -> sendErrorResponse(M.s)
  /\ UNCHANGED looperOnly

(* Faulty variant: the UDP sessions are left unconnected.                  *)
configureTransportSkipped == rtp

configureTransport == [rtp EXCEPT !.conn = TRUE]

(* configureTransport and RTPSink::connect need the sink and both of its   *)
(* UDP sessions; then PLAY is sent.                                        *)
onReceiveSetupResponse(s, rest) ==
  IF ~Alive(s) \/ rtp.open # {"rtp", "rtcp"} THEN Abort
  ELSE /\ rtp' = configureTransport /\ mState' = "PAUSED"
       /\ Send(s, <<Request("PLAY")>>)
       /\ handlers' = rest \cup {[s |-> s, c |-> mNextCSeq, f |-> "PLAY"]}
       /\ mNextCSeq' = mNextCSeq + 1
       /\ UNCHANGED <<mSessionID, sinks, udp, aborted>>

onReceiveDescribeResponse(s, rest) ==
  IF ~Alive(s) THEN Abort
  ELSE /\ NeedSink /\ Send(s, <<Request("SETUP")>>)
       /\ handlers' = rest \cup {[s |-> s, c |-> mNextCSeq, f |-> "SETUP"]}
       /\ mNextCSeq' = mNextCSeq + 1
       /\ UNCHANGED <<mSessionID, mState, aborted>>

(* M2 and PLAY: nothing is sent.                                           *)
onReceiveLast(f, rest) ==
  /\ handlers' = rest /\ mState' = IF f = "PLAY" THEN "PLAYING" ELSE mState
  /\ UNCHANGED <<sess, mSessionID, rtp, sinks, udp, mNextCSeq, aborted>>

(* Faulty variant: the function stays registered.                          *)
OthersAll(h) == handlers

Others(h) == handlers \ {h}

HandlersOf == {h \in handlers : h.s = M.s /\ h.c = M.c}

(* A response is handled by the function registered for it, once; an       *)
(* unsolicited one is ignored.                                             *)
OnResponse ==
  /\ Data({"200", "4xx"})
  /\ IF HandlersOf = {}
     THEN UNCHANGED <<sess, mSessionID, mState, rtp, sinks, udp, handlers, mNextCSeq, aborted>>
     ELSE \E h \in HandlersOf :
       IF M.d # "200" THEN Abort
       ELSE CASE h.f = "DESCRIBE" -> onReceiveDescribeResponse(M.s, Others(h))
              [] h.f = "SETUP" -> onReceiveSetupResponse(M.s, Others(h))
              [] OTHER -> onReceiveLast(h.f, Others(h))
  /\ UNCHANGED looperOnly

(* RTPSink: kWhatError of one of its sessions.                             *)
OnUdpError ==
  /\ msgs # <<>> /\ M.k = "udp" /\ msgs' = Tail(msgs)
  /\ IF rtp.id = M.s
     THEN udp' = udp \ {<<M.s, M.d>>} /\ rtp' = [rtp EXCEPT !.open = @ \ {M.d}]
     ELSE UNCHANGED <<udp, rtp>>
  /\ UNCHANGED <<sess, mSessionID, mState, sinks, handlers, mNextCSeq, aborted, looperOnly>>

Looper ==
  \/ DropUnregistered \/ OnStart \/ OnError \/ OnStop \/ OnConnected
  \/ OnRequest \/ OnResponse \/ OnUdpError

Next ==
  /\ ~aborted
  /\ \/ connect_to_wifi_source \/ disconnectSink
     \/ Network \/ (\E u \in udp : UdpFails(u)) \/ Peer \/ (\E s \in Sessions : PeerClose(s))
     \/ Looper

Spec == Init /\ [][Next]_vars

(* Fairness: the three threads of the sink run; disconnectSink, once       *)
(* called, goes on.  That the source goes through its script and answers   *)
(* is an assumption about it.                                              *)
FairSpec ==
  /\ Spec /\ WF_vars(~aborted /\ Looper) /\ WF_vars(DisconnectNet \/ DisconnectUnregister)
  /\ \A s \in Sessions : /\ WF_vars(~aborted /\ Connected(s))
                         /\ WF_vars(~aborted /\ readMore(s))
                         /\ WF_vars(~aborted /\ writeMore(s))
                         /\ WF_vars(~aborted /\ (PeerAsk(s) \/ PeerTakes(s)))

-----------------------------------------------------------------------------
(* Properties.                                                             *)

(* What the sink sends, what the source sends, and what the looper holds.  *)
(* The requests of the source and their answers have number 0.             *)
Functions == {"OPTIONS", "DESCRIBE", "SETUP", "PLAY"}
Outgoing  == [d : {"answer"}, c : {0}] \cup [d : Functions, c : Nat \ {0}]
Incoming  ==      [k : {"data"}, s : Sessions, d : Requests, c : {0}]
             \cup [k : {"data"}, s : Sessions, d : {"200", "4xx"}, c : Nat \ {0}]
Notes ==
       [k : {"start", "connected", "error"}, s : Sessions, d : {""}, c : {0}]
  \cup [k : {"stop"}, s : {0}, d : {""}, c : {0}]
  \cup [k : {"udp"}, s : Nat \ {0}, d : {"rtp", "rtcp"}, c : {0}]
Connections ==
  [st : {"none", "connecting", "connected", "gone"}, rfail : BOOLEAN, wfail : BOOLEAN,
   closed : BOOLEAN, out : Seq(Outgoing), inbox : Seq(Outgoing), in : Seq(Incoming)]

(* Types; in particular every registered function waits for a number that  *)
(* a request has taken.                                                    *)
TypeOK ==
  /\ uri \in BOOLEAN /\ app \in {"idle", "posted", "stopped"}
  /\ connects \in 0..MaxConnects /\ reg \in {"new", "yes", "no"} /\ netRun \in BOOLEAN
  /\ msgs \in Seq(Incoming \cup Notes)
  /\ sess \in [Sessions -> Connections]
  /\ mSessionID \in 0..MaxConnects
  /\ mState \in {"UNDEFINED", "CONNECTING", "CONNECTED", "PAUSED", "PLAYING"}
  /\ sinks \in Nat
  /\ rtp \in [id : 0..sinks, open : SUBSET {"rtp", "rtcp"}, conn : BOOLEAN]
  /\ udp \subseteq (1..sinks) \X {"rtp", "rtcp"}
  /\ mNextCSeq \in Nat \ {0}
  /\ handlers \subseteq [s : Sessions, c : 1 .. mNextCSeq - 1, f : Functions]
  /\ peer \in [Sessions -> [asked : Nat, answered : Nat, playing : BOOLEAN]]
  /\ aborted \in BOOLEAN

(* No CHECK of the sink's handlers fails: whatever the source's connection *)
(* does, a request, a response or an error is handled by a session that    *)
(* still exists.                                                           *)
NoAbort == ~aborted

(* The numbers of the messages between sink and source on session s, in    *)
(* the four places they pass; -1 is another message of the looper.         *)
Mail(s) ==
  [out    |-> [k \in DOMAIN sess[s].out |-> sess[s].out[k].c],
   inbox  |-> [k \in DOMAIN sess[s].inbox |-> sess[s].inbox[k].c],
   in     |-> [k \in DOMAIN sess[s].in |-> sess[s].in[k].c],
   looper |-> [k \in DOMAIN msgs |->
                 IF msgs[k].k = "data" /\ msgs[k].s = s THEN msgs[k].c ELSE -1]]

(* The function that waits for a response of a live session waits for a    *)
(* request that is on its way, at the source, or answered: exactly one of  *)
(* them, with the name of the request it was registered for.               *)
ResponsesMatched ==
  \A h \in handlers : Alive(h.s) =>
    /\ \E p \in DOMAIN Mail(h.s) : \E k \in DOMAIN Mail(h.s)[p] :
         /\ Mail(h.s)[p][k] = h.c
         /\ \A q \in DOMAIN Mail(h.s) : \A j \in DOMAIN Mail(h.s)[q] :
              Mail(h.s)[q][j] = h.c => q = p /\ j = k
    /\ \A k \in DOMAIN sess[h.s].out :
         sess[h.s].out[k].c = h.c => sess[h.s].out[k].d = h.f
    /\ \A k \in DOMAIN sess[h.s].inbox :
         sess[h.s].inbox[k].c = h.c => sess[h.s].inbox[k].d = h.f

(* A source that plays on the sink's session plays to an RTPSink that is   *)
(* connected to it; PLAYING is said of no other session.                   *)
PlaysToSink ==
  /\ \A s \in Sessions : peer[s].playing /\ Alive(s) =>
       s = mSessionID /\ rtp.id # 0 /\ rtp.conn
  /\ mState = "PLAYING" /\ mSessionID # 0 => peer[mSessionID].playing

(* A connected session gets to PLAYING, unless it is lost or ended.        *)
Negotiates ==
  \A s \in Sessions :
    sess[s].st = "connected" ~>
      \/ mSessionID = s /\ mState = "PLAYING"
      \/ sess[s].st = "gone" \/ app # "idle"

Clean == udp = {} /\ \A s \in Sessions : ~Alive(s)

(* disconnectSink ends every session, and a session whose connection the   *)
(* source has closed goes away with its sockets.                           *)
Releases ==
  /\ app = "posted" ~> Clean
  /\ \A s \in Sessions : sess[s].closed ~> sess[s].st = "gone"
=============================================================================
