------------------------------- MODULE GPlay -------------------------------
(***************************************************************************)
(* The command line player amlplay (gst-app/gst-app-0.11.0/amlplay): the   *)
(* player core (mfw_gplay_core.c), its message queue (fsl_player_queue.c)  *)
(* and the program around them (mfw_gplay.c, playlist.c).                  *)
(*                                                                         *)
(* Three threads interleave: ui, which reads commands (main); msg, which   *)
(* takes messages from the queue (msg_thread_fun); and loop, which runs    *)
(* the callback of the pipeline's bus (g_main_loop_thread_fun).  What a    *)
(* thread has still to do is a sequence of operations.  play, pause, stop  *)
(* and the buffering switch hold status_switching_mutex to their end and   *)
(* are one operation each.  The GStreamer pipeline is external.            *)
(***************************************************************************)
EXTENDS Integers, Sequences, FiniteSets, SequencesExt

CONSTANTS
  NItems,          \* files of the play list
  Settings,        \* options given to the program, each a PlayOptions record
  Percents,        \* buffering levels that the pipeline reports
  MaxCmds,         \* bound: commands of the user
  MaxPlays,        \* bound: starts after which no file ends any more
  MaxBuffering,    \* bound: buffering messages
  Allowed          \* which of PlayBehaviours happen

(***************************************************************************)
(*   fail        state changes of the pipeline fail or time out            *)
(*   error       the pipeline posts an error                               *)
(*   rate_race   another thread stops or pauses before the rate command    *)
(*               writes player_state, which it does without the mutex      *)
(*   next_exit   the command for the next file comes at the last one       *)
(*   exit_eos    a file ends while the player is being left                *)
(*   flush_first the queue is flushed before msg takes the exit message    *)
(***************************************************************************)
PlayBehaviours == {"fail", "error", "rate_race", "next_exit", "exit_eos", "flush_first"}

(* play_times is negative or 0 for no limit; handle_buffering replaces the *)
(* automatic buffering of the core.                                        *)
PlayOptions == [repeat : {"NONE", "PLAYLIST", "CURRENT"}, times : Int, handle : BOOLEAN]

ASSUME PlayAssumption ==
  /\ {NItems, MaxCmds, MaxPlays, MaxBuffering} \subseteq Nat /\ NItems > 0
  /\ \A o \in Settings : o \in PlayOptions
  /\ Percents \subseteq 0..100 /\ Allowed \subseteq PlayBehaviours

VARIABLES
  repeat,  \* opt->repeat
  times,   \* opt->play_times
  handle,  \* opt->handle_buffering
  todo,    \* per thread: operations it has still to do
  bus,     \* messages on the pipeline's bus
  queue,   \* the message queue: its length is not bounded in the code
  sem,     \* eos_semaphore
  pstate,  \* player_state
  gst,     \* state of playbin
  uri,     \* playbin's uri
  active,  \* the file that playbin has loaded
  cur,     \* opt->current
  low,     \* history: the buffer has run empty and not filled again
  raced,   \* history: a command and a message's work on the pipeline overlapped
  leave,   \* gbexit_main and gbexit_msg_thread, set together
  alarmed, \* SIGALRM has interrupted scanf
  lives,   \* threads that run, "init" of the core included
  cmds, plays, bufs

vars == <<repeat, times, handle, raced, todo, bus, queue, sem, pstate, gst, uri, active, cur, low, leave,
          alarmed, lives, cmds, plays, bufs>>
core    == <<pstate, gst, active, plays>>
options == <<repeat, times, handle>>
program == <<options, cur, uri, leave, alarmed, lives, cmds, raced>>

Threads     == {"ui", "msg", "loop"}
May(b)      == b \in Allowed
Outcomes(b) == IF May(b) THEN BOOLEAN ELSE {TRUE}
Op(o)       == [o |-> o, p |-> 0]
Ops(os)     == [i \in 1..Len(os) |-> Op(os[i])]

Does(t, o) == todo[t] # <<>> /\ Head(todo[t]).o = o
Has(t, o)  == \E i \in 1..Len(todo[t]) : todo[t][i].o = o
Done(t)    == todo' = [todo EXCEPT ![t] = Tail(@)]
Then(t, s) == todo' = [todo EXCEPT ![t] = s \o Tail(@)]

(* fsl_player_init leaves the pipeline stopped; main then starts the first *)
(* file.                                                                   *)
Init ==
  /\ \E o \in Settings : repeat = o.repeat /\ times = o.times /\ handle = o.handle
  /\ todo = [t \in Threads |-> CASE t = "ui" -> Ops(<<"location", "play">>)
                                 [] t = "msg" -> Ops(<<"check">>) [] OTHER -> <<>>]
  /\ bus = <<>> /\ queue = <<>> /\ sem = 0
  /\ pstate = "STOPPED" /\ gst = "NULL" /\ uri = 0 /\ active = 0 /\ cur = 1
  /\ low = FALSE /\ raced = FALSE /\ leave = FALSE /\ alarmed = FALSE
  /\ lives = Threads \cup {"init"} /\ cmds = 0 /\ plays = 0 /\ bufs = 0

-----------------------------------------------------------------------------
(* fsl_player_play, _pause, _stop.                                         *)

(* playbin loads its uri when it leaves READY or NULL.                     *)
Load == /\ active' = IF gst \in {"NULL", "READY"} THEN uri ELSE active
        /\ plays' = IF gst \in {"NULL", "READY"} THEN plays + 1 ELSE plays

(* A failed play leaves player_state as it was.                            *)
fsl_player_play(t) ==
  /\ Does(t, "play") /\ Done(t)
  /\ \E ok \in Outcomes("fail") :
       IF ok THEN gst' = "PLAYING" /\ pstate' = "PLAYING" /\ Load
       ELSE gst' = "NULL" /\ UNCHANGED <<pstate, active, plays>>
  /\ UNCHANGED <<program, bus, queue, sem, low, bufs>>

(* No other thread steps in between the rate command's play and its        *)
(* unprotected write.                                                      *)
RateWritten(t) == May("rate_race") \/ t = "ui" \/ ~Has("ui", "rated")

(* Pauses, or resumes what is paused.                                      *)
fsl_player_pause(t) ==
  /\ Does(t, "pause") /\ Done(t) /\ RateWritten(t)
  /\ \E ok \in Outcomes("fail") :
       LET to == IF pstate = "PAUSED" THEN "PLAYING" ELSE "PAUSED"
       IN IF ok THEN gst' = to /\ pstate' = to /\ Load ELSE UNCHANGED core
  /\ UNCHANGED <<program, bus, queue, sem, low, bufs>>

(* Faulty variant: player_state is not updated.                            *)
StoppedOnly == UNCHANGED pstate

Stopped == pstate' = "STOPPED"

fsl_player_stop(t) ==
  /\ Does(t, "stop") /\ Done(t)
  /\ RateWritten(t)
  /\ \E ok \in Outcomes("fail") :
       IF ok THEN gst' = "READY" /\ Stopped /\ UNCHANGED <<active, plays>>
       ELSE UNCHANGED core
  /\ UNCHANGED <<program, bus, queue, sem, low, bufs>>

(* fsl_player_set_playback_rate: pause when playing, play, then the state  *)
(* of the new rate, which is written without the mutex when the event is   *)
(* sent.  Rates other than 1 differ in the name of the state only; rate 0   *)
(* is refused by the seek event.                                           *)
RateStart(t) ==
  /\ Does(t, "rate")
  /\ Then(t, (IF pstate = "PLAYING" THEN Ops(<<"pause">>) ELSE <<>>)
             \o Ops(<<"play">>) \o <<[o |-> "rated", p |-> Head(todo[t]).p]>>)
  /\ UNCHANGED <<core, program, bus, queue, sem, low, bufs>>

RateSet(t) ==
  /\ Does(t, "rated") /\ Done(t)
  /\ \E ok \in Outcomes("fail") :
       pstate' = IF ~ok THEN pstate ELSE IF Head(todo[t]).p = 1 THEN "PLAYING" ELSE "FASTFORWARD"
  /\ UNCHANGED <<gst, active, plays, program, bus, queue, sem, low, bufs>>

fsl_player_set_media_location(t) ==
  /\ Does(t, "location") /\ Done(t) /\ uri' = cur
  /\ UNCHANGED <<core, options, raced, cur, leave, alarmed, lives, cmds, bus, queue, sem, low, bufs>>

-----------------------------------------------------------------------------
(* fsl_player_queue: put appends; put with REPLACE looks at the first      *)
(* message only, and drops its own when that is of another kind.           *)

put(m) == Append(queue, m)

putReplace(m) ==
  IF queue = <<>> THEN <<m>>
  ELSE IF Head(queue).o = m.o THEN <<m>> \o Tail(queue) ELSE queue

Put(t) ==
  /\ Does(t, "put") /\ Done(t)
  /\ queue' = put(Op(CASE Head(todo[t]).p = 0 -> "EOS" [] Head(todo[t]).p = 1 -> "ERROR"
                       [] OTHER -> "EXIT"))
  /\ UNCHANGED <<core, program, bus, sem, low, bufs>>
PutEos   == [o |-> "put", p |-> 0]
PutError == [o |-> "put", p |-> 1]
PutExit  == [o |-> "put", p |-> 2]

(* fsl_player_exit_message_loop.                                           *)
flush(t) ==
  /\ Does(t, "flush") /\ Done(t)
  /\ May("flush_first") \/ Op("EXIT") \notin ToSet(queue) \/ ~Does("msg", "get")
  /\ queue' = <<>>
  /\ UNCHANGED <<core, program, bus, sem, low, bufs>>

-----------------------------------------------------------------------------
(* my_bus_callback, in the thread of the main loop.                        *)

(* Faulty variant: the callback does not wait for the message thread.      *)
OnEosNoWait == <<PutEos>>

(* "Wait until eos message has been processed completely."                 *)
OnEos == <<PutEos>> \o Ops(<<"wait">>)

OnError == Ops(<<"stop">>) \o <<PutError>>

my_bus_callback ==
  /\ "loop" \in lives /\ todo["loop"] = <<>> /\ bus # <<>>
  /\ bus' = Tail(bus)
  /\ todo' = [todo EXCEPT !["loop"] =
       CASE Head(bus).o = "EOS" -> OnEos [] Head(bus).o = "ERROR" -> OnError
         [] OTHER -> <<[o |-> "buffered", p |-> Head(bus).p]>>]
  /\ UNCHANGED <<core, program, queue, sem, low, bufs>>

EosWait ==
  /\ Does("loop", "wait") /\ sem > 0 /\ sem' = sem - 1 /\ Done("loop")
  /\ UNCHANGED <<core, program, bus, queue, low, bufs>>

Resumes(p) == p = 100 /\ pstate = "PLAYING"

(* Buffering: the message replaces an older one; at 0 % a playing pipeline *)
(* is paused, at 100 % it plays again.                                     *)
Buffered ==
  /\ Does("loop", "buffered") /\ Done("loop")
  /\ LET p == Head(todo["loop"]).p
     IN /\ queue' = putReplace([o |-> "BUFFERING", p |-> p])
        /\ low' = IF p \in {0, 100} THEN p = 0 ELSE low
        /\ \E ok \in Outcomes("fail") :
             gst' = IF handle THEN gst
                    ELSE IF p = 0 /\ pstate = "PLAYING" /\ gst = "PLAYING" /\ ok
                    THEN "PAUSED"
                    ELSE IF Resumes(p) /\ ok THEN "PLAYING" ELSE gst
  /\ UNCHANGED <<pstate, active, plays, program, bus, sem, bufs>>

(* g_main_loop_quit ends the thread between two callbacks.                 *)
LoopEnds ==
  /\ "loop" \in lives /\ "init" \notin lives /\ todo["loop"] = <<>>
  /\ lives' = lives \ {"loop"}
  /\ UNCHANGED <<core, options, raced, cur, uri, leave, alarmed, cmds, todo, bus, queue, sem, low, bufs>>

Loop == my_bus_callback \/ EosWait \/ Buffered \/ LoopEnds

-----------------------------------------------------------------------------
(* The pipeline (external).                                                *)

Emit(m) == bus' = Append(bus, m) /\
           UNCHANGED <<options, raced, todo, queue, sem, pstate, gst, uri, cur, low, leave, alarmed,
                       lives, cmds, plays>>

(* The end of a file is on its way to the message thread or handled there. *)
Ending == Op("EOS") \in ToSet(bus) \/ Has("loop", "wait") \/ Has("msg", "next")

(* The player is being left, or a message or a thread may still do it: the *)
(* last file of a list that is not repeated without end does.              *)
Leaving ==
  \/ leave \/ \E t \in Threads : Has(t, "flags")
  \/ Op("ERROR") \in ToSet(bus) \cup ToSet(queue) \/ PutError \in ToSet(todo["loop"])
  \/ Ending /\ (repeat = "NONE" \/ (repeat = "PLAYLIST" /\ times > 0))

(* The end of the loaded file, once per start.                             *)
EndOfFile ==
  /\ gst = "PLAYING" /\ active # 0 /\ "init" \in lives /\ Len(bus) < 2 /\ plays < MaxPlays
  /\ May("exit_eos") \/ ~Leaving
  /\ Emit(Op("EOS")) /\ active' = 0 /\ UNCHANGED bufs

PipelineError ==
  /\ May("error") /\ gst \in {"PLAYING", "PAUSED"} /\ active # 0 /\ Len(bus) < 2
  /\ May("exit_eos") \/ ~Ending
  /\ Emit(Op("ERROR")) /\ active' = 0 /\ UNCHANGED bufs

Buffering(p) ==
  /\ bufs < MaxBuffering /\ gst \in {"PLAYING", "PAUSED"} /\ active # 0 /\ Len(bus) < 2
  /\ Emit([o |-> "BUFFERING", p |-> p]) /\ bufs' = bufs + 1 /\ UNCHANGED active

-----------------------------------------------------------------------------
(* mfw_gplay.c: playlist_next, playlist_previous, player_exit.             *)

(* Faulty variant: scanf is not interrupted.                               *)
player_exitNoAlarm == Ops(<<"flags", "stop", "flush">>)

player_exit == Ops(<<"flags", "stop", "flush", "alarm">>)

(* Faulty variant: the pipeline keeps its uri.                             *)
RestartSame == Ops(<<"stop", "play">>)

Restart == Ops(<<"stop", "location", "play">>)

(* With the last file ended, the list starts again as often as it may.     *)
NextItem ==
  CASE repeat = "CURRENT" -> cur
    [] cur < NItems -> cur + 1
    [] OTHER -> IF repeat = "PLAYLIST" /\ times # 1 THEN 1 ELSE 0

(* playlist_next, and player_exit where its callers find no next file.     *)
NextProgram == IF NextItem = 0 THEN player_exit ELSE Restart

playlist_next ==
  /\ cur' = IF NextItem = 0 THEN cur ELSE NextItem
  /\ times' = IF repeat = "PLAYLIST" /\ cur = NItems /\ times > 0 THEN times - 1 ELSE times
  /\ UNCHANGED <<core, repeat, handle, uri, leave, alarmed, lives, bus, queue, sem, low, bufs>>

(* With a previous file it is started, and started once more by the code   *)
(* of the repeat mode.                                                     *)
playlist_previous(t) ==
  /\ Does(t, "prev")
  /\ LET first == repeat = "PLAYLIST" /\ cur = 1
     IN /\ cur' = IF cur > 1 THEN cur - 1 ELSE IF first THEN NItems ELSE cur
        /\ Then(t, (IF cur > 1 THEN Restart ELSE <<>>)
                   \o (IF repeat = "CURRENT" THEN Ops(<<"stop", "play">>)
                       ELSE IF cur > 1 \/ first THEN Restart ELSE <<>>))
  /\ UNCHANGED <<core, options, uri, leave, alarmed, lives, cmds, raced, bus, queue, sem, low, bufs>>

Flags(t) ==
  /\ Does(t, "flags") /\ Done(t) /\ leave' = TRUE
  /\ UNCHANGED <<core, options, raced, cur, uri, alarmed, lives, cmds, bus, queue, sem, low, bufs>>

Alarm(t) ==
  /\ Does(t, "alarm") /\ Done(t) /\ alarmed' = TRUE
  /\ UNCHANGED <<core, options, raced, cur, uri, leave, lives, cmds, bus, queue, sem, low, bufs>>

-----------------------------------------------------------------------------
(* msg_thread_fun.                                                         *)

EosProgram == Ops(<<"stop", "post", "next", "check">>)

BufferingProgram(p) ==
  (IF handle /\ p \in {0, 100} THEN Ops(<<"pause">>) ELSE <<>>) \o Ops(<<"check">>)

MsgCheck ==
  /\ Does("msg", "check")
  /\ IF leave THEN lives' = lives \ {"msg"} /\ Done("msg")
     ELSE UNCHANGED lives /\ Then("msg", Ops(<<"get">>))
  /\ UNCHANGED <<core, options, raced, cur, uri, leave, alarmed, cmds, bus, queue, sem, low, bufs>>

MsgReturn ==
  /\ Does("msg", "return") /\ Done("msg") /\ lives' = lives \ {"msg"}
  /\ UNCHANGED <<core, options, raced, cur, uri, leave, alarmed, cmds, bus, queue, sem, low, bufs>>

(* fsl_player_wait_message waits without end.                              *)
MsgGet ==
  /\ Does("msg", "get") /\ queue # <<>> /\ queue' = Tail(queue)
  /\ LET m == Head(queue)
     IN Then("msg", CASE m.o = "EOS" -> EosProgram
                      [] m.o = "EXIT" -> Ops(<<"return">>)
                      [] m.o = "ERROR" -> player_exit \o Ops(<<"return">>)
                      [] OTHER -> BufferingProgram(m.p))
  /\ raced' = (raced \/ (todo["ui"] # <<>> /\ (Head(queue).o = "EOS" \/ handle)))
  /\ UNCHANGED <<core, options, cur, uri, leave, alarmed, lives, cmds, bus, sem, low, bufs>>

fsl_player_post_eos_semaphore ==
  /\ Does("msg", "post") /\ Done("msg") /\ sem' = sem + 1
  /\ UNCHANGED <<core, program, bus, queue, low, bufs>>

MsgNext ==
  /\ Does("msg", "next") /\ Then("msg", NextProgram) /\ playlist_next
  /\ UNCHANGED <<cmds, raced>>

Msg == MsgCheck \/ MsgGet \/ MsgReturn \/ MsgNext \/ fsl_player_post_eos_semaphore

-----------------------------------------------------------------------------
(* main.                                                                   *)

(* The message thread has still to change the pipeline.                    *)
MsgWorks == \E o \in {"stop", "location", "play", "pause"} : Has("msg", o)

Commands ==
  {Ops(<<"location", "play">>), Ops(<<"stop">>), Ops(<<"pause">>), Ops(<<"prev">>),
   <<[o |-> "rate", p |-> 1]>>, <<[o |-> "rate", p |-> 2]>>}
  \cup (IF May("exit_eos") \/ ~Ending THEN {<<PutExit>> \o player_exit} ELSE {})

Reads ==
  /\ "ui" \in lives /\ todo["ui"] = <<>> /\ cmds < MaxCmds /\ ~(leave /\ alarmed)
  /\ cmds' = cmds + 1 /\ raced' = (raced \/ Ending \/ MsgWorks)

Command ==
  /\ Reads /\ \E c \in Commands : todo' = [todo EXCEPT !["ui"] = c]
  /\ UNCHANGED <<core, options, cur, uri, leave, alarmed, lives, bus, queue, sem, low, bufs>>

NextCommand ==
  /\ Reads /\ (May("next_exit") \/ NextItem # 0)
  /\ todo' = [todo EXCEPT !["ui"] = NextProgram] /\ playlist_next

(* The command loop ends; the message thread is joined and                 *)
(* fsl_player_deinit stops the pipeline and the main loop.                 *)
fsl_player_deinit ==
  /\ "init" \in lives /\ todo["ui"] = <<>> /\ leave /\ alarmed /\ "msg" \notin lives
  /\ lives' = lives \ {"init"} /\ gst' = "NULL"
  /\ UNCHANGED <<pstate, active, plays, options, raced, cur, uri, leave, alarmed, cmds, todo, bus,
                 queue, sem, low, bufs>>

(* The main loop's thread is joined.                                       *)
MainEnds ==
  /\ "ui" \in lives /\ "init" \notin lives /\ "loop" \notin lives
  /\ lives' = lives \ {"ui"}
  /\ UNCHANGED <<core, options, raced, cur, uri, leave, alarmed, cmds, todo, bus, queue, sem, low, bufs>>

Step(t) ==
  \/ fsl_player_play(t) \/ fsl_player_pause(t) \/ fsl_player_stop(t) \/ RateStart(t) \/ RateSet(t)
  \/ fsl_player_set_media_location(t) \/ Put(t) \/ flush(t)
  \/ playlist_previous(t) \/ Flags(t) \/ Alarm(t)

Pipeline == EndOfFile \/ PipelineError \/ \E p \in Percents : Buffering(p)

Next == (\E t \in Threads : Step(t)) \/ Loop \/ Msg \/ Command \/ NextCommand \/ fsl_player_deinit \/ MainEnds
        \/ Pipeline

Spec == Init /\ [][Next]_vars

(* Fairness: the threads run.  The user and the pipeline owe nothing.      *)
FairSpec ==
  /\ Spec /\ \A t \in Threads : WF_vars(Step(t))
  /\ WF_vars(Loop) /\ WF_vars(Msg) /\ WF_vars(fsl_player_deinit \/ MainEnds)

-----------------------------------------------------------------------------
(* Properties.                                                             *)

Messages == {Op("EOS"), Op("ERROR"), Op("EXIT")} \cup [o : {"BUFFERING"}, p : 0..100]
Operations ==
  [o : {"play", "pause", "stop", "rate", "rated", "location", "put", "flush", "wait", "buffered",
        "prev", "flags", "alarm", "check", "get", "return", "post", "next"}, p : 0..100]

(* Types; in particular the current item stays on the play list.           *)
TypeOK ==
  /\ repeat \in {"NONE", "PLAYLIST", "CURRENT"} /\ times \in Int /\ handle \in BOOLEAN
  /\ todo \in [Threads -> Seq(Operations)]
  /\ bus \in Seq(Messages) /\ queue \in Seq(Messages) /\ sem \in Nat
  /\ pstate \in {"STOPPED", "PLAYING", "PAUSED", "FASTFORWARD"}
  /\ gst \in {"NULL", "READY", "PAUSED", "PLAYING"}
  /\ uri \in 0..NItems /\ active \in 0..NItems /\ cur \in 1..NItems
  /\ low \in BOOLEAN /\ raced \in BOOLEAN /\ leave \in BOOLEAN /\ alarmed \in BOOLEAN
  /\ lives \subseteq Threads \cup {"init"} /\ {cmds, plays, bufs} \subseteq Nat

Ends(s) == Cardinality({i \in 1..Len(s) : s[i].o = "EOS"})

(* The callback that waits for the end of a file to be handled waits for   *)
(* one message, in the queue or in the message thread, and no answer is    *)
(* left over for the end of another file.                                  *)
EosHandshake ==
  (IF Does("loop", "wait") THEN 1 ELSE 0) =
    Ends(queue) + sem
    + (IF Has("msg", "post") THEN 1 ELSE 0)

(* player_state and the pipeline agree whenever no thread holds the mutex: *)
(* a stopped player does not play on, a paused one is not resumed by       *)
(* buffering, and a playing one plays unless the buffer is low.            *)
StateTruth ==
  "init" \in lives =>
    /\ pstate = "STOPPED" => gst \in {"READY", "NULL"}
    /\ pstate = "PAUSED" => gst = "PAUSED"
    /\ pstate = "PLAYING" => gst = "PLAYING" \/ (gst = "PAUSED" /\ low)

(* When all threads are at rest, what plays is the current item, unless a  *)
(* command of the user has met the work of the message thread on the       *)
(* pipeline.                                                               *)
RightItem ==
  ~raced /\ ~Ending /\ ~MsgWorks /\ todo["ui"] = <<>> /\ gst = "PLAYING" => active \in {0, cur}

(* The end of a file is always answered, so that the callback of the bus   *)
(* returns, and leaving the player ends all its threads.                   *)
Exits ==
  /\ Does("loop", "wait") ~> todo["loop"] = <<>>
  /\ leave ~> lives = {}
=============================================================================
