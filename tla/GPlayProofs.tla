---------------------------- MODULE GPlayProofs ----------------------------
(***************************************************************************)
(* Theorems about GPlay: types, the agreement of player_state with the     *)
(* pipeline, the file that plays, and the hand-over of the end of a file   *)
(* from the callback of the bus to the message thread.                     *)
(***************************************************************************)
EXTENDS GPlay, FiniteSetTheorems, SequenceTheorems, TLAPS

HasOp(S, o) == \E i \in 1..Len(S) : S[i].o = o

-----------------------------------------------------------------------------
(***************************************************************************)
(* What the threads may have to do.  The three shapes hold of a program    *)
(* when it is given to its thread, and of all its tails.                   *)
(***************************************************************************)
UiOps == {"location", "play", "pause", "stop", "prev", "rate", "rated", "put",
          "flags", "flush", "alarm"}
MsgOps == {"check", "get", "return", "stop", "post", "next", "location", "play",
           "pause", "flags", "flush", "alarm"}
LoopOps == {"put", "wait", "stop", "buffered"}

UiShape(S) ==
  \A i \in 1..Len(S) :
    /\ S[i].o \in UiOps
    /\ S[i].o = "put" => S[i] = PutExit
    /\ S[i].o \in {"rate", "prev"} => Len(S) = 1
    /\ S[i].o = "rated" => i = Len(S) /\ (i > 1 => S[i - 1].o = "play")

MsgShape(S) ==
  \A i \in 1..Len(S) :
    /\ S[i].o \in MsgOps
    /\ S[i].o \in {"check", "get", "return"} => i = Len(S)
    /\ S[i].o = "post" => i < Len(S) /\ S[i + 1].o = "next"
    /\ S[i].o = "next" => i + 1 = Len(S) /\ S[i + 1] = Op("check")

LoopShape(S) ==
  \A i \in 1..Len(S) :
    /\ S[i].o \in LoopOps
    /\ S[i].o = "put" => S[i] \in {PutEos, PutError}
    /\ S[i].o = "wait" => i = Len(S) /\ (i > 1 => i = 2 /\ S[1] = PutEos)
    /\ S[i] = PutEos => i + 1 = Len(S) /\ S[i + 1].o = "wait"

Shapes == UiShape(todo["ui"]) /\ MsgShape(todo["msg"]) /\ LoopShape(todo["loop"])

(* player_exit sets its flags before it flushes.                           *)
FlagsFirst == \A t \in Threads : Has(t, "flush") => leave \/ Has(t, "flags")

(* A thread that has ended has nothing to do.                              *)
Ended ==
  /\ "msg" \notin lives => todo["msg"] = <<>>
  /\ "init" \notin lives =>
       leave /\ alarmed /\ todo["ui"] = <<>> /\ todo["msg"] = <<>>

BaseInv == TypeOK /\ Shapes /\ FlagsFirst /\ Ended

-----------------------------------------------------------------------------
(* A sequence without its first element, by positions.                     *)
LEMMA TailIs ==
  ASSUME NEW T, NEW S \in Seq(T), S # <<>>
  PROVE  /\ Tail(S) \in Seq(T) /\ Len(S) \in Nat \ {0} /\ Head(S) = S[1] /\ S[1] \in T
         /\ Len(Tail(S)) = Len(S) - 1
         /\ \A i \in 1..Len(Tail(S)) : Tail(S)[i] = S[i + 1]
OBVIOUS

(* The tail of a program, or of a queue, has all of it but the first one.  *)
LEMMA TailHas ==
  ASSUME NEW T, NEW S \in Seq(T), S # <<>>
  PROVE  \A o : /\ HasOp(Tail(S), o) => HasOp(S, o)
                /\ HasOp(S, o) => HasOp(Tail(S), o) \/ Head(S).o = o
<1>1. /\ Len(S) \in Nat \ {0} /\ Head(S) = S[1] /\ Len(Tail(S)) = Len(S) - 1
      /\ \A i \in 1..Len(Tail(S)) : Tail(S)[i] = S[i + 1]
  BY TailIs
<1> SUFFICES ASSUME NEW o
             PROVE  /\ HasOp(Tail(S), o) => HasOp(S, o)
                    /\ HasOp(S, o) => HasOp(Tail(S), o) \/ Head(S).o = o
  OBVIOUS
<1>2. ASSUME HasOp(Tail(S), o) PROVE HasOp(S, o)
  <2>1. PICK i \in 1..Len(Tail(S)) : Tail(S)[i].o = o BY <1>2 DEF HasOp
  <2>2. i + 1 \in 1..Len(S) /\ S[i + 1].o = o BY <1>1, <2>1
  <2>3. QED BY <2>2 DEF HasOp
<1>3. ASSUME HasOp(S, o) PROVE HasOp(Tail(S), o) \/ Head(S).o = o
  <2>1. PICK i \in 1..Len(S) : S[i].o = o BY <1>3 DEF HasOp
  <2>2. CASE i = 1 BY <1>1, <2>1, <2>2
  <2>3. CASE i # 1
    <3>1. i - 1 \in 1..Len(Tail(S)) /\ Tail(S)[i - 1].o = o BY <1>1, <2>1, <2>3
    <3>2. QED BY <3>1 DEF HasOp
  <2>4. QED BY <2>2, <2>3
<1>4. QED BY <1>2, <1>3

(* The shapes of programs are shapes of their tails.                       *)
LEMMA TailShapes ==
  ASSUME NEW S \in Seq(Operations), S # <<>>
  PROVE  /\ UiShape(S) => UiShape(Tail(S))
         /\ MsgShape(S) => MsgShape(Tail(S))
         /\ LoopShape(S) => LoopShape(Tail(S))
<1> DEFINE n == Len(S)
           U == Tail(S)
<1>1. /\ n \in Nat \ {0} /\ Len(U) = n - 1
      /\ \A i \in 1 .. n - 1 : U[i] = S[i + 1]
  BY TailIs
<1> HIDE DEF U
<1>2. ASSUME UiShape(S) PROVE UiShape(U)
  <2> SUFFICES ASSUME NEW i \in 1 .. n - 1
               PROVE  /\ U[i].o \in UiOps
                      /\ U[i].o = "put" => U[i] = PutExit
                      /\ U[i].o \in {"rate", "prev"} => n - 1 = 1
                      /\ U[i].o = "rated" => i = n - 1 /\ (i > 1 => U[i - 1].o = "play")
    BY <1>1 DEF UiShape
  <2>1. PICK j \in 1..n : j = i + 1 BY <1>1
  <2>2. /\ S[j].o \in UiOps
        /\ S[j].o = "put" => S[j] = PutExit
        /\ S[j].o \in {"rate", "prev"} => n = 1
        /\ S[j].o = "rated" => j = n /\ (j > 1 => S[j - 1].o = "play")
    BY <1>2 DEF UiShape
  <2>3. U[i] = S[j] /\ j > 1 /\ j - 1 = i BY <1>1, <2>1
  <2>4. i > 1 => U[i - 1] = S[i]
    <3> SUFFICES ASSUME i > 1 PROVE U[i - 1] = S[i] OBVIOUS
    <3>1. i - 1 \in 1 .. n - 1 /\ (i - 1) + 1 = i BY <1>1
    <3>2. QED BY <1>1, <3>1
  <2>5. QED BY <1>1, <2>1, <2>2, <2>3, <2>4
<1>3. ASSUME MsgShape(S) PROVE MsgShape(U)
  <2> SUFFICES ASSUME NEW i \in 1 .. n - 1
               PROVE  /\ U[i].o \in MsgOps
                      /\ U[i].o \in {"check", "get", "return"} => i = n - 1
                      /\ U[i].o = "post" => i < n - 1 /\ U[i + 1].o = "next"
                      /\ U[i].o = "next" => i + 1 = n - 1 /\ U[i + 1] = Op("check")
    BY <1>1 DEF MsgShape
  <2>1. PICK j \in 1..n : j = i + 1 BY <1>1
  <2>2. /\ S[j].o \in MsgOps
        /\ S[j].o \in {"check", "get", "return"} => j = n
        /\ S[j].o = "post" => j < n /\ S[j + 1].o = "next"
        /\ S[j].o = "next" => j + 1 = n /\ S[j + 1] = Op("check")
    BY <1>3 DEF MsgShape
  <2>3. U[i] = S[j] /\ (j < n => U[j] = S[j + 1]) BY <1>1, <2>1
  <2>4. QED BY <1>1, <2>1, <2>2, <2>3
<1>4. ASSUME LoopShape(S) PROVE LoopShape(U)
  <2> SUFFICES ASSUME NEW i \in 1 .. n - 1
               PROVE  /\ U[i].o \in LoopOps
                      /\ U[i].o = "put" => U[i] \in {PutEos, PutError}
                      /\ U[i].o = "wait" => i = n - 1 /\ (i > 1 => i = 2 /\ U[1] = PutEos)
                      /\ U[i] = PutEos => i + 1 = n - 1 /\ U[i + 1].o = "wait"
    BY <1>1 DEF LoopShape
  <2>1. PICK j \in 1..n : j = i + 1 BY <1>1
  <2>2. /\ S[j].o \in LoopOps
        /\ S[j].o = "put" => S[j] \in {PutEos, PutError}
        /\ S[j].o = "wait" => j = n /\ (j > 1 => j = 2 /\ S[1] = PutEos)
        /\ S[j] = PutEos => j + 1 = n /\ S[j + 1].o = "wait"
    BY <1>4 DEF LoopShape
  <2>3. U[i] = S[j] /\ j > 1 /\ (j < n => U[j] = S[j + 1]) BY <1>1, <2>1
  <2>4. QED BY <1>1, <2>1, <2>2, <2>3
<1>5. QED BY <1>2, <1>3, <1>4 DEF U

(* A thread that has done its first operation.                             *)
LEMMA DoneFacts ==
  ASSUME TypeOK, Shapes, NEW t \in Threads, todo[t] # <<>>, Done(t)
  PROVE  /\ todo' \in [Threads -> Seq(Operations)] /\ Shapes'
         /\ todo'[t] = Tail(todo[t]) /\ \A u \in Threads \ {t} : todo'[u] = todo[u]
         /\ \A u \in Threads : \A o : Has(u, o)' => Has(u, o)
         /\ \A u \in Threads : \A o :
              Has(u, o) => Has(u, o)' \/ (u = t /\ Head(todo[t]).o = o)
<1>1. todo \in [Threads -> Seq(Operations)] BY DEF TypeOK
<1>2. todo'[t] = Tail(todo[t]) /\ \A u \in Threads \ {t} : todo'[u] = todo[u]
  BY <1>1 DEF Done
<1>3. Tail(todo[t]) \in Seq(Operations) BY <1>1, TailIs
<1>4. todo' \in [Threads -> Seq(Operations)] BY <1>1, <1>3 DEF Done
<1>5. Shapes'
  <2>1. UiShape(todo'["ui"])
    <3>1. CASE t = "ui" BY <1>1, <1>2, <3>1, TailShapes DEF Shapes
    <3>2. CASE t # "ui" BY <1>2, <3>2 DEF Shapes, Threads
    <3>3. QED BY <3>1, <3>2
  <2>2. MsgShape(todo'["msg"])
    <3>1. CASE t = "msg" BY <1>1, <1>2, <3>1, TailShapes DEF Shapes
    <3>2. CASE t # "msg" BY <1>2, <3>2 DEF Shapes, Threads
    <3>3. QED BY <3>1, <3>2
  <2>3. LoopShape(todo'["loop"])
    <3>1. CASE t = "loop" BY <1>1, <1>2, <3>1, TailShapes DEF Shapes
    <3>2. CASE t # "loop" BY <1>2, <3>2 DEF Shapes, Threads
    <3>3. QED BY <3>1, <3>2
  <2>4. QED BY <2>1, <2>2, <2>3 DEF Shapes
<1>6. \A u \in Threads : \A o : /\ Has(u, o) <=> HasOp(todo[u], o)
                                /\ Has(u, o)' <=> HasOp(todo'[u], o)
  BY DEF Has, HasOp
<1>7. \A o : /\ HasOp(todo'[t], o) => HasOp(todo[t], o)
             /\ HasOp(todo[t], o) => HasOp(todo'[t], o) \/ Head(todo[t]).o = o
  BY <1>1, <1>2, TailHas
<1>8. QED BY <1>2, <1>4, <1>5, <1>6, <1>7

(* A thread that is given other work.                                      *)
LEMMA GivenFacts ==
  ASSUME TypeOK, Shapes, NEW t \in Threads, NEW S \in Seq(Operations),
         todo' = [todo EXCEPT ![t] = S],
         t = "ui" => UiShape(S), t = "msg" => MsgShape(S), t = "loop" => LoopShape(S)
  PROVE  /\ todo' \in [Threads -> Seq(Operations)] /\ Shapes'
         /\ todo'[t] = S /\ \A u \in Threads \ {t} : todo'[u] = todo[u]
         /\ \A o : Has(t, o)' <=> HasOp(S, o)
         /\ \A u \in Threads \ {t} : \A o : Has(u, o)' <=> Has(u, o)
<1>1. todo \in [Threads -> Seq(Operations)] BY DEF TypeOK
<1>2. todo'[t] = S /\ \A u \in Threads \ {t} : todo'[u] = todo[u]
  BY <1>1
<1>3. todo' \in [Threads -> Seq(Operations)] BY <1>1
<1>4. Shapes' BY <1>2 DEF Shapes, Threads
<1>5. QED BY <1>2, <1>3, <1>4 DEF Has, HasOp

(* The same by the operation Then, for a thread whose first operation is   *)
(* its only one.                                                           *)
LEMMA ThenIs ==
  ASSUME TypeOK, NEW t \in Threads, NEW S \in Seq(Operations), Then(t, S), Len(todo[t]) = 1
  PROVE  todo' = [todo EXCEPT ![t] = S]
<1>1. todo[t] \in Seq(Operations) BY DEF TypeOK
<1>2. todo[t] # <<>>
  <2>1. Len(<<>>) = 0 /\ 0 # 1 OBVIOUS
  <2>2. QED BY <2>1, Zenon
<1>3. Len(Tail(todo[t])) = 0 /\ Tail(todo[t]) \in Seq(Operations) BY <1>1, <1>2, TailIs
<1>4. Tail(todo[t]) = <<>> BY <1>3, EmptySeq
<1>5. S \o <<>> = S BY ConcatEmptySeq
<1>6. QED BY <1>4, <1>5 DEF Then

-----------------------------------------------------------------------------
(* Short programs are sequences.                                           *)
LEMMA Tuples ==
  ASSUME NEW T, NEW a \in T, NEW b \in T, NEW c \in T, NEW d \in T, NEW e \in T,
         NEW f \in T
  PROVE  /\ <<a>> \in Seq(T) /\ <<a, b>> \in Seq(T) /\ <<a, b, c>> \in Seq(T)
         /\ <<a, b, c, d>> \in Seq(T) /\ <<a, b, c, d, e>> \in Seq(T)
         /\ <<a, b, c, d, e, f>> \in Seq(T)
OBVIOUS

(* Two sequences joined, by positions.                                     *)
LEMMA JoinIs ==
  ASSUME NEW T, NEW u \in Seq(T), NEW v \in Seq(T), NEW w \in Seq(T),
         Len(w) = Len(u) + Len(v),
         \A i \in 1..Len(u) : w[i] = u[i],
         \A i \in 1..Len(v) : w[Len(u) + i] = v[i]
  PROVE  u \o v = w
<1>1. /\ u \o v \in Seq(T) /\ Len(u \o v) = Len(w)
      /\ \A i \in 1..Len(w) : (u \o v)[i] = IF i <= Len(u) THEN u[i] ELSE v[i - Len(u)]
  BY ConcatProperties
<1>2. Len(u) \in Nat /\ Len(v) \in Nat OBVIOUS
<1>3. \A i \in 1..Len(w) : (u \o v)[i] = w[i]
  <2> SUFFICES ASSUME NEW i \in 1..Len(w) PROVE (u \o v)[i] = w[i]
    OBVIOUS
  <2>1. CASE i <= Len(u) BY <1>1, <1>2, <2>1
  <2>2. CASE i > Len(u)
    <3>1. i - Len(u) \in 1..Len(v) /\ Len(u) + (i - Len(u)) = i BY <1>2, <2>2
    <3>2. w[i] = v[i - Len(u)] BY <3>1
    <3>3. QED BY <1>1, <1>2, <2>2, <3>2
  <2>3. QED BY <1>2, <2>1, <2>2
<1>4. QED BY <1>1, <1>3, SeqEqual

(* Short programs joined, by their lengths.                                *)
LEMMA Join11 ==
  ASSUME NEW a, NEW b
  PROVE  <<a>> \o <<b>> = <<a, b>>
<1> DEFINE T == {a, b}
           u == <<a>>
           v == <<b>>
           w == <<a, b>>
<1>1. u \in Seq(T) /\ v \in Seq(T) /\ w \in Seq(T) OBVIOUS
<1>2. Len(u) = 1 /\ Len(v) = 1 /\ Len(w) = 2 OBVIOUS
<1>3. \A i \in 1..1 : w[i] = u[i] OBVIOUS
<1>4. \A i \in 1..1 : w[1 + i] = v[i]
  <2>1. w[2] = v[1] OBVIOUS
  <2> HIDE DEF w, v
  <2>2. QED BY <2>1
<1>5. u \o v = w
  <2> HIDE DEF u, v, w
  <2>1. /\ Len(w) = Len(u) + Len(v)
        /\ \A i \in 1..Len(u) : w[i] = u[i]
        /\ \A i \in 1..Len(v) : w[Len(u) + i] = v[i]
    BY <1>2, <1>3, <1>4
  <2>2. QED BY <1>1, <2>1, JoinIs, Zenon
<1>6. QED BY <1>5

(* Short programs joined, by their lengths.                                *)
LEMMA Join21 ==
  ASSUME NEW a, NEW b, NEW c
  PROVE  <<a, b>> \o <<c>> = <<a, b, c>>
<1> DEFINE T == {a, b, c}
           u == <<a, b>>
           v == <<c>>
           w == <<a, b, c>>
<1>1. u \in Seq(T) /\ v \in Seq(T) /\ w \in Seq(T) OBVIOUS
<1>2. Len(u) = 2 /\ Len(v) = 1 /\ Len(w) = 3 OBVIOUS
<1>3. \A i \in 1..2 : w[i] = u[i] OBVIOUS
<1>4. \A i \in 1..1 : w[2 + i] = v[i]
  <2>1. w[3] = v[1] OBVIOUS
  <2> HIDE DEF w, v
  <2>2. QED BY <2>1
<1>5. u \o v = w
  <2> HIDE DEF u, v, w
  <2>1. /\ Len(w) = Len(u) + Len(v)
        /\ \A i \in 1..Len(u) : w[i] = u[i]
        /\ \A i \in 1..Len(v) : w[Len(u) + i] = v[i]
    BY <1>2, <1>3, <1>4
  <2>2. QED BY <1>1, <2>1, JoinIs, Zenon
<1>6. QED BY <1>5

(* Short programs joined, by their lengths.                                *)
LEMMA Join31 ==
  ASSUME NEW a, NEW b, NEW c, NEW d
  PROVE  <<a, b, c>> \o <<d>> = <<a, b, c, d>>
<1> DEFINE T == {a, b, c, d}
           u == <<a, b, c>>
           v == <<d>>
           w == <<a, b, c, d>>
<1>1. u \in Seq(T) /\ v \in Seq(T) /\ w \in Seq(T) OBVIOUS
<1>2. Len(u) = 3 /\ Len(v) = 1 /\ Len(w) = 4 OBVIOUS
<1>3. \A i \in 1..3 : w[i] = u[i] OBVIOUS
<1>4. \A i \in 1..1 : w[3 + i] = v[i]
  <2>1. w[4] = v[1] OBVIOUS
  <2> HIDE DEF w, v
  <2>2. QED BY <2>1
<1>5. u \o v = w
  <2> HIDE DEF u, v, w
  <2>1. /\ Len(w) = Len(u) + Len(v)
        /\ \A i \in 1..Len(u) : w[i] = u[i]
        /\ \A i \in 1..Len(v) : w[Len(u) + i] = v[i]
    BY <1>2, <1>3, <1>4
  <2>2. QED BY <1>1, <2>1, JoinIs, Zenon
<1>6. QED BY <1>5

(* Short programs joined, by their lengths.                                *)
LEMMA Join14 ==
  ASSUME NEW a, NEW b, NEW c, NEW d, NEW e
  PROVE  <<a>> \o <<b, c, d, e>> = <<a, b, c, d, e>>
<1> DEFINE T == {a, b, c, d, e}
           u == <<a>>
           v == <<b, c, d, e>>
           w == <<a, b, c, d, e>>
<1>1. u \in Seq(T) /\ v \in Seq(T) /\ w \in Seq(T) OBVIOUS
<1>2. Len(u) = 1 /\ Len(v) = 4 /\ Len(w) = 5 OBVIOUS
<1>3. \A i \in 1..1 : w[i] = u[i] OBVIOUS
<1>4. \A i \in 1..4 : w[1 + i] = v[i]
  <2>1. w[2] = v[1] /\ w[3] = v[2] /\ w[4] = v[3] /\ w[5] = v[4] OBVIOUS
  <2> HIDE DEF w, v
  <2>2. QED BY <2>1
<1>5. u \o v = w
  <2> HIDE DEF u, v, w
  <2>1. /\ Len(w) = Len(u) + Len(v)
        /\ \A i \in 1..Len(u) : w[i] = u[i]
        /\ \A i \in 1..Len(v) : w[Len(u) + i] = v[i]
    BY <1>2, <1>3, <1>4
  <2>2. QED BY <1>1, <2>1, JoinIs, Zenon
<1>6. QED BY <1>5

(* Short programs joined, by their lengths.                                *)
LEMMA Join41 ==
  ASSUME NEW a, NEW b, NEW c, NEW d, NEW e
  PROVE  <<a, b, c, d>> \o <<e>> = <<a, b, c, d, e>>
<1> DEFINE T == {a, b, c, d, e}
           u == <<a, b, c, d>>
           v == <<e>>
           w == <<a, b, c, d, e>>
<1>1. u \in Seq(T) /\ v \in Seq(T) /\ w \in Seq(T) OBVIOUS
<1>2. Len(u) = 4 /\ Len(v) = 1 /\ Len(w) = 5 OBVIOUS
<1>3. \A i \in 1..4 : w[i] = u[i] OBVIOUS
<1>4. \A i \in 1..1 : w[4 + i] = v[i]
  <2>1. w[5] = v[1] OBVIOUS
  <2> HIDE DEF w, v
  <2>2. QED BY <2>1
<1>5. u \o v = w
  <2> HIDE DEF u, v, w
  <2>1. /\ Len(w) = Len(u) + Len(v)
        /\ \A i \in 1..Len(u) : w[i] = u[i]
        /\ \A i \in 1..Len(v) : w[Len(u) + i] = v[i]
    BY <1>2, <1>3, <1>4
  <2>2. QED BY <1>1, <2>1, JoinIs, Zenon
<1>6. QED BY <1>5

(* Short programs joined, by their lengths.                                *)
LEMMA Join32 ==
  ASSUME NEW a, NEW b, NEW c, NEW d, NEW e
  PROVE  <<a, b, c>> \o <<d, e>> = <<a, b, c, d, e>>
<1> DEFINE T == {a, b, c, d, e}
           u == <<a, b, c>>
           v == <<d, e>>
           w == <<a, b, c, d, e>>
<1>1. u \in Seq(T) /\ v \in Seq(T) /\ w \in Seq(T) OBVIOUS
<1>2. Len(u) = 3 /\ Len(v) = 2 /\ Len(w) = 5 OBVIOUS
<1>3. \A i \in 1..3 : w[i] = u[i] OBVIOUS
<1>4. \A i \in 1..2 : w[3 + i] = v[i]
  <2>1. w[4] = v[1] /\ w[5] = v[2] OBVIOUS
  <2> HIDE DEF w, v
  <2>2. QED BY <2>1
<1>5. u \o v = w
  <2> HIDE DEF u, v, w
  <2>1. /\ Len(w) = Len(u) + Len(v)
        /\ \A i \in 1..Len(u) : w[i] = u[i]
        /\ \A i \in 1..Len(v) : w[Len(u) + i] = v[i]
    BY <1>2, <1>3, <1>4
  <2>2. QED BY <1>1, <2>1, JoinIs, Zenon
<1>6. QED BY <1>5

(* The programs of the threads, written out.                               *)
LEMMA Programs ==
  /\ Ops(<<"location", "play">>) = <<Op("location"), Op("play")>>
  /\ Ops(<<"stop">>) = <<Op("stop")>> /\ Ops(<<"pause">>) = <<Op("pause")>>
  /\ Ops(<<"prev">>) = <<Op("prev")>> /\ Ops(<<"play">>) = <<Op("play")>>
  /\ Ops(<<"get">>) = <<Op("get")>> /\ Ops(<<"check">>) = <<Op("check")>>
  /\ Ops(<<"return">>) = <<Op("return")>> /\ Ops(<<"wait">>) = <<Op("wait")>>
  /\ Ops(<<"stop", "play">>) = <<Op("stop"), Op("play")>>
  /\ Restart = <<Op("stop"), Op("location"), Op("play")>>
  /\ player_exit = <<Op("flags"), Op("stop"), Op("flush"), Op("alarm")>>
  /\ EosProgram = <<Op("stop"), Op("post"), Op("next"), Op("check")>>
<1>1. ASSUME NEW a PROVE Ops(<<a>>) = <<Op(a)>> BY DEF Ops
<1>2. ASSUME NEW a, NEW b PROVE Ops(<<a, b>>) = <<Op(a), Op(b)>> BY DEF Ops
<1>3. ASSUME NEW a, NEW b, NEW c PROVE Ops(<<a, b, c>>) = <<Op(a), Op(b), Op(c)>>
  BY DEF Ops
<1>4. ASSUME NEW a, NEW b, NEW c, NEW d
      PROVE  Ops(<<a, b, c, d>>) = <<Op(a), Op(b), Op(c), Op(d)>>
  BY DEF Ops
<1>5. QED BY <1>1, <1>2, <1>3, <1>4 DEF Restart, player_exit, EosProgram

(* The types of their operations.                                          *)
LEMMA OpTypes ==
  /\ Op("location") \in Operations /\ Op("play") \in Operations
  /\ Op("stop") \in Operations /\ Op("pause") \in Operations
  /\ Op("prev") \in Operations /\ Op("get") \in Operations
  /\ Op("check") \in Operations /\ Op("return") \in Operations
  /\ Op("wait") \in Operations /\ Op("flags") \in Operations
  /\ Op("flush") \in Operations /\ Op("alarm") \in Operations
  /\ Op("post") \in Operations /\ Op("next") \in Operations
  /\ PutEos \in Operations /\ PutError \in Operations /\ PutExit \in Operations
BY DEF Op, Operations, PutEos, PutError, PutExit

(* Programs made of others.                                                *)
LEMMA LongPrograms ==
  /\ <<PutExit>> \o player_exit
       = <<PutExit, Op("flags"), Op("stop"), Op("flush"), Op("alarm")>>
  /\ player_exit \o Ops(<<"return">>)
       = <<Op("flags"), Op("stop"), Op("flush"), Op("alarm"), Op("return")>>
  /\ player_exit \o <<Op("check")>>
       = <<Op("flags"), Op("stop"), Op("flush"), Op("alarm"), Op("check")>>
  /\ Restart \o <<Op("check")>> = <<Op("stop"), Op("location"), Op("play"), Op("check")>>
  /\ Restart \o Ops(<<"stop", "play">>)
       = <<Op("stop"), Op("location"), Op("play"), Op("stop"), Op("play")>>
  /\ Restart \o Restart
       = <<Op("stop"), Op("location"), Op("play"), Op("stop"), Op("location"), Op("play")>>
  /\ <<>> \o Ops(<<"stop", "play">>) = <<Op("stop"), Op("play")>>
  /\ <<>> \o Restart = <<Op("stop"), Op("location"), Op("play")>>
  /\ <<>> \o <<>> = <<>>
  /\ OnEos = <<PutEos, Op("wait")>> /\ OnError = <<Op("stop"), PutError>>
  /\ \A n : \/ BufferingProgram(n) = <<Op("check")>>
            \/ BufferingProgram(n) = <<Op("pause"), Op("check")>> /\ handle
<1>1. <<PutExit>> \o player_exit
        = <<PutExit, Op("flags"), Op("stop"), Op("flush"), Op("alarm")>>
  <2>1. <<PutExit>> \o <<Op("flags"), Op("stop"), Op("flush"), Op("alarm")>>
          = <<PutExit, Op("flags"), Op("stop"), Op("flush"), Op("alarm")>>
    BY Join14, Zenon
  <2>2. QED BY <2>1, Programs, Zenon
<1>2. player_exit \o Ops(<<"return">>)
        = <<Op("flags"), Op("stop"), Op("flush"), Op("alarm"), Op("return")>>
  <2>1. <<Op("flags"), Op("stop"), Op("flush"), Op("alarm")>> \o <<Op("return")>>
          = <<Op("flags"), Op("stop"), Op("flush"), Op("alarm"), Op("return")>>
    BY Join41, Zenon
  <2>2. QED BY <2>1, Programs, Zenon
<1>3. player_exit \o <<Op("check")>>
        = <<Op("flags"), Op("stop"), Op("flush"), Op("alarm"), Op("check")>>
  <2>1. <<Op("flags"), Op("stop"), Op("flush"), Op("alarm")>> \o <<Op("check")>>
          = <<Op("flags"), Op("stop"), Op("flush"), Op("alarm"), Op("check")>>
    BY Join41, Zenon
  <2>2. QED BY <2>1, Programs, Zenon
<1>4. Restart \o <<Op("check")>>
        = <<Op("stop"), Op("location"), Op("play"), Op("check")>>
  <2>1. <<Op("stop"), Op("location"), Op("play")>> \o <<Op("check")>>
          = <<Op("stop"), Op("location"), Op("play"), Op("check")>>
    BY Join31, Zenon
  <2>2. QED BY <2>1, Programs, Zenon
<1>5. Restart \o Ops(<<"stop", "play">>)
        = <<Op("stop"), Op("location"), Op("play"), Op("stop"), Op("play")>>
  <2>1. <<Op("stop"), Op("location"), Op("play")>> \o <<Op("stop"), Op("play")>>
          = <<Op("stop"), Op("location"), Op("play"), Op("stop"), Op("play")>>
    BY Join32, Zenon
  <2>2. QED BY <2>1, Programs, Zenon
<1>6. Restart \o Restart
        = <<Op("stop"), Op("location"), Op("play"), Op("stop"), Op("location"), Op("play")>>
  <2> DEFINE w == <<Op("stop"), Op("location"), Op("play"), Op("stop"), Op("location"),
                    Op("play")>>
  <2>1. /\ Restart \in Seq(Operations) /\ Len(Restart) = 3 /\ Restart[1] = Op("stop")
        /\ Restart[2] = Op("location") /\ Restart[3] = Op("play")
    BY Programs, OpTypes, Tuples
  <2>2. w \in Seq(Operations) BY OpTypes
  <2>3. /\ Len(w) = 6 /\ w[1] = Op("stop") /\ w[2] = Op("location") /\ w[3] = Op("play")
        /\ w[4] = Op("stop") /\ w[5] = Op("location") /\ w[6] = Op("play")
    OBVIOUS
  <2> HIDE DEF w
  <2>4. /\ Len(w) = Len(Restart) + Len(Restart)
        /\ \A i \in 1..Len(Restart) : w[i] = Restart[i]
        /\ \A i \in 1..Len(Restart) : w[Len(Restart) + i] = Restart[i]
    BY <2>1, <2>3
  <2>5. Restart \o Restart = w BY <2>1, <2>2, <2>4, JoinIs, Zenon
  <2>6. QED BY <2>5 DEF w
<1>7. /\ Restart \in Seq(Operations) /\ Ops(<<"stop", "play">>) \in Seq(Operations)
      /\ Ops(<<"check">>) \in Seq(Operations) /\ <<>> \in Seq(Operations)
  <2>1. Restart \in Seq(Operations) BY Programs, OpTypes, Tuples
  <2>2. Ops(<<"stop", "play">>) \in Seq(Operations)
    <3>1. <<Op("stop"), Op("play")>> \in Seq(Operations) BY OpTypes
    <3>2. QED BY <3>1, Programs, Zenon
  <2>3. Ops(<<"check">>) \in Seq(Operations) BY Programs, OpTypes, Tuples
  <2>4. QED BY <2>1, <2>2, <2>3, EmptySeq
<1>8. /\ <<>> \o Ops(<<"stop", "play">>) = Ops(<<"stop", "play">>)
      /\ <<>> \o Restart = Restart /\ <<>> \o Ops(<<"check">>) = Ops(<<"check">>)
      /\ <<>> \o <<>> = <<>>
  BY <1>7, ConcatEmptySeq, Zenon
<1>9. OnEos = <<PutEos, Op("wait")>>
  <2>1. <<PutEos>> \o <<Op("wait")>> = <<PutEos, Op("wait")>>
    BY Join11, Zenon
  <2>2. QED BY <2>1, Programs, Zenon DEF OnEos
<1>10. OnError = <<Op("stop"), PutError>>
  <2>1. <<Op("stop")>> \o <<PutError>> = <<Op("stop"), PutError>>
    BY Join11, Zenon
  <2>2. QED BY <2>1, Programs, Zenon DEF OnError
<1>11. Ops(<<"pause">>) \o Ops(<<"check">>) = <<Op("pause"), Op("check")>>
  <2>1. <<Op("pause")>> \o <<Op("check")>> = <<Op("pause"), Op("check")>>
    BY Join11, Zenon
  <2>2. QED BY <2>1, Programs, Zenon
<1>12. ASSUME NEW n
       PROVE  \/ BufferingProgram(n) = <<Op("check")>>
              \/ BufferingProgram(n) = <<Op("pause"), Op("check")>> /\ handle
  <2>1. CASE handle /\ n \in {0, 100} BY <1>11, <2>1 DEF BufferingProgram
  <2>2. CASE ~(handle /\ n \in {0, 100}) BY <1>8, <2>2, Programs DEF BufferingProgram
  <2>3. QED BY <2>1, <2>2
<1>13. QED BY <1>1, <1>2, <1>3, <1>4, <1>5, <1>6, <1>8, <1>9, <1>10, <1>12, Programs

(* The commands of the user.                                               *)
LEMMA CommandPrograms ==
  ASSUME NEW c \in Commands
  PROVE  /\ c \in Seq(Operations) /\ c # <<>> /\ UiShape(c)
         /\ c[1].o # "rated" /\ ~HasOp(c, "rated")
         /\ \/ ~HasOp(c, "flush") /\ ~HasOp(c, "flags")
            \/ HasOp(c, "flags") /\ (May("exit_eos") \/ ~Ending)
<1> DEFINE exit == <<PutExit, Op("flags"), Op("stop"), Op("flush"), Op("alarm")>>
<1>1. <<PutExit>> \o player_exit = exit BY LongPrograms
<1>2. \/ c = <<Op("location"), Op("play")>>
      \/ c \in {<<Op("stop")>>, <<Op("pause")>>, <<Op("prev")>>}
      \/ c \in {<<[o |-> "rate", p |-> 1]>>, <<[o |-> "rate", p |-> 2]>>}
      \/ c = exit /\ (May("exit_eos") \/ ~Ending)
  BY <1>1, Programs DEF Commands
<1>3. CASE c = <<Op("location"), Op("play")>>
  <2>1. Len(c) = 2 /\ c[1].o = "location" /\ c[2].o = "play" /\ c # <<>>
    BY <1>3 DEF Op
  <2>2. c \in Seq(Operations) BY <1>3, OpTypes, Tuples
  <2>3. UiShape(c) BY <2>1 DEF UiShape, UiOps
  <2>4. QED BY <2>1, <2>2, <2>3 DEF HasOp
<1>4. CASE c \in {<<Op("stop")>>, <<Op("pause")>>, <<Op("prev")>>}
  <2>1. Len(c) = 1 /\ c[1].o \in {"stop", "pause", "prev"} /\ c # <<>>
    BY <1>4 DEF Op
  <2>2. c \in Seq(Operations)
    <3>1. \A x \in Operations : <<x>> \in Seq(Operations) OBVIOUS
    <3>2. QED BY <1>4, <3>1, OpTypes
  <2>3. UiShape(c) BY <2>1 DEF UiShape, UiOps
  <2>4. QED BY <2>1, <2>2, <2>3 DEF HasOp
<1>5. CASE c \in {<<[o |-> "rate", p |-> 1]>>, <<[o |-> "rate", p |-> 2]>>}
  <2>1. Len(c) = 1 /\ c[1].o = "rate" /\ c # <<>>
    BY <1>5
  <2>2. c \in Seq(Operations)
    <3>1. \A x \in Operations : <<x>> \in Seq(Operations) OBVIOUS
    <3>2. [o |-> "rate", p |-> 1] \in Operations BY DEF Operations
    <3>3. [o |-> "rate", p |-> 2] \in Operations BY DEF Operations
    <3>4. QED BY <1>5, <3>1, <3>2, <3>3, Zenon
  <2>3. UiShape(c) BY <2>1 DEF UiShape, UiOps
  <2>4. QED BY <2>1, <2>2, <2>3 DEF HasOp
<1>6. CASE c = exit /\ (May("exit_eos") \/ ~Ending)
  <2>1. /\ Len(c) = 5 /\ c[1] = PutExit /\ c[1].o = "put" /\ c[2].o = "flags"
        /\ c[3].o = "stop" /\ c[4].o = "flush" /\ c[5].o = "alarm" /\ c # <<>>
    BY <1>6 DEF Op, PutExit
  <2>2. c \in Seq(Operations) BY <1>6, OpTypes, Tuples
  <2>3. UiShape(c) BY <2>1 DEF UiShape, UiOps
  <2>4. HasOp(c, "flags") /\ ~HasOp(c, "rated") BY <2>1 DEF HasOp
  <2>5. QED BY <1>6, <2>1, <2>2, <2>3, <2>4
<1>7. QED BY <1>2, <1>3, <1>4, <1>5, <1>6

(* What starts another file, alone and before the message thread's check.  *)
LEMMA RestartPrograms ==
  /\ Restart \in Seq(Operations) /\ UiShape(Restart)
  /\ Restart # <<>> /\ Len(Restart) = 3
  /\ Head(Restart).o = "stop" /\ Restart[1].o = "stop" /\ Restart[2].o = "location"
  /\ \A o : HasOp(Restart, o) => o \in {"stop", "location", "play"}
<1>1. /\ Len(Restart) = 3 /\ Restart[1].o = "stop" /\ Restart[2].o = "location"
      /\ Restart[3].o = "play" /\ Restart # <<>>
  BY Programs DEF Op
<1>2. Restart \in Seq(Operations) BY Programs, OpTypes, Tuples
<1>3. UiShape(Restart) BY <1>1 DEF UiShape, UiOps
<1>4. Head(Restart).o = "stop" BY <1>1, <1>2, TailIs
<1>5. QED BY <1>1, <1>2, <1>3, <1>4 DEF HasOp

(* The program of playlist_previous.                                       *)
LEMMA PreviousPrograms ==
  ASSUME NEW S \in {Restart \o Ops(<<"stop", "play">>), Restart \o Restart,
                    <<>> \o Ops(<<"stop", "play">>), <<>> \o Restart, <<>> \o <<>>}
  PROVE  /\ S \in Seq(Operations) /\ UiShape(S)
         /\ \A o : HasOp(S, o) => o \in {"stop", "location", "play"}
         /\ S # <<>> => S[1].o = "stop"
         /\ S # <<>> /\ S # <<>> \o Ops(<<"stop", "play">>) =>
              Len(S) > 2 /\ S[2].o = "location"
<1>2. S \in Seq(Operations)
  <2>1. /\ Restart \in Seq(Operations) /\ Ops(<<"stop", "play">>) \in Seq(Operations)
        /\ <<>> \in Seq(Operations)
    <3>1. Restart \in Seq(Operations) BY Programs, OpTypes, Tuples
    <3>2. Ops(<<"stop", "play">>) \in Seq(Operations)
      <4>1. <<Op("stop"), Op("play")>> \in Seq(Operations) BY OpTypes
      <4>2. QED BY <4>1, Programs, Zenon
    <3>3. QED BY <3>1, <3>2, EmptySeq
  <2>2. \A u, v \in Seq(Operations) : u \o v \in Seq(Operations) BY ConcatProperties
  <2>3. QED BY <2>1, <2>2, Zenon
<1>3. /\ Len(S) \in {0, 2, 3, 5, 6}
      /\ \A i \in 1..Len(S) : S[i].o \in {"stop", "location", "play"}
      /\ Len(S) > 0 => S[1].o = "stop"
      /\ Len(S) > 2 => S[2].o = "location"
      /\ Len(S) = 2 => S = <<>> \o Ops(<<"stop", "play">>)
  <2>1. CASE S = <<>> \o Ops(<<"stop", "play">>)
    <3>1. S = <<Op("stop"), Op("play")>> BY <2>1, LongPrograms
    <3>2. Len(S) = 2 /\ S[1].o = "stop" /\ S[2].o = "play" BY <3>1 DEF Op
    <3>3. /\ Len(S) \in {0, 2, 3, 5, 6} /\ ~(Len(S) > 2)
          /\ \A i \in 1..Len(S) : S[i].o \in {"stop", "location", "play"}
      BY <3>2
    <3>4. QED BY <2>1, <3>2, <3>3, Zenon
  <2>2. CASE S = <<>> \o Restart
    <3>1. S = <<Op("stop"), Op("location"), Op("play")>> BY <2>2, LongPrograms
    <3>2. QED BY <3>1 DEF Op
  <2>3. CASE S = <<>> \o <<>>
    <3>1. S = <<>> BY <2>3, LongPrograms
    <3>2. QED BY <3>1
  <2>4. CASE S = Restart \o Ops(<<"stop", "play">>)
    <3>1. S = <<Op("stop"), Op("location"), Op("play"), Op("stop"), Op("play")>>
      BY <2>4, LongPrograms
    <3>2. QED BY <3>1 DEF Op
  <2>5. CASE S = Restart \o Restart
    <3>1. S = <<Op("stop"), Op("location"), Op("play"), Op("stop"), Op("location"),
                Op("play")>>
      BY <2>5, LongPrograms
    <3>2. QED BY <3>1 DEF Op
  <2>6. QED BY <2>1, <2>2, <2>3, <2>4, <2>5
<1>4. S # <<>> => Len(S) > 0 BY <1>2, <1>3, EmptySeq
<1>5. UiShape(S) BY <1>3 DEF UiShape, UiOps
<1>6. \A o : HasOp(S, o) => o \in {"stop", "location", "play"} BY <1>3 DEF HasOp
<1>7. QED BY <1>2, <1>3, <1>4, <1>5, <1>6

(* The program of the rate command.                                        *)
LEMMA RatePrograms ==
  ASSUME NEW n \in 0..100, NEW B \in {Ops(<<"pause">>), <<>>}
  PROVE  LET S == B \o Ops(<<"play">>) \o <<[o |-> "rated", p |-> n]>>
         IN /\ S \in Seq(Operations) /\ UiShape(S) /\ S[1].o \in {"pause", "play"}
            /\ \A o : HasOp(S, o) => o \in {"pause", "play", "rated"}
<1> DEFINE r == [o |-> "rated", p |-> n]
           S == B \o Ops(<<"play">>) \o <<r>>
<1>1. r \in Operations /\ r.o = "rated" BY DEF Operations
<1> HIDE DEF r
<1>2. CASE B = Ops(<<"pause">>)
  <2>1. S = <<Op("pause"), Op("play"), r>>
    <3>1. <<Op("pause")>> \o <<Op("play")>> = <<Op("pause"), Op("play")>>
      BY Join11, Zenon
    <3>2. <<Op("pause"), Op("play")>> \o <<r>> = <<Op("pause"), Op("play"), r>>
      BY Join21, Zenon
    <3>3. QED BY <1>2, <3>1, <3>2, Programs, Zenon
  <2> HIDE DEF S
  <2>2. S \in Seq(Operations) BY <1>1, <2>1, OpTypes, Tuples
  <2>3. Len(S) = 3 /\ S[1].o = "pause" /\ S[2].o = "play" /\ S[3].o = "rated"
    BY <1>1, <2>1 DEF Op
  <2>4. UiShape(S) BY <2>3 DEF UiShape, UiOps
  <2>5. \A o : HasOp(S, o) => o \in {"pause", "play", "rated"} BY <2>3 DEF HasOp
  <2>6. QED BY <2>2, <2>3, <2>4, <2>5 DEF S, r
<1>3. CASE B = <<>>
  <2>1. S = <<Op("play"), r>>
    <3>1. <<Op("play")>> \in Seq(Operations) BY OpTypes
    <3>2. B \o <<Op("play")>> = <<Op("play")>> BY <1>3, <3>1, ConcatEmptySeq, Zenon
    <3>3. <<Op("play")>> \o <<r>> = <<Op("play"), r>> BY Join11, Zenon
    <3>4. QED BY <3>2, <3>3, Programs, Zenon
  <2> HIDE DEF S
  <2>2. S \in Seq(Operations) BY <1>1, <2>1, OpTypes, Tuples
  <2>3. Len(S) = 2 /\ S[1].o = "play" /\ S[2].o = "rated"
    BY <1>1, <2>1 DEF Op
  <2>4. UiShape(S) BY <2>3 DEF UiShape, UiOps
  <2>5. \A o : HasOp(S, o) => o \in {"pause", "play", "rated"} BY <2>3 DEF HasOp
  <2>6. QED BY <2>2, <2>3, <2>4, <2>5 DEF S, r
<1>4. QED BY <1>2, <1>3

(* The work of the message thread on a message.                            *)
LEMMA MessagePrograms ==
  ASSUME NEW n, NEW S \in {EosProgram, Ops(<<"return">>),
                           player_exit \o Ops(<<"return">>), BufferingProgram(n)}
  PROVE  /\ S \in Seq(Operations) /\ S # <<>> /\ MsgShape(S)
         /\ HasOp(S, "flush") => HasOp(S, "flags")
         /\ S = EosProgram =>
              /\ HasOp(S, "post") /\ HasOp(S, "next") /\ ~HasOp(S, "flags")
         /\ S # EosProgram =>
              /\ ~HasOp(S, "post") /\ ~HasOp(S, "next")
              /\ ~HasOp(S, "location") /\ ~HasOp(S, "play")
         /\ S # EosProgram /\ (~handle \/ S # BufferingProgram(n)) => ~HasOp(S, "pause")
         /\ S \in {Ops(<<"return">>), BufferingProgram(n)} => ~HasOp(S, "flags")
         /\ S # EosProgram => S[1].o # "stop"
         /\ S = EosProgram => S \notin {Ops(<<"return">>), player_exit \o Ops(<<"return">>),
                                       BufferingProgram(n)}
<1>1. CASE S = EosProgram
  <2>1. S = <<Op("stop"), Op("post"), Op("next"), Op("check")>> BY <1>1, Programs
  <2>2. S \in Seq(Operations) /\ S # <<>> BY <2>1, OpTypes, Tuples
  <2>3. /\ Len(S) = 4 /\ S[1].o = "stop" /\ S[2].o = "post" /\ S[3].o = "next"
        /\ S[4] = Op("check") /\ S[4].o = "check"
    BY <2>1 DEF Op
  <2>4. MsgShape(S) BY <2>3 DEF MsgShape, MsgOps
  <2>5. HasOp(S, "post") /\ HasOp(S, "next") BY <2>3 DEF HasOp
  <2>6. ~HasOp(S, "flags") /\ ~HasOp(S, "flush") BY <2>3 DEF HasOp
  <2>7. /\ S # Ops(<<"return">>) /\ S # BufferingProgram(n)
        /\ S # player_exit \o Ops(<<"return">>)
    <3>1. Len(Ops(<<"return">>)) = 1 BY Programs
    <3>2. Len(BufferingProgram(n)) \in {1, 2}
      <4>1. Len(<<Op("check")>>) = 1 /\ Len(<<Op("pause"), Op("check")>>) = 2 OBVIOUS
      <4>2. QED BY <4>1, LongPrograms, Zenon
    <3>3. Len(player_exit \o Ops(<<"return">>)) = 5
      <4>1. Len(<<Op("flags"), Op("stop"), Op("flush"), Op("alarm"), Op("return")>>) = 5
        OBVIOUS
      <4>2. QED BY <4>1, LongPrograms, Zenon
    <3>4. Len(S) = 4 /\ Len(Ops(<<"return">>)) = 1 /\ Len(BufferingProgram(n)) # 4
      BY <2>3, <3>1, <3>2
    <3>5. 4 # 5 /\ 4 # 1 OBVIOUS
    <3>6. QED BY <3>3, <3>4, <3>5, Zenon
  <2>8. QED BY <1>1, <2>2, <2>4, <2>5, <2>6, <2>7, Zenon
<1>2. CASE S = Ops(<<"return">>)
  <2>1. S = <<Op("return")>> BY <1>2, Programs
  <2>2. S \in Seq(Operations) /\ S # <<>> BY <2>1, OpTypes, Tuples
  <2>3. Len(S) = 1 /\ S[1].o = "return" BY <2>1 DEF Op
  <2>4. MsgShape(S) BY <2>3 DEF MsgShape, MsgOps
  <2>5. \A o : HasOp(S, o) => o = "return" BY <2>3 DEF HasOp
  <2>6. S # EosProgram
    <3>1. Len(EosProgram) = 4 BY Programs
    <3>2. QED BY <2>3, <3>1
  <2>7. QED BY <2>2, <2>3, <2>4, <2>5, <2>6
<1>3. CASE S = player_exit \o Ops(<<"return">>)
  <2>1. S = <<Op("flags"), Op("stop"), Op("flush"), Op("alarm"), Op("return")>>
    BY <1>3, LongPrograms
  <2>2. S \in Seq(Operations) /\ S # <<>> BY <2>1, OpTypes, Tuples
  <2>3. /\ Len(S) = 5 /\ S[1].o = "flags" /\ S[2].o = "stop" /\ S[3].o = "flush"
        /\ S[4].o = "alarm" /\ S[5].o = "return"
    BY <2>1 DEF Op
  <2>4. MsgShape(S) BY <2>3 DEF MsgShape, MsgOps
  <2>5. HasOp(S, "flags") BY <2>3 DEF HasOp
  <2>6. \A o : HasOp(S, o) => o \in {"flags", "stop", "flush", "alarm", "return"}
    BY <2>3 DEF HasOp
  <2>7. S # EosProgram /\ S # Ops(<<"return">>) /\ S # BufferingProgram(n)
    <3>1. Len(Ops(<<"return">>)) = 1 /\ Len(EosProgram) = 4 BY Programs
    <3>2. Len(BufferingProgram(n)) \in {1, 2}
      <4>1. Len(<<Op("check")>>) = 1 /\ Len(<<Op("pause"), Op("check")>>) = 2 OBVIOUS
      <4>2. QED BY <4>1, LongPrograms, Zenon
    <3>3. QED BY <2>3, <3>1, <3>2
  <2>8. /\ S[1].o # "stop" /\ ~HasOp(S, "post") /\ ~HasOp(S, "next")
        /\ ~HasOp(S, "location") /\ ~HasOp(S, "play") /\ ~HasOp(S, "pause")
    BY <2>3 DEF HasOp
  <2>9. QED BY <2>2, <2>4, <2>5, <2>7, <2>8, Zenon
<1>4. CASE S = BufferingProgram(n)
  <2>1. \/ S = <<Op("check")>>
        \/ S = <<Op("pause"), Op("check")>> /\ handle
    BY <1>4, LongPrograms
  <2>2. S \in Seq(Operations) /\ S # <<>>
    <3>1. CASE S = <<Op("check")>> BY <3>1, OpTypes, Tuples
    <3>2. CASE S = <<Op("pause"), Op("check")>> BY <3>2, OpTypes, Tuples
    <3>3. QED BY <2>1, <3>1, <3>2
  <2>3. \/ Len(S) = 1 /\ S[1].o = "check"
        \/ Len(S) = 2 /\ S[1].o = "pause" /\ S[2].o = "check" /\ handle
    BY <2>1 DEF Op
  <2>4. MsgShape(S)
    <3>1. CASE Len(S) = 1 /\ S[1].o = "check" BY <3>1 DEF MsgShape, MsgOps
    <3>2. CASE Len(S) = 2 /\ S[1].o = "pause" /\ S[2].o = "check"
      BY <3>2 DEF MsgShape, MsgOps
    <3>3. QED BY <2>3, <3>1, <3>2
  <2>5. \A o : HasOp(S, o) => o = "check" \/ (o = "pause" /\ handle)
    BY <2>3 DEF HasOp
  <2>6. S # EosProgram
    <3>1. Len(EosProgram) = 4 BY Programs
    <3>2. QED BY <2>3, <3>1
  <2>7. /\ ~HasOp(S, "flush") /\ ~HasOp(S, "flags") /\ ~HasOp(S, "post")
        /\ ~HasOp(S, "next") /\ ~HasOp(S, "location") /\ ~HasOp(S, "play")
        /\ ~handle => ~HasOp(S, "pause")
    BY <2>5
  <2>8. S[1].o # "stop" BY <2>3
  <2>9. QED BY <1>4, <2>2, <2>4, <2>6, <2>7, <2>8, Zenon
<1>5. QED BY <1>1, <1>2, <1>3, <1>4

(* The work of the message thread after the end of a file: player_exit or  *)
(* the next file.                                                          *)
LEMMA NextPrograms ==
  ASSUME NEW S \in {player_exit \o <<Op("check")>>, Restart \o <<Op("check")>>}
  PROVE  /\ S \in Seq(Operations) /\ S # <<>> /\ MsgShape(S)
         /\ HasOp(S, "flush") => HasOp(S, "flags")
         /\ ~HasOp(S, "post") /\ ~HasOp(S, "next") /\ ~HasOp(S, "pause")
         /\ S = Restart \o <<Op("check")>> =>
              /\ ~HasOp(S, "flags") /\ Len(S) = 4
              /\ S[1].o = "stop" /\ S[2].o = "location"
<1>1. CASE S = player_exit \o <<Op("check")>>
  <2>1. S = <<Op("flags"), Op("stop"), Op("flush"), Op("alarm"), Op("check")>>
    BY <1>1, LongPrograms
  <2>2. S \in Seq(Operations) /\ S # <<>> BY <2>1, OpTypes, Tuples
  <2>3. /\ Len(S) = 5 /\ S[1].o = "flags" /\ S[2].o = "stop" /\ S[3].o = "flush"
        /\ S[4].o = "alarm" /\ S[5].o = "check"
    BY <2>1 DEF Op
  <2>4. MsgShape(S) BY <2>3 DEF MsgShape, MsgOps
  <2>5. HasOp(S, "flags") BY <2>3 DEF HasOp
  <2>6. \A o : HasOp(S, o) => o \in {"flags", "stop", "flush", "alarm", "check"}
    BY <2>3 DEF HasOp
  <2>7. S # Restart \o <<Op("check")>>
    <3>1. Restart \o <<Op("check")>> =
            <<Op("stop"), Op("location"), Op("play"), Op("check")>>
      BY LongPrograms
    <3>2. Len(Restart \o <<Op("check")>>) = 4
      <4>1. Len(<<Op("stop"), Op("location"), Op("play"), Op("check")>>) = 4 OBVIOUS
      <4>2. QED BY <3>1, <4>1, Zenon
    <3>3. QED BY <2>3, <3>2, Zenon
  <2>8. ~HasOp(S, "post") /\ ~HasOp(S, "next") /\ ~HasOp(S, "pause")
    BY <2>3 DEF HasOp
  <2>9. QED BY <2>2, <2>4, <2>5, <2>7, <2>8, Zenon
<1>2. CASE S = Restart \o <<Op("check")>>
  <2>1. S = <<Op("stop"), Op("location"), Op("play"), Op("check")>>
    BY <1>2, LongPrograms
  <2>2. S \in Seq(Operations) /\ S # <<>> BY <2>1, OpTypes, Tuples
  <2>3. /\ Len(S) = 4 /\ S[1].o = "stop" /\ S[2].o = "location" /\ S[3].o = "play"
        /\ S[4].o = "check"
    BY <2>1 DEF Op
  <2>4. MsgShape(S) BY <2>3 DEF MsgShape, MsgOps
  <2>5. \A o : HasOp(S, o) => o \in {"stop", "location", "play", "check"}
    BY <2>3 DEF HasOp
  <2>6. /\ ~HasOp(S, "flush") /\ ~HasOp(S, "flags") /\ ~HasOp(S, "post")
        /\ ~HasOp(S, "next") /\ ~HasOp(S, "pause")
    BY <2>5
  <2>7. QED BY <2>2, <2>3, <2>4, <2>6, Zenon
<1>3. QED BY <1>1, <1>2

(* What the callback of the bus has to do for a message.                   *)
LEMMA BusPrograms ==
  ASSUME NEW n \in 0..100, NEW S \in {OnEos, OnError, <<[o |-> "buffered", p |-> n]>>}
  PROVE  /\ S \in Seq(Operations) /\ LoopShape(S)
         /\ ~HasOp(S, "flush") /\ ~HasOp(S, "flags")
         /\ \A i \in 1..Len(S) : S[i] = PutEos => S = OnEos
         /\ \A i \in 1..Len(S) : S[i] = PutError => S = OnError
         /\ S # <<>> /\ S[1].o # "wait"
         /\ HasOp(S, "wait") => S = OnEos
<1>0. PutEos.o = "put" /\ PutError.o = "put" /\ PutEos # PutError
  <2>1. PutEos.p = 0 /\ PutError.p = 1 BY DEF PutEos, PutError
  <2>2. QED BY <2>1 DEF PutEos, PutError
<1>1. CASE S = OnEos
  <2>1. S = <<PutEos, Op("wait")>> BY <1>1, LongPrograms
  <2>2. S \in Seq(Operations) /\ S # <<>> BY <2>1, OpTypes, Tuples
  <2>3. Len(S) = 2 /\ S[1] = PutEos /\ S[1].o = "put" /\ S[2].o = "wait"
    BY <1>0, <2>1 DEF Op
  <2>4. LoopShape(S) BY <1>0, <2>3 DEF LoopShape, LoopOps
  <2>5. \A i \in 1..Len(S) : S[i] # PutError BY <1>0, <2>3
  <2>6. \A o : HasOp(S, o) => o \in {"put", "wait"} BY <2>3 DEF HasOp
  <2>7. QED BY <1>1, <2>2, <2>3, <2>4, <2>5, <2>6
<1>2. CASE S = OnError
  <2>1. S = <<Op("stop"), PutError>> BY <1>2, LongPrograms
  <2>2. S \in Seq(Operations) /\ S # <<>> BY <2>1, OpTypes, Tuples
  <2>3. Len(S) = 2 /\ S[1].o = "stop" /\ S[2] = PutError /\ S[2].o = "put"
    BY <1>0, <2>1 DEF Op
  <2>4. LoopShape(S) BY <1>0, <2>3 DEF LoopShape, LoopOps
  <2>5. \A i \in 1..Len(S) : S[i] # PutEos BY <1>0, <2>3
  <2>6. \A o : HasOp(S, o) => o \in {"put", "stop"} BY <2>3 DEF HasOp
  <2>7. QED BY <1>2, <2>2, <2>3, <2>4, <2>5, <2>6
<1>3. CASE S = <<[o |-> "buffered", p |-> n]>>
  <2>2. S \in Seq(Operations) /\ S # <<>> BY <1>3 DEF Operations
  <2>3. Len(S) = 1 /\ S[1].o = "buffered" BY <1>3
  <2>4. LoopShape(S) BY <1>0, <2>3 DEF LoopShape, LoopOps
  <2>5. \A i \in 1..Len(S) : S[i] # PutEos /\ S[i] # PutError BY <1>0, <2>3
  <2>6. \A o : HasOp(S, o) => o = "buffered" BY <2>3 DEF HasOp
  <2>7. QED BY <2>2, <2>3, <2>4, <2>5, <2>6
<1>4. QED BY <1>1, <1>2, <1>3

-----------------------------------------------------------------------------
(* The operation that a thread is at.                                      *)
LEMMA HeadIs ==
  ASSUME TypeOK, Shapes, NEW t \in Threads, NEW o, Does(t, o)
  PROVE  /\ todo[t] \in Seq(Operations) /\ todo[t] # <<>> /\ Len(todo[t]) \in Nat \ {0}
         /\ Head(todo[t]) = todo[t][1] /\ todo[t][1] \in Operations /\ todo[t][1].o = o
         /\ Has(t, o)
         /\ t = "ui" => o \in UiOps
         /\ t = "msg" => o \in MsgOps
         /\ t = "loop" => o \in LoopOps
         /\ o \in {"rate", "prev"} => t = "ui" /\ Len(todo[t]) = 1
         /\ t = "msg" /\ o \in {"check", "get", "return"} => Len(todo[t]) = 1
<1>1. todo[t] \in Seq(Operations) BY DEF TypeOK
<1>2. todo[t] # <<>> /\ Head(todo[t]).o = o BY DEF Does
<1>3. /\ Len(todo[t]) \in Nat \ {0} /\ Head(todo[t]) = todo[t][1]
      /\ todo[t][1] \in Operations
  BY <1>1, <1>2, TailIs
<1>4. 1 \in 1..Len(todo[t]) BY <1>3
<1>5. Has(t, o) BY <1>2, <1>3, <1>4 DEF Has
<1>6. t = "ui" => o \in UiOps /\ (o \in {"rate", "prev"} => Len(todo[t]) = 1)
  BY <1>2, <1>3, <1>4 DEF Shapes, UiShape
<1>7. t = "msg" =>
        o \in MsgOps /\ (o \in {"check", "get", "return"} => 1 = Len(todo[t]))
  BY <1>2, <1>3, <1>4 DEF Shapes, MsgShape
<1>8. t = "loop" => o \in LoopOps
  BY <1>2, <1>3, <1>4 DEF Shapes, LoopShape
<1>9. t \in {"ui", "msg", "loop"} BY DEF Threads
<1>10. o \in {"rate", "prev"} => o \notin MsgOps /\ o \notin LoopOps
  BY DEF MsgOps, LoopOps
<1>11. QED BY <1>1, <1>2, <1>3, <1>5, <1>6, <1>7, <1>8, <1>9, <1>10

(* The rate command becomes its parts.                                     *)
LEMMA RateStartIs ==
  ASSUME TypeOK, Shapes, NEW t \in Threads, RateStart(t)
  PROVE  /\ t = "ui" /\ todo["ui"] # <<>>
         /\ \E S \in Seq(Operations) :
              /\ todo' = [todo EXCEPT !["ui"] = S]
              /\ UiShape(S) /\ S[1].o \in {"pause", "play"}
              /\ \A o : HasOp(S, o) => o \in {"pause", "play", "rated"}
<1> DEFINE n == Head(todo[t]).p
           B == IF pstate = "PLAYING" THEN Ops(<<"pause">>) ELSE <<>>
           S == B \o Ops(<<"play">>) \o <<[o |-> "rated", p |-> n]>>
<1>1. Does(t, "rate") /\ Then(t, S) BY DEF RateStart
<1>2. t = "ui" /\ Len(todo[t]) = 1 /\ todo[t] # <<>> /\ Head(todo[t]) \in Operations
  BY <1>1, HeadIs
<1>3. n \in 0..100 BY <1>2 DEF Operations
<1>4. B \in {Ops(<<"pause">>), <<>>} OBVIOUS
<1> HIDE DEF n, B
<1>5. /\ S \in Seq(Operations) /\ UiShape(S) /\ S[1].o \in {"pause", "play"}
      /\ \A o : HasOp(S, o) => o \in {"pause", "play", "rated"}
  BY <1>3, <1>4, RatePrograms
<1> HIDE DEF S
<1>6. todo' = [todo EXCEPT ![t] = S] BY <1>1, <1>2, <1>5, ThenIs
<1>7. QED BY <1>2, <1>5, <1>6

(* playlist_previous moves to another file and starts it, once or twice,   *)
(* or leaves the file.                                                     *)
LEMMA PreviousIs ==
  ASSUME TypeOK, Shapes, NEW t \in Threads, playlist_previous(t)
  PROVE  /\ t = "ui" /\ todo["ui"] # <<>> /\ cur' \in 1..NItems
         /\ \E S \in Seq(Operations) :
              /\ todo' = [todo EXCEPT !["ui"] = S]
              /\ UiShape(S)
              /\ \A o : HasOp(S, o) => o \in {"stop", "location", "play"}
              /\ cur' # cur =>
                   S # <<>> /\ S[1].o = "stop" /\ Len(S) > 2 /\ S[2].o = "location"
<1> DEFINE first == repeat = "PLAYLIST" /\ cur = 1
           A == IF cur > 1 THEN Restart ELSE <<>>
           B == IF repeat = "CURRENT" THEN Ops(<<"stop", "play">>)
                ELSE IF cur > 1 \/ first THEN Restart ELSE <<>>
           S == A \o B
<1>1. Does(t, "prev") /\ Then(t, S) BY DEF playlist_previous
<1>2. t = "ui" /\ Len(todo[t]) = 1 /\ todo[t] # <<>> BY <1>1, HeadIs
<1>3. cur' = IF cur > 1 THEN cur - 1 ELSE IF first THEN NItems ELSE cur
  BY DEF playlist_previous
<1>4. cur' \in 1..NItems BY <1>3, PlayAssumption DEF TypeOK
<1>5. cur' # cur => A = Restart \/ (A = <<>> /\ B = Restart)
  BY <1>3 DEF TypeOK
<1>6. /\ (A = Restart /\ cur > 1) \/ (A = <<>> /\ ~(cur > 1))
      /\ B \in {Ops(<<"stop", "play">>), Restart, <<>>} /\ (cur > 1 => B # <<>>)
  <2>1. Restart # <<>> BY RestartPrograms
  <2>2. Ops(<<"stop", "play">>) # <<>>
    <3>1. <<Op("stop"), Op("play")>> # <<>> OBVIOUS
    <3>2. QED BY <3>1, Programs, Zenon
  <2>3. (A = Restart /\ cur > 1) \/ (A = <<>> /\ ~(cur > 1)) BY Zenon
  <2>4. B \in {Ops(<<"stop", "play">>), Restart, <<>>} BY Zenon
  <2>5. cur > 1 => B \in {Ops(<<"stop", "play">>), Restart} BY Zenon
  <2> HIDE DEF A, B
  <2>6. QED BY <2>1, <2>2, <2>3, <2>4, <2>5, Zenon
<1> HIDE DEF A, B
<1>7. S \in {Restart \o Ops(<<"stop", "play">>), Restart \o Restart,
             <<>> \o Ops(<<"stop", "play">>), <<>> \o Restart, <<>> \o <<>>}
  BY <1>6, Zenon
<1>8. /\ S \in Seq(Operations) /\ UiShape(S)
      /\ \A o : HasOp(S, o) => o \in {"stop", "location", "play"}
      /\ S # <<>> => S[1].o = "stop"
      /\ S # <<>> /\ S # <<>> \o Ops(<<"stop", "play">>) =>
           Len(S) > 2 /\ S[2].o = "location"
  BY <1>7, PreviousPrograms, Zenon
<1>9. cur' # cur => S # <<>> /\ S # <<>> \o Ops(<<"stop", "play">>)
  <2>1. /\ Len(<<>>) = 0 /\ Len(<<Op("stop"), Op("play")>>) = 2
        /\ Len(<<Op("stop"), Op("location"), Op("play")>>) = 3
        /\ Len(<<Op("stop"), Op("location"), Op("play"), Op("stop"), Op("play")>>) = 5
        /\ Len(<<Op("stop"), Op("location"), Op("play"), Op("stop"), Op("location"),
                 Op("play")>>) = 6
    OBVIOUS
  <2>2. /\ Len(<<>> \o Ops(<<"stop", "play">>)) = 2 /\ Len(<<>> \o Restart) = 3
        /\ Len(Restart \o Ops(<<"stop", "play">>)) = 5 /\ Len(Restart \o Restart) = 6
    BY <2>1, LongPrograms, Zenon
  <2>3. Restart # <<>> BY RestartPrograms
  <2>4. cur' # cur =>
          S \in {Restart \o Ops(<<"stop", "play">>), Restart \o Restart, <<>> \o Restart}
    BY <1>5, <1>6, <2>3, Zenon
  <2>5. cur' # cur => Len(S) \in {3, 5, 6} BY <2>2, <2>4, Zenon
  <2> HIDE DEF S
  <2>6. cur' # cur => Len(S) # 0 /\ Len(S) # 2
    <3>1. \A n \in {3, 5, 6} : n # 0 /\ n # 2 OBVIOUS
    <3>2. QED BY <2>5, <3>1, Zenon
  <2>7. QED BY <2>1, <2>2, <2>6, Zenon
<1> HIDE DEF S
<1>10. todo' = [todo EXCEPT ![t] = S] BY <1>1, <1>2, <1>8, ThenIs
<1>11. QED BY <1>2, <1>4, <1>8, <1>9, <1>10

(* playlist_next moves to a file of the list.                              *)
LEMMA CursorStays ==
  ASSUME TypeOK, playlist_next
  PROVE  cur' \in 1..NItems /\ times' \in Int
<1>1. /\ cur' = IF NextItem = 0 THEN cur ELSE NextItem
      /\ times' \in {times - 1, times}
  BY DEF playlist_next
<1>2. cur \in 1..NItems /\ NItems \in Nat /\ times \in Int BY PlayAssumption DEF TypeOK
<1>3. NextItem \in {0, 1, cur} \/ (NextItem = cur + 1 /\ cur < NItems) BY DEF NextItem
<1>4. cur' \in 1..NItems
  <2>1. CASE NextItem = 0 BY <1>1, <1>2, <2>1
  <2>2. CASE NextItem # 0 BY <1>1, <1>2, <1>3, <2>2
  <2>3. QED BY <2>1, <2>2
<1>5. times' \in Int BY <1>1, <1>2
<1>6. QED BY <1>4, <1>5

(* The message thread looks whether it has to end.                         *)
LEMMA MsgCheckIs ==
  ASSUME TypeOK, Shapes, MsgCheck
  PROVE  /\ todo["msg"] # <<>>
         /\ \/ leave /\ lives' = lives \ {"msg"} /\ Done("msg") /\ Tail(todo["msg"]) = <<>>
            \/ /\ UNCHANGED lives /\ todo' = [todo EXCEPT !["msg"] = Ops(<<"get">>)]
         /\ Ops(<<"get">>) \in Seq(Operations) /\ MsgShape(Ops(<<"get">>))
         /\ \A o : HasOp(Ops(<<"get">>), o) => o = "get"
<1>1. Does("msg", "check") BY DEF MsgCheck
<1>2. "msg" \in Threads BY DEF Threads
<1>3. /\ Len(todo["msg"]) = 1 /\ todo["msg"] # <<>> /\ todo["msg"] \in Seq(Operations)
  BY <1>1, <1>2, HeadIs
<1>4. Tail(todo["msg"]) = <<>>
  <2>1. Len(Tail(todo["msg"])) = 0 /\ Tail(todo["msg"]) \in Seq(Operations)
    BY <1>3, TailIs
  <2>2. QED BY <2>1, EmptySeq
<1>5. Ops(<<"get">>) = <<Op("get")>> BY Programs
<1>6. Ops(<<"get">>) \in Seq(Operations)
  <2>1. <<Op("get")>> \in Seq(Operations) BY OpTypes
  <2>2. QED BY <1>5, <2>1, Zenon
<1>7. Len(Ops(<<"get">>)) = 1 /\ Ops(<<"get">>)[1].o = "get" BY <1>5 DEF Op
<1>8. /\ MsgShape(Ops(<<"get">>))
      /\ \A o : HasOp(Ops(<<"get">>), o) => o = "get"
  <2> DEFINE S == Ops(<<"get">>)
  <2>1. Len(S) = 1 /\ S[1].o = "get" BY <1>7
  <2> HIDE DEF S
  <2>2. MsgShape(S) BY <2>1 DEF MsgShape, MsgOps
  <2>3. \A o : HasOp(S, o) => o = "get" BY <2>1 DEF HasOp
  <2>4. QED BY <2>2, <2>3 DEF S
<1>10. CASE leave BY <1>3, <1>4, <1>6, <1>8, <1>10 DEF MsgCheck
<1>11. CASE ~leave
  <2>1. UNCHANGED lives /\ Then("msg", Ops(<<"get">>)) BY <1>11 DEF MsgCheck
  <2>2. todo' = [todo EXCEPT !["msg"] = Ops(<<"get">>)]
    BY <1>2, <1>3, <1>6, <2>1, ThenIs
  <2>3. QED BY <1>3, <1>6, <1>8, <2>1, <2>2
<1>12. QED BY <1>10, <1>11

(* The message thread takes a message and gets its work.                   *)
LEMMA MsgGetIs ==
  ASSUME TypeOK, Shapes, MsgGet
  PROVE  /\ todo["msg"] # <<>> /\ queue # <<>> /\ queue' = Tail(queue)
         /\ ~Has("msg", "post") /\ ~Has("msg", "next")
         /\ \E S \in Seq(Operations) :
              /\ todo' = [todo EXCEPT !["msg"] = S]
              /\ S # <<>> /\ MsgShape(S)
              /\ HasOp(S, "flush") => HasOp(S, "flags")
              /\ HasOp(S, "flags") => Head(queue).o = "ERROR"
              /\ Head(queue).o = "EOS" => HasOp(S, "post") /\ HasOp(S, "next")
              /\ Head(queue).o # "EOS" =>
                   /\ ~HasOp(S, "post") /\ ~HasOp(S, "next")
                   /\ ~HasOp(S, "location") /\ ~HasOp(S, "play")
                   /\ S[1].o # "stop"
                   /\ ~handle => ~HasOp(S, "pause")
<1>1. Does("msg", "get") /\ queue # <<>> /\ queue' = Tail(queue) BY DEF MsgGet
<1>2. "msg" \in Threads BY DEF Threads
<1>3. Len(todo["msg"]) = 1 /\ todo["msg"] # <<>> /\ todo["msg"][1].o = "get"
  BY <1>1, <1>2, HeadIs
<1>4. ~Has("msg", "post") /\ ~Has("msg", "next") BY <1>3 DEF Has
<1> DEFINE m == Head(queue)
           S == CASE m.o = "EOS" -> EosProgram
                  [] m.o = "EXIT" -> Ops(<<"return">>)
                  [] m.o = "ERROR" -> player_exit \o Ops(<<"return">>)
                  [] OTHER -> BufferingProgram(m.p)
<1>5. Then("msg", S) BY DEF MsgGet
<1>6. \/ m.o = "EOS" /\ S = EosProgram
      \/ m.o = "EXIT" /\ S = Ops(<<"return">>)
      \/ m.o = "ERROR" /\ S = player_exit \o Ops(<<"return">>)
      \/ m.o \notin {"EOS", "EXIT", "ERROR"} /\ S = BufferingProgram(m.p)
  OBVIOUS
<1> HIDE DEF S
<1>7. S \in {EosProgram, Ops(<<"return">>), player_exit \o Ops(<<"return">>),
             BufferingProgram(m.p)}
  BY <1>6
<1>8. /\ S \in Seq(Operations) /\ S # <<>> /\ MsgShape(S)
      /\ HasOp(S, "flush") => HasOp(S, "flags")
      /\ S = EosProgram =>
           /\ HasOp(S, "post") /\ HasOp(S, "next") /\ ~HasOp(S, "flags")
      /\ S # EosProgram =>
           /\ ~HasOp(S, "post") /\ ~HasOp(S, "next")
           /\ ~HasOp(S, "location") /\ ~HasOp(S, "play")
      /\ S # EosProgram /\ ~handle => ~HasOp(S, "pause")
      /\ S \in {Ops(<<"return">>), BufferingProgram(m.p)} => ~HasOp(S, "flags")
      /\ S # EosProgram => S[1].o # "stop"
      /\ S = EosProgram => S \notin {Ops(<<"return">>), player_exit \o Ops(<<"return">>),
                                    BufferingProgram(m.p)}
  BY <1>7, MessagePrograms, Zenon
<1>9. m.o # "EOS" => S # EosProgram BY <1>6, <1>8, Zenon
<1>10. todo' = [todo EXCEPT !["msg"] = S] BY <1>2, <1>3, <1>5, <1>8, ThenIs
<1>11. QED BY <1>1, <1>3, <1>4, <1>6, <1>8, <1>9, <1>10

(* After the end of a file the message thread leaves or starts a file.     *)
LEMMA MsgNextIs ==
  ASSUME TypeOK, Shapes, MsgNext
  PROVE  /\ todo["msg"] # <<>> /\ Has("msg", "next") /\ todo["msg"][1].o = "next"
         /\ \E S \in Seq(Operations) :
              /\ todo' = [todo EXCEPT !["msg"] = S]
              /\ S # <<>> /\ MsgShape(S)
              /\ HasOp(S, "flush") => HasOp(S, "flags")
              /\ ~HasOp(S, "post") /\ ~HasOp(S, "next") /\ ~HasOp(S, "pause")
              /\ HasOp(S, "flags") => NextItem = 0
              /\ NextItem # 0 => Len(S) = 4 /\ S[1].o = "stop" /\ S[2].o = "location"
<1>1. Does("msg", "next") /\ Then("msg", NextProgram) BY DEF MsgNext
<1>2. "msg" \in Threads BY DEF Threads
<1>3. /\ todo["msg"] \in Seq(Operations) /\ todo["msg"] # <<>> /\ Has("msg", "next")
      /\ todo["msg"][1].o = "next" /\ Len(todo["msg"]) \in Nat \ {0}
  BY <1>1, <1>2, HeadIs
<1>4. Len(todo["msg"]) = 2 /\ todo["msg"][2] = Op("check")
  <2>1. 1 \in 1..Len(todo["msg"]) BY <1>3
  <2>2. 1 + 1 = Len(todo["msg"]) /\ todo["msg"][1 + 1] = Op("check")
    BY <1>3, <2>1 DEF Shapes, MsgShape
  <2>3. QED BY <2>2
<1>5. Tail(todo["msg"]) = <<Op("check")>>
  <2>1. /\ Tail(todo["msg"]) \in Seq(Operations) /\ Len(Tail(todo["msg"])) = 1
        /\ Tail(todo["msg"])[1] = Op("check")
    BY <1>3, <1>4, TailIs
  <2>2. <<Op("check")>> \in Seq(Operations) BY OpTypes
  <2>3. Len(<<Op("check")>>) = 1 /\ <<Op("check")>>[1] = Op("check") OBVIOUS
  <2>4. \A i \in 1..1 : Tail(todo["msg"])[i] = <<Op("check")>>[i] BY <2>1, <2>3
  <2>5. QED BY <2>1, <2>2, <2>3, <2>4, SeqEqual, Zenon
<1> DEFINE S == NextProgram \o <<Op("check")>>
<1>6. todo' = [todo EXCEPT !["msg"] = S] BY <1>1, <1>5 DEF Then
<1>7. CASE NextItem = 0
  <2>1. S = player_exit \o <<Op("check")>> BY <1>7, Zenon DEF NextProgram
  <2> HIDE DEF S
  <2>2. S \in {player_exit \o <<Op("check")>>, Restart \o <<Op("check")>>}
    BY <2>1, Zenon
  <2>3. /\ S \in Seq(Operations) /\ S # <<>> /\ MsgShape(S)
        /\ HasOp(S, "flush") => HasOp(S, "flags")
        /\ ~HasOp(S, "post") /\ ~HasOp(S, "next") /\ ~HasOp(S, "pause")
    BY <2>2, NextPrograms, Zenon
  <2>4. QED BY <1>3, <1>6, <1>7, <2>3, Zenon
<1>8. CASE NextItem # 0
  <2>1. S = Restart \o <<Op("check")>> BY <1>8, Zenon DEF NextProgram
  <2> HIDE DEF S
  <2>2. S \in {player_exit \o <<Op("check")>>, Restart \o <<Op("check")>>}
    BY <2>1, Zenon
  <2>3. /\ S \in Seq(Operations) /\ S # <<>> /\ MsgShape(S)
        /\ HasOp(S, "flush") => HasOp(S, "flags")
        /\ ~HasOp(S, "post") /\ ~HasOp(S, "next") /\ ~HasOp(S, "pause")
        /\ ~HasOp(S, "flags") /\ Len(S) = 4 /\ S[1].o = "stop" /\ S[2].o = "location"
    BY <2>1, <2>2, NextPrograms, Zenon
  <2>4. QED BY <1>3, <1>6, <1>8, <2>3, Zenon
<1>9. QED BY <1>7, <1>8

(* The callback of the bus takes a message and gets its work.              *)
LEMMA BusIs ==
  ASSUME TypeOK, Shapes, my_bus_callback
  PROVE  /\ todo["loop"] = <<>> /\ bus # <<>> /\ bus' = Tail(bus)
         /\ \E S \in Seq(Operations) :
              /\ todo' = [todo EXCEPT !["loop"] = S]
              /\ LoopShape(S) /\ ~HasOp(S, "flush") /\ ~HasOp(S, "flags")
              /\ S # <<>> /\ S[1].o # "wait"
              /\ \A i \in 1..Len(S) : S[i] = PutEos => Head(bus).o = "EOS"
              /\ \A i \in 1..Len(S) : S[i] = PutError => Head(bus).o = "ERROR"
              /\ HasOp(S, "wait") => Head(bus).o = "EOS"
<1>1. todo["loop"] = <<>> /\ bus # <<>> /\ bus' = Tail(bus) BY DEF my_bus_callback
<1>2. Head(bus) \in Messages BY <1>1, TailIs DEF TypeOK
<1> DEFINE m == Head(bus)
           S == CASE m.o = "EOS" -> OnEos [] m.o = "ERROR" -> OnError
                  [] OTHER -> <<[o |-> "buffered", p |-> m.p]>>
<1>3. todo' = [todo EXCEPT !["loop"] = S] BY DEF my_bus_callback
<1>4. m.p \in 0..100 BY <1>2 DEF Messages, Op
<1>5. \/ m.o = "EOS" /\ S = OnEos
      \/ m.o = "ERROR" /\ S = OnError
      \/ m.o \notin {"EOS", "ERROR"} /\ S = <<[o |-> "buffered", p |-> m.p]>>
  OBVIOUS
<1> HIDE DEF S
<1>6. S \in {OnEos, OnError, <<[o |-> "buffered", p |-> m.p]>>} BY <1>5
<1>7. /\ S \in Seq(Operations) /\ LoopShape(S)
      /\ ~HasOp(S, "flush") /\ ~HasOp(S, "flags")
      /\ \A i \in 1..Len(S) : S[i] = PutEos => S = OnEos
      /\ \A i \in 1..Len(S) : S[i] = PutError => S = OnError
      /\ S # <<>> /\ S[1].o # "wait"
      /\ HasOp(S, "wait") => S = OnEos
  BY <1>4, <1>6, BusPrograms, Zenon
<1>8. S = OnEos => m.o = "EOS"
  <2>1. /\ OnEos[1].o = "put" /\ OnError[1].o = "stop"
        /\ <<[o |-> "buffered", p |-> m.p]>>[1].o = "buffered"
    BY LongPrograms DEF Op, PutEos
  <2>2. QED BY <1>5, <2>1
<1>9. S = OnError => m.o = "ERROR"
  <2>1. /\ OnEos[1].o = "put" /\ OnError[1].o = "stop"
        /\ <<[o |-> "buffered", p |-> m.p]>>[1].o = "buffered"
    BY LongPrograms DEF Op, PutEos
  <2>2. QED BY <1>5, <2>1
<1>10. QED BY <1>1, <1>3, <1>7, <1>8, <1>9, Zenon

-----------------------------------------------------------------------------
(* Types and shapes are kept by every operation.                           *)
LEMMA BaseInvariant == Spec => []BaseInv
<1>1. Init => BaseInv
  <2> SUFFICES ASSUME Init PROVE BaseInv OBVIOUS
  <2>1. /\ todo["ui"] = <<Op("location"), Op("play")>> /\ todo["msg"] = <<Op("check")>>
        /\ todo["loop"] = <<>> /\ todo \in [Threads -> Seq(Operations)]
    <3>1. /\ todo["ui"] = Ops(<<"location", "play">>) /\ todo["msg"] = Ops(<<"check">>)
          /\ todo["loop"] = <<>> /\ DOMAIN todo = Threads
          /\ todo = [t \in Threads |-> todo[t]]
      BY DEF Init, Threads
    <3>2. /\ <<Op("location"), Op("play")>> \in Seq(Operations)
          /\ <<Op("check")>> \in Seq(Operations) /\ <<>> \in Seq(Operations)
      BY OpTypes
    <3>3. todo["ui"] = <<Op("location"), Op("play")>> /\ todo["msg"] = <<Op("check")>>
      BY <3>1, Programs, Zenon
    <3>4. \A t \in Threads : todo[t] \in Seq(Operations)
      BY <3>1, <3>2, <3>3, Zenon DEF Threads
    <3>5. QED BY <3>1, <3>3, <3>4
  <2>2. TypeOK
    <3>1. /\ repeat \in {"NONE", "PLAYLIST", "CURRENT"} /\ times \in Int
          /\ handle \in BOOLEAN
      BY PlayAssumption DEF Init, PlayOptions
    <3>2. /\ bus \in Seq(Messages) /\ queue \in Seq(Messages) /\ sem \in Nat
          /\ cmds = 0 /\ plays = 0 /\ bufs = 0 /\ uri = 0 /\ active = 0 /\ cur = 1
      BY DEF Init
    <3>3. uri \in 0..NItems /\ active \in 0..NItems /\ cur \in 1..NItems
      BY <3>2, PlayAssumption
    <3>4. {cmds, plays, bufs} \subseteq Nat BY <3>2
    <3>5. QED BY <2>1, <3>1, <3>2, <3>3, <3>4 DEF Init, TypeOK
  <2>3. /\ Len(todo["ui"]) = 2 /\ todo["ui"][1].o = "location" /\ todo["ui"][2].o = "play"
        /\ Len(todo["msg"]) = 1 /\ todo["msg"][1].o = "check" /\ Len(todo["loop"]) = 0
    BY <2>1 DEF Op
  <2>4. UiShape(todo["ui"]) BY <2>3 DEF UiShape, UiOps
  <2>5. MsgShape(todo["msg"]) BY <2>3 DEF MsgShape, MsgOps
  <2>6. LoopShape(todo["loop"]) BY <2>3 DEF LoopShape
  <2>7. FlagsFirst BY <2>3 DEF FlagsFirst, Has, Threads
  <2>8. Ended BY DEF Init, Ended, Threads
  <2>9. QED BY <2>2, <2>4, <2>5, <2>6, <2>7, <2>8 DEF BaseInv, Shapes
<1>2. BaseInv /\ [Next]_vars => BaseInv'
  <2> SUFFICES ASSUME BaseInv, [Next]_vars PROVE BaseInv' OBVIOUS
  <2>0. TypeOK /\ Shapes /\ FlagsFirst /\ Ended BY DEF BaseInv
  <2>1. ASSUME NEW t \in Threads, fsl_player_play(t) PROVE BaseInv'
    <3>1. Does(t, "play") /\ todo[t] # <<>> /\ Done(t) /\ t \in Threads
      BY <2>1 DEF fsl_player_play, Does, Threads
    <3>2. /\ todo' \in [Threads -> Seq(Operations)] /\ Shapes'
          /\ todo'[t] = Tail(todo[t]) /\ \A u \in Threads \ {t} : todo'[u] = todo[u]
          /\ \A u \in Threads : \A o : Has(u, o)' => Has(u, o)
          /\ \A u \in Threads : \A o :
               Has(u, o) => Has(u, o)' \/ (u = t /\ Head(todo[t]).o = o)
      BY <2>0, <3>1, DoneFacts
    <3>3. /\ pstate' \in {"STOPPED", "PLAYING", "PAUSED", "FASTFORWARD"}
          /\ gst' \in {"NULL", "READY", "PAUSED", "PLAYING"}
          /\ active' \in 0..NItems /\ plays' \in Nat
      BY <2>0, <2>1 DEF TypeOK, fsl_player_play, Load, Stopped, core
    <3>4. TypeOK'
      BY <2>0, <2>1, <3>2, <3>3 DEF TypeOK, fsl_player_play, program, options
    <3>5. FlagsFirst'
      <4>1. Head(todo[t]).o # "flags" BY <3>1 DEF Does
      <4>2. leave' = leave BY <2>1 DEF fsl_player_play, Load, program, options, core
      <4>3. QED BY <2>0, <3>2, <4>1, <4>2 DEF FlagsFirst
    <3>6. Ended'
      BY <2>0, <2>1, <3>1, <3>2 DEF Ended, Threads, fsl_player_play, Load, program,
        options, core
    <3>7. QED BY <3>2, <3>4, <3>5, <3>6 DEF BaseInv
  <2>2. ASSUME NEW t \in Threads, fsl_player_pause(t) PROVE BaseInv'
    <3>1. Does(t, "pause") /\ todo[t] # <<>> /\ Done(t) /\ t \in Threads
      BY <2>2 DEF fsl_player_pause, Does, Threads
    <3>2. /\ todo' \in [Threads -> Seq(Operations)] /\ Shapes'
          /\ todo'[t] = Tail(todo[t]) /\ \A u \in Threads \ {t} : todo'[u] = todo[u]
          /\ \A u \in Threads : \A o : Has(u, o)' => Has(u, o)
          /\ \A u \in Threads : \A o :
               Has(u, o) => Has(u, o)' \/ (u = t /\ Head(todo[t]).o = o)
      BY <2>0, <3>1, DoneFacts
    <3>3. /\ pstate' \in {"STOPPED", "PLAYING", "PAUSED", "FASTFORWARD"}
          /\ gst' \in {"NULL", "READY", "PAUSED", "PLAYING"}
          /\ active' \in 0..NItems /\ plays' \in Nat
      BY <2>0, <2>2 DEF TypeOK, fsl_player_pause, Load, Stopped, core
    <3>4. TypeOK'
      BY <2>0, <2>2, <3>2, <3>3 DEF TypeOK, fsl_player_pause, program, options
    <3>5. FlagsFirst'
      <4>1. Head(todo[t]).o # "flags" BY <3>1 DEF Does
      <4>2. leave' = leave BY <2>2 DEF fsl_player_pause, Load, program, options, core
      <4>3. QED BY <2>0, <3>2, <4>1, <4>2 DEF FlagsFirst
    <3>6. Ended'
      BY <2>0, <2>2, <3>1, <3>2 DEF Ended, Threads, fsl_player_pause, Load, program,
        options, core
    <3>7. QED BY <3>2, <3>4, <3>5, <3>6 DEF BaseInv
  <2>3. ASSUME NEW t \in Threads, fsl_player_stop(t) PROVE BaseInv'
    <3>1. Does(t, "stop") /\ todo[t] # <<>> /\ Done(t) /\ t \in Threads
      BY <2>3 DEF fsl_player_stop, Does, Threads
    <3>2. /\ todo' \in [Threads -> Seq(Operations)] /\ Shapes'
          /\ todo'[t] = Tail(todo[t]) /\ \A u \in Threads \ {t} : todo'[u] = todo[u]
          /\ \A u \in Threads : \A o : Has(u, o)' => Has(u, o)
          /\ \A u \in Threads : \A o :
               Has(u, o) => Has(u, o)' \/ (u = t /\ Head(todo[t]).o = o)
      BY <2>0, <3>1, DoneFacts
    <3>3. /\ pstate' \in {"STOPPED", "PLAYING", "PAUSED", "FASTFORWARD"}
          /\ gst' \in {"NULL", "READY", "PAUSED", "PLAYING"}
          /\ active' \in 0..NItems /\ plays' \in Nat
      BY <2>0, <2>3 DEF TypeOK, fsl_player_stop, Load, Stopped, core
    <3>4. TypeOK'
      BY <2>0, <2>3, <3>2, <3>3 DEF TypeOK, fsl_player_stop, program, options
    <3>5. FlagsFirst'
      <4>1. Head(todo[t]).o # "flags" BY <3>1 DEF Does
      <4>2. leave' = leave BY <2>3 DEF fsl_player_stop, Stopped, program, options, core
      <4>3. QED BY <2>0, <3>2, <4>1, <4>2 DEF FlagsFirst
    <3>6. Ended'
      BY <2>0, <2>3, <3>1, <3>2 DEF Ended, Threads, fsl_player_stop, Stopped, program,
        options, core
    <3>7. QED BY <3>2, <3>4, <3>5, <3>6 DEF BaseInv
  <2>4. ASSUME NEW t \in Threads, RateSet(t) PROVE BaseInv'
    <3>1. Does(t, "rated") /\ todo[t] # <<>> /\ Done(t) /\ t \in Threads
      BY <2>4 DEF RateSet, Does, Threads
    <3>2. /\ todo' \in [Threads -> Seq(Operations)] /\ Shapes'
          /\ todo'[t] = Tail(todo[t]) /\ \A u \in Threads \ {t} : todo'[u] = todo[u]
          /\ \A u \in Threads : \A o : Has(u, o)' => Has(u, o)
          /\ \A u \in Threads : \A o :
               Has(u, o) => Has(u, o)' \/ (u = t /\ Head(todo[t]).o = o)
      BY <2>0, <3>1, DoneFacts
    <3>3. pstate' \in {"STOPPED", "PLAYING", "PAUSED", "FASTFORWARD"}
      BY <2>0, <2>4 DEF TypeOK, RateSet
    <3>4. TypeOK' BY <2>0, <2>4, <3>2, <3>3 DEF TypeOK, RateSet, program, options
    <3>5. FlagsFirst'
      <4>1. Head(todo[t]).o # "flags" BY <3>1 DEF Does
      <4>2. leave' = leave BY <2>4 DEF RateSet, program, options
      <4>3. QED BY <2>0, <3>2, <4>1, <4>2 DEF FlagsFirst
    <3>6. Ended' BY <2>0, <2>4, <3>1, <3>2 DEF Ended, Threads, RateSet, program, options
    <3>7. QED BY <3>2, <3>4, <3>5, <3>6 DEF BaseInv
  <2>5. ASSUME NEW t \in Threads, fsl_player_set_media_location(t) PROVE BaseInv'
    <3>1. Does(t, "location") /\ todo[t] # <<>> /\ Done(t) /\ t \in Threads
      BY <2>5 DEF fsl_player_set_media_location, Does, Threads
    <3>2. /\ todo' \in [Threads -> Seq(Operations)] /\ Shapes'
          /\ todo'[t] = Tail(todo[t]) /\ \A u \in Threads \ {t} : todo'[u] = todo[u]
          /\ \A u \in Threads : \A o : Has(u, o)' => Has(u, o)
          /\ \A u \in Threads : \A o :
               Has(u, o) => Has(u, o)' \/ (u = t /\ Head(todo[t]).o = o)
      BY <2>0, <3>1, DoneFacts
    <3>4. TypeOK'
      BY <2>0, <2>5, <3>2 DEF TypeOK, fsl_player_set_media_location, options, core
    <3>5. FlagsFirst'
      <4>1. Head(todo[t]).o # "flags" BY <3>1 DEF Does
      <4>2. leave' = leave BY <2>5 DEF fsl_player_set_media_location, options, core
      <4>3. QED BY <2>0, <3>2, <4>1, <4>2 DEF FlagsFirst
    <3>6. Ended'
      BY <2>0, <2>5, <3>1, <3>2 DEF Ended, Threads, fsl_player_set_media_location,
        options, core
    <3>7. QED BY <3>2, <3>4, <3>5, <3>6 DEF BaseInv
  <2>6. ASSUME NEW t \in Threads, Put(t) PROVE BaseInv'
    <3>1. Does(t, "put") /\ todo[t] # <<>> /\ Done(t) /\ t \in Threads
      BY <2>6 DEF Put, Does, Threads
    <3>2. /\ todo' \in [Threads -> Seq(Operations)] /\ Shapes'
          /\ todo'[t] = Tail(todo[t]) /\ \A u \in Threads \ {t} : todo'[u] = todo[u]
          /\ \A u \in Threads : \A o : Has(u, o)' => Has(u, o)
          /\ \A u \in Threads : \A o :
               Has(u, o) => Has(u, o)' \/ (u = t /\ Head(todo[t]).o = o)
      BY <2>0, <3>1, DoneFacts
    <3>3. queue' \in Seq(Messages)
      <4>1. PICK m : m \in {"EOS", "ERROR", "EXIT"} /\ queue' = Append(queue, Op(m))
        BY <2>6 DEF Put, put
      <4>2. Op(m) \in Messages BY <4>1 DEF Op, Messages
      <4>3. QED BY <2>0, <4>1, <4>2 DEF TypeOK
    <3>4. TypeOK' BY <2>0, <2>6, <3>2, <3>3 DEF TypeOK, Put, program, options, core
    <3>5. FlagsFirst'
      <4>1. Head(todo[t]).o # "flags" BY <3>1 DEF Does
      <4>2. leave' = leave BY <2>6 DEF Put, put, program, options, core
      <4>3. QED BY <2>0, <3>2, <4>1, <4>2 DEF FlagsFirst
    <3>6. Ended'
      BY <2>0, <2>6, <3>1, <3>2 DEF Ended, Threads, Put, put, program, options, core
    <3>7. QED BY <3>2, <3>4, <3>5, <3>6 DEF BaseInv
  <2>7. ASSUME NEW t \in Threads, flush(t) PROVE BaseInv'
    <3>1. Does(t, "flush") /\ todo[t] # <<>> /\ Done(t) /\ t \in Threads
      BY <2>7 DEF flush, Does, Threads
    <3>2. /\ todo' \in [Threads -> Seq(Operations)] /\ Shapes'
          /\ todo'[t] = Tail(todo[t]) /\ \A u \in Threads \ {t} : todo'[u] = todo[u]
          /\ \A u \in Threads : \A o : Has(u, o)' => Has(u, o)
          /\ \A u \in Threads : \A o :
               Has(u, o) => Has(u, o)' \/ (u = t /\ Head(todo[t]).o = o)
      BY <2>0, <3>1, DoneFacts
    <3>3. queue' \in Seq(Messages) BY <2>7 DEF flush
    <3>4. TypeOK' BY <2>0, <2>7, <3>2, <3>3 DEF TypeOK, flush, program, options, core
    <3>5. FlagsFirst'
      <4>1. Head(todo[t]).o # "flags" BY <3>1 DEF Does
      <4>2. leave' = leave BY <2>7 DEF flush, program, options, core
      <4>3. QED BY <2>0, <3>2, <4>1, <4>2 DEF FlagsFirst
    <3>6. Ended'
      BY <2>0, <2>7, <3>1, <3>2 DEF Ended, Threads, flush, program, options, core
    <3>7. QED BY <3>2, <3>4, <3>5, <3>6 DEF BaseInv
  <2>8. ASSUME NEW t \in Threads, Flags(t) PROVE BaseInv'
    <3>1. Does(t, "flags") /\ todo[t] # <<>> /\ Done(t) /\ t \in Threads
      BY <2>8 DEF Flags, Does, Threads
    <3>2. /\ todo' \in [Threads -> Seq(Operations)] /\ Shapes'
          /\ todo'[t] = Tail(todo[t]) /\ \A u \in Threads \ {t} : todo'[u] = todo[u]
          /\ \A u \in Threads : \A o : Has(u, o)' => Has(u, o)
          /\ \A u \in Threads : \A o :
               Has(u, o) => Has(u, o)' \/ (u = t /\ Head(todo[t]).o = o)
      BY <2>0, <3>1, DoneFacts
    <3>4. TypeOK' BY <2>0, <2>8, <3>2 DEF TypeOK, Flags, options, core
    <3>5. FlagsFirst' BY <2>8 DEF FlagsFirst, Flags
    <3>6. Ended' BY <2>0, <2>8, <3>1, <3>2 DEF Ended, Threads, Flags, options, core
    <3>7. QED BY <3>2, <3>4, <3>5, <3>6 DEF BaseInv
  <2>9. ASSUME NEW t \in Threads, Alarm(t) PROVE BaseInv'
    <3>1. Does(t, "alarm") /\ todo[t] # <<>> /\ Done(t) /\ t \in Threads
      BY <2>9 DEF Alarm, Does, Threads
    <3>2. /\ todo' \in [Threads -> Seq(Operations)] /\ Shapes'
          /\ todo'[t] = Tail(todo[t]) /\ \A u \in Threads \ {t} : todo'[u] = todo[u]
          /\ \A u \in Threads : \A o : Has(u, o)' => Has(u, o)
          /\ \A u \in Threads : \A o :
               Has(u, o) => Has(u, o)' \/ (u = t /\ Head(todo[t]).o = o)
      BY <2>0, <3>1, DoneFacts
    <3>4. TypeOK' BY <2>0, <2>9, <3>2 DEF TypeOK, Alarm, options, core
    <3>5. FlagsFirst'
      <4>1. Head(todo[t]).o # "flags" BY <3>1 DEF Does
      <4>2. leave' = leave BY <2>9 DEF Alarm, options, core
      <4>3. QED BY <2>0, <3>2, <4>1, <4>2 DEF FlagsFirst
    <3>6. Ended' BY <2>0, <2>9, <3>1, <3>2 DEF Ended, Threads, Alarm, options, core
    <3>7. QED BY <3>2, <3>4, <3>5, <3>6 DEF BaseInv
  <2>10. CASE EosWait
    <3>1. Does("loop", "wait") /\ todo["loop"] # <<>> /\ Done("loop") /\ "loop" \in Threads
      BY <2>10 DEF EosWait, Does, Threads
    <3>2. /\ todo' \in [Threads -> Seq(Operations)] /\ Shapes'
          /\ todo'["loop"] = Tail(todo["loop"]) /\ \A u \in Threads \ {"loop"} : todo'[u] = todo[u]
          /\ \A u \in Threads : \A o : Has(u, o)' => Has(u, o)
          /\ \A u \in Threads : \A o :
               Has(u, o) => Has(u, o)' \/ (u = "loop" /\ Head(todo["loop"]).o = o)
      BY <2>0, <3>1, DoneFacts
    <3>4. TypeOK' BY <2>0, <2>10, <3>2 DEF TypeOK, EosWait, program, options, core
    <3>5. FlagsFirst'
      <4>1. Head(todo["loop"]).o # "flags" BY <3>1 DEF Does
      <4>2. leave' = leave BY <2>10 DEF EosWait, program, options, core
      <4>3. QED BY <2>0, <3>2, <4>1, <4>2 DEF FlagsFirst
    <3>6. Ended'
      BY <2>0, <2>10, <3>1, <3>2 DEF Ended, Threads, EosWait, program, options, core
    <3>7. QED BY <3>2, <3>4, <3>5, <3>6 DEF BaseInv
  <2>11. CASE Buffered
    <3>1. Does("loop", "buffered") /\ todo["loop"] # <<>> /\ Done("loop") /\ "loop" \in Threads
      BY <2>11 DEF Buffered, Does, Threads
    <3>2. /\ todo' \in [Threads -> Seq(Operations)] /\ Shapes'
          /\ todo'["loop"] = Tail(todo["loop"]) /\ \A u \in Threads \ {"loop"} : todo'[u] = todo[u]
          /\ \A u \in Threads : \A o : Has(u, o)' => Has(u, o)
          /\ \A u \in Threads : \A o :
               Has(u, o) => Has(u, o)' \/ (u = "loop" /\ Head(todo["loop"]).o = o)
      BY <2>0, <3>1, DoneFacts
    <3>3. queue' \in Seq(Messages)
      <4> DEFINE m == [o |-> "BUFFERING", p |-> Head(todo["loop"]).p]
      <4>1. Head(todo["loop"]) \in Operations BY <2>0, <3>1, HeadIs
      <4>2. m \in Messages BY <4>1 DEF Operations, Messages
      <4>3. queue' = putReplace(m) BY <2>11 DEF Buffered
      <4> HIDE DEF m
      <4>4. CASE queue = <<>> BY <4>2, <4>3, <4>4 DEF putReplace
      <4>5. CASE queue # <<>>
        <5>1. Tail(queue) \in Seq(Messages) BY <2>0, <4>5, TailIs DEF TypeOK
        <5>2. <<m>> \in Seq(Messages) BY <4>2
        <5>3. <<m>> \o Tail(queue) \in Seq(Messages) BY <5>1, <5>2, ConcatProperties
        <5>4. QED BY <2>0, <4>3, <4>5, <5>3 DEF putReplace, TypeOK
      <4>6. QED BY <4>4, <4>5
    <3>4. TypeOK' BY <2>0, <2>11, <3>2, <3>3 DEF TypeOK, Buffered, program, options
    <3>5. FlagsFirst'
      <4>1. Head(todo["loop"]).o # "flags" BY <3>1 DEF Does
      <4>2. leave' = leave BY <2>11 DEF Buffered, program, options
      <4>3. QED BY <2>0, <3>2, <4>1, <4>2 DEF FlagsFirst
    <3>6. Ended'
      BY <2>0, <2>11, <3>1, <3>2 DEF Ended, Threads, Buffered, program, options
    <3>7. QED BY <3>2, <3>4, <3>5, <3>6 DEF BaseInv
  <2>12. CASE MsgReturn
    <3>1. Does("msg", "return") /\ todo["msg"] # <<>> /\ Done("msg") /\ "msg" \in Threads
      BY <2>12 DEF MsgReturn, Does, Threads
    <3>2. /\ todo' \in [Threads -> Seq(Operations)] /\ Shapes'
          /\ todo'["msg"] = Tail(todo["msg"]) /\ \A u \in Threads \ {"msg"} : todo'[u] = todo[u]
          /\ \A u \in Threads : \A o : Has(u, o)' => Has(u, o)
          /\ \A u \in Threads : \A o :
               Has(u, o) => Has(u, o)' \/ (u = "msg" /\ Head(todo["msg"]).o = o)
      BY <2>0, <3>1, DoneFacts
    <3>4. TypeOK' BY <2>0, <2>12, <3>2 DEF TypeOK, MsgReturn, options, core
    <3>5. FlagsFirst'
      <4>1. Head(todo["msg"]).o # "flags" BY <3>1 DEF Does
      <4>2. leave' = leave BY <2>12 DEF MsgReturn, options, core
      <4>3. QED BY <2>0, <3>2, <4>1, <4>2 DEF FlagsFirst
    <3>6. Ended'
      <4>1. Len(todo["msg"]) = 1 /\ todo["msg"] \in Seq(Operations)
        BY <2>0, <3>1, HeadIs
      <4>2. todo'["msg"] \in Seq(Operations) /\ Len(todo'["msg"]) = 0
        BY <3>1, <3>2, <4>1, TailIs
      <4>3. todo'["msg"] = <<>> BY <4>2, EmptySeq
      <4>4. QED BY <2>0, <2>12, <3>2, <4>3 DEF Ended, MsgReturn, Threads
    <3>7. QED BY <3>2, <3>4, <3>5, <3>6 DEF BaseInv
  <2>13. CASE fsl_player_post_eos_semaphore
    <3>1. Does("msg", "post") /\ todo["msg"] # <<>> /\ Done("msg") /\ "msg" \in Threads
      BY <2>13 DEF fsl_player_post_eos_semaphore, Does, Threads
    <3>2. /\ todo' \in [Threads -> Seq(Operations)] /\ Shapes'
          /\ todo'["msg"] = Tail(todo["msg"]) /\ \A u \in Threads \ {"msg"} : todo'[u] = todo[u]
          /\ \A u \in Threads : \A o : Has(u, o)' => Has(u, o)
          /\ \A u \in Threads : \A o :
               Has(u, o) => Has(u, o)' \/ (u = "msg" /\ Head(todo["msg"]).o = o)
      BY <2>0, <3>1, DoneFacts
    <3>4. TypeOK'
      BY <2>0, <2>13, <3>2 DEF TypeOK, fsl_player_post_eos_semaphore, program, options,
        core
    <3>5. FlagsFirst'
      <4>1. Head(todo["msg"]).o # "flags" BY <3>1 DEF Does
      <4>2. leave' = leave
        BY <2>13 DEF fsl_player_post_eos_semaphore, program, options, core
      <4>3. QED BY <2>0, <3>2, <4>1, <4>2 DEF FlagsFirst
    <3>6. Ended'
      BY <2>0, <2>13, <3>1, <3>2 DEF Ended, Threads, fsl_player_post_eos_semaphore,
        program, options, core
    <3>7. QED BY <3>2, <3>4, <3>5, <3>6 DEF BaseInv
  <2>14. ASSUME NEW t \in Threads, RateStart(t) PROVE BaseInv'
    <3>0. todo["ui"] # <<>> BY <2>0, <2>14, RateStartIs
    <3>1. PICK S \in Seq(Operations) :
            /\ todo' = [todo EXCEPT !["ui"] = S] /\ UiShape(S)
            /\ ~HasOp(S, "flush")
      BY <2>0, <2>14, RateStartIs
    <3>2. /\ todo' \in [Threads -> Seq(Operations)] /\ Shapes'
          /\ todo'["ui"] = S /\ \A u \in Threads \ {"ui"} : todo'[u] = todo[u]
          /\ \A o : Has("ui", o)' <=> HasOp(S, o)
          /\ \A u \in Threads \ {"ui"} : \A o : Has(u, o)' <=> Has(u, o)
      <4>1. "ui" \in Threads BY DEF Threads
      <4>2. QED BY <2>0, <3>1, <4>1, GivenFacts
    <3>4. TypeOK' BY <2>0, <2>14, <3>2 DEF TypeOK, RateStart, program, options, core
    <3>5. FlagsFirst'
      <4>1. leave' = leave BY <2>14 DEF RateStart, program, options, core
      <4>2. QED BY <2>0, <3>1, <3>2, <4>1 DEF FlagsFirst
    <3>6. Ended'
      BY <2>0, <2>14, <3>0, <3>2 DEF Ended, Threads, RateStart, program, options, core
    <3>7. QED BY <3>2, <3>4, <3>5, <3>6 DEF BaseInv
  <2>15. ASSUME NEW t \in Threads, playlist_previous(t) PROVE BaseInv'
    <3>0. todo["ui"] # <<>> BY <2>0, <2>15, PreviousIs
    <3>1. PICK S \in Seq(Operations) :
            /\ todo' = [todo EXCEPT !["ui"] = S] /\ UiShape(S)
            /\ ~HasOp(S, "flush")
      BY <2>0, <2>15, PreviousIs
    <3>2. /\ todo' \in [Threads -> Seq(Operations)] /\ Shapes'
          /\ todo'["ui"] = S /\ \A u \in Threads \ {"ui"} : todo'[u] = todo[u]
          /\ \A o : Has("ui", o)' <=> HasOp(S, o)
          /\ \A u \in Threads \ {"ui"} : \A o : Has(u, o)' <=> Has(u, o)
      <4>1. "ui" \in Threads BY DEF Threads
      <4>2. QED BY <2>0, <3>1, <4>1, GivenFacts
    <3>3. cur' \in 1..NItems BY <2>0, <2>15, PreviousIs
    <3>4. TypeOK'
      BY <2>0, <2>15, <3>2, <3>3 DEF TypeOK, playlist_previous, options, core
    <3>5. FlagsFirst'
      <4>1. leave' = leave BY <2>15 DEF playlist_previous, options, core
      <4>2. QED BY <2>0, <3>1, <3>2, <4>1 DEF FlagsFirst
    <3>6. Ended'
      BY <2>0, <2>15, <3>0, <3>2 DEF Ended, Threads, playlist_previous, options, core
    <3>7. QED BY <3>2, <3>4, <3>5, <3>6 DEF BaseInv
  <2>16. CASE my_bus_callback
    <3>1. PICK S \in Seq(Operations) :
            /\ todo' = [todo EXCEPT !["loop"] = S] /\ LoopShape(S)
            /\ ~HasOp(S, "flush")
      BY <2>0, <2>16, BusIs
    <3>2. /\ todo' \in [Threads -> Seq(Operations)] /\ Shapes'
          /\ todo'["loop"] = S /\ \A u \in Threads \ {"loop"} : todo'[u] = todo[u]
          /\ \A o : Has("loop", o)' <=> HasOp(S, o)
          /\ \A u \in Threads \ {"loop"} : \A o : Has(u, o)' <=> Has(u, o)
      <4>1. "loop" \in Threads BY DEF Threads
      <4>2. QED BY <2>0, <3>1, <4>1, GivenFacts
    <3>3. bus' \in Seq(Messages) BY <2>0, <2>16, TailIs DEF TypeOK, my_bus_callback
    <3>4. TypeOK'
      BY <2>0, <2>16, <3>2, <3>3 DEF TypeOK, my_bus_callback, program, options, core
    <3>5. FlagsFirst'
      <4>1. leave' = leave BY <2>16 DEF my_bus_callback, program, options, core
      <4>2. QED BY <2>0, <3>1, <3>2, <4>1 DEF FlagsFirst
    <3>6. Ended' BY <2>0, <2>16, <3>2 DEF Ended, Threads, my_bus_callback, program
    <3>7. QED BY <3>2, <3>4, <3>5, <3>6 DEF BaseInv
  <2>17. CASE MsgGet
    <3>0. todo["msg"] # <<>> BY <2>0, <2>17, MsgGetIs
    <3>1. PICK S \in Seq(Operations) :
            /\ todo' = [todo EXCEPT !["msg"] = S] /\ MsgShape(S)
            /\ HasOp(S, "flush") => HasOp(S, "flags")
      BY <2>0, <2>17, MsgGetIs
    <3>2. /\ todo' \in [Threads -> Seq(Operations)] /\ Shapes'
          /\ todo'["msg"] = S /\ \A u \in Threads \ {"msg"} : todo'[u] = todo[u]
          /\ \A o : Has("msg", o)' <=> HasOp(S, o)
          /\ \A u \in Threads \ {"msg"} : \A o : Has(u, o)' <=> Has(u, o)
      <4>1. "msg" \in Threads BY DEF Threads
      <4>2. QED BY <2>0, <3>1, <4>1, GivenFacts
    <3>3. queue' \in Seq(Messages) /\ raced' \in BOOLEAN
      BY <2>0, <2>17, TailIs DEF TypeOK, MsgGet
    <3>4. TypeOK' BY <2>0, <2>17, <3>2, <3>3 DEF TypeOK, MsgGet, options, core
    <3>5. FlagsFirst'
      <4>1. leave' = leave BY <2>17 DEF MsgGet, options, core
      <4>2. QED BY <2>0, <3>1, <3>2, <4>1 DEF FlagsFirst
    <3>6. Ended' BY <2>0, <2>17, <3>0, <3>2 DEF Ended, Threads, MsgGet, options, core
    <3>7. QED BY <3>2, <3>4, <3>5, <3>6 DEF BaseInv
  <2>18. CASE MsgNext
    <3>0. todo["msg"] # <<>> BY <2>0, <2>18, MsgNextIs
    <3>1. PICK S \in Seq(Operations) :
            /\ todo' = [todo EXCEPT !["msg"] = S] /\ MsgShape(S)
            /\ HasOp(S, "flush") => HasOp(S, "flags")
      BY <2>0, <2>18, MsgNextIs
    <3>2. /\ todo' \in [Threads -> Seq(Operations)] /\ Shapes'
          /\ todo'["msg"] = S /\ \A u \in Threads \ {"msg"} : todo'[u] = todo[u]
          /\ \A o : Has("msg", o)' <=> HasOp(S, o)
          /\ \A u \in Threads \ {"msg"} : \A o : Has(u, o)' <=> Has(u, o)
      <4>1. "msg" \in Threads BY DEF Threads
      <4>2. QED BY <2>0, <3>1, <4>1, GivenFacts
    <3>3. cur' \in 1..NItems /\ times' \in Int BY <2>0, <2>18, CursorStays DEF MsgNext
    <3>4. TypeOK' BY <2>0, <2>18, <3>2, <3>3 DEF TypeOK, MsgNext, playlist_next, core
    <3>5. FlagsFirst'
      <4>1. leave' = leave BY <2>18 DEF MsgNext, playlist_next, core
      <4>2. QED BY <2>0, <3>1, <3>2, <4>1 DEF FlagsFirst
    <3>6. Ended'
      BY <2>0, <2>18, <3>0, <3>2 DEF Ended, Threads, MsgNext, playlist_next, core
    <3>7. QED BY <3>2, <3>4, <3>5, <3>6 DEF BaseInv
  <2>19. CASE Command
    <3>0. ~(leave /\ alarmed) BY <2>19 DEF Command, Reads
    <3>1. PICK S \in Seq(Operations) :
            /\ todo' = [todo EXCEPT !["ui"] = S] /\ UiShape(S)
            /\ HasOp(S, "flush") => HasOp(S, "flags")
      BY <2>19, CommandPrograms DEF Command
    <3>2. /\ todo' \in [Threads -> Seq(Operations)] /\ Shapes'
          /\ todo'["ui"] = S /\ \A u \in Threads \ {"ui"} : todo'[u] = todo[u]
          /\ \A o : Has("ui", o)' <=> HasOp(S, o)
          /\ \A u \in Threads \ {"ui"} : \A o : Has(u, o)' <=> Has(u, o)
      <4>1. "ui" \in Threads BY DEF Threads
      <4>2. QED BY <2>0, <3>1, <4>1, GivenFacts
    <3>3. raced' \in BOOLEAN BY <2>0, <2>19 DEF TypeOK, Command, Reads
    <3>4. TypeOK' BY <2>0, <2>19, <3>2, <3>3 DEF TypeOK, Command, Reads, options, core
    <3>5. FlagsFirst'
      <4>1. leave' = leave BY <2>19 DEF Command, Reads, options, core
      <4>2. QED BY <2>0, <3>1, <3>2, <4>1 DEF FlagsFirst
    <3>6. Ended'
      BY <2>0, <2>19, <3>0, <3>2 DEF Ended, Threads, Command, Reads, options, core
    <3>7. QED BY <3>2, <3>4, <3>5, <3>6 DEF BaseInv
  <2>20. CASE NextCommand
    <3>0. ~(leave /\ alarmed) BY <2>20 DEF NextCommand, Reads
    <3>1. PICK S \in Seq(Operations) :
            /\ todo' = [todo EXCEPT !["ui"] = S] /\ UiShape(S)
            /\ HasOp(S, "flush") => HasOp(S, "flags")
      <4>1. todo' = [todo EXCEPT !["ui"] = NextProgram] BY <2>20 DEF NextCommand
      <4>2. CASE NextProgram = Restart
        <5>1. ~HasOp(Restart, "flush") BY RestartPrograms
        <5>2. QED BY <4>1, <4>2, <5>1, RestartPrograms
      <4>3. CASE NextProgram = player_exit
        <5>1. /\ Len(player_exit) = 4 /\ player_exit[1].o = "flags" /\ player_exit[2].o = "stop"
              /\ player_exit[3].o = "flush" /\ player_exit[4].o = "alarm"
          BY Programs DEF Op
        <5>2. player_exit \in Seq(Operations)
          <6>1. <<Op("flags"), Op("stop"), Op("flush"), Op("alarm")>> \in Seq(Operations)
            BY OpTypes
          <6>2. QED BY <6>1, Programs, Zenon
        <5>3. UiShape(player_exit) BY <5>1 DEF UiShape, UiOps
        <5>4. HasOp(player_exit, "flags") BY <5>1 DEF HasOp
        <5>5. QED BY <4>1, <4>3, <5>2, <5>3, <5>4
      <4>4. QED BY <4>2, <4>3 DEF NextProgram
    <3>2. /\ todo' \in [Threads -> Seq(Operations)] /\ Shapes'
          /\ todo'["ui"] = S /\ \A u \in Threads \ {"ui"} : todo'[u] = todo[u]
          /\ \A o : Has("ui", o)' <=> HasOp(S, o)
          /\ \A u \in Threads \ {"ui"} : \A o : Has(u, o)' <=> Has(u, o)
      <4>1. "ui" \in Threads BY DEF Threads
      <4>2. QED BY <2>0, <3>1, <4>1, GivenFacts
    <3>3. cur' \in 1..NItems /\ times' \in Int /\ raced' \in BOOLEAN
      <4>1. raced' \in BOOLEAN BY <2>0, <2>20 DEF TypeOK, NextCommand, Reads
      <4>2. playlist_next BY <2>20 DEF NextCommand
      <4>3. cur' \in 1..NItems /\ times' \in Int BY <2>0, <4>2, CursorStays
      <4>4. QED BY <4>1, <4>3
    <3>4. TypeOK'
      BY <2>0, <2>20, <3>2, <3>3 DEF TypeOK, NextCommand, Reads, playlist_next, core
    <3>5. FlagsFirst'
      <4>1. leave' = leave BY <2>20 DEF NextCommand, Reads, playlist_next, core
      <4>2. QED BY <2>0, <3>1, <3>2, <4>1 DEF FlagsFirst
    <3>6. Ended'
      BY <2>0, <2>20, <3>0, <3>2 DEF Ended, Threads, NextCommand, Reads, playlist_next,
        core
    <3>7. QED BY <3>2, <3>4, <3>5, <3>6 DEF BaseInv
  <2>21. CASE MsgCheck
    <3>0. todo["msg"] # <<>> /\ "msg" \in Threads BY <2>0, <2>21, MsgCheckIs DEF Threads
    <3>1. CASE leave /\ lives' = lives \ {"msg"} /\ Done("msg") /\ Tail(todo["msg"]) = <<>>
      <4>1. /\ todo' \in [Threads -> Seq(Operations)] /\ Shapes'
            /\ todo'["msg"] = Tail(todo["msg"]) /\ \A u \in Threads \ {"msg"} : todo'[u] = todo[u]
            /\ \A u \in Threads : \A o : Has(u, o)' => Has(u, o)
            /\ \A u \in Threads : \A o :
                 Has(u, o) => Has(u, o)' \/ (u = "msg" /\ Head(todo["msg"]).o = o)
        BY <2>0, <3>0, <3>1, DoneFacts
      <4>2. TypeOK' BY <2>0, <2>21, <3>1, <4>1 DEF TypeOK, MsgCheck, options, core
      <4>3. FlagsFirst' BY <2>21, <3>1 DEF FlagsFirst, MsgCheck
      <4>4. Ended' BY <2>0, <2>21, <3>1, <4>1 DEF Ended, MsgCheck, Threads
      <4>5. QED BY <4>1, <4>2, <4>3, <4>4 DEF BaseInv
    <3>2. CASE UNCHANGED lives /\ todo' = [todo EXCEPT !["msg"] = Ops(<<"get">>)]
      <4>0. PICK S \in Seq(Operations) : S = Ops(<<"get">>) BY <2>0, <2>21, MsgCheckIs
      <4>1. /\ todo' = [todo EXCEPT !["msg"] = S] /\ MsgShape(S) /\ ~HasOp(S, "flush")
        BY <2>0, <2>21, <3>2, <4>0, MsgCheckIs, Zenon
      <4>2. /\ todo' \in [Threads -> Seq(Operations)] /\ Shapes'
            /\ todo'["msg"] = S /\ \A u \in Threads \ {"msg"} : todo'[u] = todo[u]
            /\ \A o : Has("msg", o)' <=> HasOp(S, o)
            /\ \A u \in Threads \ {"msg"} : \A o : Has(u, o)' <=> Has(u, o)
        BY <2>0, <3>0, <4>1, GivenFacts
      <4>3. TypeOK' BY <2>0, <2>21, <3>2, <4>2 DEF TypeOK, MsgCheck, options, core
      <4>4. FlagsFirst'
        <5>1. leave' = leave BY <2>21 DEF MsgCheck
        <5>2. QED BY <2>0, <4>1, <4>2, <5>1 DEF FlagsFirst
      <4>5. Ended' BY <2>0, <2>21, <3>0, <3>2, <4>2 DEF Ended, MsgCheck, Threads
      <4>6. QED BY <4>2, <4>3, <4>4, <4>5 DEF BaseInv
    <3>3. QED BY <2>0, <2>21, <3>1, <3>2, MsgCheckIs
  <2>22. CASE LoopEnds
    <3>1. todo' = todo BY <2>22 DEF LoopEnds, options, core
    <3>4. TypeOK' BY <2>0, <2>22, <3>1 DEF TypeOK, LoopEnds, options, core
    <3>5. Shapes' BY <2>0, <3>1 DEF Shapes
    <3>6. FlagsFirst' BY <2>0, <2>22, <3>1 DEF FlagsFirst, Has, LoopEnds, options, core
    <3>7. Ended' BY <2>0, <2>22, <3>1 DEF Ended, LoopEnds, options, core
    <3>8. QED BY <3>4, <3>5, <3>6, <3>7 DEF BaseInv
  <2>23. CASE fsl_player_deinit
    <3>1. todo' = todo BY <2>23 DEF fsl_player_deinit, options
    <3>4. TypeOK' BY <2>0, <2>23, <3>1 DEF TypeOK, fsl_player_deinit, options
    <3>5. Shapes' BY <2>0, <3>1 DEF Shapes
    <3>6. FlagsFirst'
      BY <2>0, <2>23, <3>1 DEF FlagsFirst, Has, fsl_player_deinit, options
    <3>7. Ended' BY <2>0, <2>23, <3>1 DEF Ended, fsl_player_deinit, options
    <3>8. QED BY <3>4, <3>5, <3>6, <3>7 DEF BaseInv
  <2>24. CASE MainEnds
    <3>1. todo' = todo BY <2>24 DEF MainEnds, options, core
    <3>4. TypeOK' BY <2>0, <2>24, <3>1 DEF TypeOK, MainEnds, options, core
    <3>5. Shapes' BY <2>0, <3>1 DEF Shapes
    <3>6. FlagsFirst' BY <2>0, <2>24, <3>1 DEF FlagsFirst, Has, MainEnds, options, core
    <3>7. Ended' BY <2>0, <2>24, <3>1 DEF Ended, MainEnds, options, core
    <3>8. QED BY <3>4, <3>5, <3>6, <3>7 DEF BaseInv
  <2>25. CASE EndOfFile
    <3>1. todo' = todo BY <2>25 DEF EndOfFile, Emit, options
    <3>2. Op("EOS") \in Messages BY PlayAssumption DEF Op, Messages
    <3>3. bus' \in Seq(Messages)
      <4>1. bus' = Append(bus, Op("EOS")) BY <2>25 DEF EndOfFile, Emit
      <4>2. QED BY <2>0, <3>2, <4>1 DEF TypeOK
    <3>0. 0 \in 0..NItems BY PlayAssumption
    <3>4. TypeOK' BY <2>0, <2>25, <3>1, <3>3, <3>0 DEF TypeOK, EndOfFile, Emit, options
    <3>5. Shapes' BY <2>0, <3>1 DEF Shapes
    <3>6. FlagsFirst' BY <2>0, <2>25, <3>1 DEF FlagsFirst, Has, EndOfFile, Emit, options
    <3>7. Ended' BY <2>0, <2>25, <3>1 DEF Ended, EndOfFile, Emit, options
    <3>8. QED BY <3>4, <3>5, <3>6, <3>7 DEF BaseInv
  <2>26. CASE PipelineError
    <3>1. todo' = todo BY <2>26 DEF PipelineError, Emit, options
    <3>2. Op("ERROR") \in Messages BY PlayAssumption DEF Op, Messages
    <3>3. bus' \in Seq(Messages)
      <4>1. bus' = Append(bus, Op("ERROR")) BY <2>26 DEF PipelineError, Emit
      <4>2. QED BY <2>0, <3>2, <4>1 DEF TypeOK
    <3>0. 0 \in 0..NItems BY PlayAssumption
    <3>4. TypeOK'
      BY <2>0, <2>26, <3>1, <3>3, <3>0 DEF TypeOK, PipelineError, Emit, options
    <3>5. Shapes' BY <2>0, <3>1 DEF Shapes
    <3>6. FlagsFirst'
      BY <2>0, <2>26, <3>1 DEF FlagsFirst, Has, PipelineError, Emit, options
    <3>7. Ended' BY <2>0, <2>26, <3>1 DEF Ended, PipelineError, Emit, options
    <3>8. QED BY <3>4, <3>5, <3>6, <3>7 DEF BaseInv
  <2>27. ASSUME NEW p \in Percents, Buffering(p) PROVE BaseInv'
    <3>1. todo' = todo BY <2>27 DEF Buffering, Emit, options
    <3>2. [o |-> "BUFFERING", p |-> p] \in Messages BY PlayAssumption DEF Op, Messages
    <3>3. bus' \in Seq(Messages)
      <4>1. bus' = Append(bus, [o |-> "BUFFERING", p |-> p])
        BY <2>27 DEF Buffering, Emit
      <4>2. QED BY <2>0, <3>2, <4>1 DEF TypeOK
    <3>4. TypeOK' BY <2>0, <2>27, <3>1, <3>3 DEF TypeOK, Buffering, Emit, options
    <3>5. Shapes' BY <2>0, <3>1 DEF Shapes
    <3>6. FlagsFirst' BY <2>0, <2>27, <3>1 DEF FlagsFirst, Has, Buffering, Emit, options
    <3>7. Ended' BY <2>0, <2>27, <3>1 DEF Ended, Buffering, Emit, options
    <3>8. QED BY <3>4, <3>5, <3>6, <3>7 DEF BaseInv
  <2>28. CASE UNCHANGED vars
    <3>1. TypeOK' /\ Shapes' BY <2>0, <2>28 DEF TypeOK, Shapes, vars
    <3>2. FlagsFirst' /\ Ended' BY <2>0, <2>28 DEF FlagsFirst, Has, Ended, vars
    <3>3. QED BY <3>1, <3>2 DEF BaseInv
  <2>29. QED
    BY <2>1, <2>2, <2>3, <2>4, <2>5, <2>6, <2>7, <2>8, <2>9, <2>10, <2>11, <2>12, <2>13,
      <2>14, <2>15, <2>16, <2>17, <2>18, <2>19, <2>20, <2>21, <2>22, <2>23, <2>24,
      <2>25, <2>26, <2>27, <2>28
    DEF Next, Step, Loop, Msg, Pipeline
<1>3. QED BY <1>1, <1>2, PTL DEF Spec

(* Types, for every play list, every combination of options and all        *)
(* behaviours; in particular the play list's cursor stays on the list      *)
(* whatever mix of files ending, commands and repeat modes moves it.       *)
THEOREM TypeCorrect == Spec => []TypeOK
<1>1. BaseInv => TypeOK BY DEF BaseInv
<1>2. QED BY <1>1, BaseInvariant, PTL

-----------------------------------------------------------------------------
(***************************************************************************)
(* player_state and the pipeline.  The buffer can only hold a playing      *)
(* pipeline where the core handles buffering, and the rate command writes  *)
(* player_state right after its own play: both are needed for the          *)
(* agreement to survive the next step.                                     *)
(***************************************************************************)
Agree ==
  "init" \in lives =>
    /\ pstate = "STOPPED" => gst \in {"READY", "NULL"}
    /\ pstate = "PAUSED" => gst = "PAUSED"
    /\ pstate = "PLAYING" => gst = "PLAYING" \/ (gst = "PAUSED" /\ low /\ ~handle)

RatedPlays == Does("ui", "rated") => pstate = "PLAYING"

StateInv == Agree /\ RatedPlays

(* The rate command comes to its last part by playing.                     *)
LEMMA RatedKept ==
  ASSUME TypeOK, Shapes, NEW t \in Threads, todo[t] # <<>>, Done(t), Does("ui", "rated")'
  PROVE  \/ t = "ui" /\ Head(todo["ui"]).o = "play"
         \/ t # "ui" /\ Does("ui", "rated")
<1>1. todo'[t] = Tail(todo[t]) /\ \A u \in Threads \ {t} : todo'[u] = todo[u]
  BY DoneFacts
<1>2. todo["ui"] \in Seq(Operations) /\ "ui" \in Threads BY DEF TypeOK, Threads
<1>3. CASE t # "ui"
  <2>1. todo'["ui"] = todo["ui"] BY <1>1, <1>2, <1>3
  <2>2. QED BY <1>3, <2>1 DEF Does
<1>4. CASE t = "ui"
  <2> DEFINE S == todo["ui"]
             U == Tail(S)
  <2>1. /\ Len(S) \in Nat \ {0} /\ Head(S) = S[1] /\ Len(U) = Len(S) - 1 /\ U \in Seq(Operations)
        /\ \A i \in 1..Len(U) : U[i] = S[i + 1]
    BY <1>2, <1>4, TailIs
  <2>2. U # <<>> /\ Head(U).o = "rated"
    <3>1. todo'["ui"] = U BY <1>1, <1>4
    <3>2. QED BY <3>1 DEF Does
  <2> HIDE DEF U
  <2>3. Len(U) \in Nat \ {0} /\ Head(U) = U[1] BY <2>1, <2>2, TailIs
  <2>4. U[1] = S[1 + 1]
    <3>1. 1 \in 1..Len(U) BY <2>3
    <3>2. QED BY <2>1, <3>1
  <2>5. 2 \in 1..Len(S) /\ S[2].o = "rated" BY <2>1, <2>2, <2>3, <2>4
  <2>6. S[2 - 1].o = "play" BY <2>5 DEF Shapes, UiShape
  <2>7. QED BY <1>4, <2>1, <2>6
<1>5. QED BY <1>3, <1>4

(* Work that does not begin with the rate command's last part.             *)
LEMMA NotRated ==
  ASSUME NEW S \in Seq(Operations), S # <<>> => S[1].o # "rated", todo'["ui"] = S
  PROVE  ~Does("ui", "rated")'
<1>1. S # <<>> => Head(S) = S[1] BY TailIs
<1>2. QED BY <1>1 DEF Does

(* The agreement is kept when the pipeline's changes of state succeed.     *)
LEMMA StateInvariant ==
  ASSUME "fail" \notin Allowed, "rate_race" \notin Allowed
  PROVE  Spec => []StateInv
<1>0. Outcomes("fail") = {TRUE} /\ ~May("rate_race") BY DEF Outcomes, May
<1>1. Init => StateInv
  <2> SUFFICES ASSUME Init PROVE StateInv OBVIOUS
  <2>1. Agree BY DEF Init, Agree
  <2>2. RatedPlays
    <3>1. todo["ui"] = <<Op("location"), Op("play")>>
      <4>1. todo["ui"] = Ops(<<"location", "play">>) BY DEF Init, Threads
      <4>2. QED BY <4>1, Programs, Zenon
    <3>2. Head(todo["ui"]).o = "location" BY <3>1 DEF Op
    <3>3. QED BY <3>2 DEF RatedPlays, Does
  <2>3. QED BY <2>1, <2>2 DEF StateInv
<1>2. BaseInv /\ StateInv /\ [Next]_vars => StateInv'
  <2> SUFFICES ASSUME BaseInv, StateInv, [Next]_vars PROVE StateInv' OBVIOUS
  <2>0. TypeOK /\ Shapes /\ Agree /\ RatedPlays BY DEF BaseInv, StateInv
  <2>1. ASSUME NEW t \in Threads, fsl_player_play(t) PROVE StateInv'
    <3>0. Does(t, "play") /\ todo[t] # <<>> /\ Done(t) /\ t \in Threads
      BY <2>1 DEF fsl_player_play, Does, Threads
    <3>1. gst' = "PLAYING" /\ pstate' = "PLAYING" BY <1>0, <2>1 DEF fsl_player_play
    <3>2. Agree' /\ RatedPlays' BY <3>1 DEF Agree, RatedPlays
    <3>3. QED BY <3>2 DEF StateInv
  <2>2. ASSUME NEW t \in Threads, fsl_player_pause(t) PROVE StateInv'
    <3>0. Does(t, "pause") /\ todo[t] # <<>> /\ Done(t) /\ t \in Threads
      BY <2>2 DEF fsl_player_pause, Does, Threads
    <3>1. gst' = pstate' /\ pstate' \in {"PAUSED", "PLAYING"}
      <4>1. CASE pstate = "PAUSED"
        <5>1. gst' = "PLAYING" /\ pstate' = "PLAYING"
          BY <1>0, <2>2, <4>1 DEF fsl_player_pause
        <5>2. QED BY <5>1
      <4>2. CASE pstate # "PAUSED"
        <5>1. gst' = "PAUSED" /\ pstate' = "PAUSED"
          BY <1>0, <2>2, <4>2 DEF fsl_player_pause
        <5>2. QED BY <5>1
      <4>3. QED BY <4>1, <4>2
    <3>2. Agree' BY <3>1 DEF Agree
    <3>3. ~Does("ui", "rated")'
      <4>1. t = "ui" \/ ~Has("ui", "rated")
        BY <1>0, <2>2 DEF fsl_player_pause, RateWritten
      <4>2. "ui" \in Threads BY DEF Threads
      <4>3. ~Has("ui", "rated") => ~Does("ui", "rated") BY <2>0, <4>2, HeadIs
      <4>4. t = "ui" => Head(todo["ui"]).o # "play" BY <3>0 DEF Does
      <4>5. QED BY <2>0, <3>0, <4>1, <4>3, <4>4, RatedKept
    <3>4. QED BY <3>2, <3>3 DEF StateInv, RatedPlays
  <2>3. ASSUME NEW t \in Threads, fsl_player_stop(t) PROVE StateInv'
    <3>0. Does(t, "stop") /\ todo[t] # <<>> /\ Done(t) /\ t \in Threads
      BY <2>3 DEF fsl_player_stop, Does, Threads
    <3>1. gst' = "READY" /\ pstate' = "STOPPED"
      BY <1>0, <2>3 DEF fsl_player_stop, Stopped
    <3>2. Agree' BY <3>1 DEF Agree
    <3>3. ~Does("ui", "rated")'
      <4>1. t = "ui" \/ ~Has("ui", "rated")
        BY <1>0, <2>3 DEF fsl_player_stop, RateWritten
      <4>2. "ui" \in Threads BY DEF Threads
      <4>3. ~Has("ui", "rated") => ~Does("ui", "rated") BY <2>0, <4>2, HeadIs
      <4>4. t = "ui" => Head(todo["ui"]).o # "play" BY <3>0 DEF Does
      <4>5. QED BY <2>0, <3>0, <4>1, <4>3, <4>4, RatedKept
    <3>4. QED BY <3>2, <3>3 DEF StateInv, RatedPlays
  <2>4. ASSUME NEW t \in Threads, RateSet(t) PROVE StateInv'
    <3>0. Does(t, "rated") /\ todo[t] # <<>> /\ Done(t) /\ t \in Threads
      BY <2>4 DEF RateSet, Does, Threads
    <3>1. t = "ui" /\ pstate = "PLAYING"
      <4>1. t = "ui"
        <5>1. "rated" \notin MsgOps /\ "rated" \notin LoopOps BY DEF MsgOps, LoopOps
        <5>2. QED BY <2>0, <3>0, <5>1, HeadIs DEF Threads
      <4>2. QED BY <2>0, <3>0, <4>1 DEF RatedPlays
    <3>2. Agree'
      BY <2>0, <2>4, <3>1 DEF Agree, RateSet, program, options
    <3>3. ~Does("ui", "rated")'
      <4>1. Head(todo["ui"]).o # "play" BY <3>0, <3>1 DEF Does
      <4>2. QED BY <2>0, <3>0, <3>1, <4>1, RatedKept
    <3>4. QED BY <3>2, <3>3 DEF StateInv, RatedPlays
  <2>5. ASSUME NEW t \in Threads, fsl_player_set_media_location(t) PROVE StateInv'
    <3>0. Does(t, "location") /\ todo[t] # <<>> /\ Done(t) /\ t \in Threads
      BY <2>5 DEF fsl_player_set_media_location, Does, Threads
    <3>1. pstate' = pstate BY <2>5 DEF fsl_player_set_media_location, options, core
    <3>2. Agree' BY <2>0, <2>5 DEF Agree, fsl_player_set_media_location, options, core
    <3>3. Does("ui", "rated")' => Does("ui", "rated")
      <4>1. t = "ui" => Head(todo["ui"]).o # "play" BY <3>0 DEF Does
      <4>2. QED BY <2>0, <3>0, <4>1, RatedKept
    <3>4. QED BY <2>0, <3>1, <3>2, <3>3 DEF StateInv, RatedPlays
  <2>6. ASSUME NEW t \in Threads, Put(t) PROVE StateInv'
    <3>0. Does(t, "put") /\ todo[t] # <<>> /\ Done(t) /\ t \in Threads
      BY <2>6 DEF Put, Does, Threads
    <3>1. pstate' = pstate BY <2>6 DEF Put, put, program, options, core
    <3>2. Agree' BY <2>0, <2>6 DEF Agree, Put, put, program, options, core
    <3>3. Does("ui", "rated")' => Does("ui", "rated")
      <4>1. t = "ui" => Head(todo["ui"]).o # "play" BY <3>0 DEF Does
      <4>2. QED BY <2>0, <3>0, <4>1, RatedKept
    <3>4. QED BY <2>0, <3>1, <3>2, <3>3 DEF StateInv, RatedPlays
  <2>7. ASSUME NEW t \in Threads, flush(t) PROVE StateInv'
    <3>0. Does(t, "flush") /\ todo[t] # <<>> /\ Done(t) /\ t \in Threads
      BY <2>7 DEF flush, Does, Threads
    <3>1. pstate' = pstate BY <2>7 DEF flush, program, options, core
    <3>2. Agree' BY <2>0, <2>7 DEF Agree, flush, program, options, core
    <3>3. Does("ui", "rated")' => Does("ui", "rated")
      <4>1. t = "ui" => Head(todo["ui"]).o # "play" BY <3>0 DEF Does
      <4>2. QED BY <2>0, <3>0, <4>1, RatedKept
    <3>4. QED BY <2>0, <3>1, <3>2, <3>3 DEF StateInv, RatedPlays
  <2>8. ASSUME NEW t \in Threads, Flags(t) PROVE StateInv'
    <3>0. Does(t, "flags") /\ todo[t] # <<>> /\ Done(t) /\ t \in Threads
      BY <2>8 DEF Flags, Does, Threads
    <3>1. pstate' = pstate BY <2>8 DEF Flags, options, core
    <3>2. Agree' BY <2>0, <2>8 DEF Agree, Flags, options, core
    <3>3. Does("ui", "rated")' => Does("ui", "rated")
      <4>1. t = "ui" => Head(todo["ui"]).o # "play" BY <3>0 DEF Does
      <4>2. QED BY <2>0, <3>0, <4>1, RatedKept
    <3>4. QED BY <2>0, <3>1, <3>2, <3>3 DEF StateInv, RatedPlays
  <2>9. ASSUME NEW t \in Threads, Alarm(t) PROVE StateInv'
    <3>0. Does(t, "alarm") /\ todo[t] # <<>> /\ Done(t) /\ t \in Threads
      BY <2>9 DEF Alarm, Does, Threads
    <3>1. pstate' = pstate BY <2>9 DEF Alarm, options, core
    <3>2. Agree' BY <2>0, <2>9 DEF Agree, Alarm, options, core
    <3>3. Does("ui", "rated")' => Does("ui", "rated")
      <4>1. t = "ui" => Head(todo["ui"]).o # "play" BY <3>0 DEF Does
      <4>2. QED BY <2>0, <3>0, <4>1, RatedKept
    <3>4. QED BY <2>0, <3>1, <3>2, <3>3 DEF StateInv, RatedPlays
  <2>10. CASE EosWait
    <3>0. Does("loop", "wait") /\ todo["loop"] # <<>> /\ Done("loop") /\ "loop" \in Threads
      BY <2>10 DEF EosWait, Does, Threads
    <3>1. pstate' = pstate BY <2>10 DEF EosWait, program, options, core
    <3>2. Agree' BY <2>0, <2>10 DEF Agree, EosWait, program, options, core
    <3>3. Does("ui", "rated")' => Does("ui", "rated")
      <4>1. "loop" = "ui" => Head(todo["ui"]).o # "play" BY <3>0 DEF Does
      <4>2. QED BY <2>0, <3>0, <4>1, RatedKept
    <3>4. QED BY <2>0, <3>1, <3>2, <3>3 DEF StateInv, RatedPlays
  <2>11. CASE Buffered
    <3>0. Does("loop", "buffered") /\ todo["loop"] # <<>> /\ Done("loop") /\ "loop" \in Threads
      BY <2>11 DEF Buffered, Does, Threads
    <3>1. /\ lives' = lives /\ pstate' = pstate /\ handle' = handle
          /\ \E p : /\ low' = IF p \in {0, 100} THEN p = 0 ELSE low
                  /\ gst' = IF handle THEN gst
                           ELSE IF p = 0 /\ pstate = "PLAYING" /\ gst = "PLAYING"
                           THEN "PAUSED"
                           ELSE IF p = 100 /\ pstate = "PLAYING" THEN "PLAYING" ELSE gst
      BY <1>0, <2>11 DEF Buffered, Resumes, program, options
    <3>2. Agree' BY <2>0, <3>1 DEF Agree
    <3>3. Does("ui", "rated")' => Does("ui", "rated")
      <4>1. "loop" = "ui" => Head(todo["ui"]).o # "play" BY <3>0 DEF Does
      <4>2. QED BY <2>0, <3>0, <4>1, RatedKept
    <3>4. QED BY <2>0, <3>1, <3>2, <3>3 DEF StateInv, RatedPlays
  <2>12. CASE MsgReturn
    <3>0. Does("msg", "return") /\ todo["msg"] # <<>> /\ Done("msg") /\ "msg" \in Threads
      BY <2>12 DEF MsgReturn, Does, Threads
    <3>1. pstate' = pstate BY <2>12 DEF MsgReturn, options, core
    <3>2. Agree' BY <2>0, <2>12 DEF Agree, MsgReturn, options, core
    <3>3. Does("ui", "rated")' => Does("ui", "rated")
      <4>1. "msg" = "ui" => Head(todo["ui"]).o # "play" BY <3>0 DEF Does
      <4>2. QED BY <2>0, <3>0, <4>1, RatedKept
    <3>4. QED BY <2>0, <3>1, <3>2, <3>3 DEF StateInv, RatedPlays
  <2>13. CASE fsl_player_post_eos_semaphore
    <3>0. Does("msg", "post") /\ todo["msg"] # <<>> /\ Done("msg") /\ "msg" \in Threads
      BY <2>13 DEF fsl_player_post_eos_semaphore, Does, Threads
    <3>1. pstate' = pstate
      BY <2>13 DEF fsl_player_post_eos_semaphore, program, options, core
    <3>2. Agree'
      BY <2>0, <2>13 DEF Agree, fsl_player_post_eos_semaphore, program, options, core
    <3>3. Does("ui", "rated")' => Does("ui", "rated")
      <4>1. "msg" = "ui" => Head(todo["ui"]).o # "play" BY <3>0 DEF Does
      <4>2. QED BY <2>0, <3>0, <4>1, RatedKept
    <3>4. QED BY <2>0, <3>1, <3>2, <3>3 DEF StateInv, RatedPlays
  <2>14. ASSUME NEW t \in Threads, RateStart(t) PROVE StateInv'
    <3>1. pstate' = pstate BY <2>14 DEF RateStart, program, options, core
    <3>2. Agree' BY <2>0, <2>14 DEF Agree, RateStart, program, options, core
    <3>3. ~Does("ui", "rated")'
      <4>1. PICK S \in Seq(Operations) :
             /\ todo' = [todo EXCEPT !["ui"] = S]
             /\ S[1].o \in {"pause", "play"}
        BY <2>0, <2>14, RateStartIs
      <4>2. todo'["ui"] = S BY <2>0, <4>1 DEF TypeOK, Threads
      <4>3. QED BY <4>1, <4>2, NotRated
    <3>4. QED BY <3>2, <3>3 DEF StateInv, RatedPlays
  <2>15. ASSUME NEW t \in Threads, playlist_previous(t) PROVE StateInv'
    <3>1. pstate' = pstate BY <2>15 DEF playlist_previous, options, core
    <3>2. Agree' BY <2>0, <2>15 DEF Agree, playlist_previous, options, core
    <3>3. ~Does("ui", "rated")'
      <4>1. PICK S \in Seq(Operations) :
             /\ todo' = [todo EXCEPT !["ui"] = S]
             /\ \A o : HasOp(S, o) => o \in {"stop", "location", "play"}
        BY <2>0, <2>15, PreviousIs
      <4>2. todo'["ui"] = S BY <2>0, <4>1 DEF TypeOK, Threads
      <4>3. ~HasOp(S, "rated") BY <4>1
      <4>4. S # <<>> => S[1].o # "rated"
        <5> SUFFICES ASSUME S # <<>> PROVE S[1].o # "rated" OBVIOUS
        <5>1. 1 \in 1..Len(S) BY TailIs
        <5>2. QED BY <4>3, <5>1 DEF HasOp
      <4>5. QED BY <4>1, <4>2, <4>4, NotRated
    <3>4. QED BY <3>2, <3>3 DEF StateInv, RatedPlays
  <2>16. CASE Command
    <3>1. pstate' = pstate BY <2>16 DEF Command, Reads, options, core
    <3>2. Agree' BY <2>0, <2>16 DEF Agree, Command, Reads, options, core
    <3>3. ~Does("ui", "rated")'
      <4>1. PICK S \in Seq(Operations) :
             todo' = [todo EXCEPT !["ui"] = S] /\ S[1].o # "rated"
        BY <2>16, CommandPrograms DEF Command
      <4>2. todo'["ui"] = S BY <2>0, <4>1 DEF TypeOK, Threads
      <4>3. QED BY <4>1, <4>2, NotRated
    <3>4. QED BY <3>2, <3>3 DEF StateInv, RatedPlays
  <2>17. CASE NextCommand
    <3>1. pstate' = pstate BY <2>17 DEF NextCommand, Reads, playlist_next, core
    <3>2. Agree' BY <2>0, <2>17 DEF Agree, NextCommand, Reads, playlist_next, core
    <3>3. ~Does("ui", "rated")'
      <4>1. todo' = [todo EXCEPT !["ui"] = NextProgram] BY <2>17 DEF NextCommand
      <4>2. todo'["ui"] = NextProgram BY <2>0, <4>1 DEF TypeOK, Threads
      <4>3. NextProgram \in {Restart, player_exit} BY DEF NextProgram
      <4>4. NextProgram \in Seq(Operations)
        <5>1. <<Op("flags"), Op("stop"), Op("flush"), Op("alarm")>> \in Seq(Operations)
          BY OpTypes
        <5>2. player_exit \in Seq(Operations) BY <5>1, Programs, Zenon
        <5>3. QED BY <4>3, <5>2, RestartPrograms
      <4>5. NextProgram[1].o # "rated"
        <5>1. player_exit[1].o = "flags" BY Programs DEF Op
        <5>2. QED BY <4>3, <5>1, RestartPrograms
      <4>6. QED BY <4>2, <4>4, <4>5, NotRated
    <3>4. QED BY <3>2, <3>3 DEF StateInv, RatedPlays
  <2>18. CASE my_bus_callback
    <3>1. pstate' = pstate BY <2>18 DEF my_bus_callback, program, options, core
    <3>2. Agree' BY <2>0, <2>18 DEF Agree, my_bus_callback, program, options, core
    <3>3. todo'["ui"] = todo["ui"]
      <4>1. PICK S \in Seq(Operations) : todo' = [todo EXCEPT !["loop"] = S]
        BY <2>0, <2>18, BusIs
      <4>2. QED BY <2>0, <4>1 DEF TypeOK, Threads
    <3>4. QED BY <2>0, <3>1, <3>2, <3>3 DEF StateInv, RatedPlays, Does
  <2>19. CASE MsgGet
    <3>1. pstate' = pstate BY <2>19 DEF MsgGet, options, core
    <3>2. Agree' BY <2>0, <2>19 DEF Agree, MsgGet, options, core
    <3>3. todo'["ui"] = todo["ui"]
      <4>1. PICK S \in Seq(Operations) : todo' = [todo EXCEPT !["msg"] = S]
        BY <2>0, <2>19, MsgGetIs
      <4>2. QED BY <2>0, <4>1 DEF TypeOK, Threads
    <3>4. QED BY <2>0, <3>1, <3>2, <3>3 DEF StateInv, RatedPlays, Does
  <2>20. CASE MsgNext
    <3>1. pstate' = pstate BY <2>20 DEF MsgNext, playlist_next, core
    <3>2. Agree' BY <2>0, <2>20 DEF Agree, MsgNext, playlist_next, core
    <3>3. todo'["ui"] = todo["ui"]
      <4>1. PICK S \in Seq(Operations) : todo' = [todo EXCEPT !["msg"] = S]
        BY <2>0, <2>20, MsgNextIs
      <4>2. QED BY <2>0, <4>1 DEF TypeOK, Threads
    <3>4. QED BY <2>0, <3>1, <3>2, <3>3 DEF StateInv, RatedPlays, Does
  <2>21. CASE MsgCheck
    <3>1. pstate' = pstate BY <2>21 DEF MsgCheck, options, core
    <3>2. Agree' BY <2>0, <2>21 DEF Agree, MsgCheck, options, core
    <3>3. todo'["ui"] = todo["ui"]
      BY <2>0, <2>21 DEF MsgCheck, Done, Then, TypeOK, Threads
    <3>4. QED BY <2>0, <3>1, <3>2, <3>3 DEF StateInv, RatedPlays, Does
  <2>22. CASE LoopEnds
    <3>1. pstate' = pstate BY <2>22 DEF LoopEnds, options, core
    <3>2. Agree' BY <2>0, <2>22 DEF Agree, LoopEnds, options, core
    <3>3. todo'["ui"] = todo["ui"] BY <2>22 DEF LoopEnds, options, core
    <3>4. QED BY <2>0, <3>1, <3>2, <3>3 DEF StateInv, RatedPlays, Does
  <2>23. CASE fsl_player_deinit
    <3>1. pstate' = pstate BY <2>23 DEF fsl_player_deinit, options
    <3>2. Agree' BY <2>0, <2>23 DEF Agree, fsl_player_deinit, options
    <3>3. todo'["ui"] = todo["ui"] BY <2>23 DEF fsl_player_deinit, options
    <3>4. QED BY <2>0, <3>1, <3>2, <3>3 DEF StateInv, RatedPlays, Does
  <2>24. CASE MainEnds
    <3>1. pstate' = pstate BY <2>24 DEF MainEnds, options, core
    <3>2. Agree' BY <2>0, <2>24 DEF Agree, MainEnds, options, core
    <3>3. todo'["ui"] = todo["ui"] BY <2>24 DEF MainEnds, options, core
    <3>4. QED BY <2>0, <3>1, <3>2, <3>3 DEF StateInv, RatedPlays, Does
  <2>25. CASE EndOfFile
    <3>1. pstate' = pstate BY <2>25 DEF EndOfFile, Emit, options
    <3>2. Agree' BY <2>0, <2>25 DEF Agree, EndOfFile, Emit, options
    <3>3. todo'["ui"] = todo["ui"] BY <2>25 DEF EndOfFile, Emit, options
    <3>4. QED BY <2>0, <3>1, <3>2, <3>3 DEF StateInv, RatedPlays, Does
  <2>26. CASE PipelineError
    <3>1. pstate' = pstate BY <2>26 DEF PipelineError, Emit, options
    <3>2. Agree' BY <2>0, <2>26 DEF Agree, PipelineError, Emit, options
    <3>3. todo'["ui"] = todo["ui"] BY <2>26 DEF PipelineError, Emit, options
    <3>4. QED BY <2>0, <3>1, <3>2, <3>3 DEF StateInv, RatedPlays, Does
  <2>27. ASSUME NEW p \in Percents, Buffering(p) PROVE StateInv'
    <3>1. pstate' = pstate BY <2>27 DEF Buffering, Emit, options
    <3>2. Agree' BY <2>0, <2>27 DEF Agree, Buffering, Emit, options
    <3>3. todo'["ui"] = todo["ui"] BY <2>27 DEF Buffering, Emit, options
    <3>4. QED BY <2>0, <3>1, <3>2, <3>3 DEF StateInv, RatedPlays, Does
  <2>28. CASE UNCHANGED vars
    BY <2>0, <2>28 DEF StateInv, Agree, RatedPlays, Does, vars
  <2>29. QED
    BY <2>1, <2>2, <2>3, <2>4, <2>5, <2>6, <2>7, <2>8, <2>9, <2>10, <2>11, <2>12, <2>13,
      <2>14, <2>15, <2>16, <2>17, <2>18, <2>19, <2>20, <2>21, <2>22, <2>23, <2>24,
      <2>25, <2>26, <2>27, <2>28
    DEF Next, Step, Loop, Msg, Pipeline
<1>3. QED BY <1>1, <1>2, BaseInvariant, PTL DEF Spec

(* While the changes of state that the core asks for succeed and no other  *)
(* thread comes between the rate command's play and its unprotected write  *)
(* of player_state, player_state tells what the pipeline does: a stopped   *)
(* player never plays on, a paused one is not resumed by buffering, and a  *)
(* playing one plays unless its buffer is low.                             *)
THEOREM StatesAgree ==
  ASSUME "fail" \notin Allowed, "rate_race" \notin Allowed
  PROVE  Spec => []StateTruth
<1>1. StateInv => StateTruth BY DEF StateInv, Agree, StateTruth
<1>2. QED BY <1>1, StateInvariant, PTL

-----------------------------------------------------------------------------
(***************************************************************************)
(* The file that plays.  While no command has met the message thread's     *)
(* work, only one of the two moves the cursor, the uri or the pipeline;    *)
(* where they differ, a thread is on its way through stop and location.    *)
(***************************************************************************)
Down == gst \in {"NULL", "READY"} /\ pstate = "STOPPED"

(* A thread is about to stop and then to set the location.                 *)
Restarts(t) == Does(t, "stop") /\ Len(todo[t]) > 1 /\ todo[t][2].o = "location"

Movers == {"ui", "msg"}

OneMover ==
  todo["ui"] # <<>> => \A o \in {"location", "play", "pause", "next"} : ~Has("msg", o)
UriKnown == uri # cur => \E t \in Movers : (Does(t, "location") /\ Down) \/ Restarts(t)
ActiveKnown == active \notin {0, cur} => Down \/ \E t \in Movers : Restarts(t)

(* The rate command has played what is current before it writes its state, *)
(* which may undo the effect of another thread's stop.                     *)
RateKnown ==
  Has("ui", "rated") => active \in {0, cur} \/ (Down /\ ~Does("ui", "rated"))

ItemInv == ~raced => OneMover /\ UriKnown /\ ActiveKnown /\ RateKnown

(* What a thread is about to do, it has to do.                             *)
LEMMA PlannedHas ==
  ASSUME TypeOK, Shapes, NEW t \in Threads
  PROVE  /\ \A o : Does(t, o) => Has(t, o)
         /\ Restarts(t) => Has(t, "stop") /\ Has(t, "location")
         /\ todo[t] = <<>> => \A o : ~Has(t, o)
<1>1. \A o : Does(t, o) => Has(t, o) BY HeadIs
<1>2. Restarts(t) => Has(t, "location")
  <2> SUFFICES ASSUME Restarts(t) PROVE Has(t, "location") OBVIOUS
  <2>1. todo[t] \in Seq(Operations) BY DEF TypeOK
  <2>2. Len(todo[t]) > 1 /\ todo[t][2].o = "location" BY DEF Restarts
  <2>3. 2 \in 1..Len(todo[t]) BY <2>1, <2>2
  <2>4. QED BY <2>2, <2>3 DEF Has
<1>3. todo[t] = <<>> => \A o : ~Has(t, o) BY DEF Has
<1>4. QED BY <1>1, <1>2, <1>3 DEF Restarts

(* The plans of the threads when one of them has done its first operation. *)
LEMMA PlansKept ==
  ASSUME TypeOK, Shapes, NEW t \in Threads, NEW o, Does(t, o), Done(t)
  PROVE  /\ \A u \in Threads : \A x : Has(u, x)' => Has(u, x)
         /\ todo'["ui"] # <<>> => todo["ui"] # <<>>
         /\ \A u \in Threads \ {t} : /\ Does(u, "location") => Does(u, "location")'
                                     /\ Restarts(u) => Restarts(u)'
         /\ o # "location" => ~Does(t, "location")
         /\ o # "stop" => ~Restarts(t)
         /\ Restarts(t) => Does(t, "location")'
         /\ o # "play" => (Does("ui", "rated")' => Does("ui", "rated"))
<1>0. todo[t] # <<>> /\ Head(todo[t]).o = o BY DEF Does
<1>1. /\ todo'[t] = Tail(todo[t]) /\ \A u \in Threads \ {t} : todo'[u] = todo[u]
      /\ \A u \in Threads : \A x : Has(u, x)' => Has(u, x)
  BY <1>0, DoneFacts
<1>2. todo'["ui"] # <<>> => todo["ui"] # <<>> BY <1>0, <1>1 DEF Threads
<1>3. \A u \in Threads \ {t} : /\ Does(u, "location") => Does(u, "location")'
                               /\ Restarts(u) => Restarts(u)'
  BY <1>1 DEF Does, Restarts
<1>4. o # "location" => ~Does(t, "location") BY <1>0 DEF Does
<1>5. o # "stop" => ~Restarts(t) BY <1>0 DEF Restarts, Does
<1>6. Restarts(t) => Does(t, "location")'
  <2> SUFFICES ASSUME Restarts(t) PROVE Does(t, "location")' OBVIOUS
  <2> DEFINE S == todo[t]
             U == Tail(S)
  <2>1. S \in Seq(Operations) /\ Len(S) > 1 /\ S[2].o = "location"
    BY DEF TypeOK, Restarts
  <2>2. /\ Len(U) = Len(S) - 1 /\ U \in Seq(Operations) /\ Len(S) \in Nat
        /\ \A i \in 1..Len(U) : U[i] = S[i + 1]
    BY <1>0, <2>1, TailIs
  <2> HIDE DEF U
  <2>3. 1 \in 1..Len(U) BY <2>1, <2>2
  <2>4. U[1] = S[1 + 1] BY <2>2, <2>3
  <2>5. U # <<>>
    <3>1. Len(<<>>) = 0 OBVIOUS
    <3>2. Len(U) # 0 BY <2>3
    <3>3. QED BY <3>1, <3>2, Zenon
  <2>6. Head(U).o = "location"
    <3>1. Head(U) = U[1] BY <2>2, <2>5, TailIs
    <3>2. QED BY <2>1, <2>4, <3>1
  <2>7. todo'[t] = U BY <1>1 DEF U
  <2>8. QED BY <2>5, <2>6, <2>7 DEF Does
<1>7. o # "play" => (Does("ui", "rated")' => Does("ui", "rated"))
  BY <1>0, RatedKept
<1>8. QED BY <1>1, <1>2, <1>3, <1>4, <1>5, <1>6, <1>7, Zenon

(* An operation that touches neither the pipeline nor the cursor.          *)
LEMMA ItemDone ==
  ASSUME TypeOK, Shapes, ItemInv, NEW t \in Threads, NEW o, Does(t, o), Done(t),
         o \notin {"stop", "location", "play"},
         Down => Down', uri' = uri, cur' = cur, active' = active, raced' = raced
  PROVE  ItemInv'
<1> SUFFICES ASSUME ~raced PROVE OneMover' /\ UriKnown' /\ ActiveKnown' /\ RateKnown'
  BY DEF ItemInv
<1>0. OneMover /\ UriKnown /\ ActiveKnown /\ RateKnown BY DEF ItemInv
<1>1. /\ \A u \in Threads : \A x : Has(u, x)' => Has(u, x)
      /\ todo'["ui"] # <<>> => todo["ui"] # <<>>
      /\ \A u \in Threads : /\ Does(u, "location") => Does(u, "location")'
                            /\ Restarts(u) => Restarts(u)'
      /\ Does("ui", "rated")' => Does("ui", "rated")
  BY PlansKept
<1>2. "ui" \in Threads /\ "msg" \in Threads /\ Movers \subseteq Threads
  BY DEF Threads, Movers
<1>3. OneMover' BY <1>0, <1>1, <1>2 DEF OneMover
<1>4. UriKnown' BY <1>0, <1>1, <1>2 DEF UriKnown
<1>5. ActiveKnown' BY <1>0, <1>1, <1>2 DEF ActiveKnown
<1>6. RateKnown' BY <1>0, <1>1, <1>2 DEF RateKnown
<1>7. QED BY <1>3, <1>4, <1>5, <1>6

(* A step of the pipeline, of its callback, or of a thread that ends.      *)
LEMMA ItemSame ==
  ASSUME ItemInv, todo'["ui"] = todo["ui"], todo'["msg"] = todo["msg"],
         Down => Down', uri' = uri, cur' = cur, active' \in {0, active}, raced' = raced
  PROVE  ItemInv'
<1> SUFFICES ASSUME ~raced PROVE OneMover' /\ UriKnown' /\ ActiveKnown' /\ RateKnown'
  BY DEF ItemInv
<1>0. OneMover /\ UriKnown /\ ActiveKnown /\ RateKnown BY DEF ItemInv
<1>1. /\ \A u \in Movers : \A o : Does(u, o)' <=> Does(u, o)
      /\ \A u \in Movers : \A o : Has(u, o)' <=> Has(u, o)
      /\ \A u \in Movers : Restarts(u)' <=> Restarts(u)
  BY DEF Does, Has, Restarts, Movers
<1>2. "ui" \in Movers /\ "msg" \in Movers BY DEF Movers
<1>3. OneMover' BY <1>0, <1>1, <1>2 DEF OneMover
<1>4. UriKnown' BY <1>0, <1>1 DEF UriKnown
<1>5. ActiveKnown' BY <1>0, <1>1 DEF ActiveKnown
<1>6. RateKnown' BY <1>0, <1>1, <1>2 DEF RateKnown
<1>7. QED BY <1>3, <1>4, <1>5, <1>6

(* A thread that plays or pauses finds the uri of the current file.        *)
LEMMA UriIsCurrent ==
  ASSUME TypeOK, Shapes, OneMover, UriKnown, NEW t \in Movers, NEW o, Does(t, o),
         t = "ui" => o \notin {"stop", "location"}, t = "msg" => o \in {"play", "pause", "next"}
  PROVE  /\ uri = cur /\ ~Restarts("ui") /\ ~Restarts("msg")
         /\ t = "msg" => todo["ui"] = <<>>
<1>0. "ui" \in Threads /\ "msg" \in Threads /\ t \in Threads BY DEF Threads, Movers
<1>1. /\ \A u \in Threads : \A x : Does(u, x) => Has(u, x)
      /\ \A u \in Threads : Restarts(u) => Has(u, "location")
  BY PlannedHas
<1>2. todo[t] # <<>> /\ Head(todo[t]).o = o BY DEF Does
<1>3. CASE t = "ui"
  <2>1. ~Does("msg", "location") /\ ~Restarts("msg")
    BY <1>0, <1>1, <1>2, <1>3 DEF OneMover
  <2>2. ~Does("ui", "location") /\ ~Restarts("ui") BY <1>2, <1>3 DEF Does, Restarts
  <2>3. QED BY <1>3, <2>1, <2>2 DEF UriKnown, Movers
<1>4. CASE t = "msg"
  <2>1. todo["ui"] = <<>> BY <1>0, <1>1, <1>4 DEF OneMover
  <2>2. ~Does("ui", "location") /\ ~Restarts("ui") BY <2>1 DEF Does, Restarts
  <2>3. ~Does("msg", "location") /\ ~Restarts("msg") BY <1>2, <1>4 DEF Does, Restarts
  <2>4. QED BY <2>1, <2>2, <2>3 DEF UriKnown, Movers
<1>5. QED BY <1>3, <1>4 DEF Movers

(* The invariant holds when the pipeline's changes of state succeed.       *)
LEMMA ItemInvariant ==
  ASSUME "fail" \notin Allowed
  PROVE  Spec => []ItemInv
<1>0. Outcomes("fail") = {TRUE} BY DEF Outcomes, May
<1>1. Init => ItemInv
  <2> SUFFICES ASSUME Init PROVE OneMover /\ UriKnown /\ ActiveKnown /\ RateKnown
    BY DEF ItemInv
  <2>1. todo["ui"] = <<Op("location"), Op("play")>> /\ todo["msg"] = <<Op("check")>>
    <3>1. todo["ui"] = Ops(<<"location", "play">>) /\ todo["msg"] = Ops(<<"check">>)
      BY DEF Init, Threads
    <3>2. QED BY <3>1, Programs, Zenon
  <2>2. /\ Len(todo["ui"]) = 2 /\ todo["ui"][1].o = "location" /\ todo["ui"][2].o = "play"
        /\ Len(todo["msg"]) = 1 /\ todo["msg"][1].o = "check"
        /\ todo["ui"] # <<>> /\ Head(todo["ui"]).o = "location"
    BY <2>1 DEF Op
  <2>3. OneMover BY <2>2 DEF OneMover, Has
  <2>4. UriKnown
    <3>1. Does("ui", "location") BY <2>2 DEF Does
    <3>2. Down BY DEF Init, Down
    <3>3. QED BY <3>1, <3>2 DEF UriKnown, Movers
  <2>5. ActiveKnown BY DEF Init, ActiveKnown
  <2>6. RateKnown BY DEF Init, RateKnown
  <2>7. QED BY <2>3, <2>4, <2>5, <2>6
<1>2. BaseInv /\ ItemInv /\ [Next]_vars => ItemInv'
  <2> SUFFICES ASSUME BaseInv, ItemInv, [Next]_vars PROVE ItemInv' OBVIOUS
  <2>0. /\ TypeOK /\ Shapes /\ ItemInv
        /\ "ui" \in Threads /\ "msg" \in Threads /\ "loop" \in Threads
    BY DEF BaseInv, Threads
  <2>1. ASSUME NEW t \in Threads, fsl_player_play(t) PROVE ItemInv'
    <3>1. Does(t, "play") /\ Done(t) BY <2>1 DEF fsl_player_play
    <3>2. /\ uri' = uri /\ cur' = cur /\ raced' = raced /\ gst' \in {"PLAYING", "PAUSED"}
          /\ active' = IF gst \in {"NULL", "READY"} THEN uri ELSE active
      BY <1>0, <2>1 DEF fsl_player_play, Load, program
    <3> SUFFICES ASSUME ~raced PROVE OneMover' /\ UriKnown' /\ ActiveKnown' /\ RateKnown'
      BY <3>2 DEF ItemInv
    <3>0. OneMover /\ UriKnown /\ ActiveKnown /\ RateKnown BY <2>0 DEF ItemInv
    <3>3. /\ \A u \in Threads : \A x : Has(u, x)' => Has(u, x)
          /\ todo'["ui"] # <<>> => todo["ui"] # <<>>
      BY <2>0, <3>1, PlansKept
    <3>4. t \in Movers
      <4>1. "play" \notin LoopOps BY DEF LoopOps
      <4>2. QED BY <2>0, <3>1, <4>1, HeadIs DEF Threads, Movers
    <3>5. uri = cur /\ ~Restarts("ui") /\ ~Restarts("msg")
      BY <2>0, <3>0, <3>1, <3>4, UriIsCurrent
    <3>6. active' \in {0, cur} BY <3>0, <3>2, <3>5 DEF ActiveKnown, Down, Movers
    <3>7. OneMover' BY <2>0, <3>0, <3>3 DEF OneMover
    <3>8. UriKnown' BY <3>2, <3>5 DEF UriKnown
    <3>9. ActiveKnown' /\ RateKnown' BY <3>2, <3>6 DEF ActiveKnown, RateKnown
    <3>10. QED BY <3>7, <3>8, <3>9
  <2>2. ASSUME NEW t \in Threads, fsl_player_pause(t) PROVE ItemInv'
    <3>1. Does(t, "pause") /\ Done(t) BY <2>2 DEF fsl_player_pause
    <3>2. /\ uri' = uri /\ cur' = cur /\ raced' = raced /\ gst' \in {"PLAYING", "PAUSED"}
          /\ active' = IF gst \in {"NULL", "READY"} THEN uri ELSE active
      BY <1>0, <2>2 DEF fsl_player_pause, Load, program
    <3> SUFFICES ASSUME ~raced PROVE OneMover' /\ UriKnown' /\ ActiveKnown' /\ RateKnown'
      BY <3>2 DEF ItemInv
    <3>0. OneMover /\ UriKnown /\ ActiveKnown /\ RateKnown BY <2>0 DEF ItemInv
    <3>3. /\ \A u \in Threads : \A x : Has(u, x)' => Has(u, x)
          /\ todo'["ui"] # <<>> => todo["ui"] # <<>>
      BY <2>0, <3>1, PlansKept
    <3>4. t \in Movers
      <4>1. "pause" \notin LoopOps BY DEF LoopOps
      <4>2. QED BY <2>0, <3>1, <4>1, HeadIs DEF Threads, Movers
    <3>5. uri = cur /\ ~Restarts("ui") /\ ~Restarts("msg")
      BY <2>0, <3>0, <3>1, <3>4, UriIsCurrent
    <3>6. active' \in {0, cur} BY <3>0, <3>2, <3>5 DEF ActiveKnown, Down, Movers
    <3>7. OneMover' BY <2>0, <3>0, <3>3 DEF OneMover
    <3>8. UriKnown' BY <3>2, <3>5 DEF UriKnown
    <3>9. ActiveKnown' /\ RateKnown' BY <3>2, <3>6 DEF ActiveKnown, RateKnown
    <3>10. QED BY <3>7, <3>8, <3>9
  <2>3. ASSUME NEW t \in Threads, fsl_player_stop(t) PROVE ItemInv'
    <3>1. Does(t, "stop") /\ Done(t) BY <2>3 DEF fsl_player_stop
    <3>2. /\ uri' = uri /\ cur' = cur /\ raced' = raced /\ active' = active
          /\ gst' = "READY" /\ pstate' = "STOPPED"
      BY <1>0, <2>3 DEF fsl_player_stop, Stopped, program
    <3> SUFFICES ASSUME ~raced PROVE OneMover' /\ UriKnown' /\ ActiveKnown' /\ RateKnown'
      BY <3>2 DEF ItemInv
    <3>0. OneMover /\ UriKnown /\ ActiveKnown /\ RateKnown BY <2>0 DEF ItemInv
    <3>3. /\ \A u \in Threads : \A x : Has(u, x)' => Has(u, x)
          /\ todo'["ui"] # <<>> => todo["ui"] # <<>>
          /\ \A u \in Threads \ {t} : /\ Does(u, "location") => Does(u, "location")'
                                      /\ Restarts(u) => Restarts(u)'
          /\ ~Does(t, "location") /\ (Restarts(t) => Does(t, "location")')
          /\ Does("ui", "rated")' => Does("ui", "rated")
      BY <2>0, <3>1, PlansKept
    <3>4. Down' BY <3>2 DEF Down
    <3>5. OneMover' BY <2>0, <3>0, <3>3 DEF OneMover
    <3>6. UriKnown'
      <4> SUFFICES ASSUME uri # cur
                   PROVE  \E u \in Movers : Does(u, "location")' \/ Restarts(u)'
        BY <3>2, <3>4 DEF UriKnown
      <4>1. PICK u \in Movers : Does(u, "location") \/ Restarts(u) BY <3>0 DEF UriKnown
      <4>2. u \in Threads BY DEF Movers, Threads
      <4>3. QED BY <3>3, <4>1, <4>2
    <3>7. ActiveKnown' BY <3>4 DEF ActiveKnown
    <3>8. RateKnown' BY <2>0, <3>0, <3>2, <3>3, <3>4 DEF RateKnown
    <3>9. QED BY <3>5, <3>6, <3>7, <3>8
  <2>4. ASSUME NEW t \in Threads, RateSet(t) PROVE ItemInv'
    <3>1. Does(t, "rated") /\ Done(t) BY <2>4 DEF RateSet
    <3>2. /\ uri' = uri /\ cur' = cur /\ raced' = raced /\ active' = active
      BY <2>4 DEF RateSet, program
    <3> SUFFICES ASSUME ~raced PROVE OneMover' /\ UriKnown' /\ ActiveKnown' /\ RateKnown'
      BY <3>2 DEF ItemInv
    <3>0. OneMover /\ UriKnown /\ ActiveKnown /\ RateKnown BY <2>0 DEF ItemInv
    <3>3. /\ \A u \in Threads : \A x : Has(u, x)' => Has(u, x)
          /\ todo'["ui"] # <<>> => todo["ui"] # <<>>
      BY <2>0, <3>1, PlansKept
    <3>4. t = "ui"
      <4>1. "rated" \notin MsgOps /\ "rated" \notin LoopOps BY DEF MsgOps, LoopOps
      <4>2. QED BY <2>0, <3>1, <4>1, HeadIs DEF Threads
    <3>5. uri = cur BY <2>0, <3>0, <3>1, <3>4, UriIsCurrent DEF Movers
    <3>6. active \in {0, cur} BY <2>0, <3>0, <3>1, <3>4, PlannedHas DEF RateKnown
    <3>7. OneMover' BY <2>0, <3>0, <3>3 DEF OneMover
    <3>8. UriKnown' /\ ActiveKnown' /\ RateKnown'
      BY <3>2, <3>5, <3>6 DEF UriKnown, ActiveKnown, RateKnown
    <3>9. QED BY <3>7, <3>8
  <2>5. ASSUME NEW t \in Threads, fsl_player_set_media_location(t) PROVE ItemInv'
    <3>1. Does(t, "location") /\ Done(t) BY <2>5 DEF fsl_player_set_media_location
    <3>2. /\ uri' = cur /\ cur' = cur /\ raced' = raced /\ active' = active
          /\ gst' = gst /\ pstate' = pstate
      BY <2>5 DEF fsl_player_set_media_location, core
    <3> SUFFICES ASSUME ~raced PROVE OneMover' /\ UriKnown' /\ ActiveKnown' /\ RateKnown'
      BY <3>2 DEF ItemInv
    <3>0. OneMover /\ UriKnown /\ ActiveKnown /\ RateKnown BY <2>0 DEF ItemInv
    <3>3. /\ \A u \in Threads : \A x : Has(u, x)' => Has(u, x)
          /\ todo'["ui"] # <<>> => todo["ui"] # <<>>
          /\ \A u \in Threads \ {t} : /\ Does(u, "location") => Does(u, "location")'
                                      /\ Restarts(u) => Restarts(u)'
          /\ ~Restarts(t)
          /\ Does("ui", "rated")' => Does("ui", "rated")
      BY <2>0, <3>1, PlansKept
    <3>4. Movers \subseteq Threads /\ (Down' <=> Down) BY <3>2 DEF Movers, Threads, Down
    <3>5. OneMover' BY <2>0, <3>0, <3>3 DEF OneMover
    <3>6. UriKnown' BY <3>2 DEF UriKnown
    <3>7. ActiveKnown' BY <3>0, <3>2, <3>3, <3>4 DEF ActiveKnown
    <3>8. RateKnown' BY <2>0, <3>0, <3>2, <3>3, <3>4 DEF RateKnown
    <3>9. QED BY <3>5, <3>6, <3>7, <3>8
  <2>6. ASSUME NEW t \in Threads, Put(t) PROVE ItemInv'
    <3>1. Does(t, "put") /\ Done(t) BY <2>6 DEF Put
    <3>2. /\ uri' = uri /\ cur' = cur /\ raced' = raced /\ active' = active
          /\ Down => Down'
      BY <2>6 DEF Put, put, program, options, core, Down
    <3>3. QED BY <2>0, <3>1, <3>2, ItemDone
  <2>7. ASSUME NEW t \in Threads, flush(t) PROVE ItemInv'
    <3>1. Does(t, "flush") /\ Done(t) BY <2>7 DEF flush
    <3>2. /\ uri' = uri /\ cur' = cur /\ raced' = raced /\ active' = active
          /\ Down => Down'
      BY <2>7 DEF flush, program, options, core, Down
    <3>3. QED BY <2>0, <3>1, <3>2, ItemDone
  <2>8. ASSUME NEW t \in Threads, Flags(t) PROVE ItemInv'
    <3>1. Does(t, "flags") /\ Done(t) BY <2>8 DEF Flags
    <3>2. /\ uri' = uri /\ cur' = cur /\ raced' = raced /\ active' = active
          /\ Down => Down'
      BY <2>8 DEF Flags, options, core, Down
    <3>3. QED BY <2>0, <3>1, <3>2, ItemDone
  <2>9. ASSUME NEW t \in Threads, Alarm(t) PROVE ItemInv'
    <3>1. Does(t, "alarm") /\ Done(t) BY <2>9 DEF Alarm
    <3>2. /\ uri' = uri /\ cur' = cur /\ raced' = raced /\ active' = active
          /\ Down => Down'
      BY <2>9 DEF Alarm, options, core, Down
    <3>3. QED BY <2>0, <3>1, <3>2, ItemDone
  <2>10. CASE EosWait
    <3>1. Does("loop", "wait") /\ Done("loop") BY <2>10 DEF EosWait
    <3>2. /\ uri' = uri /\ cur' = cur /\ raced' = raced /\ active' = active
          /\ Down => Down'
      BY <2>10 DEF EosWait, program, options, core, Down
    <3>3. QED BY <2>0, <3>1, <3>2, ItemDone
  <2>11. CASE Buffered
    <3>1. Does("loop", "buffered") /\ Done("loop") BY <2>11 DEF Buffered
    <3>2. /\ uri' = uri /\ cur' = cur /\ raced' = raced /\ active' = active
          /\ Down => Down'
      BY <2>11 DEF Buffered, program, options, Down, Resumes
    <3>3. QED BY <2>0, <3>1, <3>2, ItemDone
  <2>12. CASE MsgReturn
    <3>1. Does("msg", "return") /\ Done("msg") BY <2>12 DEF MsgReturn
    <3>2. /\ uri' = uri /\ cur' = cur /\ raced' = raced /\ active' = active
          /\ Down => Down'
      BY <2>12 DEF MsgReturn, options, core, Down
    <3>3. QED BY <2>0, <3>1, <3>2, ItemDone
  <2>13. CASE fsl_player_post_eos_semaphore
    <3>1. Does("msg", "post") /\ Done("msg") BY <2>13 DEF fsl_player_post_eos_semaphore
    <3>2. /\ uri' = uri /\ cur' = cur /\ raced' = raced /\ active' = active
          /\ Down => Down'
      BY <2>13 DEF fsl_player_post_eos_semaphore, program, options, core, Down
    <3>3. QED BY <2>0, <3>1, <3>2, ItemDone
  <2>14. ASSUME NEW t \in Threads, RateStart(t) PROVE ItemInv'
    <3>1. t = "ui" /\ todo["ui"] # <<>> /\ Does("ui", "rate")
      BY <2>0, <2>14, RateStartIs DEF RateStart
    <3>2. /\ uri' = uri /\ cur' = cur /\ raced' = raced /\ active' = active
          /\ Down' <=> Down
      BY <2>14 DEF RateStart, core, program, Down
    <3> SUFFICES ASSUME ~raced PROVE OneMover' /\ UriKnown' /\ ActiveKnown' /\ RateKnown'
      BY <3>2 DEF ItemInv
    <3>0. OneMover /\ UriKnown /\ ActiveKnown /\ RateKnown BY <2>0 DEF ItemInv
    <3>3. PICK S \in Seq(Operations) :
            todo' = [todo EXCEPT !["ui"] = S] /\ S[1].o \in {"pause", "play"}
      BY <2>0, <2>14, RateStartIs
    <3>4. /\ todo'["ui"] = S /\ todo'["msg"] = todo["msg"]
          /\ \A x : Has("ui", x)' <=> HasOp(S, x)
          /\ \A x : Has("msg", x)' <=> Has("msg", x)
          /\ \A x : Does("msg", x)' <=> Does("msg", x)
          /\ Restarts("msg")' <=> Restarts("msg")
      <4>1. /\ todo'["ui"] = S /\ todo'["msg"] = todo["msg"]
        BY <2>0, <3>3 DEF TypeOK, Threads
      <4>2. QED BY <4>1 DEF Has, HasOp, Does, Restarts
    <3>5. uri = cur /\ ~Restarts("ui") /\ ~Restarts("msg")
      BY <2>0, <3>0, <3>1, UriIsCurrent DEF Movers
    <3>6. active \in {0, cur} \/ Down BY <3>0, <3>5 DEF ActiveKnown, Movers
    <3>7. ~Does("ui", "rated")' BY <3>3, <3>4, NotRated
    <3>8. OneMover' BY <3>0, <3>1, <3>4 DEF OneMover
    <3>9. UriKnown' /\ ActiveKnown' /\ RateKnown'
      BY <3>2, <3>5, <3>6, <3>7 DEF UriKnown, ActiveKnown, RateKnown
    <3>10. QED BY <3>8, <3>9
  <2>15. ASSUME NEW t \in Threads, playlist_previous(t) PROVE ItemInv'
    <3>1. t = "ui" /\ todo["ui"] # <<>> /\ Does("ui", "prev")
      BY <2>0, <2>15, PreviousIs DEF playlist_previous
    <3>2. /\ uri' = uri /\ raced' = raced /\ active' = active /\ (Down' <=> Down)
      BY <2>15 DEF playlist_previous, core, Down
    <3> SUFFICES ASSUME ~raced PROVE OneMover' /\ UriKnown' /\ ActiveKnown' /\ RateKnown'
      BY <3>2 DEF ItemInv
    <3>0. OneMover /\ UriKnown /\ ActiveKnown /\ RateKnown BY <2>0 DEF ItemInv
    <3>3. PICK S \in Seq(Operations) :
            /\ todo' = [todo EXCEPT !["ui"] = S]
            /\ \A o : HasOp(S, o) => o \in {"stop", "location", "play"}
            /\ cur' # cur =>
                 S # <<>> /\ S[1].o = "stop" /\ Len(S) > 2 /\ S[2].o = "location"
      BY <2>0, <2>15, PreviousIs
    <3>4. /\ todo'["ui"] = S /\ todo'["msg"] = todo["msg"]
          /\ \A x : Has("ui", x)' <=> HasOp(S, x)
          /\ \A x : Has("msg", x)' <=> Has("msg", x)
          /\ \A x : Does("msg", x)' <=> Does("msg", x)
          /\ Restarts("msg")' <=> Restarts("msg")
      <4>1. /\ todo'["ui"] = S /\ todo'["msg"] = todo["msg"]
        BY <2>0, <3>3 DEF TypeOK, Threads
      <4>2. QED BY <4>1 DEF Has, HasOp, Does, Restarts
    <3>5. S # <<>> /\ S[1].o = "stop" /\ Len(S) > 2 /\ S[2].o = "location" => Restarts("ui")'
      <4>1. S # <<>> => Head(S) = S[1] BY TailIs
      <4>2. QED BY <3>4, <4>1 DEF Restarts, Does
    <3>6. uri = cur /\ ~Restarts("ui") /\ ~Restarts("msg")
      BY <2>0, <3>0, <3>1, UriIsCurrent DEF Movers
    <3>7. active \in {0, cur} \/ Down BY <3>0, <3>6 DEF ActiveKnown, Movers
    <3>8. cur' = cur \/ Restarts("ui")' BY <3>3, <3>5
    <3>9. OneMover' BY <3>0, <3>1, <3>4 DEF OneMover
    <3>10. UriKnown' BY <3>2, <3>6, <3>8 DEF UriKnown, Movers
    <3>11. ActiveKnown' BY <3>2, <3>7, <3>8 DEF ActiveKnown, Movers
    <3>12. RateKnown'
      <4>1. ~Has("ui", "rated")' BY <3>3, <3>4
      <4>2. QED BY <4>1 DEF RateKnown
    <3>13. QED BY <3>9, <3>10, <3>11, <3>12
  <2>16. CASE MsgGet
    <3>1. Does("msg", "get") /\ uri' = uri /\ cur' = cur /\ active' = active /\ (Down' <=> Down)
      BY <2>16 DEF MsgGet, core, Down
    <3>2. raced' = (raced \/ (todo["ui"] # <<>> /\ (Head(queue).o = "EOS" \/ handle)))
      BY <2>16 DEF MsgGet
    <3> SUFFICES ASSUME ~raced, ~(todo["ui"] # <<>> /\ (Head(queue).o = "EOS" \/ handle))
                 PROVE  OneMover' /\ UriKnown' /\ ActiveKnown' /\ RateKnown'
      BY <3>2 DEF ItemInv
    <3>0. OneMover /\ UriKnown /\ ActiveKnown /\ RateKnown BY <2>0 DEF ItemInv
    <3>3. PICK S \in Seq(Operations) :
            /\ todo' = [todo EXCEPT !["msg"] = S]
            /\ Head(queue).o # "EOS" =>
                 /\ ~HasOp(S, "next") /\ ~HasOp(S, "location") /\ ~HasOp(S, "play")
                 /\ ~handle => ~HasOp(S, "pause")
      BY <2>0, <2>16, MsgGetIs
    <3>4. /\ todo'["msg"] = S /\ todo'["ui"] = todo["ui"]
          /\ \A x : Has("msg", x)' <=> HasOp(S, x)
          /\ \A x : Has("ui", x)' <=> Has("ui", x)
          /\ \A x : Does("ui", x)' <=> Does("ui", x)
          /\ Restarts("ui")' <=> Restarts("ui")
      <4>1. /\ todo'["msg"] = S /\ todo'["ui"] = todo["ui"]
        BY <2>0, <3>3 DEF TypeOK, Threads
      <4>2. QED BY <4>1 DEF Has, HasOp, Does, Restarts
    <3>5. ~Does("msg", "location") /\ ~Restarts("msg") BY <3>1 DEF Does, Restarts
    <3>6. OneMover' BY <3>3, <3>4 DEF OneMover
    <3>7. UriKnown' BY <3>0, <3>1, <3>4, <3>5 DEF UriKnown, Movers
    <3>8. ActiveKnown' BY <3>0, <3>1, <3>4, <3>5 DEF ActiveKnown, Movers
    <3>9. RateKnown' BY <3>0, <3>1, <3>4 DEF RateKnown
    <3>10. QED BY <3>6, <3>7, <3>8, <3>9
  <2>17. CASE MsgNext
    <3>1. Does("msg", "next") /\ playlist_next /\ raced' = raced BY <2>17 DEF MsgNext
    <3>2. /\ uri' = uri /\ active' = active /\ (Down' <=> Down)
          /\ cur' = IF NextItem = 0 THEN cur ELSE NextItem
      BY <3>1 DEF playlist_next, core, Down
    <3> SUFFICES ASSUME ~raced PROVE OneMover' /\ UriKnown' /\ ActiveKnown' /\ RateKnown'
      BY <3>1 DEF ItemInv
    <3>0. OneMover /\ UriKnown /\ ActiveKnown /\ RateKnown BY <2>0 DEF ItemInv
    <3>3. PICK S \in Seq(Operations) :
            /\ todo' = [todo EXCEPT !["msg"] = S] /\ S # <<>>
            /\ NextItem # 0 => Len(S) = 4 /\ S[1].o = "stop" /\ S[2].o = "location"
      BY <2>0, <2>17, MsgNextIs
    <3>4. /\ todo'["msg"] = S /\ todo'["ui"] = todo["ui"]
          /\ \A x : Has("msg", x)' <=> HasOp(S, x)
          /\ \A x : Has("ui", x)' <=> Has("ui", x)
          /\ \A x : Does("ui", x)' <=> Does("ui", x)
          /\ Restarts("ui")' <=> Restarts("ui")
      <4>1. /\ todo'["msg"] = S /\ todo'["ui"] = todo["ui"]
        BY <2>0, <3>3 DEF TypeOK, Threads
      <4>2. QED BY <4>1 DEF Has, HasOp, Does, Restarts
    <3>5. S # <<>> /\ S[1].o = "stop" /\ Len(S) > 2 /\ S[2].o = "location" => Restarts("msg")'
      <4>1. S # <<>> => Head(S) = S[1] BY TailIs
      <4>2. QED BY <3>4, <4>1 DEF Restarts, Does
    <3>6. uri = cur /\ ~Restarts("ui") /\ ~Restarts("msg") /\ todo["ui"] = <<>>
      BY <2>0, <3>0, <3>1, UriIsCurrent DEF Movers
    <3>7. active \in {0, cur} \/ Down BY <3>0, <3>6 DEF ActiveKnown, Movers
    <3>8. cur' = cur \/ Restarts("msg")'
      <4>1. NextItem # 0 => Len(S) > 2
        <5>1. NextItem # 0 => Len(S) = 4 BY <3>3, Zenon
        <5>2. QED BY <5>1
      <4>2. NextItem # 0 => Restarts("msg")' BY <3>3, <3>5, <4>1, Zenon
      <4>3. QED BY <3>2, <4>2
    <3>9. OneMover' BY <3>4, <3>6 DEF OneMover
    <3>10. UriKnown' BY <3>2, <3>6, <3>8 DEF UriKnown, Movers
    <3>11. ActiveKnown' BY <3>2, <3>7, <3>8 DEF ActiveKnown, Movers
    <3>12. RateKnown'
      <4>1. ~Has("ui", "rated") BY <2>0, <3>6, PlannedHas
      <4>2. QED BY <3>4, <4>1 DEF RateKnown
    <3>13. QED BY <3>9, <3>10, <3>11, <3>12
  <2>18. CASE Command
    <3>1. todo["ui"] = <<>> /\ raced' = (raced \/ Ending \/ MsgWorks)
      BY <2>18 DEF Command, Reads
    <3> SUFFICES ASSUME ~raced, ~Ending, ~MsgWorks
                 PROVE  OneMover' /\ UriKnown' /\ ActiveKnown' /\ RateKnown'
      BY <3>1 DEF ItemInv
    <3>0. OneMover /\ UriKnown /\ ActiveKnown /\ RateKnown BY <2>0 DEF ItemInv
    <3>2. \A o \in {"stop", "location", "play", "pause", "next"} : ~Has("msg", o)
      BY DEF Ending, MsgWorks
    <3>3. PICK S \in Seq(Operations) : todo' = [todo EXCEPT !["ui"] = S] /\ ~HasOp(S, "rated")
      BY <2>18, CommandPrograms DEF Command
    <3>4. /\ todo'["ui"] = S /\ todo'["msg"] = todo["msg"]
          /\ \A x : Has("ui", x)' <=> HasOp(S, x)
          /\ \A x : Has("msg", x)' <=> Has("msg", x)
          /\ \A x : Does("msg", x)' <=> Does("msg", x)
          /\ Restarts("msg")' <=> Restarts("msg")
      <4>1. /\ todo'["ui"] = S /\ todo'["msg"] = todo["msg"]
        BY <2>0, <3>3 DEF TypeOK, Threads
      <4>2. QED BY <4>1 DEF Has, HasOp, Does, Restarts
    <3>5. ~Does("msg", "location") /\ ~Restarts("msg") BY <2>0, <3>2, PlannedHas
    <3>6. ~Does("ui", "location") /\ ~Restarts("ui") BY <3>1 DEF Does, Restarts
    <3>7. uri = cur /\ (active \in {0, cur} \/ Down)
      BY <3>0, <3>5, <3>6 DEF UriKnown, ActiveKnown, Movers
    <3>8. OneMover' BY <3>2, <3>4 DEF OneMover
    <3>9. uri' = uri /\ cur' = cur /\ active' = active /\ (Down' <=> Down)
      BY <2>18 DEF Command, core, Down
    <3>10. UriKnown' BY <3>7, <3>9 DEF UriKnown
    <3>11. ActiveKnown' BY <3>7, <3>9 DEF ActiveKnown
    <3>12. RateKnown' BY <3>3, <3>4 DEF RateKnown
    <3>13. QED BY <3>8, <3>10, <3>11, <3>12
  <2>19. CASE NextCommand
    <3>1. todo["ui"] = <<>> /\ raced' = (raced \/ Ending \/ MsgWorks)
      BY <2>19 DEF NextCommand, Reads
    <3> SUFFICES ASSUME ~raced, ~Ending, ~MsgWorks
                 PROVE  OneMover' /\ UriKnown' /\ ActiveKnown' /\ RateKnown'
      BY <3>1 DEF ItemInv
    <3>0. OneMover /\ UriKnown /\ ActiveKnown /\ RateKnown BY <2>0 DEF ItemInv
    <3>2. \A o \in {"stop", "location", "play", "pause", "next"} : ~Has("msg", o)
      BY DEF Ending, MsgWorks
    <3>3. PICK S \in Seq(Operations) :
            /\ todo' = [todo EXCEPT !["ui"] = S] /\ ~HasOp(S, "rated")
            /\ NextItem # 0 => S # <<>> /\ S[1].o = "stop" /\ Len(S) = 3 /\ S[2].o = "location"
      <4>1. todo' = [todo EXCEPT !["ui"] = NextProgram] BY <2>19 DEF NextCommand
      <4>2. CASE NextItem # 0
        <5>1. NextProgram = Restart BY <4>2 DEF NextProgram
        <5>2. ~HasOp(Restart, "rated") BY RestartPrograms
        <5>3. QED BY <4>1, <5>1, <5>2, RestartPrograms
      <4>3. CASE NextItem = 0
        <5>1. NextProgram = player_exit BY <4>3 DEF NextProgram
        <5>2. /\ Len(player_exit) = 4 /\ player_exit[1].o = "flags"
              /\ player_exit[2].o = "stop" /\ player_exit[3].o = "flush"
              /\ player_exit[4].o = "alarm"
          BY Programs DEF Op
        <5>3. player_exit \in Seq(Operations)
          <6>1. <<Op("flags"), Op("stop"), Op("flush"), Op("alarm")>> \in Seq(Operations)
            BY OpTypes
          <6>2. QED BY <6>1, Programs, Zenon
        <5>4. ~HasOp(player_exit, "rated") BY <5>2 DEF HasOp
        <5>5. QED BY <4>1, <4>3, <5>1, <5>3, <5>4
      <4>4. QED BY <4>2, <4>3
    <3>4. /\ todo'["ui"] = S /\ todo'["msg"] = todo["msg"]
          /\ \A x : Has("ui", x)' <=> HasOp(S, x)
          /\ \A x : Has("msg", x)' <=> Has("msg", x)
          /\ \A x : Does("msg", x)' <=> Does("msg", x)
          /\ Restarts("msg")' <=> Restarts("msg")
      <4>1. /\ todo'["ui"] = S /\ todo'["msg"] = todo["msg"]
        BY <2>0, <3>3 DEF TypeOK, Threads
      <4>2. QED BY <4>1 DEF Has, HasOp, Does, Restarts
    <3>5. ~Does("msg", "location") /\ ~Restarts("msg") BY <2>0, <3>2, PlannedHas
    <3>6. ~Does("ui", "location") /\ ~Restarts("ui") BY <3>1 DEF Does, Restarts
    <3>7. uri = cur /\ (active \in {0, cur} \/ Down)
      BY <3>0, <3>5, <3>6 DEF UriKnown, ActiveKnown, Movers
    <3>8. OneMover' BY <3>2, <3>4 DEF OneMover
    <3>9. S # <<>> /\ S[1].o = "stop" /\ Len(S) > 2 /\ S[2].o = "location" => Restarts("ui")'
      <4>1. S # <<>> => Head(S) = S[1] BY TailIs
      <4>2. QED BY <3>4, <4>1 DEF Restarts, Does
    <3>10. /\ uri' = uri /\ active' = active /\ (Down' <=> Down)
           /\ cur' = IF NextItem = 0 THEN cur ELSE NextItem
      BY <2>19 DEF NextCommand, playlist_next, core, Down
    <3>11. cur' = cur \/ Restarts("ui")'
      <4>1. NextItem # 0 => Len(S) > 2 BY <3>3
      <4>2. NextItem # 0 => Restarts("ui")' BY <3>3, <3>9, <4>1, Zenon
      <4>3. QED BY <3>10, <4>2
    <3>12. UriKnown' BY <3>7, <3>10, <3>11 DEF UriKnown, Movers
    <3>13. ActiveKnown' BY <3>7, <3>10, <3>11 DEF ActiveKnown, Movers
    <3>14. RateKnown' BY <3>3, <3>4 DEF RateKnown
    <3>15. QED BY <3>8, <3>12, <3>13, <3>14
  <2>20. CASE MsgCheck
    <3>1. /\ Does("msg", "check") /\ uri' = uri /\ cur' = cur /\ active' = active
          /\ (Down' <=> Down) /\ raced' = raced
      BY <2>20 DEF MsgCheck, core, Down
    <3>2. CASE Done("msg")
      BY <2>0, <3>1, <3>2, ItemDone
    <3>3. CASE todo' = [todo EXCEPT !["msg"] = Ops(<<"get">>)]
      <4> SUFFICES ASSUME ~raced PROVE OneMover' /\ UriKnown' /\ ActiveKnown' /\ RateKnown'
        BY <3>1 DEF ItemInv
      <4>0. OneMover /\ UriKnown /\ ActiveKnown /\ RateKnown BY <2>0 DEF ItemInv
      <4>1. /\ todo'["msg"] = Ops(<<"get">>) /\ todo'["ui"] = todo["ui"]
        BY <2>0, <3>3 DEF TypeOK, Threads
      <4>2. /\ \A x : Has("msg", x)' => x = "get"
            /\ \A x : Has("ui", x)' <=> Has("ui", x)
            /\ \A x : Does("ui", x)' <=> Does("ui", x)
            /\ Restarts("ui")' <=> Restarts("ui")
        <5>1. \A x : HasOp(Ops(<<"get">>), x) => x = "get"
          BY <2>0, <2>20, MsgCheckIs, Zenon
        <5>2. \A x : Has("msg", x)' <=> HasOp(Ops(<<"get">>), x)
          BY <4>1, Zenon DEF Has, HasOp
        <5>3. \A x : Has("msg", x)' => x = "get" BY <5>1, <5>2, Zenon
        <5>4. QED BY <4>1, <5>3 DEF Has, Does, Restarts
      <4>3. ~Does("msg", "location") /\ ~Restarts("msg") BY <3>1 DEF Does, Restarts
      <4>4. OneMover' BY <4>2 DEF OneMover
      <4>5. UriKnown' BY <3>1, <4>0, <4>2, <4>3 DEF UriKnown, Movers
      <4>6. ActiveKnown' BY <3>1, <4>0, <4>2, <4>3 DEF ActiveKnown, Movers
      <4>7. RateKnown' BY <3>1, <4>0, <4>2 DEF RateKnown
      <4>8. QED BY <4>4, <4>5, <4>6, <4>7
    <3>4. QED BY <2>0, <2>20, <3>2, <3>3, MsgCheckIs
  <2>21. CASE my_bus_callback
    <3>1. todo'["ui"] = todo["ui"] /\ todo'["msg"] = todo["msg"]
      <4>1. PICK S \in Seq(Operations) : todo' = [todo EXCEPT !["loop"] = S]
        BY <2>0, <2>21, BusIs
      <4>2. QED BY <2>0, <4>1 DEF TypeOK, Threads
    <3>2. /\ uri' = uri /\ cur' = cur /\ active' \in {0, active} /\ raced' = raced
      BY <2>21 DEF my_bus_callback, program, options, core
    <3>3. Down => Down' BY <2>21 DEF Down, my_bus_callback, program, options, core
    <3>4. QED BY <2>0, <3>1, <3>2, <3>3, ItemSame
  <2>22. CASE LoopEnds
    <3>1. todo'["ui"] = todo["ui"] /\ todo'["msg"] = todo["msg"]
      BY <2>22 DEF LoopEnds, options, core
    <3>2. /\ uri' = uri /\ cur' = cur /\ active' \in {0, active} /\ raced' = raced
      BY <2>22 DEF LoopEnds, options, core
    <3>3. Down => Down' BY <2>22 DEF Down, LoopEnds, options, core
    <3>4. QED BY <2>0, <3>1, <3>2, <3>3, ItemSame
  <2>23. CASE fsl_player_deinit
    <3>1. todo'["ui"] = todo["ui"] /\ todo'["msg"] = todo["msg"]
      BY <2>23 DEF fsl_player_deinit, options
    <3>2. /\ uri' = uri /\ cur' = cur /\ active' \in {0, active} /\ raced' = raced
      BY <2>23 DEF fsl_player_deinit, options
    <3>3. Down => Down' BY <2>23 DEF Down, fsl_player_deinit, options
    <3>4. QED BY <2>0, <3>1, <3>2, <3>3, ItemSame
  <2>24. CASE MainEnds
    <3>1. todo'["ui"] = todo["ui"] /\ todo'["msg"] = todo["msg"]
      BY <2>24 DEF MainEnds, options, core
    <3>2. /\ uri' = uri /\ cur' = cur /\ active' \in {0, active} /\ raced' = raced
      BY <2>24 DEF MainEnds, options, core
    <3>3. Down => Down' BY <2>24 DEF Down, MainEnds, options, core
    <3>4. QED BY <2>0, <3>1, <3>2, <3>3, ItemSame
  <2>25. CASE EndOfFile
    <3>1. todo'["ui"] = todo["ui"] /\ todo'["msg"] = todo["msg"]
      BY <2>25 DEF EndOfFile, Emit, options
    <3>2. /\ uri' = uri /\ cur' = cur /\ active' \in {0, active} /\ raced' = raced
      BY <2>25 DEF EndOfFile, Emit, options
    <3>3. Down => Down' BY <2>25 DEF Down, EndOfFile, Emit, options
    <3>4. QED BY <2>0, <3>1, <3>2, <3>3, ItemSame
  <2>26. CASE PipelineError
    <3>1. todo'["ui"] = todo["ui"] /\ todo'["msg"] = todo["msg"]
      BY <2>26 DEF PipelineError, Emit, options
    <3>2. /\ uri' = uri /\ cur' = cur /\ active' \in {0, active} /\ raced' = raced
      BY <2>26 DEF PipelineError, Emit, options
    <3>3. Down => Down' BY <2>26 DEF Down, PipelineError, Emit, options
    <3>4. QED BY <2>0, <3>1, <3>2, <3>3, ItemSame
  <2>27. ASSUME NEW p \in Percents, Buffering(p) PROVE ItemInv'
    <3>1. todo'["ui"] = todo["ui"] /\ todo'["msg"] = todo["msg"]
      BY <2>27 DEF Buffering, Emit, options
    <3>2. /\ uri' = uri /\ cur' = cur /\ active' \in {0, active} /\ raced' = raced
      BY <2>27 DEF Buffering, Emit, options
    <3>3. Down => Down' BY <2>27 DEF Down, Buffering, Emit, options
    <3>4. QED BY <2>0, <3>1, <3>2, <3>3, ItemSame
  <2>28. CASE UNCHANGED vars
    <3>1. /\ todo' = todo /\ uri' = uri /\ cur' = cur /\ active' = active /\ raced' = raced
          /\ Down => Down'
      BY <2>28 DEF vars, Down
    <3>2. QED BY <2>0, <3>1, ItemSame
  <2>29. QED
    BY <2>1, <2>2, <2>3, <2>4, <2>5, <2>6, <2>7, <2>8, <2>9, <2>10, <2>11, <2>12, <2>13,
      <2>14, <2>15, <2>16, <2>17, <2>18, <2>19, <2>20, <2>21, <2>22, <2>23, <2>24,
      <2>25, <2>26, <2>27, <2>28
    DEF Next, Step, Loop, Msg, Pipeline
<1>3. QED BY <1>1, <1>2, BaseInvariant, PTL DEF Spec

(* While the pipeline's changes of state succeed, and whatever else         *)
(* happens (errors, a user who leaves, races of the rate command): when     *)
(* the threads are at rest the pipeline plays the current item of the list, *)
(* unless a command has met the work of the message thread.                 *)
THEOREM RightFile ==
  ASSUME "fail" \notin Allowed
  PROVE  Spec => []RightItem
<1>1. BaseInv /\ ItemInv => RightItem
  <2> SUFFICES ASSUME BaseInv, ItemInv, ~raced, ~MsgWorks, todo["ui"] = <<>>, gst = "PLAYING"
               PROVE  active \in {0, cur}
    BY DEF RightItem
  <2>1. ActiveKnown /\ TypeOK /\ Shapes BY DEF ItemInv, BaseInv
  <2>2. ~Down BY DEF Down
  <2>3. ~Restarts("ui") BY DEF Restarts, Does
  <2>4. ~Restarts("msg")
    <3>1. "msg" \in Threads BY DEF Threads
    <3>2. QED BY <2>1, <3>1, PlannedHas DEF MsgWorks
  <2>5. QED BY <2>1, <2>2, <2>3, <2>4 DEF ActiveKnown, Movers
<1>2. QED BY <1>1, BaseInvariant, ItemInvariant, PTL

-----------------------------------------------------------------------------
(***************************************************************************)
(* The end of a file.  The callback of the bus that waits has its answer   *)
(* in exactly one place: as a message in the queue, as work of the message *)
(* thread, or in the semaphore.  The queue is flushed only while the       *)
(* player is left, and then no end of a file is on its way: for that the   *)
(* invariant follows the ends from the bus on.                             *)
(***************************************************************************)
One(s) == \A i \in 1..Len(s) : \A j \in 1..Len(s) :
            s[i].o = "EOS" /\ s[j].o = "EOS" => i = j
InLoop(e) == \E i \in 1..Len(todo["loop"]) : todo["loop"][i] = e

Answer ==
  /\ One(queue) /\ sem \in 0..1
  /\ HasOp(queue, "EOS") => sem = 0 /\ ~Has("msg", "post")
  /\ sem = 1 => ~Has("msg", "post")
  /\ Does("loop", "wait") <=> HasOp(queue, "EOS") \/ sem = 1 \/ Has("msg", "post")

NoEnd == ~HasOp(bus, "EOS") /\ ~InLoop(PutEos) /\ ~HasOp(queue, "EOS")

Closing ==
  \/ leave \/ \E t \in Threads : Has(t, "flags")
  \/ HasOp(bus, "ERROR") \/ HasOp(queue, "ERROR") \/ InLoop(PutError)

(* The last file of the list may be the last one played.                   *)
Limited == repeat = "NONE" \/ (repeat = "PLAYLIST" /\ times > 0)

OneEnd ==
  /\ One(bus)
  /\ HasOp(bus, "EOS") => ~Has("loop", "wait") /\ ~Has("msg", "next")
  /\ Has("msg", "next") => NoEnd

EndInv == Answer /\ (Closing => NoEnd) /\ (Limited => OneEnd)

(* A message appended.                                                     *)
LEMMA AppendHas ==
  ASSUME NEW s \in Seq(Messages), NEW m \in Messages
  PROVE  /\ \A o : HasOp(Append(s, m), o) <=> HasOp(s, o) \/ m.o = o
         /\ One(s) /\ (m.o = "EOS" => ~HasOp(s, "EOS")) => One(Append(s, m))
<1> DEFINE u == Append(s, m)
<1>1. /\ Len(s) \in Nat /\ Len(u) = Len(s) + 1 /\ u[Len(s) + 1] = m
      /\ \A i \in 1..Len(s) : u[i] = s[i]
  OBVIOUS
<1> HIDE DEF u
<1>2. \A i \in 1..Len(u) : i \in 1..Len(s) \/ i = Len(s) + 1 BY <1>1
<1>3. ASSUME NEW o PROVE HasOp(u, o) <=> HasOp(s, o) \/ m.o = o
  <2>1. ASSUME HasOp(u, o) PROVE HasOp(s, o) \/ m.o = o
    BY <1>1, <1>2, <2>1 DEF HasOp
  <2>2. ASSUME HasOp(s, o) PROVE HasOp(u, o)
    <3>1. PICK i \in 1..Len(s) : s[i].o = o BY <2>2 DEF HasOp
    <3>2. i \in 1..Len(u) /\ u[i].o = o BY <1>1, <3>1
    <3>3. QED BY <3>2 DEF HasOp
  <2>3. ASSUME m.o = o PROVE HasOp(u, o)
    <3>1. Len(s) + 1 \in 1..Len(u) BY <1>1
    <3>2. QED BY <1>1, <2>3, <3>1 DEF HasOp
  <2>4. QED BY <2>1, <2>2, <2>3
<1>4. ASSUME One(s), m.o = "EOS" => ~HasOp(s, "EOS") PROVE One(u)
  <2> SUFFICES ASSUME NEW i \in 1..Len(u), NEW j \in 1..Len(u), u[i].o = "EOS", u[j].o = "EOS"
               PROVE  i = j
    BY DEF One
  <2>1. CASE i \in 1..Len(s) /\ j \in 1..Len(s) BY <1>1, <1>4, <2>1 DEF One
  <2>2. CASE i = Len(s) + 1 /\ j = Len(s) + 1 BY <2>2
  <2>3. CASE i \in 1..Len(s) /\ j = Len(s) + 1 BY <1>1, <1>4, <2>3 DEF HasOp
  <2>4. CASE i = Len(s) + 1 /\ j \in 1..Len(s) BY <1>1, <1>4, <2>4 DEF HasOp
  <2>5. QED BY <1>2, <2>1, <2>2, <2>3, <2>4
<1>5. QED BY <1>3, <1>4 DEF u

(* A first message taken.                                                  *)
LEMMA TakenHas ==
  ASSUME NEW s \in Seq(Messages), s # <<>>
  PROVE  /\ \A o : /\ HasOp(Tail(s), o) => HasOp(s, o)
                   /\ HasOp(s, o) => HasOp(Tail(s), o) \/ Head(s).o = o
                   /\ Head(s).o = o => HasOp(s, o)
         /\ One(s) => One(Tail(s)) /\ (Head(s).o = "EOS" => ~HasOp(Tail(s), "EOS"))
<1> DEFINE u == Tail(s)
<1>1. /\ Len(s) \in Nat \ {0} /\ Head(s) = s[1] /\ Len(u) = Len(s) - 1
      /\ \A i \in 1..Len(u) : u[i] = s[i + 1]
  BY TailIs
<1>2. \A o : /\ HasOp(u, o) => HasOp(s, o)
             /\ HasOp(s, o) => HasOp(u, o) \/ Head(s).o = o
  BY TailHas
<1> HIDE DEF u
<1>3. \A o : Head(s).o = o => HasOp(s, o)
  <2>1. 1 \in 1..Len(s) BY <1>1
  <2>2. QED BY <1>1, <2>1 DEF HasOp
<1>4. ASSUME One(s) PROVE One(u)
  <2> SUFFICES ASSUME NEW i \in 1..Len(u), NEW j \in 1..Len(u), u[i].o = "EOS", u[j].o = "EOS"
               PROVE  i = j
    BY DEF One
  <2>1. /\ i + 1 \in 1..Len(s) /\ s[i + 1].o = "EOS"
        /\ j + 1 \in 1..Len(s) /\ s[j + 1].o = "EOS"
    BY <1>1
  <2>2. i + 1 = j + 1 BY <1>4, <2>1 DEF One
  <2>3. QED BY <2>2
<1>5. ASSUME One(s), Head(s).o = "EOS", HasOp(u, "EOS") PROVE FALSE
  <2>1. PICK i \in 1..Len(u) : u[i].o = "EOS" BY <1>5 DEF HasOp
  <2>2. i + 1 \in 1..Len(s) /\ s[i + 1].o = "EOS" /\ 1 \in 1..Len(s) /\ s[1].o = "EOS"
    BY <1>1, <1>5, <2>1
  <2>3. i + 1 = 1 BY <1>5, <2>2 DEF One
  <2>4. QED BY <2>3
<1>6. \A o : /\ HasOp(u, o) => HasOp(s, o)
             /\ HasOp(s, o) => HasOp(u, o) \/ Head(s).o = o
             /\ Head(s).o = o => HasOp(s, o)
  BY <1>2, <1>3, Zenon
<1>7. One(s) => One(u) /\ (Head(s).o = "EOS" => ~HasOp(u, "EOS")) BY <1>4, <1>5
<1>8. QED BY <1>6, <1>7, Zenon DEF u

(* What is not among the elements is not there: a message of the kinds     *)
(* that carry no level is known by its kind.                               *)
LEMMA NotThere ==
  ASSUME NEW s \in Seq(Messages), NEW o \in {"EOS", "ERROR"}, Op(o) \notin ToSet(s)
  PROVE  ~HasOp(s, o)
<1> SUFFICES ASSUME NEW i \in 1..Len(s), s[i].o = o PROVE FALSE
  BY DEF HasOp
<1>1. s[i] \in Messages OBVIOUS
<1>2. s[i] = Op(o) BY <1>1 DEF Messages, Op
<1>3. i \in DOMAIN s OBVIOUS
<1>4. QED BY <1>2, <1>3 DEF ToSet

(* The program of the callback: what waits waits for the message that it   *)
(* put before.                                                             *)
LEMMA LoopFacts ==
  ASSUME TypeOK, Shapes
  PROVE  /\ InLoop(PutEos) => Has("loop", "wait")
         /\ Does("loop", "wait") => ~InLoop(PutEos) /\ Tail(todo["loop"]) = <<>>
         /\ todo["loop"] = <<>> => ~Does("loop", "wait")
<1> DEFINE S == todo["loop"]
<1>0. S \in Seq(Operations) /\ LoopShape(S) BY DEF TypeOK, Threads, Shapes
<1>1. ASSUME InLoop(PutEos) PROVE Has("loop", "wait")
  <2>1. PICK i \in 1..Len(S) : S[i] = PutEos BY <1>1 DEF InLoop
  <2>2. i + 1 = Len(S) /\ S[i + 1].o = "wait" BY <1>0, <2>1 DEF LoopShape
  <2>3. i + 1 \in 1..Len(S) BY <1>0, <2>2
  <2>4. QED BY <2>2, <2>3 DEF Has
<1>2. ASSUME Does("loop", "wait") PROVE ~InLoop(PutEos) /\ Tail(S) = <<>>
  <2>1. /\ S # <<>> /\ Len(S) \in Nat \ {0} /\ S[1].o = "wait"
    BY <1>0, <1>2, TailIs DEF Does
  <2>2. 1 \in 1..Len(S) BY <2>1
  <2>3. Len(S) = 1 BY <1>0, <2>1, <2>2 DEF LoopShape
  <2>4. Tail(S) \in Seq(Operations) /\ Len(Tail(S)) = 0 BY <1>0, <2>1, <2>3, TailIs
  <2>5. Tail(S) = <<>> BY <2>4, EmptySeq
  <2>6. ~InLoop(PutEos) BY <2>1, <2>3 DEF InLoop, PutEos
  <2>7. QED BY <2>5, <2>6
<1>3. QED BY <1>1, <1>2 DEF Does

(* The callback's program when a thread has done its first operation.      *)
LEMMA LoopKept ==
  ASSUME TypeOK, Shapes, NEW t \in Threads, NEW o, Does(t, o), Done(t)
  PROVE  /\ InLoop(PutEos)' => InLoop(PutEos)
         /\ InLoop(PutError)' => InLoop(PutError)
         /\ t # "loop" => (Does("loop", "wait")' <=> Does("loop", "wait"))
         /\ t = "loop" => (Does("loop", "wait")' <=> Head(todo["loop"]) = PutEos)
<1>0. todo[t] # <<>> /\ Head(todo[t]).o = o BY DEF Does
<1>1. /\ todo'[t] = Tail(todo[t]) /\ \A u \in Threads \ {t} : todo'[u] = todo[u]
  BY <1>0, DoneFacts
<1>2. CASE t # "loop"
  <2>1. todo'["loop"] = todo["loop"] BY <1>1, <1>2 DEF Threads
  <2>2. QED BY <1>2, <2>1 DEF InLoop, Does
<1>3. CASE t = "loop"
  <2> DEFINE S == todo["loop"]
             U == Tail(S)
  <2>0. S \in Seq(Operations) /\ LoopShape(S) BY DEF TypeOK, Threads, Shapes
  <2>1. /\ Len(S) \in Nat \ {0} /\ Head(S) = S[1] /\ Len(U) = Len(S) - 1
        /\ U \in Seq(Operations) /\ \A i \in 1..Len(U) : U[i] = S[i + 1]
    BY <1>0, <1>3, <2>0, TailIs
  <2>2. todo'["loop"] = U BY <1>1, <1>3
  <2> HIDE DEF U
  <2>3. ASSUME NEW e, InLoop(e)' PROVE InLoop(e)
    <3>1. PICK i \in 1..Len(U) : U[i] = e BY <2>2, <2>3 DEF InLoop
    <3>2. i + 1 \in 1..Len(S) /\ S[i + 1] = e BY <2>1, <3>1
    <3>3. QED BY <3>2 DEF InLoop
  <2>4. ASSUME Does("loop", "wait")' PROVE Head(S) = PutEos
    <3>1. U # <<>> /\ Head(U).o = "wait" BY <2>2, <2>4 DEF Does
    <3>2. Len(U) \in Nat \ {0} /\ Head(U) = U[1] BY <2>1, <3>1, TailIs
    <3>3. 1 \in 1..Len(U) BY <3>2
    <3>4. U[1] = S[1 + 1] BY <2>1, <3>3
    <3>5. 2 \in 1..Len(S) /\ S[2].o = "wait" BY <2>1, <3>1, <3>2, <3>4
    <3>6. S[1] = PutEos BY <2>0, <3>5 DEF LoopShape
    <3>7. QED BY <2>1, <3>6
  <2>5. ASSUME Head(S) = PutEos PROVE Does("loop", "wait")'
    <3>1. 1 \in 1..Len(S) /\ S[1] = PutEos BY <2>1, <2>5
    <3>2. 1 + 1 = Len(S) /\ S[1 + 1].o = "wait" BY <2>0, <3>1 DEF LoopShape
    <3>3. 1 \in 1..Len(U) BY <2>1, <3>2
    <3>4. U[1] = S[1 + 1] BY <2>1, <3>3
    <3>5. U # <<>>
      <4>1. Len(<<>>) = 0 OBVIOUS
      <4>2. Len(U) # 0 BY <3>3
      <4>3. QED BY <4>1, <4>2, Zenon
    <3>6. Head(U) = U[1] BY <2>1, <3>5, TailIs
    <3>7. QED BY <2>2, <3>2, <3>4, <3>5, <3>6 DEF Does
  <2>6. QED BY <1>3, <2>3, <2>4, <2>5
<1>4. QED BY <1>2, <1>3

(* A step that neither answers an end nor brings a new one.                *)
LEMMA EndKept ==
  ASSUME EndInv, One(queue'), sem' = sem, HasOp(queue', "EOS") <=> HasOp(queue, "EOS"),
         Has("msg", "post")' <=> Has("msg", "post"),
         Does("loop", "wait")' <=> Does("loop", "wait"),
         Closing' => Closing \/ NoEnd, InLoop(PutEos)' => InLoop(PutEos),
         Limited' => Limited, One(bus) => One(bus'),
         HasOp(bus', "EOS") => HasOp(bus, "EOS"),
         Has("loop", "wait")' => Has("loop", "wait"), Has("msg", "next")' => Has("msg", "next")
  PROVE  EndInv'
<1>1. NoEnd => NoEnd' BY DEF NoEnd
<1>2. Answer' BY DEF EndInv, Answer
<1>3. Closing' => NoEnd' BY <1>1 DEF EndInv
<1>4. Limited' => OneEnd' BY <1>1 DEF EndInv, OneEnd
<1>5. QED BY <1>2, <1>3, <1>4 DEF EndInv

(* While no end is under way the player may begin to close.                *)
LEMMA NotEnding ==
  ASSUME TypeOK, Shapes, EndInv, ~Ending
  PROVE  NoEnd
<1>1. /\ bus \in Seq(Messages) /\ Op("EOS") \notin ToSet(bus) /\ ~Has("loop", "wait")
  BY DEF TypeOK, Ending
<1>2. ~HasOp(bus, "EOS") BY <1>1, NotThere
<1>3. ~InLoop(PutEos) BY <1>1, LoopFacts
<1>4. ~HasOp(queue, "EOS")
  <2>1. ~Does("loop", "wait")
    <3>1. "loop" \in Threads BY DEF Threads
    <3>2. QED BY <1>1, <3>1, HeadIs
  <2>2. QED BY <2>1 DEF EndInv, Answer
<1>5. QED BY <1>2, <1>3, <1>4 DEF NoEnd

(* An operation that leaves the messages and the semaphore alone.          *)
LEMMA EndDone ==
  ASSUME TypeOK, Shapes, EndInv, NEW t \in Threads, NEW o, Does(t, o), Done(t),
         o \notin {"put", "wait", "post"}, leave' => Closing,
         bus' = bus, sem' = sem, repeat' = repeat, times' = times,
         One(queue'), HasOp(queue', "EOS") <=> HasOp(queue, "EOS"),
         HasOp(queue', "ERROR") => HasOp(queue, "ERROR")
  PROVE  EndInv'
<1>0. todo[t] # <<>> /\ Head(todo[t]).o = o BY DEF Does
<1>1. /\ \A u \in Threads : \A x : Has(u, x)' => Has(u, x)
      /\ \A u \in Threads : \A x : Has(u, x) => Has(u, x)' \/ (u = t /\ Head(todo[t]).o = x)
  BY <1>0, DoneFacts
<1>2. "loop" \in Threads /\ "msg" \in Threads BY DEF Threads
<1>3. Has("msg", "post")' <=> Has("msg", "post") BY <1>0, <1>1, <1>2
<1>4. /\ InLoop(PutEos)' => InLoop(PutEos)
      /\ InLoop(PutError)' => InLoop(PutError)
      /\ Does("loop", "wait")' <=> Does("loop", "wait")
  <2>1. Head(todo[t]) # PutEos BY <1>0 DEF PutEos
  <2>2. t = "loop" => ~Does("loop", "wait") BY <1>0 DEF Does
  <2>3. QED BY <2>1, <2>2, LoopKept
<1>5. Closing' => Closing
  <2>1. \A u \in Threads : Has(u, "flags")' => Closing BY <1>1 DEF Closing
  <2>2. HasOp(bus', "ERROR") \/ HasOp(queue', "ERROR") => Closing BY DEF Closing
  <2>3. InLoop(PutError)' => Closing BY <1>4 DEF Closing
  <2>4. Closing' => \/ leave' \/ \E u \in Threads : Has(u, "flags")'
                    \/ HasOp(bus', "ERROR") \/ HasOp(queue', "ERROR") \/ InLoop(PutError)'
    BY DEF Closing
  <2>5. QED BY <2>1, <2>2, <2>3, <2>4, Zenon
<1>6. Limited' => Limited BY DEF Limited
<1>7. QED BY <1>1, <1>2, <1>3, <1>4, <1>5, <1>6, EndKept

(* A thread other than the callback's gets work without an answer in it.   *)
LEMMA EndGiven ==
  ASSUME TypeOK, Shapes, EndInv, NEW t \in {"ui", "msg"}, NEW S \in Seq(Operations),
         todo' = [todo EXCEPT ![t] = S], UNCHANGED <<bus, queue, sem, leave>>,
         Limited' => Limited, HasOp(S, "flags") => NoEnd,
         t = "msg" => ~HasOp(S, "post") /\ ~HasOp(S, "next") /\ ~Has("msg", "post")
  PROVE  EndInv'
<1>1. todo'[t] = S /\ \A u \in Threads \ {t} : todo'[u] = todo[u]
  BY DEF TypeOK, Threads
<1>2. /\ \A x : Has(t, x)' <=> HasOp(S, x)
      /\ \A u \in Threads \ {t} : \A x : Has(u, x)' <=> Has(u, x)
  BY <1>1 DEF Has, HasOp
<1>3. /\ "loop" \in Threads \ {t} /\ t \in Threads /\ (t # "msg" => "msg" \in Threads \ {t})
  BY DEF Threads
<1>4. /\ Does("loop", "wait")' <=> Does("loop", "wait")
      /\ \A e : InLoop(e)' <=> InLoop(e)
  BY <1>1, <1>3 DEF Does, InLoop
<1>5. Has("msg", "post")' <=> Has("msg", "post")
  <2>1. CASE t = "msg" BY <1>2, <2>1
  <2>2. CASE t # "msg" BY <1>2, <1>3, <2>2
  <2>3. QED BY <2>1, <2>2
<1>6. Has("msg", "next")' => Has("msg", "next")
  <2>1. CASE t = "msg" BY <1>2, <2>1
  <2>2. CASE t # "msg" BY <1>2, <1>3, <2>2
  <2>3. QED BY <2>1, <2>2
<1>7. Closing' => Closing \/ NoEnd BY <1>2, <1>3, <1>4 DEF Closing
<1>8. One(queue') BY DEF EndInv, Answer
<1>9. Has("loop", "wait")' <=> Has("loop", "wait") BY <1>2, <1>3
<1>10. QED BY <1>4, <1>5, <1>6, <1>7, <1>8, <1>9, EndKept

(* A step that gives no thread work and takes no message.                  *)
LEMMA EndSame ==
  ASSUME EndInv, UNCHANGED <<todo, queue, sem, leave, repeat, times>>,
         One(bus) => One(bus'), HasOp(bus', "EOS") => HasOp(bus, "EOS"),
         HasOp(bus', "ERROR") => HasOp(bus, "ERROR") \/ NoEnd
  PROVE  EndInv'
<1>1. /\ \A u : \A x : (Has(u, x)' <=> Has(u, x)) /\ (Does(u, x)' <=> Does(u, x))
      /\ \A e : InLoop(e)' <=> InLoop(e)
  BY DEF Has, Does, InLoop
<1>2. Closing' => Closing \/ NoEnd BY <1>1 DEF Closing
<1>3. One(queue') BY DEF EndInv, Answer
<1>4. Limited' => Limited BY DEF Limited
<1>5. QED BY <1>1, <1>2, <1>3, <1>4, EndKept

(* The invariant, where no file ends while the player is left and the      *)
(* command for the next file does not come at the last one.                *)
LEMMA EndInvariant ==
  ASSUME "exit_eos" \notin Allowed, "next_exit" \notin Allowed
  PROVE  Spec => []EndInv
<1>0. ~May("exit_eos") /\ ~May("next_exit") BY DEF May
<1>1. Init => EndInv
  <2> SUFFICES ASSUME Init PROVE EndInv OBVIOUS
  <2>1. todo["ui"] = <<Op("location"), Op("play")>> /\ todo["msg"] = <<Op("check")>>
    <3>1. todo["ui"] = Ops(<<"location", "play">>) /\ todo["msg"] = Ops(<<"check">>)
      BY DEF Init, Threads
    <3>2. QED BY <3>1, Programs, Zenon
  <2>2. /\ Len(todo["ui"]) = 2 /\ todo["ui"][1].o = "location" /\ todo["ui"][2].o = "play"
        /\ Len(todo["msg"]) = 1 /\ todo["msg"][1].o = "check" /\ todo["loop"] = <<>>
    BY <2>1 DEF Op, Init, Threads
  <2>3. /\ ~Has("msg", "post") /\ ~Has("msg", "next") /\ ~Does("loop", "wait")
        /\ \A t \in Threads : ~Has(t, "flags")
        /\ ~InLoop(PutEos) /\ ~InLoop(PutError)
    BY <2>2 DEF Has, Does, Threads, InLoop
  <2>4. /\ One(bus) /\ One(queue) /\ \A o : ~HasOp(bus, o) /\ ~HasOp(queue, o)
    BY DEF Init, One, HasOp
  <2>5. sem = 0 /\ ~leave BY DEF Init
  <2>6. QED BY <2>3, <2>4, <2>5 DEF EndInv, Answer, Closing, OneEnd
<1>2. BaseInv /\ EndInv /\ [Next]_vars => EndInv'
  <2> SUFFICES ASSUME BaseInv, EndInv, [Next]_vars PROVE EndInv' OBVIOUS
  <2>0. /\ TypeOK /\ Shapes /\ FlagsFirst /\ EndInv
        /\ "ui" \in Threads /\ "msg" \in Threads /\ "loop" \in Threads
    BY DEF BaseInv, Threads
  <2>1. ASSUME NEW t \in Threads, fsl_player_play(t) PROVE EndInv'
    <3>1. Does(t, "play") /\ Done(t) BY <2>1 DEF fsl_player_play
    <3>2. /\ bus' = bus /\ sem' = sem /\ repeat' = repeat /\ times' = times /\ queue' = queue
          /\ leave' = leave
      BY <2>1 DEF fsl_player_play, Load, program, options, core
    <3>3. (leave' => Closing) /\ One(queue) BY <2>0, <3>2 DEF Closing, EndInv, Answer
    <3>4. QED BY <2>0, <3>1, <3>2, <3>3, EndDone
  <2>2. ASSUME NEW t \in Threads, fsl_player_pause(t) PROVE EndInv'
    <3>1. Does(t, "pause") /\ Done(t) BY <2>2 DEF fsl_player_pause
    <3>2. /\ bus' = bus /\ sem' = sem /\ repeat' = repeat /\ times' = times /\ queue' = queue
          /\ leave' = leave
      BY <2>2 DEF fsl_player_pause, Load, program, options, core
    <3>3. (leave' => Closing) /\ One(queue) BY <2>0, <3>2 DEF Closing, EndInv, Answer
    <3>4. QED BY <2>0, <3>1, <3>2, <3>3, EndDone
  <2>3. ASSUME NEW t \in Threads, fsl_player_stop(t) PROVE EndInv'
    <3>1. Does(t, "stop") /\ Done(t) BY <2>3 DEF fsl_player_stop
    <3>2. /\ bus' = bus /\ sem' = sem /\ repeat' = repeat /\ times' = times /\ queue' = queue
          /\ leave' = leave
      BY <2>3 DEF fsl_player_stop, Stopped, program, options, core
    <3>3. (leave' => Closing) /\ One(queue) BY <2>0, <3>2 DEF Closing, EndInv, Answer
    <3>4. QED BY <2>0, <3>1, <3>2, <3>3, EndDone
  <2>4. ASSUME NEW t \in Threads, RateSet(t) PROVE EndInv'
    <3>1. Does(t, "rated") /\ Done(t) BY <2>4 DEF RateSet
    <3>2. /\ bus' = bus /\ sem' = sem /\ repeat' = repeat /\ times' = times /\ queue' = queue
          /\ leave' = leave
      BY <2>4 DEF RateSet, program, options
    <3>3. (leave' => Closing) /\ One(queue) BY <2>0, <3>2 DEF Closing, EndInv, Answer
    <3>4. QED BY <2>0, <3>1, <3>2, <3>3, EndDone
  <2>5. ASSUME NEW t \in Threads, fsl_player_set_media_location(t) PROVE EndInv'
    <3>1. Does(t, "location") /\ Done(t) BY <2>5 DEF fsl_player_set_media_location
    <3>2. /\ bus' = bus /\ sem' = sem /\ repeat' = repeat /\ times' = times /\ queue' = queue
          /\ leave' = leave
      BY <2>5 DEF fsl_player_set_media_location, options, core
    <3>3. (leave' => Closing) /\ One(queue) BY <2>0, <3>2 DEF Closing, EndInv, Answer
    <3>4. QED BY <2>0, <3>1, <3>2, <3>3, EndDone
  <2>6. ASSUME NEW t \in Threads, flush(t) PROVE EndInv'
    <3>1. Does(t, "flush") /\ Done(t) BY <2>6 DEF flush
    <3>2. /\ bus' = bus /\ sem' = sem /\ repeat' = repeat /\ times' = times /\ leave' = leave
          /\ queue' = <<>>
      BY <2>6 DEF flush, program, options, core
    <3>3. leave' => Closing BY <3>2 DEF Closing
    <3>4. ~HasOp(queue, "EOS")
      <4>1. Has(t, "flush") BY <2>0, <3>1, HeadIs
      <4>2. Closing BY <2>0, <4>1 DEF FlagsFirst, Closing
      <4>3. QED BY <2>0, <4>2 DEF EndInv, NoEnd
    <3>5. One(queue') /\ \A o : ~HasOp(queue', o) BY <3>2 DEF One, HasOp
    <3>6. QED BY <2>0, <3>1, <3>2, <3>3, <3>4, <3>5, EndDone
  <2>7. ASSUME NEW t \in Threads, Flags(t) PROVE EndInv'
    <3>1. Does(t, "flags") /\ Done(t) BY <2>7 DEF Flags
    <3>2. bus' = bus /\ sem' = sem /\ repeat' = repeat /\ times' = times /\ queue' = queue
      BY <2>7 DEF Flags, options, core
    <3>3. leave' => Closing
      <4>1. Has(t, "flags") BY <2>0, <3>1, HeadIs
      <4>2. QED BY <4>1 DEF Closing
    <3>4. One(queue) BY <2>0 DEF EndInv, Answer
    <3>5. QED BY <2>0, <3>1, <3>2, <3>3, <3>4, EndDone
  <2>8. ASSUME NEW t \in Threads, Alarm(t) PROVE EndInv'
    <3>1. Does(t, "alarm") /\ Done(t) BY <2>8 DEF Alarm
    <3>2. /\ bus' = bus /\ sem' = sem /\ repeat' = repeat /\ times' = times /\ queue' = queue
          /\ leave' = leave
      BY <2>8 DEF Alarm, options, core
    <3>3. (leave' => Closing) /\ One(queue) BY <2>0, <3>2 DEF Closing, EndInv, Answer
    <3>4. QED BY <2>0, <3>1, <3>2, <3>3, EndDone
  <2>9. CASE Buffered
    <3>1. Does("loop", "buffered") /\ Done("loop") BY <2>9 DEF Buffered
    <3>2. bus' = bus /\ sem' = sem /\ repeat' = repeat /\ times' = times /\ leave' = leave
      BY <2>9 DEF Buffered, program, options
    <3>3. leave' => Closing BY <3>2 DEF Closing
    <3>4. /\ One(queue') /\ (HasOp(queue', "EOS") <=> HasOp(queue, "EOS"))
          /\ HasOp(queue', "ERROR") => HasOp(queue, "ERROR")
      <4> DEFINE m == [o |-> "BUFFERING", p |-> Head(todo["loop"]).p]
      <4>0. queue \in Seq(Messages) /\ One(queue) BY <2>0 DEF TypeOK, EndInv, Answer
      <4>1. queue' = putReplace(m) /\ m.o = "BUFFERING" BY <2>9 DEF Buffered
      <4> HIDE DEF m
      <4>2. CASE queue = <<>>
        <5>1. queue' = <<m>> BY <4>1, <4>2 DEF putReplace
        <5>2. Len(queue') = 1 /\ queue'[1].o = "BUFFERING" BY <4>1, <5>1
        <5>3. One(queue') /\ ~HasOp(queue', "EOS") /\ ~HasOp(queue', "ERROR")
          BY <5>2 DEF One, HasOp
        <5>4. ~HasOp(queue, "EOS") BY <4>2 DEF HasOp
        <5>5. QED BY <5>3, <5>4
      <4>3. CASE queue # <<>> /\ Head(queue).o = m.o
        <5>1. queue' = <<m>> \o Tail(queue) BY <4>1, <4>3 DEF putReplace
        <5>2. /\ Len(queue) \in Nat \ {0} /\ Len(Tail(queue)) = Len(queue) - 1
              /\ Tail(queue) \in Seq(Messages) /\ queue[1].o = "BUFFERING"
              /\ \A i \in 1..Len(Tail(queue)) : Tail(queue)[i] = queue[i + 1]
          BY <4>0, <4>1, <4>3, TailIs
        <5>3. /\ Len(queue') = Len(queue)
              /\ \A i \in 1..Len(queue) : queue'[i].o = queue[i].o
          <6> DEFINE u == Tail(queue)
                     T == Messages \cup {m}
          <6>1. <<m>> \in Seq(T) /\ Len(<<m>>) = 1 /\ <<m>>[1] = m OBVIOUS
          <6>2. u \in Seq(T) BY <5>2
          <6> HIDE DEF u, T
          <6>3. /\ Len(<<m>> \o u) = 1 + Len(u)
                /\ \A i \in 1..(1 + Len(u)) :
                     (<<m>> \o u)[i] = IF i <= 1 THEN <<m>>[i] ELSE u[i - 1]
            BY <6>1, <6>2, ConcatProperties
          <6>4. queue' = <<m>> \o u BY <5>1 DEF u
          <6>5. Len(u) = Len(queue) - 1 /\ \A i \in 1..Len(u) : u[i] = queue[i + 1]
            BY <5>2 DEF u
          <6>6. Len(queue') = Len(queue)
            <7>1. Len(queue') = 1 + Len(u) BY <6>3, <6>4, Zenon
            <7>2. QED BY <5>2, <6>5, <7>1
          <6>7. ASSUME NEW i \in 1..Len(queue) PROVE queue'[i].o = queue[i].o
            <7>1. CASE i = 1
              <8>1. queue'[1] = m BY <5>2, <6>1, <6>3, <6>4, <6>5
              <8>2. QED BY <4>1, <5>2, <7>1, <8>1
            <7>2. CASE i # 1
              <8>1. i - 1 \in 1..Len(u) /\ (i - 1) + 1 = i /\ i \in 1..(1 + Len(u)) /\ ~(i <= 1)
                BY <5>2, <6>5, <7>2
              <8>2. u[i - 1] = queue[i] BY <6>5, <8>1
              <8>3. queue'[i] = u[i - 1] BY <6>3, <6>4, <8>1
              <8>4. QED BY <8>2, <8>3
            <7>3. QED BY <7>1, <7>2
          <6>8. QED BY <6>6, <6>7
        <5>4. QED BY <4>0, <5>3 DEF One, HasOp
      <4>4. CASE queue # <<>> /\ Head(queue).o # m.o
        <5>1. queue' = queue BY <4>1, <4>4 DEF putReplace
        <5>2. QED BY <4>0, <5>1
      <4>5. QED BY <4>2, <4>3, <4>4
    <3>5. QED BY <2>0, <3>1, <3>2, <3>3, <3>4, EndDone
  <2>10. CASE MsgReturn
    <3>1. Does("msg", "return") /\ Done("msg") BY <2>10 DEF MsgReturn
    <3>2. /\ bus' = bus /\ sem' = sem /\ repeat' = repeat /\ times' = times /\ queue' = queue
          /\ leave' = leave
      BY <2>10 DEF MsgReturn, options, core
    <3>3. (leave' => Closing) /\ One(queue) BY <2>0, <3>2 DEF Closing, EndInv, Answer
    <3>4. QED BY <2>0, <3>1, <3>2, <3>3, EndDone
  <2>11. ASSUME NEW t \in Threads, Put(t) PROVE EndInv'
    <3>0. Does(t, "put") /\ Done(t) /\ todo[t] # <<>> BY <2>11 DEF Put, Does
    <3>1. bus' = bus /\ sem' = sem /\ repeat' = repeat /\ times' = times /\ leave' = leave
      BY <2>11 DEF Put, program, options
    <3>2. /\ \A u \in Threads : \A x : Has(u, x)' => Has(u, x)
          /\ \A u \in Threads : \A x : Has(u, x) => Has(u, x)' \/ (u = t /\ Head(todo[t]).o = x)
      BY <2>0, <3>0, DoneFacts
    <3>3. /\ InLoop(PutEos)' => InLoop(PutEos)
          /\ InLoop(PutError)' => InLoop(PutError)
          /\ t # "loop" => (Does("loop", "wait")' <=> Does("loop", "wait"))
          /\ t = "loop" => (Does("loop", "wait")' <=> Head(todo["loop"]) = PutEos)
      BY <2>0, <3>0, LoopKept
    <3>4. Has("msg", "post")' <=> Has("msg", "post")
      <4>1. Head(todo[t]).o # "post" BY <3>0 DEF Does
      <4>2. QED BY <2>0, <3>2, <4>1
    <3>5. Limited' <=> Limited BY <3>1 DEF Limited
    <3>6. queue \in Seq(Messages) /\ One(queue) BY <2>0 DEF TypeOK, EndInv, Answer
    <3>7. \/ t = "ui" /\ Head(todo[t]) = PutExit
          \/ t = "loop" /\ Head(todo[t]) \in {PutEos, PutError}
      <4>1. /\ Head(todo[t]) = todo[t][1] /\ todo[t][1].o = "put" /\ t # "msg"
            /\ 1 \in 1..Len(todo[t])
        <5>1. "put" \notin MsgOps BY DEF MsgOps
        <5>2. QED BY <2>0, <3>0, <5>1, HeadIs
      <4>2. CASE t = "ui" BY <2>0, <4>1, <4>2 DEF Shapes, UiShape
      <4>3. CASE t = "loop" BY <2>0, <4>1, <4>3 DEF Shapes, LoopShape
      <4>4. QED BY <4>1, <4>2, <4>3 DEF Threads
    <3>8. CASE t = "ui" /\ Head(todo[t]) = PutExit
      <4>1. queue' = Append(queue, Op("EXIT"))
        <5>1. Head(todo[t]).p = 2 BY <3>8 DEF PutExit
        <5>2. QED BY <2>11, <5>1 DEF Put, put
      <4>2. Op("EXIT") \in Messages /\ Op("EXIT").o = "EXIT" BY DEF Messages, Op
      <4>3. /\ One(queue') /\ (HasOp(queue', "EOS") <=> HasOp(queue, "EOS"))
            /\ HasOp(queue', "ERROR") => HasOp(queue, "ERROR")
        BY <3>6, <4>1, <4>2, AppendHas
      <4>4. Closing' => Closing BY <3>1, <3>2, <3>3, <4>3 DEF Closing
      <4>5. QED BY <2>0, <3>1, <3>2, <3>3, <3>4, <3>5, <3>8, <4>3, <4>4, EndKept
    <3>9. CASE t = "loop" /\ Head(todo[t]) = PutError
      <4>1. queue' = Append(queue, Op("ERROR")) /\ PutError # PutEos
        <5>1. PutError.p = 1 /\ PutEos.p = 0 BY DEF PutError, PutEos
        <5>2. QED BY <2>11, <3>9, <5>1 DEF Put, put
      <4>2. Op("ERROR") \in Messages /\ Op("ERROR").o = "ERROR" BY DEF Messages, Op
      <4>3. One(queue') /\ (HasOp(queue', "EOS") <=> HasOp(queue, "EOS"))
        BY <3>6, <4>1, <4>2, AppendHas
      <4>4. Closing
        <5>1. Head(todo["loop"]) = todo["loop"][1] /\ 1 \in 1..Len(todo["loop"])
          BY <2>0, <3>0, <3>9, HeadIs
        <5>2. QED BY <3>9, <5>1 DEF Closing, InLoop
      <4>5. Does("loop", "wait")' <=> Does("loop", "wait")
        <5>1. ~Does("loop", "wait") BY <3>0, <3>9 DEF Does
        <5>2. QED BY <3>3, <3>9, <4>1, <5>1
      <4>6. QED BY <2>0, <3>1, <3>2, <3>3, <3>4, <3>5, <4>3, <4>4, <4>5, EndKept
    <3>10. CASE t = "loop" /\ Head(todo[t]) = PutEos
      <4>1. queue' = Append(queue, Op("EOS"))
        <5>1. PutEos.p = 0 BY DEF PutEos
        <5>2. QED BY <2>11, <3>10, <5>1 DEF Put, put
      <4>2. Op("EOS") \in Messages /\ Op("EOS").o = "EOS" BY DEF Messages, Op
      <4>3. ~Does("loop", "wait") BY <3>0, <3>10 DEF Does
      <4>4. ~HasOp(queue, "EOS") /\ sem = 0 /\ ~Has("msg", "post")
        BY <2>0, <4>3 DEF EndInv, Answer
      <4>5. /\ One(queue') /\ HasOp(queue', "EOS")
            /\ HasOp(queue', "ERROR") => HasOp(queue, "ERROR")
        BY <3>6, <4>1, <4>2, <4>4, AppendHas
      <4>6. InLoop(PutEos) /\ ~NoEnd
        <5>1. Head(todo["loop"]) = todo["loop"][1] /\ 1 \in 1..Len(todo["loop"])
          BY <2>0, <3>0, <3>10, HeadIs
        <5>2. InLoop(PutEos) BY <3>10, <5>1 DEF InLoop
        <5>3. QED BY <5>2 DEF NoEnd
      <4>7. Answer' BY <3>1, <3>3, <3>4, <3>10, <4>4, <4>5 DEF Answer
      <4>8. ~Closing'
        <5>1. Closing' => Closing BY <3>1, <3>2, <3>3, <4>5 DEF Closing
        <5>2. QED BY <2>0, <4>6, <5>1 DEF EndInv
      <4>9. Limited' => OneEnd'
        <5> SUFFICES ASSUME Limited PROVE OneEnd' BY <3>5
        <5>1. OneEnd BY <2>0 DEF EndInv
        <5>2. ~Has("msg", "next")' BY <2>0, <3>2, <4>6, <5>1 DEF OneEnd
        <5>3. QED BY <2>0, <3>1, <3>2, <5>1, <5>2 DEF OneEnd
      <4>10. QED BY <4>7, <4>8, <4>9 DEF EndInv
    <3>11. QED BY <3>7, <3>8, <3>9, <3>10
  <2>12. CASE EosWait
    <3>0. Does("loop", "wait") /\ Done("loop") /\ sem > 0 /\ sem' = sem - 1
      BY <2>12 DEF EosWait
    <3>1. UNCHANGED <<bus, queue, repeat, times, leave>>
      BY <2>12 DEF EosWait, program, options
    <3>2. /\ \A u \in Threads : \A x : Has(u, x)' => Has(u, x)
      BY <2>0, <3>0, DoneFacts DEF Does
    <3>3. /\ InLoop(PutEos)' => InLoop(PutEos)
          /\ InLoop(PutError)' => InLoop(PutError)
          /\ ~Does("loop", "wait")'
      <4>1. Head(todo["loop"]) # PutEos BY <3>0 DEF Does, PutEos
      <4>2. QED BY <2>0, <3>0, <4>1, LoopKept
    <3>4. sem = 1 /\ ~HasOp(queue, "EOS") /\ ~Has("msg", "post") /\ One(queue)
      BY <2>0, <3>0 DEF EndInv, Answer
    <3>5. Answer' BY <2>0, <3>0, <3>1, <3>2, <3>3, <3>4 DEF Answer
    <3>6. Closing' => NoEnd'
      <4>1. Closing' => Closing BY <3>1, <3>2, <3>3 DEF Closing
      <4>2. NoEnd => NoEnd' BY <3>1, <3>3 DEF NoEnd
      <4>3. QED BY <2>0, <4>1, <4>2 DEF EndInv
    <3>7. Limited' => OneEnd'
      <4>1. Limited' <=> Limited BY <3>1 DEF Limited
      <4>2. NoEnd => NoEnd' BY <3>1, <3>3 DEF NoEnd
      <4>3. OneEnd => OneEnd' BY <2>0, <3>1, <3>2, <4>2 DEF OneEnd
      <4>4. QED BY <2>0, <4>1, <4>3 DEF EndInv
    <3>8. QED BY <3>5, <3>6, <3>7 DEF EndInv
  <2>13. CASE fsl_player_post_eos_semaphore
    <3>0. Does("msg", "post") /\ Done("msg") /\ sem' = sem + 1
      BY <2>13 DEF fsl_player_post_eos_semaphore
    <3>1. UNCHANGED <<bus, queue, repeat, times, leave>>
      BY <2>13 DEF fsl_player_post_eos_semaphore, program, options
    <3>2. /\ \A u \in Threads : \A x : Has(u, x)' => Has(u, x)
          /\ todo'["msg"] = Tail(todo["msg"])
      BY <2>0, <3>0, DoneFacts DEF Does
    <3>3. /\ InLoop(PutEos)' => InLoop(PutEos)
          /\ InLoop(PutError)' => InLoop(PutError)
          /\ Does("loop", "wait")' <=> Does("loop", "wait")
      BY <2>0, <3>0, LoopKept
    <3>4. Has("msg", "post") BY <2>0, <3>0, HeadIs
    <3>5. sem = 0 /\ ~HasOp(queue, "EOS") /\ One(queue) /\ Does("loop", "wait")
      BY <2>0, <3>4 DEF EndInv, Answer
    <3>6. ~Has("msg", "post")'
      <4> DEFINE S == todo["msg"]
                 U == Tail(S)
      <4>1. /\ S \in Seq(Operations) /\ S # <<>> /\ Len(S) \in Nat \ {0} /\ S[1].o = "post"
            /\ MsgShape(S)
        BY <2>0, <3>0, HeadIs DEF Shapes
      <4>2. Len(U) = Len(S) - 1 /\ \A i \in 1..Len(U) : U[i] = S[i + 1] BY <4>1, TailIs
      <4>3. 1 \in 1..Len(S) BY <4>1
      <4>4. 1 < Len(S) /\ S[1 + 1].o = "next" BY <4>1, <4>3 DEF MsgShape
      <4>5. 2 \in 1..Len(S) /\ S[2].o = "next" BY <4>1, <4>4
      <4>6. 2 + 1 = Len(S) /\ S[2 + 1] = Op("check") BY <4>1, <4>5 DEF MsgShape
      <4> HIDE DEF U
      <4>7. Len(U) = 2 /\ U[1].o = "next" /\ U[2] = Op("check") BY <4>2, <4>5, <4>6
      <4>8. todo'["msg"] = U BY <3>2 DEF U
      <4>9. U[2].o = "check" BY <4>7 DEF Op
      <4>10. \A i \in 1..2 : U[i].o # "post" BY <4>7, <4>9
      <4>11. QED BY <4>7, <4>8, <4>10 DEF Has
    <3>7. Answer' BY <3>0, <3>1, <3>3, <3>5, <3>6 DEF Answer
    <3>8. Closing' => NoEnd'
      <4>1. Closing' => Closing BY <3>1, <3>2, <3>3 DEF Closing
      <4>2. NoEnd => NoEnd' BY <3>1, <3>3 DEF NoEnd
      <4>3. QED BY <2>0, <4>1, <4>2 DEF EndInv
    <3>9. Limited' => OneEnd'
      <4>1. Limited' <=> Limited BY <3>1 DEF Limited
      <4>2. NoEnd => NoEnd' BY <3>1, <3>3 DEF NoEnd
      <4>3. OneEnd => OneEnd' BY <2>0, <3>1, <3>2, <4>2 DEF OneEnd
      <4>4. QED BY <2>0, <4>1, <4>3 DEF EndInv
    <3>10. QED BY <3>7, <3>8, <3>9 DEF EndInv
  <2>14. ASSUME NEW t \in Threads, RateStart(t) PROVE EndInv'
    <3>1. PICK S \in Seq(Operations) :
            /\ todo' = [todo EXCEPT !["ui"] = S]
            /\ \A o : HasOp(S, o) => o \in {"pause", "play", "rated"}
      BY <2>0, <2>14, RateStartIs
    <3>2. ~HasOp(S, "flags") BY <3>1
    <3>3. UNCHANGED <<bus, queue, sem, leave, repeat, times>>
      BY <2>14 DEF RateStart, program, options
    <3>4. Limited' => Limited BY <3>3 DEF Limited
    <3>5. QED BY <2>0, <3>1, <3>2, <3>3, <3>4, EndGiven
  <2>15. ASSUME NEW t \in Threads, playlist_previous(t) PROVE EndInv'
    <3>1. PICK S \in Seq(Operations) :
            /\ todo' = [todo EXCEPT !["ui"] = S]
            /\ \A o : HasOp(S, o) => o \in {"stop", "location", "play"}
      BY <2>0, <2>15, PreviousIs
    <3>2. ~HasOp(S, "flags") BY <3>1
    <3>3. UNCHANGED <<bus, queue, sem, leave, repeat, times>>
      BY <2>15 DEF playlist_previous, program, options
    <3>4. Limited' => Limited BY <3>3 DEF Limited
    <3>5. QED BY <2>0, <3>1, <3>2, <3>3, <3>4, EndGiven
  <2>16. CASE Command
    <3>1. PICK S \in Seq(Operations) :
            /\ todo' = [todo EXCEPT !["ui"] = S] /\ (HasOp(S, "flags") => ~Ending)
      <4>1. PICK c \in Commands : todo' = [todo EXCEPT !["ui"] = c] BY <2>16 DEF Command
      <4>2. c \in Seq(Operations) /\ (HasOp(c, "flags") => ~Ending)
        BY <1>0, CommandPrograms
      <4>3. QED BY <4>1, <4>2
    <3>2. HasOp(S, "flags") => NoEnd BY <2>0, <3>1, NotEnding
    <3>3. UNCHANGED <<bus, queue, sem, leave, repeat, times>>
      BY <2>16 DEF Command, options
    <3>4. Limited' => Limited BY <3>3 DEF Limited
    <3>5. QED BY <2>0, <3>1, <3>2, <3>3, <3>4, EndGiven
  <2>17. CASE NextCommand
    <3>1. todo' = [todo EXCEPT !["ui"] = Restart]
      <4>1. NextItem # 0 BY <1>0, <2>17 DEF NextCommand
      <4>2. QED BY <2>17, <4>1 DEF NextCommand, NextProgram
    <3>2. Restart \in Seq(Operations) /\ ~HasOp(Restart, "flags") BY RestartPrograms
    <3>3. playlist_next /\ UNCHANGED <<bus, queue, sem, leave>>
      BY <2>17 DEF NextCommand, playlist_next
    <3>4. Limited' => Limited
      <4>1. repeat' = repeat /\ (times' = times - 1 \/ times' = times)
        BY <3>3 DEF playlist_next
      <4>2. times \in Int BY <2>0 DEF TypeOK
      <4>3. QED BY <4>1, <4>2 DEF Limited
    <3>5. QED BY <2>0, <3>1, <3>2, <3>3, <3>4, EndGiven
  <2>18. CASE MsgNext
    <3>1. PICK S \in Seq(Operations) :
            /\ todo' = [todo EXCEPT !["msg"] = S] /\ ~HasOp(S, "post") /\ ~HasOp(S, "next")
            /\ HasOp(S, "flags") => NextItem = 0
      BY <2>0, <2>18, MsgNextIs
    <3>2. Has("msg", "next") /\ ~Has("msg", "post")
      <4>1. /\ todo["msg"] \in Seq(Operations) /\ MsgShape(todo["msg"]) /\ Has("msg", "next")
            /\ todo["msg"][1].o = "next" /\ 1 \in 1..Len(todo["msg"])
        <5>1. Does("msg", "next") BY <2>18 DEF MsgNext
        <5>2. QED BY <2>0, <5>1, HeadIs DEF Shapes
      <4>2. 1 + 1 = Len(todo["msg"]) /\ todo["msg"][1 + 1] = Op("check")
        BY <4>1 DEF MsgShape
      <4>3. QED BY <4>1, <4>2 DEF Has, Op
    <3>3. playlist_next /\ UNCHANGED <<bus, queue, sem, leave>>
      BY <2>18 DEF MsgNext, playlist_next
    <3>4. Limited' => Limited
      <4>1. repeat' = repeat /\ (times' = times - 1 \/ times' = times)
        BY <3>3 DEF playlist_next
      <4>2. times \in Int BY <2>0 DEF TypeOK
      <4>3. QED BY <4>1, <4>2 DEF Limited
    <3>5. HasOp(S, "flags") => NoEnd
      <4> SUFFICES ASSUME NextItem = 0 PROVE NoEnd BY <3>1
      <4>1. repeat # "CURRENT" /\ ~(repeat = "PLAYLIST" /\ times # 1)
        <5>1. cur # 0 /\ cur + 1 # 0 BY <2>0, PlayAssumption DEF TypeOK
        <5>2. QED BY <5>1 DEF NextItem
      <4>2. Limited BY <2>0, <4>1 DEF Limited, TypeOK
      <4>3. QED BY <2>0, <3>2, <4>2 DEF EndInv, OneEnd
    <3>6. QED BY <2>0, <3>1, <3>2, <3>3, <3>4, <3>5, EndGiven
  <2>19. CASE MsgCheck
    <3>1. Does("msg", "check") /\ UNCHANGED <<bus, queue, sem, leave, repeat, times>>
      BY <2>19 DEF MsgCheck, options
    <3>2. CASE Done("msg")
      <4>1. (leave' => Closing) /\ One(queue) BY <2>0, <3>1 DEF Closing, EndInv, Answer
      <4>2. QED BY <2>0, <3>1, <3>2, <4>1, EndDone
    <3>3. CASE todo' = [todo EXCEPT !["msg"] = Ops(<<"get">>)]
      <4>1. PICK S \in Seq(Operations) : S = Ops(<<"get">>) BY <2>0, <2>19, MsgCheckIs
      <4>2. todo' = [todo EXCEPT !["msg"] = S] /\ \A o : HasOp(S, o) => o = "get"
        BY <2>0, <2>19, <3>3, <4>1, MsgCheckIs, Zenon
      <4>3. ~HasOp(S, "post") /\ ~HasOp(S, "next") /\ ~HasOp(S, "flags") BY <4>2
      <4>4. ~Has("msg", "post")
        <5>1. Len(todo["msg"]) = 1 /\ todo["msg"][1].o = "check" BY <2>0, <3>1, HeadIs
        <5>2. QED BY <5>1 DEF Has
      <4>5. Limited' => Limited BY <3>1 DEF Limited
      <4>6. QED BY <2>0, <3>1, <4>2, <4>3, <4>4, <4>5, EndGiven
    <3>4. QED BY <2>0, <2>19, <3>2, <3>3, MsgCheckIs
  <2>20. CASE MsgGet
    <3>1. PICK S \in Seq(Operations) :
            /\ todo' = [todo EXCEPT !["msg"] = S]
            /\ HasOp(S, "flags") => Head(queue).o = "ERROR"
            /\ Head(queue).o = "EOS" => HasOp(S, "post") /\ HasOp(S, "next")
            /\ Head(queue).o # "EOS" => ~HasOp(S, "post") /\ ~HasOp(S, "next")
      BY <2>0, <2>20, MsgGetIs
    <3>2. queue # <<>> /\ queue' = Tail(queue) /\ ~Has("msg", "post") /\ ~Has("msg", "next")
      BY <2>0, <2>20, MsgGetIs
    <3>3. UNCHANGED <<bus, sem, leave, repeat, times>> BY <2>20 DEF MsgGet, options
    <3>4. /\ todo'["loop"] = todo["loop"] /\ \A x : Has("msg", x)' <=> HasOp(S, x)
          /\ \A u \in Threads \ {"msg"} : \A x : Has(u, x)' <=> Has(u, x)
      <4>1. todo'["msg"] = S /\ \A u \in Threads \ {"msg"} : todo'[u] = todo[u]
        BY <2>0, <3>1 DEF TypeOK
      <4>2. QED BY <4>1 DEF Has, HasOp, Threads
    <3>5. /\ Does("loop", "wait")' <=> Does("loop", "wait")
          /\ \A e : InLoop(e)' <=> InLoop(e)
      BY <3>4 DEF Does, InLoop
    <3>6. /\ \A o : /\ HasOp(queue', o) => HasOp(queue, o)
                    /\ HasOp(queue, o) => HasOp(queue', o) \/ Head(queue).o = o
                    /\ Head(queue).o = o => HasOp(queue, o)
          /\ One(queue) => One(queue') /\ (Head(queue).o = "EOS" => ~HasOp(queue', "EOS"))
      <4>1. queue \in Seq(Messages) BY <2>0 DEF TypeOK
      <4>2. QED BY <3>2, <4>1, TakenHas
    <3>7. Limited' <=> Limited BY <3>3 DEF Limited
    <3>8. "loop" \in Threads \ {"msg"} BY DEF Threads
    <3>9. Closing' => Closing
      <4>1. Has("msg", "flags")' => HasOp(queue, "ERROR") BY <3>1, <3>4, <3>6
      <4>2. QED BY <3>3, <3>4, <3>5, <3>6, <4>1 DEF Closing
    <3>10. One(queue) BY <2>0 DEF EndInv, Answer
    <3>11. CASE Head(queue).o # "EOS"
      <4>1. HasOp(queue', "EOS") <=> HasOp(queue, "EOS") BY <3>6, <3>11
      <4>2. Has("msg", "post")' <=> Has("msg", "post") BY <3>1, <3>2, <3>4, <3>11
      <4>3. ~Has("msg", "next")' BY <3>1, <3>4, <3>11
      <4>4. QED
        BY <2>0, <3>3, <3>4, <3>5, <3>6, <3>7, <3>8, <3>9, <3>10, <4>1, <4>2, <4>3,
          EndKept
    <3>12. CASE Head(queue).o = "EOS"
      <4>1. HasOp(queue, "EOS") /\ ~HasOp(queue', "EOS") /\ One(queue')
        BY <3>6, <3>10, <3>12
      <4>2. sem = 0 /\ Does("loop", "wait") BY <2>0, <4>1 DEF EndInv, Answer
      <4>3. Has("msg", "post")' BY <3>1, <3>4, <3>12
      <4>4. Answer' BY <3>3, <3>5, <4>1, <4>2, <4>3 DEF Answer
      <4>5. ~Closing' BY <2>0, <3>9, <4>1 DEF EndInv, NoEnd
      <4>6. Limited' => OneEnd'
        <5> SUFFICES ASSUME Limited PROVE OneEnd' BY <3>7
        <5>1. OneEnd BY <2>0 DEF EndInv
        <5>2. Has("loop", "wait") BY <2>0, <4>2, HeadIs
        <5>3. ~HasOp(bus, "EOS") BY <5>1, <5>2 DEF OneEnd
        <5>4. ~InLoop(PutEos) BY <2>0, <4>2, LoopFacts
        <5>5. NoEnd' BY <3>3, <3>5, <4>1, <5>3, <5>4 DEF NoEnd
        <5>6. QED BY <3>3, <5>1, <5>3, <5>5 DEF OneEnd
      <4>7. QED BY <4>4, <4>5, <4>6 DEF EndInv
    <3>13. QED BY <3>11, <3>12
  <2>21. CASE my_bus_callback
    <3>1. PICK S \in Seq(Operations) :
            /\ todo' = [todo EXCEPT !["loop"] = S]
            /\ ~HasOp(S, "flags") /\ S # <<>> /\ S[1].o # "wait"
            /\ \A i \in 1..Len(S) : S[i] = PutEos => Head(bus).o = "EOS"
            /\ \A i \in 1..Len(S) : S[i] = PutError => Head(bus).o = "ERROR"
            /\ HasOp(S, "wait") => Head(bus).o = "EOS"
      BY <2>0, <2>21, BusIs
    <3>2. bus # <<>> /\ bus' = Tail(bus) /\ todo["loop"] = <<>> BY <2>0, <2>21, BusIs
    <3>3. UNCHANGED <<queue, sem, leave, repeat, times>>
      BY <2>21 DEF my_bus_callback, program, options
    <3>4. /\ todo'["loop"] = S /\ \A x : Has("loop", x)' <=> HasOp(S, x)
          /\ \A u \in Threads \ {"loop"} : \A x : Has(u, x)' <=> Has(u, x)
      <4>1. todo'["loop"] = S /\ \A u \in Threads \ {"loop"} : todo'[u] = todo[u]
        BY <2>0, <3>1 DEF TypeOK
      <4>2. QED BY <4>1 DEF Has, HasOp
    <3>5. /\ \A o : /\ HasOp(bus', o) => HasOp(bus, o)
                    /\ Head(bus).o = o => HasOp(bus, o)
          /\ One(bus) => One(bus') /\ (Head(bus).o = "EOS" => ~HasOp(bus', "EOS"))
      <4>1. bus \in Seq(Messages) BY <2>0 DEF TypeOK
      <4>2. QED BY <3>2, <4>1, TakenHas
    <3>6. ~Does("loop", "wait") /\ ~Does("loop", "wait")'
      <4>1. Head(S) = S[1] BY <3>1, TailIs
      <4>2. QED BY <3>1, <3>2, <3>4, <4>1 DEF Does
    <3>7. /\ InLoop(PutEos)' => Head(bus).o = "EOS"
          /\ InLoop(PutError)' => Head(bus).o = "ERROR"
      BY <3>1, <3>4 DEF InLoop
    <3>8. "msg" \in Threads \ {"loop"} BY DEF Threads
    <3>9. Answer' BY <2>0, <3>3, <3>4, <3>6, <3>8 DEF EndInv, Answer
    <3>10. NoEnd => NoEnd' BY <3>3, <3>5, <3>7 DEF NoEnd
    <3>11. Closing' => NoEnd'
      <4>1. Closing' => Closing BY <3>1, <3>3, <3>4, <3>5, <3>7 DEF Closing
      <4>2. QED BY <2>0, <3>10, <4>1 DEF EndInv
    <3>12. Limited' => OneEnd'
      <4>1. Limited' <=> Limited BY <3>3 DEF Limited
      <4> SUFFICES ASSUME Limited PROVE OneEnd' BY <4>1
      <4>2. OneEnd BY <2>0 DEF EndInv
      <4>3. HasOp(bus', "EOS") => ~Has("loop", "wait")'
        BY <3>1, <3>4, <3>5, <4>2 DEF OneEnd
      <4>4. HasOp(bus', "EOS") => ~Has("msg", "next")'
        BY <3>4, <3>5, <3>8, <4>2 DEF OneEnd
      <4>5. Has("msg", "next")' => NoEnd' BY <3>4, <3>8, <3>10, <4>2 DEF OneEnd
      <4>6. QED BY <3>5, <4>2, <4>3, <4>4, <4>5 DEF OneEnd
    <3>13. QED BY <3>9, <3>11, <3>12 DEF EndInv
  <2>22. CASE LoopEnds
    <3>1. UNCHANGED <<todo, queue, sem, leave, repeat, times, bus>>
      BY <2>22 DEF LoopEnds, options
    <3>2. QED BY <2>0, <3>1, EndSame
  <2>23. CASE fsl_player_deinit
    <3>1. UNCHANGED <<todo, queue, sem, leave, repeat, times, bus>>
      BY <2>23 DEF fsl_player_deinit, options
    <3>2. QED BY <2>0, <3>1, EndSame
  <2>24. CASE MainEnds
    <3>1. UNCHANGED <<todo, queue, sem, leave, repeat, times, bus>>
      BY <2>24 DEF MainEnds, options
    <3>2. QED BY <2>0, <3>1, EndSame
  <2>25. CASE EndOfFile
    <3>1. bus' = Append(bus, Op("EOS")) /\ ~Leaving BY <1>0, <2>25 DEF EndOfFile, Emit
    <3>2. UNCHANGED <<todo, queue, sem, leave, repeat, times>>
      BY <2>25 DEF EndOfFile, Emit, options
    <3>3. Op("EOS") \in Messages /\ Op("EOS").o = "EOS" BY DEF Messages, Op
    <3>4. bus \in Seq(Messages) /\ queue \in Seq(Messages) BY <2>0 DEF TypeOK
    <3>5. /\ \A u : \A x : (Has(u, x)' <=> Has(u, x)) /\ (Does(u, x)' <=> Does(u, x))
          /\ \A e : InLoop(e)' <=> InLoop(e)
      BY <3>2 DEF Has, Does, InLoop
    <3>6. /\ HasOp(bus', "ERROR") => HasOp(bus, "ERROR")
          /\ One(bus) /\ ~HasOp(bus, "EOS") => One(bus')
      BY <3>1, <3>3, <3>4, AppendHas
    <3>7. Answer' BY <2>0, <3>2, <3>5 DEF EndInv, Answer
    <3>8. ~Closing'
      <4>1. /\ Op("ERROR") \notin ToSet(bus) /\ Op("ERROR") \notin ToSet(queue)
            /\ PutError \notin ToSet(todo["loop"]) /\ ~leave /\ \A t \in Threads : ~Has(t, "flags")
        BY <3>1 DEF Leaving
      <4>2. ~HasOp(bus, "ERROR") /\ ~HasOp(queue, "ERROR") BY <3>4, <4>1, NotThere
      <4>3. ~InLoop(PutError)
        <5> SUFFICES ASSUME NEW i \in 1..Len(todo["loop"]), todo["loop"][i] = PutError PROVE FALSE
          BY DEF InLoop
        <5>1. todo["loop"] \in Seq(Operations) BY <2>0 DEF TypeOK
        <5>2. i \in DOMAIN todo["loop"] BY <5>1
        <5>3. QED BY <4>1, <5>2 DEF ToSet
      <4>4. QED BY <3>2, <3>5, <3>6, <4>1, <4>2, <4>3 DEF Closing
    <3>9. Limited' => OneEnd'
      <4>1. Limited' <=> Limited BY <3>2 DEF Limited
      <4> SUFFICES ASSUME Limited PROVE OneEnd' BY <4>1
      <4>2. OneEnd BY <2>0 DEF EndInv
      <4>3. ~Ending BY <3>1 DEF Leaving, Limited
      <4>4. ~Has("loop", "wait") /\ ~Has("msg", "next") BY <4>3 DEF Ending
      <4>5. ~HasOp(bus, "EOS") BY <2>0, <4>3, NotEnding DEF NoEnd
      <4>6. QED BY <3>5, <3>6, <4>2, <4>4, <4>5 DEF OneEnd
    <3>10. QED BY <3>7, <3>8, <3>9 DEF EndInv
  <2>26. CASE PipelineError
    <3>1. bus' = Append(bus, Op("ERROR")) /\ ~Ending
      BY <1>0, <2>26 DEF PipelineError, Emit
    <3>2. UNCHANGED <<todo, queue, sem, leave, repeat, times>>
      BY <2>26 DEF PipelineError, Emit, options
    <3>3. Op("ERROR") \in Messages /\ Op("ERROR").o = "ERROR" BY DEF Messages, Op
    <3>4. bus \in Seq(Messages) BY <2>0 DEF TypeOK
    <3>5. (One(bus) => One(bus')) /\ (HasOp(bus', "EOS") => HasOp(bus, "EOS"))
      BY <3>1, <3>3, <3>4, AppendHas
    <3>6. NoEnd BY <2>0, <3>1, NotEnding
    <3>7. QED BY <2>0, <3>2, <3>5, <3>6, EndSame
  <2>27. ASSUME NEW p \in Percents, Buffering(p) PROVE EndInv'
    <3> DEFINE m == [o |-> "BUFFERING", p |-> p]
    <3>1. bus' = Append(bus, m) BY <2>27 DEF Buffering, Emit
    <3>2. UNCHANGED <<todo, queue, sem, leave, repeat, times>>
      BY <2>27 DEF Buffering, Emit, options
    <3>3. m \in Messages /\ m.o = "BUFFERING" BY PlayAssumption DEF Messages
    <3>4. bus \in Seq(Messages) BY <2>0 DEF TypeOK
    <3> HIDE DEF m
    <3>5. /\ One(bus) => One(bus')
          /\ HasOp(bus', "EOS") => HasOp(bus, "EOS")
          /\ HasOp(bus', "ERROR") => HasOp(bus, "ERROR")
      BY <3>1, <3>3, <3>4, AppendHas
    <3>6. QED BY <2>0, <3>2, <3>5, EndSame
  <2>28. CASE UNCHANGED vars
    <3>1. UNCHANGED <<todo, queue, sem, leave, repeat, times, bus>> BY <2>28 DEF vars
    <3>2. QED BY <2>0, <3>1, EndSame
  <2>29. QED
    BY <2>1, <2>2, <2>3, <2>4, <2>5, <2>6, <2>7, <2>8, <2>9, <2>10, <2>11, <2>12, <2>13,
      <2>14, <2>15, <2>16, <2>17, <2>18, <2>19, <2>20, <2>21, <2>22, <2>23, <2>24,
      <2>25, <2>26, <2>27, <2>28
    DEF Next, Step, Loop, Msg, Pipeline
<1>3. QED BY <1>1, <1>2, BaseInvariant, PTL DEF Spec

(* The ends of files in a queue that holds one at most.                    *)
LEMMA EndsAre ==
  ASSUME NEW s \in Seq(Messages), One(s)
  PROVE  Ends(s) = IF HasOp(s, "EOS") THEN 1 ELSE 0
<1> DEFINE E == {i \in 1..Len(s) : s[i].o = "EOS"}
<1>1. CASE HasOp(s, "EOS")
  <2>1. PICK i \in 1..Len(s) : s[i].o = "EOS" BY <1>1 DEF HasOp
  <2>2. E = {i} BY <2>1 DEF One
  <2> HIDE DEF E
  <2>3. Cardinality(E) = 1 BY <2>2, FS_Singleton
  <2>4. QED BY <1>1, <2>3 DEF Ends, E
<1>2. CASE ~HasOp(s, "EOS")
  <2>1. E = {} BY <1>2 DEF HasOp
  <2> HIDE DEF E
  <2>2. Cardinality(E) = 0 BY <2>1, FS_EmptySet
  <2>3. QED BY <1>2, <2>2 DEF Ends, E
<1>3. QED BY <1>1, <1>2

(* Where no file ends while the player is being left, and the command for  *)
(* the next file is not given at the last one, the callback of the bus     *)
(* that waits for the end of a file has exactly one answer coming, and no  *)
(* answer is left over: for every play list, number of commands, repeat    *)
(* mode, failing change of state, pipeline error and flush of the queue.   *)
THEOREM EndsAnswered ==
  ASSUME "exit_eos" \notin Allowed, "next_exit" \notin Allowed
  PROVE  Spec => []EosHandshake
<1>1. BaseInv /\ EndInv => EosHandshake
  <2> SUFFICES ASSUME BaseInv, EndInv PROVE EosHandshake OBVIOUS
  <2>1. Answer /\ queue \in Seq(Messages) BY DEF BaseInv, TypeOK, EndInv
  <2>2. Ends(queue) = IF HasOp(queue, "EOS") THEN 1 ELSE 0 BY <2>1, EndsAre DEF Answer
  <2>3. QED BY <2>1, <2>2 DEF Answer, EosHandshake
<1>2. QED BY <1>1, BaseInvariant, EndInvariant, PTL
=============================================================================
