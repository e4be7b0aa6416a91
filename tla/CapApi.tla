------------------------------- MODULE CapApi -------------------------------
(***************************************************************************)
(* What libvfmcap promises its caller (libvfmcap/include/vfmcap.h), with   *)
(* the driver, its events and its errnos left out:                         *)
(*   - an acquire that succeeds hands over a frame the caller does not     *)
(*     hold yet, and one that fails hands over none;                       *)
(*   - from the call that reports a lost signal on, the caller gets no     *)
(*     frame before one that is announced by VFMCAP_RECONFIGURED, and it   *)
(*     gets this announcement exactly then; the format of frames changes   *)
(*     only between the two, or where the caller opens or starts;          *)
(*   - frames are taken from the caller by its own release, by stop, or by *)
(*     the replacement of the buffers inside an acquire after a loss.      *)
(* VfmCap implements this module; PathA is a client of it.                 *)
(***************************************************************************)

CONSTANTS
  Buf,             \* the frames, named by the index of their V4L2 buffer
  Shape            \* the formats frames can have

VARIABLES
  open, on,        \* the context exists, streams
  busy,            \* an acquire is in progress
  res,             \* result of the last call
  lost,            \* a loss was reported and no frame delivered since
  shape,           \* the format of the frames the context delivers
  client           \* the frames the caller holds

apiVars == <<open, on, busy, res, lost, shape, client>>

Failures == {"timeout", "ioctl", "vulkan", "state"}

ApiInit ==
  /\ open = FALSE /\ on = FALSE /\ busy = FALSE /\ res = "none"
  /\ lost = FALSE /\ client = {} /\ shape \in Shape

Open ==
  /\ ~open /\ ~busy
  /\ open' = TRUE /\ res' = "ok" /\ shape' \in Shape
  /\ UNCHANGED <<on, busy, lost, client>>

(* A failed start may leave the context streaming: Vulkan comes last.      *)
Start ==
  /\ open /\ ~busy
  /\ on' \in {on, TRUE}
  /\ res' \in {"ioctl", "vulkan", "inval"} \/ (res' = "ok" /\ on')
  /\ lost' \in {lost, FALSE}
  /\ shape' \in Shape /\ (on => shape' = shape)
  /\ UNCHANGED <<open, busy, client>>

Stop ==
  /\ open /\ on /\ ~busy
  /\ on' = FALSE /\ client' = {}
  /\ UNCHANGED <<open, busy, res, lost, shape>>

Close ==
  /\ open /\ ~busy
  /\ open' = FALSE /\ on' = FALSE /\ lost' = FALSE /\ client' = {}
  /\ shape' \in Shape
  /\ UNCHANGED <<busy, res>>

Acquire ==
  /\ open /\ ~busy
  /\ IF on THEN busy' = TRUE /\ res' = "none" ELSE busy' = busy /\ res' = "state"
  /\ UNCHANGED <<open, on, lost, shape, client>>

Replace ==
  /\ busy /\ lost
  /\ client' = {} /\ shape' \in Shape
  /\ UNCHANGED <<open, on, busy, res, lost>>

Got(i) ==
  /\ busy /\ i \notin client
  /\ busy' = FALSE /\ client' = client \cup {i}
  /\ res' = IF lost THEN "reconfigured" ELSE "ok"
  /\ lost' = FALSE
  /\ UNCHANGED <<open, on, shape>>

Fail ==
  /\ busy /\ busy' = FALSE
  /\ \/ res' \in Failures /\ lost' = lost
     \/ res' = "nosig" /\ lost' = TRUE
  /\ UNCHANGED <<open, on, shape, client>>

Release(i) ==
  /\ open /\ i \in client
  /\ client' = client \ {i}
  /\ UNCHANGED <<open, on, busy, res, lost, shape>>

PollEventApi ==
  /\ open /\ ~busy
  /\ res' \in {"ev_nosig", "ev_source_change"} /\ lost' = TRUE
  /\ UNCHANGED <<open, on, busy, shape, client>>

ApiNext ==
  \/ Open \/ Start \/ Stop \/ Close \/ PollEventApi
  \/ Acquire \/ Replace \/ Fail
  \/ \E i \in Buf : Got(i) \/ Release(i)

ApiSpec == ApiInit /\ [][ApiNext]_apiVars
=============================================================================
