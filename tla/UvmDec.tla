------------------------------- MODULE UvmDec -------------------------------
(***************************************************************************)
(* The player v4l2-uvm-test: demuxer thread (demux.c), decoder thread      *)
(* (v4l2-dec.c), display and recycle threads (drm.c) and the main thread   *)
(* (test.c) around a V4L2 memory-to-memory decoder.  Packets go to the     *)
(* decoder in output buffers; pictures come back in capture buffers, each  *)
(* bound to a DRM frame, and travel through av_sync, the screen and a ring *)
(* back to the decoder.  A resolution change replaces all capture buffers  *)
(* while the old ones are still on their way to the screen.                *)
(*                                                                         *)
(* Threads are cut at their locks, ioctls and unlocked shared accesses.    *)
(* The driver and av_sync are external and modelled from their use.        *)
(***************************************************************************)
EXTENDS Integers, Sequences, FiniteSets, SequencesExt

CONSTANTS
  NOut,       \* OUTPUT_BUF_CNT or what the driver asks for
  NCap,       \* V4L2_CID_MIN_BUFFERS_FOR_CAPTURE
  Room,       \* chunks that fit into an output buffer (ES_BUF_SIZE)
  RingLen,    \* MAX_BUF_SIZE, entries of the ring to the recycle thread
  SyncLen,    \* frames that av_sync queues
  MaxPackets, \* bound: packets of the file
  MaxGen,     \* bound: sets of capture buffers, one per resolution
  Allowed     \* which of UvmBehaviours happen

(***************************************************************************)
(*   out_fail     VIDIOC_QBUF of a packet may fail                         *)
(*   cap_fail     VIDIOC_QBUF of a displayed frame may fail                *)
(*   res_fail     an ioctl of handle_res_change or handle_first_frame may  *)
(*   flip_fail    page_flip may fail                                       *)
(*   vblank_fail  drmWaitVBlank may fail                                   *)
(*   sigint       the user interrupts playback once pictures are shown     *)
(*   late_used    the demuxer takes an output buffer before dec_thread     *)
(*                resets its "used" (outside output_p.lock)                *)
(*   late_queued  a frame is decoded and dequeued before                   *)
(*                capture_buffer_recycle sets its "queued" (no common lock)*)
(*   ring_race    queue_frame and dequeue_frame update total_num together  *)
(*   early_change the resolution changes before the first picture is       *)
(*                dequeued (the code ignores the event then)               *)
(***************************************************************************)
UvmBehaviours == {"out_fail", "cap_fail", "res_fail", "flip_fail",
                  "vblank_fail", "sigint", "late_used", "late_queued",
                  "ring_race", "early_change"}

ASSUME UvmAssumption ==
  /\ {NOut, NCap, Room, RingLen, SyncLen, MaxGen} \subseteq Nat \ {0}
  /\ MaxPackets \in Nat /\ Allowed \subseteq UvmBehaviours

OutIdx == 1..NOut
Frame  == (1..MaxGen) \X (1..NCap)   \* capture buffer with its DRM frame
None   == <<0, 0>>                   \* no frame
Eos    == <<0, 1>>                   \* the empty frame that ends the display

VARIABLES
  dmx,    \* demuxer thread: pc, packets read, chunks left, key frame seen
  cur,    \* cur_output_index, 0 for -1
  wrote,  \* chunks handed to v4l2_dec_write_es since the last packet went out
  out,    \* output_p.buf: queued and used (in chunks)
  drv,    \* the driver: queues of both ports, events, state
  dec,    \* decoder thread: pc, frame in hand, pending events
  cap,    \* capture_p: generation; queued, free_on_recycle, existing frames
  eos_received,
  lock,   \* res_lock while a recycle is between QBUF and queued = true
  syn,    \* av_sync: pushed frames, the one it shows
  disp,   \* display thread: pc, f_p1, frames it must recycle, count it read
  ring,   \* aml_dis.queue with ri, wi and total_num
  rec,    \* recycle thread: pc, frame in hand, count it read
  started, last_frame,             \* aml_dis
  main,   \* main thread: pc, the semaphore wait_for_end
  thread_quit, quit_thread,        \* demux.c, v4l2-dec.c
  parked, \* frames that the code leaves with nobody on purpose or on error
  fault   \* failures after which playback may hang

threads == <<dmx, dec, disp, rec, main>>
vars == <<dmx, cur, wrote, out, drv, dec, cap, eos_received, lock, syn, disp,
          ring, rec, started, last_frame, main, thread_quit, quit_thread,
          parked, fault>>

May(b)    == b \in Allowed
MinOf(a, b) == IF a < b THEN a ELSE b
Set(g)    == {<<g, i>> : i \in 1..NCap}
Setup(g)  == [i \in 1..NCap |-> <<g, i>>]

(* demux_init has written the codec header, if there is one, to the first  *)
(* output buffer before it starts the thread.                              *)
Init ==
  \E header \in {0, 1} :
    /\ dmx = [pc |-> "read", n |-> 0, left |-> 0, key |-> FALSE]
    /\ cur = header /\ wrote = header
    /\ out = [i \in OutIdx |-> [queued |-> FALSE,
                                used |-> IF i = 1 THEN header ELSE 0]]
    /\ drv = [outq |-> <<>>, outd |-> <<>>, capq |-> <<>>, capd |-> <<>>,
              ev |-> <<>>, st |-> "new", stop |-> FALSE]
    /\ dec = [pc |-> "none", in |-> FALSE, hand |-> None, late |-> 0,
              res |-> FALSE, eos |-> FALSE, push |-> FALSE]
    /\ cap = [gen |-> 0, queued |-> {}, recycle |-> {}, alive |-> {}]
    /\ eos_received = FALSE /\ lock = None
    /\ syn = [q |-> <<>>, shown |-> None]
    /\ disp = [pc |-> "none", f |-> None, cb |-> <<>>, n |-> 0, flag |-> FALSE]
    /\ ring = [slot |-> [k \in 0 .. RingLen - 1 |-> None], ri |-> 0, wi |-> 0,
               n |-> 0]
    /\ rec = [pc |-> "none", f |-> None, n |-> 0]
    /\ started = FALSE /\ last_frame = FALSE
    /\ main = [pc |-> "wait", sem |-> 0]
    /\ thread_quit = FALSE /\ quit_thread = FALSE
    /\ parked = {} /\ fault = {}

-----------------------------------------------------------------------------
(* Demuxer thread: dmx_thread_func, demux_packet and the decoder callbacks *)

dmxOnly == <<drv, dec, cap, eos_received, lock, syn, disp, ring, rec, started,
             last_frame, main, thread_quit, quit_thread, parked>>

av_read_frame ==
  /\ dmx.pc = "read" /\ dmx.n < MaxPackets /\ ~thread_quit
  /\ \E chunks \in 1..2 :
       dmx' = [dmx EXCEPT !.pc = "write", !.n = @ + 1, !.left = chunks]
  /\ UNCHANGED <<cur, wrote, out, fault, dmxOnly>>

DmxQuit ==
  /\ dmx.pc = "read" /\ thread_quit
  /\ dmx' = [dmx EXCEPT !.pc = "done"]
  /\ UNCHANGED <<cur, wrote, out, fault, dmxOnly>>

(* End of file: V4L2_DEC_CMD_STOP.                                         *)
v4l2_dec_eos ==
  /\ dmx.pc = "read" /\ dmx.n > 0 /\ ~thread_quit
  /\ dmx' = [dmx EXCEPT !.pc = "done"] /\ drv' = [drv EXCEPT !.stop = TRUE]
  /\ UNCHANGED <<cur, wrote, out, dec, cap, eos_received, lock, syn, disp, ring,
                 rec, started, last_frame, main, thread_quit, quit_thread,
                 parked, fault>>

(* The first buffer that is not queued; waits for one on output_p.wait.    *)
(* quit_thread is set only after this thread has ended, so the -1 of an    *)
(* interrupted wait is not reached.                                        *)
get_free_output_buf ==
  /\ dmx.pc = "write" /\ cur = 0
  /\ \E i \in OutIdx :
       /\ ~out[i].queued /\ \A j \in 1 .. i - 1 : out[j].queued
       /\ May("late_used") \/ dec.late # i
       /\ cur' = i
  /\ UNCHANGED <<dmx, wrote, out, fault, dmxOnly>>

(* Appends a chunk, or drops one that does not fit.                        *)
v4l2_dec_write_es ==
  /\ dmx.pc = "write" /\ dmx.left > 0 /\ cur # 0
  /\ out' = [out EXCEPT ![cur].used = MinOf(@ + 1, Room)]
  /\ wrote' = MinOf(wrote + 1, Room) /\ dmx' = [dmx EXCEPT !.left = @ - 1]
  /\ UNCHANGED <<cur, fault, dmxOnly>>

(* Until the first key frame, packets of a raw stream are written but not  *)
(* finished.                                                               *)
DropNonKey ==
  /\ dmx.pc = "write" /\ dmx.left = 0 /\ ~dmx.key
  /\ dmx' = [dmx EXCEPT !.pc = "read"]
  /\ UNCHANGED <<cur, wrote, out, fault, dmxOnly>>

v4l2_dec_frame_done ==
  /\ dmx.pc = "write" /\ dmx.left = 0
  /\ out' = [out EXCEPT ![cur].queued = TRUE]
  /\ dmx' = [dmx EXCEPT !.pc = "qbuf", !.key = TRUE]
  /\ UNCHANGED <<cur, wrote, fault, dmxOnly>>

(* VIDIOC_QBUF of the packet; the first one sets the capture port up.      *)
OutQbuf ==
  /\ dmx.pc = "qbuf"
  /\ drv' = [drv EXCEPT !.outq = Append(@, cur)]
  /\ dmx' = [dmx EXCEPT !.pc = IF cap.gen = 0 THEN "first" ELSE "read"]
  /\ cur' = 0 /\ wrote' = 0
  /\ UNCHANGED <<out, dec, cap, eos_received, lock, syn, disp, ring, rec,
                 started, last_frame, main, thread_quit, quit_thread, parked,
                 fault>>

(* The buffer stays current and marked; the next packet is appended to it. *)
OutQbufFail ==
  /\ dmx.pc = "qbuf" /\ May("out_fail")
  /\ dmx' = [dmx EXCEPT !.pc = "read"] /\ fault' = fault \cup {"out"}
  /\ UNCHANGED <<cur, wrote, out, dmxOnly>>

(* setup_capture_port: a new set of buffers, all queued, then STREAMON.    *)
SetupCapture(g) ==
  /\ cap' = [cap EXCEPT !.gen = g, !.queued = @ \cup Set(g),
                        !.alive = @ \cup Set(g)]
  /\ drv' = [drv EXCEPT !.capq = Setup(g), !.st = "run"]

handle_first_frame ==
  /\ dmx.pc = "first"
  /\ SetupCapture(1)
  /\ dmx' = [dmx EXCEPT !.pc = "read"] /\ dec' = [dec EXCEPT !.pc = "poll"]
  /\ UNCHANGED <<cur, wrote, out, eos_received, lock, syn, disp, ring, rec,
                 started, last_frame, main, thread_quit, quit_thread, parked,
                 fault>>

FirstFrameFatal ==
  /\ dmx.pc = "first" /\ May("res_fail")
  /\ dmx' = [dmx EXCEPT !.pc = "stuck"] /\ fault' = fault \cup {"res"}
  /\ UNCHANGED <<cur, wrote, out, dmxOnly>>

Demux ==
  \/ av_read_frame \/ DmxQuit \/ v4l2_dec_eos \/ get_free_output_buf
  \/ v4l2_dec_write_es \/ DropNonKey \/ v4l2_dec_frame_done \/ OutQbuf
  \/ OutQbufFail \/ handle_first_frame \/ FirstFrameFatal

-----------------------------------------------------------------------------
(* The driver (external): one picture per packet, SOURCE_CHANGE before the *)
(* first one, and event plus a LAST buffer at a change and at the end.     *)

drvOnly == <<dmx, cur, wrote, out, dec, cap, eos_received, lock, syn, disp,
             ring, rec, started, last_frame, main, thread_quit, quit_thread,
             parked, fault>>

Picture(last) ==
  [drv EXCEPT !.capq = Tail(@),
              !.capd = Append(@, [f |-> Head(drv.capq), last |-> last])]

Decode ==
  /\ drv.st = "run" /\ drv.outq # <<>> /\ drv.capq # <<>>
  /\ drv' = [Picture(FALSE) EXCEPT
               !.outq = Tail(@), !.outd = Append(@, Head(drv.outq))]
  /\ UNCHANGED drvOnly

FirstResolution ==
  /\ drv.st = "run" /\ cap.gen = 1 /\ ~dec.push /\ drv.capd = <<>>
  /\ drv.ev = <<>> /\ ~dec.res
  /\ drv' = [drv EXCEPT !.ev = <<"src">>]
  /\ UNCHANGED drvOnly

NewResolution ==
  /\ drv.st = "run" /\ drv.outq # <<>> /\ cap.gen < MaxGen
  /\ dec.push \/ (May("early_change") /\ drv.capd # <<>>)
  /\ drv' = [drv EXCEPT !.ev = Append(@, "src"), !.st = "flush"]
  /\ UNCHANGED drvOnly

EndOfStream ==
  /\ drv.st = "run" /\ drv.stop /\ drv.outq = <<>>
  /\ drv' = [drv EXCEPT !.ev = Append(@, "eos"), !.st = "flush"]
  /\ UNCHANGED drvOnly

LastPicture ==
  /\ drv.st = "flush" /\ drv.capq # <<>>
  /\ drv' = [Picture(TRUE) EXCEPT !.st = "halt"]
  /\ UNCHANGED drvOnly

Driver == Decode \/ FirstResolution \/ NewResolution \/ EndOfStream \/ LastPicture

-----------------------------------------------------------------------------
(* Decoder thread: dec_thread_func.                                        *)

decOnly == <<dmx, cur, wrote, lock, disp, ring, rec, thread_quit, quit_thread>>

(* One round of poll: takes one event; output port, then capture port.     *)
Poll ==
  /\ dec.pc = "poll" /\ ~quit_thread
  /\ drv.ev # <<>> \/ drv.outd # <<>> \/ drv.capd # <<>>
  /\ dec' = [dec EXCEPT
       !.pc = IF drv.outd # <<>> THEN "out" ELSE IF drv.capd # <<>> THEN "in" ELSE "poll",
       !.in = drv.capd # <<>>,
       !.res = @ \/ (drv.ev # <<>> /\ Head(drv.ev) = "src"),
       !.eos = @ \/ (drv.ev # <<>> /\ Head(drv.ev) = "eos")]
  /\ drv' = [drv EXCEPT !.ev = IF @ = <<>> THEN @ ELSE Tail(@)]
  /\ UNCHANGED <<out, cap, eos_received, syn, started, last_frame, main, parked,
                 fault, decOnly>>

(* The packet buffer is free under output_p.lock ...                       *)
DqOutput ==
  /\ dec.pc = "out"
  /\ out' = [out EXCEPT ![Head(drv.outd)].queued = FALSE]
  /\ drv' = [drv EXCEPT !.outd = Tail(@)]
  /\ dec' = [dec EXCEPT !.pc = "used", !.late = Head(drv.outd)]
  /\ UNCHANGED <<cap, eos_received, syn, started, last_frame, main, parked, fault,
                 decOnly>>

(* Faulty variant: "used" is not reset.                                    *)
ResetUsedForgotten ==
  /\ dec.pc = "used"
  /\ dec' = [dec EXCEPT !.pc = IF dec.in THEN "in" ELSE "poll", !.late = 0]
  /\ UNCHANGED <<out, drv, cap, eos_received, syn, started, last_frame, main,
                 parked, fault, decOnly>>

(* ... and is emptied after the unlock; output_p.wait is signalled.        *)
ResetUsed ==
  /\ dec.pc = "used"
  /\ out' = [out EXCEPT ![dec.late].used = 0]
  /\ dec' = [dec EXCEPT !.pc = IF dec.in THEN "in" ELSE "poll", !.late = 0]
  /\ UNCHANGED <<drv, cap, eos_received, syn, started, last_frame, main, parked,
                 fault, decOnly>>

(* A picture is dequeued; what happens to a LAST one depends on the        *)
(* pending events, or on the next event of the queue if none is pending.   *)
DqCapture ==
  LET b    == Head(drv.capd)
      res  == dec.res /\ dec.push
      look == b.last /\ ~res /\ ~dec.eos /\ drv.ev # <<>>
      src  == res \/ (look /\ Head(drv.ev) = "src")
      eos  == dec.eos \/ (look /\ Head(drv.ev) = "eos")
  IN /\ dec.pc = "in"
     /\ May("late_queued") \/ b.f # lock
     /\ drv' = [drv EXCEPT !.capd = Tail(@),
                           !.ev = IF look THEN Tail(@) ELSE @]
     /\ cap' = [cap EXCEPT !.queued = IF b.last /\ src THEN @ ELSE @ \ {b.f}]
     /\ dec' = [dec EXCEPT
          !.push = TRUE,
          !.res  = IF b.last THEN FALSE ELSE res,
          !.eos  = eos /\ ~(b.last /\ ~src),
          !.hand = IF ~b.last THEN b.f ELSE IF ~src /\ eos THEN Eos ELSE None,
          !.pc   = IF ~b.last \/ (~src /\ eos) THEN "show"
                   ELSE IF src THEN "res" ELSE "poll"]
     /\ parked' = IF b.last /\ ~src THEN parked \cup {b.f} ELSE parked
     /\ UNCHANGED <<out, eos_received, syn, started, last_frame, main, fault,
                    decOnly>>

(* display_engine_show: the first picture starts the display threads ...   *)
StartDisplay ==
  /\ dec.pc = "show" /\ ~started
  /\ started' = TRUE /\ last_frame' = FALSE
  /\ disp' = [disp EXCEPT !.pc = "pop"] /\ rec' = [rec EXCEPT !.pc = "run"]
  /\ ring' = [ring EXCEPT !.ri = 0, !.wi = 0, !.n = 0]
  /\ UNCHANGED <<dmx, cur, wrote, out, drv, dec, cap, eos_received, lock, syn,
                 main, thread_quit, quit_thread, parked, fault>>

(* ... and pictures are pushed as soon as av_sync takes them.              *)
display_engine_show ==
  /\ dec.pc = "show" /\ started /\ Len(syn.q) < SyncLen
  /\ syn' = [syn EXCEPT !.q = Append(@, dec.hand)]
  /\ dec' = [dec EXCEPT !.pc = IF dec.hand = Eos THEN "eos" ELSE "poll",
                        !.hand = None]
  /\ UNCHANGED <<out, drv, cap, eos_received, started, last_frame, main, parked,
                 fault, decOnly>>

EosReceived ==
  /\ dec.pc = "eos"
  /\ eos_received' = TRUE /\ dec' = [dec EXCEPT !.pc = "wait"]
  /\ UNCHANGED <<out, drv, cap, syn, started, last_frame, main, parked, fault,
                 decOnly>>

(* display_wait_for_display, then decode_finish posts the semaphore.       *)
display_wait_for_display ==
  /\ dec.pc = "wait" /\ last_frame
  /\ main' = [main EXCEPT !.sem = @ + 1] /\ dec' = [dec EXCEPT !.pc = "off"]
  /\ UNCHANGED <<out, drv, cap, eos_received, syn, started, last_frame, parked,
                 fault, decOnly>>

(* handle_res_change: STREAMOFF takes every buffer from the driver; ...    *)
ResStreamOff ==
  /\ dec.pc = "res"
  /\ drv' = [drv EXCEPT !.capq = <<>>, !.capd = <<>>]
  /\ dec' = [dec EXCEPT !.pc = "free"]
  /\ UNCHANGED <<out, cap, eos_received, syn, started, last_frame, main, parked,
                 fault, decOnly>>

(* Faulty variant: every buffer is destroyed, displayed or not.            *)
FreedAll == Set(cap.gen)

(* The buffers that are destroyed at once: those marked queued.            *)
Freed == Set(cap.gen) \cap cap.queued

(* ... under res_lock the buffers marked queued are destroyed and the      *)
(* others are left to their recycle; ...                                   *)
ResFree ==
  /\ dec.pc = "free" /\ lock = None
  /\ cap' = [cap EXCEPT
       !.alive   = @ \ Freed,
       !.recycle = @ \cup (Set(cap.gen) \ Freed),
       !.queued  = @ \ Set(cap.gen)]
  /\ drv' = [drv EXCEPT !.capq = <<>>]
  /\ dec' = [dec EXCEPT !.pc = "setup"]
  /\ UNCHANGED <<out, eos_received, syn, started, last_frame, main, parked, fault,
                 decOnly>>

(* ... and the port is set up for the new resolution.                      *)
ResSetup ==
  /\ dec.pc = "setup"
  /\ SetupCapture(cap.gen + 1)
  /\ dec' = [dec EXCEPT !.pc = "poll"]
  /\ UNCHANGED <<out, eos_received, syn, started, last_frame, main, parked, fault,
                 decOnly>>

(* Every failing step of it ends in while (1) sleep(1).                    *)
ResFatal ==
  /\ dec.pc \in {"res", "free", "setup"} /\ May("res_fail")
  /\ dec' = [dec EXCEPT !.pc = "stuck"] /\ fault' = fault \cup {"res"}
  /\ UNCHANGED <<out, drv, cap, eos_received, syn, started, last_frame, main,
                 parked, decOnly>>

(* Faulty variant: the loop does not look at quit_thread.                  *)
DecQuitMissed ==
  /\ dec.pc = "poll" /\ quit_thread /\ dec.eos
  /\ dec' = [dec EXCEPT !.pc = "off"]
  /\ UNCHANGED <<out, drv, cap, eos_received, syn, started, last_frame, main,
                 parked, fault, decOnly>>

DecQuit ==
  /\ dec.pc = "poll" /\ quit_thread
  /\ dec' = [dec EXCEPT !.pc = "off"]
  /\ UNCHANGED <<out, drv, cap, eos_received, syn, started, last_frame, main,
                 parked, fault, decOnly>>

(* STREAMOFF of both ports.                                                *)
DecOff ==
  /\ dec.pc = "off"
  /\ drv' = [drv EXCEPT !.outq = <<>>, !.outd = <<>>, !.capq = <<>>,
                        !.capd = <<>>, !.st = "off"]
  /\ dec' = [dec EXCEPT !.pc = "done"]
  /\ UNCHANGED <<out, cap, eos_received, syn, started, last_frame, main, parked,
                 fault, decOnly>>

Decoder ==
  \/ Poll \/ DqOutput \/ ResetUsed \/ DqCapture \/ StartDisplay
  \/ display_engine_show \/ EosReceived \/ display_wait_for_display
  \/ ResStreamOff \/ ResFree \/ ResSetup \/ ResFatal \/ DecQuit \/ DecOff

-----------------------------------------------------------------------------
(* capture_buffer_recycle, called by the display and recycle threads.      *)

shown == <<dmx, cur, wrote, out, dec, eos_received, syn, started, last_frame,
           main, thread_quit, quit_thread>>

(* Whether recycling f queues it again; a frame of a replaced set is       *)
(* destroyed instead.                                                      *)
Requeues(f) == f \notin cap.recycle /\ ~eos_received

(* QBUF under res_lock.  After v4l2_dec_destroy the device is closed.      *)
RecycleQueue(f) ==
  /\ lock = None /\ Requeues(f) /\ main.pc \notin {"joindisp", "done"}
  /\ drv' = [drv EXCEPT !.capq = Append(@, f)]
  /\ lock' = f /\ UNCHANGED <<cap, parked, fault>>

RecycleFail(f) ==
  /\ lock = None /\ Requeues(f)
  /\ May("cap_fail") \/ main.pc \in {"joindisp", "done"}
  /\ parked' = parked \cup {f} /\ fault' = fault \cup {"cap"}
  /\ UNCHANGED <<drv, cap, lock>>

(* Faulty variant: free_on_recycle keeps the frame from the driver only.   *)
RecycleDropKept(f) ==
  /\ lock = None /\ ~Requeues(f)
  /\ parked' = IF f \in cap.recycle THEN parked ELSE parked \cup {f}
  /\ UNCHANGED <<cap, drv, lock, fault>>

RecycleDrop(f) ==
  /\ lock = None /\ ~Requeues(f)
  /\ IF f \in cap.recycle
     THEN cap' = [cap EXCEPT !.alive = @ \ {f}] /\ UNCHANGED parked
     ELSE parked' = parked \cup {f} /\ UNCHANGED cap
  /\ UNCHANGED <<drv, lock, fault>>

(* queued = true, then unlock.                                             *)
RecycleFlag ==
  /\ cap' = [cap EXCEPT !.queued = @ \cup {lock}]
  /\ lock' = None /\ UNCHANGED <<drv, parked>>

Recycle(f) == RecycleQueue(f) \/ RecycleFail(f) \/ RecycleDrop(f)

-----------------------------------------------------------------------------
(* Display thread: display_thread_func.  disp.cb holds the frames it has   *)
(* to pass to capture_buffer_recycle before it goes on.                    *)

dispIdle == disp.cb = <<>> /\ ~disp.flag

DispRecycle ==
  /\ disp.cb # <<>> /\ ~disp.flag
  /\ Recycle(Head(disp.cb))
  /\ disp' = [disp EXCEPT !.cb = Tail(@), !.flag = lock' # None]
  /\ UNCHANGED <<shown, ring, rec>>

DispFlag ==
  /\ disp.flag /\ RecycleFlag
  /\ disp' = [disp EXCEPT !.flag = FALSE]
  /\ UNCHANGED <<shown, ring, rec, fault>>

(* av_sync_pop_frame (external) shows the next picture, or skips one that  *)
(* is late and frees it through sync_frame_free.  A picture that was never *)
(* flipped is forgotten here.                                              *)
av_sync_pop_frame ==
  /\ disp.pc = "pop" /\ dispIdle /\ started
  /\ \E k \in 1 .. MinOf(2, Len(syn.q)) :
       LET f == syn.q[k] IN
       /\ syn' = [q |-> SubSeq(syn.q, k + 1, Len(syn.q)), shown |-> f]
       /\ disp' = [disp EXCEPT !.pc = IF f = Eos THEN "end" ELSE "flip",
                               !.cb = SubSeq(syn.q, 1, k - 1)]
       /\ last_frame' = (last_frame \/ f = Eos)
  /\ IF syn.shown \in {disp.f, None, Eos} THEN UNCHANGED <<parked, fault>>
     ELSE parked' = parked \cup {syn.shown} /\ fault' = fault \cup {"flip"}
  /\ UNCHANGED <<dmx, cur, wrote, out, drv, dec, cap, eos_received, lock, ring,
                 rec, started, main, thread_quit, quit_thread>>

(* av_sync_pop_frame returns a picture whose flip failed once more.        *)
PopAgain ==
  /\ disp.pc = "pop" /\ dispIdle /\ started
  /\ syn.shown \notin {disp.f, None, Eos}
  /\ disp' = [disp EXCEPT !.pc = "flip"]
  /\ UNCHANGED <<shown, drv, cap, lock, ring, rec, parked, fault>>

FlipFail ==
  /\ disp.pc = "flip" /\ dispIdle /\ May("flip_fail")
  /\ disp' = [disp EXCEPT !.pc = "pop"]
  /\ UNCHANGED <<shown, drv, cap, lock, ring, rec, parked, fault>>

RingFull == ring.n = RingLen

(* Faulty variant: the new picture is queued in place of the old one.      *)
ReplacedNew == syn.shown

(* f_p1, the picture that a flip replaces.                                 *)
Replaced == disp.f

(* The picture is on the screen; the one before it is queued for recycling *)
(* (first half of queue_frame) or, with a full ring, recycled at once.     *)
Flip ==
  /\ disp.pc = "flip" /\ dispIdle
  /\ \/ /\ disp.f = None
        /\ disp' = [disp EXCEPT !.pc = "pop", !.f = syn.shown]
        /\ UNCHANGED ring
     \/ /\ disp.f # None /\ RingFull
        /\ disp' = [disp EXCEPT !.pc = "pop", !.f = syn.shown, !.cb = <<Replaced>>]
        /\ UNCHANGED ring
     \/ /\ disp.f # None /\ ~RingFull
        /\ May("ring_race") \/ rec.pc # "dec"
        /\ ring' = [ring EXCEPT !.slot[ring.wi] = Replaced,
                                !.wi = (@ + 1) % RingLen]
        /\ disp' = [disp EXCEPT !.pc = "inc", !.f = syn.shown, !.n = ring.n]
  /\ UNCHANGED <<shown, drv, cap, lock, rec, parked, fault>>

(* total_num++ of queue_frame, as a read (above) and a write.              *)
RingInc ==
  /\ disp.pc = "inc"
  /\ ring' = [ring EXCEPT !.n = disp.n + 1]
  /\ disp' = [disp EXCEPT !.pc = "pop", !.n = 0]
  /\ UNCHANGED <<shown, drv, cap, lock, rec, parked, fault>>

(* drmWaitVBlank fails: the thread returns and keeps f_p1.                 *)
VblankFail ==
  /\ disp.pc = "pop" /\ dispIdle /\ disp.f # None /\ May("vblank_fail")
  /\ disp' = [disp EXCEPT !.pc = "done", !.f = None]
  /\ parked' = parked \cup ({disp.f, syn.shown} \ {None, Eos})
  /\ fault' = fault \cup {"vblank"}
  /\ UNCHANGED <<shown, drv, cap, lock, ring, rec>>

DispQuit ==
  /\ disp.pc = "pop" /\ dispIdle /\ ~started
  /\ disp' = [disp EXCEPT !.pc = "end"]
  /\ UNCHANGED <<shown, drv, cap, lock, ring, rec, parked, fault>>

DispEnd ==
  /\ disp.pc = "end" /\ dispIdle
  /\ disp' = [disp EXCEPT !.pc = "done", !.f = None,
                          !.cb = IF disp.f = None THEN <<>> ELSE <<disp.f>>]
  /\ UNCHANGED <<shown, drv, cap, lock, ring, rec, parked, fault>>

Display ==
  \/ DispRecycle \/ DispFlag \/ av_sync_pop_frame \/ PopAgain \/ FlipFail \/ Flip
  \/ RingInc \/ VblankFail \/ DispQuit \/ DispEnd

-----------------------------------------------------------------------------
(* Recycle thread: recycle_thread_func; after recycle_started is cleared   *)
(* it goes on until the ring is empty.                                     *)

dequeue_frame ==
  /\ rec.pc = "run" /\ ring.n # 0
  /\ May("ring_race") \/ disp.pc # "inc"
  /\ rec' = [pc |-> "dec", f |-> ring.slot[ring.ri], n |-> ring.n]
  /\ ring' = [ring EXCEPT !.ri = (@ + 1) % RingLen]
  /\ UNCHANGED <<shown, drv, cap, lock, disp, parked, fault>>

RingDec ==
  /\ rec.pc = "dec"
  /\ ring' = [ring EXCEPT !.n = rec.n - 1]
  /\ rec' = [rec EXCEPT !.pc = IF rec.f = None THEN "run" ELSE "fence", !.n = 0]
  /\ UNCHANGED <<shown, drv, cap, lock, disp, parked, fault>>

RecRecycle ==
  /\ rec.pc = "fence"
  /\ Recycle(rec.f)
  /\ rec' = [rec EXCEPT !.pc = IF lock' # None THEN "flag" ELSE "run", !.f = None]
  /\ UNCHANGED <<shown, ring, disp>>

RecFlag ==
  /\ rec.pc = "flag" /\ RecycleFlag
  /\ rec' = [rec EXCEPT !.pc = "run"]
  /\ UNCHANGED <<shown, ring, disp, fault>>

RecQuit ==
  /\ rec.pc = "run" /\ main.pc \in {"joindisp", "done"} /\ ring.n = 0
  /\ rec' = [rec EXCEPT !.pc = "done"]
  /\ UNCHANGED <<shown, drv, cap, lock, disp, ring, parked, fault>>

Recycler == dequeue_frame \/ RingDec \/ RecRecycle \/ RecFlag \/ RecQuit

-----------------------------------------------------------------------------
(* Main thread and SIGINT (test.c).                                        *)

mainOnly == <<dmx, cur, wrote, out, drv, dec, cap, eos_received, lock, syn, disp,
              ring, rec, last_frame, parked, fault>>

sig_handler ==
  /\ May("sigint") /\ main.sem = 0 /\ main.pc = "wait" /\ disp.pc # "none"
  /\ main' = [main EXCEPT !.sem = 1]
  /\ UNCHANGED <<mainOnly, started, thread_quit, quit_thread>>

(* sem_wait, then dmx_destroy ...                                          *)
MainWakes ==
  /\ main.pc = "wait" /\ main.sem > 0
  /\ main' = [pc |-> "joindmx", sem |-> main.sem - 1] /\ thread_quit' = TRUE
  /\ UNCHANGED <<mainOnly, started, quit_thread>>

(* ... joins the demuxer; v4l2_dec_destroy ...                             *)
dmx_destroy ==
  /\ main.pc = "joindmx" /\ dmx.pc = "done"
  /\ main' = [main EXCEPT !.pc = "joindec"] /\ quit_thread' = TRUE
  /\ UNCHANGED <<mainOnly, started, thread_quit>>

(* ... joins the decoder thread and closes the device (REQBUFS sets the    *)
(* count of both loops to 0); display_engine_stop ...                      *)
v4l2_dec_destroy ==
  /\ main.pc = "joindec" /\ dec.pc = "done"
  /\ main' = [main EXCEPT !.pc = "joindisp"] /\ started' = FALSE
  /\ UNCHANGED <<mainOnly, thread_quit, quit_thread>>

(* ... joins the display and the recycle thread.                           *)
display_engine_stop ==
  /\ main.pc = "joindisp" /\ disp.pc = "done" /\ dispIdle /\ rec.pc = "done"
  /\ main' = [main EXCEPT !.pc = "done"]
  /\ UNCHANGED <<mainOnly, started, thread_quit, quit_thread>>

Main == MainWakes \/ dmx_destroy \/ v4l2_dec_destroy \/ display_engine_stop

Next == Demux \/ Driver \/ Decoder \/ Display \/ Recycler \/ sig_handler \/ Main

Spec == Init /\ [][Next]_vars

(***************************************************************************)
(* Fairness: threads run, the driver decodes what it is given and finishes *)
(* streams, and av_sync shows what it was given.  Failures and SIGINT are  *)
(* owed to nobody.                                                         *)
(***************************************************************************)
FairSpec ==
  /\ Spec
  /\ WF_vars(Demux) /\ WF_vars(Decode \/ EndOfStream \/ LastPicture)
  /\ WF_vars(Decoder) /\ WF_vars(Recycler) /\ WF_vars(Main)
  /\ WF_vars(DispRecycle \/ DispFlag) /\ WF_vars(RingInc \/ DispQuit \/ DispEnd)
  /\ WF_vars(av_sync_pop_frame \/ PopAgain) /\ SF_vars(Flip)

-----------------------------------------------------------------------------
(* Properties.                                                             *)

TypeOut ==
  /\ dmx \in [pc : {"read", "write", "qbuf", "first", "done", "stuck"},
              n : 0..MaxPackets, left : 0..2, key : BOOLEAN]
  /\ cur \in 0..NOut /\ wrote \in 0..Room
  /\ out \in [OutIdx -> [queued : BOOLEAN, used : 0..Room]]

TypeCap ==
  /\ dec.pc \in {"none", "poll", "out", "used", "in", "show", "eos", "wait", "res",
                 "free", "setup", "off", "done", "stuck"}
  /\ dec.hand \in Frame \cup {None, Eos} /\ dec.late \in 0..NOut
  /\ cap.gen \in 0..MaxGen
  /\ cap.queued \subseteq Frame /\ cap.recycle \subseteq Frame
  /\ cap.alive \subseteq Frame
  /\ drv.outq \in Seq(OutIdx) /\ drv.outd \in Seq(OutIdx)
  /\ drv.capq \in Seq(Frame) /\ drv.capd \in Seq([f : Frame, last : BOOLEAN])
  /\ lock \in Frame \cup {None}

TypeDisplay ==
  /\ syn.q \in Seq(Frame \cup {Eos}) /\ syn.shown \in Frame \cup {None, Eos}
  /\ disp.pc \in {"none", "pop", "flip", "inc", "end", "done"}
  /\ disp.f \in Frame \cup {None} /\ disp.cb \in Seq(Frame)
  /\ rec.pc \in {"none", "run", "dec", "fence", "flag", "done"}
  /\ rec.f \in Frame \cup {None}
  /\ ring.slot \in [0 .. RingLen - 1 -> Frame \cup {None}]
  /\ ring.ri \in 0 .. RingLen - 1 /\ ring.wi \in 0 .. RingLen - 1
  /\ ring.n \in 0..RingLen

(* Types; in particular "used" stays within the output buffer and          *)
(* total_num within the ring.                                              *)
TypeOK == TypeOut /\ TypeCap /\ TypeDisplay

One(f) == IF f \in Frame THEN <<f>> ELSE <<>>

(* Entries of the ring, those included whose count is still to be written. *)
RingCount == ring.n + (IF disp.pc = "inc" THEN 1 ELSE 0)
                    - (IF rec.pc = "dec" THEN 1 ELSE 0)

(* Every place that a frame can be in: between its dequeue and its recycle *)
(* with the decoder thread, in av_sync, on the screen, in the ring and     *)
(* with the threads that recycle it; and in the two queues of the driver.  *)
Places ==
  [hand    |-> One(dec.hand),
   sync    |-> syn.q,
   shown   |-> IF syn.shown # disp.f /\ disp.pc # "done" THEN One(syn.shown) ELSE <<>>,
   screen  |-> One(disp.f),
   cb      |-> disp.cb,
   ring    |-> [k \in 1..RingCount |-> ring.slot[(ring.ri + k - 1) % RingLen]],
   rec     |-> One(rec.f),
   queued  |-> drv.capq,
   decoded |-> [k \in 1..Len(drv.capd) |-> drv.capd[k].f]]

Pipe     == {"hand", "sync", "shown", "screen", "cb", "ring", "rec"}
In(ps)   == LET at == Places IN UNION {ToSet(at[p]) : p \in ps}
Pipeline == In(Pipe) \ {Eos}
InDriver == In({"queued", "decoded"})

(* No frame on its way to or on the screen is destroyed: handle_res_change *)
(* spares what is out of the driver's hands, by the queued flags.          *)
HeldAlive == Pipeline \subseteq cap.alive

(* A frame is in one place: the driver never decodes into a frame that is  *)
(* displayed, and no frame is recycled twice.                              *)
OneOwner ==
  LET at == Places IN
  \A p, q \in DOMAIN at : \A k \in DOMAIN at[p], l \in DOMAIN at[q] :
    at[p][k] = at[q][l] => p = q /\ k = l

(* No frame is lost while the decoder runs: one of the current set is with *)
(* the driver or in the pipeline, and one of a replaced set survives only  *)
(* as long as the pipeline still has to recycle it (no GEM buffer leaks).  *)
NoFrameLost ==
  dec.pc \notin {"off", "done"} =>
    \A f \in cap.alive \ (parked \cup Pipeline) :
      f[1] = cap.gen /\ f \in InDriver \cup cap.queued \cup {lock}

(* A packet goes to the driver as it was written: its buffer was empty     *)
(* when the demuxer took it and lost nothing since.                        *)
PacketIntact == dmx.pc = "qbuf" => out[cur].used = wrote

(* Once decoding began, the player ends, at the end of the file or at      *)
(* SIGINT, unless the display or a resolution change failed for good or    *)
(* failures have eaten capture buffers.                                    *)
Finishes ==
  dec.pc # "none" ~> (main.pc = "done" \/ fault # {})
=============================================================================
