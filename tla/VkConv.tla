------------------------------- MODULE VkConv -------------------------------
(***************************************************************************)
(* The Vulkan converter of libvfmcap (libvfmcap/src/vfmcap_vulkan.c) as    *)
(* vfmcap_acquire_frame and vfmcap_release_frame drive it: the two-deep    *)
(* caches of imported DMA-bufs, keyed by descriptor number, the output     *)
(* pools with their unlocked in_use flags, the fence, and the              *)
(* reconfiguration that replaces them.                                     *)
(*                                                                         *)
(* The capture thread runs one conversion at a time, cut where it sleeps   *)
(* for a pool entry or waits for the GPU.  Other threads release frames;   *)
(* the GPU finishes jobs.  The caches are touched by the capture thread    *)
(* only.  What the shaders compute is left out.                            *)
(***************************************************************************)
EXTENDS Integers, Sequences, FiniteSets, FiniteSetsExt

CONSTANTS
  Buf,          \* V4L2 buffers of vdin0
  Fd,           \* descriptor numbers GET_DMABUF can return
  Inode,        \* inode numbers the kernel gives to exported DMA-bufs
  Entry,        \* entries of an output pool (VFMCAP_OUTPUT_POOL_CAPACITY)
  Size,         \* frame sizes
  Configs,      \* configurations: which render function, which output layout
  Allowed,      \* which of Behaviours happen
  None,         \* no descriptor, no pool entry
  CacheSize,    \* DMABUF_CACHE_SIZE
  MaxPolls,     \* polls for a pool entry (1000 of 500 us in the code)
  MaxFrames,    \* bound: conversions since initialisation or reconfiguration
  MaxEpoch      \* bound: how often the V4L2 buffers are allocated

Paths == {"render8", "afbc8", "render10", "afbc10", "a2b10"}
Layouts == {"single", "two"}

(***************************************************************************)
(* Behaviours that are switched on per run:                                *)
(*   import_fail  dup or the import of a DMA-buf fails                     *)
(*   record_fail  recording the command buffer fails                       *)
(*   submit_fail  vkQueueSubmit fails                                      *)
(*   wait_fail    the wait for the fence times out or fails                *)
(*   nomem        calloc of the frame's private data fails                 *)
(*   pool_fail    vfmcap_vk_reconfig_pools fails                           *)
(*   resize       the size changes between vfmcap_stop and vfmcap_start    *)
(*   hoard        frames are held over a reconfiguration, stop or close    *)
(***************************************************************************)
Behaviours == {"import_fail", "record_fail", "submit_fail", "wait_fail",
               "nomem", "pool_fail", "resize", "hoard"}

(* DMA-bufs: of captured buffers and, with two pools, of the outputs.  Each *)
(* allocation of the V4L2 buffers is memory of its own.                    *)
Mem == (Buf \X (1..MaxEpoch)) \cup ({"y", "uv"} \X Entry)
Objs == [ino : Inode \cup ({"y", "uv"} \X Entry), mem : Mem]
OrNone(S) == S \cup {None}

(* The inodes suffice: every descriptor and every import may keep one.     *)
ASSUME VkConvAssumption ==
  /\ CacheSize \in Nat \ {0} /\ MaxPolls \in Nat
  /\ MaxFrames \in Nat /\ MaxEpoch \in Nat \ {0}
  /\ Configs \subseteq [path : Paths, layout : Layouts]
  /\ Allowed \subseteq Behaviours
  /\ None \notin Fd \cup Entry /\ None \notin Objs
  /\ IsFiniteSet(Fd) /\ IsFiniteSet(Inode) /\ Inode \subseteq Nat
  /\ Cardinality(Inode) > Cardinality(Fd) + CacheSize

VARIABLES
  cfg,       \* configuration: render function and output layout
  src,       \* V4L2: streaming, frame size, how often buffers were allocated
  vk,        \* VulkanCtx: initialised, frame_count, fence, size and state of
             \*   the output pools, result of the last set-up
  y, uv,     \* in_use flags of the pool entries; uv for a second pool
  cache,     \* input_cache or image_cache, whichever the path uses
  fds,       \* the process's descriptors of captured DMA-bufs
  gpu,       \* jobs the GPU runs
  call,      \* the conversion in progress
  held,      \* frames the application holds
  releasing, \* frames in the middle of vfmcap_release_frame
  leaked     \* pool entries dropped by an early return of VK_CHECK

vars == <<cfg, src, vk, y, uv, cache, fds, gpu, call, held, releasing, leaked>>

(***************************************************************************)
(* A DMA-buf: the memory it stands for and the inode fstat shows for it.   *)
(***************************************************************************)
DmaBuf(i, m) == [ino |-> i, mem |-> m]

NoSlot == [valid |-> FALSE, fd |-> None, obj |-> None, size |-> None, used |-> 0]
EmptyCache == [count |-> 0, slot |-> [i \in 1..CacheSize |-> NoSlot]]

Idle == [pc |-> "idle", fd |-> None, obj |-> None, img |-> None,
         y |-> None, uv |-> None, polls |-> 0, ok |-> TRUE]

TwoPools == cfg.layout = "two" /\ cfg.path \in {"render8", "render10"}

-----------------------------------------------------------------------------
(***************************************************************************)
(* The cache of imports.  A hit needs the same descriptor number, size and *)
(* inode; the same number with another inode is destroyed and imported     *)
(* again in place; otherwise the next unused slot or the least recently    *)
(* used one, the first of equals, is taken.                                *)
(***************************************************************************)
Matches(c, g) == {i \in 1..c.count : /\ c.slot[i].valid
                                     /\ c.slot[i].fd = g.fd
                                     /\ c.slot[i].size = g.size}

Oldest(c) == Min({i \in 1..CacheSize :
                    \A j \in 1..CacheSize : c.slot[i].used <= c.slot[j].used})

SlotFor(c, g) == IF Matches(c, g) # {} THEN Min(Matches(c, g))
                 ELSE IF c.count < CacheSize THEN c.count + 1
                 ELSE Oldest(c)

SameInodeUnchecked(c, g) == Matches(c, g) # {}

SameInode(c, g) == \E i \in Matches(c, g) :
                     i = SlotFor(c, g) /\ c.slot[i].obj.ino = g.obj.ino

Place(c, g, e) == [count |-> Max({c.count, SlotFor(c, g)}),
                   slot  |-> [c.slot EXCEPT ![SlotFor(c, g)] = e]]

cache_get(c, g) ==
  Place(c, g, [valid |-> TRUE, fd |-> g.fd, size |-> g.size,
               used |-> vk.frame_count,
               obj |-> IF SameInode(c, g) THEN c.slot[SlotFor(c, g)].obj
                       ELSE g.obj])

(* The same call when dup or the import fails: the old entry is gone. *)
cache_get_failed(c, g) ==
  Place(c, g, [NoSlot EXCEPT !.used = c.slot[SlotFor(c, g)].used])

(***************************************************************************)
(* The imports a conversion asks for, in order: the input; with two pools, *)
(* vfmcap_vk_render_submit imports the two outputs into the same cache.    *)
(***************************************************************************)
Gets ==
  LET out(p, e) == [fd |-> <<p, e>>, size |-> <<p, vk.size>>,
                    obj |-> DmaBuf(<<p, e>>, <<p, e>>)]
      in == [fd |-> call.fd, size |-> src.size, obj |-> call.obj]
  IN IF cfg.path = "render8" /\ TwoPools
     THEN <<in, out("y", call.y), out("uv", call.uv)>>
     ELSE <<in>>

(* The cache after the first n of them, at most three. *)
CacheAfter(n) ==
  LET after(c, i) == IF i <= n THEN cache_get(c, Gets[i]) ELSE c
  IN after(after(after(cache, 1), 2), 3)

(* The image handed to the command buffer for the input. *)
InputImage == LET c == CacheAfter(1) IN c.slot[SlotFor(cache, Gets[1])].obj

-----------------------------------------------------------------------------
(***************************************************************************)
(* The output pools.  The flags are read and written without a lock, by    *)
(* one acquiring thread and several releasing ones.  A flag can only be    *)
(* cleared under an acquire, so its scan returns NULL only if no entry was *)
(* free when it began, and otherwise some free entry.                      *)
(***************************************************************************)
Free(pool) == {e \in Entry : vk.ready /\ ~pool[e]}

output_pool_release == /\ y' = [e \in Entry |-> y[e] /\ e # call.y]
                       /\ uv' = [e \in Entry |-> uv[e] /\ e # call.uv]

NotReleased == UNCHANGED <<y, uv>>

AfterPool == IF cfg.path = "render10" THEN "record" ELSE "import"
AfterImport == IF cfg.path = "render10" THEN "pool" ELSE "record"

output_pool_acquire ==
  /\ call.pc = "pool"
  /\ \E e \in Free(y) :
       /\ y' = [y EXCEPT ![e] = TRUE]
       /\ IF TwoPools
          THEN \E u \in Free(uv) :
                 /\ uv' = [uv EXCEPT ![u] = TRUE]
                 /\ call' = [call EXCEPT !.pc = AfterPool, !.polls = 0,
                                       !.y = e, !.uv = u]
          ELSE /\ call' = [call EXCEPT !.pc = AfterPool, !.polls = 0, !.y = e]
               /\ UNCHANGED uv
  /\ UNCHANGED <<cfg, src, vk, cache, fds, gpu, held, releasing, leaked>>

(***************************************************************************)
(* A conversion that fails: vfmcap_acquire_frame closes the descriptor and *)
(* queues the V4L2 buffer again.                                           *)
(***************************************************************************)
Fail == /\ fds' = [fds EXCEPT ![call.fd] = None]
        /\ call' = Idle
        /\ UNCHANGED <<cfg, src, held, releasing>>

Exhausted == Free(y) = {} \/ (TwoPools /\ Free(uv) = {})

(* Only vfmcap_vk_render_and_wait waits for an entry. *)
PoolPoll ==
  /\ call.pc = "pool" /\ Exhausted
  /\ cfg.path = "render8" /\ call.polls < MaxPolls
  /\ call' = [call EXCEPT !.polls = @ + 1]
  /\ UNCHANGED <<cfg, src, vk, y, uv, cache, fds, gpu, held, releasing, leaked>>

PoolExhausted ==
  /\ call.pc = "pool" /\ Exhausted
  /\ cfg.path = "render8" => call.polls = MaxPolls
  /\ Fail
  /\ UNCHANGED <<vk, y, uv, cache, gpu, leaked>>

-----------------------------------------------------------------------------
(***************************************************************************)
(* A captured frame is exported under an unused descriptor number, as a    *)
(* DMA-buf that is still alive for this memory, or as a new one with an    *)
(* inode that no live DMA-buf has; inodes are recycled as soon as can be.  *)
(* An import keeps its DMA-buf alive.                                      *)
(***************************************************************************)
LiveBufs == {fds[f] : f \in {f \in Fd : fds[f] # None}}
            \cup {cache.slot[i].obj : i \in {i \in 1..CacheSize : cache.slot[i].valid}}

GET_DMABUF(m) == {d \in LiveBufs : d.mem = m}
                 \cup {DmaBuf(Min(Inode \ {d.ino : d \in LiveBufs}), m)}

Out == held \cup releasing

GetDmabuf(b, f) ==
  /\ call.pc = "idle" /\ src.streaming /\ vk.up
  /\ vk.frame_count < MaxFrames
  /\ \A r \in Out : r.obj.mem # <<b, src.epoch>>
  /\ fds[f] = None
  /\ \E d \in GET_DMABUF(<<b, src.epoch>>) :
        /\ fds' = [fds EXCEPT ![f] = d]
        /\ call' = [Idle EXCEPT
             !.pc = IF cfg.path = "render10" THEN "import" ELSE "pool",
             !.fd = f, !.obj = d]
  /\ UNCHANGED <<cfg, src, vk, y, uv, cache, gpu, held, releasing, leaked>>

Import ==
  /\ call.pc = "import"
  /\ cache' = CacheAfter(Len(Gets))
  /\ call' = [call EXCEPT !.pc = AfterImport, !.img = InputImage]
  /\ UNCHANGED <<cfg, src, vk, y, uv, fds, gpu, held, releasing, leaked>>

ImportFailKept ==
  /\ call.pc = "import" /\ "import_fail" \in Allowed
  /\ \E n \in DOMAIN Gets :
       /\ ~SameInode(CacheAfter(n - 1), Gets[n])
       /\ cache' = cache_get_failed(CacheAfter(n - 1), Gets[n])
  /\ NotReleased
  /\ Fail
  /\ UNCHANGED <<vk, gpu, leaked>>

ImportFail ==
  /\ call.pc = "import" /\ "import_fail" \in Allowed
  /\ \E n \in DOMAIN Gets :
       /\ ~SameInode(CacheAfter(n - 1), Gets[n])
       /\ cache' = cache_get_failed(CacheAfter(n - 1), Gets[n])
  /\ output_pool_release
  /\ Fail
  /\ UNCHANGED <<vk, gpu, leaked>>

(***************************************************************************)
(* Recording and submitting.  The shared fence is reset before the first   *)
(* submission only; afterwards the wait resets it.  render10 resets the    *)
(* fence of its slot each time.                                            *)
(***************************************************************************)
FenceAtSubmit == IF cfg.path = "render10" \/ vk.frame_count = 0
                 THEN "unsignalled" ELSE vk.fence

Submit ==
  /\ call.pc = "record"
  /\ gpu' = gpu \cup {[y |-> call.y, uv |-> call.uv]}
  /\ vk' = [vk EXCEPT !.fence = FenceAtSubmit]
  /\ call' = [call EXCEPT !.pc = "wait"]
  /\ UNCHANGED <<cfg, src, y, uv, cache, fds, held, releasing, leaked>>

SubmitFail ==
  /\ call.pc = "record" /\ "submit_fail" \in Allowed
  /\ output_pool_release
  /\ Fail
  /\ UNCHANGED <<vk, cache, gpu, leaked>>

(* Failures of the recording that give the pool entries back. *)
RecordFail ==
  /\ call.pc = "record" /\ "record_fail" \in Allowed
  /\ cfg.path # "render8" \/ TwoPools
  /\ output_pool_release
  /\ Fail
  /\ UNCHANGED <<vk, cache, gpu, leaked>>

(* Failures that return through VK_CHECK and keep the entries marked. *)
RecordFailVkCheck ==
  /\ call.pc = "record" /\ "record_fail" \in Allowed
  /\ cfg.path # "afbc8" /\ ~(cfg.path = "render8" /\ TwoPools)
  /\ leaked' = leaked \cup ({<<"y", call.y>>, <<"uv", call.uv>>} \ {<<"uv", None>>})
  /\ Fail
  /\ UNCHANGED <<vk, y, uv, cache, gpu>>

-----------------------------------------------------------------------------
(* The GPU runs its jobs and signals the fence with the last one. *)
GpuDone ==
  /\ \E j \in gpu : gpu' = gpu \ {j}
  /\ vk' = [vk EXCEPT !.fence = IF gpu' = {} THEN "signalled" ELSE @]
  /\ UNCHANGED <<cfg, src, y, uv, cache, fds, call, held, releasing, leaked>>

(* The AFBC functions reset the fence right after the wait. *)
FenceAfterWait == IF cfg.path \in {"afbc8", "afbc10", "a2b10"}
                  THEN "unsignalled" ELSE vk.fence

WaitFence ==
  /\ call.pc = "wait" /\ vk.fence = "signalled"
  /\ vk' = [vk EXCEPT !.fence = FenceAfterWait]
  /\ call' = [call EXCEPT !.pc = "drain", !.img = None]
  /\ UNCHANGED <<cfg, src, y, uv, cache, fds, gpu, held, releasing, leaked>>

(***************************************************************************)
(* The wait gives up or fails.  vfmcap_vk_convert_wait remembers it and    *)
(* still waits for an idle device, the AFBC functions ignore the result,   *)
(* render10 returns at once with its entries released.                     *)
(***************************************************************************)
WaitFail ==
  /\ call.pc = "wait" /\ "wait_fail" \in Allowed
  /\ cfg.path # "render10"
  /\ call' = [call EXCEPT !.pc = "drain", !.img = None, !.ok = cfg.path # "render8"]
  /\ vk' = [vk EXCEPT !.fence = FenceAfterWait]
  /\ UNCHANGED <<cfg, src, y, uv, cache, fds, gpu, held, releasing, leaked>>

WaitFail10 ==
  /\ call.pc = "wait" /\ "wait_fail" \in Allowed
  /\ cfg.path = "render10"
  /\ output_pool_release
  /\ Fail
  /\ UNCHANGED <<vk, cache, gpu, leaked>>

(* vkDeviceWaitIdle *)
DeviceIdle == gpu = {}

(***************************************************************************)
(* The device is idle.  After a good wait vfmcap_vk_convert_wait resets    *)
(* the fence, and the frame is counted; after a bad one neither happens,   *)
(* and the conversion fails.                                               *)
(***************************************************************************)
Drained ==
  /\ call.pc = "drain" /\ call.ok /\ DeviceIdle
  /\ vk' = [vk EXCEPT !.frame_count = @ + 1,
              !.fence = IF cfg.path = "render8" THEN "unsignalled" ELSE @]
  /\ call' = [call EXCEPT !.pc = "got"]
  /\ UNCHANGED <<cfg, src, y, uv, cache, fds, gpu, held, releasing, leaked>>

DrainedFail ==
  /\ call.pc = "drain" /\ ~call.ok /\ DeviceIdle
  /\ output_pool_release
  /\ Fail
  /\ UNCHANGED <<vk, cache, gpu, leaked>>

-----------------------------------------------------------------------------
(***************************************************************************)
(* The frame is described to the application: the pool's descriptors and   *)
(* the size of the configuration, while its memory has the pool's size.    *)
(***************************************************************************)
Frame == [fd |-> call.fd, obj |-> call.obj, y |-> call.y, uv |-> call.uv,
          pool |-> vk.gen, size |-> src.size, room |-> vk.size]

DeliverReleased ==
  /\ call.pc = "got"
  /\ held' = held \cup {Frame}
  /\ call' = Idle
  /\ output_pool_release
  /\ UNCHANGED <<cfg, src, vk, cache, fds, gpu, releasing, leaked>>

Deliver ==
  /\ call.pc = "got"
  /\ held' = held \cup {Frame}
  /\ call' = Idle
  /\ UNCHANGED <<cfg, src, vk, y, uv, cache, fds, gpu, releasing, leaked>>

DeliverFail ==
  /\ call.pc = "got" /\ "nomem" \in Allowed
  /\ output_pool_release
  /\ Fail
  /\ UNCHANGED <<vk, cache, gpu, leaked>>

(***************************************************************************)
(* vfmcap_release_frame on another thread: first the Y entry (or the only  *)
(* one) is freed, found by its descriptor number in the pool of the        *)
(* moment; then the UV entry; then the descriptor is closed and the V4L2   *)
(* buffer queued.                                                          *)
(***************************************************************************)
ReleaseOutput(f) ==
  /\ f \in held
  /\ y' = [y EXCEPT ![f.y] = FALSE]
  /\ held' = held \ {f}
  /\ releasing' = releasing \cup {f}
  /\ UNCHANGED <<cfg, src, vk, uv, cache, fds, gpu, call, leaked>>

ReleaseRest(f) ==
  /\ f \in releasing
  /\ uv' = [e \in Entry |-> uv[e] /\ e # f.uv]
  /\ fds' = [fds EXCEPT ![f.fd] = None]
  /\ releasing' = releasing \ {f}
  /\ UNCHANGED <<cfg, src, vk, y, cache, gpu, call, held, leaked>>

-----------------------------------------------------------------------------
(***************************************************************************)
(* Set-up and reconfiguration.                                             *)
(***************************************************************************)
Returned == "hoard" \in Allowed \/ Out = {}

NewPools(ready, s) == [vk EXCEPT !.ready = ready, !.size = s, !.gen = @ + 1]

EmptyPools == /\ y' = [e \in Entry |-> FALSE]
              /\ uv' = [e \in Entry |-> FALSE]
              /\ leaked' = {}

NewBuffers(s) == src' = [streaming |-> TRUE, size |-> s, epoch |-> src.epoch + 1]

(* reconfig_pools has no branch for A2B10G10R10_AFBC. *)
Recreates == cfg.path # "a2b10"

ReconfigOldSize(s) ==
  /\ call.pc = "idle" /\ src.streaming /\ vk.up /\ Returned
  /\ src.epoch < MaxEpoch
  /\ DeviceIdle
  /\ NewBuffers(s)
  /\ vk' = [NewPools(Recreates, vk.size) EXCEPT !.frame_count = 0, !.result = 0]
  /\ cache' = EmptyCache
  /\ EmptyPools
  /\ UNCHANGED <<cfg, fds, gpu, call, held, releasing>>

(***************************************************************************)
(* vfmcap_do_reconfig within an acquire: REQBUFS first, then               *)
(* vfmcap_vk_reconfig_pools, which drains the GPU, empties the caches and  *)
(* replaces the pools.                                                     *)
(***************************************************************************)
reconfig_pools(s) ==
  /\ call.pc = "idle" /\ src.streaming /\ vk.up /\ Returned
  /\ src.epoch < MaxEpoch
  /\ DeviceIdle
  /\ NewBuffers(s)
  /\ vk' = [NewPools(Recreates, s) EXCEPT !.frame_count = 0, !.result = 0]
  /\ cache' = EmptyCache
  /\ EmptyPools
  /\ UNCHANGED <<cfg, fds, gpu, call, held, releasing>>

(* It fails on a pool, or later, on an intermediate image; only a warning. *)
reconfig_pools_failed(s) ==
  /\ "pool_fail" \in Allowed
  /\ call.pc = "idle" /\ src.streaming /\ vk.up /\ Returned
  /\ src.epoch < MaxEpoch
  /\ DeviceIdle
  /\ NewBuffers(s)
  /\ \E ready \in {FALSE, Recreates} :
       vk' = [NewPools(ready, s) EXCEPT !.result = -1]
  /\ cache' = EmptyCache
  /\ EmptyPools
  /\ UNCHANGED <<cfg, fds, gpu, call, held, releasing>>

(* vfmcap_stop frees the V4L2 buffers and leaves the Vulkan context alone. *)
vfmcap_stop ==
  /\ call.pc = "idle" /\ src.streaming /\ Returned
  /\ src' = [src EXCEPT !.streaming = FALSE]
  /\ UNCHANGED <<cfg, vk, y, uv, cache, fds, gpu, call, held, releasing, leaked>>

(* vfmcap_close: vfmcap_vk_cleanup, then vfmcap_stop. *)
vfmcap_close ==
  /\ call.pc = "idle" /\ vk.up /\ Returned
  /\ DeviceIdle
  /\ src' = [src EXCEPT !.streaming = FALSE]
  /\ vk' = [vk EXCEPT !.up = FALSE, !.ready = FALSE]
  /\ cache' = EmptyCache
  /\ EmptyPools
  /\ UNCHANGED <<cfg, fds, gpu, call, held, releasing>>

(* vfmcap_start on a context that still has its Vulkan context. *)
Restart(s) ==
  /\ call.pc = "idle" /\ ~src.streaming /\ vk.up
  /\ src.epoch < MaxEpoch
  /\ s = src.size \/ "resize" \in Allowed
  /\ NewBuffers(s)
  /\ UNCHANGED <<cfg, vk, y, uv, cache, fds, gpu, call, held, releasing, leaked>>

(* vfmcap_start with vfmcap_vk_init; the fence is created signalled. *)
vfmcap_vk_init(s) ==
  /\ call.pc = "idle" /\ ~src.streaming /\ ~vk.up
  /\ src.epoch < MaxEpoch
  /\ NewBuffers(s)
  /\ vk' = [NewPools(TRUE, s) EXCEPT !.up = TRUE, !.frame_count = 0,
              !.fence = "signalled", !.result = 0]
  /\ UNCHANGED <<cfg, y, uv, cache, fds, gpu, call, held, releasing, leaked>>

-----------------------------------------------------------------------------
Init ==
  /\ cfg \in Configs
  /\ src = [streaming |-> FALSE, size |-> None, epoch |-> 0]
  /\ vk = [up |-> FALSE, ready |-> FALSE, frame_count |-> 0, gen |-> 0,
           fence |-> "signalled", size |-> None, result |-> 0]
  /\ y = [e \in Entry |-> FALSE] /\ uv = [e \in Entry |-> FALSE]
  /\ cache = EmptyCache
  /\ fds = [f \in Fd |-> None]
  /\ gpu = {} /\ call = Idle
  /\ held = {} /\ releasing = {} /\ leaked = {}

Convert ==
  \/ \E b \in Buf, f \in Fd : GetDmabuf(b, f)
  \/ output_pool_acquire \/ PoolPoll \/ PoolExhausted
  \/ Import \/ ImportFail
  \/ Submit \/ SubmitFail \/ RecordFail \/ RecordFailVkCheck
  \/ WaitFence \/ WaitFail \/ WaitFail10 \/ Drained \/ DrainedFail
  \/ Deliver \/ DeliverFail

Next ==
  \/ Convert
  \/ GpuDone
  \/ \E f \in held : ReleaseOutput(f)
  \/ \E f \in releasing : ReleaseRest(f)
  \/ \E s \in Size : \/ reconfig_pools(s) \/ reconfig_pools_failed(s)
                     \/ Restart(s) \/ vfmcap_vk_init(s)
  \/ vfmcap_stop \/ vfmcap_close

Spec == Init /\ [][Next]_vars

-----------------------------------------------------------------------------
(* Every variable has its type, and a call polls at most MaxPolls times. *)
TypeOK ==
  /\ cfg \in Configs
  /\ src \in [streaming : BOOLEAN, size : OrNone(Size), epoch : 0..MaxEpoch]
  /\ vk \in [up : BOOLEAN, ready : BOOLEAN, frame_count : 0..MaxFrames,
             gen : 0..MaxEpoch, fence : {"signalled", "unsignalled"},
             size : OrNone(Size), result : {0, -1}]
  /\ y \in [Entry -> BOOLEAN] /\ uv \in [Entry -> BOOLEAN]
  /\ cache.count \in 0..CacheSize
  /\ \A i \in 1..CacheSize : cache.slot[i].obj \in OrNone(Objs)
  /\ \A f \in Fd : fds[f] \in OrNone(Objs)
  /\ call.pc \in {"idle", "pool", "import", "record", "wait", "drain", "got"}
  /\ call.polls \in 0..MaxPolls
  /\ \A j \in gpu : j.y \in Entry /\ j.uv \in OrNone(Entry)
  /\ \A f \in Out : f.fd \in Fd /\ f.y \in Entry /\ f.uv \in OrNone(Entry)
  /\ leaked \subseteq {"y", "uv"} \X Entry

(***************************************************************************)
(* The image a conversion reads (image_cache_get, input_cache_get) is an   *)
(* import of the very memory behind in_fd, although descriptor numbers and *)
(* inodes are recycled; and it has not been evicted when it is used.       *)
(***************************************************************************)
CacheTruth ==
  call.pc \in {"record", "wait"} /\ call.img # None =>
    /\ call.img.mem = call.obj.mem
    /\ \E i \in 1..CacheSize : /\ cache.slot[i].valid
                               /\ cache.slot[i].fd = call.fd
                               /\ cache.slot[i].obj = call.img

Owners == {f \in held : f.pool = vk.gen}

(***************************************************************************)
(* A pool entry that the application holds stays marked, and no other      *)
(* frame and no conversion in progress has it: output_pool_acquire never   *)
(* hands it out before vfmcap_vk_release_output.  Nor does the GPU write   *)
(* into it, even after waits that failed and left the fence signalled.     *)
(***************************************************************************)
PoolExclusive ==
  /\ \A f \in Owners : /\ y[f.y] /\ f.y # call.y
                       /\ f.uv # None => uv[f.uv] /\ f.uv # call.uv
  /\ \A f, g \in Owners : f # g => f.y # g.y /\ (f.uv # None => f.uv # g.uv)
  /\ \A f \in Owners, j \in gpu : j.y # f.y /\ (f.uv # None => j.uv # f.uv)

(***************************************************************************)
(* Every marked entry belongs to a frame, to the conversion in progress or *)
(* to an early return of VK_CHECK, and every open descriptor to a frame or *)
(* the conversion: the other failure paths give everything back.           *)
(***************************************************************************)
NothingLost ==
  /\ \A e \in Entry :
       y[e] => \/ e = call.y \/ <<"y", e>> \in leaked
               \/ \E f \in Owners : f.y = e
  /\ \A e \in Entry :
       uv[e] => \/ e = call.uv \/ <<"uv", e>> \in leaked
                \/ \E f \in Out : f.pool = vk.gen /\ f.uv = e
  /\ \A d \in Fd : fds[d] # None => d = call.fd \/ \E f \in Out : f.fd = d

(* A frame is delivered with the size of the memory it lies in. *)
SizeTruth == \A f \in held : f.size = f.room
=============================================================================
