---------------------------- MODULE VkConvProofs ----------------------------
(***************************************************************************)
(* Proofs about VkConv for every number of buffers, descriptors and pool   *)
(* entries, every size of the caches and every length of a session.        *)
(***************************************************************************)
EXTENDS VkConv, FiniteSetTheorems, WellFoundedInduction, TLAPS

USE VkConvAssumption

-----------------------------------------------------------------------------
(***************************************************************************)
(* Types, in more detail than TypeOK.  A cache slot is keyed by a captured *)
(* descriptor or, with two pools, by an output; what it holds while valid  *)
(* is a DMA-buf.                                                           *)
(***************************************************************************)
OutKey == {"y", "uv"} \X Entry
FdKey == Fd \cup OutKey
SizeKey == OrNone(Size) \cup ({"y", "uv"} \X OrNone(Size))

Slot == {s \in [valid : BOOLEAN, fd : OrNone(FdKey), obj : OrNone(Objs),
                size : OrNone(SizeKey), used : Nat] : s.valid => s.obj \in Objs}
Cache == [count : 0..CacheSize, slot : [1..CacheSize -> Slot]]
Get == [fd : FdKey, size : SizeKey, obj : Objs]

Source == [streaming : BOOLEAN, size : OrNone(Size), epoch : 0..MaxEpoch]
Vulkan == [up : BOOLEAN, ready : BOOLEAN, frame_count : 0..MaxFrames,
           gen : 0..MaxEpoch, fence : {"signalled", "unsignalled"},
           size : OrNone(Size), result : {0, -1}]
Call == [pc : {"idle", "pool", "import", "record", "wait", "drain", "got"},
         fd : OrNone(Fd), obj : OrNone(Objs), img : OrNone(Objs),
         y : OrNone(Entry), uv : OrNone(Entry), polls : 0..MaxPolls,
         ok : BOOLEAN]
Delivered == [fd : Fd, obj : Objs, y : Entry, uv : OrNone(Entry),
              pool : 0..MaxEpoch, size : OrNone(Size), room : OrNone(Size)]

TypeSource == cfg \in [path : Paths, layout : Layouts] /\ cfg \in Configs
              /\ src \in Source /\ vk \in Vulkan
TypePools == y \in [Entry -> BOOLEAN] /\ uv \in [Entry -> BOOLEAN]
             /\ leaked \subseteq OutKey
TypeCache == cache \in Cache
TypeFds == fds \in [Fd -> OrNone(Objs)]
TypeCall == call \in Call
TypeJobs == gpu \subseteq [y : Entry, uv : OrNone(Entry)]
TypeFrames == held \subseteq Delivered /\ releasing \subseteq Delivered

(***************************************************************************)
(* Where the conversion is decides which locals it has set, and that the   *)
(* device streams with its Vulkan context up.  Its frame will still fit    *)
(* under the bound, and the GPU is idle once the conversion has drained    *)
(* it.                                                                     *)
(***************************************************************************)
CallLocals ==
  /\ call.pc = "idle" => call = Idle
  /\ call.pc # "idle" =>
       call.fd \in Fd /\ call.obj \in Objs /\ vk.up /\ src.streaming
  /\ call.y # None <=> \/ call.pc \in {"record", "wait", "drain", "got"}
                       \/ call.pc = "import" /\ cfg.path # "render10"
  /\ call.y # None /\ TwoPools => call.uv # None
  /\ call.y = None => call.uv = None

CallCounts ==
  /\ call.pc \notin {"idle", "got"} => vk.frame_count < MaxFrames
  /\ call.pc = "got" => gpu = {}
  /\ vk.gen <= src.epoch
  /\ src.streaming => src.epoch > 0

(***************************************************************************)
(* Descriptors.  The conversion and every frame have an open descriptor of *)
(* their own: the number of a frame is not given out again before          *)
(* vfmcap_release_frame has closed it.                                     *)
(***************************************************************************)
FdsOwned ==
  /\ call.pc # "idle" => fds[call.fd] = call.obj
  /\ \A f \in Out : fds[f.fd] # None /\ f.fd # call.fd

FdsApart ==
  /\ \A f, g \in Out : f # g => f.fd # g.fd
  /\ held \cap releasing = {}

BaseInv ==
  /\ TypeSource /\ TypePools /\ TypeCache /\ TypeFds /\ TypeCall /\ TypeJobs
  /\ TypeFrames /\ CallLocals /\ CallCounts /\ FdsOwned /\ FdsApart

(* A nonempty set of naturals has a least element, and Min returns it.     *)
LEMMA MinOfNats ==
  ASSUME NEW S \in SUBSET Nat, S # {}
  PROVE  Min(S) \in S /\ \A x \in S : Min(S) <= x
<1>1. PICK o \in S : \A p \in S : ~(<<p, o>> \in OpToRel(<, Nat))
  BY NatLessThanWellFounded, WFMin
<1>2. ASSUME NEW p \in S PROVE o <= p
  <2> SUFFICES ASSUME p < o PROVE FALSE
    OBVIOUS
  <2>1. <<p, o>> \in Nat \X Nat /\ <<p, o>>[1] < <<p, o>>[2]
    OBVIOUS
  <2>2. <<p, o>> \in OpToRel(<, Nat)
    BY <2>1, Zenon DEF OpToRel
  <2>3. QED BY <1>1, <2>2
<1>3. QED BY <1>2 DEF Min

(* The least recently used slot exists: Oldest is one of the slots.        *)
LEMMA OldestInRange ==
  ASSUME NEW c \in Cache
  PROVE  Oldest(c) \in 1..CacheSize
<1> DEFINE U == {c.slot[i].used : i \in 1..CacheSize}
           S == {i \in 1..CacheSize :
                   \A j \in 1..CacheSize : c.slot[i].used <= c.slot[j].used}
<1>1. \A i \in 1..CacheSize : c.slot[i].used \in Nat
  BY DEF Cache, Slot
<1>2. U \in SUBSET Nat /\ c.slot[1].used \in U
  BY <1>1
<1>3. Min(U) \in U /\ \A x \in U : Min(U) <= x
  <2> HIDE DEF U
  <2> QED BY <1>2, MinOfNats
<1>4. PICK i \in 1..CacheSize : c.slot[i].used = Min(U)
  BY <1>3
<1>5. i \in S
  BY <1>3, <1>4
<1>6. Min(S) \in S
  <2>1. S \in SUBSET Nat OBVIOUS
  <2> HIDE DEF S
  <2> QED BY <1>5, <2>1, MinOfNats
<1>7. QED BY <1>6 DEF Oldest

(* A lookup ends in a slot of the cache, in a matching one if there is any. *)
LEMMA SlotInRange ==
  ASSUME NEW c \in Cache, NEW g
  PROVE  /\ SlotFor(c, g) \in 1..CacheSize
         /\ Matches(c, g) # {} => SlotFor(c, g) \in Matches(c, g)
<1>1. c.count \in 0..CacheSize BY DEF Cache
<1>2. Matches(c, g) \in SUBSET (1..CacheSize) BY <1>1 DEF Matches
<1>3. CASE Matches(c, g) # {}
  <2>1. Min(Matches(c, g)) \in Matches(c, g)
    BY <1>2, <1>3, MinOfNats
  <2>2. QED BY <1>2, <1>3, <2>1 DEF SlotFor
<1>4. CASE Matches(c, g) = {} /\ c.count < CacheSize
  BY <1>1, <1>4 DEF SlotFor
<1>5. CASE Matches(c, g) = {} /\ c.count = CacheSize
  BY <1>5, OldestInRange DEF SlotFor
<1>6. QED BY <1>1, <1>3, <1>4, <1>5

(* Writing a slot changes that slot alone, and the cache stays a cache.    *)
LEMMA PlaceSlot ==
  ASSUME NEW c \in Cache, NEW g, NEW e \in Slot
  PROVE  /\ Place(c, g, e) \in Cache
         /\ Place(c, g, e).slot[SlotFor(c, g)] = e
         /\ \A i \in 1..CacheSize : i # SlotFor(c, g) =>
              Place(c, g, e).slot[i] = c.slot[i]
<1> DEFINE k == SlotFor(c, g)
<1>1. k \in 1..CacheSize BY SlotInRange
<1>2. c.count \in 0..CacheSize /\ c.slot \in [1..CacheSize -> Slot]
  BY DEF Cache
<1> HIDE DEF k
<1>3. Max({c.count, k}) \in {c.count, k}
  <2>1. \E x \in {c.count, k} : \A z \in {c.count, k} : x >= z
    <3>1. CASE c.count >= k BY <3>1, <1>1, <1>2
    <3>2. CASE c.count < k BY <3>2, <1>1, <1>2
    <3>3. QED BY <3>1, <3>2, <1>1, <1>2
  <2>2. QED BY <2>1 DEF Max
<1>4. Max({c.count, k}) \in 0..CacheSize
  BY <1>1, <1>2, <1>3
<1>5. Place(c, g, e) = [count |-> Max({c.count, k}),
                        slot |-> [c.slot EXCEPT ![k] = e]]
  BY DEF Place, k
<1>6. [c.slot EXCEPT ![k] = e] \in [1..CacheSize -> Slot]
  BY <1>1, <1>2
<1>7. Place(c, g, e) \in Cache
  BY <1>4, <1>5, <1>6 DEF Cache
<1>8. /\ Place(c, g, e).slot[k] = e
      /\ \A i \in 1..CacheSize : i # k => Place(c, g, e).slot[i] = c.slot[i]
  BY <1>1, <1>2, <1>5
<1>9. QED BY <1>7, <1>8 DEF k

(* A lookup that succeeds leaves a valid slot with the asked descriptor.   *)
(* Its import is the one that was there, under the same inode, or that of  *)
(* the DMA-buf asked for; the other slots keep theirs.                     *)
LEMMA CacheGet ==
  ASSUME NEW c \in Cache, NEW g \in Get, vk.frame_count \in Nat
  PROVE  LET k == SlotFor(c, g)
             s == cache_get(c, g).slot
         IN /\ cache_get(c, g) \in Cache
            /\ s[k].valid /\ s[k].fd = g.fd /\ s[k].obj \in Objs
            /\ \/ s[k].obj = g.obj
               \/ c.slot[k].valid /\ s[k].obj = c.slot[k].obj
                  /\ s[k].obj.ino = g.obj.ino
            /\ \A i \in 1..CacheSize : i # k => s[i] = c.slot[i]
<1> DEFINE k == SlotFor(c, g)
           o == IF SameInode(c, g) THEN c.slot[k].obj ELSE g.obj
           e == [valid |-> TRUE, fd |-> g.fd, size |-> g.size,
                 used |-> vk.frame_count, obj |-> o]
<1>1. k \in 1..CacheSize BY SlotInRange
<1>2. g.fd \in FdKey /\ g.size \in SizeKey /\ g.obj \in Objs BY DEF Get
<1>3. ASSUME SameInode(c, g)
      PROVE  c.slot[k].valid /\ c.slot[k].obj.ino = g.obj.ino
  BY <1>3 DEF SameInode, Matches
<1>4. c.slot[k] \in Slot BY <1>1 DEF Cache
<1>5. o \in Objs
  <2>1. CASE SameInode(c, g) BY <2>1, <1>3, <1>4 DEF Slot
  <2>2. CASE ~SameInode(c, g) BY <2>2, <1>2
  <2>3. QED BY <2>1, <2>2
<1>6. \/ o = g.obj
      \/ c.slot[k].valid /\ o = c.slot[k].obj /\ o.ino = g.obj.ino
  BY <1>3
<1>7. cache_get(c, g) = Place(c, g, e)
  BY DEF cache_get
<1> HIDE DEF o
<1>8. e \in Slot /\ e.valid /\ e.fd = g.fd /\ e.obj = o
  BY <1>2, <1>5 DEF Slot, OrNone
<1> HIDE DEF e
<1>9. /\ Place(c, g, e) \in Cache /\ Place(c, g, e).slot[k] = e
      /\ \A i \in 1..CacheSize : i # k => Place(c, g, e).slot[i] = c.slot[i]
  BY <1>8, PlaceSlot
<1>10. QED BY <1>5, <1>6, <1>7, <1>8, <1>9

(* A lookup that fails leaves its slot empty and the others as they were.  *)
LEMMA CacheGetFailed ==
  ASSUME NEW c \in Cache, NEW g
  PROVE  /\ cache_get_failed(c, g) \in Cache
         /\ ~cache_get_failed(c, g).slot[SlotFor(c, g)].valid
         /\ \A i \in 1..CacheSize : i # SlotFor(c, g) =>
              cache_get_failed(c, g).slot[i] = c.slot[i]
<1> DEFINE e == [NoSlot EXCEPT !.used = c.slot[SlotFor(c, g)].used]
<1>1. c.slot[SlotFor(c, g)] \in Slot BY SlotInRange DEF Cache
<1>2. c.slot[SlotFor(c, g)].used \in Nat BY <1>1 DEF Slot
<1>3. e \in Slot /\ ~e.valid BY <1>2 DEF NoSlot, Slot, OrNone
<1>4. cache_get_failed(c, g) = Place(c, g, e) BY DEF cache_get_failed
<1> HIDE DEF e
<1>5. QED BY <1>3, <1>4, PlaceSlot

(* The empty cache is a cache without valid slots.                         *)
LEMMA EmptyIsCache ==
  /\ EmptyCache \in Cache
  /\ \A i \in 1..CacheSize : ~EmptyCache.slot[i].valid
<1>1. NoSlot \in Slot /\ ~NoSlot.valid BY DEF NoSlot, Slot, OrNone
<1>2. [i \in 1..CacheSize |-> NoSlot] \in [1..CacheSize -> Slot] BY <1>1
<1>3. QED BY <1>1, <1>2 DEF EmptyCache, Cache

(* As many DMA-bufs as there are descriptors and cache slots are alive at  *)
(* most, so that the kernel finds an unused inode for a new one.           *)
LEMMA FreshInode ==
  ASSUME TypeCache, TypeFds
  PROVE  LET i == Min(Inode \ {d.ino : d \in LiveBufs})
         IN  i \in Inode /\ \A d \in LiveBufs : d.ino # i
<1> DEFINE F == {f \in Fd : fds[f] # None}
           C == {i \in 1..CacheSize : cache.slot[i].valid}
           A == {fds[f].ino : f \in F}
           B == {cache.slot[i].obj.ino : i \in C}
           I == {d.ino : d \in LiveBufs}
<1>1. I = A \cup B BY DEF LiveBufs
<1>2. IsFiniteSet(A) /\ Cardinality(A) <= Cardinality(Fd)
  <2>1. IsFiniteSet(F) /\ Cardinality(F) <= Cardinality(Fd)
    BY FS_Subset
  <2>2. [f \in F |-> fds[f].ino] \in Surjection(F, A)
    BY DEF Surjection
  <2>3. IsFiniteSet(A) /\ Cardinality(A) <= Cardinality(F)
    <3> HIDE DEF A, F
    <3> QED BY <2>1, <2>2, FS_Surjection
  <2>4. Cardinality(A) \in Nat /\ Cardinality(F) \in Nat /\ Cardinality(Fd) \in Nat
    BY <2>1, <2>3, FS_CardinalityType
  <2>5. QED BY <2>1, <2>3, <2>4
<1>3. IsFiniteSet(B) /\ Cardinality(B) <= CacheSize
  <2>1. IsFiniteSet(1..CacheSize) /\ Cardinality(1..CacheSize) = CacheSize
    BY FS_Interval
  <2>2. IsFiniteSet(C) /\ Cardinality(C) <= CacheSize
    BY <2>1, FS_Subset
  <2>3. [i \in C |-> cache.slot[i].obj.ino] \in Surjection(C, B)
    BY DEF Surjection
  <2>4. IsFiniteSet(B) /\ Cardinality(B) <= Cardinality(C)
    <3> HIDE DEF B, C
    <3> QED BY <2>2, <2>3, FS_Surjection
  <2>5. Cardinality(B) \in Nat /\ Cardinality(C) \in Nat
    BY <2>2, <2>4, FS_CardinalityType
  <2>6. QED BY <2>2, <2>4, <2>5
<1> HIDE DEF A, B
<1>4. IsFiniteSet(I) /\ Cardinality(I) <= Cardinality(Fd) + CacheSize
  <2>1. /\ IsFiniteSet(A \cup B)
        /\ Cardinality(A \cup B) =
             Cardinality(A) + Cardinality(B) - Cardinality(A \cap B)
    BY <1>2, <1>3, FS_Union
  <2>2. IsFiniteSet(A \cap B) BY <1>2, FS_Subset
  <2>3. /\ Cardinality(A) \in Nat /\ Cardinality(B) \in Nat
        /\ Cardinality(A \cap B) \in Nat /\ Cardinality(Fd) \in Nat
    BY <1>2, <1>3, <2>2, FS_CardinalityType
  <2>4. Cardinality(A \cup B) <= Cardinality(Fd) + CacheSize
    BY <1>2, <1>3, <2>1, <2>3
  <2>5. QED BY <1>1, <2>1, <2>4
<1> HIDE DEF I
<1>5. Inode \ I # {}
  <2> SUFFICES ASSUME Inode \subseteq I PROVE FALSE
    OBVIOUS
  <2>1. Cardinality(Inode) <= Cardinality(I)
    BY <1>4, FS_Subset
  <2>2. /\ Cardinality(Inode) \in Nat /\ Cardinality(I) \in Nat
        /\ Cardinality(Fd) \in Nat
    BY <1>4, FS_CardinalityType
  <2>3. QED BY <1>4, <2>1, <2>2
<1>6. Min(Inode \ I) \in Inode \ I
  <2>1. Inode \ I \in SUBSET Nat OBVIOUS
  <2>2. QED BY <1>5, <2>1, MinOfNats
<1>7. QED BY <1>6 DEF I

(* What a conversion asks the cache for, in the order of its calls.        *)
LEMMA GetsType ==
  ASSUME TypeSource, TypeCall, CallLocals, call.pc = "import"
  PROVE  /\ Gets[1] = [fd |-> call.fd, size |-> src.size, obj |-> call.obj]
         /\ Gets[1] \in Get
         /\ cfg # [path |-> "render8", layout |-> "two"] => Len(Gets) = 1
         /\ Len(Gets) \in {1, 3} /\ DOMAIN Gets = 1..Len(Gets)
         /\ \A n \in 1..Len(Gets) : Gets[n] \in Get
<1> DEFINE out(p, e) == [fd |-> <<p, e>>, size |-> <<p, vk.size>>,
                         obj |-> DmaBuf(<<p, e>>, <<p, e>>)]
           in == [fd |-> call.fd, size |-> src.size, obj |-> call.obj]
<1>1. in \in Get
  BY DEF TypeSource, Source, CallLocals, Get, FdKey, SizeKey
<1>2. ASSUME NEW p \in {"y", "uv"}, NEW e \in Entry PROVE out(p, e) \in Get
  <2>1. <<p, e>> \in OutKey BY DEF OutKey
  <2>2. <<p, vk.size>> \in SizeKey BY DEF TypeSource, Vulkan, SizeKey
  <2>3. DmaBuf(<<p, e>>, <<p, e>>) \in Objs BY DEF DmaBuf, Objs, Mem
  <2>4. QED BY <2>1, <2>2, <2>3 DEF Get, FdKey
<1>3. CASE cfg.path = "render8" /\ TwoPools
  <2>1. call.y \in Entry /\ call.uv \in Entry
    BY <1>3 DEF CallLocals, TypeCall, Call, OrNone
  <2>2. out("y", call.y) \in Get /\ out("uv", call.uv) \in Get
    BY <1>2, <2>1
  <2>3. Gets = <<in, out("y", call.y), out("uv", call.uv)>>
    BY <1>3 DEF Gets
  <2>4. cfg = [path |-> "render8", layout |-> "two"]
    BY <1>3 DEF TwoPools, TypeSource
  <2> HIDE DEF in, out
  <2>5. /\ Len(Gets) = 3 /\ DOMAIN Gets = 1..3
        /\ \A n \in 1..3 : Gets[n] \in Get /\ Gets[1] = in
    BY <1>1, <2>2, <2>3
  <2>6. QED BY <1>1, <2>4, <2>5 DEF in
<1>4. CASE ~(cfg.path = "render8" /\ TwoPools)
  <2>1. Gets = <<in>>
    BY <1>4 DEF Gets
  <2> HIDE DEF in
  <2>2. /\ Len(Gets) = 1 /\ DOMAIN Gets = 1..1
        /\ \A n \in 1..1 : Gets[n] \in Get /\ Gets[1] = in
    BY <1>1, <2>1
  <2>3. QED BY <1>1, <2>2 DEF in
<1>5. QED BY <1>3, <1>4

(* The cache stays a cache while a conversion fills it.                    *)
LEMMA CacheAfterType ==
  ASSUME TypeSource, TypeCall, CallLocals, TypeCache, call.pc = "import",
         NEW n \in 0..Len(Gets)
  PROVE  CacheAfter(n) \in Cache
<1> DEFINE after(c, i) == IF i <= n THEN cache_get(c, Gets[i]) ELSE c
<1>1. Len(Gets) \in {1, 3} /\ \A i \in 1..Len(Gets) : Gets[i] \in Get
  BY GetsType
<1>2. vk.frame_count \in Nat BY DEF TypeSource, Vulkan
<1>3. ASSUME NEW c \in Cache, NEW i \in 1..3 PROVE after(c, i) \in Cache
  <2>1. CASE i <= n
    <3>1. Gets[i] \in Get BY <1>1, <2>1
    <3>2. cache_get(c, Gets[i]) \in Cache BY <1>2, <3>1, CacheGet
    <3>3. QED BY <2>1, <3>2
  <2>2. CASE ~(i <= n) BY <2>2
  <2>3. QED BY <2>1, <2>2
<1>4. CacheAfter(n) = after(after(after(cache, 1), 2), 3)
  BY DEF CacheAfter
<1> HIDE DEF after
<1>5. after(cache, 1) \in Cache BY <1>3 DEF TypeCache
<1>6. after(after(cache, 1), 2) \in Cache BY <1>3, <1>5
<1>7. QED BY <1>3, <1>4, <1>6

(* The image of the input is the import in its slot.                       *)
LEMMA InputImageType ==
  ASSUME TypeSource, TypeCall, CallLocals, TypeCache, call.pc = "import"
  PROVE  InputImage \in Objs
<1>1. CacheAfter(1) = cache_get(cache, Gets[1])
  BY DEF CacheAfter
<1>2. Gets[1] \in Get /\ vk.frame_count \in Nat /\ cache \in Cache
  BY GetsType DEF TypeSource, Vulkan, TypeCache
<1>3. QED BY <1>1, <1>2, CacheGet DEF InputImage

(* A captured buffer is exported as a DMA-buf of its own memory, one that  *)
(* is alive or one with an inode that no live DMA-buf has.                 *)
LEMMA Exported ==
  ASSUME TypeCache, TypeFds, NEW m \in Mem, NEW d \in GET_DMABUF(m)
  PROVE  /\ d \in Objs
         /\ d \in LiveBufs \/ \A e \in LiveBufs : e.ino # d.ino
<1> DEFINE i == Min(Inode \ {e.ino : e \in LiveBufs})
<1>1. i \in Inode /\ \A e \in LiveBufs : e.ino # i BY FreshInode
<1>2. LiveBufs \subseteq Objs
  BY DEF LiveBufs, TypeCache, TypeFds, Cache, Slot, OrNone
<1>3. d \in LiveBufs \/ d = DmaBuf(i, m) BY DEF GET_DMABUF
<1> HIDE DEF i
<1>4. CASE d = DmaBuf(i, m)
  <2>1. d \in Objs /\ d.ino = i BY <1>1, <1>4 DEF DmaBuf, Objs
  <2>2. QED BY <1>1, <2>1
<1>5. QED BY <1>2, <1>3, <1>4

(* Types, the shape of the conversion and the ownership of descriptors,    *)
(* whatever fails and also when frames are kept over a reconfiguration.    *)
LEMMA BaseInvariant == Spec => []BaseInv
<1>1. Init => BaseInv
  <2> SUFFICES ASSUME Init PROVE BaseInv
    OBVIOUS
  <2>1. cache \in Cache BY EmptyIsCache DEF Init
  <2>2. TypeSource BY DEF Init, TypeSource, Source, Vulkan, OrNone
  <2>3. QED BY <2>1, <2>2 DEF Init, BaseInv, TypePools, OutKey, TypeCache, TypeFds,
      TypeCall, Call, Idle, OrNone, TypeJobs, TypeFrames, CallLocals, CallCounts,
      FdsOwned, FdsApart, Out
<1>2. BaseInv /\ [Next]_vars => BaseInv'
  <2> SUFFICES ASSUME BaseInv, [Next]_vars PROVE BaseInv'
    OBVIOUS
  <2> USE DEF BaseInv
  <2>1. ASSUME NEW b \in Buf, NEW f \in Fd, GetDmabuf(b, f) PROVE BaseInv'
    <3>1. PICK d \in GET_DMABUF(<<b, src.epoch>>) :
            /\ fds' = [fds EXCEPT ![f] = d]
            /\ call' = [Idle EXCEPT
                 !.pc = IF cfg.path = "render10" THEN "import" ELSE "pool",
                 !.fd = f, !.obj = d]
      BY <2>1 DEF GetDmabuf
    <3>2. d \in Objs
      <4>1. <<b, src.epoch>> \in Mem
        BY <2>1 DEF GetDmabuf, CallCounts, TypeSource, Source, Mem
      <4>2. QED BY <4>1, Exported
    <3>3. /\ call'.pc = IF cfg.path = "render10" THEN "import" ELSE "pool"
          /\ call'.fd = f /\ call'.obj = d /\ call'.y = None /\ call'.uv = None
          /\ call' \in Call
      <4> DEFINE p == IF cfg.path = "render10" THEN "import" ELSE "pool"
      <4>1. p \in {"import", "pool"} OBVIOUS
      <4>2. call' = [Idle EXCEPT !.pc = p, !.fd = f, !.obj = d] BY <3>1
      <4> HIDE DEF p
      <4>3. call' = [pc |-> p, fd |-> f, obj |-> d, img |-> None, y |-> None,
                     uv |-> None, polls |-> 0, ok |-> TRUE]
        BY <4>2 DEF Idle
      <4>4. QED BY <3>2, <4>1, <4>3 DEF Call, OrNone, p
    <3>4. /\ call.pc = "idle" /\ vk.up /\ src.streaming /\ vk.frame_count < MaxFrames /\ fds[f] = None
          /\ UNCHANGED <<cfg, src, vk, y, uv, cache, gpu, held, releasing, leaked>>
      BY <2>1 DEF GetDmabuf
    <3>5. TypeSource' BY <3>4 DEF TypeSource
    <3>6. TypePools' BY <3>4 DEF TypePools
    <3>7. TypeCache' BY <3>4 DEF TypeCache
    <3>8. TypeFds' BY <3>1, <3>2 DEF TypeFds, OrNone
    <3>9. TypeCall' BY <3>3 DEF TypeCall
    <3>10. TypeJobs' /\ TypeFrames' BY <3>4 DEF TypeJobs, TypeFrames
    <3>11. CallLocals' BY <3>2, <3>3, <3>4 DEF CallLocals, TwoPools
    <3>12. CallCounts' BY <3>3, <3>4 DEF CallCounts
    <3>13. FdsOwned'
      <4>1. fds'[f] = d BY <3>1 DEF TypeFds
      <4>2. ASSUME NEW r \in Out' PROVE fds'[r.fd] # None /\ r.fd # call'.fd
        <5>1. r \in Out /\ r.fd \in Fd /\ fds[r.fd] # None
          BY <3>4 DEF Out, FdsOwned, TypeFrames, Delivered
        <5>2. QED BY <3>1, <3>3, <3>4, <5>1 DEF TypeFds
      <4>3. QED BY <3>3, <4>1, <4>2 DEF FdsOwned
    <3>14. FdsApart' BY <3>4 DEF FdsApart, Out
    <3>15. QED
      BY <3>5, <3>6, <3>7, <3>8, <3>9, <3>10, <3>11, <3>12, <3>13, <3>14
  <2>2. CASE output_pool_acquire
    <3>1. PICK e \in Entry, u \in OrNone(Entry) :
            /\ call' = [call EXCEPT !.pc = AfterPool, !.polls = 0, !.y = e, !.uv = u]
            /\ TwoPools => u \in Entry
            /\ ~TwoPools => u = None
      <4>1. CASE TwoPools BY <2>2, <4>1 DEF output_pool_acquire, Free, OrNone
      <4>2. CASE ~TwoPools
        <5>1. call.uv = None /\ call \in Call
          BY <2>2 DEF output_pool_acquire, CallLocals, TypeCall
        <5>2. PICK e \in Entry :
                call' = [call EXCEPT !.pc = AfterPool, !.polls = 0, !.y = e]
          BY <2>2, <4>2 DEF output_pool_acquire, Free
        <5>3. call' = [call EXCEPT !.pc = AfterPool, !.polls = 0, !.y = e,
                                   !.uv = None]
          BY <5>1, <5>2 DEF Call
        <5>4. QED BY <4>2, <5>3 DEF OrNone
      <4>3. QED BY <4>1, <4>2
    <3>2. /\ call.pc = "pool" /\ call \in Call
          /\ UNCHANGED <<cfg, src, vk, cache, fds, gpu, held, releasing, leaked>>
      BY <2>2 DEF output_pool_acquire, TypeCall
    <3>3. /\ call' \in Call /\ call'.pc = AfterPool /\ call'.y = e /\ call'.uv = u
          /\ call'.fd = call.fd /\ call'.obj = call.obj
      <4>1. AfterPool \in {"record", "import"} BY DEF AfterPool
      <4>2. e \in OrNone(Entry) /\ 0 \in 0..MaxPolls BY DEF OrNone
      <4>3. QED BY <3>1, <3>2, <4>1, <4>2 DEF Call
    <3>4. AfterPool = IF cfg.path = "render10" THEN "record" ELSE "import"
      BY DEF AfterPool
    <3>5. TypeSource' BY <3>2 DEF TypeSource
    <3>6. TypePools' BY <2>2 DEF TypePools, output_pool_acquire
    <3>7. TypeCache' /\ TypeFds' BY <3>2 DEF TypeCache, TypeFds
    <3>8. TypeCall' BY <3>3 DEF TypeCall
    <3>9. TypeJobs' /\ TypeFrames' BY <3>2 DEF TypeJobs, TypeFrames
    <3>10. CallLocals' BY <3>1, <3>2, <3>3, <3>4 DEF CallLocals, TwoPools
    <3>11. CallCounts' BY <3>2, <3>3, <3>4 DEF CallCounts
    <3>12. FdsOwned' BY <3>2, <3>3, <3>4 DEF FdsOwned, Out
    <3>13. FdsApart' BY <3>2 DEF FdsApart, Out
    <3>14. QED BY <3>5, <3>6, <3>7, <3>8, <3>9, <3>10, <3>11, <3>12, <3>13
  <2>3. CASE PoolPoll
    <3>1. TypeSource' BY <2>3 DEF TypeSource, Source, Vulkan, PoolPoll
    <3>2. TypePools' BY <2>3 DEF TypePools, OutKey, PoolPoll
    <3>3. TypeCache' BY <2>3 DEF TypeCache, PoolPoll
    <3>4. TypeFds' BY <2>3 DEF TypeFds, OrNone, PoolPoll
    <3>5. TypeCall' BY <2>3 DEF TypeCall, Call, Idle, OrNone, CallLocals,
        PoolPoll
    <3>6. TypeJobs' BY <2>3 DEF TypeJobs, TypeCall, Call, CallLocals, OrNone,
        PoolPoll
    <3>7. TypeFrames' BY <2>3 DEF TypeFrames, Delivered, PoolPoll
    <3>8. CallLocals' BY <2>3 DEF CallLocals, TypeCall, Call, Idle, TwoPools,
        OrNone, PoolPoll
    <3>9. CallCounts' BY <2>3 DEF CallCounts, CallLocals, TypeCall, Call,
        TypeSource, Source, Vulkan, Idle, PoolPoll
    <3>10. FdsOwned' BY <2>3 DEF FdsOwned, Out, TypeFds, TypeFrames, Delivered,
        TypeCall, Call, CallLocals, OrNone, Idle, PoolPoll
    <3>11. FdsApart' BY <2>3 DEF FdsApart, Out, FdsOwned, PoolPoll
    <3>12. QED BY <3>1, <3>2, <3>3, <3>4, <3>5, <3>6, <3>7, <3>8, <3>9, <3>10,
      <3>11
  <2>4. CASE PoolExhausted
    <3>1. TypeSource' BY <2>4 DEF TypeSource, Source, Vulkan, PoolExhausted,
        Fail
    <3>2. TypePools' BY <2>4 DEF TypePools, OutKey, PoolExhausted, Fail
    <3>3. TypeCache' BY <2>4 DEF TypeCache, PoolExhausted, Fail
    <3>4. TypeFds' BY <2>4 DEF TypeFds, OrNone, PoolExhausted, Fail
    <3>5. TypeCall' BY <2>4 DEF TypeCall, Call, Idle, OrNone, CallLocals,
        PoolExhausted, Fail
    <3>6. TypeJobs' BY <2>4 DEF TypeJobs, TypeCall, Call, CallLocals, OrNone,
        PoolExhausted, Fail
    <3>7. TypeFrames' BY <2>4 DEF TypeFrames, Delivered, PoolExhausted, Fail
    <3>8. CallLocals' BY <2>4 DEF CallLocals, TypeCall, Call, Idle, TwoPools,
        OrNone, PoolExhausted, Fail
    <3>9. CallCounts' BY <2>4 DEF CallCounts, CallLocals, TypeCall, Call,
        TypeSource, Source, Vulkan, Idle, PoolExhausted, Fail
    <3>10. FdsOwned' BY <2>4 DEF FdsOwned, Out, TypeFds, TypeFrames, Delivered,
        TypeCall, Call, CallLocals, OrNone, Idle, PoolExhausted, Fail
    <3>11. FdsApart' BY <2>4 DEF FdsApart, Out, FdsOwned, PoolExhausted, Fail
    <3>12. QED BY <3>1, <3>2, <3>3, <3>4, <3>5, <3>6, <3>7, <3>8, <3>9, <3>10,
      <3>11
  <2>5. CASE Import
    <3>1. TypeSource' BY <2>5 DEF TypeSource, Source, Vulkan, Import,
        AfterImport
    <3>2. TypePools' BY <2>5 DEF TypePools, OutKey, Import, AfterImport
    <3>3. TypeCache'
      <4>1. Len(Gets) \in 0..Len(Gets)
        BY <2>5, GetsType DEF Import
      <4>2. CacheAfter(Len(Gets)) \in Cache
        BY <2>5, <4>1, CacheAfterType DEF Import
      <4>3. QED BY <2>5, <4>2 DEF Import, TypeCache
    <3>4. TypeFds' BY <2>5 DEF TypeFds, OrNone, Import, AfterImport
    <3>5. TypeCall'
      <4>1. InputImage \in Objs BY <2>5, InputImageType DEF Import
      <4>2. QED BY <2>5, <4>1 DEF Import, TypeCall, Call, OrNone, AfterImport
    <3>6. TypeJobs' BY <2>5 DEF TypeJobs, TypeCall, Call, CallLocals, OrNone,
        Import, AfterImport
    <3>7. TypeFrames' BY <2>5 DEF TypeFrames, Delivered, Import, AfterImport
    <3>8. CallLocals' BY <2>5 DEF CallLocals, TypeCall, Call, Idle, TwoPools,
        OrNone, Import, AfterImport
    <3>9. CallCounts' BY <2>5 DEF CallCounts, CallLocals, TypeCall, Call,
        TypeSource, Source, Vulkan, Idle, Import, AfterImport
    <3>10. FdsOwned' BY <2>5 DEF FdsOwned, Out, TypeFds, TypeFrames, Delivered,
        TypeCall, Call, CallLocals, OrNone, Idle, Import, AfterImport
    <3>11. FdsApart' BY <2>5 DEF FdsApart, Out, FdsOwned, Import, AfterImport
    <3>12. QED BY <3>1, <3>2, <3>3, <3>4, <3>5, <3>6, <3>7, <3>8, <3>9, <3>10,
      <3>11
  <2>6. CASE ImportFail
    <3>1. TypeSource' BY <2>6 DEF TypeSource, Source, Vulkan, ImportFail, Fail,
        output_pool_release
    <3>2. TypePools' BY <2>6 DEF TypePools, OutKey, ImportFail, Fail,
        output_pool_release
    <3>3. TypeCache'
      <4>1. PICK n \in DOMAIN Gets :
              cache' = cache_get_failed(CacheAfter(n - 1), Gets[n])
        BY <2>6 DEF ImportFail
      <4>2. Len(Gets) \in {1, 3} /\ n \in 1..Len(Gets)
        BY <2>6, GetsType DEF ImportFail
      <4>3. CacheAfter(n - 1) \in Cache
        <5>1. n - 1 \in 0..Len(Gets) BY <4>2
        <5>2. QED BY <2>6, <5>1, CacheAfterType DEF ImportFail
      <4>4. QED BY <4>1, <4>3, CacheGetFailed DEF TypeCache
    <3>4. TypeFds' BY <2>6 DEF TypeFds, OrNone, ImportFail, Fail,
        output_pool_release
    <3>5. TypeCall' BY <2>6 DEF TypeCall, Call, Idle, OrNone, CallLocals,
        ImportFail, Fail, output_pool_release
    <3>6. TypeJobs' BY <2>6 DEF TypeJobs, TypeCall, Call, CallLocals, OrNone,
        ImportFail, Fail, output_pool_release
    <3>7. TypeFrames' BY <2>6 DEF TypeFrames, Delivered, ImportFail, Fail,
        output_pool_release
    <3>8. CallLocals' BY <2>6 DEF CallLocals, TypeCall, Call, Idle, TwoPools,
        OrNone, ImportFail, Fail, output_pool_release
    <3>9. CallCounts' BY <2>6 DEF CallCounts, CallLocals, TypeCall, Call,
        TypeSource, Source, Vulkan, Idle, ImportFail, Fail, output_pool_release
    <3>10. FdsOwned' BY <2>6 DEF FdsOwned, Out, TypeFds, TypeFrames, Delivered,
        TypeCall, Call, CallLocals, OrNone, Idle, ImportFail, Fail,
        output_pool_release
    <3>11. FdsApart' BY <2>6 DEF FdsApart, Out, FdsOwned, ImportFail, Fail,
        output_pool_release
    <3>12. QED BY <3>1, <3>2, <3>3, <3>4, <3>5, <3>6, <3>7, <3>8, <3>9, <3>10,
      <3>11
  <2>7. CASE Submit
    <3>1. TypeSource' BY <2>7 DEF TypeSource, Source, Vulkan, Submit,
        FenceAtSubmit
    <3>2. TypePools' BY <2>7 DEF TypePools, OutKey, Submit, FenceAtSubmit
    <3>3. TypeCache' BY <2>7 DEF TypeCache, Submit, FenceAtSubmit
    <3>4. TypeFds' BY <2>7 DEF TypeFds, OrNone, Submit, FenceAtSubmit
    <3>5. TypeCall' BY <2>7 DEF TypeCall, Call, Idle, OrNone, CallLocals,
        Submit, FenceAtSubmit
    <3>6. TypeJobs' BY <2>7 DEF TypeJobs, TypeCall, Call, CallLocals, OrNone,
        Submit, FenceAtSubmit
    <3>7. TypeFrames' BY <2>7 DEF TypeFrames, Delivered, Submit, FenceAtSubmit
    <3>8. CallLocals' BY <2>7 DEF CallLocals, TypeCall, Call, Idle, TwoPools,
        OrNone, Submit, FenceAtSubmit
    <3>9. CallCounts' BY <2>7 DEF CallCounts, CallLocals, TypeCall, Call,
        TypeSource, Source, Vulkan, Idle, Submit, FenceAtSubmit
    <3>10. FdsOwned' BY <2>7 DEF FdsOwned, Out, TypeFds, TypeFrames, Delivered,
        TypeCall, Call, CallLocals, OrNone, Idle, Submit, FenceAtSubmit
    <3>11. FdsApart' BY <2>7 DEF FdsApart, Out, FdsOwned, Submit, FenceAtSubmit
    <3>12. QED BY <3>1, <3>2, <3>3, <3>4, <3>5, <3>6, <3>7, <3>8, <3>9, <3>10,
      <3>11
  <2>8. CASE SubmitFail
    <3>1. TypeSource' BY <2>8 DEF TypeSource, Source, Vulkan, SubmitFail, Fail,
        output_pool_release
    <3>2. TypePools' BY <2>8 DEF TypePools, OutKey, SubmitFail, Fail,
        output_pool_release
    <3>3. TypeCache' BY <2>8 DEF TypeCache, SubmitFail, Fail,
        output_pool_release
    <3>4. TypeFds' BY <2>8 DEF TypeFds, OrNone, SubmitFail, Fail,
        output_pool_release
    <3>5. TypeCall' BY <2>8 DEF TypeCall, Call, Idle, OrNone, CallLocals,
        SubmitFail, Fail, output_pool_release
    <3>6. TypeJobs' BY <2>8 DEF TypeJobs, TypeCall, Call, CallLocals, OrNone,
        SubmitFail, Fail, output_pool_release
    <3>7. TypeFrames' BY <2>8 DEF TypeFrames, Delivered, SubmitFail, Fail,
        output_pool_release
    <3>8. CallLocals' BY <2>8 DEF CallLocals, TypeCall, Call, Idle, TwoPools,
        OrNone, SubmitFail, Fail, output_pool_release
    <3>9. CallCounts' BY <2>8 DEF CallCounts, CallLocals, TypeCall, Call,
        TypeSource, Source, Vulkan, Idle, SubmitFail, Fail, output_pool_release
    <3>10. FdsOwned' BY <2>8 DEF FdsOwned, Out, TypeFds, TypeFrames, Delivered,
        TypeCall, Call, CallLocals, OrNone, Idle, SubmitFail, Fail,
        output_pool_release
    <3>11. FdsApart' BY <2>8 DEF FdsApart, Out, FdsOwned, SubmitFail, Fail,
        output_pool_release
    <3>12. QED BY <3>1, <3>2, <3>3, <3>4, <3>5, <3>6, <3>7, <3>8, <3>9, <3>10,
      <3>11
  <2>9. CASE RecordFail
    <3>1. TypeSource' BY <2>9 DEF TypeSource, Source, Vulkan, RecordFail, Fail,
        output_pool_release
    <3>2. TypePools' BY <2>9 DEF TypePools, OutKey, RecordFail, Fail,
        output_pool_release
    <3>3. TypeCache' BY <2>9 DEF TypeCache, RecordFail, Fail,
        output_pool_release
    <3>4. TypeFds' BY <2>9 DEF TypeFds, OrNone, RecordFail, Fail,
        output_pool_release
    <3>5. TypeCall' BY <2>9 DEF TypeCall, Call, Idle, OrNone, CallLocals,
        RecordFail, Fail, output_pool_release
    <3>6. TypeJobs' BY <2>9 DEF TypeJobs, TypeCall, Call, CallLocals, OrNone,
        RecordFail, Fail, output_pool_release
    <3>7. TypeFrames' BY <2>9 DEF TypeFrames, Delivered, RecordFail, Fail,
        output_pool_release
    <3>8. CallLocals' BY <2>9 DEF CallLocals, TypeCall, Call, Idle, TwoPools,
        OrNone, RecordFail, Fail, output_pool_release
    <3>9. CallCounts' BY <2>9 DEF CallCounts, CallLocals, TypeCall, Call,
        TypeSource, Source, Vulkan, Idle, RecordFail, Fail, output_pool_release
    <3>10. FdsOwned' BY <2>9 DEF FdsOwned, Out, TypeFds, TypeFrames, Delivered,
        TypeCall, Call, CallLocals, OrNone, Idle, RecordFail, Fail,
        output_pool_release
    <3>11. FdsApart' BY <2>9 DEF FdsApart, Out, FdsOwned, RecordFail, Fail,
        output_pool_release
    <3>12. QED BY <3>1, <3>2, <3>3, <3>4, <3>5, <3>6, <3>7, <3>8, <3>9, <3>10,
      <3>11
  <2>10. CASE RecordFailVkCheck
    <3>1. TypeSource' BY <2>10 DEF TypeSource, Source, Vulkan,
        RecordFailVkCheck, Fail
    <3>2. TypePools'
      <4>1. call.y \in Entry /\ call.uv \in OrNone(Entry)
        BY <2>10 DEF RecordFailVkCheck, CallLocals, TypeCall, Call, OrNone
      <4>2. {<<"y", call.y>>, <<"uv", call.uv>>} \ {<<"uv", None>>} \subseteq OutKey
        BY <4>1 DEF OutKey, OrNone
      <4>3. QED BY <2>10, <4>2 DEF TypePools, RecordFailVkCheck, Fail
    <3>3. TypeCache' BY <2>10 DEF TypeCache, RecordFailVkCheck, Fail
    <3>4. TypeFds' BY <2>10 DEF TypeFds, OrNone, RecordFailVkCheck, Fail
    <3>5. TypeCall' BY <2>10 DEF TypeCall, Call, Idle, OrNone, CallLocals,
        RecordFailVkCheck, Fail
    <3>6. TypeJobs' BY <2>10 DEF TypeJobs, TypeCall, Call, CallLocals, OrNone,
        RecordFailVkCheck, Fail
    <3>7. TypeFrames' BY <2>10 DEF TypeFrames, Delivered, RecordFailVkCheck,
        Fail
    <3>8. CallLocals' BY <2>10 DEF CallLocals, TypeCall, Call, Idle, TwoPools,
        OrNone, RecordFailVkCheck, Fail
    <3>9. CallCounts' BY <2>10 DEF CallCounts, CallLocals, TypeCall, Call,
        TypeSource, Source, Vulkan, Idle, RecordFailVkCheck, Fail
    <3>10. FdsOwned' BY <2>10 DEF FdsOwned, Out, TypeFds, TypeFrames,
        Delivered, TypeCall, Call, CallLocals, OrNone, Idle, RecordFailVkCheck,
        Fail
    <3>11. FdsApart' BY <2>10 DEF FdsApart, Out, FdsOwned, RecordFailVkCheck,
        Fail
    <3>12. QED BY <3>1, <3>2, <3>3, <3>4, <3>5, <3>6, <3>7, <3>8, <3>9, <3>10,
      <3>11
  <2>11. CASE WaitFence
    <3>1. TypeSource' BY <2>11 DEF TypeSource, Source, Vulkan, WaitFence,
        FenceAfterWait
    <3>2. TypePools' BY <2>11 DEF TypePools, OutKey, WaitFence, FenceAfterWait
    <3>3. TypeCache' BY <2>11 DEF TypeCache, WaitFence, FenceAfterWait
    <3>4. TypeFds' BY <2>11 DEF TypeFds, OrNone, WaitFence, FenceAfterWait
    <3>5. TypeCall' BY <2>11 DEF TypeCall, Call, Idle, OrNone, CallLocals,
        WaitFence, FenceAfterWait
    <3>6. TypeJobs' BY <2>11 DEF TypeJobs, TypeCall, Call, CallLocals, OrNone,
        WaitFence, FenceAfterWait
    <3>7. TypeFrames' BY <2>11 DEF TypeFrames, Delivered, WaitFence,
        FenceAfterWait
    <3>8. CallLocals' BY <2>11 DEF CallLocals, TypeCall, Call, Idle, TwoPools,
        OrNone, WaitFence, FenceAfterWait
    <3>9. CallCounts' BY <2>11 DEF CallCounts, CallLocals, TypeCall, Call,
        TypeSource, Source, Vulkan, Idle, WaitFence, FenceAfterWait
    <3>10. FdsOwned' BY <2>11 DEF FdsOwned, Out, TypeFds, TypeFrames,
        Delivered, TypeCall, Call, CallLocals, OrNone, Idle, WaitFence,
        FenceAfterWait
    <3>11. FdsApart' BY <2>11 DEF FdsApart, Out, FdsOwned, WaitFence,
        FenceAfterWait
    <3>12. QED BY <3>1, <3>2, <3>3, <3>4, <3>5, <3>6, <3>7, <3>8, <3>9, <3>10,
      <3>11
  <2>12. CASE WaitFail
    <3>1. TypeSource' BY <2>12 DEF TypeSource, Source, Vulkan, WaitFail,
        FenceAfterWait
    <3>2. TypePools' BY <2>12 DEF TypePools, OutKey, WaitFail, FenceAfterWait
    <3>3. TypeCache' BY <2>12 DEF TypeCache, WaitFail, FenceAfterWait
    <3>4. TypeFds' BY <2>12 DEF TypeFds, OrNone, WaitFail, FenceAfterWait
    <3>5. TypeCall' BY <2>12 DEF TypeCall, Call, Idle, OrNone, CallLocals,
        WaitFail, FenceAfterWait
    <3>6. TypeJobs' BY <2>12 DEF TypeJobs, TypeCall, Call, CallLocals, OrNone,
        WaitFail, FenceAfterWait
    <3>7. TypeFrames' BY <2>12 DEF TypeFrames, Delivered, WaitFail,
        FenceAfterWait
    <3>8. CallLocals' BY <2>12 DEF CallLocals, TypeCall, Call, Idle, TwoPools,
        OrNone, WaitFail, FenceAfterWait
    <3>9. CallCounts' BY <2>12 DEF CallCounts, CallLocals, TypeCall, Call,
        TypeSource, Source, Vulkan, Idle, WaitFail, FenceAfterWait
    <3>10. FdsOwned' BY <2>12 DEF FdsOwned, Out, TypeFds, TypeFrames,
        Delivered, TypeCall, Call, CallLocals, OrNone, Idle, WaitFail,
        FenceAfterWait
    <3>11. FdsApart' BY <2>12 DEF FdsApart, Out, FdsOwned, WaitFail,
        FenceAfterWait
    <3>12. QED BY <3>1, <3>2, <3>3, <3>4, <3>5, <3>6, <3>7, <3>8, <3>9, <3>10,
      <3>11
  <2>13. CASE WaitFail10
    <3>1. TypeSource' BY <2>13 DEF TypeSource, Source, Vulkan, WaitFail10,
        Fail, output_pool_release
    <3>2. TypePools' BY <2>13 DEF TypePools, OutKey, WaitFail10, Fail,
        output_pool_release
    <3>3. TypeCache' BY <2>13 DEF TypeCache, WaitFail10, Fail,
        output_pool_release
    <3>4. TypeFds' BY <2>13 DEF TypeFds, OrNone, WaitFail10, Fail,
        output_pool_release
    <3>5. TypeCall' BY <2>13 DEF TypeCall, Call, Idle, OrNone, CallLocals,
        WaitFail10, Fail, output_pool_release
    <3>6. TypeJobs' BY <2>13 DEF TypeJobs, TypeCall, Call, CallLocals, OrNone,
        WaitFail10, Fail, output_pool_release
    <3>7. TypeFrames' BY <2>13 DEF TypeFrames, Delivered, WaitFail10, Fail,
        output_pool_release
    <3>8. CallLocals' BY <2>13 DEF CallLocals, TypeCall, Call, Idle, TwoPools,
        OrNone, WaitFail10, Fail, output_pool_release
    <3>9. CallCounts' BY <2>13 DEF CallCounts, CallLocals, TypeCall, Call,
        TypeSource, Source, Vulkan, Idle, WaitFail10, Fail, output_pool_release
    <3>10. FdsOwned' BY <2>13 DEF FdsOwned, Out, TypeFds, TypeFrames,
        Delivered, TypeCall, Call, CallLocals, OrNone, Idle, WaitFail10, Fail,
        output_pool_release
    <3>11. FdsApart' BY <2>13 DEF FdsApart, Out, FdsOwned, WaitFail10, Fail,
        output_pool_release
    <3>12. QED BY <3>1, <3>2, <3>3, <3>4, <3>5, <3>6, <3>7, <3>8, <3>9, <3>10,
      <3>11
  <2>14. CASE Drained
    <3>1. TypeSource'
      <4>1. vk.frame_count + 1 \in 0..MaxFrames
        BY <2>14 DEF Drained, CallCounts, TypeSource, Vulkan
      <4>2. QED BY <2>14, <4>1 DEF TypeSource, Source, Vulkan, Drained
    <3>2. TypePools' BY <2>14 DEF TypePools, OutKey, Drained, DeviceIdle
    <3>3. TypeCache' BY <2>14 DEF TypeCache, Drained, DeviceIdle
    <3>4. TypeFds' BY <2>14 DEF TypeFds, OrNone, Drained, DeviceIdle
    <3>5. TypeCall' BY <2>14 DEF TypeCall, Call, Idle, OrNone, CallLocals,
        Drained, DeviceIdle
    <3>6. TypeJobs' BY <2>14 DEF TypeJobs, TypeCall, Call, CallLocals, OrNone,
        Drained, DeviceIdle
    <3>7. TypeFrames' BY <2>14 DEF TypeFrames, Delivered, Drained, DeviceIdle
    <3>8. CallLocals' BY <2>14 DEF CallLocals, TypeCall, Call, Idle, TwoPools,
        OrNone, Drained, DeviceIdle
    <3>9. CallCounts' BY <2>14 DEF CallCounts, CallLocals, TypeCall, Call,
        TypeSource, Source, Vulkan, Idle, Drained, DeviceIdle
    <3>10. FdsOwned' BY <2>14 DEF FdsOwned, Out, TypeFds, TypeFrames,
        Delivered, TypeCall, Call, CallLocals, OrNone, Idle, Drained,
        DeviceIdle
    <3>11. FdsApart' BY <2>14 DEF FdsApart, Out, FdsOwned, Drained, DeviceIdle
    <3>12. QED BY <3>1, <3>2, <3>3, <3>4, <3>5, <3>6, <3>7, <3>8, <3>9, <3>10,
      <3>11
  <2>15. CASE DrainedFail
    <3>1. TypeSource' BY <2>15 DEF TypeSource, Source, Vulkan, DrainedFail,
        Fail, output_pool_release
    <3>2. TypePools' BY <2>15 DEF TypePools, OutKey, DrainedFail, Fail,
        output_pool_release
    <3>3. TypeCache' BY <2>15 DEF TypeCache, DrainedFail, Fail,
        output_pool_release
    <3>4. TypeFds' BY <2>15 DEF TypeFds, OrNone, DrainedFail, Fail,
        output_pool_release
    <3>5. TypeCall' BY <2>15 DEF TypeCall, Call, Idle, OrNone, CallLocals,
        DrainedFail, Fail, output_pool_release
    <3>6. TypeJobs' BY <2>15 DEF TypeJobs, TypeCall, Call, CallLocals, OrNone,
        DrainedFail, Fail, output_pool_release
    <3>7. TypeFrames' BY <2>15 DEF TypeFrames, Delivered, DrainedFail, Fail,
        output_pool_release
    <3>8. CallLocals' BY <2>15 DEF CallLocals, TypeCall, Call, Idle, TwoPools,
        OrNone, DrainedFail, Fail, output_pool_release
    <3>9. CallCounts' BY <2>15 DEF CallCounts, CallLocals, TypeCall, Call,
        TypeSource, Source, Vulkan, Idle, DrainedFail, Fail,
        output_pool_release
    <3>10. FdsOwned' BY <2>15 DEF FdsOwned, Out, TypeFds, TypeFrames,
        Delivered, TypeCall, Call, CallLocals, OrNone, Idle, DrainedFail, Fail,
        output_pool_release
    <3>11. FdsApart' BY <2>15 DEF FdsApart, Out, FdsOwned, DrainedFail, Fail,
        output_pool_release
    <3>12. QED BY <3>1, <3>2, <3>3, <3>4, <3>5, <3>6, <3>7, <3>8, <3>9, <3>10,
      <3>11
  <2>16. CASE Deliver
    <3>1. TypeSource' BY <2>16 DEF TypeSource, Source, Vulkan, Deliver, Frame
    <3>2. TypePools' BY <2>16 DEF TypePools, OutKey, Deliver, Frame
    <3>3. TypeCache' BY <2>16 DEF TypeCache, Deliver, Frame
    <3>4. TypeFds' BY <2>16 DEF TypeFds, OrNone, Deliver, Frame
    <3>5. TypeCall' BY <2>16 DEF TypeCall, Call, Idle, OrNone, CallLocals,
        Deliver, Frame
    <3>6. TypeJobs' BY <2>16 DEF TypeJobs, TypeCall, Call, CallLocals, OrNone,
        Deliver, Frame
    <3>7. TypeFrames'
      <4>1. /\ call.y \in Entry /\ call.uv \in OrNone(Entry) /\ call.fd \in Fd
            /\ call.obj \in Objs
        BY <2>16 DEF Deliver, CallLocals, TypeCall, Call, OrNone
      <4>2. vk.gen \in 0..MaxEpoch /\ src.size \in OrNone(Size) /\ vk.size \in OrNone(Size)
        BY DEF TypeSource, Source, Vulkan
      <4>3. Frame \in Delivered BY <4>1, <4>2 DEF Frame, Delivered
      <4>4. QED BY <2>16, <4>3 DEF TypeFrames, Deliver
    <3>8. CallLocals' BY <2>16 DEF CallLocals, TypeCall, Call, Idle, TwoPools,
        OrNone, Deliver, Frame
    <3>9. CallCounts' BY <2>16 DEF CallCounts, CallLocals, TypeCall, Call,
        TypeSource, Source, Vulkan, Idle, Deliver, Frame
    <3>10. FdsOwned' BY <2>16 DEF FdsOwned, Out, TypeFds, TypeFrames,
        Delivered, TypeCall, Call, CallLocals, OrNone, Idle, Deliver, Frame
    <3>11. FdsApart' BY <2>16 DEF FdsApart, Out, FdsOwned, Deliver, Frame
    <3>12. QED BY <3>1, <3>2, <3>3, <3>4, <3>5, <3>6, <3>7, <3>8, <3>9, <3>10,
      <3>11
  <2>17. CASE DeliverFail
    <3>1. TypeSource' BY <2>17 DEF TypeSource, Source, Vulkan, DeliverFail,
        Fail, output_pool_release
    <3>2. TypePools' BY <2>17 DEF TypePools, OutKey, DeliverFail, Fail,
        output_pool_release
    <3>3. TypeCache' BY <2>17 DEF TypeCache, DeliverFail, Fail,
        output_pool_release
    <3>4. TypeFds' BY <2>17 DEF TypeFds, OrNone, DeliverFail, Fail,
        output_pool_release
    <3>5. TypeCall' BY <2>17 DEF TypeCall, Call, Idle, OrNone, CallLocals,
        DeliverFail, Fail, output_pool_release
    <3>6. TypeJobs' BY <2>17 DEF TypeJobs, TypeCall, Call, CallLocals, OrNone,
        DeliverFail, Fail, output_pool_release
    <3>7. TypeFrames' BY <2>17 DEF TypeFrames, Delivered, DeliverFail, Fail,
        output_pool_release
    <3>8. CallLocals' BY <2>17 DEF CallLocals, TypeCall, Call, Idle, TwoPools,
        OrNone, DeliverFail, Fail, output_pool_release
    <3>9. CallCounts' BY <2>17 DEF CallCounts, CallLocals, TypeCall, Call,
        TypeSource, Source, Vulkan, Idle, DeliverFail, Fail,
        output_pool_release
    <3>10. FdsOwned' BY <2>17 DEF FdsOwned, Out, TypeFds, TypeFrames,
        Delivered, TypeCall, Call, CallLocals, OrNone, Idle, DeliverFail, Fail,
        output_pool_release
    <3>11. FdsApart' BY <2>17 DEF FdsApart, Out, FdsOwned, DeliverFail, Fail,
        output_pool_release
    <3>12. QED BY <3>1, <3>2, <3>3, <3>4, <3>5, <3>6, <3>7, <3>8, <3>9, <3>10,
      <3>11
  <2>18. CASE GpuDone
    <3>1. TypeSource' BY <2>18 DEF TypeSource, Source, Vulkan, GpuDone
    <3>2. TypePools' BY <2>18 DEF TypePools, OutKey, GpuDone
    <3>3. TypeCache' BY <2>18 DEF TypeCache, GpuDone
    <3>4. TypeFds' BY <2>18 DEF TypeFds, OrNone, GpuDone
    <3>5. TypeCall' BY <2>18 DEF TypeCall, Call, Idle, OrNone, CallLocals,
        GpuDone
    <3>6. TypeJobs' BY <2>18 DEF TypeJobs, TypeCall, Call, CallLocals, OrNone,
        GpuDone
    <3>7. TypeFrames' BY <2>18 DEF TypeFrames, Delivered, GpuDone
    <3>8. CallLocals' BY <2>18 DEF CallLocals, TypeCall, Call, Idle, TwoPools,
        OrNone, GpuDone
    <3>9. CallCounts' BY <2>18 DEF CallCounts, CallLocals, TypeCall, Call,
        TypeSource, Source, Vulkan, Idle, GpuDone
    <3>10. FdsOwned' BY <2>18 DEF FdsOwned, Out, TypeFds, TypeFrames,
        Delivered, TypeCall, Call, CallLocals, OrNone, Idle, GpuDone
    <3>11. FdsApart' BY <2>18 DEF FdsApart, Out, FdsOwned, GpuDone
    <3>12. QED BY <3>1, <3>2, <3>3, <3>4, <3>5, <3>6, <3>7, <3>8, <3>9, <3>10,
      <3>11
  <2>19. ASSUME NEW f \in held, ReleaseOutput(f) PROVE BaseInv'
    <3>1. TypeSource' BY <2>19 DEF TypeSource, Source, Vulkan, ReleaseOutput
    <3>2. TypePools' BY <2>19 DEF TypePools, OutKey, ReleaseOutput
    <3>3. TypeCache' BY <2>19 DEF TypeCache, ReleaseOutput
    <3>4. TypeFds' BY <2>19 DEF TypeFds, OrNone, ReleaseOutput
    <3>5. TypeCall' BY <2>19 DEF TypeCall, Call, Idle, OrNone, CallLocals,
        ReleaseOutput
    <3>6. TypeJobs' BY <2>19 DEF TypeJobs, TypeCall, Call, CallLocals, OrNone,
        ReleaseOutput
    <3>7. TypeFrames' BY <2>19 DEF TypeFrames, Delivered, ReleaseOutput
    <3>8. CallLocals' BY <2>19 DEF CallLocals, TypeCall, Call, Idle, TwoPools,
        OrNone, ReleaseOutput
    <3>9. CallCounts' BY <2>19 DEF CallCounts, CallLocals, TypeCall, Call,
        TypeSource, Source, Vulkan, Idle, ReleaseOutput
    <3>10. FdsOwned' BY <2>19 DEF FdsOwned, Out, TypeFds, TypeFrames,
        Delivered, TypeCall, Call, CallLocals, OrNone, Idle, ReleaseOutput
    <3>11. FdsApart' BY <2>19 DEF FdsApart, Out, FdsOwned, ReleaseOutput
    <3>12. QED BY <3>1, <3>2, <3>3, <3>4, <3>5, <3>6, <3>7, <3>8, <3>9, <3>10,
      <3>11
  <2>20. ASSUME NEW f \in releasing, ReleaseRest(f) PROVE BaseInv'
    <3>1. TypeSource' BY <2>20 DEF TypeSource, Source, Vulkan, ReleaseRest
    <3>2. TypePools' BY <2>20 DEF TypePools, OutKey, ReleaseRest
    <3>3. TypeCache' BY <2>20 DEF TypeCache, ReleaseRest
    <3>4. TypeFds' BY <2>20 DEF TypeFds, OrNone, ReleaseRest
    <3>5. TypeCall' BY <2>20 DEF TypeCall, Call, Idle, OrNone, CallLocals,
        ReleaseRest
    <3>6. TypeJobs' BY <2>20 DEF TypeJobs, TypeCall, Call, CallLocals, OrNone,
        ReleaseRest
    <3>7. TypeFrames' BY <2>20 DEF TypeFrames, Delivered, ReleaseRest
    <3>8. CallLocals' BY <2>20 DEF CallLocals, TypeCall, Call, Idle, TwoPools,
        OrNone, ReleaseRest
    <3>9. CallCounts' BY <2>20 DEF CallCounts, CallLocals, TypeCall, Call,
        TypeSource, Source, Vulkan, Idle, ReleaseRest
    <3>10. FdsOwned'
      <4>1. /\ f \in Out /\ f.fd \in Fd /\ f.fd # call.fd
            /\ fds' = [fds EXCEPT ![f.fd] = None] /\ Out' = Out \ {f}
            /\ call' = call
        BY <2>20 DEF ReleaseRest, FdsOwned, Out, TypeFrames, Delivered, FdsApart
      <4>2. call.pc # "idle" => call.fd \in Fd BY DEF CallLocals
      <4>3. ASSUME NEW r \in Out' PROVE fds'[r.fd] # None /\ r.fd # call'.fd
        <5>1. r \in Out /\ r # f /\ r.fd \in Fd /\ r.fd # f.fd
          BY <4>1 DEF Out, TypeFrames, Delivered, FdsApart
        <5>2. QED BY <4>1, <5>1 DEF FdsOwned, TypeFds
      <4>4. QED BY <4>1, <4>2, <4>3 DEF FdsOwned, TypeFds
    <3>11. FdsApart' BY <2>20 DEF FdsApart, Out, FdsOwned, ReleaseRest
    <3>12. QED BY <3>1, <3>2, <3>3, <3>4, <3>5, <3>6, <3>7, <3>8, <3>9, <3>10,
      <3>11
  <2>21. ASSUME NEW s \in Size, reconfig_pools(s) PROVE BaseInv'
    <3>1. TypeSource'
      <4>1. src.epoch + 1 \in 0..MaxEpoch /\ vk.gen + 1 \in 0..MaxEpoch
        BY <2>21 DEF reconfig_pools, CallCounts, TypeSource, Source, Vulkan
      <4>2. src' \in Source
        BY <2>21, <4>1 DEF reconfig_pools, NewBuffers, TypeSource, Source, OrNone
      <4>3. vk' \in Vulkan
        <5>1. Recreates \in BOOLEAN /\ s \in OrNone(Size) BY DEF Recreates, OrNone
        <5>2. vk' = [up |-> vk.up, ready |-> Recreates, frame_count |-> 0,
                      gen |-> vk.gen + 1, fence |-> vk.fence, size |-> s, result |-> 0]
          BY <2>21 DEF reconfig_pools, NewPools, TypeSource, Vulkan
        <5>3. QED BY <4>1, <5>1, <5>2 DEF TypeSource, Vulkan
      <4>4. QED BY <2>21, <4>2, <4>3 DEF reconfig_pools, TypeSource
    <3>2. TypePools' BY <2>21 DEF TypePools, OutKey, reconfig_pools,
        NewBuffers, NewPools, EmptyPools, DeviceIdle, Recreates
    <3>3. TypeCache'
      BY <2>21, EmptyIsCache DEF TypeCache, reconfig_pools
    <3>4. TypeFds' BY <2>21 DEF TypeFds, OrNone, reconfig_pools, NewBuffers,
        NewPools, EmptyPools, DeviceIdle, Recreates
    <3>5. TypeCall' BY <2>21 DEF TypeCall, Call, Idle, OrNone, CallLocals,
        reconfig_pools, NewBuffers, NewPools, EmptyPools, DeviceIdle, Recreates
    <3>6. TypeJobs' BY <2>21 DEF TypeJobs, TypeCall, Call, CallLocals, OrNone,
        reconfig_pools, NewBuffers, NewPools, EmptyPools, DeviceIdle, Recreates
    <3>7. TypeFrames' BY <2>21 DEF TypeFrames, Delivered, reconfig_pools,
        NewBuffers, NewPools, EmptyPools, DeviceIdle, Recreates
    <3>8. CallLocals' BY <2>21 DEF CallLocals, TypeCall, Call, Idle, TwoPools,
        OrNone, reconfig_pools, NewBuffers, NewPools, EmptyPools, DeviceIdle,
        Recreates
    <3>9. CallCounts' BY <2>21 DEF CallCounts, CallLocals, TypeCall, Call,
        TypeSource, Source, Vulkan, Idle, reconfig_pools, NewBuffers, NewPools,
        EmptyPools, DeviceIdle, Recreates
    <3>10. FdsOwned' BY <2>21 DEF FdsOwned, Out, TypeFds, TypeFrames,
        Delivered, TypeCall, Call, CallLocals, OrNone, Idle, reconfig_pools,
        NewBuffers, NewPools, EmptyPools, DeviceIdle, Recreates
    <3>11. FdsApart' BY <2>21 DEF FdsApart, Out, FdsOwned, reconfig_pools,
        NewBuffers, NewPools, EmptyPools, DeviceIdle, Recreates
    <3>12. QED BY <3>1, <3>2, <3>3, <3>4, <3>5, <3>6, <3>7, <3>8, <3>9, <3>10,
      <3>11
  <2>22. ASSUME NEW s \in Size, reconfig_pools_failed(s) PROVE BaseInv'
    <3>1. TypeSource'
      <4>1. src.epoch + 1 \in 0..MaxEpoch /\ vk.gen + 1 \in 0..MaxEpoch
        BY <2>22 DEF reconfig_pools_failed, CallCounts, TypeSource, Source, Vulkan
      <4>2. src' \in Source
        BY <2>22, <4>1 DEF reconfig_pools_failed, NewBuffers, TypeSource, Source, OrNone
      <4>3. vk' \in Vulkan
        <5>1. Recreates \in BOOLEAN /\ s \in OrNone(Size) BY DEF Recreates, OrNone
        <5>2. QED
          BY <2>22, <4>1, <5>1 DEF reconfig_pools_failed, NewPools, TypeSource, Vulkan
      <4>4. QED BY <2>22, <4>2, <4>3 DEF reconfig_pools_failed, TypeSource
    <3>2. TypePools' BY <2>22 DEF TypePools, OutKey, reconfig_pools_failed,
        NewBuffers, NewPools, EmptyPools, DeviceIdle, Recreates
    <3>3. TypeCache'
      BY <2>22, EmptyIsCache DEF TypeCache, reconfig_pools_failed
    <3>4. TypeFds' BY <2>22 DEF TypeFds, OrNone, reconfig_pools_failed,
        NewBuffers, NewPools, EmptyPools, DeviceIdle, Recreates
    <3>5. TypeCall' BY <2>22 DEF TypeCall, Call, Idle, OrNone, CallLocals,
        reconfig_pools_failed, NewBuffers, NewPools, EmptyPools, DeviceIdle,
        Recreates
    <3>6. TypeJobs' BY <2>22 DEF TypeJobs, TypeCall, Call, CallLocals, OrNone,
        reconfig_pools_failed, NewBuffers, NewPools, EmptyPools, DeviceIdle,
        Recreates
    <3>7. TypeFrames' BY <2>22 DEF TypeFrames, Delivered,
        reconfig_pools_failed, NewBuffers, NewPools, EmptyPools, DeviceIdle,
        Recreates
    <3>8. CallLocals' BY <2>22 DEF CallLocals, TypeCall, Call, Idle, TwoPools,
        OrNone, reconfig_pools_failed, NewBuffers, NewPools, EmptyPools,
        DeviceIdle, Recreates
    <3>9. CallCounts' BY <2>22 DEF CallCounts, CallLocals, TypeCall, Call,
        TypeSource, Source, Vulkan, Idle, reconfig_pools_failed, NewBuffers,
        NewPools, EmptyPools, DeviceIdle, Recreates
    <3>10. FdsOwned' BY <2>22 DEF FdsOwned, Out, TypeFds, TypeFrames,
        Delivered, TypeCall, Call, CallLocals, OrNone, Idle,
        reconfig_pools_failed, NewBuffers, NewPools, EmptyPools, DeviceIdle,
        Recreates
    <3>11. FdsApart' BY <2>22 DEF FdsApart, Out, FdsOwned,
        reconfig_pools_failed, NewBuffers, NewPools, EmptyPools, DeviceIdle,
        Recreates
    <3>12. QED BY <3>1, <3>2, <3>3, <3>4, <3>5, <3>6, <3>7, <3>8, <3>9, <3>10,
      <3>11
  <2>23. ASSUME NEW s \in Size, Restart(s) PROVE BaseInv'
    <3>1. TypeSource'
      <4>1. src.epoch + 1 \in 0..MaxEpoch
        BY <2>23 DEF Restart, TypeSource, Source
      <4>2. src' \in Source
        BY <2>23, <4>1 DEF Restart, NewBuffers, Source, OrNone
      <4>3. QED BY <2>23, <4>2 DEF Restart, TypeSource
    <3>2. TypePools' BY <2>23 DEF TypePools, OutKey, Restart, NewBuffers
    <3>3. TypeCache' BY <2>23 DEF TypeCache, Restart, NewBuffers
    <3>4. TypeFds' BY <2>23 DEF TypeFds, OrNone, Restart, NewBuffers
    <3>5. TypeCall' BY <2>23 DEF TypeCall, Call, Idle, OrNone, CallLocals,
        Restart, NewBuffers
    <3>6. TypeJobs' BY <2>23 DEF TypeJobs, TypeCall, Call, CallLocals, OrNone,
        Restart, NewBuffers
    <3>7. TypeFrames' BY <2>23 DEF TypeFrames, Delivered, Restart, NewBuffers
    <3>8. CallLocals' BY <2>23 DEF CallLocals, TypeCall, Call, Idle, TwoPools,
        OrNone, Restart, NewBuffers
    <3>9. CallCounts' BY <2>23 DEF CallCounts, CallLocals, TypeCall, Call,
        TypeSource, Source, Vulkan, Idle, Restart, NewBuffers
    <3>10. FdsOwned' BY <2>23 DEF FdsOwned, Out, TypeFds, TypeFrames,
        Delivered, TypeCall, Call, CallLocals, OrNone, Idle, Restart,
        NewBuffers
    <3>11. FdsApart' BY <2>23 DEF FdsApart, Out, FdsOwned, Restart, NewBuffers
    <3>12. QED BY <3>1, <3>2, <3>3, <3>4, <3>5, <3>6, <3>7, <3>8, <3>9, <3>10,
      <3>11
  <2>24. ASSUME NEW s \in Size, vfmcap_vk_init(s) PROVE BaseInv'
    <3>1. TypeSource'
      <4>1. src.epoch + 1 \in 0..MaxEpoch /\ vk.gen + 1 \in 0..MaxEpoch
        BY <2>24 DEF vfmcap_vk_init, CallCounts, TypeSource, Source, Vulkan
      <4>2. src' \in Source
        BY <2>24, <4>1 DEF vfmcap_vk_init, NewBuffers, TypeSource, Source, OrNone
      <4>3. vk' \in Vulkan
        <5>1. Recreates \in BOOLEAN /\ s \in OrNone(Size) BY DEF Recreates, OrNone
        <5>2. vk' = [up |-> TRUE, ready |-> TRUE, frame_count |-> 0,
                      gen |-> vk.gen + 1, fence |-> "signalled", size |-> s, result |-> 0]
          BY <2>24 DEF vfmcap_vk_init, NewPools, TypeSource, Vulkan
        <5>3. QED BY <4>1, <5>1, <5>2 DEF TypeSource, Vulkan
      <4>4. QED BY <2>24, <4>2, <4>3 DEF vfmcap_vk_init, TypeSource
    <3>2. TypePools' BY <2>24 DEF TypePools, OutKey, vfmcap_vk_init,
        NewBuffers, NewPools
    <3>3. TypeCache' BY <2>24 DEF TypeCache, vfmcap_vk_init, NewBuffers,
        NewPools
    <3>4. TypeFds' BY <2>24 DEF TypeFds, OrNone, vfmcap_vk_init, NewBuffers,
        NewPools
    <3>5. TypeCall' BY <2>24 DEF TypeCall, Call, Idle, OrNone, CallLocals,
        vfmcap_vk_init, NewBuffers, NewPools
    <3>6. TypeJobs' BY <2>24 DEF TypeJobs, TypeCall, Call, CallLocals, OrNone,
        vfmcap_vk_init, NewBuffers, NewPools
    <3>7. TypeFrames' BY <2>24 DEF TypeFrames, Delivered, vfmcap_vk_init,
        NewBuffers, NewPools
    <3>8. CallLocals' BY <2>24 DEF CallLocals, TypeCall, Call, Idle, TwoPools,
        OrNone, vfmcap_vk_init, NewBuffers, NewPools
    <3>9. CallCounts' BY <2>24 DEF CallCounts, CallLocals, TypeCall, Call,
        TypeSource, Source, Vulkan, Idle, vfmcap_vk_init, NewBuffers, NewPools
    <3>10. FdsOwned' BY <2>24 DEF FdsOwned, Out, TypeFds, TypeFrames,
        Delivered, TypeCall, Call, CallLocals, OrNone, Idle, vfmcap_vk_init,
        NewBuffers, NewPools
    <3>11. FdsApart' BY <2>24 DEF FdsApart, Out, FdsOwned, vfmcap_vk_init,
        NewBuffers, NewPools
    <3>12. QED BY <3>1, <3>2, <3>3, <3>4, <3>5, <3>6, <3>7, <3>8, <3>9, <3>10,
      <3>11
  <2>25. CASE vfmcap_stop
    <3>1. TypeSource' BY <2>25 DEF TypeSource, Source, Vulkan, vfmcap_stop
    <3>2. TypePools' BY <2>25 DEF TypePools, OutKey, vfmcap_stop
    <3>3. TypeCache' BY <2>25 DEF TypeCache, vfmcap_stop
    <3>4. TypeFds' BY <2>25 DEF TypeFds, OrNone, vfmcap_stop
    <3>5. TypeCall' BY <2>25 DEF TypeCall, Call, Idle, OrNone, CallLocals,
        vfmcap_stop
    <3>6. TypeJobs' BY <2>25 DEF TypeJobs, TypeCall, Call, CallLocals, OrNone,
        vfmcap_stop
    <3>7. TypeFrames' BY <2>25 DEF TypeFrames, Delivered, vfmcap_stop
    <3>8. CallLocals' BY <2>25 DEF CallLocals, TypeCall, Call, Idle, TwoPools,
        OrNone, vfmcap_stop
    <3>9. CallCounts' BY <2>25 DEF CallCounts, CallLocals, TypeCall, Call,
        TypeSource, Source, Vulkan, Idle, vfmcap_stop
    <3>10. FdsOwned' BY <2>25 DEF FdsOwned, Out, TypeFds, TypeFrames,
        Delivered, TypeCall, Call, CallLocals, OrNone, Idle, vfmcap_stop
    <3>11. FdsApart' BY <2>25 DEF FdsApart, Out, FdsOwned, vfmcap_stop
    <3>12. QED BY <3>1, <3>2, <3>3, <3>4, <3>5, <3>6, <3>7, <3>8, <3>9, <3>10,
      <3>11
  <2>26. CASE vfmcap_close
    <3>1. TypeSource' BY <2>26 DEF TypeSource, Source, Vulkan, vfmcap_close,
        EmptyPools, DeviceIdle
    <3>2. TypePools' BY <2>26 DEF TypePools, OutKey, vfmcap_close, EmptyPools,
        DeviceIdle
    <3>3. TypeCache'
      BY <2>26, EmptyIsCache DEF TypeCache, vfmcap_close
    <3>4. TypeFds' BY <2>26 DEF TypeFds, OrNone, vfmcap_close, EmptyPools,
        DeviceIdle
    <3>5. TypeCall' BY <2>26 DEF TypeCall, Call, Idle, OrNone, CallLocals,
        vfmcap_close, EmptyPools, DeviceIdle
    <3>6. TypeJobs' BY <2>26 DEF TypeJobs, TypeCall, Call, CallLocals, OrNone,
        vfmcap_close, EmptyPools, DeviceIdle
    <3>7. TypeFrames' BY <2>26 DEF TypeFrames, Delivered, vfmcap_close,
        EmptyPools, DeviceIdle
    <3>8. CallLocals' BY <2>26 DEF CallLocals, TypeCall, Call, Idle, TwoPools,
        OrNone, vfmcap_close, EmptyPools, DeviceIdle
    <3>9. CallCounts' BY <2>26 DEF CallCounts, CallLocals, TypeCall, Call,
        TypeSource, Source, Vulkan, Idle, vfmcap_close, EmptyPools, DeviceIdle
    <3>10. FdsOwned' BY <2>26 DEF FdsOwned, Out, TypeFds, TypeFrames,
        Delivered, TypeCall, Call, CallLocals, OrNone, Idle, vfmcap_close,
        EmptyPools, DeviceIdle
    <3>11. FdsApart' BY <2>26 DEF FdsApart, Out, FdsOwned, vfmcap_close,
        EmptyPools, DeviceIdle
    <3>12. QED BY <3>1, <3>2, <3>3, <3>4, <3>5, <3>6, <3>7, <3>8, <3>9, <3>10,
      <3>11
  <2>27. CASE UNCHANGED vars BY <2>27 DEF vars, TypeSource, Source, Vulkan,
      TypePools, OutKey, TypeCache, TypeFds, OrNone, TypeCall, Call, Idle,
      CallLocals, TypeJobs, TypeFrames, Delivered, TwoPools, CallCounts,
      FdsOwned, Out, FdsApart
  <2>28. QED
    BY <2>1, <2>2, <2>3, <2>4, <2>5, <2>6, <2>7, <2>8, <2>9, <2>10, <2>11,
       <2>12, <2>13, <2>14, <2>15, <2>16, <2>17, <2>18, <2>19, <2>20, <2>21,
       <2>22, <2>23, <2>24, <2>25, <2>26, <2>27
    DEF Next, Convert
<1>3. QED BY <1>1, <1>2, PTL DEF Spec

(* Every variable has its type, and a call polls at most MaxPolls times,   *)
(* whatever fails, with every render function and output layout.           *)
THEOREM TypeCorrect == Spec => []TypeOK
<1>1. BaseInv => TypeOK
  <2> SUFFICES ASSUME BaseInv PROVE TypeOK
    OBVIOUS
  <2>1. \A i \in 1..CacheSize : cache.slot[i].obj \in OrNone(Objs)
    BY DEF BaseInv, TypeCache, Cache, Slot
  <2>2. \A f \in Out : f.fd \in Fd /\ f.y \in Entry /\ f.uv \in OrNone(Entry)
    BY DEF BaseInv, TypeFrames, Delivered, Out
  <2>3. cache.count \in 0..CacheSize BY DEF BaseInv, TypeCache, Cache
  <2>4. \A j \in gpu : j.y \in Entry /\ j.uv \in OrNone(Entry)
    BY DEF BaseInv, TypeJobs
  <2>5. /\ call.pc \in {"idle", "pool", "import", "record", "wait", "drain", "got"}
        /\ call.polls \in 0..MaxPolls
    BY DEF BaseInv, TypeCall, Call
  <2>6. QED
    BY <2>1, <2>2, <2>3, <2>4, <2>5
    DEF BaseInv, TypeOK, TypeSource, Source, Vulkan, TypePools, OutKey, TypeFds
<1>2. QED BY <1>1, BaseInvariant, PTL

-----------------------------------------------------------------------------
(***************************************************************************)
(* Ownership of the pool entries.  When frames are returned before the     *)
(* pools are replaced, every frame belongs to the present pools and every  *)
(* owner's entry is marked: the conversion's, a frame's until it is        *)
(* released, and one dropped by VK_CHECK for good.  No two owners share.   *)
(***************************************************************************)
FramesCurrent ==
  /\ \A f \in Out : f.pool = vk.gen
  /\ ~vk.up \/ ~src.streaming => Out = {}

CallMarked ==
  /\ call.y # None => y[call.y] /\ <<"y", call.y>> \notin leaked
  /\ call.uv # None => uv[call.uv] /\ <<"uv", call.uv>> \notin leaked

LeakedMarked ==
  /\ \A e \in Entry : <<"y", e>> \in leaked => y[e]
  /\ \A e \in Entry : <<"uv", e>> \in leaked => uv[e]

YOwned ==
  /\ \A f \in held : y[f.y] /\ f.y # call.y /\ <<"y", f.y>> \notin leaked
  /\ \A f, g \in held : f # g => f.y # g.y

UvOwned ==
  /\ \A f \in Out : f.uv # None =>
       uv[f.uv] /\ f.uv # call.uv /\ <<"uv", f.uv>> \notin leaked
  /\ \A f, g \in Out : f # g /\ f.uv # None => f.uv # g.uv

GpuApart ==
  \A f \in held, j \in gpu : j.y # f.y /\ (f.uv # None => j.uv # f.uv)

OwnInv ==
  /\ FramesCurrent /\ CallMarked /\ LeakedMarked /\ YOwned /\ UvOwned
  /\ GpuApart /\ NothingLost

(* Ownership is kept when the application returns its frames before the    *)
(* pools they lie in are replaced.                                         *)
LEMMA OwnInvariant == ASSUME "hoard" \notin Allowed PROVE Spec => []OwnInv
<1>1. Init => OwnInv
  BY DEF Init, OwnInv, FramesCurrent, CallMarked, LeakedMarked, YOwned, UvOwned,
         GpuApart, NothingLost, Owners, Out, Idle
<1>2. BaseInv /\ OwnInv /\ [Next]_vars => OwnInv'
  <2> SUFFICES ASSUME BaseInv, OwnInv, [Next]_vars PROVE OwnInv'
    OBVIOUS
  <2> USE DEF BaseInv, OwnInv
  <2>1. ASSUME NEW b \in Buf, NEW f \in Fd, GetDmabuf(b, f) PROVE OwnInv'
    <3>1. FramesCurrent' BY <2>1 DEF FramesCurrent, Out, GetDmabuf
    <3>2. CallMarked' BY <2>1 DEF CallMarked, TypeCall, Call, CallLocals,
        TypePools, OrNone, Idle, GetDmabuf
    <3>3. LeakedMarked' BY <2>1 DEF LeakedMarked, CallMarked, TypePools,
        GetDmabuf
    <3>4. YOwned' BY <2>1 DEF YOwned, TypeFrames, Delivered, TypePools,
        CallMarked, Idle, GetDmabuf
    <3>5. UvOwned' BY <2>1 DEF UvOwned, Out, TypeFrames, Delivered, TypePools,
        CallMarked, Idle, GetDmabuf
    <3>6. GpuApart' BY <2>1 DEF GpuApart, YOwned, UvOwned, Out, CallCounts,
        GetDmabuf
    <3>7. NothingLost' BY <2>1 DEF NothingLost, Owners, Out, FramesCurrent,
        TypePools, CallLocals, TypeFds, Idle, GetDmabuf
    <3>8. QED BY <3>1, <3>2, <3>3, <3>4, <3>5, <3>6, <3>7
  <2>2. CASE output_pool_acquire
    <3>1. PICK e \in Free(y) :
            /\ y' = [y EXCEPT ![e] = TRUE] /\ call'.y = e
            /\ \/ uv' = uv /\ call'.uv = None
               \/ \E u \in Free(uv) : uv' = [uv EXCEPT ![u] = TRUE] /\ call'.uv = u
      <4>1. call \in Call /\ call.uv = None
        BY <2>2 DEF output_pool_acquire, TypeCall, CallLocals
      <4>2. QED BY <2>2, <4>1 DEF output_pool_acquire, Call
    <3>2. /\ UNCHANGED <<cfg, src, vk, fds, gpu, held, releasing, leaked>>
          /\ call.y = None /\ call.uv = None /\ call.pc # "idle"
          /\ call'.fd = call.fd /\ e \in Entry /\ ~y[e]
      <4>1. call \in Call /\ call.pc = "pool"
        BY <2>2 DEF output_pool_acquire, TypeCall
      <4>2. call.y = None /\ call.uv = None BY <4>1 DEF CallLocals
      <4>3. call'.fd = call.fd BY <2>2, <4>1 DEF output_pool_acquire, Call
      <4>4. QED BY <2>2, <4>1, <4>2, <4>3 DEF output_pool_acquire, Free
    <3>3. FramesCurrent' BY <3>2 DEF FramesCurrent, Out
    <3>4. PICK u \in OrNone(Entry) : /\ call'.uv = u
                                     /\ u # None => ~uv[u]
                                     /\ u = None => uv' = uv
                                     /\ u # None => uv' = [uv EXCEPT ![u] = TRUE]
      BY <3>1 DEF Free, OrNone
    <3>5. CallMarked'
      <4>1. y'[e] /\ <<"y", e>> \notin leaked BY <3>1, <3>2 DEF TypePools, LeakedMarked
      <4>2. ASSUME u # None PROVE uv'[u] /\ <<"uv", u>> \notin leaked
        <5>1. u \in Entry BY <4>2 DEF OrNone
        <5>2. QED BY <3>4, <4>2, <5>1 DEF TypePools, LeakedMarked
      <4>3. QED BY <3>1, <3>2, <3>4, <4>1, <4>2 DEF CallMarked
    <3>6. \A x \in Entry : (y[x] => y'[x]) /\ (uv[x] => uv'[x])
      BY <3>1, <3>2, <3>4 DEF TypePools, OrNone
    <3>7. LeakedMarked' BY <3>2, <3>6 DEF LeakedMarked
    <3>8. YOwned'
      <4>1. ASSUME NEW f \in held PROVE f.y \in Entry /\ y[f.y] /\ f.y # e
        BY <3>2 DEF YOwned, TypeFrames, Delivered
      <4>2. QED BY <3>1, <3>2, <3>6, <4>1 DEF YOwned
    <3>9. UvOwned'
      <4>1. ASSUME NEW f \in Out, f.uv # None
            PROVE  f.uv \in Entry /\ uv[f.uv] /\ f.uv # u
        <5>1. f.uv \in Entry BY <4>1 DEF Out, TypeFrames, Delivered, OrNone
        <5>2. uv[f.uv] BY <4>1 DEF UvOwned
        <5>3. QED BY <3>4, <4>1, <5>1, <5>2
      <4>2. Out' = Out BY <3>2 DEF Out
      <4>3. QED BY <3>2, <3>4, <3>6, <4>1, <4>2 DEF UvOwned
    <3>10. GpuApart' BY <3>2 DEF GpuApart
    <3>11. NothingLost'
      <4>1. Owners' = Owners /\ Out' = Out BY <3>2 DEF Owners, Out
      <4>2. \A x \in Entry : y'[x] => y[x] \/ x = call'.y
        BY <3>1, <3>2 DEF TypePools
      <4>3. \A x \in Entry : uv'[x] => uv[x] \/ x = call'.uv
        BY <3>4 DEF TypePools, OrNone
      <4>4. \A x \in Entry : x # call.y /\ x # call.uv BY <3>2
      <4>5. \A x \in Entry : y'[x] =>
              \/ x = call'.y \/ <<"y", x>> \in leaked'
              \/ \E f \in Owners' : f.y = x
        BY <3>2, <4>1, <4>2, <4>4 DEF NothingLost
      <4>6. \A x \in Entry : uv'[x] =>
              \/ x = call'.uv \/ <<"uv", x>> \in leaked'
              \/ \E f \in Out' : f.pool = vk'.gen /\ f.uv = x
        BY <3>2, <4>1, <4>3, <4>4 DEF NothingLost
      <4>7. \A d \in Fd : fds'[d] # None =>
              d = call'.fd \/ \E f \in Out' : f.fd = d
        BY <3>2, <4>1 DEF NothingLost
      <4>8. QED BY <4>5, <4>6, <4>7 DEF NothingLost
    <3>12. QED BY <3>3, <3>5, <3>7, <3>8, <3>9, <3>10, <3>11
  <2>3. CASE PoolPoll
    <3>1. FramesCurrent' BY <2>3 DEF FramesCurrent, Out, PoolPoll
    <3>2. CallMarked' BY <2>3 DEF CallMarked, TypeCall, Call, CallLocals,
        TypePools, OrNone, Idle, PoolPoll
    <3>3. LeakedMarked' BY <2>3 DEF LeakedMarked, CallMarked, TypePools,
        PoolPoll
    <3>4. YOwned' BY <2>3 DEF YOwned, TypeFrames, Delivered, TypePools,
        CallMarked, Idle, PoolPoll
    <3>5. UvOwned' BY <2>3 DEF UvOwned, Out, TypeFrames, Delivered, TypePools,
        CallMarked, Idle, PoolPoll
    <3>6. GpuApart' BY <2>3 DEF GpuApart, YOwned, UvOwned, Out, CallCounts,
        PoolPoll
    <3>7. NothingLost' BY <2>3 DEF NothingLost, Owners, Out, FramesCurrent,
        TypePools, CallLocals, TypeFds, Idle, PoolPoll
    <3>8. QED BY <3>1, <3>2, <3>3, <3>4, <3>5, <3>6, <3>7
  <2>4. CASE PoolExhausted
    <3>1. FramesCurrent' BY <2>4 DEF FramesCurrent, Out, PoolExhausted, Fail
    <3>2. CallMarked' BY <2>4 DEF CallMarked, TypeCall, Call, CallLocals,
        TypePools, OrNone, Idle, PoolExhausted, Fail
    <3>3. LeakedMarked' BY <2>4 DEF LeakedMarked, CallMarked, TypePools,
        PoolExhausted, Fail
    <3>4. YOwned' BY <2>4 DEF YOwned, TypeFrames, Delivered, TypePools,
        CallMarked, Idle, PoolExhausted, Fail
    <3>5. UvOwned' BY <2>4 DEF UvOwned, Out, TypeFrames, Delivered, TypePools,
        CallMarked, Idle, PoolExhausted, Fail
    <3>6. GpuApart' BY <2>4 DEF GpuApart, YOwned, UvOwned, Out, CallCounts,
        PoolExhausted, Fail
    <3>7. NothingLost' BY <2>4 DEF NothingLost, Owners, Out, FramesCurrent,
        TypePools, CallLocals, TypeFds, Idle, PoolExhausted, Fail
    <3>8. QED BY <3>1, <3>2, <3>3, <3>4, <3>5, <3>6, <3>7
  <2>5. CASE Import
    <3>1. FramesCurrent' BY <2>5 DEF FramesCurrent, Out, Import, AfterImport
    <3>2. CallMarked' BY <2>5 DEF CallMarked, TypeCall, Call, CallLocals,
        TypePools, OrNone, Idle, Import, AfterImport
    <3>3. LeakedMarked' BY <2>5 DEF LeakedMarked, CallMarked, TypePools,
        Import, AfterImport
    <3>4. YOwned' BY <2>5 DEF YOwned, TypeFrames, Delivered, TypePools,
        CallMarked, Idle, Import, AfterImport
    <3>5. UvOwned' BY <2>5 DEF UvOwned, Out, TypeFrames, Delivered, TypePools,
        CallMarked, Idle, Import, AfterImport
    <3>6. GpuApart' BY <2>5 DEF GpuApart, YOwned, UvOwned, Out, CallCounts,
        Import, AfterImport
    <3>7. NothingLost' BY <2>5 DEF NothingLost, Owners, Out, FramesCurrent,
        TypePools, CallLocals, TypeFds, Idle, Import, AfterImport
    <3>8. QED BY <3>1, <3>2, <3>3, <3>4, <3>5, <3>6, <3>7
  <2>6. CASE ImportFail
    <3>1. FramesCurrent' BY <2>6 DEF FramesCurrent, Out, ImportFail, Fail,
        output_pool_release
    <3>2. CallMarked' BY <2>6 DEF CallMarked, TypeCall, Call, CallLocals,
        TypePools, OrNone, Idle, ImportFail, Fail, output_pool_release
    <3>3. LeakedMarked' BY <2>6 DEF LeakedMarked, CallMarked, TypePools,
        ImportFail, Fail, output_pool_release
    <3>4. YOwned' BY <2>6 DEF YOwned, TypeFrames, Delivered, TypePools,
        CallMarked, Idle, ImportFail, Fail, output_pool_release
    <3>5. UvOwned'
      <4>1. /\ uv' = [e \in Entry |-> uv[e] /\ e # call.uv] /\ Out' = Out
            /\ leaked' = leaked /\ call'.uv = None
        BY <2>6 DEF ImportFail, Fail, output_pool_release, Out, Idle
      <4>2. ASSUME NEW r \in Out', r.uv # None
            PROVE  uv'[r.uv] /\ r.uv # call'.uv /\ <<"uv", r.uv>> \notin leaked'
        <5>1. r \in Out /\ r.uv \in Entry
          BY <4>1, <4>2 DEF Out, TypeFrames, Delivered, OrNone
        <5>2. QED BY <4>1, <4>2, <5>1 DEF UvOwned
      <4>3. QED BY <4>1, <4>2 DEF UvOwned
    <3>6. GpuApart' BY <2>6 DEF GpuApart, YOwned, UvOwned, Out, CallCounts,
        ImportFail, Fail, output_pool_release
    <3>7. NothingLost' BY <2>6 DEF NothingLost, Owners, Out, FramesCurrent,
        TypePools, CallLocals, TypeFds, Idle, ImportFail, Fail,
        output_pool_release
    <3>8. QED BY <3>1, <3>2, <3>3, <3>4, <3>5, <3>6, <3>7
  <2>7. CASE Submit
    <3>1. FramesCurrent' BY <2>7 DEF FramesCurrent, Out, Submit, FenceAtSubmit
    <3>2. CallMarked' BY <2>7 DEF CallMarked, TypeCall, Call, CallLocals,
        TypePools, OrNone, Idle, Submit, FenceAtSubmit
    <3>3. LeakedMarked' BY <2>7 DEF LeakedMarked, CallMarked, TypePools,
        Submit, FenceAtSubmit
    <3>4. YOwned' BY <2>7 DEF YOwned, TypeFrames, Delivered, TypePools,
        CallMarked, Idle, Submit, FenceAtSubmit
    <3>5. UvOwned' BY <2>7 DEF UvOwned, Out, TypeFrames, Delivered, TypePools,
        CallMarked, Idle, Submit, FenceAtSubmit
    <3>6. GpuApart'
      <4>1. gpu' = gpu \cup {[y |-> call.y, uv |-> call.uv]} /\ held' = held
        BY <2>7 DEF Submit
      <4>2. ASSUME NEW f \in held PROVE call.y # f.y /\ (f.uv # None => call.uv # f.uv)
        BY DEF YOwned, UvOwned, Out
      <4>3. QED BY <4>1, <4>2 DEF GpuApart
    <3>7. NothingLost' BY <2>7 DEF NothingLost, Owners, Out, FramesCurrent,
        TypePools, CallLocals, TypeFds, Idle, Submit, FenceAtSubmit
    <3>8. QED BY <3>1, <3>2, <3>3, <3>4, <3>5, <3>6, <3>7
  <2>8. CASE SubmitFail
    <3>1. FramesCurrent' BY <2>8 DEF FramesCurrent, Out, SubmitFail, Fail,
        output_pool_release
    <3>2. CallMarked' BY <2>8 DEF CallMarked, TypeCall, Call, CallLocals,
        TypePools, OrNone, Idle, SubmitFail, Fail, output_pool_release
    <3>3. LeakedMarked' BY <2>8 DEF LeakedMarked, CallMarked, TypePools,
        SubmitFail, Fail, output_pool_release
    <3>4. YOwned' BY <2>8 DEF YOwned, TypeFrames, Delivered, TypePools,
        CallMarked, Idle, SubmitFail, Fail, output_pool_release
    <3>5. UvOwned'
      <4>1. /\ uv' = [e \in Entry |-> uv[e] /\ e # call.uv] /\ Out' = Out
            /\ leaked' = leaked /\ call'.uv = None
        BY <2>8 DEF SubmitFail, Fail, output_pool_release, Out, Idle
      <4>2. ASSUME NEW r \in Out', r.uv # None
            PROVE  uv'[r.uv] /\ r.uv # call'.uv /\ <<"uv", r.uv>> \notin leaked'
        <5>1. r \in Out /\ r.uv \in Entry
          BY <4>1, <4>2 DEF Out, TypeFrames, Delivered, OrNone
        <5>2. QED BY <4>1, <4>2, <5>1 DEF UvOwned
      <4>3. QED BY <4>1, <4>2 DEF UvOwned
    <3>6. GpuApart' BY <2>8 DEF GpuApart, YOwned, UvOwned, Out, CallCounts,
        SubmitFail, Fail, output_pool_release
    <3>7. NothingLost' BY <2>8 DEF NothingLost, Owners, Out, FramesCurrent,
        TypePools, CallLocals, TypeFds, Idle, SubmitFail, Fail,
        output_pool_release
    <3>8. QED BY <3>1, <3>2, <3>3, <3>4, <3>5, <3>6, <3>7
  <2>9. CASE RecordFail
    <3>1. FramesCurrent' BY <2>9 DEF FramesCurrent, Out, RecordFail, Fail,
        output_pool_release
    <3>2. CallMarked' BY <2>9 DEF CallMarked, TypeCall, Call, CallLocals,
        TypePools, OrNone, Idle, RecordFail, Fail, output_pool_release
    <3>3. LeakedMarked' BY <2>9 DEF LeakedMarked, CallMarked, TypePools,
        RecordFail, Fail, output_pool_release
    <3>4. YOwned' BY <2>9 DEF YOwned, TypeFrames, Delivered, TypePools,
        CallMarked, Idle, RecordFail, Fail, output_pool_release
    <3>5. UvOwned'
      <4>1. /\ uv' = [e \in Entry |-> uv[e] /\ e # call.uv] /\ Out' = Out
            /\ leaked' = leaked /\ call'.uv = None
        BY <2>9 DEF RecordFail, Fail, output_pool_release, Out, Idle
      <4>2. ASSUME NEW r \in Out', r.uv # None
            PROVE  uv'[r.uv] /\ r.uv # call'.uv /\ <<"uv", r.uv>> \notin leaked'
        <5>1. r \in Out /\ r.uv \in Entry
          BY <4>1, <4>2 DEF Out, TypeFrames, Delivered, OrNone
        <5>2. QED BY <4>1, <4>2, <5>1 DEF UvOwned
      <4>3. QED BY <4>1, <4>2 DEF UvOwned
    <3>6. GpuApart' BY <2>9 DEF GpuApart, YOwned, UvOwned, Out, CallCounts,
        RecordFail, Fail, output_pool_release
    <3>7. NothingLost' BY <2>9 DEF NothingLost, Owners, Out, FramesCurrent,
        TypePools, CallLocals, TypeFds, Idle, RecordFail, Fail,
        output_pool_release
    <3>8. QED BY <3>1, <3>2, <3>3, <3>4, <3>5, <3>6, <3>7
  <2>10. CASE RecordFailVkCheck
    <3>1. FramesCurrent' BY <2>10 DEF FramesCurrent, Out, RecordFailVkCheck,
        Fail
    <3>2. CallMarked' BY <2>10 DEF CallMarked, TypeCall, Call, CallLocals,
        TypePools, OrNone, Idle, RecordFailVkCheck, Fail
    <3>3. LeakedMarked' BY <2>10 DEF LeakedMarked, CallMarked, TypePools,
        RecordFailVkCheck, Fail
    <3>4. YOwned' BY <2>10 DEF YOwned, TypeFrames, Delivered, TypePools,
        CallMarked, Idle, RecordFailVkCheck, Fail
    <3>5. UvOwned' BY <2>10 DEF UvOwned, Out, TypeFrames, Delivered, TypePools,
        CallMarked, Idle, RecordFailVkCheck, Fail
    <3>6. GpuApart' BY <2>10 DEF GpuApart, YOwned, UvOwned, Out, CallCounts,
        RecordFailVkCheck, Fail
    <3>7. NothingLost' BY <2>10 DEF NothingLost, Owners, Out, FramesCurrent,
        TypePools, CallLocals, TypeFds, Idle, RecordFailVkCheck, Fail
    <3>8. QED BY <3>1, <3>2, <3>3, <3>4, <3>5, <3>6, <3>7
  <2>11. CASE WaitFence
    <3>1. FramesCurrent' BY <2>11 DEF FramesCurrent, Out, WaitFence,
        FenceAfterWait
    <3>2. CallMarked' BY <2>11 DEF CallMarked, TypeCall, Call, CallLocals,
        TypePools, OrNone, Idle, WaitFence, FenceAfterWait
    <3>3. LeakedMarked' BY <2>11 DEF LeakedMarked, CallMarked, TypePools,
        WaitFence, FenceAfterWait
    <3>4. YOwned' BY <2>11 DEF YOwned, TypeFrames, Delivered, TypePools,
        CallMarked, Idle, WaitFence, FenceAfterWait
    <3>5. UvOwned' BY <2>11 DEF UvOwned, Out, TypeFrames, Delivered, TypePools,
        CallMarked, Idle, WaitFence, FenceAfterWait
    <3>6. GpuApart' BY <2>11 DEF GpuApart, YOwned, UvOwned, Out, CallCounts,
        WaitFence, FenceAfterWait
    <3>7. NothingLost' BY <2>11 DEF NothingLost, Owners, Out, FramesCurrent,
        TypePools, CallLocals, TypeFds, Idle, WaitFence, FenceAfterWait
    <3>8. QED BY <3>1, <3>2, <3>3, <3>4, <3>5, <3>6, <3>7
  <2>12. CASE WaitFail
    <3>1. FramesCurrent' BY <2>12 DEF FramesCurrent, Out, WaitFail,
        FenceAfterWait
    <3>2. CallMarked' BY <2>12 DEF CallMarked, TypeCall, Call, CallLocals,
        TypePools, OrNone, Idle, WaitFail, FenceAfterWait
    <3>3. LeakedMarked' BY <2>12 DEF LeakedMarked, CallMarked, TypePools,
        WaitFail, FenceAfterWait
    <3>4. YOwned' BY <2>12 DEF YOwned, TypeFrames, Delivered, TypePools,
        CallMarked, Idle, WaitFail, FenceAfterWait
    <3>5. UvOwned' BY <2>12 DEF UvOwned, Out, TypeFrames, Delivered, TypePools,
        CallMarked, Idle, WaitFail, FenceAfterWait
    <3>6. GpuApart' BY <2>12 DEF GpuApart, YOwned, UvOwned, Out, CallCounts,
        WaitFail, FenceAfterWait
    <3>7. NothingLost' BY <2>12 DEF NothingLost, Owners, Out, FramesCurrent,
        TypePools, CallLocals, TypeFds, Idle, WaitFail, FenceAfterWait
    <3>8. QED BY <3>1, <3>2, <3>3, <3>4, <3>5, <3>6, <3>7
  <2>13. CASE WaitFail10
    <3>1. FramesCurrent' BY <2>13 DEF FramesCurrent, Out, WaitFail10, Fail,
        output_pool_release
    <3>2. CallMarked' BY <2>13 DEF CallMarked, TypeCall, Call, CallLocals,
        TypePools, OrNone, Idle, WaitFail10, Fail, output_pool_release
    <3>3. LeakedMarked' BY <2>13 DEF LeakedMarked, CallMarked, TypePools,
        WaitFail10, Fail, output_pool_release
    <3>4. YOwned' BY <2>13 DEF YOwned, TypeFrames, Delivered, TypePools,
        CallMarked, Idle, WaitFail10, Fail, output_pool_release
    <3>5. UvOwned'
      <4>1. /\ uv' = [e \in Entry |-> uv[e] /\ e # call.uv] /\ Out' = Out
            /\ leaked' = leaked /\ call'.uv = None
        BY <2>13 DEF WaitFail10, Fail, output_pool_release, Out, Idle
      <4>2. ASSUME NEW r \in Out', r.uv # None
            PROVE  uv'[r.uv] /\ r.uv # call'.uv /\ <<"uv", r.uv>> \notin leaked'
        <5>1. r \in Out /\ r.uv \in Entry
          BY <4>1, <4>2 DEF Out, TypeFrames, Delivered, OrNone
        <5>2. QED BY <4>1, <4>2, <5>1 DEF UvOwned
      <4>3. QED BY <4>1, <4>2 DEF UvOwned
    <3>6. GpuApart' BY <2>13 DEF GpuApart, YOwned, UvOwned, Out, CallCounts,
        WaitFail10, Fail, output_pool_release
    <3>7. NothingLost' BY <2>13 DEF NothingLost, Owners, Out, FramesCurrent,
        TypePools, CallLocals, TypeFds, Idle, WaitFail10, Fail,
        output_pool_release
    <3>8. QED BY <3>1, <3>2, <3>3, <3>4, <3>5, <3>6, <3>7
  <2>14. CASE Drained
    <3>1. FramesCurrent' BY <2>14 DEF FramesCurrent, Out, Drained, DeviceIdle
    <3>2. CallMarked' BY <2>14 DEF CallMarked, TypeCall, Call, CallLocals,
        TypePools, OrNone, Idle, Drained, DeviceIdle
    <3>3. LeakedMarked' BY <2>14 DEF LeakedMarked, CallMarked, TypePools,
        Drained, DeviceIdle
    <3>4. YOwned' BY <2>14 DEF YOwned, TypeFrames, Delivered, TypePools,
        CallMarked, Idle, Drained, DeviceIdle
    <3>5. UvOwned' BY <2>14 DEF UvOwned, Out, TypeFrames, Delivered, TypePools,
        CallMarked, Idle, Drained, DeviceIdle
    <3>6. GpuApart' BY <2>14 DEF GpuApart, YOwned, UvOwned, Out, CallCounts,
        Drained, DeviceIdle
    <3>7. NothingLost' BY <2>14 DEF NothingLost, Owners, Out, FramesCurrent,
        TypePools, CallLocals, TypeFds, Idle, Drained, DeviceIdle
    <3>8. QED BY <3>1, <3>2, <3>3, <3>4, <3>5, <3>6, <3>7
  <2>15. CASE DrainedFail
    <3>1. FramesCurrent' BY <2>15 DEF FramesCurrent, Out, DrainedFail, Fail,
        output_pool_release
    <3>2. CallMarked' BY <2>15 DEF CallMarked, TypeCall, Call, CallLocals,
        TypePools, OrNone, Idle, DrainedFail, Fail, output_pool_release
    <3>3. LeakedMarked' BY <2>15 DEF LeakedMarked, CallMarked, TypePools,
        DrainedFail, Fail, output_pool_release
    <3>4. YOwned' BY <2>15 DEF YOwned, TypeFrames, Delivered, TypePools,
        CallMarked, Idle, DrainedFail, Fail, output_pool_release
    <3>5. UvOwned'
      <4>1. /\ uv' = [e \in Entry |-> uv[e] /\ e # call.uv] /\ Out' = Out
            /\ leaked' = leaked /\ call'.uv = None
        BY <2>15 DEF DrainedFail, Fail, output_pool_release, Out, Idle
      <4>2. ASSUME NEW r \in Out', r.uv # None
            PROVE  uv'[r.uv] /\ r.uv # call'.uv /\ <<"uv", r.uv>> \notin leaked'
        <5>1. r \in Out /\ r.uv \in Entry
          BY <4>1, <4>2 DEF Out, TypeFrames, Delivered, OrNone
        <5>2. QED BY <4>1, <4>2, <5>1 DEF UvOwned
      <4>3. QED BY <4>1, <4>2 DEF UvOwned
    <3>6. GpuApart' BY <2>15 DEF GpuApart, YOwned, UvOwned, Out, CallCounts,
        DrainedFail, Fail, output_pool_release
    <3>7. NothingLost' BY <2>15 DEF NothingLost, Owners, Out, FramesCurrent,
        TypePools, CallLocals, TypeFds, Idle, DrainedFail, Fail,
        output_pool_release
    <3>8. QED BY <3>1, <3>2, <3>3, <3>4, <3>5, <3>6, <3>7
  <2>16. CASE Deliver
    <3>1. /\ held' = held \cup {Frame} /\ Out' = Out \cup {Frame} /\ call' = Idle
          /\ UNCHANGED <<cfg, src, vk, y, uv, fds, gpu, releasing, leaked>>
      BY <2>16 DEF Deliver, Out
    <3>2. /\ Frame.y = call.y /\ Frame.uv = call.uv /\ Frame.fd = call.fd
          /\ Frame.pool = vk.gen
      BY DEF Frame
    <3>3. call.y \in Entry /\ call.uv \in OrNone(Entry) /\ vk.up /\ gpu = {}
      BY <2>16 DEF Deliver, CallLocals, CallCounts, TypeCall, Call, OrNone
    <3>4. Idle.y = None /\ Idle.uv = None /\ Idle.fd = None BY DEF Idle
    <3>5. FramesCurrent'
      <4>1. src.streaming BY <2>16 DEF Deliver, CallLocals
      <4>2. QED BY <3>1, <3>2, <3>3, <4>1 DEF FramesCurrent
    <3>6. CallMarked' BY <3>1, <3>4 DEF CallMarked
    <3>7. LeakedMarked' BY <3>1 DEF LeakedMarked
    <3>8. YOwned'
      <4>1. ASSUME NEW f \in held' PROVE y'[f.y] /\ f.y # None /\ <<"y", f.y>> \notin leaked'
        <5>1. CASE f = Frame BY <3>1, <3>2, <3>3, <5>1 DEF CallMarked
        <5>2. CASE f \in held BY <3>1, <5>2 DEF YOwned, TypeFrames, Delivered
        <5>3. QED BY <3>1, <5>1, <5>2
      <4>2. \A f \in held : f.y # Frame.y BY <3>2 DEF YOwned
      <4>3. QED BY <3>1, <3>4, <4>1, <4>2 DEF YOwned
    <3>9. UvOwned'
      <4>1. ASSUME NEW f \in Out', f.uv # None
            PROVE  uv'[f.uv] /\ <<"uv", f.uv>> \notin leaked'
        <5>1. CASE f = Frame BY <3>1, <3>2, <4>1, <5>1 DEF CallMarked
        <5>2. CASE f \in Out BY <3>1, <4>1, <5>2 DEF UvOwned
        <5>3. QED BY <3>1, <4>1, <5>1, <5>2
      <4>2. \A f \in Out : f.uv # None => f.uv # Frame.uv BY <3>2 DEF UvOwned
      <4>3. QED BY <3>1, <3>4, <4>1, <4>2 DEF UvOwned
    <3>10. GpuApart' BY <3>1, <3>3 DEF GpuApart
    <3>11. NothingLost'
      <4>1. Owners' = Owners \cup {Frame} BY <3>1, <3>2 DEF Owners
      <4>2. QED BY <3>1, <3>2, <4>1 DEF NothingLost
    <3>12. QED BY <3>5, <3>6, <3>7, <3>8, <3>9, <3>10, <3>11
  <2>17. CASE DeliverFail
    <3>1. FramesCurrent' BY <2>17 DEF FramesCurrent, Out, DeliverFail, Fail,
        output_pool_release
    <3>2. CallMarked' BY <2>17 DEF CallMarked, TypeCall, Call, CallLocals,
        TypePools, OrNone, Idle, DeliverFail, Fail, output_pool_release
    <3>3. LeakedMarked' BY <2>17 DEF LeakedMarked, CallMarked, TypePools,
        DeliverFail, Fail, output_pool_release
    <3>4. YOwned' BY <2>17 DEF YOwned, TypeFrames, Delivered, TypePools,
        CallMarked, Idle, DeliverFail, Fail, output_pool_release
    <3>5. UvOwned'
      <4>1. /\ uv' = [e \in Entry |-> uv[e] /\ e # call.uv] /\ Out' = Out
            /\ leaked' = leaked /\ call'.uv = None
        BY <2>17 DEF DeliverFail, Fail, output_pool_release, Out, Idle
      <4>2. ASSUME NEW r \in Out', r.uv # None
            PROVE  uv'[r.uv] /\ r.uv # call'.uv /\ <<"uv", r.uv>> \notin leaked'
        <5>1. r \in Out /\ r.uv \in Entry
          BY <4>1, <4>2 DEF Out, TypeFrames, Delivered, OrNone
        <5>2. QED BY <4>1, <4>2, <5>1 DEF UvOwned
      <4>3. QED BY <4>1, <4>2 DEF UvOwned
    <3>6. GpuApart' BY <2>17 DEF GpuApart, YOwned, UvOwned, Out, CallCounts,
        DeliverFail, Fail, output_pool_release
    <3>7. NothingLost' BY <2>17 DEF NothingLost, Owners, Out, FramesCurrent,
        TypePools, CallLocals, TypeFds, Idle, DeliverFail, Fail,
        output_pool_release
    <3>8. QED BY <3>1, <3>2, <3>3, <3>4, <3>5, <3>6, <3>7
  <2>18. CASE GpuDone
    <3>1. FramesCurrent' BY <2>18 DEF FramesCurrent, Out, GpuDone
    <3>2. CallMarked' BY <2>18 DEF CallMarked, TypeCall, Call, CallLocals,
        TypePools, OrNone, Idle, GpuDone
    <3>3. LeakedMarked' BY <2>18 DEF LeakedMarked, CallMarked, TypePools,
        GpuDone
    <3>4. YOwned' BY <2>18 DEF YOwned, TypeFrames, Delivered, TypePools,
        CallMarked, Idle, GpuDone
    <3>5. UvOwned' BY <2>18 DEF UvOwned, Out, TypeFrames, Delivered, TypePools,
        CallMarked, Idle, GpuDone
    <3>6. GpuApart' BY <2>18 DEF GpuApart, YOwned, UvOwned, Out, CallCounts,
        GpuDone
    <3>7. NothingLost' BY <2>18 DEF NothingLost, Owners, Out, FramesCurrent,
        TypePools, CallLocals, TypeFds, Idle, GpuDone
    <3>8. QED BY <3>1, <3>2, <3>3, <3>4, <3>5, <3>6, <3>7
  <2>19. ASSUME NEW f \in held, ReleaseOutput(f) PROVE OwnInv'
    <3>1. FramesCurrent' BY <2>19 DEF FramesCurrent, Out, ReleaseOutput
    <3>2. CallMarked'
      <4>1. /\ y' = [y EXCEPT ![f.y] = FALSE] /\ f.y # call.y
            /\ UNCHANGED <<uv, call, leaked>>
        BY <2>19 DEF ReleaseOutput, YOwned
      <4>2. call.y # None => call.y \in Entry BY DEF TypeCall, Call, OrNone
      <4>3. QED BY <4>1, <4>2 DEF CallMarked, TypePools
    <3>3. LeakedMarked'
      <4>1. /\ y' = [y EXCEPT ![f.y] = FALSE] /\ <<"y", f.y>> \notin leaked
            /\ UNCHANGED <<uv, leaked>>
        BY <2>19 DEF ReleaseOutput, YOwned
      <4>2. QED BY <4>1 DEF LeakedMarked, TypePools
    <3>4. YOwned' BY <2>19 DEF YOwned, TypeFrames, Delivered, TypePools,
        CallMarked, Idle, ReleaseOutput
    <3>5. UvOwned' BY <2>19 DEF UvOwned, Out, TypeFrames, Delivered, TypePools,
        CallMarked, Idle, ReleaseOutput
    <3>6. GpuApart' BY <2>19 DEF GpuApart, YOwned, UvOwned, Out, CallCounts,
        ReleaseOutput
    <3>7. NothingLost' BY <2>19 DEF NothingLost, Owners, Out, FramesCurrent,
        TypePools, CallLocals, TypeFds, Idle, ReleaseOutput
    <3>8. QED BY <3>1, <3>2, <3>3, <3>4, <3>5, <3>6, <3>7
  <2>20. ASSUME NEW f \in releasing, ReleaseRest(f) PROVE OwnInv'
    <3>1. FramesCurrent' BY <2>20 DEF FramesCurrent, Out, ReleaseRest
    <3>2. CallMarked'
      <4>1. /\ uv' = [e \in Entry |-> uv[e] /\ e # f.uv]
            /\ UNCHANGED <<y, call, leaked>>
        BY <2>20 DEF ReleaseRest
      <4>2. f.uv # None => f.uv # call.uv BY DEF UvOwned, Out
      <4>3. call.uv # None => call.uv \in Entry BY DEF TypeCall, Call, OrNone
      <4>4. QED BY <4>1, <4>2, <4>3 DEF CallMarked
    <3>3. LeakedMarked'
      <4>1. /\ uv' = [e \in Entry |-> uv[e] /\ e # f.uv]
            /\ UNCHANGED <<y, leaked>>
        BY <2>20 DEF ReleaseRest
      <4>2. f.uv # None => <<"uv", f.uv>> \notin leaked BY DEF UvOwned, Out
      <4>3. QED BY <4>1, <4>2 DEF LeakedMarked
    <3>4. YOwned' BY <2>20 DEF YOwned, TypeFrames, Delivered, TypePools,
        CallMarked, Idle, ReleaseRest
    <3>5. UvOwned'
      <4>1. /\ uv' = [e \in Entry |-> uv[e] /\ e # f.uv] /\ Out' = Out \ {f}
            /\ UNCHANGED <<call, leaked>>
        BY <2>20 DEF ReleaseRest, Out, FdsApart
      <4>2. ASSUME NEW r \in Out', r.uv # None PROVE uv'[r.uv]
        <5>1. r \in Out /\ r # f /\ f \in Out /\ r.uv \in Entry /\ uv[r.uv]
          BY <4>1, <4>2 DEF Out, TypeFrames, Delivered, OrNone, UvOwned
        <5>2. r.uv # f.uv BY <4>2, <5>1 DEF UvOwned
        <5>3. QED BY <4>1, <5>1, <5>2
      <4>3. QED BY <4>1, <4>2 DEF UvOwned
    <3>6. GpuApart' BY <2>20 DEF GpuApart, YOwned, UvOwned, Out, CallCounts,
        ReleaseRest
    <3>7. NothingLost' BY <2>20 DEF NothingLost, Owners, Out, FramesCurrent,
        TypePools, CallLocals, TypeFds, Idle, ReleaseRest
    <3>8. QED BY <3>1, <3>2, <3>3, <3>4, <3>5, <3>6, <3>7
  <2>21. ASSUME NEW s \in Size, reconfig_pools(s) PROVE OwnInv'
    <3>1. FramesCurrent'
      <4>1. Out = {} /\ Out' = {} /\ held' = {}
        BY <2>21 DEF reconfig_pools, Returned, Out
      <4>2. QED BY <4>1 DEF FramesCurrent
    <3>2. CallMarked' BY <2>21 DEF CallMarked, TypeCall, Call, CallLocals,
        TypePools, OrNone, Idle, reconfig_pools, NewBuffers, NewPools,
        EmptyPools, DeviceIdle, Recreates
    <3>3. LeakedMarked' BY <2>21 DEF LeakedMarked, CallMarked, TypePools,
        reconfig_pools, NewBuffers, NewPools, EmptyPools, DeviceIdle, Recreates
    <3>4. YOwned'
      <4>1. Out = {} /\ Out' = {} /\ held' = {}
        BY <2>21 DEF reconfig_pools, Returned, Out
      <4>2. QED BY <4>1 DEF YOwned
    <3>5. UvOwned'
      <4>1. Out = {} /\ Out' = {} /\ held' = {}
        BY <2>21 DEF reconfig_pools, Returned, Out
      <4>2. QED BY <4>1 DEF UvOwned
    <3>6. GpuApart' BY <2>21 DEF GpuApart, YOwned, UvOwned, Out, CallCounts,
        reconfig_pools, NewBuffers, NewPools, EmptyPools, DeviceIdle, Recreates
    <3>7. NothingLost' BY <2>21 DEF NothingLost, Owners, Out, FramesCurrent,
        TypePools, CallLocals, TypeFds, Idle, reconfig_pools, NewBuffers,
        NewPools, EmptyPools, DeviceIdle, Recreates
    <3>8. QED BY <3>1, <3>2, <3>3, <3>4, <3>5, <3>6, <3>7
  <2>22. ASSUME NEW s \in Size, reconfig_pools_failed(s) PROVE OwnInv'
    <3>1. FramesCurrent'
      <4>1. Out = {} /\ Out' = {} /\ held' = {}
        BY <2>22 DEF reconfig_pools_failed, Returned, Out
      <4>2. QED BY <4>1 DEF FramesCurrent
    <3>2. CallMarked' BY <2>22 DEF CallMarked, TypeCall, Call, CallLocals,
        TypePools, OrNone, Idle, reconfig_pools_failed, NewBuffers, NewPools,
        EmptyPools, DeviceIdle, Recreates
    <3>3. LeakedMarked' BY <2>22 DEF LeakedMarked, CallMarked, TypePools,
        reconfig_pools_failed, NewBuffers, NewPools, EmptyPools, DeviceIdle,
        Recreates
    <3>4. YOwned'
      <4>1. Out = {} /\ Out' = {} /\ held' = {}
        BY <2>22 DEF reconfig_pools_failed, Returned, Out
      <4>2. QED BY <4>1 DEF YOwned
    <3>5. UvOwned'
      <4>1. Out = {} /\ Out' = {} /\ held' = {}
        BY <2>22 DEF reconfig_pools_failed, Returned, Out
      <4>2. QED BY <4>1 DEF UvOwned
    <3>6. GpuApart' BY <2>22 DEF GpuApart, YOwned, UvOwned, Out, CallCounts,
        reconfig_pools_failed, NewBuffers, NewPools, EmptyPools, DeviceIdle,
        Recreates
    <3>7. NothingLost' BY <2>22 DEF NothingLost, Owners, Out, FramesCurrent,
        TypePools, CallLocals, TypeFds, Idle, reconfig_pools_failed,
        NewBuffers, NewPools, EmptyPools, DeviceIdle, Recreates
    <3>8. QED BY <3>1, <3>2, <3>3, <3>4, <3>5, <3>6, <3>7
  <2>23. ASSUME NEW s \in Size, Restart(s) PROVE OwnInv'
    <3>1. FramesCurrent' BY <2>23 DEF FramesCurrent, Out, Restart, NewBuffers
    <3>2. CallMarked' BY <2>23 DEF CallMarked, TypeCall, Call, CallLocals,
        TypePools, OrNone, Idle, Restart, NewBuffers
    <3>3. LeakedMarked' BY <2>23 DEF LeakedMarked, CallMarked, TypePools,
        Restart, NewBuffers
    <3>4. YOwned' BY <2>23 DEF YOwned, TypeFrames, Delivered, TypePools,
        CallMarked, Idle, Restart, NewBuffers
    <3>5. UvOwned' BY <2>23 DEF UvOwned, Out, TypeFrames, Delivered, TypePools,
        CallMarked, Idle, Restart, NewBuffers
    <3>6. GpuApart' BY <2>23 DEF GpuApart, YOwned, UvOwned, Out, CallCounts,
        Restart, NewBuffers
    <3>7. NothingLost' BY <2>23 DEF NothingLost, Owners, Out, FramesCurrent,
        TypePools, CallLocals, TypeFds, Idle, Restart, NewBuffers
    <3>8. QED BY <3>1, <3>2, <3>3, <3>4, <3>5, <3>6, <3>7
  <2>24. ASSUME NEW s \in Size, vfmcap_vk_init(s) PROVE OwnInv'
    <3>1. FramesCurrent' BY <2>24 DEF FramesCurrent, Out, vfmcap_vk_init,
        NewBuffers, NewPools
    <3>2. CallMarked' BY <2>24 DEF CallMarked, TypeCall, Call, CallLocals,
        TypePools, OrNone, Idle, vfmcap_vk_init, NewBuffers, NewPools
    <3>3. LeakedMarked' BY <2>24 DEF LeakedMarked, CallMarked, TypePools,
        vfmcap_vk_init, NewBuffers, NewPools
    <3>4. YOwned' BY <2>24 DEF YOwned, TypeFrames, Delivered, TypePools,
        CallMarked, Idle, vfmcap_vk_init, NewBuffers, NewPools
    <3>5. UvOwned' BY <2>24 DEF UvOwned, Out, TypeFrames, Delivered, TypePools,
        CallMarked, Idle, vfmcap_vk_init, NewBuffers, NewPools
    <3>6. GpuApart' BY <2>24 DEF GpuApart, YOwned, UvOwned, Out, CallCounts,
        vfmcap_vk_init, NewBuffers, NewPools
    <3>7. NothingLost' BY <2>24 DEF NothingLost, Owners, Out, FramesCurrent,
        TypePools, CallLocals, TypeFds, Idle, vfmcap_vk_init, NewBuffers,
        NewPools
    <3>8. QED BY <3>1, <3>2, <3>3, <3>4, <3>5, <3>6, <3>7
  <2>25. CASE vfmcap_stop
    <3>1. FramesCurrent'
      <4>1. Out = {} /\ Out' = {} /\ held' = {} BY <2>25 DEF vfmcap_stop, Returned, Out
      <4>2. QED BY <4>1 DEF FramesCurrent
    <3>2. CallMarked' BY <2>25 DEF CallMarked, TypeCall, Call, CallLocals,
        TypePools, OrNone, Idle, vfmcap_stop
    <3>3. LeakedMarked' BY <2>25 DEF LeakedMarked, CallMarked, TypePools,
        vfmcap_stop
    <3>4. YOwned' BY <2>25 DEF YOwned, TypeFrames, Delivered, TypePools,
        CallMarked, Idle, vfmcap_stop
    <3>5. UvOwned' BY <2>25 DEF UvOwned, Out, TypeFrames, Delivered, TypePools,
        CallMarked, Idle, vfmcap_stop
    <3>6. GpuApart' BY <2>25 DEF GpuApart, YOwned, UvOwned, Out, CallCounts,
        vfmcap_stop
    <3>7. NothingLost' BY <2>25 DEF NothingLost, Owners, Out, FramesCurrent,
        TypePools, CallLocals, TypeFds, Idle, vfmcap_stop
    <3>8. QED BY <3>1, <3>2, <3>3, <3>4, <3>5, <3>6, <3>7
  <2>26. CASE vfmcap_close
    <3>1. FramesCurrent'
      <4>1. Out = {} /\ Out' = {} /\ held' = {} BY <2>26 DEF vfmcap_close, Returned, Out
      <4>2. QED BY <4>1 DEF FramesCurrent
    <3>2. CallMarked' BY <2>26 DEF CallMarked, TypeCall, Call, CallLocals,
        TypePools, OrNone, Idle, vfmcap_close, EmptyPools, DeviceIdle
    <3>3. LeakedMarked' BY <2>26 DEF LeakedMarked, CallMarked, TypePools,
        vfmcap_close, EmptyPools, DeviceIdle
    <3>4. YOwned'
      <4>1. Out = {} /\ Out' = {} /\ held' = {} BY <2>26 DEF vfmcap_close, Returned, Out
      <4>2. QED BY <4>1 DEF YOwned
    <3>5. UvOwned'
      <4>1. Out = {} /\ Out' = {} /\ held' = {} BY <2>26 DEF vfmcap_close, Returned, Out
      <4>2. QED BY <4>1 DEF UvOwned
    <3>6. GpuApart' BY <2>26 DEF GpuApart, YOwned, UvOwned, Out, CallCounts,
        vfmcap_close, EmptyPools, DeviceIdle
    <3>7. NothingLost' BY <2>26 DEF NothingLost, Owners, Out, FramesCurrent,
        TypePools, CallLocals, TypeFds, Idle, vfmcap_close, EmptyPools,
        DeviceIdle
    <3>8. QED BY <3>1, <3>2, <3>3, <3>4, <3>5, <3>6, <3>7
  <2>27. CASE UNCHANGED vars BY <2>27 DEF vars, FramesCurrent, Out, CallMarked,
      TypeCall, Call, CallLocals, TypePools, OrNone, Idle, LeakedMarked,
      YOwned, TypeFrames, Delivered, UvOwned, GpuApart, CallCounts,
      NothingLost, Owners, TypeFds
  <2>28. QED
    BY <2>1, <2>2, <2>3, <2>4, <2>5, <2>6, <2>7, <2>8, <2>9, <2>10, <2>11,
       <2>12, <2>13, <2>14, <2>15, <2>16, <2>17, <2>18, <2>19, <2>20, <2>21,
       <2>22, <2>23, <2>24, <2>25, <2>26, <2>27
    DEF Next, Convert
<1>3. QED BY <1>1, <1>2, BaseInvariant, PTL DEF Spec

(* A pool entry that the application holds stays marked and is nobody      *)
(* else's: no second frame, no conversion and no job of the GPU has it,    *)
(* for any number of entries, releasing threads and failed waits, if       *)
(* frames are returned before a reconfiguration, a stop or a close.        *)
THEOREM EntriesExclusive ==
  ASSUME "hoard" \notin Allowed PROVE Spec => []PoolExclusive
<1>1. OwnInv => PoolExclusive
  BY DEF OwnInv, YOwned, UvOwned, GpuApart, PoolExclusive, Owners, Out
<1>2. QED BY <1>1, OwnInvariant, PTL

(* No failure path loses a pool entry or a descriptor, but for the early   *)
(* returns of VK_CHECK, which are counted.                                 *)
THEOREM NoEntryLost ==
  ASSUME "hoard" \notin Allowed PROVE Spec => []NothingLost
<1>1. OwnInv => NothingLost BY DEF OwnInv
<1>2. QED BY <1>1, OwnInvariant, PTL

-----------------------------------------------------------------------------
(***************************************************************************)
(* The cache.  Two live DMA-bufs never share an inode, so that a hit by    *)
(* descriptor number and inode is an import of the buffer itself; and the  *)
(* slot of the input is not taken before the conversion ends.              *)
(***************************************************************************)
LiveUnique == \A d, e \in LiveBufs : d.ino = e.ino => d = e

InputCached ==
  call.img # None =>
    /\ call.pc # "idle" /\ call.img = call.obj
    /\ \E i \in 1..CacheSize : /\ cache.slot[i].valid
                               /\ cache.slot[i].fd = call.fd
                               /\ cache.slot[i].obj = call.img

CacheInv == LiveUnique /\ InputCached

PoolsSized == vk.up => src.size = vk.size

(* The inodes of live DMA-bufs stay distinct when nothing new is alive.    *)
LEMMA LiveShrinks ==
  ASSUME LiveUnique, LiveBufs' \subseteq LiveBufs PROVE LiveUnique'
BY DEF LiveUnique

(* Inodes stay distinct and the input stays in the cache, in every         *)
(* configuration that imports the input alone.                             *)
LEMMA CacheInvariant ==
  ASSUME [path |-> "render8", layout |-> "two"] \notin Configs
  PROVE  Spec => []CacheInv
<1>1. Init => CacheInv
  <2>1. Init => LiveBufs = {} BY EmptyIsCache DEF Init, LiveBufs
  <2>2. QED BY <2>1 DEF Init, CacheInv, LiveUnique, InputCached, Idle
<1>2. BaseInv /\ CacheInv /\ [Next]_vars => CacheInv'
  <2> SUFFICES ASSUME BaseInv, CacheInv, [Next]_vars PROVE CacheInv'
    OBVIOUS
  <2> USE DEF BaseInv, CacheInv
  <2>1. ASSUME NEW b \in Buf, NEW f \in Fd, GetDmabuf(b, f) PROVE CacheInv'
    <3>1. LiveUnique'
      <4>1. PICK d \in GET_DMABUF(<<b, src.epoch>>) : fds' = [fds EXCEPT ![f] = d]
        BY <2>1 DEF GetDmabuf
      <4>2. d \in LiveBufs \/ \A e \in LiveBufs : e.ino # d.ino
        <5>1. <<b, src.epoch>> \in Mem
          BY <2>1 DEF GetDmabuf, CallCounts, TypeSource, Source, Mem
        <5>2. QED BY <5>1, Exported
      <4>3. LiveBufs' \subseteq LiveBufs \cup {d}
        <5>1. cache' = cache /\ fds \in [Fd -> OrNone(Objs)]
          BY <2>1 DEF GetDmabuf, TypeFds
        <5>2. \A x \in Fd : fds'[x] = d \/ fds'[x] = fds[x] BY <4>1, <5>1
        <5>3. QED BY <5>1, <5>2 DEF LiveBufs
      <4>4. QED BY <4>2, <4>3 DEF LiveUnique
    <3>2. InputCached' BY <2>1 DEF InputCached, TypeCall, Call, Idle, GetDmabuf
    <3>3. QED BY <3>1, <3>2
  <2>2. CASE output_pool_acquire
    <3>1. LiveUnique'
      <4>1. fds' = fds /\ cache' = cache BY <2>2 DEF output_pool_acquire
      <4>2. QED BY <4>1 DEF LiveUnique, LiveBufs
    <3>2. InputCached'
      <4>1. /\ cache' = cache /\ call'.img = call.img /\ call'.obj = call.obj
            /\ call'.fd = call.fd /\ call'.pc # "idle"
        <5>1. call \in Call BY DEF TypeCall
        <5>2. AfterPool # "idle" BY DEF AfterPool
        <5>3. QED BY <2>2, <5>1, <5>2 DEF output_pool_acquire, Call
      <4>2. QED BY <4>1 DEF InputCached
    <3>3. QED BY <3>1, <3>2
  <2>3. CASE PoolPoll
    <3>1. LiveUnique' BY <2>3 DEF LiveUnique, LiveBufs, PoolPoll
    <3>2. InputCached' BY <2>3 DEF InputCached, TypeCall, Call, Idle, PoolPoll
    <3>3. QED BY <3>1, <3>2
  <2>4. CASE PoolExhausted
    <3>1. LiveUnique' BY <2>4 DEF LiveUnique, LiveBufs, PoolExhausted, Fail
    <3>2. InputCached' BY <2>4 DEF InputCached, TypeCall, Call, Idle,
        PoolExhausted, Fail
    <3>3. QED BY <3>1, <3>2
  <2>5. CASE Import
    <3> DEFINE k == SlotFor(cache, Gets[1])
               s == cache_get(cache, Gets[1]).slot
    <3>1. /\ Len(Gets) = 1 /\ Gets[1] \in Get
          /\ Gets[1].fd = call.fd /\ Gets[1].obj = call.obj
      <4>1. cfg # [path |-> "render8", layout |-> "two"] BY DEF TypeSource
      <4>2. QED BY <2>5, <4>1, GetsType DEF Import
    <3>2. cache \in Cache /\ vk.frame_count \in Nat
      BY DEF TypeCache, TypeSource, Vulkan
    <3>3. CacheAfter(1) = cache_get(cache, Gets[1]) BY DEF CacheAfter
    <3>4. /\ cache' = cache_get(cache, Gets[1]) /\ call'.img = s[k].obj
          /\ call'.obj = call.obj /\ call'.fd = call.fd /\ call'.pc # "idle"
          /\ fds' = fds
      <4>1. call \in Call BY DEF TypeCall
      <4>2. AfterImport # "idle" BY DEF AfterImport
      <4>3. InputImage = s[k].obj BY <3>3 DEF InputImage
      <4>4. QED BY <2>5, <3>1, <3>3, <4>1, <4>2, <4>3 DEF Import, Call
    <3>5. k \in 1..CacheSize BY <3>2, SlotInRange
    <3>6. /\ s[k].valid /\ s[k].fd = call.fd
          /\ \/ s[k].obj = call.obj
             \/ /\ cache.slot[k].valid /\ s[k].obj = cache.slot[k].obj
                /\ s[k].obj.ino = call.obj.ino
          /\ \A i \in 1..CacheSize : i # k => s[i] = cache.slot[i]
      BY <3>1, <3>2, CacheGet
    <3>7. call.obj \in LiveBufs
      <4>1. call.fd \in Fd /\ fds[call.fd] = call.obj /\ call.obj # None
        BY <2>5 DEF Import, CallLocals, FdsOwned
      <4>2. QED BY <4>1 DEF LiveBufs
    <3>8. cache'.slot = s BY <3>4
    <3> HIDE DEF k, s
    <3>9. s[k].obj = call.obj
      <4>1. cache.slot[k].valid => cache.slot[k].obj \in LiveBufs
        BY <3>5 DEF LiveBufs
      <4>2. QED BY <3>6, <3>7, <4>1 DEF LiveUnique
    <3>10. LiveBufs' \subseteq LiveBufs
      <4>1. \A i \in 1..CacheSize :
              s[i].valid => s[i].obj = call.obj \/ (s[i] = cache.slot[i])
        BY <3>6, <3>9
      <4>2. QED BY <3>4, <3>7, <3>8, <4>1 DEF LiveBufs
    <3>11. LiveUnique' BY <3>10, LiveShrinks
    <3>12. InputCached' BY <3>4, <3>5, <3>6, <3>8, <3>9 DEF InputCached
    <3>13. QED BY <3>11, <3>12
  <2>6. CASE ImportFail
    <3>1. LiveUnique'
      <4>1. PICK n \in DOMAIN Gets :
              cache' = cache_get_failed(CacheAfter(n - 1), Gets[n])
        BY <2>6 DEF ImportFail
      <4>2. n = 1
        <5>1. cfg # [path |-> "render8", layout |-> "two"] BY DEF TypeSource
        <5>2. QED BY <2>6, <5>1, GetsType DEF ImportFail
      <4>3. CacheAfter(0) = cache BY DEF CacheAfter
      <4>4. cache' = cache_get_failed(cache, Gets[1]) BY <4>1, <4>2, <4>3
      <4>5. \A i \in 1..CacheSize : cache'.slot[i].valid => cache'.slot[i] = cache.slot[i]
        BY <4>4, CacheGetFailed DEF TypeCache
      <4>6. \A x \in Fd : fds'[x] = None \/ fds'[x] = fds[x]
        BY <2>6 DEF ImportFail, Fail, TypeFds
      <4>7. LiveBufs' \subseteq LiveBufs BY <4>5, <4>6 DEF LiveBufs
      <4>8. QED BY <4>7, LiveShrinks
    <3>2. InputCached' BY <2>6 DEF InputCached, TypeCall, Call, Idle,
        ImportFail, Fail, output_pool_release
    <3>3. QED BY <3>1, <3>2
  <2>7. CASE Submit
    <3>1. LiveUnique' BY <2>7 DEF LiveUnique, LiveBufs, Submit, FenceAtSubmit
    <3>2. InputCached' BY <2>7 DEF InputCached, TypeCall, Call, Idle, Submit,
        FenceAtSubmit
    <3>3. QED BY <3>1, <3>2
  <2>8. CASE SubmitFail
    <3>1. LiveUnique' BY <2>8 DEF LiveUnique, LiveBufs, SubmitFail, Fail,
        output_pool_release
    <3>2. InputCached' BY <2>8 DEF InputCached, TypeCall, Call, Idle,
        SubmitFail, Fail, output_pool_release
    <3>3. QED BY <3>1, <3>2
  <2>9. CASE RecordFail
    <3>1. LiveUnique' BY <2>9 DEF LiveUnique, LiveBufs, RecordFail, Fail,
        output_pool_release
    <3>2. InputCached' BY <2>9 DEF InputCached, TypeCall, Call, Idle,
        RecordFail, Fail, output_pool_release
    <3>3. QED BY <3>1, <3>2
  <2>10. CASE RecordFailVkCheck
    <3>1. LiveUnique' BY <2>10 DEF LiveUnique, LiveBufs, RecordFailVkCheck,
        Fail
    <3>2. InputCached' BY <2>10 DEF InputCached, TypeCall, Call, Idle,
        RecordFailVkCheck, Fail
    <3>3. QED BY <3>1, <3>2
  <2>11. CASE WaitFence
    <3>1. LiveUnique' BY <2>11 DEF LiveUnique, LiveBufs, WaitFence,
        FenceAfterWait
    <3>2. InputCached' BY <2>11 DEF InputCached, TypeCall, Call, Idle,
        WaitFence, FenceAfterWait
    <3>3. QED BY <3>1, <3>2
  <2>12. CASE WaitFail
    <3>1. LiveUnique' BY <2>12 DEF LiveUnique, LiveBufs, WaitFail,
        FenceAfterWait
    <3>2. InputCached' BY <2>12 DEF InputCached, TypeCall, Call, Idle,
        WaitFail, FenceAfterWait
    <3>3. QED BY <3>1, <3>2
  <2>13. CASE WaitFail10
    <3>1. LiveUnique' BY <2>13 DEF LiveUnique, LiveBufs, WaitFail10, Fail,
        output_pool_release
    <3>2. InputCached' BY <2>13 DEF InputCached, TypeCall, Call, Idle,
        WaitFail10, Fail, output_pool_release
    <3>3. QED BY <3>1, <3>2
  <2>14. CASE Drained
    <3>1. LiveUnique' BY <2>14 DEF LiveUnique, LiveBufs, Drained, DeviceIdle
    <3>2. InputCached' BY <2>14 DEF InputCached, TypeCall, Call, Idle, Drained,
        DeviceIdle
    <3>3. QED BY <3>1, <3>2
  <2>15. CASE DrainedFail
    <3>1. LiveUnique' BY <2>15 DEF LiveUnique, LiveBufs, DrainedFail, Fail,
        output_pool_release
    <3>2. InputCached' BY <2>15 DEF InputCached, TypeCall, Call, Idle,
        DrainedFail, Fail, output_pool_release
    <3>3. QED BY <3>1, <3>2
  <2>16. CASE Deliver
    <3>1. LiveUnique' BY <2>16 DEF LiveUnique, LiveBufs, Deliver, Frame
    <3>2. InputCached' BY <2>16 DEF InputCached, TypeCall, Call, Idle, Deliver,
        Frame
    <3>3. QED BY <3>1, <3>2
  <2>17. CASE DeliverFail
    <3>1. LiveUnique' BY <2>17 DEF LiveUnique, LiveBufs, DeliverFail, Fail,
        output_pool_release
    <3>2. InputCached' BY <2>17 DEF InputCached, TypeCall, Call, Idle,
        DeliverFail, Fail, output_pool_release
    <3>3. QED BY <3>1, <3>2
  <2>18. CASE GpuDone
    <3>1. LiveUnique' BY <2>18 DEF LiveUnique, LiveBufs, GpuDone
    <3>2. InputCached' BY <2>18 DEF InputCached, TypeCall, Call, Idle, GpuDone
    <3>3. QED BY <3>1, <3>2
  <2>19. ASSUME NEW f \in held, ReleaseOutput(f) PROVE CacheInv'
    <3>1. LiveUnique' BY <2>19 DEF LiveUnique, LiveBufs, ReleaseOutput
    <3>2. InputCached' BY <2>19 DEF InputCached, TypeCall, Call, Idle,
        ReleaseOutput
    <3>3. QED BY <3>1, <3>2
  <2>20. ASSUME NEW f \in releasing, ReleaseRest(f) PROVE CacheInv'
    <3>1. LiveUnique' BY <2>20 DEF LiveUnique, LiveBufs, ReleaseRest
    <3>2. InputCached' BY <2>20 DEF InputCached, TypeCall, Call, Idle,
        ReleaseRest
    <3>3. QED BY <3>1, <3>2
  <2>21. ASSUME NEW s \in Size, reconfig_pools(s) PROVE CacheInv'
    <3>1. LiveUnique'
      <4>1. fds' = fds /\ cache' = EmptyCache BY <2>21 DEF reconfig_pools
      <4>2. LiveBufs' \subseteq LiveBufs BY <4>1, EmptyIsCache DEF LiveBufs
      <4>3. QED BY <4>2, LiveShrinks
    <3>2. InputCached' BY <2>21 DEF InputCached, TypeCall, Call, Idle,
        reconfig_pools, NewBuffers, NewPools, EmptyPools, DeviceIdle, Recreates
    <3>3. QED BY <3>1, <3>2
  <2>22. ASSUME NEW s \in Size, reconfig_pools_failed(s) PROVE CacheInv'
    <3>1. LiveUnique'
      <4>1. fds' = fds /\ cache' = EmptyCache BY <2>22 DEF reconfig_pools_failed
      <4>2. LiveBufs' \subseteq LiveBufs BY <4>1, EmptyIsCache DEF LiveBufs
      <4>3. QED BY <4>2, LiveShrinks
    <3>2. InputCached' BY <2>22 DEF InputCached, TypeCall, Call, Idle,
        reconfig_pools_failed, NewBuffers, NewPools, EmptyPools, DeviceIdle,
        Recreates
    <3>3. QED BY <3>1, <3>2
  <2>23. ASSUME NEW s \in Size, Restart(s) PROVE CacheInv'
    <3>1. LiveUnique' BY <2>23 DEF LiveUnique, LiveBufs, Restart, NewBuffers
    <3>2. InputCached' BY <2>23 DEF InputCached, TypeCall, Call, Idle, Restart,
        NewBuffers
    <3>3. QED BY <3>1, <3>2
  <2>24. ASSUME NEW s \in Size, vfmcap_vk_init(s) PROVE CacheInv'
    <3>1. LiveUnique' BY <2>24 DEF LiveUnique, LiveBufs, vfmcap_vk_init,
        NewBuffers, NewPools
    <3>2. InputCached' BY <2>24 DEF InputCached, TypeCall, Call, Idle,
        vfmcap_vk_init, NewBuffers, NewPools
    <3>3. QED BY <3>1, <3>2
  <2>25. CASE vfmcap_stop
    <3>1. LiveUnique' BY <2>25 DEF LiveUnique, LiveBufs, vfmcap_stop
    <3>2. InputCached' BY <2>25 DEF InputCached, TypeCall, Call, Idle,
        vfmcap_stop
    <3>3. QED BY <3>1, <3>2
  <2>26. CASE vfmcap_close
    <3>1. LiveUnique'
      <4>1. fds' = fds /\ cache' = EmptyCache BY <2>26 DEF vfmcap_close
      <4>2. LiveBufs' \subseteq LiveBufs BY <4>1, EmptyIsCache DEF LiveBufs
      <4>3. QED BY <4>2, LiveShrinks
    <3>2. InputCached' BY <2>26 DEF InputCached, TypeCall, Call, Idle,
        vfmcap_close, EmptyPools, DeviceIdle
    <3>3. QED BY <3>1, <3>2
  <2>27. CASE UNCHANGED vars BY <2>27 DEF vars, LiveUnique, LiveBufs,
      InputCached, TypeCall, Call, Idle
  <2>28. QED
    BY <2>1, <2>2, <2>3, <2>4, <2>5, <2>6, <2>7, <2>8, <2>9, <2>10, <2>11,
       <2>12, <2>13, <2>14, <2>15, <2>16, <2>17, <2>18, <2>19, <2>20, <2>21,
       <2>22, <2>23, <2>24, <2>25, <2>26, <2>27
    DEF Next, Convert
<1>3. QED BY <1>1, <1>2, BaseInvariant, PTL DEF Spec

(* What a conversion reads is an import of the memory behind the captured  *)
(* descriptor and is in the cache while it is read, although descriptor    *)
(* numbers and inodes are recycled, for any number of descriptors and any  *)
(* size of the cache.  Two output DMA-bufs of 8 bits, which import three   *)
(* images per frame, are left out: there a cache of two evicts the input.  *)
THEOREM ImportsTrue ==
  ASSUME [path |-> "render8", layout |-> "two"] \notin Configs
  PROVE  Spec => []CacheTruth
<1>1. CacheInv => CacheTruth
  BY DEF CacheInv, InputCached, CacheTruth
<1>2. QED BY <1>1, CacheInvariant, PTL

(* While the size does not change over a stop and a start, the pools have  *)
(* the size of the stream, and a frame is as large as it is said to be.    *)
THEOREM SizesTrue ==
  ASSUME "resize" \notin Allowed PROVE Spec => []SizeTruth
<1> DEFINE SizeInv == PoolsSized /\ SizeTruth
<1>1. Init => SizeInv
  BY DEF Init, PoolsSized, SizeTruth
<1>2. BaseInv /\ SizeInv /\ [Next]_vars => SizeInv'
  <2> SUFFICES ASSUME BaseInv, SizeInv, [Next]_vars PROVE SizeInv'
    OBVIOUS
  <2>1. ASSUME NEW b \in Buf, NEW f \in Fd, GetDmabuf(b, f) PROVE SizeInv'
    <3>1. PoolsSized' BY <2>1 DEF PoolsSized, BaseInv, TypeSource, Vulkan,
        Source, GetDmabuf
    <3>2. SizeTruth' BY <2>1 DEF SizeTruth, GetDmabuf
    <3>3. QED BY <3>1, <3>2
  <2>2. CASE output_pool_acquire
    <3>1. PoolsSized' BY <2>2 DEF PoolsSized, BaseInv, TypeSource, Vulkan,
        Source, output_pool_acquire, AfterPool, Free
    <3>2. SizeTruth' BY <2>2 DEF SizeTruth, output_pool_acquire, AfterPool,
        Free
    <3>3. QED BY <3>1, <3>2
  <2>3. CASE PoolPoll
    <3>1. PoolsSized' BY <2>3 DEF PoolsSized, BaseInv, TypeSource, Vulkan,
        Source, PoolPoll
    <3>2. SizeTruth' BY <2>3 DEF SizeTruth, PoolPoll
    <3>3. QED BY <3>1, <3>2
  <2>4. CASE PoolExhausted
    <3>1. PoolsSized' BY <2>4 DEF PoolsSized, BaseInv, TypeSource, Vulkan,
        Source, PoolExhausted, Fail
    <3>2. SizeTruth' BY <2>4 DEF SizeTruth, PoolExhausted, Fail
    <3>3. QED BY <3>1, <3>2
  <2>5. CASE Import
    <3>1. PoolsSized' BY <2>5 DEF PoolsSized, BaseInv, TypeSource, Vulkan,
        Source, Import, AfterImport
    <3>2. SizeTruth' BY <2>5 DEF SizeTruth, Import, AfterImport
    <3>3. QED BY <3>1, <3>2
  <2>6. CASE ImportFail
    <3>1. PoolsSized' BY <2>6 DEF PoolsSized, BaseInv, TypeSource, Vulkan,
        Source, ImportFail, Fail, output_pool_release
    <3>2. SizeTruth' BY <2>6 DEF SizeTruth, ImportFail, Fail,
        output_pool_release
    <3>3. QED BY <3>1, <3>2
  <2>7. CASE Submit
    <3>1. PoolsSized' BY <2>7 DEF PoolsSized, BaseInv, TypeSource, Vulkan,
        Source, Submit, FenceAtSubmit
    <3>2. SizeTruth' BY <2>7 DEF SizeTruth, Submit, FenceAtSubmit
    <3>3. QED BY <3>1, <3>2
  <2>8. CASE SubmitFail
    <3>1. PoolsSized' BY <2>8 DEF PoolsSized, BaseInv, TypeSource, Vulkan,
        Source, SubmitFail, Fail, output_pool_release
    <3>2. SizeTruth' BY <2>8 DEF SizeTruth, SubmitFail, Fail,
        output_pool_release
    <3>3. QED BY <3>1, <3>2
  <2>9. CASE RecordFail
    <3>1. PoolsSized' BY <2>9 DEF PoolsSized, BaseInv, TypeSource, Vulkan,
        Source, RecordFail, Fail, output_pool_release
    <3>2. SizeTruth' BY <2>9 DEF SizeTruth, RecordFail, Fail,
        output_pool_release
    <3>3. QED BY <3>1, <3>2
  <2>10. CASE RecordFailVkCheck
    <3>1. PoolsSized' BY <2>10 DEF PoolsSized, BaseInv, TypeSource, Vulkan,
        Source, RecordFailVkCheck, Fail
    <3>2. SizeTruth' BY <2>10 DEF SizeTruth, RecordFailVkCheck, Fail
    <3>3. QED BY <3>1, <3>2
  <2>11. CASE WaitFence
    <3>1. PoolsSized' BY <2>11 DEF PoolsSized, BaseInv, TypeSource, Vulkan,
        Source, WaitFence, FenceAfterWait
    <3>2. SizeTruth' BY <2>11 DEF SizeTruth, WaitFence, FenceAfterWait
    <3>3. QED BY <3>1, <3>2
  <2>12. CASE WaitFail
    <3>1. PoolsSized' BY <2>12 DEF PoolsSized, BaseInv, TypeSource, Vulkan,
        Source, WaitFail, FenceAfterWait
    <3>2. SizeTruth' BY <2>12 DEF SizeTruth, WaitFail, FenceAfterWait
    <3>3. QED BY <3>1, <3>2
  <2>13. CASE WaitFail10
    <3>1. PoolsSized' BY <2>13 DEF PoolsSized, BaseInv, TypeSource, Vulkan,
        Source, WaitFail10, Fail, output_pool_release
    <3>2. SizeTruth' BY <2>13 DEF SizeTruth, WaitFail10, Fail,
        output_pool_release
    <3>3. QED BY <3>1, <3>2
  <2>14. CASE Drained
    <3>1. PoolsSized' BY <2>14 DEF PoolsSized, BaseInv, TypeSource, Vulkan,
        Source, Drained, DeviceIdle
    <3>2. SizeTruth' BY <2>14 DEF SizeTruth, Drained, DeviceIdle
    <3>3. QED BY <3>1, <3>2
  <2>15. CASE DrainedFail
    <3>1. PoolsSized' BY <2>15 DEF PoolsSized, BaseInv, TypeSource, Vulkan,
        Source, DrainedFail, Fail, output_pool_release
    <3>2. SizeTruth' BY <2>15 DEF SizeTruth, DrainedFail, Fail,
        output_pool_release
    <3>3. QED BY <3>1, <3>2
  <2>16. CASE Deliver
    <3>1. PoolsSized' BY <2>16 DEF PoolsSized, BaseInv, TypeSource, Vulkan,
        Source, Deliver, Frame
    <3>2. SizeTruth'
      <4>1. vk.up BY <2>16 DEF Deliver, BaseInv, CallLocals
      <4>2. Frame.size = src.size /\ Frame.room = vk.size BY DEF Frame
      <4>3. QED BY <2>16, <4>1, <4>2 DEF Deliver, SizeTruth, PoolsSized
    <3>3. QED BY <3>1, <3>2
  <2>17. CASE DeliverFail
    <3>1. PoolsSized' BY <2>17 DEF PoolsSized, BaseInv, TypeSource, Vulkan,
        Source, DeliverFail, Fail, output_pool_release
    <3>2. SizeTruth' BY <2>17 DEF SizeTruth, DeliverFail, Fail,
        output_pool_release
    <3>3. QED BY <3>1, <3>2
  <2>18. CASE GpuDone
    <3>1. PoolsSized' BY <2>18 DEF PoolsSized, BaseInv, TypeSource, Vulkan,
        Source, GpuDone
    <3>2. SizeTruth' BY <2>18 DEF SizeTruth, GpuDone
    <3>3. QED BY <3>1, <3>2
  <2>19. ASSUME NEW f \in held, ReleaseOutput(f) PROVE SizeInv'
    <3>1. PoolsSized' BY <2>19 DEF PoolsSized, BaseInv, TypeSource, Vulkan,
        Source, ReleaseOutput
    <3>2. SizeTruth' BY <2>19 DEF SizeTruth, ReleaseOutput
    <3>3. QED BY <3>1, <3>2
  <2>20. ASSUME NEW f \in releasing, ReleaseRest(f) PROVE SizeInv'
    <3>1. PoolsSized' BY <2>20 DEF PoolsSized, BaseInv, TypeSource, Vulkan,
        Source, ReleaseRest
    <3>2. SizeTruth' BY <2>20 DEF SizeTruth, ReleaseRest
    <3>3. QED BY <3>1, <3>2
  <2>21. ASSUME NEW s \in Size, reconfig_pools(s) PROVE SizeInv'
    <3>1. PoolsSized' BY <2>21 DEF PoolsSized, BaseInv, TypeSource, Vulkan,
        Source, reconfig_pools, NewBuffers, NewPools, EmptyPools, DeviceIdle,
        Recreates
    <3>2. SizeTruth' BY <2>21 DEF SizeTruth, reconfig_pools, NewBuffers,
        NewPools, EmptyPools, DeviceIdle, Recreates
    <3>3. QED BY <3>1, <3>2
  <2>22. ASSUME NEW s \in Size, reconfig_pools_failed(s) PROVE SizeInv'
    <3>1. PoolsSized' BY <2>22 DEF PoolsSized, BaseInv, TypeSource, Vulkan,
        Source, reconfig_pools_failed, NewBuffers, NewPools, EmptyPools,
        DeviceIdle, Recreates
    <3>2. SizeTruth' BY <2>22 DEF SizeTruth, reconfig_pools_failed, NewBuffers,
        NewPools, EmptyPools, DeviceIdle, Recreates
    <3>3. QED BY <3>1, <3>2
  <2>23. ASSUME NEW s \in Size, Restart(s) PROVE SizeInv'
    <3>1. PoolsSized' BY <2>23 DEF PoolsSized, BaseInv, TypeSource, Vulkan,
        Source, Restart, NewBuffers
    <3>2. SizeTruth' BY <2>23 DEF SizeTruth, Restart, NewBuffers
    <3>3. QED BY <3>1, <3>2
  <2>24. ASSUME NEW s \in Size, vfmcap_vk_init(s) PROVE SizeInv'
    <3>1. PoolsSized' BY <2>24 DEF PoolsSized, BaseInv, TypeSource, Vulkan,
        Source, vfmcap_vk_init, NewBuffers, NewPools
    <3>2. SizeTruth' BY <2>24 DEF SizeTruth, vfmcap_vk_init, NewBuffers,
        NewPools
    <3>3. QED BY <3>1, <3>2
  <2>25. CASE vfmcap_stop
    <3>1. PoolsSized' BY <2>25 DEF PoolsSized, BaseInv, TypeSource, Vulkan,
        Source, vfmcap_stop
    <3>2. SizeTruth' BY <2>25 DEF SizeTruth, vfmcap_stop
    <3>3. QED BY <3>1, <3>2
  <2>26. CASE vfmcap_close
    <3>1. PoolsSized' BY <2>26 DEF PoolsSized, BaseInv, TypeSource, Vulkan,
        Source, vfmcap_close, EmptyPools, DeviceIdle
    <3>2. SizeTruth' BY <2>26 DEF SizeTruth, vfmcap_close, EmptyPools,
        DeviceIdle
    <3>3. QED BY <3>1, <3>2
  <2>27. CASE UNCHANGED vars BY <2>27 DEF vars, PoolsSized, BaseInv,
      TypeSource, Vulkan, Source, SizeTruth
  <2>28. QED
    BY <2>1, <2>2, <2>3, <2>4, <2>5, <2>6, <2>7, <2>8, <2>9, <2>10, <2>11,
       <2>12, <2>13, <2>14, <2>15, <2>16, <2>17, <2>18, <2>19, <2>20, <2>21,
       <2>22, <2>23, <2>24, <2>25, <2>26, <2>27
    DEF Next, Convert
<1>3. SizeInv => SizeTruth OBVIOUS
<1>4. QED BY <1>1, <1>2, <1>3, BaseInvariant, PTL DEF Spec

=============================================================================
