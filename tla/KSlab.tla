-------------------------------- MODULE KSlab --------------------------------
(***************************************************************************)
(* The general slab caches of src/mem/kvmm_slab.c (the cache of caches,    *)
(* the cache of off-slab slab structures and any cache made with           *)
(* kvmm_cache_create) and the kmalloc/kfree front end of src/mem/kmalloc.c.*)
(*                                                                         *)
(* The kernel runs on one core and no call here blocks, so each call of a  *)
(* client (kmalloc, kfree) is one atomic step.  Inside it the calls nest:  *)
(* kvmm_cache_alloc may grow its cache, an OFF_SLAB cache allocates the    *)
(* slab structure from the cache of slab structures, and releasing an      *)
(* OFF_SLAB slab frees that structure, which may release a slab of the    *)
(* cache of slab structures.  These are mutually recursive operators over *)
(* the state st = [caches, slabs, ranges, clist, kmc] that return          *)
(* [m |-> next state, v |-> result].                                       *)
(*                                                                         *)
(*  - caches: the cache structures by the address of the object that       *)
(*    holds them in the cache of caches;                                   *)
(*  - slabs: the slabs by the first page of their range;                   *)
(*  - ranges: the used ranges of the kernel virtual space by first page   *)
(*    ([n: pages, slab: the slab bound to it or NoSlab]).  The range       *)
(*    allocator of kvmm.c is taken at its interface: kvmm_new_range is     *)
(*    first fit over the free pages and takes the bottom of the free range *)
(*    it splits, kvmm_del_range makes the pages free again (KVMM.tla       *)
(*    models its list and range-structure cache in detail);                *)
(*  - clist: kslab_cache_list;  kmc: the cache of each kmalloc class.      *)
(*                                                                         *)
(* A slab's free list is built in address order by cache_add_slab and     *)
(* then popped and pushed at its head.  It is kept as the sequence of the *)
(* addresses pushed since (stack) followed by the objects of indices       *)
(* next .. nb_obj_per_slab-1 that were never handed out: the same list,   *)
(* without writing out hundreds of untouched objects.                      *)
(***************************************************************************)
EXTENDS Integers, Sequences, FiniteSets
LOCAL INSTANCE SequencesExt
LOCAL INSTANCE Functions

CONSTANTS
  PageSize,         \* PAGE_SIZE
  KslabSize,        \* sizeof(struct kslab)
  CacheSize,        \* sizeof(struct kslab_cache)
  FreeObjSize,      \* sizeof(struct kslab_free_obj)
  MaxPagesPerSlab,  \* MAX_PAGES_PER_SLAB
  Classes,          \* kmalloc_cache[]: <<[size, pages]>> in table order
  CachesPage,       \* first_slab_of_caches_base, in pages
  PoolLo, PoolTop,  \* the kernel virtual pages handed out by kvmm_new_range
  Sizes,            \* the sizes callers pass to kmalloc
  MaxLive           \* bound on the blocks allocated at once

ASSUME CachesPage < PoolLo /\ PoolLo < PoolTop

NoSlab == -1                   \* range->slab == NULL
NoPage == -1                   \* kvmm_new_range returned NULL
NULL == 0
CachesAddr == CachesPage * PageSize   \* cache_of_struct_kslab_cache

R(m, v) == [m |-> m, v |-> v]

(* The value of e handed to the continuation F: each nested call is       *)
(* evaluated once and its result passed on as a value.                    *)
Then(e, F(_)) == CHOOSE y \in {F(x) : x \in {e}} : TRUE
Pages(a, n) == a .. a + n - 1
AlignSup(v, b) == ((v + b - 1) \div b) * b                      \* ALIGN_SUP

(* Mutant: the slab structure is not taken off the space for objects. *)
InitCacheNoStruct(osize, pages, minfree, on0) ==
  LET asize == AlignSup(IF osize < FreeObjSize THEN FreeObjSize ELSE osize, 4)
      on1   == on0 \/ asize <= KslabSize
      nper  == (pages * PageSize) \div asize
  IN  IF osize <= 0 \/ asize > pages * PageSize \/ pages > MaxPagesPerSlab
        \/ nper < minfree
      THEN R(NULL, -1)
      ELSE R([asize |-> asize, nper |-> nper, pages |-> pages,
              minfree |-> minfree, on |-> on1, nfree |-> 0, slabs |-> << >>], 0)

(***************************************************************************)
(* init_cache: the object size rounded up to hold a free-list link and to  *)
(* 4 bytes, the number of objects a slab holds, and whether the slab       *)
(* structure is kept at the end of the slab (on, the flag ON_SLAB).  v is *)
(* the return code, m the cache structure.                                 *)
(***************************************************************************)
InitCache(osize, pages, minfree, on0) ==
  LET asize == AlignSup(IF osize < FreeObjSize THEN FreeObjSize ELSE osize, 4)
      on1   == on0 \/ asize <= KslabSize
      space == pages * PageSize - (IF on1 THEN KslabSize ELSE 0)
      nper  == space \div asize
      left  == space - nper * asize
  IN  CASE osize <= 0                 -> R(NULL, -1)
        [] asize > pages * PageSize   -> R(NULL, -1)
        [] pages > MaxPagesPerSlab    -> R(NULL, -3)
        [] nper < minfree             -> R(NULL, -1)
        [] OTHER -> R([asize |-> asize, nper |-> nper, pages |-> pages,
                       minfree |-> minfree, on |-> on1 \/ left >= KslabSize,
                       nfree |-> 0, slabs |-> << >>], 0)

(***************************************************************************)
(* The kvmm interface.  RangeAt: lookup_range, the used range holding a    *)
(* byte address.  NewRange: kvmm_new_range, the lowest run of n free       *)
(* pages (the free ranges are kept merged and sorted, so the first one     *)
(* large enough starts the lowest such run).  DelRange: kvmm_del_range.    *)
(***************************************************************************)
UsedPages(st) == UNION {Pages(r, st.ranges[r].n) : r \in DOMAIN st.ranges}

RangeAt(st, a) ==
  LET hit == {r \in DOMAIN st.ranges : a \div PageSize \in Pages(r, st.ranges[r].n)}
  IN  IF hit = {} THEN NoPage ELSE CHOOSE r \in hit : TRUE

(* Mutant: the last page of the pool is counted as free. *)
NewRangePastTop(st, n) ==
  LET fits == {a \in PoolLo .. PoolTop - n + 1 : Pages(a, n) \cap UsedPages(st) = {}}
      a    == CHOOSE x \in fits : \A y \in fits : x <= y
  IN  IF fits = {} THEN R(st, NoPage)
      ELSE R([st EXCEPT !.ranges = st.ranges @@ (a :> [n |-> n, slab |-> NoSlab])], a)

NewRange(st, n) ==
  LET fits == {a \in PoolLo .. PoolTop - n : Pages(a, n) \cap UsedPages(st) = {}}
      a    == CHOOSE x \in fits : \A y \in fits : x <= y
  IN  IF fits = {} THEN R(st, NoPage)
      ELSE R([st EXCEPT !.ranges = st.ranges @@ (a :> [n |-> n, slab |-> NoSlab])], a)

DelRange(st, r) == [st EXCEPT !.ranges = [x \in DOMAIN st.ranges \ {r} |-> st.ranges[x]]]

SetSlab(st, r, s) == [st EXCEPT !.ranges[r].slab = s]                 \* kvmm_set_slab
(***************************************************************************)
(* A slab's objects and its free list (see the head of the module).        *)
(***************************************************************************)
Geo(st, h) == st.caches[st.slabs[h].cache]
ObjAddr(st, h, i) == st.slabs[h].first + i * Geo(st, h).asize
Untouched(st, h) == {ObjAddr(st, h, i) : i \in st.slabs[h].next .. Geo(st, h).nper - 1}
FreeAddrs(st, h) == ToSet(st.slabs[h].stack) \cup Untouched(st, h)
FreeLen(st, h) == Len(st.slabs[h].stack) + Geo(st, h).nper - st.slabs[h].next
IsFull(st, h) == st.slabs[h].stack = << >> /\ st.slabs[h].next = Geo(st, h).nper

(* cache_add_slab: a slab with every object free, at the head of the list. *)
AddSlab(st, c, page, sv) ==
  [st EXCEPT !.slabs = st.slabs @@ (page :> [cache |-> c, nfree |-> st.caches[c].nper,
                                             stack |-> << >>, next |-> 0,
                                             first |-> page * PageSize, sv |-> sv]),
             !.caches[c].nfree = @ + st.caches[c].nper,
             !.caches[c].slabs = << page >> \o @]

(* Mutant: a slab that fills stays at the head of the list. *)
PopHeadNoRotate(st, c) ==
  LET h   == Head(st.caches[c].slabs)
      s   == st.slabs[h]
      obj == IF s.stack # << >> THEN Head(s.stack) ELSE ObjAddr(st, h, s.next)
      s2  == IF s.stack # << >> THEN [s EXCEPT !.stack = Tail(@), !.nfree = @ - 1]
                                ELSE [s EXCEPT !.next = @ + 1, !.nfree = @ - 1]
  IN  R([st EXCEPT !.slabs[h] = s2, !.caches[c].nfree = @ - 1], obj)

(* The object at the head of the free list of the head slab, popped. *)
PopHead(st, c) ==
  LET h   == Head(st.caches[c].slabs)
      s   == st.slabs[h]
      obj == IF s.stack # << >> THEN Head(s.stack) ELSE ObjAddr(st, h, s.next)
      s2  == IF s.stack # << >> THEN [s EXCEPT !.stack = Tail(@), !.nfree = @ - 1]
                                ELSE [s EXCEPT !.next = @ + 1, !.nfree = @ - 1]
      st2 == [st EXCEPT !.slabs[h] = s2, !.caches[c].nfree = @ - 1]
  IN  R(IF IsFull(st2, h)     \* a full slab goes to the tail of the list
        THEN [st2 EXCEPT !.caches[c].slabs = Tail(@) \o << h >>] ELSE st2, obj)

(* Mutant: an address inside an object is taken for the object. *)
FreeObjectAnyOffset(st, a) ==
  LET r   == RangeAt(st, a)
      bad == R(st, [ret |-> -3, empty |-> NoSlab])
  IN  IF r = NoPage \/ st.ranges[r].slab = NoSlab THEN bad
      ELSE
  LET h   == st.ranges[r].slab
      c   == st.slabs[h].cache
      off == a - st.slabs[h].first
      l1  == IF IsFull(st, h) THEN << h >> \o Remove(st.caches[c].slabs, h)
                              ELSE st.caches[c].slabs
      st2 == [st EXCEPT !.slabs[h].stack = << a >> \o @, !.slabs[h].nfree = @ + 1,
                        !.caches[c].nfree = @ + 1, !.caches[c].slabs = l1]
      emp == /\ st2.slabs[h].nfree >= st2.caches[c].nper
             /\ st2.caches[c].nfree - st2.slabs[h].nfree >= st2.caches[c].minfree
  IN  CASE off \div st.caches[c].asize >= st.caches[c].nper -> bad
        [] OTHER -> R(st2, [ret |-> 0, empty |-> IF emp THEN h ELSE NoSlab])

(***************************************************************************)
(* free_object: v.ret is the return code; v.empty the slab to release, or  *)
(* NoSlab.  The address must be in a range bound to a slab, a whole number *)
(* of objects past its first object and below nb_obj_per_slab of them.    *)
(***************************************************************************)
FreeObject(st, a) ==
  LET r   == RangeAt(st, a)
      bad == R(st, [ret |-> -3, empty |-> NoSlab])
  IN  IF r = NoPage \/ st.ranges[r].slab = NoSlab THEN bad
      ELSE
  LET h   == st.ranges[r].slab
      c   == st.slabs[h].cache
      off == a - st.slabs[h].first
      l1  == IF IsFull(st, h) THEN << h >> \o Remove(st.caches[c].slabs, h)
                              ELSE st.caches[c].slabs
      st2 == [st EXCEPT !.slabs[h].stack = << a >> \o @, !.slabs[h].nfree = @ + 1,
                        !.caches[c].nfree = @ + 1, !.caches[c].slabs = l1]
      emp == /\ st2.slabs[h].nfree >= st2.caches[c].nper
             /\ st2.caches[c].nfree - st2.slabs[h].nfree >= st2.caches[c].minfree
  IN  CASE off % st.caches[c].asize # 0 -> bad
        [] off \div st.caches[c].asize >= st.caches[c].nper -> bad
        [] OTHER -> R(st2, [ret |-> 0, empty |-> IF emp THEN h ELSE NoSlab])

RECURSIVE CacheAlloc(_, _), CacheGrow(_, _), CacheFree(_, _), ReleaseSlab(_, _, _)

(***************************************************************************)
(* cache_grow: a range of nb_pages_per_slab pages, then the slab structure *)
(* at the end of the range (ON_SLAB) or from the cache of slab structures; *)
(* if that fails the range is given back.  The range is bound to the slab. *)
(***************************************************************************)
BindSlab(m, c, r, sv) == R(SetSlab(AddSlab(m, c, r, sv), r, r), 0)

CacheGrow(st, c) ==
  LET n == st.caches[c].pages
  IN  Then(NewRange(st, n), LAMBDA r :
        CASE r.v = NoPage        -> R(st, -3)
          [] st.caches[c].on     -> BindSlab(r.m, c, r.v, (r.v + n) * PageSize - KslabSize)
          [] OTHER ->
               Then(CacheAlloc(r.m, st.ks), LAMBDA o :
                 IF o.v = NULL THEN R(DelRange(o.m, r.v), -3)
                 ELSE BindSlab(o.m, c, r.v, o.v)))

(***************************************************************************)
(* kvmm_cache_alloc: grow the cache when the head slab has no free object, *)
(* pop an object and, for a cache that keeps min_free_obj objects free,    *)
(* grow it again when it has just gone one below (undoing the allocation  *)
(* if that fails).                                                         *)
(***************************************************************************)
CacheAlloc(st, c) ==
  LET need == st.caches[c].slabs = << >> \/ IsFull(st, Head(st.caches[c].slabs))
  IN  Then(IF need THEN CacheGrow(st, c) ELSE R(st, 0), LAMBDA g :
        IF g.v # 0 THEN R(g.m, NULL)
        ELSE Then(PopHead(g.m, c), LAMBDA p :
               IF \/ st.caches[c].minfree = 0
                  \/ p.m.caches[c].nfree # st.caches[c].minfree - 1
               THEN p
               ELSE Then(CacheGrow(p.m, c), LAMBDA g2 :
                      IF g2.v # 0 THEN R(CacheFree(g2.m, p.v).m, NULL)
                      ELSE R(g2.m, p.v))))

(* Mutant: the OFF_SLAB slab structure is not given back. *)
ReleaseSlabKeepStruct(st, h, delnow) ==
  LET s   == st.slabs[h]
      c   == s.cache
      st1 == [st EXCEPT !.caches[c].slabs = Remove(@, h), !.caches[c].nfree = @ - s.nfree]
      st3 == [SetSlab(st1, h, NoSlab) EXCEPT !.slabs = [x \in DOMAIN @ \ {h} |-> @[x]]]
  IN  R(IF delnow THEN DelRange(st3, h) ELSE st3, 0)

(***************************************************************************)
(* cache_release_slab: unlink the slab, free its structure when it is      *)
(* OFF_SLAB, unbind its range and delete the range unless told not to.    *)
(***************************************************************************)
ReleaseSlab(st, h, delnow) ==
  LET s   == st.slabs[h]
      c   == s.cache
      st1 == [st EXCEPT !.caches[c].slabs = Remove(@, h), !.caches[c].nfree = @ - s.nfree]
  IN  Then(IF st.caches[c].on THEN st1 ELSE CacheFree(st1, s.sv).m, LAMBDA st2 :
        LET st3 == [SetSlab(st2, h, NoSlab) EXCEPT !.slabs = [x \in DOMAIN @ \ {h} |-> @[x]]]
        IN  R(IF delnow THEN DelRange(st3, h) ELSE st3, 0))

(* kvmm_cache_free: free the object, then release its slab if it emptied. *)
CacheFree(st, a) ==
  Then(FreeObject(st, a), LAMBDA f :
    CASE f.v.ret # 0          -> R(f.m, f.v.ret)
      [] f.v.empty # NoSlab   -> ReleaseSlab(f.m, f.v.empty, TRUE)
      [] OTHER                -> R(f.m, 0))

(***************************************************************************)
(* kvmm_cache_create: the cache structure is an object of the cache of     *)
(* caches, filled in by init_cache (given back if init_cache refuses) and *)
(* appended to kslab_cache_list.  Every caller passes min_free_objs = 0,  *)
(* so no slab is allocated beforehand.                                     *)
(***************************************************************************)
KvmmCacheCreate(st, osize, pages, minfree, on0) ==
  LET ic == InitCache(osize, pages, minfree, on0)
  IN  Then(CacheAlloc(st, CachesAddr), LAMBDA o :
        CASE o.v = NULL           -> o
          [] ic.v # 0             -> R(CacheFree(o.m, o.v).m, NULL)
          [] OTHER -> R([o.m EXCEPT !.caches = @ @@ (o.v :> ic.m),
                                    !.clist = Append(@, o.v)], o.v))

(***************************************************************************)
(* kvmm_cache_setup_prepare, for the caches of this module: the cache of   *)
(* caches gets its first slab on the page after the kernel and allocates   *)
(* its own structure from it (create_cache_of_caches: the structure built  *)
(* on the stack and the one copied into that object are the same record), *)
(* then the cache of off-slab slab structures is created, then the cache   *)
(* of ranges takes a cache structure (its slab and objects are KVMM.tla's).*)
(***************************************************************************)
CreateCacheOfCaches ==
  LET fake == InitCache(CacheSize, 1, 0, TRUE).m
      st0  == [caches |-> (CachesAddr :> fake), slabs |-> [x \in {} |-> 0],
               ranges |-> (CachesPage :> [n |-> 1, slab |-> CachesPage]),
               clist |-> << >>, kmc |-> << >>, ks |-> NULL, rc |-> NULL]
  IN  Then(PopHead(AddSlab(st0, CachesAddr, CachesPage,
                           CachesAddr + PageSize - KslabSize), CachesAddr), LAMBDA p :
        [p.m EXCEPT !.clist = << p.v >>])

SetupPrepare ==
  Then(KvmmCacheCreate(CreateCacheOfCaches, KslabSize, 1, 0, FALSE), LAMBDA k :
    Then(CacheAlloc([k.m EXCEPT !.ks = k.v], CachesAddr), LAMBDA rc :
      [rc.m EXCEPT !.rc = rc.v, !.clist = Append(@, rc.v)]))

(* kmalloc_setup: one cache per class of the table, in order. *)
RECURSIVE KmallocSetupFrom(_, _)
KmallocSetupFrom(st, i) ==
  IF i > Len(Classes) THEN st
  ELSE Then(KvmmCacheCreate(st, Classes[i].size, Classes[i].pages, 0, FALSE), LAMBDA k :
         KmallocSetupFrom([k.m EXCEPT !.kmc = Append(@, k.v)], i + 1))

KmallocSetup(st) == KmallocSetupFrom(st, 1)

(***************************************************************************)
(* kmalloc: the first class large enough, else whole pages from kvmm       *)
(* (kvmm_alloc maps them at once).                                         *)
(***************************************************************************)
Kmalloc(st, size) ==
  LET i == SelectInSeq(Classes, LAMBDA cl : cl.size >= size)
      r == NewRange(st, AlignSup(size, PageSize) \div PageSize)
  IN  CASE i # 0                -> CacheAlloc(st, st.kmc[i])
        [] r.v = NoPage         -> R(st, NULL)
        [] OTHER                -> R(r.m, r.v * PageSize)

(* Mutant: any address of a range frees it. *)
KvmmFreeAnyAddr(st, a) ==
  LET r == RangeAt(st, a)
  IN  CASE r = NoPage                        -> R(st, -1)
        [] st.ranges[r].slab # NoSlab        -> R(st, -4)
        [] OTHER                             -> R(DelRange(st, r), 0)

(* kvmm_free: only the base of a range that no slab holds. *)
KvmmFree(st, a) ==
  LET r == RangeAt(st, a)
  IN  CASE r = NoPage \/ r * PageSize # a   -> R(st, -1)
        [] st.ranges[r].slab # NoSlab        -> R(st, -4)
        [] OTHER                             -> R(DelRange(st, r), 0)

(* kfree: first as a slab object, and if that fails as a kvmm range. *)
Kfree(st, a) ==
  Then(CacheFree(st, a), LAMBDA f : IF f.v = 0 THEN f ELSE KvmmFree(f.m, a))

-----------------------------------------------------------------------------
(***************************************************************************)
(* The callers: kmalloc_setup once at boot, then kmalloc and kfree.  given *)
(* is the history of what kmalloc returned and kfree has not taken back   *)
(* (address -> size asked); kfree is called on those blocks and on two     *)
(* kinds of address that are not blocks: one inside a block, and the first *)
(* address past the objects of a slab when that is still in its range.     *)
(***************************************************************************)
VARIABLES st, given, last
vars == <<st, given, last>>

Ready == st.kmc # << >>

Past(h) == ObjAddr(st, h, Geo(st, h).nper)
BadAddrs == {a + 4 : a \in DOMAIN given}
              \cup {Past(h) : h \in {x \in DOMAIN st.slabs :
                        Past(x) < (x + Geo(st, x).pages) * PageSize}}

Init == /\ st = SetupPrepare
        /\ given = [b \in {} |-> 0]
        /\ last = [op |-> "none"]

KmallocSetupCall ==
  /\ ~Ready
  /\ st' = KmallocSetup(st)
  /\ UNCHANGED <<given, last>>

KmallocCall ==
  /\ Ready
  /\ Cardinality(DOMAIN given) < MaxLive
  /\ \E size \in Sizes : \E r \in {Kmalloc(st, size)} :
       /\ st' = r.m
       /\ given' = IF r.v = NULL THEN given ELSE given @@ (r.v :> size)
       /\ last' = [op |-> "kmalloc", arg |-> size, ret |-> r.v]

KfreeCall ==
  /\ Ready
  /\ \E a \in DOMAIN given \cup BadAddrs : \E r \in {Kfree(st, a)} :
       /\ st' = r.m
       /\ given' = [b \in DOMAIN given \ {a} |-> given[b]]
       /\ last' = [op |-> "kfree", arg |-> a, ret |-> r.v]

Next == KmallocSetupCall \/ KmallocCall \/ KfreeCall

Spec == Init /\ [][Next]_vars
-----------------------------------------------------------------------------
Slots(h) == {ObjAddr(st, h, i) : i \in 0 .. st.slabs[h].next - 1}
Allocated(h) == Slots(h) \ ToSet(st.slabs[h].stack)
SlabsOf(c) == {h \in DOMAIN st.slabs : st.slabs[h].cache = c}
AllocatedIn(c) == UNION {Allocated(h) : h \in SlabsOf(c)}
SumFree(l) == FoldLeft(LAMBDA acc, h : acc + FreeLen(st, h), 0, l)

(* Every structure has its type; every kmalloc class got a cache. *)
TypeOK ==
  /\ st.kmc \in Seq(DOMAIN st.caches)
  /\ DOMAIN st.ranges \subseteq {CachesPage} \cup (PoolLo .. PoolTop - 1)
  /\ UsedPages(st) \subseteq {CachesPage} \cup (PoolLo .. PoolTop - 1)
  /\ \A c \in DOMAIN st.caches : /\ st.caches[c].nfree \in Nat
                                 /\ st.caches[c].slabs \in Seq(DOMAIN st.slabs)
  /\ \A h \in DOMAIN st.slabs : /\ st.slabs[h].cache \in DOMAIN st.caches
                                /\ st.slabs[h].next \in 0 .. Geo(st, h).nper
                                /\ h \in DOMAIN st.ranges
  /\ \A r \in DOMAIN st.ranges : st.ranges[r].slab \in DOMAIN st.slabs \cup {NoSlab}
  /\ given \in [DOMAIN given -> Sizes]

(***************************************************************************)
(* init_cache's arithmetic, on the sizes of the build: in every slab the   *)
(* nb_obj_per_slab objects end before the slab structure when it is kept  *)
(* at the end of the slab (ON_SLAB), and before the end of the range when *)
(* it is not, and there is at least one object.                            *)
(***************************************************************************)
SlabLayoutFits ==
  \A h \in DOMAIN st.slabs :
    LET g == Geo(st, h)
    IN  /\ g.nper >= 1
        /\ ObjAddr(st, h, g.nper)
             <= IF g.on THEN st.slabs[h].sv ELSE (h + g.pages) * PageSize

(***************************************************************************)
(* The bookkeeping of kvmm_cache_alloc, free_object, cache_add_slab and    *)
(* cache_release_slab agrees after any sequence of nested calls: a cache's *)
(* slab list holds exactly its slabs, those with free objects first; its   *)
(* nb_free_obj is the sum of theirs and a slab's nb_free the length of its *)
(* free list, which holds distinct objects it handed out; each slab's      *)
(* range is bound to it; the objects allocated from the cache of slab      *)
(* structures are exactly the structures of the OFF_SLAB slabs, and those  *)
(* allocated from the cache of caches exactly the cache structures.        *)
(***************************************************************************)
SlabsConsistent ==
  /\ \A c \in DOMAIN st.caches :
       LET l == st.caches[c].slabs
       IN  /\ ToSet(l) = SlabsOf(c) /\ IsInjective(l)
           /\ st.caches[c].nfree = SumFree(l)
           /\ \A i, j \in 1 .. Len(l) : i < j /\ IsFull(st, l[i]) => IsFull(st, l[j])
  /\ \A h \in DOMAIN st.slabs :
       /\ st.slabs[h].nfree = FreeLen(st, h)
       /\ IsInjective(st.slabs[h].stack) /\ ToSet(st.slabs[h].stack) \subseteq Slots(h)
       /\ st.ranges[h] = [n |-> Geo(st, h).pages, slab |-> h]
  /\ AllocatedIn(st.ks) = {st.slabs[h].sv : h \in {x \in DOMAIN st.slabs : ~Geo(st, x).on}}
  /\ AllocatedIn(CachesAddr) = DOMAIN st.caches \cup {st.rc}

(***************************************************************************)
(* A block kmalloc returned and kfree has not taken back is still held:    *)
(* an allocated object of a kmalloc cache at least as large as was asked, *)
(* or the base of a kvmm range bound to no slab and large enough.  It is   *)
(* on no free list and in no free page, so nothing can hand it out again. *)
(***************************************************************************)
LiveBlocksHeld ==
  \A b \in DOMAIN given :
    LET r == RangeAt(st, b)
    IN  /\ r # NoPage
        /\ IF st.ranges[r].slab = NoSlab
           THEN b = r * PageSize /\ given[b] <= st.ranges[r].n * PageSize
           ELSE LET h == st.ranges[r].slab
                IN  /\ b \in Allocated(h)
                    /\ st.slabs[h].cache \in ToSet(st.kmc)
                    /\ given[b] <= Geo(st, h).asize

(***************************************************************************)
(* Once every block is freed, every page kmalloc used is back in kvmm: the *)
(* emptied slabs of the kmalloc caches were released, and so were the     *)
(* slabs of the cache of slab structures that held their OFF_SLAB slab    *)
(* structures; only the boot slab of the cache of caches is left.         *)
(***************************************************************************)
NothingHeldWhenIdle ==
  Ready /\ DOMAIN given = {} => DOMAIN st.ranges = {CachesPage}

(***************************************************************************)
(* kmalloc and kfree keep the promise of KAlloc.tla: a block that overlaps *)
(* no live block, kfree of a block succeeds and kfree of anything else     *)
(* fails and changes nothing.                                              *)
(***************************************************************************)
KA == INSTANCE KAlloc WITH blocks <- given
AllocatorRefined == KA!Spec
====
