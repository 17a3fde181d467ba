-------------------------------- MODULE KVMM --------------------------------
(***************************************************************************)
(* The kernel virtual range allocator of src/mem/kvmm.c together with the  *)
(* slab cache that allocates its own range structures (the "cache of       *)
(* ranges" of src/mem/kvmm_slab.c), over the page table of Paging.tla and  *)
(* the frames of PhysMemOps.tla.                                           *)
(*                                                                         *)
(* The kernel runs on one core and none of these calls blocks, so each     *)
(* call a client makes (kvmm_alloc, kvmm_free) is one atomic step.  Inside *)
(* it the code calls itself through the range cache: kvmm_new_range may    *)
(* allocate a range structure, which may grow the cache, which allocates   *)
(* a range for the new slab with kvmm_new_range.  These calls are mutually *)
(* recursive operators over the whole machine state                        *)
(*    st = [pm, pt, tables, rs, free, used, slabs, slist, cfree, err]      *)
(* returning [m |-> next state, v |-> result].                             *)
(*                                                                         *)
(*  - rs: the range structures ever allocated, by object; an object is the *)
(*    pair <<slab page, index>> of its slot in a slab of the range cache.  *)
(*    A structure stays in rs after it is freed: its memory is still      *)
(*    there and the code may still write it.                               *)
(*  - free, used: kvmm_free_range_list and kvmm_used_range_list, as       *)
(*    sequences of objects (the lists are circular: prev of the head is    *)
(*    the tail).                                                           *)
(*  - slabs: the slabs of the range cache by page (the slab structure sits *)
(*    on its own page, ON_SLAB): free count, free-object list (indices,    *)
(*    popped and pushed at the head) and the back-reference to its range.  *)
(*  - slist: the cache's slab list (non-full slabs first), cfree: its      *)
(*    nb_free_obj.                                                         *)
(*  - err: "none", or what went beyond the C semantics (a NULL pointer     *)
(*    dereference, a use of an unlinked list node, recursion past          *)
(*    MaxDepth nested kvmm_new_range calls).                               *)
(*                                                                         *)
(* debug() (its header is not in the repository) is taken as a diagnostic *)
(* that returns: the code after every debug() call handles the failure,    *)
(* so it is written to continue.                                           *)
(***************************************************************************)
EXTENDS Paging, Naturals, Sequences, FiniteSets
LOCAL INSTANCE SequencesExt
LOCAL INSTANCE Functions
LOCAL INSTANCE TLC

CONSTANTS
  KvmmBase,      \* KVMM_BASE in pages
  StackBottom,   \* bootstrap stack, inside the kernel image, in pages
  StackTop,
  ObjPerSlab,    \* nb_obj_per_slab of the range cache (203 in the build)
  MaxDepth       \* bound on nested kvmm_new_range calls

ASSUME /\ 1 <= KvmmBase /\ KvmmBase <= BiosStart
       /\ KernBase <= StackBottom /\ StackBottom < StackTop /\ StackTop <= KernTop
       /\ KernTop + 2 <= VTop /\ ObjPerSlab >= 2

KvmmTop == VTop                     \* KVMM_TOP
MinFree == 2                        \* min_free_obj of the range cache
PagesPerSlab == 1                   \* NB_PAGES_IN_SLAB_OF_RANGES
NoSlab == 0                         \* range->slab == NULL
CachesSlab == -1                    \* the first slab of the cache of caches
NoObj == <<0, 0>>                   \* a NULL range structure
ObjIdx == 1 .. ObjPerSlab
CachesBase == KernTop               \* first_slab_of_caches_base
RangesBase == KernTop + 1           \* first_slab_of_ranges_base

Base(st, o) == st.rs[o].base
End(st, o) == st.rs[o].base + st.rs[o].n

(***************************************************************************)
(* get_closest_preceding_kvmm_range: walk the list while the base is not   *)
(* above vaddr; the answer is the last range walked, as a position in the *)
(* list (0 for NULL).                                                      *)
(***************************************************************************)
ClosestPrecedingAt(L, above) == IF above = 0 THEN Len(L) ELSE above - 1

ClosestPreceding(st, L, v) ==
  ClosestPrecedingAt(L, SelectInSeq(L, LAMBDA o : v < Base(st, o)))

(* insert_range: insert after the closest preceding range, else at the head. *)
InsertRange(st, L, o) == InsertAt(L, ClosestPreceding(st, L, Base(st, o)) + 1, o)

(* Mutant: the first free range is taken whatever its size. *)
FindSuitableFreeRangeAny(st, n) == SelectInSeq(st.free, LAMBDA o : st.rs[o].n > 0)

(* find_suitable_free_range: first fit, as a position (0 for NULL). *)
FindSuitableFreeRange(st, n) == SelectInSeq(st.free, LAMBDA o : st.rs[o].n >= n)

(***************************************************************************)
(* lookup_range: when a frame is mapped at vaddr, the range recorded in    *)
(* that frame's descriptor; otherwise the used range that covers vaddr.    *)
(* The result is a range object or NoRange.                                *)
(***************************************************************************)
LookupRangeAt(st, v, ppage, i) ==
  IF ppage # 0 THEN GetKvmmRange(st.pm, ppage)
  ELSE IF i = 0 THEN NoRange
  ELSE IF v < Base(st, st.used[i]) \/ v >= End(st, st.used[i]) THEN NoRange
  ELSE st.used[i]

LookupRange(st, v) ==
  LookupRangeAt(st, v, VirtualToPhysical(st, v), ClosestPreceding(st, st.used, v))

(* kvmm_resolve_slab: the slab of the range owning vaddr. *)
SlabOf(st, r) == IF r = NoRange THEN NoSlab ELSE st.rs[r].slab

ResolveSlab(st, v) == SlabOf(st, LookupRange(st, v))

(* The slabs the range cache owns, and whether an object is handed out. *)
LiveSlabs(st) == ToSet(st.slist)
Allocated(st, o) == o[1] \in LiveSlabs(st) /\ ~Contains(st.slabs[o[1]].free, o[2])
-----------------------------------------------------------------------------
RECURSIVE ReleaseSlab(_, _, _), CacheFree(_, _), DelLoop(_, _, _),
          DelRange(_, _), MapPages(_, _, _, _, _), NewRange(_, _, _),
          CacheGrow(_, _), CacheAlloc(_, _)

(* Mutant: the cache's nb_free_obj is not incremented. *)
FreeObjectNoCount(st, o, s) ==
  LET sl == st.slabs[s]
      nf == sl.nfree + 1
  IN IF s = NoSlab THEN [m |-> st, v |-> -3, empty |-> NoSlab]
     ELSE IF s \notin LiveSlabs(st)
     THEN [m |-> [st EXCEPT !.err = "foreign slab"], v |-> -3, empty |-> NoSlab]
     ELSE IF o[1] # s THEN [m |-> st, v |-> -3, empty |-> NoSlab]
     ELSE [m |-> [st EXCEPT
                  !.slist = IF sl.free = <<>> THEN <<s>> \o Remove(@, s) ELSE @,
                  !.slabs[s] = [@ EXCEPT !.free = <<o[2]>> \o @, !.nfree = nf]],
           v |-> 0,
           empty |-> IF nf >= ObjPerSlab /\ st.cfree + 1 - nf >= MinFree THEN s ELSE NoSlab]

(***************************************************************************)
(* free_object: resolve the slab through the range owning the object's    *)
(* page, check that the address is an object of that slab (with one page  *)
(* per slab, exactly when the object lies on the slab's page), move a full *)
(* slab to the head, push the object, and report the slab as empty when    *)
(* all its objects are free and the cache keeps MinFree others.  A slab    *)
(* that the cache no longer owns, or one of another cache, is a structure  *)
(* this model does not have: err.                                          *)
(***************************************************************************)
FreeObjectIn(st, o, s) ==
  LET sl == st.slabs[s]
      nf == sl.nfree + 1
      cf == st.cfree + 1
  IN IF s = NoSlab THEN [m |-> st, v |-> -3, empty |-> NoSlab]
     ELSE IF s \notin LiveSlabs(st)
     THEN [m |-> [st EXCEPT !.err = "foreign slab"], v |-> -3, empty |-> NoSlab]
     ELSE IF o[1] # s THEN [m |-> st, v |-> -3, empty |-> NoSlab]
     ELSE [m |-> [st EXCEPT
                  !.slist = IF sl.free = <<>> THEN <<s>> \o Remove(@, s) ELSE @,
                  !.slabs[s] = [@ EXCEPT !.free = <<o[2]>> \o @, !.nfree = nf],
                  !.cfree = cf],
           v |-> 0,
           empty |-> IF nf >= ObjPerSlab /\ cf - nf >= MinFree THEN s ELSE NoSlab]

FreeObject(st, o) == FreeObjectIn(st, o, ResolveSlab(st, o[1]))

(***************************************************************************)
(* cache_release_slab: unlink the slab, drop its objects from the count,   *)
(* clear the range's slab (kvmm_set_slab ignores a NULL range) and, when   *)
(* told to, delete the range.                                              *)
(***************************************************************************)
ReleaseSlabRange(s1, r, mustDel) ==
  LET s2 == IF r = NoRange THEN s1 ELSE [s1 EXCEPT !.rs[r].slab = NoSlab]
  IN IF ~mustDel THEN s2
     ELSE IF r = NoRange THEN [s2 EXCEPT !.err = "null range"]
     ELSE DelRange(s2, r)

ReleaseSlab(st, s, mustDel) ==
  ReleaseSlabRange([st EXCEPT !.slist = Remove(@, s), !.cfree = @ - st.slabs[s].nfree],
                   st.slabs[s].range, mustDel)

(* kvmm_cache_release_struct_range: free the structure; return the range   *)
(* of a slab this emptied (not deleted), or NoRange.                       *)
ReleaseStructRangeOf(f) ==
  IF f.v # 0 \/ f.empty = NoSlab THEN [m |-> f.m, v |-> NoRange]
  ELSE [m |-> ReleaseSlab(f.m, f.empty, FALSE), v |-> f.m.slabs[f.empty].range]

ReleaseStructRange(st, r) == ReleaseStructRangeOf(FreeObject(st, r))

(* kvmm_cache_free *)
CacheFreeOf(f) ==
  IF f.v # 0 \/ f.empty = NoSlab THEN f.m ELSE ReleaseSlab(f.m, f.empty, TRUE)

CacheFree(st, o) == CacheFreeOf(FreeObject(st, o))

(* After a merge released a structure: the range of a slab this emptied  *)
(* leaves the used list and joins the ranges still to free.               *)
MergeReleased(e, todo) ==
  IF e.v = NoRange THEN [m |-> e.m, todo |-> todo]
  ELSE [m |-> [e.m EXCEPT !.used = Remove(@, e.v)], todo |-> Append(todo, e.v)]

(* Mutant: the absorbed range's structure is released but stays linked. *)
MergeKeepLinked(st, keep, gone, todo) ==
  LET s1 == [st EXCEPT !.rs[keep].n = @ + st.rs[gone].n]
  IN IF keep = gone
     THEN [m |-> [s1 EXCEPT !.err = "unlinked range"], todo |-> todo]
     ELSE MergeReleased(ReleaseStructRange(s1, gone), todo)

(***************************************************************************)
(* One merge of kvmm_del_range: keep absorbs gone, gone leaves the free   *)
(* list and its structure is released (kvmm_cache_release_struct_range). *)
(***************************************************************************)
Merge(st, keep, gone, todo) ==
  LET s1 == [st EXCEPT !.rs[keep].n = @ + st.rs[gone].n, !.free = Remove(@, gone)]
  IN IF keep = gone
     THEN [m |-> [s1 EXCEPT !.err = "unlinked range"], todo |-> todo]
     ELSE MergeReleased(ReleaseStructRange(s1, gone), todo)

(***************************************************************************)
(* The do..while loop of kvmm_del_range for one range r: insert it into    *)
(* the free list, unmap its pages, merge with the circular predecessor     *)
(* and then with the successor when address-adjacent, and go on with the  *)
(* next range to free.                                                     *)
(***************************************************************************)
Pos(L, x) == SelectInSeq(L, LAMBDA y : y = x)
CircPrev(L, i) == L[IF i = 1 THEN Len(L) ELSE i - 1]
CircNext(L, i) == L[IF i = Len(L) THEN 1 ELSE i + 1]

(* The loop's tail: stop when no range is left to free (or on err). *)
DelContinue(b) ==
  IF b.todo = <<>> \/ b.m.err # "none" THEN b.m
  ELSE DelLoop(b.m, Head(b.todo), Tail(b.todo))

(* Mutant: no merge with the successor. *)
DelMergeNextNone(a, r, N) == DelContinue(a)

(* Merge r with its circular successor N when they are adjacent. *)
DelMergeNextWith(a, r, N) ==
  DelContinue(IF a.m.err = "none" /\ End(a.m, r) = Base(a.m, N)
              THEN Merge(a.m, r, N, a.todo) ELSE a)

DelMergeNext(a, r) == DelMergeNextWith(a, r, CircNext(a.m.free, Pos(a.m.free, r)))

(* Merge r into its circular predecessor P when they are adjacent; the   *)
(* next merge then works on P.                                           *)
DelMergePrevWith(s2, r, todo, P) ==
  IF End(s2, P) = Base(s2, r)
  THEN DelMergeNext(Merge(s2, P, r, todo), P)
  ELSE DelMergeNext([m |-> s2, todo |-> todo], r)

DelLoop(st, r, todo) ==
  LET s2 == UnmapInterval([st EXCEPT !.free = InsertRange(st, @, r)],
                          Base(st, r), st.rs[r].n)
  IN DelMergePrevWith(s2, r, todo, CircPrev(s2.free, Pos(s2.free, r)))

(* kvmm_del_range: unlink from the used list, then the loop above.  A     *)
(* range still owned by a slab is only reported (debug), not refused.      *)
DelRange(st, r) == DelLoop([st EXCEPT !.used = Remove(@, r)], r, <<>>)
(***************************************************************************)
(* The KVMM_MAP loop of kvmm_new_range, from page i of range o on: take a *)
(* frame, unmap whatever the virtual page maps, map the frame, drop the    *)
(* allocation's reference (the mapping holds one) and record the range in *)
(* the frame's descriptor.  Without a frame the range is deleted again.    *)
(***************************************************************************)
MapFrame(st, o, va, f) ==
  LET s1 == PagingMap(PagingUnmap(st, va), va, f)
  IN [s1 EXCEPT !.pm = SetKvmmRange(Unref(@, f).m, f, o)]

(* One iteration, r being the result of physmem_ref_physpage_new. *)
MapPage(st, o, i, n, d, r) ==
  IF r.v = 0 THEN [m |-> DelRange([st EXCEPT !.pm = r.m], o), v |-> NoObj]
  ELSE MapPages(MapFrame([st EXCEPT !.pm = r.m], o, Base(st, o) + i, r.v), o, i + 1, n, d)

(* Mutant: the loop stops one page early. *)
MapPagesShort(st, o, i, n, d) ==
  IF i + 1 >= n THEN [m |-> st, v |-> o] ELSE MapPage(st, o, i, n, d, RefNew(st.pm))

MapPages(st, o, i, n, d) ==
  IF i = n THEN [m |-> st, v |-> o] ELSE MapPage(st, o, i, n, d, RefNew(st.pm))

(***************************************************************************)
(* kvmm_new_range(n, KVMM_MAP) at nesting depth d.  An exact fit moves the *)
(* free range to the used list; otherwise a new structure is allocated     *)
(* from the range cache (which may run kvmm_new_range again, and change    *)
(* the free range F found before the call) and F gives up its first n      *)
(* pages, the fields of F being read again after the call as the C code    *)
(* does through its pointer.                                               *)
(***************************************************************************)
(* Put range o on the used list, with no slab. *)
UseRange(st, o) == [st EXCEPT !.used = InsertRange(st, @, o), !.rs[o].slab = NoSlab]

(* Mutant: the split moves F's base but does not shrink it. *)
SplitNoShrink(st, o, F, n) ==
  [[st EXCEPT !.rs = (o :> [base |-> st.rs[F].base, n |-> n, slab |-> NoSlab]) @@ @]
     EXCEPT !.rs[F].base = @ + n]

(* The new structure o takes F's first n pages. *)
Split(st, o, F, n) ==
  [[st EXCEPT !.rs = (o :> [base |-> st.rs[F].base, n |-> n, slab |-> NoSlab]) @@ @]
     EXCEPT !.rs[F].base = @ + n, !.rs[F].n = @ - n]

(* After kvmm_cache_alloc returned a (its state and the new structure). *)
SplitWith(a, F, n, d) ==
  IF a.v = NoObj THEN [m |-> a.m, v |-> NoObj]
  ELSE MapPages(UseRange(Split(a.m, a.v, F, n), a.v), a.v, 0, n, d)

(* Mutant: no exact-fit case, a free range of exactly n pages is split. *)
NewRangeAtNoExact(st, n, d, i) ==
  IF i = 0 THEN [m |-> st, v |-> NoObj]
  ELSE SplitWith(CacheAlloc(st, d), st.free[i], n, d)

(* With the first fit at position i of the free list. *)
NewRangeAt(st, n, d, i) ==
  IF i = 0 THEN [m |-> st, v |-> NoObj]
  ELSE IF st.rs[st.free[i]].n = n
  THEN MapPages(UseRange([st EXCEPT !.free = RemoveAt(@, i)], st.free[i]),
                st.free[i], 0, n, d)
  ELSE SplitWith(CacheAlloc(st, d), st.free[i], n, d)

NewRange(st, n, d) ==
  IF d > MaxDepth THEN [m |-> [st EXCEPT !.err = "depth"], v |-> NoObj]
  ELSE IF n <= 0 THEN [m |-> st, v |-> NoObj]
  ELSE NewRangeAt(st, n, d, FindSuitableFreeRange(st, n))

(***************************************************************************)
(* cache_grow for the range cache (KSLAB_CREATE_MAP, ON_SLAB): a one-page  *)
(* range, whose page becomes a slab of ObjPerSlab free objects at the head *)
(* of the slab list (cache_add_slab), linked both ways with its range.     *)
(***************************************************************************)
(* Mutant: the new slab's range is not told its slab. *)
AddSlabNoLink(st, o, p) ==
  [st EXCEPT !.slabs = (p :> [nfree |-> ObjPerSlab, free |-> [k \in ObjIdx |-> k],
                              range |-> o]) @@ @,
             !.cfree = @ + ObjPerSlab,
             !.slist = <<p>> \o @]

(* cache_add_slab for range o's page p, and the two links. *)
AddSlab(st, o, p) ==
  [st EXCEPT !.slabs = (p :> [nfree |-> ObjPerSlab, free |-> [k \in ObjIdx |-> k],
                              range |-> o]) @@ @,
             !.cfree = @ + ObjPerSlab,
             !.slist = <<p>> \o @,
             !.rs[o].slab = p]

(* After kvmm_new_range returned r. *)
GrowWith(r) ==
  IF r.v = NoObj THEN [m |-> r.m, v |-> -3]
  ELSE [m |-> AddSlab(r.m, r.v, Base(r.m, r.v)), v |-> 0]

CacheGrow(st, d) == GrowWith(NewRange(st, PagesPerSlab, d + 1))

(***************************************************************************)
(* kvmm_cache_alloc on the range cache: grow when the head slab has no     *)
(* free object, pop the head slab's first free object, move a slab that    *)
(* became full to the tail, and grow once more when exactly MinFree - 1    *)
(* free objects are left, freeing the object again if that grow fails.    *)
(***************************************************************************)
(* Pop the first free object of slab h; a slab left full goes last. *)
PopObject(st, h) ==
  LET s2 == [st EXCEPT !.slabs[h].free = Tail(@), !.slabs[h].nfree = @ - 1,
                       !.cfree = @ - 1]
  IN IF s2.slabs[h].free = <<>> THEN [s2 EXCEPT !.slist = Append(Tail(@), h)] ELSE s2

(* The eager grow failed or not (g2), object o allocated. *)
RefillWith(g2, o) ==
  IF g2.v # 0 THEN [m |-> CacheFree(g2.m, o), v |-> NoObj] ELSE [m |-> g2.m, v |-> o]

(* Mutant: the eager grow tests "< min_free" instead of "== min_free - 1". *)
RefillBelowMin(st, o, d) ==
  IF st.cfree < MinFree THEN RefillWith(CacheGrow(st, d), o) ELSE [m |-> st, v |-> o]

(* The min_free_obj test after the pop. *)
Refill(st, o, d) ==
  IF st.cfree = MinFree - 1 THEN RefillWith(CacheGrow(st, d), o) ELSE [m |-> st, v |-> o]

AllocFromHead(st, h, d) == Refill(PopObject(st, h), <<h, Head(st.slabs[h].free)>>, d)

(* After the first grow, if any (g). *)
AllocWith(g, d) ==
  IF g.v # 0 THEN [m |-> g.m, v |-> NoObj] ELSE AllocFromHead(g.m, Head(g.m.slist), d)

CacheAlloc(st, d) ==
  AllocWith(IF st.slist = <<>> \/ st.slabs[Head(st.slist)].free = <<>>
            THEN CacheGrow(st, d) ELSE [m |-> st, v |-> 0], d)

-----------------------------------------------------------------------------
(***************************************************************************)
(* kvmm_cache_setup_prepare: one frame for the first slab of the cache of *)
(* caches at CachesBase and one for the first slab of ranges right after, *)
(* each mapped over the identity mapping (paging_unmap, then paging_map,  *)
(* whose reference is never dropped); the range slab starts full of free  *)
(* objects and with no range (kvmm_cache_subsystem_setup_commit, which    *)
(* would set it, is never called).  The cache of caches and the cache of  *)
(* off-slab slab structures hold no range structure and are left out.     *)
(***************************************************************************)
MapBootPageWith(st, va, r) ==
  IF r.v = 0 THEN [st EXCEPT !.pm = r.m, !.err = "boot"]
  ELSE PagingMap(PagingUnmap([st EXCEPT !.pm = r.m], va), va, r.v)

MapBootPage(st, va) == MapBootPageWith(st, va, RefNew(st.pm))

SetupPrepare(st) ==
  [MapBootPage(MapBootPage(st, CachesBase), RangesBase) EXCEPT
     !.slabs = (RangesBase :> [nfree |-> ObjPerSlab,
                               free |-> [k \in ObjIdx |-> k],
                               range |-> NoRange]),
     !.slist = <<RangesBase>>,
     !.cfree = ObjPerSlab]

(***************************************************************************)
(* kvmm_create_range: nothing for an empty zone; otherwise a structure     *)
(* from the range cache (a NULL one is dereferenced: err), appended to the *)
(* free or used list; the frames mapped by a used zone record the range.   *)
(***************************************************************************)
CreateRangeWith(a, isFree, base, top, slab) ==
  LET o == a.v
      s1 == [a.m EXCEPT !.rs = (o :> [base |-> base, n |-> top - base,
                                      slab |-> IF isFree THEN NoSlab ELSE slab]) @@ @]
      mapped == {s1.pt[va] : va \in base .. top - 1}
  IN IF o = NoObj THEN [a.m EXCEPT !.err = "null range"]
     ELSE IF isFree THEN [s1 EXCEPT !.free = Append(@, o)]
     ELSE [s1 EXCEPT !.used = Append(@, o),
                     !.pm.krange = [f \in Frames |-> IF f \in mapped THEN o ELSE @[f]]]

CreateRange(st, isFree, base, top, slab) ==
  IF top - base < 1 THEN st ELSE CreateRangeWith(CacheAlloc(st, 0), isFree, base, top, slab)

(* The zones of kvmm_setup, in order: <<free?, base, top, slab>>. *)
Zones ==
  << <<TRUE,  KvmmBase,    BiosStart,      NoSlab>>,
     <<FALSE, BiosStart,   BiosEnd,        NoSlab>>,
     <<TRUE,  BiosEnd,     KernBase,       NoSlab>>,
     <<FALSE, KernBase,    StackBottom,    NoSlab>>,
     <<FALSE, StackBottom, StackTop,       NoSlab>>,
     <<FALSE, StackTop,    RangesBase,     NoSlab>>,
     <<FALSE, CachesBase,  CachesBase + 1, CachesSlab>>,
     <<FALSE, RangesBase,  RangesBase + 1, RangesBase>>,
     <<TRUE,  RangesBase + 1, KvmmTop,     NoSlab>> >>

RECURSIVE CreateZones(_, _)
CreateZones(st, i) ==
  IF i > Len(Zones) THEN st
  ELSE CreateZones(CreateRange(st, Zones[i][1], Zones[i][2], Zones[i][3], Zones[i][4]),
                   i + 1)

(* physmem_setup, paging_init, kvmm_setup, as kernel.c runs them. *)
BootFrom(pg) ==
  CreateZones(SetupPrepare([pm |-> pg.pm, pt |-> pg.pt, tables |-> pg.tables,
                            rs |-> [o \in {} |-> 0], free |-> <<>>,
                            used |-> <<>>, slabs |-> [p \in {} |-> 0],
                            slist |-> <<>>, cfree |-> 0, err |-> "none"]), 1)

BootState == BootFrom(PagingInit(SetupState))

(* kvmm_free: the range found must start at vaddr and belong to no slab. *)
KvmmFreeRange(st, v, r) ==
  IF r = NoRange \/ Base(st, r) # v THEN [m |-> st, v |-> -1]
  ELSE IF st.rs[r].slab # NoSlab THEN [m |-> st, v |-> -4]
  ELSE [m |-> DelRange(st, r), v |-> 0]

KvmmFreeOp(st, v) == KvmmFreeRange(st, v, LookupRange(st, v))

-----------------------------------------------------------------------------
(***************************************************************************)
(* The clients (kmalloc of large sizes, exec's kernel stacks, the zero     *)
(* page, page-table pages) call kvmm_alloc(n, KVMM_MAP) and later          *)
(* kvmm_free on the address they got.                                      *)
(***************************************************************************)
CONSTANTS MaxAlloc,   \* the largest n a client asks for
          MaxCalls    \* bound on the client calls of a behaviour

VARIABLES st,      \* the machine state above
          owned,   \* the range bases held by clients
          calls    \* client calls made so far (bounded by CallBound)

vars == <<st, owned, calls>>

Init == /\ st = BootState
        /\ owned = {}
        /\ calls = 0

(* The state constraint that bounds behaviours to MaxCalls client calls. *)
CallBound == calls <= MaxCalls

(* kvmm_alloc, once kvmm_new_range returned r *)
AllocResult(r) ==
  /\ st' = r.m
  /\ owned' = IF r.v = NoObj THEN owned ELSE owned \cup {Base(r.m, r.v)}
  /\ calls' = calls + 1

(* kvmm_alloc *)
KvmmAlloc(n) ==
  /\ st.err = "none"
  /\ AllocResult(NewRange(st, n, 0))

(* kvmm_free of an address a client holds *)
KvmmFree(v) ==
  /\ st.err = "none"
  /\ v \in owned
  /\ st' = KvmmFreeOp(st, v).m
  /\ owned' = owned \ {v}
  /\ calls' = calls + 1

Next == \/ \E n \in 1 .. MaxAlloc : KvmmAlloc(n)
        \/ \E v \in owned : KvmmFree(v)

Spec == Init /\ [][Next]_vars

-----------------------------------------------------------------------------
Pages(o) == st.rs[o].base .. st.rs[o].base + st.rs[o].n - 1
FreeSet == ToSet(st.free)
UsedSet == ToSet(st.used)
PtEntries == 0 .. RamTop + VTop

TypeOK ==
  /\ st.err \in {"none", "depth", "null range", "unlinked range",
                 "foreign slab", "boot"}
  /\ st.rs \in [DOMAIN st.rs -> [base : Nat, n : Nat, slab : Int]]
  /\ st.free \in Seq(DOMAIN st.rs) /\ st.used \in Seq(DOMAIN st.rs)
  /\ st.pt \in [VPages -> PtEntries]
  /\ st.slist \in Seq(DOMAIN st.slabs)
  /\ \A p \in DOMAIN st.slabs : st.slabs[p].free \in Seq(ObjIdx)
  /\ st.cfree \in Nat
  /\ owned \subseteq VPages

(***************************************************************************)
(* No call goes beyond the C semantics: kvmm_cache_alloc's "== min_free-1" *)
(* test bounds the kvmm_new_range -> cache_grow -> kvmm_new_range          *)
(* recursion, no NULL range is dereferenced (create_range, release of the  *)
(* bootstrap slab), del_range never merges a range with itself, and        *)
(* free_object only meets slabs of the range cache.                        *)
(***************************************************************************)
NoFatal == st.err = "none"

(***************************************************************************)
(* No free range is empty: kvmm_new_range splits the first fit F only when *)
(* it is larger than the request, and kvmm_del_range only grows ranges.    *)
(* (A zero-sized range covers nothing and can never be handed out, but     *)
(* every later del_range walks and merges it.)                             *)
(***************************************************************************)
FreeRangesNonEmpty == \A o \in FreeSet : st.rs[o].n > 0

(***************************************************************************)
(* Range coverage (kvmm_new_range splits, kvmm_del_range merges): free     *)
(* ranges overlap no other range, and free and used ranges together cover  *)
(* [KVMM_BASE, KVMM_TOP) and nothing else.                                 *)
(***************************************************************************)
FreeRangesExact ==
  /\ \A i, j \in 1 .. Len(st.free) : i # j => Pages(st.free[i]) \cap Pages(st.free[j]) = {}
  /\ \A o1 \in FreeSet, o2 \in UsedSet : Pages(o1) \cap Pages(o2) = {}
  /\ UNION {Pages(o) : o \in FreeSet \cup UsedSet} = KvmmBase .. KvmmTop - 1

(***************************************************************************)
(* Both range lists stay sorted by strictly ascending base (insert_range   *)
(* after the nested allocations of kvmm_new_range), and no two free ranges *)
(* are left adjacent after kvmm_del_range's coalescing.                    *)
(***************************************************************************)
SortedAndCoalesced ==
  /\ \A i \in 1 .. Len(st.free) - 1 : End(st, st.free[i]) < Base(st, st.free[i + 1])
  /\ \A i \in 1 .. Len(st.used) - 1 : Base(st, st.used[i]) < Base(st, st.used[i + 1])

(***************************************************************************)
(* Every range on the two lists is a live structure of the range cache,   *)
(* on one list only, once (no structure is freed, or handed out twice,    *)
(* while a list still links it).                                          *)
(***************************************************************************)
ListsHoldLiveStructs ==
  /\ \A o \in FreeSet \cup UsedSet : Allocated(st, o)
  /\ FreeSet \cap UsedSet = {}
  /\ Len(st.free) = Cardinality(FreeSet) /\ Len(st.used) = Cardinality(UsedSet)

(***************************************************************************)
(* Slab accounting of the range cache (kvmm_cache_alloc, free_object,     *)
(* cache_grow, cache_release_slab): nb_free_obj is the sum of the slabs'  *)
(* free counts, each count is the length of a duplicate-free free list,   *)
(* and no full slab precedes a slab with free objects.                     *)
(***************************************************************************)
SlabAccounting ==
  /\ st.cfree = FoldSeq(LAMBDA p, acc : st.slabs[p].nfree + acc, 0, st.slist)
  /\ \A p \in LiveSlabs(st) :
       /\ st.slabs[p].nfree = Len(st.slabs[p].free)
       /\ Len(st.slabs[p].free) = Cardinality(ToSet(st.slabs[p].free))
  /\ \A i, j \in 1 .. Len(st.slist) :
       i < j /\ st.slabs[st.slist[i]].free = <<>> => st.slabs[st.slist[j]].free = <<>>

(***************************************************************************)
(* Each slab grown by cache_grow and its range point at each other: the   *)
(* range is used, starts at the slab's page and names the slab, so that   *)
(* kvmm_free refuses it and free_object finds the slab again.             *)
(***************************************************************************)
SlabRangeLinks ==
  \A p \in LiveSlabs(st) : st.slabs[p].range # NoRange =>
     LET r == st.slabs[p].range
     IN r \in UsedSet /\ Base(st, r) = p /\ st.rs[r].slab = p

(***************************************************************************)
(* What kvmm_alloc promises a client: each range it handed out and that   *)
(* was not freed is still a used range at that base, kvmm_free finds it  *)
(* from its base address, and each of its pages maps its own frame, one   *)
(* that the frame allocator counts as referenced.                          *)
(***************************************************************************)
OwnedRangesBacked ==
  \A b \in owned :
    LET r == LookupRange(st, b)
    IN /\ r # NoRange /\ r \in UsedSet /\ Base(st, r) = b
       /\ \A v \in Pages(r) : st.pt[v] \in Frames /\ st.pm.ref[st.pt[v]] > 0
       /\ \A v, w \in Pages(r) : v # w => st.pt[v] # st.pt[w]
(***************************************************************************)
(* The frames the kernel runs on stay its own: every page-table frame and  *)
(* every frame mapped at a page of a used range has a positive reference  *)
(* count (it is not on the free list, where physmem_ref_physpage_new       *)
(* would hand it out again), and no two such pages, or such a page and a   *)
(* page table, share a frame.                                              *)
(***************************************************************************)
UsedPages == UNION {Pages(o) : o \in UsedSet}
MappedFramesHeld ==
  /\ \A f \in st.tables : st.pm.ref[f] > 0
  /\ \A v \in UsedPages : st.pt[v] \in Frames =>
        /\ st.pm.ref[st.pt[v]] > 0
        /\ st.pt[v] \notin st.tables
        /\ \A w \in UsedPages : w # v => st.pt[w] # st.pt[v]
=============================================================================
