-------------------------------- MODULE UVMM --------------------------------
(***************************************************************************)
(* One user address space of src/mem/uvmm.c with the /dev/zero resource   *)
(* of src/drivers/zero.c, its only mapped resource.                        *)
(*                                                                         *)
(* Addresses are page numbers modulo 2^W: one unit is one page, so the     *)
(* byte arithmetic of the C code on page-aligned __u32 values becomes the  *)
(* same arithmetic on page numbers modulo 2^W (U below), wrap-around       *)
(* included.  Top is PAGING_TOP_USER_ADDRESS, UserOffset is USER_OFFSET.   *)
(*                                                                         *)
(* The state is one record st:                                             *)
(*   pm       the frame allocator (PhysMemOps.tla)                         *)
(*   pt       the user part of the current page directory, page -> frame   *)
(*   arenas   as->list_arena in list order (the list is circular)          *)
(*   res      the zero_mapped_resource slots: alive, ref_cnt, and the      *)
(*            list_mapped_pages as a sequence of <<page_id, frame>>        *)
(*   nstructs arena structures taken from cache_of_arena and not given     *)
(*            back                                                         *)
(*   heapStart, heapSize, vm  the uvmm_as fields of the same names         *)
(*   dirty    frames a user write has made non-zero                        *)
(*   err      "none", or "hang": the page-fault handler spins in while(1)  *)
(*            after uvmm_lazy_loading fails; "loop": the uvmm_unmap loop   *)
(*            never terminates                                             *)
(* Each operator returns [s |-> state, v |-> return value] where the C     *)
(* function returns a value.                                               *)
(***************************************************************************)
EXTENDS Paging, Integers
LOCAL INSTANCE SequencesExt

CONSTANTS
  W,             \* address width: addresses are 0 .. 2^W-1
  UserOffset,    \* USER_OFFSET
  MaxRes,        \* zero_mapped_resource slots kmalloc can provide
  ArenaCap,      \* arena structures cache_of_arena can provide
  MaxLoop        \* iterations after which the uvmm_unmap loop is a hang

Wrap == 2 ^ W
U(x) == x % Wrap                      \* __u32 arithmetic
Top == Wrap - 1                       \* PAGING_TOP_USER_ADDRESS
UserSpaceSize == Wrap - UserOffset    \* PAGING_USER_SPACE_SIZE
UPages == UserOffset .. Top
ResIds == 1 .. MaxRes
Rights == SUBSET {"R", "W", "U"}      \* P_READ, P_WRITE, P_USER
Flags == SUBSET {"shared", "fixed"}   \* ARENA_MAP_SHARED, ARENA_MAP_FIXED
Fields == {"overall", "ro", "rw", "code"}

(* PAGING_IS_USER_AREA *)
IsUserArea(b, len) == UserOffset <= b /\ len <= UserSpaceSize

(* The circular list as->list_arena: neighbours of position i. *)
NextIn(A, i) == IF i = Len(A) THEN 1 ELSE i + 1
PrevIn(A, i) == IF i = 1 THEN Len(A) ELSE i - 1
End(a) == U(a.start + a.size)

(***************************************************************************)
(* find_enclosing_or_next_arena: the position of the first arena in list  *)
(* order whose last page is at or above u, 0 for NULL.  The overflow-safe  *)
(* comparison u <= start + (size - 1) is kept.  The function does not     *)
(* check that u is at or above the start: it returns the NEXT arena as     *)
(* well, and find_first_intersecting_arena returns it unchanged.          *)
(***************************************************************************)
FindEnclosingOrNext(A, u) ==
  LET hits == {i \in DOMAIN A : u <= U(A[i].start + U(A[i].size - 1))}
  IN IF u > Top \/ hits = {} THEN 0 ELSE Min(hits)

(***************************************************************************)
(* find_first_free_interval: the do/while scan from the arena at or after  *)
(* the hint.  On the wrap branch (the next arena is below the hint) the    *)
(* hint is returned as it is, without moving it past the current arena.   *)
(***************************************************************************)
RECURSIVE FreeIntervalLoop(_, _, _, _, _)
FreeIntervalLoop(A, size, i0, i, h) ==
  IF U(h + size) <= A[i].start THEN h
  ELSE IF A[NextIn(A, i)].start >= h
       THEN IF NextIn(A, i) = i0 THEN 0
            ELSE FreeIntervalLoop(A, size, i0, NextIn(A, i), End(A[i]))
       ELSE IF h <= U(Top - size) THEN h
       ELSE IF NextIn(A, i) = i0 THEN 0
       ELSE FreeIntervalLoop(A, size, i0, NextIn(A, i), UserOffset)

FreeIntervalFrom(A, size, h) ==
  IF h > U(Top - size + 1) THEN 0
  ELSE IF FindEnclosingOrNext(A, h) = 0 THEN h
  ELSE FreeIntervalLoop(A, size, FindEnclosingOrNext(A, h),
                        FindEnclosingOrNext(A, h), h)

FindFirstFreeInterval(A, hint, size) ==
  FreeIntervalFrom(A, size, IF hint < UserOffset THEN UserOffset ELSE hint)

(***************************************************************************)
(* as_account_change_of_arena_prot: UPDATE_VMSTAT adds or subtracts size  *)
(* on vm_total and, for a shared arena, on vm_shrd, in __u32 arithmetic.   *)
(* The debug() checks of the macros are diagnostics and left out.          *)
(***************************************************************************)
UpdateVmstat(vm, shared, f, d, size) ==
  [vm EXCEPT !.total[f] = U(@ + d * size),
             !.shrd[f]  = IF shared THEN U(@ + d * size) ELSE @]

(* The signed change of each statistic, from the branches of the C code. *)
VmDelta(f, prev, new) ==
  CASE f = "rw" ->
         IF "W" \in new /\ "W" \notin prev THEN 1
         ELSE IF "W" \notin new /\ "W" \in prev THEN -1 ELSE 0
    [] f = "ro" ->
         IF "W" \in new /\ "W" \notin prev THEN IF "R" \in prev THEN -1 ELSE 0
         ELSE IF "W" \notin new /\ "W" \in prev THEN IF "R" \in new THEN 1 ELSE 0
         ELSE IF "R" \in new THEN 1 ELSE -1
    [] f = "code" ->
         IF "U" \in new /\ "U" \notin prev THEN 1
         ELSE IF "U" \notin new /\ "U" \in prev THEN -1 ELSE 0
    [] f = "overall" ->
         IF new # {} /\ prev = {} THEN 1
         ELSE IF new = {} /\ prev # {} THEN -1 ELSE 0

RECURSIVE ApplyVmDeltas(_, _, _, _, _, _)
ApplyVmDeltas(vm, shared, size, prev, new, fs) ==
  IF fs = {} THEN vm
  ELSE LET f == CHOOSE g \in fs : TRUE
       IN ApplyVmDeltas(UpdateVmstat(vm, shared, f, VmDelta(f, prev, new), size),
                        shared, size, prev, new, fs \ {f})

AsAccount(st, shared, size, prev, new) ==
  IF prev = new THEN st
  ELSE [st EXCEPT !.vm = ApplyVmDeltas(@, shared, size, prev, new, Fields)]

(***************************************************************************)
(* zero_ref / zero_unref (zero.c), the arena ops ->ref and ->unref of      *)
(* every arena.  When ref_cnt drops to 0, every page of the shared list    *)
(* loses the reference insert_anonymous_physpage took, and the resource    *)
(* is freed.                                                               *)
(***************************************************************************)
ZeroRef(st, r) == [st EXCEPT !.res[r].ref = @ + 1]

RECURSIVE UnrefPages(_, _)
UnrefPages(pm, ps) ==
  IF ps = <<>> THEN pm ELSE UnrefPages(Unref(pm, Head(ps)[2]).m, Tail(ps))

FreedRes == [alive |-> FALSE, ref |-> 0, pages |-> <<>>]

ZeroUnrefAt(st, r, left) ==
  IF left = 0
  THEN [st EXCEPT !.pm = UnrefPages(@, st.res[r].pages), !.res[r] = FreedRes]
  ELSE [st EXCEPT !.res[r].ref = left]

ZeroUnref(st, r) == ZeroUnrefAt(st, r, st.res[r].ref - 1)

(* lookup_anonymous_physpage: the first entry for the page id, 0 if none. *)
LookupAnonymousPhyspage(st, r, id) ==
  LET hits == {k \in DOMAIN st.res[r].pages : st.res[r].pages[k][1] = id}
  IN IF hits = {} THEN 0 ELSE st.res[r].pages[Min(hits)][2]

(* insert_anonymous_physpage: add at the head and take a reference. *)
InsertAnonymousPhyspage(st, r, f, id) ==
  [st EXCEPT !.res[r].pages = <<<<id, f>>>> \o @, !.pm = RefAt(@, f).m]

(***************************************************************************)
(* The four cases of the uvmm_unmap loop over arena i.  kvmm_free() on an  *)
(* arena structure fails (the structure is a slab object, so its range has *)
(* a slab), so a removed or unused arena structure is never given back:    *)
(* nstructs is left as it is.                                              *)
(***************************************************************************)
(* The whole arena is unmapped: unlink it, ->unref, account. *)
(* Mutant: the removed arena's ->unref is not called. *)
RemoveArenaNoUnref(st, i, a) ==
  AsAccount([st EXCEPT !.arenas = RemoveAt(@, i)],
            "shared" \in a.flags, a.size, a.prot, {})

RemoveArena(st, i, a) ==
  AsAccount(ZeroUnref([st EXCEPT !.arenas = RemoveAt(@, i)], a.res),
            "shared" \in a.flags, a.size, a.prot, {})

(* The unmapped interval is strictly inside: the preallocated arena takes *)
(* the part above it, ->ref is called on it.                              *)
(* Mutant: the new half of a split arena does not take ->ref. *)
SplitArenaNoRef(st, i, a, u, s) ==
  AsAccount([st EXCEPT !.arenas =
               InsertAt([@ EXCEPT ![i].size = U(u - a.start)], i + 1,
                        [a EXCEPT !.id = st.nstructs,
                                  !.start = U(u + s),
                                  !.size = U(End(a) - U(u + s)),
                                  !.off = @ + U(u + s - a.start)])],
            "shared" \in a.flags, s, a.prot, {})

SplitArena(st, i, a, u, s) ==
  AsAccount(ZeroRef([st EXCEPT !.arenas =
                       InsertAt([@ EXCEPT ![i].size = U(u - a.start)], i + 1,
                                [a EXCEPT !.id = st.nstructs,
                                          !.start = U(u + s),
                                          !.size = U(End(a) - U(u + s)),
                                          !.off = @ + U(u + s - a.start)])],
                    a.res),
            "shared" \in a.flags, s, a.prot, {})

(* Only the start of the arena is unmapped: shift it. *)
(* Mutant: shifting the start is not accounted. *)
ShiftStartNoAccount(st, i, a, t) ==
  [st EXCEPT !.arenas[i].size = U(@ - t),
             !.arenas[i].off = @ + t,
             !.arenas[i].start = U(@ + t)]

ShiftStart(st, i, a, t) ==
  AsAccount([st EXCEPT !.arenas[i].size = U(@ - t),
                       !.arenas[i].off = @ + t,
                       !.arenas[i].start = U(@ + t)],
            "shared" \in a.flags, t, a.prot, {})

(* Only the end of the arena is unmapped: shrink it. *)
TrimEnd(st, i, a, u) ==
  AsAccount([st EXCEPT !.arenas[i].size = U(u - a.start)],
            "shared" \in a.flags, U(End(a) - u), a.prot, {})

(* The position of the arena after i once i is unlinked, 0 for none. *)
NextAfterRemove(A, i) ==
  IF Len(A) = 1 THEN 0 ELSE IF i = Len(A) THEN 1 ELSE i

RECURSIVE UnmapLoop(_, _, _, _, _, _)
UnmapStep(st, u, s, i, used, k, a) ==
  IF End(a) <= u \/ U(u + s) <= a.start THEN [s |-> st, v |-> used]
  ELSE IF a.start >= u /\ End(a) <= U(u + s)
       THEN UnmapLoop(RemoveArena(st, i, a), u, s,
                      NextAfterRemove(st.arenas, i), used, k - 1)
  ELSE IF a.start < u /\ End(a) > U(u + s)
       THEN [s |-> SplitArena(st, i, a, u, s), v |-> TRUE]
  ELSE IF u <= a.start
       THEN [s |-> ShiftStart(st, i, a, U(u + s - a.start)), v |-> used]
  ELSE UnmapLoop(TrimEnd(st, i, a, u), u, s, NextIn(st.arenas, i), used, k - 1)

UnmapLoop(st, u, s, i, used, k) ==
  IF i = 0 THEN [s |-> st, v |-> used]
  ELSE IF k = 0 THEN [s |-> [st EXCEPT !.err = "loop"], v |-> used]
  ELSE UnmapStep(st, u, s, i, used, k, st.arenas[i])

(***************************************************************************)
(* uvmm_unmap: check the interval, preallocate an arena structure (fails  *)
(* with -3 when cache_of_arena is exhausted), run the loop from the first *)
(* arena at or after u, then paging_unmap_interval over the interval.     *)
(* as->phys_total is a statistic nothing reads and is left out.           *)
(***************************************************************************)
UvmmUnmapWith(st, u, s, r) ==
  [s |-> UnmapInterval(r.s, u, s), v |-> 0]

(* Mutant: the preallocation never fails. *)
UvmmUnmapNoCap(st, u, s) ==
  IF s = 0 \/ u < UserOffset \/ u > U(Top - s) THEN [s |-> st, v |-> -1]
  ELSE UvmmUnmapWith(st, u, s,
         UnmapLoop([st EXCEPT !.nstructs = @ + 1], u, s,
                   FindEnclosingOrNext(st.arenas, u), FALSE, MaxLoop))

UvmmUnmap(st, u, s) ==
  IF s = 0 \/ u < UserOffset \/ u > U(Top - s) THEN [s |-> st, v |-> -1]
  ELSE IF st.nstructs >= ArenaCap THEN [s |-> st, v |-> -3]
  ELSE UvmmUnmapWith(st, u, s,
         UnmapLoop([st EXCEPT !.nstructs = @ + 1], u, s,
                   FindEnclosingOrNext(st.arenas, u), FALSE, MaxLoop))
(***************************************************************************)
(* uvmm_map.  An arena structure is identified by id, the number it got    *)
(* from cache_of_arena, since the C code holds pointers to arenas across   *)
(* calls that move them in the list.                                       *)
(***************************************************************************)
AllowedRights == {"R", "W", "U"}     \* zero_resource->mr.allowed_access_rights

PosOf(A, id) ==
  IF \E k \in DOMAIN A : A[k].id = id
  THEN CHOOSE k \in DOMAIN A : A[k].id = id ELSE 0

(* The neighbours found from the arena at or after h: prev is the arena   *)
(* before it in the circular list unless that one starts above h; with no *)
(* arena at or after h, prev is the tail.                                 *)
PrevFor(A, h, nx) ==
  IF nx # 0 THEN IF A[PrevIn(A, nx)].start > h THEN 0 ELSE PrevIn(A, nx)
  ELSE Len(A)

MergeWithPreceding(A, pv, h, size, prot, flags, r, off) ==
  /\ pv # 0
  /\ A[pv].res = r /\ A[pv].off + A[pv].size = off /\ End(A[pv]) = h
  /\ A[pv].flags = flags /\ A[pv].prot = prot

MergeWithNext(A, nx, h, size, prot, flags, r, off) ==
  /\ nx # 0
  /\ A[nx].res = r /\ off + size = A[nx].off /\ U(h + size) = A[nx].start
  /\ A[nx].flags = flags /\ A[nx].prot = prot

(* Both merges: widen prev over the new arena and next, unlink next, call *)
(* ->unref on it; its structure is passed to kvmm_free and so leaks.       *)
MergeBoth(st, pv, nx, size) ==
  ZeroUnref([st EXCEPT !.arenas = RemoveAt([@ EXCEPT ![pv].size =
                                               U(@ + size + st.arenas[nx].size)],
                                           nx)],
            st.arenas[nx].res)

(* The preallocated arena becomes the new arena, inserted after prev or   *)
(* at the head; zero_mmap sets its ops (it cannot fail) and ->ref runs.    *)
NewArena(st, pid, pv, h, size, prot, flags, r, off) ==
  ZeroRef([st EXCEPT !.arenas =
             InsertAt(@, pv + 1, [id |-> pid, start |-> h, size |-> size,
                                  prot |-> prot, flags |-> flags, res |-> r,
                                  off |-> off])],
          r)

(* Every successful path ends with the accounting and returns h. *)
MapDone(st, h, size, prot, flags) ==
  [s |-> AsAccount(st, "shared" \in flags, size, {}, prot), v |-> 0, addr |-> h]

MapLinked(st, pid, h, size, prot, flags, r, off, pv, nx) ==
  IF MergeWithPreceding(st.arenas, pv, h, size, prot, flags, r, off)
     /\ MergeWithNext(st.arenas, nx, h, size, prot, flags, r, off)
  THEN MapDone(MergeBoth(st, pv, nx, size), h, size, prot, flags)
  ELSE IF MergeWithPreceding(st.arenas, pv, h, size, prot, flags, r, off)
  THEN MapDone([st EXCEPT !.arenas[pv].size = U(@ + size)], h, size, prot, flags)
  ELSE IF MergeWithNext(st.arenas, nx, h, size, prot, flags, r, off)
  THEN MapDone([st EXCEPT !.arenas[nx].start = U(@ - size),
                          !.arenas[nx].size = U(@ + size)], h, size, prot, flags)
  ELSE MapDone(NewArena(st, pid, pv, h, size, prot, flags, r, off),
               h, size, prot, flags)

MapAt(st, pid, h, size, prot, flags, r, off, nx) ==
  MapLinked(st, pid, h, size, prot, flags, r, off, PrevFor(st.arenas, h, nx), nx)

(* An anonymous mapping not made by uvmm_resize takes h as its offset. *)
MapAddress(st, pid, h, size, prot, flags, r, off, internal) ==
  MapAt(st, pid, h, size, prot, flags, r, IF internal THEN off ELSE h,
        FindEnclosingOrNext(st.arenas, h))

Failed(st, rv) == [s |-> st, v |-> rv, addr |-> 0]

MapFixedWith(pid, hint, size, prot, flags, r, off, internal, m) ==
  IF m.v # 0 THEN Failed(m.s, m.v)
  ELSE MapAddress(m.s, pid, hint, size, prot, flags, r, off, internal)

MapFixed(st, pid, hint, size, prot, flags, r, off, internal) ==
  IF hint < UserOffset \/ hint > U(Top - size) THEN Failed(st, -1)
  ELSE MapFixedWith(pid, hint, size, prot, flags, r, off, internal,
                    UvmmUnmap(st, hint, size))

MapFree(st, pid, size, prot, flags, r, off, internal, h) ==
  IF h = 0 THEN Failed(st, -3)
  ELSE MapAddress(st, pid, h, size, prot, flags, r, off, internal)

(***************************************************************************)
(* uvmm_map: the checks, the preallocation of an arena structure, then a   *)
(* fixed address (whatever is there is unmapped first) or the first free   *)
(* interval from the hint.  The rights and flags are filtered; the shared  *)
(* rights check and the offset overflow check pass for /dev/zero.  On      *)
(* failure *uaddr is NULL (addr 0).                                        *)
(***************************************************************************)
UvmmMap(st, hint, size, prot, flags, r, off, internal) ==
  IF size = 0 THEN Failed(st, -1)
  ELSE IF "shared" \in flags /\ ~(prot \subseteq AllowedRights)
  THEN Failed(st, -6)
  ELSE IF st.nstructs >= ArenaCap THEN Failed(st, -3)
  ELSE IF "fixed" \in flags
  THEN MapFixed([st EXCEPT !.nstructs = @ + 1], st.nstructs + 1, hint, size, prot, flags, r,
                off, internal)
  ELSE MapFree([st EXCEPT !.nstructs = @ + 1], st.nstructs + 1, size, prot, flags, r, off,
               internal, FindFirstFreeInterval(st.arenas, hint, size))

(***************************************************************************)
(* dev_zero_map: kmalloc a resource (no free slot: -3, *uaddr untouched),  *)
(* map it, and kfree it again if uvmm_map fails.                           *)
(***************************************************************************)
NewRes == [alive |-> TRUE, ref |-> 0, pages |-> <<>>]

DevZeroMapWith(r, m) ==
  IF m.v # 0 THEN [m EXCEPT !.s.res[r] = FreedRes] ELSE m

DevZeroMapIn(st, hint, size, prot, flags, r) ==
  DevZeroMapWith(r, UvmmMap([st EXCEPT !.res[r] = NewRes],
                            hint, size, prot, flags, r, 0, FALSE))

DevZeroMap(st, hint, size, prot, flags) ==
  IF \A r \in ResIds : st.res[r].alive THEN [s |-> st, v |-> -3, addr |-> hint]
  ELSE DevZeroMapIn(st, hint, size, prot, flags,
                    Min({r \in ResIds : ~st.res[r].alive}))

(***************************************************************************)
(* uvmm_subsystem_setup: the zero page is the frame kvmm_alloc(1,          *)
(* KVMM_MAP) takes first; ref_at and the kernel unmap leave it with one    *)
(* reference, held by zero_page.                                           *)
(***************************************************************************)
ZeroSetup == RefNew(SetupState)
ZeroPage == ZeroSetup.v

(***************************************************************************)
(* zero_no_page: the page id is the page's offset in the arena plus the   *)
(* arena's offset in the resource.  A shared arena first maps the page    *)
(* already in the resource's list.  A write takes a new frame, maps it,   *)
(* zeroes it, records it for a shared arena, and drops the allocation     *)
(* reference.  A read maps the zero page; paging_map sets P_WRITE on      *)
(* every entry, so that mapping is writable too.                          *)
(***************************************************************************)
(* Mutant: the reference of the allocation is kept. *)
NoPageWriteKeepRef(st, a, u, id, f) ==
  IF f.v = 0 THEN [s |-> [st EXCEPT !.pm = f.m], v |-> -3]
  ELSE LET mapped == PagingMap([st EXCEPT !.pm = f.m], u, f.v)
       IN [s |-> IF "shared" \in a.flags
                  THEN InsertAnonymousPhyspage(mapped, a.res, f.v, id)
                  ELSE mapped, v |-> 0]

NoPageWrite(st, a, u, id, f) ==
  IF f.v = 0 THEN [s |-> [st EXCEPT !.pm = f.m], v |-> -3]
  ELSE LET mapped == PagingMap([st EXCEPT !.pm = f.m], u, f.v)
           listed == IF "shared" \in a.flags
                     THEN InsertAnonymousPhyspage(mapped, a.res, f.v, id)
                     ELSE mapped
       IN [s |-> [listed EXCEPT !.pm = Unref(@, f.v).m], v |-> 0]

ZeroNoPageAt(st, a, u, w, id) ==
  IF "shared" \in a.flags /\ LookupAnonymousPhyspage(st, a.res, id) # 0
  THEN [s |-> PagingMap(st, u, LookupAnonymousPhyspage(st, a.res, id)), v |-> 0]
  ELSE IF w THEN NoPageWrite(st, a, u, id, RefNew(st.pm))
  ELSE [s |-> PagingMap(st, u, ZeroPage), v |-> 0]

ZeroNoPage(st, a, u, w) == ZeroNoPageAt(st, a, u, w, U(u - a.start) + a.off)

(***************************************************************************)
(* uvmm_lazy_loading: the arena at or after the faulting page handles the *)
(* fault.  A return other than 0 makes the handler spin in while(1).      *)
(***************************************************************************)
LazyLoadingWith(st, r) ==
  IF r.v # 0 THEN [st EXCEPT !.err = "hang"] ELSE r.s

UvmmLazyLoading(st, u, w) ==
  IF FindEnclosingOrNext(st.arenas, u) = 0 THEN [st EXCEPT !.err = "hang"]
  ELSE LazyLoadingWith(st, ZeroNoPage(st, st.arenas[FindEnclosingOrNext(st.arenas, u)], u, w))

(* The access is retried after the fault; a write reaches the frame. *)
Retry(st, u, w) ==
  IF w /\ st.err = "none" /\ st.pt[u] = ZeroPage
  THEN [st EXCEPT !.zeroWritten = TRUE] ELSE st

(***************************************************************************)
(* uvmm_delete_as: every arena is unlinked, ->unref is called on it, and  *)
(* its structure goes back to cache_of_arena; then the uvmm_as itself.    *)
(* The page directory is left as it is.                                   *)
(***************************************************************************)
RECURSIVE DeleteArenas(_)
DeleteArenas(st) ==
  IF st.arenas = <<>> THEN st
  ELSE DeleteArenas(ZeroUnref([st EXCEPT !.arenas = Tail(@),
                                         !.nstructs = @ - 1],
                              Head(st.arenas).res))

UvmmDeleteAs(st) == [DeleteArenas(st) EXCEPT !.live = FALSE]
(***************************************************************************)
(* uvmm_resize.  -EPERM (kerrno.h is not in the repository) is any        *)
(* non-zero value; EPERM below.  The arena is re-read through its id after *)
(* every call that may move or unlink it, as the C code re-reads it        *)
(* through its pointer; an unlinked arena keeps the fields it had.         *)
(***************************************************************************)
EPERM == 1

Cur(st, a) ==
  IF PosOf(st.arenas, a.id) = 0 THEN a ELSE st.arenas[PosOf(st.arenas, a.id)]

(* The first iteration of the remap loop of a moved arena: pages of the  *)
(* old arena from nu to nu + ns (inclusive) that are present are mapped  *)
(* at the same offset from the new address ra.                           *)
RemapVaddr(a, u, nu, ra) ==
  IF a.start >= nu THEN U(ra + U(u - a.start) + U(a.start - nu))
  ELSE U(ra + U(u - a.start) - U(nu - a.start))

RemapPage(st, vaddr, paddr) ==
  IF vaddr \notin UPages THEN [st EXCEPT !.err = "kernel"]
  ELSE PagingMap(st, vaddr, paddr)

RECURSIVE RemapLoop(_, _, _, _, _, _)
RemapLoop(st, a, u, nu, ns, ra) ==
  IF ~(u < End(a)) THEN st
  ELSE IF u < nu \/ u > U(nu + ns) \/ st.pt[u] = 0
  THEN RemapLoop(st, a, u + 1, nu, ns, ra)
  ELSE RemapLoop(RemapPage(st, RemapVaddr(a, u, nu, ra), st.pt[u]),
                 a, u + 1, nu, ns, ra)

(* After the remap, unmap the old arena; if that fails, unmap the new one. *)
MoveUnmapWith(ra, ns, m) ==
  IF m.v # 0 THEN [s |-> UvmmUnmap(m.s, ra, ns).s, v |-> m.v, addr |-> ra]
  ELSE [s |-> m.s, v |-> 0, addr |-> ra]

MoveWith(st, a, nu, ns, m) ==
  IF m.v # 0 THEN [s |-> m.s, v |-> m.v, addr |-> nu]
  ELSE MoveUnmapWith(m.addr, ns,
         UvmmUnmap(RemapLoop(m.s, Cur(m.s, a), Cur(m.s, a).start, nu, ns, m.addr),
                   Cur(m.s, a).start, Cur(m.s, a).size))

(* The arena must move: map the resource at the first free interval from *)
(* nu, remap the present pages, unmap the old arena.                      *)
ResizeMove(st, a, nu, ns, newoff) ==
  MoveWith(st, a, nu, ns,
           UvmmMap(st, nu, ns, a.prot, a.flags, a.res, newoff, TRUE))

(* In place: the end first, then the start. *)
(* Mutant: growing the end is not accounted. *)
GrowEndNoAccount(st, a, d) ==
  IF PosOf(st.arenas, a.id) = 0 THEN st
  ELSE [st EXCEPT !.arenas[PosOf(st.arenas, a.id)].size = U(@ + d)]

GrowEnd(st, a, d) ==
  AsAccount(IF PosOf(st.arenas, a.id) = 0 THEN st
            ELSE [st EXCEPT !.arenas[PosOf(st.arenas, a.id)].size = U(@ + d)],
            "shared" \in a.flags, d, {}, a.prot)

GrowStart(st, a, d, nu, newoff) ==
  AsAccount(IF PosOf(st.arenas, a.id) = 0 THEN st
            ELSE [st EXCEPT !.arenas[PosOf(st.arenas, a.id)].size = U(@ + d),
                            !.arenas[PosOf(st.arenas, a.id)].start = nu,
                            !.arenas[PosOf(st.arenas, a.id)].off = newoff],
            "shared" \in a.flags, d, {}, a.prot)

ResizeStart(st, a, nu, newoff) ==
  IF nu > a.start THEN UvmmUnmap(st, a.start, U(nu - a.start)).s
  ELSE GrowStart(st, a, U(a.start - nu), nu, newoff)

ResizeInPlace(st, a, nu, ns, newoff) ==
  LET st1 == IF U(nu + ns) < End(a)
             THEN UvmmUnmap(st, U(nu + ns), U(End(a) - U(nu + ns))).s
             ELSE GrowEnd(st, a, U(U(nu + ns) - End(a)))
  IN [s |-> ResizeStart(st1, Cur(st1, a), nu, newoff), v |-> 0, addr |-> nu]

(* Whether a neighbour is in the way; next_arena is read from prev_in_as. *)
MustMove(A, i, a, nu, ns) ==
  \/ A[PrevIn(A, i)].start < a.start /\ End(A[PrevIn(A, i)]) > nu
  \/ A[PrevIn(A, i)].start > a.start /\ A[PrevIn(A, i)].start < U(nu + ns)
  \/ ~IsUserArea(nu, ns)

ResizeAt(st, old, os, nu, ns, maymove, i, a) ==
  IF a.start > old \/ End(a) < U(old + os) THEN Failed(st, -EPERM)
  ELSE IF nu < a.start /\ a.start - nu > a.off THEN Failed(st, -EPERM)
  ELSE IF MustMove(st.arenas, i, a, nu, ns) /\ ~maymove THEN Failed(st, -EPERM)
  ELSE IF MustMove(st.arenas, i, a, nu, ns)
  THEN ResizeMove(st, a, nu, ns,
                  IF a.start > nu THEN a.off - (a.start - nu) ELSE a.off + (nu - a.start))
  ELSE ResizeInPlace(st, a, nu, ns,
                     IF a.start > nu THEN a.off - (a.start - nu) ELSE a.off + (nu - a.start))

UvmmResize(st, old, os, nu, ns, maymove) ==
  IF ~IsUserArea(nu, ns) \/ ns = 0 THEN Failed(st, -EPERM)
  ELSE IF FindEnclosingOrNext(st.arenas, old) = 0 THEN Failed(st, -EPERM)
  ELSE ResizeAt(st, old, os, nu, ns, maymove, FindEnclosingOrNext(st.arenas, old),
                st.arenas[FindEnclosingOrNext(st.arenas, old)])

(***************************************************************************)
(* uvmm_brk: the first call maps /dev/zero privately at the first free    *)
(* interval from heap_start (dev_zero_map writes the address, NULL on      *)
(* failure, into as->heap_start); later calls unmap the heap or resize it *)
(* in place.  Returns the new top, or NULL.                                *)
(***************************************************************************)
BrkFirst(st, newsize, m) ==
  IF m.v # 0 THEN [s |-> [m.s EXCEPT !.heapStart = m.addr], v |-> 0]
  ELSE [s |-> [m.s EXCEPT !.heapStart = m.addr, !.heapSize = newsize],
        v |-> U(m.addr + newsize)]

BrkThen(top, newsize, m) ==
  IF m.v # 0 THEN [s |-> m.s, v |-> 0]
  ELSE [s |-> [m.s EXCEPT !.heapSize = newsize], v |-> top]

BrkSized(st, top, newsize) ==
  IF st.heapSize = 0
  THEN BrkFirst(st, newsize, DevZeroMap(st, st.heapStart, newsize, {"R", "W"}, {}))
  ELSE IF newsize = 0
  THEN BrkThen(top, newsize, UvmmUnmap(st, st.heapStart, st.heapSize))
  ELSE BrkThen(top, newsize,
               UvmmResize(st, st.heapStart, st.heapSize, st.heapStart, newsize, FALSE))

UvmmBrk(st, top) ==
  IF top = 0 \/ top = U(st.heapStart + st.heapSize)
  THEN [s |-> st, v |-> U(st.heapStart + st.heapSize)]
  ELSE IF top < st.heapStart THEN [s |-> st, v |-> 0]
  ELSE BrkSized(st, top, U(top - st.heapStart))
-----------------------------------------------------------------------------
(***************************************************************************)
(* The callers.  exec maps the user stack and brk maps and moves the heap  *)
(* through dev_zero_map; uvmm_unmap and uvmm_resize are exported and      *)
(* called by brk; a user access to a page whose entry is not present      *)
(* faults into uvmm_lazy_loading (paging_pd_add_pt, which allocates the   *)
(* page table first, is left out: the table here is flat).  The argument  *)
(* sets are constants so that each layout chooses the calls it makes.     *)
(***************************************************************************)
CONSTANTS
  MapArgs,      \* [hint, size, prot, flags] records for dev_zero_map
  UnmapArgs,    \* <<uaddr, size>> pairs for uvmm_unmap
  ResizeArgs,   \* <<old, old_size, new, new_size, maymove>> for uvmm_resize
  BrkTops,      \* arguments of uvmm_brk
  StackHint,    \* exec: (0xFFBFFFFF - DEFAULT_USER_STACK_SIZE) + 1
  StackSize,    \* exec: DEFAULT_USER_STACK_SIZE
  MaxCalls      \* calls explored

VARIABLES st, calls
vars == <<st, calls>>

(* uvmm_create_empty_as: a zeroed uvmm_as from cache_of_as. *)
EmptyAs ==
  [pm |-> ZeroSetup.m, pt |-> [u \in UPages |-> 0], arenas |-> <<>>,
   res |-> [r \in ResIds |-> FreedRes], nstructs |-> 0,
   heapStart |-> 0, heapSize |-> 0,
   vm |-> [total |-> [f \in Fields |-> 0], shrd |-> [f \in Fields |-> 0]],
   zeroWritten |-> FALSE, err |-> "none", live |-> TRUE]

(* sys_exec creates the address space and maps the user stack, private. *)
Init ==
  /\ st = DevZeroMap(EmptyAs, StackHint, StackSize, {"R", "W"}, {}).s
  /\ calls = 0

CallBound == calls <= MaxCalls

Running == st.live /\ st.err = "none"

Call(next) == /\ st' = next /\ calls' = calls + 1

MapCall(m) ==
  /\ Running
  /\ Call(DevZeroMap(st, m.hint, m.size, m.prot, m.flags).s)

UnmapCall(a) ==
  /\ Running
  /\ Call(UvmmUnmap(st, a[1], a[2]).s)

ResizeCall(a) ==
  /\ Running
  /\ Call(UvmmResize(st, a[1], a[2], a[3], a[4], a[5]).s)

BrkCall(top) ==
  /\ Running
  /\ Call(UvmmBrk(st, top).s)

(* A write to a present page reaches its frame; a missing page faults. *)
Access(u, w) ==
  /\ Running
  /\ \/ /\ st.pt[u] # 0 /\ w /\ st.pt[u] = ZeroPage /\ ~st.zeroWritten
        /\ Call([st EXCEPT !.zeroWritten = TRUE])
     \/ /\ st.pt[u] = 0
        /\ Call(Retry(UvmmLazyLoading(st, u, w), u, w))

DeleteAs ==
  /\ Running
  /\ Call(UvmmDeleteAs(st))

Next ==
  \/ \E m \in MapArgs : MapCall(m)
  \/ \E a \in UnmapArgs : UnmapCall(a)
  \/ \E a \in ResizeArgs : ResizeCall(a)
  \/ \E top \in BrkTops : BrkCall(top)
  \/ \E u \in UPages, w \in BOOLEAN : Access(u, w)
  \/ DeleteAs

Spec == Init /\ [][Next]_vars
-----------------------------------------------------------------------------
(* Properties *)

ArenaType == [id : Nat, start : 0 .. Top, size : 0 .. Top, prot : Rights,
              flags : Flags, res : ResIds, off : Nat]

TypeOK ==
  /\ \A i \in DOMAIN st.arenas : st.arenas[i] \in ArenaType
  /\ st.pt \in [UPages -> 0 .. RamTop - 1]
  /\ \A r \in ResIds : /\ st.res[r].alive \in BOOLEAN /\ st.res[r].ref \in Int
                       /\ \A k \in DOMAIN st.res[r].pages :
                            st.res[r].pages[k][2] \in Frames
  /\ st.nstructs \in 0 .. ArenaCap
  /\ st.heapStart \in 0 .. Top /\ st.heapSize \in 0 .. Top
  /\ st.vm \in [{"total", "shrd"} -> [Fields -> 0 .. Top]]
  /\ st.err \in {"none", "hang", "loop", "kernel"}

(* How many references a frame should have: its reference at boot (the    *)
(* zero page's included), one per present page-table entry, one per entry *)
(* of the shared list of a live resource.                                  *)
Expected(f) ==
  ZeroSetup.m.ref[f]
  + Cardinality({u \in UPages : st.pt[u] = f})
  + SumFunction([r \in ResIds |->
                   IF st.res[r].alive
                   THEN Cardinality({k \in DOMAIN st.res[r].pages :
                                       st.res[r].pages[k][2] = f})
                   ELSE 0])

(* The reference count of every frame equals the mappings and shared-list *)
(* entries that hold it: zero_no_page, insert_anonymous_physpage,          *)
(* paging_unmap_interval, zero_unref and the remap of uvmm_resize take and *)
(* drop exactly one reference each.                                        *)
FrameRefsMatchMappings == \A f \in Frames : st.pm.ref[f] = Expected(f)

(* Every live /dev/zero resource's ref_cnt is the number of arenas mapping *)
(* it, and no arena maps a freed resource: the ->ref and ->unref calls of  *)
(* uvmm_map, the split and removal of uvmm_unmap and the merges balance.   *)
ResourceRefsMatchArenas ==
  /\ \A r \in ResIds :
       st.res[r].alive =>
         st.res[r].ref = Cardinality({i \in DOMAIN st.arenas : st.arenas[i].res = r})
  /\ \A i \in DOMAIN st.arenas : st.res[st.arenas[i].res].alive

(* The sizes of the arenas whose rights satisfy P, modulo 2^W. *)
SizeWhere(P(_), shared) ==
  U(SumFunctionOnSet([i \in DOMAIN st.arenas |-> st.arenas[i].size],
                     {i \in DOMAIN st.arenas :
                        P(st.arenas[i].prot)
                        /\ (shared => "shared" \in st.arenas[i].flags)}))

VmStat(sh) ==
  [overall |-> SizeWhere(LAMBDA p : p # {}, sh),
   rw      |-> SizeWhere(LAMBDA p : "W" \in p, sh),
   ro      |-> SizeWhere(LAMBDA p : "R" \in p /\ "W" \notin p, sh),
   code    |-> SizeWhere(LAMBDA p : "U" \in p, sh)]

(* as->vm_total and as->vm_shrd equal the sizes of the arenas they count: *)
(* every path that creates, widens, shrinks, splits or removes an arena   *)
(* calls as_account_change_of_arena_prot with the size that changed.      *)
VmStatsMatchArenas ==
  st.live => st.vm = [total |-> VmStat(FALSE), shrd |-> VmStat(TRUE)]

(* The arenas of the list are in user space, sorted by address and do not *)
(* overlap (spec.md: arenas of an address space never overlap).           *)
ArenasSortedDisjoint ==
  /\ \A i \in DOMAIN st.arenas :
       /\ st.arenas[i].size > 0 /\ st.arenas[i].start >= UserOffset
       /\ st.arenas[i].start + st.arenas[i].size <= Wrap
  /\ \A i \in 1 .. Len(st.arenas) - 1 :
       st.arenas[i].start + st.arenas[i].size <= st.arenas[i + 1].start

(* No user write reaches the zero page: uvmm.h says the page every        *)
(* anonymous mapping shares may only ever be mapped read-only, so that a  *)
(* write after a read fault copies it.                                     *)
ZeroPageReadOnly == ~st.zeroWritten

(* Every present user page lies inside an arena of the address space:    *)
(* uvmm_lazy_loading only maps pages of the arena that encloses the       *)
(* faulting address.                                                       *)
MappedPagesInArenas ==
  st.live =>
    \A u \in UPages :
      st.pt[u] # 0 =>
        \E i \in DOMAIN st.arenas :
          st.arenas[i].start <= u /\ u < st.arenas[i].start + st.arenas[i].size
=============================================================================
