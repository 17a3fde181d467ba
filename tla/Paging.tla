------------------------------- MODULE Paging -------------------------------
(***************************************************************************)
(* The kernel page table of src/mem/paging.c, as seen by the kernel range  *)
(* allocator.  A virtual page is named by its number (address / 4096) in  *)
(* the same numbering as the frames of PhysMemOps.tla.  The table maps     *)
(* each virtual page below VTop to a frame number, 0 meaning "present bit  *)
(* clear"; paging_virtual_to_physical then returns 0, the NULL address.    *)
(*                                                                         *)
(* The operators take and return the part of the machine state that the   *)
(* driver touches, a record [pm, pt, ...] whose pm is the frame allocator  *)
(* state of PhysMemOps.tla.                                                *)
(***************************************************************************)
EXTENDS PhysMemOps

CONSTANTS
  VTop,          \* virtual pages modelled: 0 .. VTop-1 (KVMM_TOP in pages)
  PagingFrames   \* frames paging_init takes for the directory and tables

VPages == 0 .. VTop - 1

(***************************************************************************)
(* paging_init: the directory and its page tables are taken with           *)
(* physmem_ref_physpage_new (so from the head of the free list, the top    *)
(* of RAM), and every table entry maps its virtual page to the same        *)
(* physical page with P_READ (= P_PRESENT) | P_WRITE: the whole address    *)
(* space is identity-mapped.  The 1024 tables and the directory are        *)
(* PagingFrames frames here; the mirroring entry lies above VTop.          *)
(***************************************************************************)
RECURSIVE TakeFrames(_, _)
TakeFrames(m, k) ==
  IF k = 0 THEN [m |-> m, v |-> {}]
  ELSE LET r == RefNew(m)
           rest == TakeFrames(r.m, k - 1)
       IN [m |-> rest.m, v |-> rest.v \cup {r.v}]

PagingInit(m) ==
  LET t == TakeFrames(m, PagingFrames)
  IN [pm |-> t.m, pt |-> [v \in VPages |-> v], tables |-> t.v]

(* paging_virtual_to_physical: 0 when the present bit is clear. *)
VirtualToPhysical(st, v) == st.pt[v]

(***************************************************************************)
(* paging_map: take a reference on the frame (whatever it was before),     *)
(* then overwrite the entry.  It never fails and never drops the           *)
(* reference of the frame that the entry mapped before.                    *)
(***************************************************************************)
(* Mutant: the entry is written without taking a reference on the frame. *)
PagingMapNoRef(st, v, f) == [st EXCEPT !.pt[v] = f]

PagingMap(st, v, f) ==
  [st EXCEPT !.pm = RefAt(@, f).m, !.pt[v] = f]

(***************************************************************************)
(* paging_unmap: translate, clear the present bit, and drop one reference  *)
(* on the frame it translated to (a no-op when nothing was mapped, since   *)
(* frame 0 has no descriptor).                                             *)
(***************************************************************************)
PagingUnmap(st, v) ==
  LET phys == VirtualToPhysical(st, v)
  IN [st EXCEPT !.pt[v] = 0, !.pm = Unref(@, phys).m]

(* paging_unmap_interval over pages [v, v+n). *)
RECURSIVE UnmapInterval(_, _, _)
UnmapInterval(st, v, n) ==
  IF n <= 0 THEN st ELSE UnmapInterval(PagingUnmap(st, v), v + 1, n - 1)
=============================================================================
