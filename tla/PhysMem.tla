------------------------------ MODULE PhysMem ------------------------------
(***************************************************************************)
(* The frame allocator of src/mem/physmem.c on its own (operators in       *)
(* PhysMemOps.tla), driven by a kernel that holds references, and shown to *)
(* implement the abstract allocator of FrameAlloc.tla.                     *)
(***************************************************************************)
EXTENDS PhysMemOps
LOCAL INSTANCE SequencesExt

(***************************************************************************)
(* The allocator on its own.  The kernel around it holds references: it    *)
(* allocates frames, references frames it already holds (a second mapping, *)
(* the zero page, a shared anonymous page) or any page it translates to    *)
(* (paging_map of an identity-mapped address), and drops references, also *)
(* on pages it does not hold (paging_unmap of an identity mapping).        *)
(***************************************************************************)
CONSTANT MaxRef   \* bound on the references the kernel holds on one frame

VARIABLES pm, held

vars == <<pm, held>>

Init == /\ pm = SetupState
        /\ held = [a \in Frames |-> 0]

(* physmem_ref_physpage_new called by a kernel path (kvmm_new_range,       *)
(* zero_no_page, paging_pd_create).                                        *)
AllocFrame ==
  LET r == RefNew(pm)
  IN /\ pm' = r.m
     /\ held' = IF r.v = 0 THEN held ELSE [held EXCEPT ![r.v] = @ + 1]

(* physmem_ref_physpage_at on any page address, a frame or not. *)
RefFrame(a) ==
  LET r == RefAt(pm, a)
  IN /\ IsFrame(a) => held[a] < MaxRef
     /\ pm' = r.m
     /\ held' = IF ~IsFrame(a) THEN held ELSE [held EXCEPT ![a] = @ + 1]

(* physmem_unref_physpage of a reference the kernel holds. *)
ReleaseFrame(a) ==
  /\ held[a] > 0
  /\ pm' = Unref(pm, a).m
  /\ held' = [held EXCEPT ![a] = @ - 1]

(* physmem_unref_physpage of a page with no reference or no descriptor    *)
(* (paging_unmap of an address that maps nothing managed).                *)
UnrefStray(a) ==
  /\ IsFrame(a) => pm.ref[a] = 0
  /\ pm' = Unref(pm, a).m
  /\ UNCHANGED held

Addrs == 0 .. RamTop

Next ==
  \/ AllocFrame
  \/ \E a \in Addrs : RefFrame(a)
  \/ \E a \in Frames : ReleaseFrame(a)
  \/ \E a \in Addrs : UnrefStray(a)

Spec == Init /\ [][Next]_vars

-----------------------------------------------------------------------------
TypeOK ==
  /\ pm.ref \in [Frames -> Nat]
  /\ pm.free \in Seq(Frames)
  /\ pm.used \subseteq Frames
  /\ held \in [Frames -> 0 .. MaxRef]

(***************************************************************************)
(* The two lists partition the frames by reference count: a frame is on    *)
(* the free list exactly once iff its count is 0, and on the used list iff *)
(* its count is positive (ref_at/unref move frames on the 0<->1 edges;     *)
(* ref_new pops one).                                                      *)
(***************************************************************************)
ListsMatchRefcounts ==
  /\ \A a \in Frames :
       /\ Contains(pm.free, a) <=> pm.ref[a] = 0
       /\ a \in pm.used <=> pm.ref[a] > 0
  /\ \A i, j \in 1 .. Len(pm.free) : i # j => pm.free[i] # pm.free[j]

(***************************************************************************)
(* Refinement: physmem_ref_physpage_new, _at and physmem_unref_physpage,   *)
(* under any sequence of kernel calls, implement the abstract allocator of *)
(* FrameAlloc.tla: a new frame is one nobody references, and no count     *)
(* drops by more than one or below zero (the leak path of ref_new and a    *)
(* refused unref are stuttering steps).                                    *)
(***************************************************************************)
Abstract == INSTANCE FrameAlloc WITH refcnt <- pm.ref, held <- held
AbstractSpec == Abstract!Spec
=============================================================================
