----------------------------- MODULE PhysMemOps -----------------------------
(***************************************************************************)
(* The physical frame allocator of src/mem/physmem.c.                      *)
(*                                                                         *)
(* A frame is named by its page number (physical address / PAGE_SIZE).     *)
(* Page 0 is kept out of the lists so that address 0 can mean "no page".   *)
(* The allocator keeps, per frame, a reference count and a back-reference  *)
(* to the kernel range that maps it, plus two lists: the free list (a      *)
(* LIFO: setup and unref add at the head, ref_new pops the head) and the   *)
(* used list (whose order is never observed, so it is a set here).         *)
(*                                                                         *)
(* The operators below take the allocator state as a record                *)
(*    [ref, free, used, krange]                                            *)
(* and return [m |-> next state, v |-> return value], so that the kernel   *)
(* range allocator (KVMM.tla) can compose them inside one atomic call, the *)
(* way the C code calls them.  PhysMem.tla is the allocator on its own.    *)
(***************************************************************************)
EXTENDS Naturals, Sequences, FiniteSets
LOCAL INSTANCE SequencesExt

CONSTANTS
  RamTop,      \* physmem_top in pages: frames are 1 .. RamTop-1
  BiosStart,   \* BIOS_N_VIDEO_START in pages
  BiosEnd,     \* BIOS_N_VIDEO_END in pages
  KernBase,    \* kernel_core_base in pages
  KernTop,     \* kernel_core_top in pages (image + descriptor array)
  NoRange      \* the NULL kernel_range back-reference

ASSUME /\ 1 <= BiosStart /\ BiosStart <= BiosEnd /\ BiosEnd <= KernBase
       /\ KernBase < KernTop /\ KernTop <= RamTop

(* get_page_descr_at_paddr: the frames that have a descriptor. *)
Frames == 1 .. RamTop - 1

IsFrame(a) == a \in Frames

(***************************************************************************)
(* physmem_setup: the state after the scan of physical pages.  Pages are   *)
(* scanned upwards and free ones are added at the head, so the free list   *)
(* is in descending address order; BIOS/video and kernel pages start with  *)
(* one reference.                                                          *)
(***************************************************************************)
SetupKind(a) ==
  IF a \in BiosStart .. BiosEnd - 1 \/ a \in KernBase .. KernTop - 1
  THEN "used" ELSE "free"

SetupState ==
  LET freeSet == {a \in Frames : SetupKind(a) = "free"}
      rank(a) == Cardinality({b \in freeSet : b > a}) + 1
  IN [ref    |-> [a \in Frames |-> IF SetupKind(a) = "used" THEN 1 ELSE 0],
      free   |-> [i \in 1 .. Cardinality(freeSet) |->
                    CHOOSE a \in freeSet : rank(a) = i],
      used   |-> Frames \ freeSet,
      krange |-> [a \in Frames |-> NoRange]]

(***************************************************************************)
(* physmem_ref_physpage_new: pop the head of the free list.  A popped      *)
(* frame whose count is already 1 is dropped and NULL returned.            *)
(***************************************************************************)
RefNew(m) ==
  IF m.free = <<>>
  THEN [m |-> m, v |-> 0]
  ELSE LET f == Head(m.free)
       IN IF m.ref[f] = 1
          THEN [m |-> [m EXCEPT !.free = Tail(@)], v |-> 0]
          ELSE [m |-> [m EXCEPT !.free = Tail(@),
                                !.ref[f] = @ + 1,
                                !.used = @ \cup {f}],
                v |-> f]

(* Mutant: the page is not taken off the free list on the 0 -> 1 edge. *)
RefAtKeepFree(m, a) ==
  IF ~IsFrame(a) THEN [m |-> m, v |-> -1]
  ELSE IF m.ref[a] + 1 = 1
       THEN [m |-> [m EXCEPT !.ref[a] = 1, !.used = @ \cup {a}], v |-> FALSE]
       ELSE [m |-> [m EXCEPT !.ref[a] = @ + 1], v |-> TRUE]

(***************************************************************************)
(* physmem_ref_physpage_at: -1 for a page without descriptor, FALSE when   *)
(* the page was free (it moves to the used list), TRUE when it was         *)
(* already referenced.                                                     *)
(***************************************************************************)
RefAt(m, a) ==
  IF ~IsFrame(a)
  THEN [m |-> m, v |-> -1]
  ELSE IF m.ref[a] + 1 = 1
       THEN [m |-> [m EXCEPT !.ref[a] = 1,
                             !.free = Remove(@, a),
                             !.used = @ \cup {a}],
             v |-> FALSE]
       ELSE [m |-> [m EXCEPT !.ref[a] = @ + 1], v |-> TRUE]

(* Mutant: no check for a page without references; the count is          *)
(* decremented on the last-reference edge.                                 *)
UnrefNoRefCheck(m, a) ==
  IF ~IsFrame(a) THEN [m |-> m, v |-> -1]
  ELSE IF m.ref[a] - 1 <= 0
       THEN [m |-> [m EXCEPT !.ref[a] = @ - 1, !.used = @ \ {a},
                             !.free = <<a>> \o @], v |-> TRUE]
       ELSE [m |-> [m EXCEPT !.ref[a] = @ - 1], v |-> FALSE]

(* Mutant: the page is freed when one reference is left (off by one). *)
UnrefOffByOne(m, a) ==
  IF ~IsFrame(a) \/ m.ref[a] <= 0 THEN [m |-> m, v |-> -1]
  ELSE IF m.ref[a] - 1 <= 1
       THEN [m |-> [m EXCEPT !.ref[a] = 0, !.used = @ \ {a},
                             !.free = <<a>> \o @], v |-> TRUE]
       ELSE [m |-> [m EXCEPT !.ref[a] = @ - 1], v |-> FALSE]

(***************************************************************************)
(* physmem_unref_physpage: -1 for a page without descriptor or with no     *)
(* reference, TRUE when the last reference went (the page goes to the      *)
(* head of the free list), FALSE otherwise.                                *)
(***************************************************************************)
Unref(m, a) ==
  IF ~IsFrame(a) \/ m.ref[a] <= 0
  THEN [m |-> m, v |-> -1]
  ELSE IF m.ref[a] - 1 <= 0
       THEN [m |-> [m EXCEPT !.ref[a] = 0,
                             !.used = @ \ {a},
                             !.free = <<a>> \o @],
             v |-> TRUE]
       ELSE [m |-> [m EXCEPT !.ref[a] = @ - 1], v |-> FALSE]

(* physmem_get_kvmm_range / physmem_set_kvmm_range *)
GetKvmmRange(m, a) == IF IsFrame(a) THEN m.krange[a] ELSE NoRange

SetKvmmRange(m, a, r) ==
  IF IsFrame(a) THEN [m EXCEPT !.krange[a] = r] ELSE m

=============================================================================
