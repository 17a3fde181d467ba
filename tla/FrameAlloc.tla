----------------------------- MODULE FrameAlloc -----------------------------
(***************************************************************************)
(* What the frame allocator promises its callers (spec.md section 4.1),    *)
(* stated on reference counts alone: an allocation hands out a frame       *)
(* nobody references and gives it one reference; a reference on a frame    *)
(* adds one; dropping a reference never takes a count below zero.  Which   *)
(* free frame is handed out is left open.                                  *)
(***************************************************************************)
EXTENDS Naturals

CONSTANTS Frames, Addrs

VARIABLES refcnt,  \* reference count of every frame
          held     \* references the kernel holds on every frame

vars == <<refcnt, held>>

Init == held = [x \in Frames |-> 0] /\ refcnt \in [Frames -> {0, 1}]

Alloc ==
  \E f \in Frames :
    /\ refcnt[f] = 0
    /\ refcnt' = [refcnt EXCEPT ![f] = 1]
    /\ held' = [held EXCEPT ![f] = @ + 1]

Ref(x) ==
  /\ x \in Frames
  /\ refcnt' = [refcnt EXCEPT ![x] = @ + 1]
  /\ held' = [held EXCEPT ![x] = @ + 1]

Release(x) ==
  /\ held[x] > 0 /\ refcnt[x] > 0
  /\ refcnt' = [refcnt EXCEPT ![x] = @ - 1]
  /\ held' = [held EXCEPT ![x] = @ - 1]

Next ==
  \/ Alloc
  \/ \E x \in Addrs : Ref(x)
  \/ \E x \in Frames : Release(x)

Spec == Init /\ [][Next]_vars
=============================================================================
