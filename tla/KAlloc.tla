------------------------------- MODULE KAlloc -------------------------------
(***************************************************************************)
(* What kmalloc and kfree promise their callers, as include/kmalloc.h and  *)
(* the callers in the kernel use them: kmalloc(size) returns NULL or the   *)
(* address of size bytes that overlap no block still allocated; kfree of  *)
(* a block returns 0 and ends it; kfree of an address that is not a block *)
(* returns an error and changes nothing.                                   *)
(*                                                                         *)
(* blocks: the allocated blocks, address -> requested size.  last: the     *)
(* last call and its result.                                               *)
(***************************************************************************)
EXTENDS Integers, TLC

CONSTANTS Sizes, NULL

VARIABLES blocks, last

Span(a, n) == a .. a + n - 1
Disjoint(a, n) == \A b \in DOMAIN blocks : Span(a, n) \cap Span(b, blocks[b]) = {}

Init == /\ blocks = [b \in {} |-> 0]
        /\ last = [op |-> "none"]

(* The result of each call is the one recorded in last'. *)
Malloc == \E size \in Sizes :
  LET r == last'.ret
  IN  /\ last'.op = "kmalloc"
      /\ last' = [op |-> "kmalloc", arg |-> size, ret |-> r]
      /\ \/ r = NULL /\ UNCHANGED blocks
         \/ /\ r # NULL /\ r \notin DOMAIN blocks /\ Disjoint(r, size)
            /\ blocks' = blocks @@ (r :> size)

Free ==
  LET a == last'.arg
      ret == last'.ret
  IN  /\ last'.op = "kfree"
      /\ last' = [op |-> "kfree", arg |-> a, ret |-> ret]
      /\ IF a \in DOMAIN blocks
         THEN ret = 0 /\ blocks' = [b \in DOMAIN blocks \ {a} |-> blocks[b]]
         ELSE ret # 0 /\ UNCHANGED blocks

Next == Malloc \/ Free

Spec == Init /\ [][Next]_<<blocks, last>>
====
