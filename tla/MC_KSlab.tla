------------------------------ MODULE MC_KSlab ------------------------------
(* The sizes of the i386 build (4 KiB pages, 28-byte struct kslab, 44-byte *)
(* struct kslab_cache, 8-byte struct kslab_free_obj) and the whole kmalloc *)
(* table, over a pool of nine kernel pages: kmalloc(8) takes the 8-byte    *)
(* class (ON_SLAB, one page), kmalloc(4096) the 4096-byte class (OFF_SLAB, *)
(* four pages, four objects, so a slab fills), kmalloc(20000) five pages  *)
(* of kvmm; together they exhaust the pool, and five blocks at once give  *)
(* the 4096-byte cache a second slab.                                      *)
EXTENDS KSlab

MC_Classes ==
  << [size |-> 8, pages |-> 1], [size |-> 16, pages |-> 1],
     [size |-> 32, pages |-> 1], [size |-> 64, pages |-> 1],
     [size |-> 128, pages |-> 1], [size |-> 256, pages |-> 2],
     [size |-> 1024, pages |-> 2], [size |-> 2048, pages |-> 3],
     [size |-> 4096, pages |-> 4], [size |-> 8192, pages |-> 8],
     [size |-> 16384, pages |-> 12] >>
=============================================================================
