---------------------------- MODULE MC_UVMM_Api ----------------------------
(***************************************************************************)
(* The exported uvmm interface with arguments no current caller passes:   *)
(* shared and fixed /dev/zero mappings, uvmm_unmap of part of an arena,   *)
(* uvmm_resize with ARENA_REMAP_MAYMOVE.  Same layout as MC_UVMM.          *)
(***************************************************************************)
EXTENDS MC_UVMM

RW == {"R", "W"}

API_MapArgs ==
  {[hint |-> 8, size |-> 3, prot |-> RW, flags |-> {"shared"}],
   [hint |-> 9, size |-> 2, prot |-> RW, flags |-> {"fixed"}],
   [hint |-> 0, size |-> 1, prot |-> {"R"}, flags |-> {}]}
API_UnmapArgs == {<<9, 1>>, <<8, 2>>}
API_ResizeArgs ==
  {<<10, 1, 9, 2, TRUE>>, <<8, 1, 10, 2, TRUE>>, <<9, 2, 8, 2, TRUE>>}
API_BrkTops == {}
API_MaxCalls == 5
API_ArenaCap == 8
=============================================================================
