--------------------------- MODULE MC_UVMM_Resize ---------------------------
(***************************************************************************)
(* uvmm_resize with ARENA_REMAP_MAYMOVE on two /dev/zero arenas below the *)
(* stack, [8,9) read-only and [9,11) mapped with ARENA_MAP_FIXED.  Same    *)
(* layout as MC_UVMM.                                                      *)
(*   RS_Move: [9,11) is moved to 8; its prev [8,9) is in the way.          *)
(*   RS_Grow: [8,9) grows to [10,12); next_arena is read from prev_in_as.  *)
(***************************************************************************)
EXTENDS MC_UVMM

RS_MapArgs ==
  {[hint |-> 9, size |-> 2, prot |-> {"R", "W"}, flags |-> {"fixed"}],
   [hint |-> 0, size |-> 1, prot |-> {"R"}, flags |-> {}]}
RS_Move == {<<9, 2, 8, 2, TRUE>>}
RS_Grow == {<<8, 1, 10, 2, TRUE>>}
RS_BrkTops == {}
RS_MaxCalls == 4
RS_ArenaCap == 8
=============================================================================
