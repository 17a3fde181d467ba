------------------------------ MODULE MC_UVMM ------------------------------
(***************************************************************************)
(* One address space as the kernel's callers use it.  16 pages of 1:      *)
(* user space is pages 8..15; exec maps the stack at 12..14 (the last     *)
(* page stands for the page-table mirror above the stack); the heap is    *)
(* mapped by the first brk, at the first free interval from 0 (the heap   *)
(* start is never initialised: uvmm_init_heap has no caller).  Frames     *)
(* 1..6 with a BIOS page 2 and a kernel page 3; the zero page takes frame *)
(* 6, leaving three frames for write faults.                               *)
(***************************************************************************)
EXTENDS UVMM

MC_RamTop == 7
MC_BiosStart == 2
MC_BiosEnd == 3
MC_KernBase == 3
MC_KernTop == 4
MC_W == 4
MC_UserOffset == 8
MC_StackHint == 12
MC_StackSize == 3
MC_MaxRes == 3
MC_ArenaCap == 4
MC_MaxLoop == 6
MC_MapArgs == {}
MC_UnmapArgs == {}
MC_ResizeArgs == {}
MC_BrkTops == {2, 8, 9, 10, 13}
MC_MaxCalls == 6
=============================================================================
