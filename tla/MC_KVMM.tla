------------------------------ MODULE MC_KVMM ------------------------------
(* The main layout: 20 frames (the page-table frame is frame 20, at the  *)
(* top of RAM) and 12 virtual pages: free zone page 1, BIOS page 2,       *)
(* kernel pages 3-4 with the bootstrap stack on page 3, the first slab of *)
(* caches on page 5 and of ranges on page 6, free pages 7-11.  There are  *)
(* more frames than kvmm pages, as on the real machine, so a new range    *)
(* never meets an identity-mapped frame that is in use; nine range        *)
(* structures per slab let the range cache grow and release slabs within  *)
(* MaxCalls client calls.                                                 *)
EXTENDS KVMM

MC_RamTop == 21
MC_BiosStart == 2
MC_BiosEnd == 3
MC_KernBase == 3
MC_KernTop == 5
MC_VTop == 12
MC_PagingFrames == 1
MC_KvmmBase == 1
MC_StackBottom == 3
MC_StackTop == 4
MC_ObjPerSlab == 9
MC_MaxDepth == 3
MC_MaxAlloc == 2
MC_MaxCalls == 10
=============================================================================
