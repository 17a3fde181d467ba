------------------------------ MODULE MC_KVMM_Split ------------------------------
(* Ten frames and ten virtual pages: the free tail [7, 10) is the first  *)
(* fit of a two-page request whose structure allocation grows the range   *)
(* cache out of that same tail.                                            *)
EXTENDS KVMM

MC_RamTop == 11
MC_BiosStart == 2
MC_BiosEnd == 3
MC_KernBase == 3
MC_KernTop == 5
MC_VTop == 10
MC_PagingFrames == 1
MC_KvmmBase == 1
MC_StackBottom == 3
MC_StackTop == 4
MC_ObjPerSlab == 9
MC_MaxDepth == 3
MC_MaxAlloc == 2
MC_MaxCalls == 10
=============================================================================
