------------------------------ MODULE MC_KVMM_Alias ------------------------------
(* Nine frames and ten virtual pages, the page-table frame being frame 9: *)
(* allocations run out of frames and reach virtual pages whose identity   *)
(* mapping names frames in use (the situation of a machine whose RAM is   *)
(* nearly exhausted).                                                     *)
EXTENDS KVMM

MC_RamTop == 10
MC_BiosStart == 2
MC_BiosEnd == 3
MC_KernBase == 3
MC_KernTop == 5
MC_VTop == 10
MC_PagingFrames == 1
MC_KvmmBase == 1
MC_StackBottom == 3
MC_StackTop == 4
MC_ObjPerSlab == 9
MC_MaxDepth == 3
MC_MaxAlloc == 2
MC_MaxCalls == 10
=============================================================================
