---------------------------- MODULE MC_PhysMem ----------------------------
(* Frame allocator alone: frames 1..6, a BIOS page 2, a kernel page 3.    *)
EXTENDS PhysMem

MC_RamTop == 7
MC_BiosStart == 2
MC_BiosEnd == 3
MC_KernBase == 3
MC_KernTop == 4
MC_MaxRef == 2
=============================================================================
