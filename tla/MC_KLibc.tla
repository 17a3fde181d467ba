------------------------------ MODULE MC_KLibc ------------------------------
(* Four bytes of memory holding 'A', 'B' and NULs (the last byte a NUL),  *)
(* 8-bit ints, so that 0, 7, -1, the smallest and the largest int, and    *)
(* the long long values 0, -1, the smallest one and 1000 reach every sign *)
(* and wrap case of the conversions; every kprintf directive the kernel   *)
(* uses (%d %u %x %s %lu) with the flags, width and modifiers do_printf    *)
(* parses, and every snprintf conversion, at buffer lengths 0, 1, 3, 5.   *)
EXTENDS KLibc

MC_Bytes == {0, 65, 66}
MC_Ints == {0, 7, -1, -128, 127}
MC_LLInts == {0, -1, -32768, 1000}
MC_Strs == {<<65>>, <<65, 66>>}
MC_CharArgs == {66, 322}
MC_KDirs ==
  [fl : {{}, {"-"}, {"0"}, {"-", "0"}}, wd : {0, 3}, mod : {"", "l", "h"},
   conv : {Ch.d, Ch.i, Ch.u, Ch.x, Ch.X, Ch.o}]
  \cup [fl : {{}, {"-"}}, wd : {0, 3}, mod : {""}, conv : {Ch.c, Ch.s}]
MC_SDirs ==
  [fl : {{}}, wd : {0}, mod : {"", "l", "ll"}, conv : {Ch.d, Ch.u, Ch.x, Ch.p}]
  \cup [fl : {{}}, wd : {0}, mod : {""}, conv : {Ch.c, Ch.s, Ch.pct}]
MC_Lens == {0, 1, 3, 5}
=============================================================================
