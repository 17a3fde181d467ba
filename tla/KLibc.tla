-------------------------------- MODULE KLibc --------------------------------
(***************************************************************************)
(* The kernel's C library, src/klibc.c: the memory and string routines,    *)
(* itoa, and the two formatters (do_printf behind kprintf, and vsnprintf   *)
(* behind snprintf).  Every routine is a pure operator that follows the   *)
(* loop of the code; each is checked against a reference definition of    *)
(* what the C library promises, over every input of small sets.           *)
(*                                                                         *)
(* Memory is a function from the addresses 0 .. MemTop-1 to bytes.  A     *)
(* character is its ASCII code (NUL is 0); a string argument of the       *)
(* formatters is the sequence of its characters before the NUL.  Integers *)
(* have Bits bits (int, long and unsigned long are all 32 bits wide on    *)
(* the i386 build, short half of that, long long twice), so every         *)
(* signed/unsigned conversion of the code wraps exactly as it does there, *)
(* only at a smaller width.                                                *)
(***************************************************************************)
EXTENDS Integers, Sequences
LOCAL INSTANCE SequencesExt

CONSTANTS
  MemTop,   \* number of bytes of memory
  Bytes,    \* byte values stored in memory (0 among them)
  Bits      \* width of int/long in bits (32 on the build)

ASSUME MemTop >= 2 /\ 0 \in Bytes /\ Bits >= 4 /\ Bits % 4 = 0

Addr == 0 .. MemTop - 1
ShortBits == Bits \div 2
LongLongBits == 2 * Bits

(* The ASCII codes the routines compare with or produce. *)
Ch == [nul |-> 0, nl |-> 10, space |-> 32, pct |-> 37, minus |-> 45,
       zero |-> 48, A |-> 65, F |-> 70, N |-> 78, X |-> 88, a |-> 97,
       c |-> 99, d |-> 100, h |-> 104, i |-> 105, l |-> 108, n |-> 110,
       o |-> 111, p |-> 112, s |-> 115, u |-> 117, x |-> 120]

Digit(k) == Ch.zero + k

(* Two's complement views of an integer at width w. *)
Unsigned(v, w) == v % (2 ^ w)
Signed(v, w) == IF Unsigned(v, w) >= 2 ^ (w - 1) THEN Unsigned(v, w) - 2 ^ w
                ELSE Unsigned(v, w)

(* C's / and % on ints truncate toward zero. *)
CDiv(a, b) == IF a < 0 THEN -((-a) \div b) ELSE a \div b
CRem(a, b) == a - b * CDiv(a, b)
-----------------------------------------------------------------------------
(***************************************************************************)
(* Memory and string routines.  m is the memory; each returns the memory  *)
(* after the call or the value the routine returns.                        *)
(***************************************************************************)
RECURSIVE MemsetLoop(_, _, _, _), MemmoveDown(_, _, _, _), MemmoveUp(_, _, _, _),
          MemcpyLoop(_, _, _, _), StrEnd(_, _), StrcpyLoop(_, _, _),
          StrncpyCopy(_, _, _, _, _), StrncpyPad(_, _, _, _), StrzcpyLoop(_, _, _, _, _),
          StrcmpLoop(_, _, _, _), StrchrnulLoop(_, _, _)

(* Mutant: the int c is stored without the cast to char. *)
MemsetNoCast(m, d, c, n) ==
  IF n = 0 THEN m ELSE MemsetLoop([m EXCEPT ![d] = c], d + 1, c, n - 1)

(* memset: while (n--) *d++ = (char)c *)
MemsetLoop(m, d, c, n) ==
  IF n = 0 THEN m ELSE MemsetLoop([m EXCEPT ![d] = c % 256], d + 1, c, n - 1)

memset(m, s, c, n) == MemsetLoop(m, s, c, n)

(* memmove: from the top down when the source lies below the destination, *)
(* from the bottom up otherwise.                                           *)
MemmoveDown(m, to, from, len) ==
  IF len = 0 THEN m
  ELSE MemmoveDown([m EXCEPT ![to + len - 1] = m[from + len - 1]], to, from, len - 1)

MemmoveUp(m, to, from, len) ==
  IF len = 0 THEN m ELSE MemmoveUp([m EXCEPT ![to] = m[from]], to + 1, from + 1, len - 1)

(* Mutant: always copies upwards, whatever the overlap. *)
MemmoveAlwaysUp(m, to, from, len) == MemmoveUp(m, to, from, len)

memmove(m, to, from, len) ==
  IF from < to THEN MemmoveDown(m, to, from, len) ELSE MemmoveUp(m, to, from, len)

(* memcpy: byte by byte upwards *)
MemcpyLoop(m, dst, src, size) ==
  IF size = 0 THEN m ELSE MemcpyLoop([m EXCEPT ![dst] = m[src]], dst + 1, src + 1, size - 1)

memcpy(m, dst, src, size) == MemcpyLoop(m, dst, src, size)

(* strlen: the address of the terminating NUL, minus the start *)
StrEnd(m, p) == IF m[p] = Ch.nul THEN p ELSE StrEnd(m, p + 1)

strlen(m, s) == StrEnd(m, s) - s

(* strcpy: copy up to the NUL, then write the NUL *)
StrcpyLoop(m, d, s) ==
  IF m[s] = Ch.nul THEN [m EXCEPT ![d] = Ch.nul]
  ELSE StrcpyLoop([m EXCEPT ![d] = m[s]], d + 1, s + 1)

strcpy(m, dest, src) == StrcpyLoop(m, dest, src)

(* strncpy: copy while s2[i] != 0 && i < n (s2[i] is read first), then   *)
(* pad with NULs up to n.                                                 *)
StrncpyCopy(m, s1, s2, n, i) ==
  IF m[s2 + i] # Ch.nul /\ i < n
  THEN StrncpyCopy([m EXCEPT ![s1 + i] = m[s2 + i]], s1, s2, n, i + 1)
  ELSE StrncpyPad(m, s1, n, i)

StrncpyPad(m, s1, n, i) ==
  IF i < n THEN StrncpyPad([m EXCEPT ![s1 + i] = Ch.nul], s1, n, i + 1) ELSE m

strncpy(m, s1, s2, n) == StrncpyCopy(m, s1, s2, n, 0)

(* strzcpy: copy at most len bytes, stop after a NUL; when none was met, *)
(* the last byte copied is replaced by a NUL.                             *)
(* Mutant: a source of len or more characters is left unterminated. *)
StrzcpyNoTerm(m, dst, src, len, i) ==
  IF i = len THEN m
  ELSE LET m2 == [m EXCEPT ![dst + i] = m[src + i]]
       IN IF m2[src + i] = Ch.nul THEN m2 ELSE StrzcpyLoop(m2, dst, src, len, i + 1)

StrzcpyLoop(m, dst, src, len, i) ==
  IF i = len THEN [m EXCEPT ![dst + len - 1] = Ch.nul]
  ELSE LET m2 == [m EXCEPT ![dst + i] = m[src + i]]
       IN IF m2[src + i] = Ch.nul THEN m2 ELSE StrzcpyLoop(m2, dst, src, len, i + 1)

strzcpy(m, dst, src, len) == IF len <= 0 THEN m ELSE StrzcpyLoop(m, dst, src, len, 0)

(* strcmp: 0 when the strings are equal, 1 otherwise (never negative) *)
StrcmpLoop(m, dst, src, i) ==
  IF m[dst + i] # m[src + i] THEN 1
  ELSE IF m[src + i] = Ch.nul THEN 0
  ELSE StrcmpLoop(m, dst, src, i + 1)

strcmp(m, dst, src) == StrcmpLoop(m, dst, src, 0)

(* strchrnul: the first c of the string, or its NUL *)
StrchrnulLoop(m, i, c) ==
  IF m[i] = Ch.nul THEN i ELSE IF m[i] = c THEN i ELSE StrchrnulLoop(m, i + 1, c)

strchrnul(m, s, c) == StrchrnulLoop(m, s, c)

(***************************************************************************)
(* itoa: the digits of ud are produced lowest first by the do-while loop  *)
(* and the buffer is reversed in place; for base 'd' a negative d puts a  *)
(* '-' first and converts -d (which wraps for the smallest int).  Any base *)
(* other than 'x' divides by 10.  The result is the string written to buf. *)
(***************************************************************************)
RECURSIVE ItoaLoop(_, _)
ItoaLoop(ud, divisor) ==
  LET r == ud % divisor
      c == IF r < 10 THEN Digit(r) ELSE Ch.a + r - 10
  IN <<c>> \o (IF ud \div divisor = 0 THEN <<>> ELSE ItoaLoop(ud \div divisor, divisor))

(* Mutant: the '-' is written but ud is not negated. *)
ItoaNoNegate(base, d) ==
  IF base = Ch.d /\ d < 0
  THEN <<Ch.minus>> \o Reverse(ItoaLoop(Unsigned(d, Bits), 10))
  ELSE Reverse(ItoaLoop(Unsigned(d, Bits), IF base = Ch.x THEN 16 ELSE 10))

itoa(base, d) ==
  IF base = Ch.d /\ d < 0
  THEN <<Ch.minus>> \o Reverse(ItoaLoop(Unsigned(-d, Bits), 10))
  ELSE Reverse(ItoaLoop(Unsigned(d, Bits), IF base = Ch.x THEN 16 ELSE 10))
-----------------------------------------------------------------------------
(***************************************************************************)
(* do_printf, the formatter of kprintf.  The scan is a machine over       *)
(* p = [st, fl, wd, cnt, out, args, pos]: its state (0 awaiting '%', 1    *)
(* flags, 2 width, 3 modifiers, 4 conversion), the flag set (PR_LJ ...   *)
(* as names), given_wd, count, the characters passed to kputchar, the     *)
(* arguments not yet taken by va_arg and the position in fmt.  Each state *)
(* is an operator that falls through to the next one as the switch does, *)
(* with fmt++ inside a fall-through advancing pos.                         *)
(***************************************************************************)
Emit(p, s) == [p EXCEPT !.out = @ \o s, !.cnt = @ + Len(s)]
Reset(p) == [p EXCEPT !.st = 0, !.fl = {}, !.wd = 0]
Spaces(n, c) == [k \in 1 .. n |-> c]

(* The characters before the first NUL: what the loop over where emits. *)
CStr(s) == LET z == SelectInSeq(s, LAMBDA c : c = Ch.nul)
           IN IF z = 0 THEN s ELSE SubSeq(s, 1, z - 1)

(* EMIT2: left padding unless PR_LJ, the sign when padding with spaces,   *)
(* the string, and the right padding given_wd - actual_wd.               *)
Emit2(p, str, aw) ==
  LET lj == "LJ" \in p.fl
      lz == "LZ" \in p.fl
      left == IF ~lj /\ p.wd > aw THEN p.wd - aw ELSE 0
      wd1 == p.wd - left
      p1 == Emit(p, Spaces(left, IF lz THEN Ch.zero ELSE Ch.space))
      p2 == IF "WS" \in p.fl /\ ~lz THEN Emit(p1, <<Ch.minus>>) ELSE p1
      right == IF wd1 < aw THEN 0 ELSE wd1 - aw
  IN [Emit(Emit(p2, CStr(str)), Spaces(right, Ch.space)) EXCEPT !.wd = 0]

(* EMIT: actual_wd counts the sign; the sign goes first when padding with '0'. *)
(* Mutant: with '0' padding the sign is never printed. *)
EmitFieldNoLzSign(p, str) ==
  Emit2(p, str, Len(CStr(str)) + (IF "WS" \in p.fl THEN 1 ELSE 0))

EmitField(p, str) ==
  LET aw == Len(CStr(str)) + (IF "WS" \in p.fl THEN 1 ELSE 0)
  IN Emit2(IF {"WS", "LZ"} \subseteq p.fl THEN Emit(p, <<Ch.minus>>) ELSE p, str, aw)

(* The do-while conversion loop, digits written from the end of buf. *)
RECURSIVE NumDigits(_, _, _)
NumDigits(u, radix, upper) ==
  LET t == u % radix
      c == IF t < 10 THEN Digit(t) ELSE IF upper THEN Ch.A + t - 10 ELSE Ch.a + t - 10
  IN (IF u \div radix = 0 THEN <<>> ELSE NumDigits(u \div radix, radix, upper)) \o <<c>>

(* DO_NUM: va_arg by the size flags (an unsigned int or unsigned long is  *)
(* stored into the long num, so it wraps to a signed value), the sign for *)
(* signed conversions (num = -num wraps for the smallest long), then the  *)
(* digits of (unsigned long)num.                                          *)
DoNum(p, radix) ==
  LET v == Head(p.args)
      num == IF "16" \in p.fl
             THEN IF "SG" \in p.fl THEN Signed(v, ShortBits) ELSE Unsigned(v, ShortBits)
             ELSE Signed(v, Bits)
      neg == "SG" \in p.fl /\ num < 0
      mag == IF neg THEN Signed(-num, Bits) ELSE num
      p1 == [p EXCEPT !.args = Tail(@), !.fl = IF neg THEN @ \cup {"WS"} ELSE @]
  IN EmitField(p1, NumDigits(Unsigned(mag, Bits), radix, "CA" \in p.fl))

(* STATE 4, and the reset of the outer default every conversion falls into. *)
DoPrintfS4(fmt, p) ==
  LET c == fmt[p.pos]
      q == [p EXCEPT !.fl = @ \ {"LZ"}, !.args = Tail(@)]
  IN Reset(CASE c = Ch.X -> DoNum([p EXCEPT !.fl = @ \cup {"CA"}], 16)
             [] c \in {Ch.x, Ch.p, Ch.n} -> DoNum(p, 16)
             [] c \in {Ch.d, Ch.i} -> DoNum([p EXCEPT !.fl = @ \cup {"SG"}], 10)
             [] c = Ch.u -> DoNum(p, 10)
             [] c = Ch.o -> DoNum(p, 8)
             [] c = Ch.c -> Emit2(q, <<Head(p.args) % 256>>, 1)
             [] c = Ch.s -> EmitField(q, Head(p.args))
             [] OTHER -> p)

(* STATE 3: the modifiers F, N, l, h *)
DoPrintfS3(fmt, p) ==
  LET c == fmt[p.pos]
  IN CASE c = Ch.F -> [p EXCEPT !.fl = @ \cup {"FP"}]
       [] c = Ch.N -> p
       [] c = Ch.l -> [p EXCEPT !.fl = @ \cup {"32"}]
       [] c = Ch.h -> [p EXCEPT !.fl = @ \cup {"16"}]
       [] OTHER -> DoPrintfS4(fmt, [p EXCEPT !.st = 4])

(* STATE 2: the decimal field width *)
DoPrintfS2(fmt, p) ==
  LET c == fmt[p.pos]
  IN IF c >= Ch.zero /\ c <= Digit(9) THEN [p EXCEPT !.wd = 10 * @ + (c - Ch.zero)]
     ELSE DoPrintfS3(fmt, [p EXCEPT !.st = 3])

(* STATE 1: "%%", the '-' flag ("%--" is dropped), and a leading '0' *)
DoPrintfS1(fmt, p) ==
  LET c == fmt[p.pos]
  IN CASE c = Ch.pct -> Reset(Emit(p, <<c>>))
       [] c = Ch.minus -> IF "LJ" \in p.fl THEN Reset(p) ELSE [p EXCEPT !.fl = @ \cup {"LJ"}]
       [] c = Ch.zero -> DoPrintfS2(fmt, [p EXCEPT !.st = 2, !.fl = @ \cup {"LZ"}, !.pos = @ + 1])
       [] OTHER -> DoPrintfS2(fmt, [p EXCEPT !.st = 2])

(* STATE 0: echo a character (a newline restarts count), or take the '%' *)
DoPrintfS0(fmt, p) ==
  LET c == fmt[p.pos]
  IN IF c # Ch.pct THEN [Emit(p, <<c>>) EXCEPT !.cnt = IF c = Ch.nl THEN 0 ELSE @]
     ELSE DoPrintfS1(fmt, [p EXCEPT !.st = 1, !.pos = @ + 1])

DoPrintfStep(fmt, p) ==
  CASE p.st = 0 -> DoPrintfS0(fmt, p)
    [] p.st = 1 -> DoPrintfS1(fmt, p)
    [] p.st = 2 -> DoPrintfS2(fmt, p)
    [] p.st = 3 -> DoPrintfS3(fmt, p)
    [] OTHER -> DoPrintfS4(fmt, p)

(* for (; *fmt; fmt++) *)
RECURSIVE DoPrintfLoop(_, _)
DoPrintfLoop(fmt, p) ==
  IF fmt[p.pos] = Ch.nul THEN p
  ELSE DoPrintfLoop(fmt, [DoPrintfStep(fmt, p) EXCEPT !.pos = @ + 1])

(* kprintf: what reaches kputchar, and do_printf's count *)
do_printf(fmt, args) ==
  DoPrintfLoop(fmt, [st |-> 0, fl |-> {}, wd |-> 0, cnt |-> 0, out |-> <<>>,
                     args |-> args, pos |-> 1])
-----------------------------------------------------------------------------
(***************************************************************************)
(* vsnprintf, behind snprintf.  q = [buf, res, mods, lng, llng, args]:    *)
(* the bytes written to buff, result (the length of the whole output),    *)
(* fmt_modifiers, prefix_long, prefix_long_long and the arguments left.   *)
(* PUTCHAR stores a character only while result < len - 1 and always     *)
(* counts it.                                                              *)
(***************************************************************************)
(* Mutant: stores while result < len, one byte too many. *)
PutcharLen(q, c, len) ==
  [q EXCEPT !.buf = IF q.res < len THEN Append(@, c) ELSE @, !.res = @ + 1]

PUTCHAR(q, c, len) ==
  [q EXCEPT !.buf = IF q.res < len - 1 THEN Append(@, c) ELSE @, !.res = @ + 1]

PutAll(q, s, len) == FoldLeft(LAMBDA acc, c : PUTCHAR(acc, c, len), q, s)

(* The do-while of %d/%u: |integer % 10| lowest first; printed reversed. *)
RECURSIVE VDigits(_)
VDigits(n) ==
  LET m10 == CRem(n, 10)
  IN <<Digit(IF m10 < 0 THEN -m10 ELSE m10)>>
     \o (IF CDiv(n, 10) = 0 THEN <<>> ELSE VDigits(CDiv(n, 10)))

(* %x: the 16 nibbles of the unsigned long long, from the top, leading   *)
(* zeros skipped, "0" when all are zero.                                  *)
RECURSIVE HexLoop(_, _, _, _, _)
HexLoop(q, hexa, x, had, len) ==
  IF x = LongLongBits \div 4
  THEN IF had THEN q ELSE PUTCHAR(q, Ch.zero, len)
  ELSE LET nb == (hexa \div 2 ^ (LongLongBits - 4 * (x + 1))) % 16
       IN IF nb = 0
          THEN HexLoop(IF had THEN PUTCHAR(q, Ch.zero, len) ELSE q, hexa, x + 1, had, len)
          ELSE HexLoop(PUTCHAR(q, IF nb < 10 THEN Digit(nb) ELSE Ch.a + nb - 10, len),
                       hexa, x + 1, TRUE, len)

(* One character of the format: the switch on format[i]. *)
VStep(c, q, len) ==
  LET v == Head(q.args)
      w == IF q.llng THEN LongLongBits ELSE Bits
      q1 == [q EXCEPT !.args = Tail(@), !.mods = FALSE]
      n == Signed(v, w)
  IN IF ~q.mods /\ c # Ch.pct THEN PUTCHAR(q, c, len)
     ELSE CASE c = Ch.pct -> IF q.mods THEN [PUTCHAR(q, Ch.pct, len) EXCEPT !.mods = FALSE]
                             ELSE [q EXCEPT !.mods = TRUE, !.lng = FALSE, !.llng = FALSE]
            [] c = Ch.l -> IF q.lng THEN [q EXCEPT !.llng = TRUE] ELSE [q EXCEPT !.lng = TRUE]
            [] c = Ch.u -> PutAll(q1, Reverse(VDigits(Unsigned(v, w))), len)
            [] c \in {Ch.i, Ch.d} ->
                 PutAll(IF n < 0 THEN PUTCHAR(q1, Ch.minus, len) ELSE q1,
                        Reverse(VDigits(n)), len)
            [] c = Ch.c -> PUTCHAR(q1, Unsigned(v, 8), len)
            [] c = Ch.s -> PutAll(q1, v, len)
            [] c = Ch.p -> HexLoop(PUTCHAR(PUTCHAR(q1, Ch.zero, len), Ch.x, len),
                                   Unsigned(v, w), 0, FALSE, len)
            [] c = Ch.x -> HexLoop(q1, Unsigned(v, w), 0, FALSE, len)
            [] OTHER ->
                 LET q2 == PUTCHAR(q, Ch.pct, len)
                     q3 == IF q.lng THEN PUTCHAR(q2, Ch.l, len) ELSE q2
                     q4 == IF q.llng THEN PUTCHAR(q3, Ch.l, len) ELSE q3
                 IN [PUTCHAR(q4, c, len) EXCEPT !.mods = FALSE]

RECURSIVE VLoop(_, _, _, _)
VLoop(format, i, q, len) ==
  IF format[i] = Ch.nul THEN q ELSE VLoop(format, i + 1, VStep(format[i], q, len), len)

(* vsnprintf: -1 for len == 0, otherwise the loop and the final NUL. *)
vsnprintf(len, format, args) ==
  IF len <= 0 THEN [ret |-> -1, buf |-> <<>>]
  ELSE LET q == VLoop(format, 1, [buf |-> <<>>, res |-> 0, mods |-> FALSE, lng |-> FALSE,
                                  llng |-> FALSE, args |-> args], len)
       IN [ret |-> q.res, buf |-> Append(q.buf, Ch.nul)]

snprintf(len, format, args) == vsnprintf(len, format, args)
-----------------------------------------------------------------------------
(***************************************************************************)
(* The calls.  The memory starts as any contents whose last byte is a NUL *)
(* (so every string in it ends inside it), and one library call is made, *)
(* with the arguments a C caller may pass: regions inside the memory, and *)
(* for the formatters formats built from directives and arguments of the  *)
(* types the directives name.  last records the call: its name, the       *)
(* memory before it, its arguments and its result.                        *)
(***************************************************************************)
CONSTANTS
  Ints,       \* int arguments (values of width Bits)
  LLInts,     \* long long arguments (values of width 2 * Bits)
  Strs,       \* string arguments (sequences of non-NUL characters)
  CharArgs,   \* %c arguments
  KDirs,      \* kprintf directives [fl, wd, mod, conv]
  SDirs,      \* snprintf directives [mod, conv]
  Lens        \* snprintf buffer lengths

VARIABLES mem, last

vars == <<mem, last>>

(* The characters of a directive: '%', flags, width, modifier, conversion. *)
FlagChars(fl) == (IF "-" \in fl THEN <<Ch.minus>> ELSE <<>>) \o
                 (IF "0" \in fl THEN <<Ch.zero>> ELSE <<>>)
ModChars(mod) == CASE mod = "l" -> <<Ch.l>> [] mod = "ll" -> <<Ch.l, Ch.l>>
                   [] mod = "h" -> <<Ch.h>> [] OTHER -> <<>>
Render(dir) == <<Ch.pct>> \o FlagChars(dir.fl) \o
               (IF dir.wd > 0 THEN <<Digit(dir.wd)>> ELSE <<>>) \o
               ModChars(dir.mod) \o <<dir.conv>>

(* The argument a directive takes. *)
ArgsFor(dir) == CASE dir.conv = Ch.s -> Strs
                  [] dir.conv = Ch.c -> CharArgs
                  [] dir.conv = Ch.pct -> {0}
                  [] dir.mod = "ll" -> LLInts
                  [] OTHER -> Ints

None == [op |-> "none"]

Init == /\ mem \in {m \in [Addr -> Bytes] : m[MemTop - 1] = Ch.nul}
        /\ last = None

Idle == last = None

Record(op, a, ret) == last' = [op |-> op, pre |-> mem, a |-> a, ret |-> ret]

Fits(p, n) == p + n <= MemTop

MemsetCall == \E s \in Addr, c \in Bytes \cup {Ch.A + 256}, n \in 0 .. MemTop :
  /\ Idle /\ Fits(s, n)
  /\ mem' = memset(mem, s, c, n) /\ Record("memset", <<s, c, n>>, s)

MemmoveCall == \E to, from \in Addr, len \in 0 .. MemTop :
  /\ Idle /\ Fits(to, len) /\ Fits(from, len)
  /\ mem' = memmove(mem, to, from, len) /\ Record("memmove", <<to, from, len>>, to)

MemcpyCall == \E dst, src \in Addr, size \in 0 .. MemTop :
  /\ Idle /\ Fits(dst, size) /\ Fits(src, size)
  /\ mem' = memcpy(mem, dst, src, size) /\ Record("memcpy", <<dst, src, size>>, dst)

StrcpyCall == \E dest, src \in Addr :
  /\ Idle /\ Fits(dest, strlen(mem, src) + 1)
  /\ (dest + strlen(mem, src) < src \/ src + strlen(mem, src) < dest)
  /\ mem' = strcpy(mem, dest, src) /\ Record("strcpy", <<dest, src>>, dest)

StrncpyCall == \E s1, s2 \in Addr, n \in 0 .. MemTop :
  /\ Idle /\ Fits(s1, n)
  /\ mem' = strncpy(mem, s1, s2, n) /\ Record("strncpy", <<s1, s2, n>>, s1)

StrzcpyCall == \E dst, src \in Addr, len \in 0 .. MemTop :
  /\ Idle /\ Fits(dst, len)
  /\ mem' = strzcpy(mem, dst, src, len) /\ Record("strzcpy", <<dst, src, len>>, dst)

StrQueryCall == \E a, b \in Addr, c \in Bytes \ {Ch.nul} :
  /\ Idle /\ UNCHANGED mem
  /\ \/ Record("strlen", <<a>>, strlen(mem, a))
     \/ Record("strcmp", <<a, b>>, strcmp(mem, a, b))
     \/ Record("strchrnul", <<a, c>>, strchrnul(mem, a, c))

ItoaCall == \E base \in {Ch.d, Ch.u, Ch.x}, d \in Ints :
  /\ Idle /\ UNCHANGED mem
  /\ Record("itoa", <<base, d>>, itoa(base, d))

KprintfCall == \E dir \in KDirs, lit \in {<<>>, <<Ch.A>>} :
  \E v \in ArgsFor(dir) :
  /\ Idle /\ UNCHANGED mem
  /\ Record("kprintf", <<dir, lit, v>>,
            do_printf(lit \o Render(dir) \o lit \o <<Ch.nul>>, <<v>>).out)

(* snprintf with one directive, or with "%s%d" as partition.c formats    *)
(* partition names.                                                       *)
SnprintfCall == \E len \in Lens :
  \/ \E dir \in SDirs : \E v \in ArgsFor(dir) :
       /\ Idle /\ UNCHANGED mem
       /\ Record("snprintf", <<len, <<dir>>, <<v>>>>,
                 snprintf(len, Render(dir) \o <<Ch.nul>>, <<v>>))
  \/ \E str \in Strs, v \in Ints :
       LET dirs == <<[fl |-> {}, wd |-> 0, mod |-> "", conv |-> Ch.s],
                     [fl |-> {}, wd |-> 0, mod |-> "", conv |-> Ch.d]>>
       IN /\ Idle /\ UNCHANGED mem
          /\ Record("snprintf", <<len, dirs, <<str, v>>>>,
                    snprintf(len, Render(dirs[1]) \o Render(dirs[2]) \o <<Ch.nul>>,
                             <<str, v>>))

Next == \/ MemsetCall \/ MemmoveCall \/ MemcpyCall
        \/ StrcpyCall \/ StrncpyCall \/ StrzcpyCall \/ StrQueryCall
        \/ ItoaCall \/ KprintfCall \/ SnprintfCall

Spec == Init /\ [][Next]_vars
-----------------------------------------------------------------------------
(***************************************************************************)
(* Reference definitions: what the C library and printf promise, written  *)
(* from the meaning of the result, not from the loops above.               *)
(***************************************************************************)
StrLenRef(m, s) ==
  CHOOSE n \in 0 .. MemTop - 1 - s : m[s + n] = Ch.nul /\ \A j \in 0 .. n - 1 : m[s + j] # Ch.nul
CString(m, s) == [k \in 1 .. StrLenRef(m, s) |-> m[s + k - 1]]
Span(p, n) == p .. p + n - 1
Disjoint(p, n, q, k) == Span(p, n) \cap Span(q, k) = {}
Unchanged(m0, m, S) == \A x \in Addr \ S : m[x] = m0[x]
MinOf(a, b) == IF a < b THEN a ELSE b

(* The digits of n >= 0 in base b: digit k is (n \div b^(L-k)) % b. *)
DigitChar(t, upper) == IF t < 10 THEN Digit(t) ELSE IF upper THEN Ch.A + t - 10 ELSE Ch.a + t - 10
NDigits(n, b) == CHOOSE k \in 1 .. LongLongBits : b ^ k > n /\ (k = 1 \/ b ^ (k - 1) <= n)
Repr(n, b, upper) ==
  LET L == NDigits(n, b) IN [k \in 1 .. L |-> DigitChar((n \div b ^ (L - k)) % b, upper)]
Abs(n) == IF n < 0 THEN -n ELSE n
SignOf(n) == IF n < 0 THEN <<Ch.minus>> ELSE <<>>
DigitVal(c) == IF c < Ch.a THEN c - Ch.zero ELSE c - Ch.a + 10
ValueOf(s, b) == FoldLeft(LAMBDA acc, c : acc * b + DigitVal(c), 0, s)

(* printf's field for one directive (C99 7.19.6.1): the value converted by *)
(* the length modifier, sign and digits or the characters, padded to the   *)
(* width on the left with spaces, or with zeros after the sign for '0',   *)
(* or on the right for '-'.                                               *)
Numeric(conv) == conv \notin {Ch.c, Ch.s}
KValue(dir, v) ==
  CASE dir.conv \in {Ch.d, Ch.i} /\ dir.mod = "h" -> Signed(v, ShortBits)
    [] dir.conv \in {Ch.d, Ch.i} -> Signed(v, Bits)
    [] dir.mod = "h" -> Unsigned(v, ShortBits)
    [] OTHER -> Unsigned(v, Bits)
KBody(dir, v) ==
  CASE dir.conv = Ch.s -> v
    [] dir.conv = Ch.c -> <<v % 256>>
    [] dir.conv = Ch.o -> Repr(KValue(dir, v), 8, FALSE)
    [] dir.conv \in {Ch.x, Ch.X} -> Repr(KValue(dir, v), 16, dir.conv = Ch.X)
    [] OTHER -> Repr(Abs(KValue(dir, v)), 10, FALSE)
StdField(dir, v) ==
  LET sign == IF Numeric(dir.conv) THEN SignOf(KValue(dir, v)) ELSE <<>>
      body == KBody(dir, v)
      pad == IF dir.wd > Len(sign) + Len(body) THEN dir.wd - Len(sign) - Len(body) ELSE 0
  IN IF "-" \in dir.fl THEN sign \o body \o Spaces(pad, Ch.space)
     ELSE IF "0" \in dir.fl /\ Numeric(dir.conv) THEN sign \o Spaces(pad, Ch.zero) \o body
     ELSE Spaces(pad, Ch.space) \o sign \o body

(* snprintf's conversions (no flags or widths): the same values at the    *)
(* width of int or of long long, %p as 0x and hex digits.                 *)
SWidth(dir) == IF dir.mod = "ll" THEN LongLongBits ELSE Bits
SField(dir, v) ==
  CASE dir.conv = Ch.pct -> <<Ch.pct>>
    [] dir.conv = Ch.s -> v
    [] dir.conv = Ch.c -> <<v % 256>>
    [] dir.conv = Ch.u -> Repr(Unsigned(v, SWidth(dir)), 10, FALSE)
    [] dir.conv = Ch.x -> Repr(Unsigned(v, SWidth(dir)), 16, FALSE)
    [] dir.conv = Ch.p -> <<Ch.zero, Ch.x>> \o Repr(Unsigned(v, SWidth(dir)), 16, FALSE)
    [] OTHER -> SignOf(Signed(v, SWidth(dir))) \o Repr(Abs(Signed(v, SWidth(dir))), 10, FALSE)
SOutput(dirs, args) == FoldLeft(LAMBDA acc, k : acc \o SField(dirs[k], args[k]), <<>>,
                                [k \in 1 .. Len(dirs) |-> k])
-----------------------------------------------------------------------------
TypeOK ==
  /\ mem \in [Addr -> Bytes]
  /\ last.op \in {"none", "memset", "memmove", "memcpy", "strcpy", "strncpy", "strzcpy",
                  "strlen", "strcmp", "strchrnul", "itoa", "kprintf", "snprintf"}

(***************************************************************************)
(* memset, memmove and memcpy write exactly their destination: memset the *)
(* low byte of c, memmove the source as it was before the call even when  *)
(* the two regions overlap (the direction test of memmove), memcpy the    *)
(* source when they do not; no other byte changes.                         *)
(***************************************************************************)
MemoryCopiesExact ==
  LET a == last.a
      m0 == last.pre
  IN /\ last.op = "memset" =>
          /\ \A x \in Span(a[1], a[3]) : mem[x] = a[2] % 256
          /\ Unchanged(m0, mem, Span(a[1], a[3]))
     /\ (last.op = "memmove" \/ (last.op = "memcpy" /\ Disjoint(a[1], a[3], a[2], a[3]))) =>
          /\ \A x \in Span(a[1], a[3]) : mem[x] = m0[a[2] + x - a[1]]
          /\ Unchanged(m0, mem, Span(a[1], a[3]))

(***************************************************************************)
(* The string routines give the C library's results on disjoint regions:  *)
(* strcpy copies the string and its NUL; strncpy writes exactly n bytes,  *)
(* the string's first ones and then NULs; strzcpy (the kernel's copy of   *)
(* user strings) leaves at dst the longest prefix of src of at most       *)
(* len - 1 characters, NUL-terminated, inside dst's len bytes; strlen is  *)
(* the length, strcmp is 0 exactly for equal strings, and strchrnul finds *)
(* the first c or else the NUL.                                            *)
(***************************************************************************)
StringRoutinesExact ==
  LET a == last.a
      m0 == last.pre
  IN CASE last.op = "strcpy" ->
            /\ CString(mem, a[1]) = CString(m0, a[2])
            /\ Unchanged(m0, mem, Span(a[1], StrLenRef(m0, a[2]) + 1))
       [] last.op = "strncpy" /\ Disjoint(a[1], a[3], a[2], StrLenRef(m0, a[2]) + 1) ->
            /\ \A k \in 0 .. a[3] - 1 :
                  mem[a[1] + k] = IF k < StrLenRef(m0, a[2]) THEN m0[a[2] + k] ELSE Ch.nul
            /\ Unchanged(m0, mem, Span(a[1], a[3]))
       [] last.op = "strzcpy" /\ a[3] > 0 /\ Disjoint(a[1], a[3], a[2], StrLenRef(m0, a[2]) + 1) ->
            /\ \E k \in Span(a[1], a[3]) : mem[k] = Ch.nul
            /\ CString(mem, a[1]) = SubSeq(CString(m0, a[2]), 1,
                                           MinOf(StrLenRef(m0, a[2]), a[3] - 1))
            /\ Unchanged(m0, mem, Span(a[1], a[3]))
       [] last.op = "strlen" -> last.ret = StrLenRef(m0, a[1])
       [] last.op = "strcmp" -> (last.ret = 0) <=> (CString(m0, a[1]) = CString(m0, a[2]))
       [] last.op = "strchrnul" ->
            LET s == CString(m0, a[1])
                k == SelectInSeq(s, LAMBDA c : c = a[2])
            IN last.ret = a[1] + (IF k = 0 THEN Len(s) ELSE k - 1)
       [] OTHER -> TRUE

(***************************************************************************)
(* itoa writes the number it was given: for base 'd' a '-' and the        *)
(* magnitude when negative (the smallest int included), for the other     *)
(* bases the unsigned value, in digits without leading zeros.             *)
(***************************************************************************)
ItoaRoundTrip ==
  last.op = "itoa" =>
    LET base == last.a[1]
        d == last.a[2]
        neg == base = Ch.d /\ d < 0
        digits == IF neg THEN Tail(last.ret) ELSE last.ret
    IN /\ neg => last.ret[1] = Ch.minus
       /\ ValueOf(digits, IF base = Ch.x THEN 16 ELSE 10) = IF neg THEN -d ELSE Unsigned(d, Bits)
       /\ Len(digits) >= 1 /\ (Len(digits) = 1 \/ digits[1] # Ch.zero)

(***************************************************************************)
(* kprintf prints each directive as printf does: the literal characters   *)
(* around it unchanged, and the field of the converted argument with its  *)
(* sign, digits and padding (do_printf's states 0-4, EMIT and EMIT2).     *)
(***************************************************************************)
KprintfMatchesStd ==
  last.op = "kprintf" =>
    LET dir == last.a[1]
        lit == last.a[2]
    IN last.ret = lit \o StdField(dir, last.a[3]) \o lit

(***************************************************************************)
(* snprintf never writes more than len bytes: the buffer holds the first  *)
(* len - 1 characters of the whole output and a NUL, and the result is    *)
(* the length of the whole output (-1 and nothing written for len 0).     *)
(***************************************************************************)
SnprintfTruncates ==
  last.op = "snprintf" =>
    LET len == last.a[1]
        full == SOutput(last.a[2], last.a[3])
    IN IF len = 0 THEN last.ret.ret = -1 /\ last.ret.buf = <<>>
       ELSE /\ last.ret.ret = Len(full)
            /\ last.ret.buf = SubSeq(full, 1, MinOf(len - 1, Len(full))) \o <<Ch.nul>>
====
