------------------------------- MODULE RawMem -------------------------------
(***************************************************************************)
(* The raw memory extension, both halves: what its opcodes mean, which the *)
(* evaluator and the reference VM run, and what the code emitted for them  *)
(* does, helpers included.  A word is four bytes of ByteBits bits, and the *)
(* buffer holds 2^AddrBits bytes.                                          *)
(***************************************************************************)
EXTENDS Integers, Sequences

CONSTANTS ByteBits, AddrBits
ASSUME RawMemAssumption ==
  ByteBits \in Nat \ {0} /\ AddrBits \in 2 .. 4 * ByteBits

WordBits == 4 * ByteBits
(* Powers of two, up to what a word holds. *)
TwoTo[n \in 0 .. WordBits] == IF n = 0 THEN 1 ELSE 2 * TwoTo[n - 1]
ByteMod == TwoTo[ByteBits]
Word == TwoTo[WordBits]
MemBytes == TwoTo[AddrBits]
Memory == [0 .. MemBytes - 1 -> 0 .. ByteMod - 1]
Zeroed == [a \in 0 .. MemBytes - 1 |-> 0]

LoadOps == {"ld8", "ld16", "ld32"}
StoreOps == {"st8", "st16", "st32"}
BlockOps == {"memmove", "memcmp", "slicecmp"}
ExtOps == LoadOps \cup StoreOps \cup BlockOps
Width(op) ==
  CASE op \in {"ld8", "st8"} -> 1 [] op \in {"ld16", "st16"} -> 2 [] OTHER -> 4
(* How many operands an opcode takes off the stack. *)
Pops(op) ==
  CASE op \in LoadOps -> 0 [] op \in StoreOps -> 1
    [] op = "slicecmp" -> 4 [] OTHER -> 3

(* A signed difference as a word. *)
AsWord(d) == d % Word

-----------------------------------------------------------------------------
(* The reference half.  stack is in push order; the last is popped first. *)

Masked(offset) == offset % MemBytes
At(offset, width) == Masked(offset) - (Masked(offset) % width)

(* width bytes from base on, the least significant first; and their change. *)
BytesAt(mem, base, width) ==
  LET low[n \in 0 .. width] ==
        IF n = 0 THEN 0
        ELSE low[n - 1] + mem[base + n - 1] * TwoTo[ByteBits * (n - 1)]
  IN low[width]
WithBytes(mem, base, width, value) ==
  [a \in DOMAIN mem |->
     IF a \in base .. base + width - 1
     THEN (value \div TwoTo[ByteBits * (a - base)]) % ByteMod ELSE mem[a]]

Length(start, end) == IF end > start THEN end - start ELSE 0

(* Byte by byte forward: an end at or below the start copies nothing, and
   the source wraps. *)
CopyTo(mem, src, dst, end) ==
  LET after[n \in 0 .. Length(dst, end)] ==
        IF n = 0 THEN mem
        ELSE [after[n - 1] EXCEPT ![dst + n - 1] = after[n - 1][Masked(src + n - 1)]]
  IN after[Length(dst, end)]

Lowest(S) == CHOOSE i \in S : \A j \in S : i <= j

FirstDifference(mem, a, end, b) ==
  LET differ == { i \in 0 .. Length(a, end) - 1 : mem[a + i] # mem[Masked(b + i)] }
  IN IF differ = {} THEN 0
     ELSE mem[a + Lowest(differ)] - mem[Masked(b + Lowest(differ))]

SliceDifference(mem, a, lenA, b, lenB) ==
  LET common == IF lenA < lenB THEN lenA ELSE lenB
      differ == { i \in 0 .. common - 1 : mem[a + i] # mem[b + i] }
  IN IF differ = {} THEN lenA - lenB
     ELSE mem[a + Lowest(differ)] - mem[b + Lowest(differ)]

Result(mem, acc) == [mem |-> mem, acc |-> acc]

Exec(op, mem, stack, acc) ==
  LET s == [i \in DOMAIN stack |-> Masked(stack[i])]
  IN CASE op \in LoadOps ->
            Result(mem, BytesAt(mem, At(acc, Width(op)), Width(op)))
       [] op \in StoreOps ->
            Result(WithBytes(mem, At(stack[1], Width(op)), Width(op), acc), acc)
       [] op = "memmove" -> Result(CopyTo(mem, s[1], s[2], s[3]), acc)
       [] op = "memcmp" ->
            Result(mem, AsWord(FirstDifference(mem, s[1], s[2], s[3])))
       [] op = "slicecmp" ->
            Result(mem, AsWord(SliceDifference(mem, s[1], Length(s[1], s[2]),
                                               s[3], Length(s[3], s[4]))))

-----------------------------------------------------------------------------
(* The target half *)

Lsl(r, n) == (r * TwoTo[n]) % Word
Lsr(r, n) == r \div TwoTo[n]
Log2(width) == CASE width = 1 -> 0 [] width = 2 -> 1 [] OTHER -> 2

(* Three shifts, the last for an access wider than a byte. *)
\* Faulty form: the width is dropped without the shift back.
MaskAndAlign_NoShiftBack(r, width) ==
  Lsr(Lsl(r, WordBits - AddrBits), WordBits - AddrBits + Log2(width))
MaskAndAlign(r, width) ==
  LET drop == WordBits - AddrBits
  IN Lsl(Lsr(Lsl(r, drop), drop + Log2(width)), Log2(width))

(* ext_rawmem_helper.S: r1 walks up to the end and the source wraps. *)
RawMemMove(mem, r0, r1, end) ==
  LET after[n \in 0 .. Length(r1, end)] ==
        IF n = 0 THEN [mem |-> mem, r0 |-> r0]
        ELSE LET s == after[n - 1]
             IN [mem |-> [s.mem EXCEPT ![r1 + n - 1] = s.mem[s.r0]],
                 r0 |-> Lsr(Lsl(s.r0 + 1, WordBits - AddrBits), WordBits - AddrBits)]
  IN after[Length(r1, end)].mem

(* Bytes that differ end the loop with a result, which is not 0 then. *)
RawMemCmp(mem, a, aEnd, b) ==
  LET after[n \in 0 .. Length(a, aEnd)] ==
        IF n = 0 THEN [b |-> b, result |-> 0]
        ELSE LET s == after[n - 1]
             IN IF s.result # 0 THEN s
                ELSE [b |-> (s.b + 1) % MemBytes, result |-> mem[a + n - 1] - mem[s.b]]
  IN after[Length(a, aEnd)].result

(* aStart and bStart advance together over the shorter of the two. *)
RawMemSliceCmp(mem, a, b, lenA, lenB) ==
  LET common == IF lenA < lenB THEN lenA ELSE lenB
      result[n \in 0 .. common] ==
        IF n = 0 THEN 0
        ELSE IF result[n - 1] # 0 THEN result[n - 1]
        ELSE mem[a + n - 1] - mem[b + n - 1]
  IN IF result[common] # 0 THEN result[common] ELSE lenA - lenB

(* What runs for one opcode: pops into r3, r2, r1 and r0, in that order, the
   masks, then the access or the helper. *)
Emitted(op, mem, stack, acc) ==
  LET r(i) == MaskAndAlign(stack[i], 1)
      w == Width(op)
  IN CASE op \in LoadOps -> Result(mem, BytesAt(mem, MaskAndAlign(acc, w), w))
       [] op \in StoreOps ->
            Result(WithBytes(mem, MaskAndAlign(stack[1], w), w, acc), acc)
       [] op = "memmove" -> Result(RawMemMove(mem, r(1), r(2), r(3)), acc)
       [] op = "memcmp" -> Result(mem, AsWord(RawMemCmp(mem, r(1), r(2), r(3))))
       [] op = "slicecmp" ->
            Result(mem, AsWord(RawMemSliceCmp(mem, r(1), r(3), Length(r(1), r(2)),
                                              Length(r(3), r(4)))))
=============================================================================
