------------------------------ MODULE Tools_proofs ------------------------------
(***************************************************************************)
(* Proofs about the raw memory extension and about the stack margin, which *)
(* share their lemmas about functions defined step by step.                *)
(*                                                                         *)
(* Of the extension, for any size of byte, word and buffer: where the      *)
(* masks of the emitted code lead, that no access leaves the buffer, what  *)
(* the helpers' loops compute, and that both halves stay the same.         *)
(*                                                                         *)
(* Of the margin, for any functions, frames and calls: that the walk of    *)
(* the call graph, which meets each function once, gives the deepest of    *)
(* all chains of calls.                                                    *)
(***************************************************************************)
EXTENDS RawMemHalves, StackMargin, FiniteSetTheorems, FunctionTheorems,
        SequenceTheorems, NaturalsInduction, WellFoundedInduction, TLAPS

-----------------------------------------------------------------------------
(* Induction and recursive functions. *)

(* Induction, over a set of numbers. *)
LEMMA Induct ==
  ASSUME NEW S, 0 \in S, \A n \in Nat : n \in S => n + 1 \in S
  PROVE  Nat \subseteq S
  <1> DEFINE R == OpToRel(<, Nat)
             T == Nat \ S
  <1>1. IsWellFoundedOn(R, Nat)
    BY NatLessThanWellFounded
  <1>2. SUFFICES ASSUME T # {} PROVE FALSE
    OBVIOUS
  <1>a. T \subseteq Nat
    OBVIOUS
  <1> HIDE DEF R, T
  <1>3. PICK m \in T : \A k \in T : ~ (<< k, m >> \in R)
    BY <1>1, <1>2, <1>a, WFMin
  <1>4. m \in Nat /\ m # 0 /\ m \notin S
    BY <1>3 DEF T
  <1>5. m - 1 \in Nat /\ m - 1 < m /\ (m - 1) + 1 = m
    BY <1>4
  <1>6. m - 1 \notin T
    <2>1. << m - 1, m >> \in R
      BY <1>4, <1>5 DEF R, OpToRel
    <2>2. QED
      BY <2>1, <1>3
  <1>7. QED
    BY <1>4, <1>5, <1>6 DEF T

(* Whatever goes on step by step. *)
Steps(V, N) == [1 .. N -> [V -> V]]
Goes(f, V, base, N, step) ==
  /\ f \in [0 .. N -> V] /\ f[0] = base
  /\ \A i \in 1 .. N : f[i] = step[i][f[i - 1]]

(* A function that is defined step by step exists. *)
LEMMA Recursion ==
  ASSUME NEW V, NEW base \in V, NEW N \in Nat, NEW step \in Steps(V, N)
  PROVE  \E f : Goes(f, V, base, N, step)
  <1> DEFINE Is(f, n) == /\ f \in [0 .. n -> V] /\ f[0] = base
                         /\ \A i \in 1 .. n : f[i] = step[i][f[i - 1]]
             S == { n \in Nat : n <= N => \E f : Is(f, n) }
  <1>1. 0 \in S
    <2>1. Is([i \in 0 .. 0 |-> base], 0)
      OBVIOUS
    <2>2. QED
      BY <2>1
  <1>2. ASSUME NEW n \in Nat, n \in S PROVE n + 1 \in S
    <2>1. SUFFICES ASSUME n + 1 <= N PROVE \E f : Is(f, n + 1)
      OBVIOUS
    <2>2. PICK f : Is(f, n)
      BY <1>2, <2>1
    <2> DEFINE g == [i \in 0 .. n + 1 |-> IF i <= n THEN f[i] ELSE step[n + 1][f[n]]]
    <2>3. n + 1 \in 1 .. N /\ f[n] \in V
      BY <2>1, <2>2
    <2>4. step[n + 1][f[n]] \in V
      BY <2>3 DEF Steps
    <2>5. g \in [0 .. n + 1 -> V] /\ g[0] = base
      BY <2>2, <2>4
    <2>6. ASSUME NEW i \in 1 .. n + 1 PROVE g[i] = step[i][g[i - 1]]
      <3>1. i - 1 \in 0 .. n /\ g[i - 1] = f[i - 1]
        OBVIOUS
      <3>2. CASE i <= n
        BY <3>1, <3>2, <2>2
      <3>3. CASE i = n + 1
        BY <3>1, <3>3
      <3>4. QED
        BY <3>2, <3>3
    <2>7. QED
      BY <2>5, <2>6
  <1>3. N \in S
    <2> HIDE DEF S
    <2>1. QED
      BY <1>1, <1>2, Induct
  <1>4. QED
    BY <1>3 DEF Goes

-----------------------------------------------------------------------------
(* The raw memory extension. *)

(* Of a set of numbers there is a least. *)
LEMMA LowestIs ==
  ASSUME NEW S, S \subseteq Nat, S # {}
  PROVE  Lowest(S) \in S /\ \A k \in S : Lowest(S) <= k
  <1> DEFINE R == OpToRel(<, Nat)
  <1>1. IsWellFoundedOn(R, Nat)
    BY NatLessThanWellFounded
  <1> HIDE DEF R
  <1>2. PICK m \in S : \A k \in S : ~ (<< k, m >> \in R)
    BY <1>1, WFMin
  <1>3. ASSUME NEW k \in S PROVE m <= k
    <2>1. ~ (<< k, m >> \in R) /\ k \in Nat /\ m \in Nat
      BY <1>2
    <2>2. ~ (k < m)
      BY <2>1 DEF R, OpToRel
    <2>3. QED
      BY <2>1, <2>2
  <1>4. QED
    BY <1>3 DEF Lowest

-----------------------------------------------------------------------------
(* Powers of two and remainders. *)

LEMMA Sizes ==
  /\ ByteBits \in Nat \ {0} /\ WordBits \in Nat /\ AddrBits \in 2 .. WordBits
  /\ {AddrBits, WordBits, ByteBits} \subseteq 0 .. WordBits
  /\ \A i \in 0 .. 3 : ByteBits * i \in 0 .. WordBits
  BY RawMemAssumption DEF WordBits

LEMMA Powers ==
  /\ TwoTo \in [0 .. WordBits -> Nat \ {0}] /\ TwoTo[0] = 1
  /\ \A n \in 1 .. WordBits : TwoTo[n] = 2 * TwoTo[n - 1]
  <1> DEFINE N == WordBits
             V == Nat \ {0}
             step == [i \in 1 .. N |-> [p \in V |-> 2 * p]]
             Is(f) == f = [n \in 0 .. WordBits |-> IF n = 0 THEN 1 ELSE 2 * f[n - 1]]
  <1>1. 1 \in V /\ step \in Steps(V, N) /\ N \in Nat
    BY Sizes DEF Steps
  <1>2. PICK f : Goes(f, V, 1, N, step)
    <2> HIDE DEF N, V, step
    <2>1. QED
      BY <1>1, Recursion
  <1>3. Is(f)
    <2>1. ASSUME NEW n \in 0 .. N, n # 0 PROVE f[n] = 2 * f[n - 1]
      <3>1. n \in 1 .. N /\ f[n - 1] \in V
        BY <1>1, <1>2, <2>1 DEF Goes
      <3>2. QED
        BY <1>2, <3>1 DEF Goes
    <2>2. f \in [0 .. N -> V] /\ f[0] = 1
      BY <1>2 DEF Goes
    <2>3. QED
      BY <2>1, <2>2
  <1>4. Is(TwoTo)
    BY <1>3 DEF TwoTo
  <1> HIDE DEF V
  <1>5. DOMAIN TwoTo = 0 .. N /\ TwoTo[0] = 1
    BY <1>1, <1>4
  <1>6. ASSUME NEW n \in 1 .. N PROVE TwoTo[n] = 2 * TwoTo[n - 1]
    <2>1. n \in 0 .. N /\ n # 0
      BY <1>1
    <2>2. QED
      BY <1>4, <2>1
  <1> DEFINE S == { n \in Nat : n <= N => TwoTo[n] \in V }
  <1>7. Nat \subseteq S
    <2>1. 0 \in S
      BY <1>1, <1>5
    <2>2. ASSUME NEW n \in Nat, n \in S PROVE n + 1 \in S
      <3>1. SUFFICES ASSUME n + 1 <= N PROVE TwoTo[n + 1] \in V
        OBVIOUS
      <3>2. n + 1 \in 1 .. N /\ (n + 1) - 1 = n /\ TwoTo[n] \in V
        BY <1>1, <2>2, <3>1
      <3>3. TwoTo[n + 1] = 2 * TwoTo[n]
        BY <1>6, <3>2
      <3>4. QED
        BY <3>2, <3>3 DEF V
    <2> HIDE DEF S
    <2>3. QED
      BY <2>1, <2>2, Induct
  <1>8. TwoTo \in [0 .. N -> V]
    <2>1. \A n \in 0 .. N : TwoTo[n] \in V
      BY <1>1, <1>7
    <2>2. TwoTo = [n \in 0 .. N |-> TwoTo[n]]
      BY <1>4, <1>5
    <2>3. QED
      BY <2>1, <2>2
  <1>9. QED
    BY <1>5, <1>6, <1>8 DEF V

LEMMA PowersPositive ==
  /\ \A n \in 0 .. WordBits : TwoTo[n] \in Nat \ {0}
  /\ MemBytes \in Nat \ {0} /\ Word \in Nat \ {0} /\ ByteMod \in Nat \ {0}
  <1>1. \A n \in 0 .. WordBits : TwoTo[n] \in Nat \ {0}
    BY Powers
  <1>2. QED
    BY <1>1, Sizes DEF MemBytes, Word, ByteMod

LEMMA PowersAdd ==
  ASSUME NEW m \in Nat, NEW n \in Nat, m + n <= WordBits
  PROVE  TwoTo[m + n] = TwoTo[m] * TwoTo[n]
  <1> DEFINE S == { k \in Nat : m + k <= WordBits => TwoTo[m + k] = TwoTo[m] * TwoTo[k] }
  <1>1. 0 \in S
    <2>1. SUFFICES ASSUME m <= WordBits PROVE TwoTo[m] = TwoTo[m] * 1
      BY Powers
    <2>2. TwoTo[m] \in Nat
      <3>1. m \in 0 .. WordBits
        BY <2>1, Sizes
      <3>2. QED
        BY <3>1, PowersPositive
    <2>3. QED
      BY <2>2
  <1>2. ASSUME NEW k \in Nat, k \in S PROVE k + 1 \in S
    <2>1. SUFFICES ASSUME m + (k + 1) <= WordBits
                   PROVE  TwoTo[m + (k + 1)] = TwoTo[m] * TwoTo[k + 1]
      OBVIOUS
    <2>2. /\ m + (k + 1) \in 1 .. WordBits /\ (m + (k + 1)) - 1 = m + k
          /\ k + 1 \in 1 .. WordBits /\ (k + 1) - 1 = k
          /\ m \in 0 .. WordBits /\ k \in 0 .. WordBits /\ m + k <= WordBits
      BY <2>1, Sizes
    <2>3. TwoTo[m + (k + 1)] = 2 * TwoTo[m + k] /\ TwoTo[k + 1] = 2 * TwoTo[k]
      BY <2>2, Powers
    <2>4. TwoTo[m + k] = TwoTo[m] * TwoTo[k]
      BY <1>2, <2>2
    <2>5. TwoTo[m] \in Nat /\ TwoTo[k] \in Nat
      BY <2>2, Powers
    <2> DEFINE a == TwoTo[m]
               b == TwoTo[k]
    <2>6. 2 * (a * b) = a * (2 * b)
      <3> HIDE DEF a, b
      <3>1. a \in Nat /\ b \in Nat => 2 * (a * b) = a * (2 * b)
        OBVIOUS
      <3>2. QED
        BY <3>1, <2>5 DEF a, b
    <2>7. QED
      BY <2>3, <2>4, <2>6
  <1>3. Nat \subseteq S
    <2> HIDE DEF S
    <2>1. QED
      BY <1>1, <1>2, Induct
  <1>4. QED
    BY <1>3

LEMMA SmallPowers == TwoTo[0] = 1 /\ TwoTo[1] = 2 /\ TwoTo[2] = 4
  <1>1. 1 \in 1 .. WordBits /\ 2 \in 1 .. WordBits /\ 1 - 1 = 0 /\ 2 - 1 = 1
    BY Sizes
  <1>2. TwoTo[0] = 1 /\ TwoTo[1] = 2 * TwoTo[0] /\ TwoTo[2] = 2 * TwoTo[1]
    BY <1>1, Powers
  <1>3. QED
    BY <1>2

LEMMA ModScaled ==
  ASSUME NEW a \in Nat, NEW b \in Nat \ {0}, NEW c \in Nat \ {0}
  PROVE  (a * c) % (b * c) = (a % b) * c
  OBVIOUS

LEMMA DivScaled ==
  ASSUME NEW a \in Nat, NEW b \in Nat \ {0}, NEW c \in Nat \ {0}
  PROVE  (a * c) \div (b * c) = a \div b
  OBVIOUS

LEMMA Remainder ==
  ASSUME NEW a \in Nat, NEW b \in Nat \ {0}
  PROVE  /\ a % b \in 0 .. b - 1 /\ a \div b \in Nat
         /\ a = b * (a \div b) + (a % b)
  OBVIOUS
-----------------------------------------------------------------------------
(* The masks of the emitted code. *)

(* Two shifts are a remainder, and a quotient of it. *)
LEMMA ShiftsMask ==
  ASSUME NEW r \in Nat, NEW k \in 0 .. 2
  PROVE  Lsr(Lsl(r, WordBits - AddrBits), WordBits - AddrBits + k)
           = Masked(r) \div TwoTo[k]
  <1> DEFINE d == WordBits - AddrBits
             D == TwoTo[d]
             K == TwoTo[k]
             M == MemBytes
  <1>1. d \in Nat /\ k \in Nat /\ AddrBits \in Nat /\ d + k <= WordBits /\ AddrBits + d = WordBits
    BY Sizes
  <1>2. Word = M * D /\ TwoTo[d + k] = K * D
    <2>1. TwoTo[AddrBits + d] = TwoTo[AddrBits] * TwoTo[d] /\ TwoTo[k + d] = TwoTo[k] * TwoTo[d]
      BY <1>1, PowersAdd, Sizes
    <2>2. k + d = d + k
      BY <1>1
    <2>3. QED
      BY <1>1, <2>1, <2>2 DEF Word, MemBytes
  <1>3. D \in Nat \ {0} /\ K \in Nat \ {0} /\ M \in Nat \ {0}
    <2>1. d \in 0 .. WordBits /\ k \in 0 .. WordBits /\ AddrBits \in 0 .. WordBits
      BY <1>1, Sizes
    <2>2. QED
      BY <2>1, Powers DEF MemBytes
  <1> HIDE DEF d, D, K, M
  <1>4. (r * D) % (M * D) = (r % M) * D
    BY <1>3, ModScaled
  <1>a. r % M \in Nat
    <2>1. r % M \in 0 .. M - 1
      BY <1>3, Remainder
    <2>2. QED
      BY <1>3, <2>1
  <1>5. ((r % M) * D) \div (K * D) = (r % M) \div K
    BY <1>3, <1>a, DivScaled
  <1>6. QED
    BY <1>2, <1>4, <1>5 DEF Lsr, Lsl, Masked, d, D, K, M

(* MaskAndAlign is the aligned, masked offset of the reference half. *)
LEMMA MaskIsAt ==
  ASSUME NEW r \in Nat, NEW w \in {1, 2, 4}
  PROVE  /\ MaskAndAlign(r, w) = At(r, w)
         /\ Masked(r) \in 0 .. MemBytes - 1 /\ At(r, w) \in 0 .. MemBytes - w
  <1> DEFINE k == Log2(w)
             x == Masked(r)
             q == x \div w
  <1>1. k \in 0 .. 2 /\ TwoTo[k] = w
    BY SmallPowers DEF Log2
  <1>2. MemBytes \in Nat \ {0} /\ Word \in Nat \ {0}
    BY PowersPositive
  <1>3. x \in 0 .. MemBytes - 1
    BY <1>2, Remainder DEF Masked
  <1>4. x = w * q + (x % w) /\ q \in Nat /\ x % w \in 0 .. w - 1
    <2> HIDE DEF x
    <2>1. x \in Nat /\ w \in Nat \ {0}
      BY <1>2, <1>3
    <2>2. QED
      BY <2>1, Remainder
  <1>5. At(r, w) = w * q /\ At(r, w) \in Nat /\ At(r, w) <= x
    <2> HIDE DEF q
    <2>1. QED
      BY <1>3, <1>4 DEF At
  <1>6. MaskAndAlign(r, w) = Lsl(q, k)
    BY <1>1, ShiftsMask DEF MaskAndAlign
  <1>7. MemBytes <= Word
    <2>1. WordBits - AddrBits \in Nat /\ AddrBits \in Nat /\ AddrBits + (WordBits - AddrBits) = WordBits
      BY Sizes
    <2>2. Word = MemBytes * TwoTo[WordBits - AddrBits]
      BY <2>1, PowersAdd, Sizes DEF Word, MemBytes
    <2>3. TwoTo[WordBits - AddrBits] \in Nat \ {0}
      <3>1. WordBits - AddrBits \in 0 .. WordBits
        BY <2>1, Sizes
      <3>2. QED
        BY <3>1, PowersPositive
    <2> DEFINE D == TwoTo[WordBits - AddrBits]
    <2> HIDE DEF D
    <2>4. MemBytes <= MemBytes * D
      BY <1>2, <2>3 DEF D
    <2>5. QED
      BY <2>2, <2>4 DEF D
  <1>8. Lsl(q, k) = w * q
    <2> HIDE DEF q
    <2>1. w * q \in 0 .. Word - 1 /\ q * w = w * q
      BY <1>2, <1>3, <1>4, <1>5, <1>7
    <2>2. \A a \in 0 .. Word - 1 : a % Word = a
      BY <1>2
    <2>3. QED
      BY <1>1, <2>1, <2>2 DEF Lsl
  <1>9. At(r, w) <= MemBytes - w
    <2>1. PICK m \in Nat : MemBytes = w * m
      <3>1. /\ AddrBits - k \in Nat /\ k \in Nat /\ k + (AddrBits - k) = AddrBits
            /\ AddrBits <= WordBits
        BY <1>1, Sizes
      <3>2. MemBytes = w * TwoTo[AddrBits - k]
        BY <1>1, <3>1, PowersAdd, Sizes DEF MemBytes
      <3>3. TwoTo[AddrBits - k] \in Nat
        <4>1. AddrBits - k \in 0 .. WordBits
          BY <3>1, Sizes
        <4>2. QED
          BY <4>1, PowersPositive
      <3>4. QED
        BY <3>2, <3>3
    <2> HIDE DEF q
    <2>2. w * q < w * m
      BY <1>3, <1>4, <1>5, <2>1
    <2>3. q < m
      BY <1>4, <2>1, <2>2
    <2>4. w * q + w <= w * m
      BY <1>4, <2>1, <2>3
    <2>5. QED
      BY <1>2, <1>4, <1>5, <2>1, <2>4
  <1>10. QED
    BY <1>3, <1>5, <1>6, <1>8, <1>9

(* As long as the other end of the walk: the source of a copy wraps. *)
LEMMA MaskedNext ==
  ASSUME NEW y \in Nat
  PROVE  /\ (Masked(y) + 1) % MemBytes = Masked(y + 1)
         /\ Lsr(Lsl(Masked(y) + 1, WordBits - AddrBits), WordBits - AddrBits) = Masked(y + 1)
  <1>1. MemBytes \in Nat \ {0}
    BY PowersPositive
  <1>2. \A m \in Nat \ {0} : ((y % m) + 1) % m = (y + 1) % m
    <2>1. TAKE m \in Nat \ {0}
    <2> DEFINE x == y % m
               q == y \div m
    <2>2. y = m * q + x /\ x \in 0 .. m - 1 /\ q \in Nat
      BY Remainder
    <2> HIDE DEF x, q
    <2>3. y + 1 = m * q + (x + 1)
      BY <2>2
    <2>4. (m * q + (x + 1)) % m = (x + 1) % m
      BY <2>2
    <2>5. QED
      BY <2>3, <2>4 DEF x
  <1>3. (Masked(y) + 1) % MemBytes = Masked(y + 1)
    BY <1>1, <1>2 DEF Masked
  <1>4. Masked(y) + 1 \in Nat /\ Masked(y + 1) \in Nat
    BY <1>1, Remainder DEF Masked
  <1>5. Lsr(Lsl(Masked(y) + 1, WordBits - AddrBits), WordBits - AddrBits + 0)
          = Masked(Masked(y) + 1) \div TwoTo[0]
    BY <1>4, ShiftsMask
  <1>6. Masked(Masked(y) + 1) = Masked(y + 1)
    BY <1>3 DEF Masked
  <1>7. WordBits - AddrBits + 0 = WordBits - AddrBits
    BY Sizes
  <1>8. QED
    BY <1>3, <1>4, <1>5, <1>6, <1>7, SmallPowers
-----------------------------------------------------------------------------
(* The loops. *)

Bytes == 0 .. ByteMod - 1
Offsets == 0 .. MemBytes - 1

LEMMA Buffer ==
  /\ Memory = [Offsets -> Bytes] /\ Bytes \subseteq Nat /\ Offsets \subseteq Nat
  /\ \A y \in Nat : Masked(y) \in Offsets
  /\ \A start, end \in Offsets :
       /\ Length(start, end) \in Nat
       /\ \A n \in 1 .. Length(start, end) : start + n - 1 \in Offsets
       /\ \A i \in 0 .. Length(start, end) - 1 : start + i \in Offsets
  <1>1. ByteMod \in Nat \ {0} /\ MemBytes \in Nat \ {0}
    BY PowersPositive
  <1>2. ASSUME NEW y \in Nat PROVE Masked(y) \in Offsets
    BY <1>1, Remainder DEF Masked, Offsets
  <1>3. QED
    BY <1>1, <1>2 DEF Memory, Bytes, Offsets, Length

LEMMA ByteAt ==
  ASSUME NEW mem \in Memory, NEW o \in Offsets
  PROVE  mem[o] \in Int
  <1>1. mem[o] \in Bytes /\ ByteMod \in Nat
    BY Buffer, PowersPositive
  <1>2. QED
    BY <1>1 DEF Bytes

(* The forward copy, and the walk of the helper, which wraps its source with
   two shifts. *)
Copies(f, mem, src, dst, N) ==
  /\ f \in [0 .. N -> Memory] /\ f[0] = mem
  /\ \A n \in 1 .. N :
       f[n] = [f[n - 1] EXCEPT ![dst + n - 1] = f[n - 1][Masked(src + n - 1)]]
LEMMA CopyIs ==
  ASSUME NEW mem \in Memory, NEW src \in Offsets, NEW dst \in Offsets, NEW end \in Offsets
  PROVE  \E f : /\ Copies(f, mem, src, dst, Length(dst, end))
                /\ CopyTo(mem, src, dst, end) = f[Length(dst, end)]
  <1> DEFINE N == Length(dst, end)
             step == [n \in 1 .. N |-> [c \in Memory |->
                        [c EXCEPT ![dst + n - 1] = c[Masked(src + n - 1)]]]]
             Is(f) == f = [n \in 0 .. Length(dst, end) |->
                             IF n = 0 THEN mem
                             ELSE [f[n - 1] EXCEPT ![dst + n - 1] = f[n - 1][Masked(src + n - 1)]]]
  <1>1. N \in Nat
    BY Buffer
  <1>2. step \in Steps(Memory, N)
    <2>1. ASSUME NEW n \in 1 .. N, NEW c \in Memory
          PROVE  [c EXCEPT ![dst + n - 1] = c[Masked(src + n - 1)]] \in Memory
      <3>1. src + n - 1 \in Nat
        BY Buffer, <1>1
      <3>2. Masked(src + n - 1) \in Offsets
        BY <3>1, Buffer
      <3>3. QED
        BY <3>2, Buffer
    <2>2. QED
      BY <2>1 DEF Steps
  <1>3. PICK f : Goes(f, Memory, mem, N, step)
    <2> HIDE DEF N, step
    <2>1. QED
      BY <1>1, <1>2, Recursion
  <1>4. Is(f)
    <2>1. ASSUME NEW n \in 0 .. N, n # 0
          PROVE  f[n] = [f[n - 1] EXCEPT ![dst + n - 1] = f[n - 1][Masked(src + n - 1)]]
      <3>1. n \in 1 .. N /\ n - 1 \in 0 .. N
        BY <1>1, <2>1
      <3>2. f[n - 1] \in Memory
        BY <1>3, <3>1 DEF Goes
      <3>3. f[n] = step[n][f[n - 1]]
        BY <1>3, <3>1 DEF Goes
      <3>4. QED
        BY <3>1, <3>2, <3>3
    <2>2. f \in [0 .. N -> Memory] /\ f[0] = mem
      BY <1>3 DEF Goes
    <2>3. QED
      BY <1>1, <2>1, <2>2
  <1> DEFINE e == CHOOSE g : Is(g)
  <1>5. Is(e)
    BY <1>4
  <1>6. CopyTo(mem, src, dst, end) = e[N]
    BY DEF CopyTo
  <1> HIDE DEF e
  <1>7. DOMAIN e = 0 .. N /\ e[0] = mem /\ e = [n \in DOMAIN e |-> e[n]]
    BY <1>1, <1>5
  <1>8. ASSUME NEW n \in 1 .. N
        PROVE  e[n] = [e[n - 1] EXCEPT ![dst + n - 1] = e[n - 1][Masked(src + n - 1)]]
    <2>1. n \in 0 .. N /\ n # 0
      BY <1>1
    <2>2. QED
      BY <1>5, <2>1
  <1>9. e \in [0 .. N -> Memory]
    <2> DEFINE S == { n \in Nat : n <= N => e[n] \in Memory }
    <2>1. 0 \in S
      BY <1>7
    <2>2. ASSUME NEW n \in Nat, n \in S PROVE n + 1 \in S
      <3>1. SUFFICES ASSUME n + 1 <= N PROVE e[n + 1] \in Memory
        OBVIOUS
      <3>2. n + 1 \in 1 .. N /\ (n + 1) - 1 = n /\ e[n] \in Memory
        BY <1>1, <2>2, <3>1
      <3>3. step[n + 1][e[n]] \in Memory
        BY <1>2, <3>2 DEF Steps
      <3>4. e[n + 1] = step[n + 1][e[n]]
        BY <1>8, <3>2
      <3>5. QED
        BY <3>3, <3>4
    <2>3. Nat \subseteq S
      <3> HIDE DEF S
      <3>1. QED
        BY <2>1, <2>2, Induct
    <2> HIDE DEF N
    <2>4. \A n \in 0 .. N : e[n] \in Memory
      BY <1>1, <2>3
    <2>5. QED
      BY <1>7, <2>4
  <1>10. QED
    <2> HIDE DEF N
    <2>1. Copies(e, mem, src, dst, N)
      BY <1>7, <1>8, <1>9 DEF Copies
    <2>2. QED
      BY <1>6, <2>1 DEF N

LEMMA MoveAgrees ==
  ASSUME NEW mem \in Memory, NEW src \in Offsets, NEW dst \in Offsets, NEW end \in Offsets
  PROVE  /\ RawMemMove(mem, src, dst, end) = CopyTo(mem, src, dst, end)
         /\ CopyTo(mem, src, dst, end) \in Memory
  <1> DEFINE N == Length(dst, end)
             wrap(r) == Lsr(Lsl(r + 1, WordBits - AddrBits), WordBits - AddrBits)
             next(s, n) == [mem |-> [s.mem EXCEPT ![dst + n - 1] = s.mem[s.r0]], r0 |-> wrap(s.r0)]
             Is(g) == g = [n \in 0 .. Length(dst, end) |->
                             IF n = 0 THEN [mem |-> mem, r0 |-> src] ELSE next(g[n - 1], n)]
  <1>1. N \in Nat /\ src \in Nat /\ Masked(src) = src
    <2>1. MemBytes \in Nat \ {0}
      BY PowersPositive
    <2>2. src % MemBytes = src /\ src \in Nat
      BY <2>1 DEF Offsets
    <2>3. N \in Nat
      BY Buffer
    <2>4. QED
      BY <2>2, <2>3 DEF Masked
  <1>a. PICK f : Copies(f, mem, src, dst, N) /\ CopyTo(mem, src, dst, end) = f[N]
    BY CopyIs
  <1>2. /\ f \in [0 .. N -> Memory] /\ f[0] = mem
        /\ \A n \in 1 .. N :
             f[n] = [f[n - 1] EXCEPT ![dst + n - 1] = f[n - 1][Masked(src + n - 1)]]
        /\ CopyTo(mem, src, dst, end) = f[N]
    BY <1>a DEF Copies
  <1> DEFINE h == [n \in 0 .. N |-> [mem |-> f[n], r0 |-> Masked(src + n)]]
  <1>3. ASSUME NEW n \in 1 .. N
        PROVE  next([mem |-> f[n - 1], r0 |-> Masked(src + n - 1)], n)
                 = [mem |-> f[n], r0 |-> Masked(src + n)]
    <2>1. src + n - 1 \in Nat /\ (src + n - 1) + 1 = src + n
      BY <1>1
    <2>2. wrap(Masked(src + n - 1)) = Masked(src + n)
      BY <2>1, MaskedNext
    <2>3. QED
      BY <1>2, <2>2
  <1> HIDE DEF next
  <1>4. Is(h)
    <2>1. h[0] = [mem |-> mem, r0 |-> src]
      BY <1>1, <1>2
    <2>2. ASSUME NEW n \in 0 .. N, n # 0 PROVE h[n] = next(h[n - 1], n)
      <3>1. n \in 1 .. N /\ n - 1 \in 0 .. N /\ src + (n - 1) = src + n - 1
        BY <1>1, <2>2
      <3>2. h[n - 1] = [mem |-> f[n - 1], r0 |-> Masked(src + n - 1)]
        BY <3>1
      <3>3. QED
        BY <1>3, <3>1, <3>2
    <2>3. QED
      BY <1>1, <2>1, <2>2
  <1> DEFINE e == CHOOSE g : Is(g)
  <1>5. Is(e)
    BY <1>4
  <1>6. RawMemMove(mem, src, dst, end) = e[N].mem
    BY DEF RawMemMove, next
  <1> HIDE DEF e, h
  <1>7. e[0] = [mem |-> mem, r0 |-> src] /\ \A n \in 1 .. N : e[n] = next(e[n - 1], n)
    BY <1>1, <1>5
  <1> DEFINE S == { n \in Nat : n <= N => e[n] = [mem |-> f[n], r0 |-> Masked(src + n)] }
  <1>8. 0 \in S
    BY <1>1, <1>2, <1>7
  <1>9. ASSUME NEW n \in Nat, n \in S PROVE n + 1 \in S
    <2>1. SUFFICES ASSUME n + 1 <= N
                   PROVE  e[n + 1] = [mem |-> f[n + 1], r0 |-> Masked(src + (n + 1))]
      OBVIOUS
    <2>2. n + 1 \in 1 .. N /\ (n + 1) - 1 = n /\ src + (n + 1) - 1 = src + n
          /\ e[n] = [mem |-> f[n], r0 |-> Masked(src + n)]
      BY <1>1, <1>9, <2>1
    <2>3. e[n + 1] = next(e[n], n + 1)
      BY <1>7, <2>2
    <2>4. QED
      BY <1>3, <2>2, <2>3
  <1>10. N \in S
    <2> HIDE DEF S
    <2>1. QED
      BY <1>1, <1>8, <1>9, Induct
  <1>11. N \in 0 .. N
    BY <1>1
  <1>12. QED
    BY <1>2, <1>6, <1>10, <1>11

(* The first of n differences that is not 0. *)
Nonzero(d, n) == { i \in 0 .. n - 1 : d[i] # 0 }
FirstOf(d, n) == IF Nonzero(d, n) = {} THEN 0 ELSE d[Lowest(Nonzero(d, n))]

(* A loop that ends with the first such difference has it in hand. *)
LEMMA FirstNext ==
  ASSUME NEW N \in Nat, NEW d \in [0 .. N - 1 -> Int], NEW n \in 0 .. N - 1
  PROVE  FirstOf(d, n + 1) = IF FirstOf(d, n) # 0 THEN FirstOf(d, n) ELSE d[n]
  <1> DEFINE S == Nonzero(d, n)
             T == Nonzero(d, n + 1)
  <1>1. /\ n \in Nat /\ S \subseteq 0 .. n - 1 /\ S \subseteq T /\ S \subseteq Nat /\ T \subseteq Nat
        /\ \A i \in T : i \in S \/ i = n
        /\ n \in T <=> d[n] # 0
    BY DEF Nonzero
  <1>2. \A i \in S : d[i] # 0
    BY DEF Nonzero
  <1>3. CASE S = {}
    <2>1. CASE d[n] = 0
      BY <1>1, <1>3, <2>1 DEF FirstOf
    <2>2. CASE d[n] # 0
      <3>1. T = {n}
        BY <1>1, <1>3, <2>2
      <3>2. Lowest(T) = n
        <4> HIDE DEF T
        <4>1. QED
          BY <3>1, <1>1, LowestIs
      <3>3. QED
        BY <1>3, <3>1, <3>2 DEF FirstOf
    <2>3. QED
      BY <2>1, <2>2
  <1>4. CASE S # {}
    <2> HIDE DEF S, T
    <2>1. /\ Lowest(S) \in S /\ \A i \in S : Lowest(S) <= i
          /\ Lowest(T) \in T /\ \A i \in T : Lowest(T) <= i
      BY <1>1, <1>4, LowestIs
    <2>2. Lowest(T) \in S
      <3>1. Lowest(T) <= Lowest(S) /\ Lowest(S) \in 0 .. n - 1 /\ Lowest(T) \in Nat
        BY <1>1, <2>1
      <3>2. Lowest(T) # n
        BY <1>1, <3>1
      <3>3. QED
        BY <1>1, <2>1, <3>2
    <2>3. Lowest(T) = Lowest(S)
      <3>1. Lowest(S) <= Lowest(T) /\ Lowest(T) <= Lowest(S)
        BY <1>1, <2>1, <2>2
      <3>2. Lowest(S) \in Nat /\ Lowest(T) \in Nat
        BY <1>1, <2>1
      <3>3. QED
        BY <3>1, <3>2
    <2>4. T # {} /\ d[Lowest(S)] # 0
      BY <1>1, <1>2, <1>4, <2>1
    <2>5. QED
      BY <1>4, <2>3, <2>4 DEF FirstOf, S, T
  <1>5. QED
    BY <1>3, <1>4

LEMMA CmpAgrees ==
  ASSUME NEW mem \in Memory, NEW a \in Offsets, NEW end \in Offsets, NEW b \in Offsets
  PROVE  RawMemCmp(mem, a, end, b) = FirstDifference(mem, a, end, b)
  <1> DEFINE N == Length(a, end)
             V == [b : Offsets, result : Int]
             next(s, n) == IF s.result # 0 THEN s
                           ELSE [b |-> (s.b + 1) % MemBytes,
                                 result |-> mem[a + n - 1] - mem[s.b]]
             step == [n \in 1 .. N |-> [s \in V |-> next(s, n)]]
             start == [b |-> b, result |-> 0]
             Is(f) == f = [n \in 0 .. Length(a, end) |->
                             IF n = 0 THEN start ELSE next(f[n - 1], n)]
             d == [i \in 0 .. N - 1 |-> mem[a + i] - mem[Masked(b + i)]]
  <1>1. /\ N \in Nat /\ start \in V /\ b \in Nat /\ a \in Nat
        /\ \A n \in 1 .. N : a + n - 1 \in Offsets
        /\ \A i \in 0 .. N - 1 : a + i \in Offsets
        /\ \A o \in Offsets : mem[o] \in Int
    <2>1. N \in Nat /\ b \in Nat /\ a \in Nat
      BY Buffer
    <2>2. /\ \A n \in 1 .. N : a + n - 1 \in Offsets
          /\ \A i \in 0 .. N - 1 : a + i \in Offsets
      BY Buffer
    <2>3. \A o \in Offsets : mem[o] \in Int
      BY ByteAt
    <2>4. QED
      BY <2>1, <2>2, <2>3
  <1>2. \A n \in 1 .. N : \A s \in V : next(s, n) \in V
    <2>1. TAKE n \in 1 .. N
    <2>2. TAKE s \in V
    <2>3. s.b \in Offsets /\ s.b \in Nat /\ mem[s.b] \in Int /\ mem[a + n - 1] \in Int
      BY <1>1, Buffer
    <2>4. (s.b + 1) % MemBytes \in Offsets
      <3>1. Masked(s.b + 1) \in Offsets
        BY <2>3, Buffer
      <3>2. QED
        BY <3>1 DEF Masked
    <2>5. QED
      BY <2>3, <2>4
  <1> HIDE DEF next
  <1>3. step \in Steps(V, N)
    BY <1>2 DEF Steps
  <1>4. PICK f : Goes(f, V, start, N, step)
    <2> HIDE DEF N, V, step, start
    <2>1. QED
      BY <1>1, <1>3, Recursion
  <1>5. Is(f)
    <2>1. ASSUME NEW n \in 0 .. N, n # 0 PROVE f[n] = next(f[n - 1], n)
      <3>1. n \in 1 .. N /\ n - 1 \in 0 .. N
        BY <1>1, <2>1
      <3>2. f[n - 1] \in V /\ f[n] = step[n][f[n - 1]]
        BY <1>4, <3>1 DEF Goes
      <3>3. QED
        BY <3>1, <3>2
    <2>2. f \in [0 .. N -> V] /\ f[0] = start
      BY <1>4 DEF Goes
    <2>3. QED
      BY <1>1, <2>1, <2>2
  <1> DEFINE e == CHOOSE g : Is(g)
  <1>6. Is(e)
    BY <1>5
  <1>7. RawMemCmp(mem, a, end, b) = e[N].result
    BY DEF RawMemCmp, next
  <1> HIDE DEF e
  <1>8. e[0] = start /\ \A n \in 1 .. N : e[n] = next(e[n - 1], n)
    <2>1. \A n \in 1 .. N : n \in 0 .. N /\ n # 0
      BY <1>1
    <2>2. QED
      BY <1>1, <1>6, <2>1
  <1>9. d \in [0 .. N - 1 -> Int]
    <2>1. ASSUME NEW i \in 0 .. N - 1 PROVE mem[a + i] - mem[Masked(b + i)] \in Int
      <3>1. Masked(b + i) \in Offsets
        BY <1>1, Buffer
      <3>2. mem[a + i] \in Int /\ mem[Masked(b + i)] \in Int
        BY <1>1, <3>1
      <3>3. QED
        BY <3>2
    <2>2. QED
      BY <2>1
  <1> DEFINE S == { n \in Nat : n <= N => /\ e[n].result = FirstOf(d, n)
                                          /\ FirstOf(d, n) = 0 => e[n].b = Masked(b + n) }
  <1>10. 0 \in S
    <2>1. Masked(b + 0) = b
      <3>1. MemBytes \in Nat \ {0}
        BY PowersPositive
      <3>2. (b + 0) % MemBytes = b
        BY <3>1 DEF Offsets
      <3>3. QED
        BY <3>2 DEF Masked
    <2>2. FirstOf(d, 0) = 0
      BY DEF FirstOf, Nonzero
    <2>3. QED
      BY <1>8, <2>1, <2>2
  <1>11. ASSUME NEW n \in Nat, n \in S PROVE n + 1 \in S
    <2>1. SUFFICES ASSUME n + 1 <= N
                   PROVE  /\ e[n + 1].result = FirstOf(d, n + 1)
                          /\ FirstOf(d, n + 1) = 0 => e[n + 1].b = Masked(b + (n + 1))
      OBVIOUS
    <2>2. /\ n + 1 \in 1 .. N /\ (n + 1) - 1 = n /\ a + (n + 1) - 1 = a + n /\ n \in 0 .. N - 1
          /\ b + (n + 1) = (b + n) + 1 /\ b + n \in Nat
          /\ e[n].result = FirstOf(d, n) /\ (FirstOf(d, n) = 0 => e[n].b = Masked(b + n))
      BY <1>1, <1>11, <2>1
    <2>3. e[n + 1] = next(e[n], n + 1)
      BY <1>8, <2>2
    <2>4. FirstOf(d, n + 1) = IF FirstOf(d, n) # 0 THEN FirstOf(d, n) ELSE d[n]
      <3> HIDE DEF d, N
      <3>1. QED
        BY <1>1, <1>9, <2>2, FirstNext
    <2>5. CASE FirstOf(d, n) # 0
      BY <2>2, <2>3, <2>4, <2>5 DEF next
    <2>6. CASE FirstOf(d, n) = 0
      <3>1. d[n] = mem[a + n] - mem[Masked(b + n)]
        BY <2>2
      <3>2. e[n + 1] = [b |-> (Masked(b + n) + 1) % MemBytes,
                        result |-> mem[a + n] - mem[Masked(b + n)]]
        BY <2>2, <2>3, <2>6 DEF next
      <3>3. (Masked(b + n) + 1) % MemBytes = Masked((b + n) + 1)
        BY <2>2, MaskedNext
      <3>4. QED
        BY <2>2, <2>4, <2>6, <3>1, <3>2, <3>3
    <2>7. QED
      BY <2>5, <2>6
  <1>12. N \in S
    <2> HIDE DEF S
    <2>1. QED
      BY <1>1, <1>10, <1>11, Induct
  <1>13. FirstDifference(mem, a, end, b) = FirstOf(d, N)
    <2>1. Nonzero(d, N) = { i \in 0 .. N - 1 : mem[a + i] # mem[Masked(b + i)] }
      <3>1. ASSUME NEW i \in 0 .. N - 1
            PROVE  mem[a + i] \in Int /\ mem[Masked(b + i)] \in Int
        <4>1. Masked(b + i) \in Offsets
          BY <1>1, Buffer
        <4>2. QED
          BY <1>1, <4>1
      <3>2. QED
        BY <3>1 DEF Nonzero
    <2>2. Nonzero(d, N) # {} => Lowest(Nonzero(d, N)) \in 0 .. N - 1
      <3>1. Nonzero(d, N) \subseteq 0 .. N - 1 /\ Nonzero(d, N) \subseteq Nat
        BY <1>1 DEF Nonzero
      <3>2. QED
        BY <3>1, LowestIs
    <2>3. QED
      BY <2>1, <2>2 DEF FirstDifference, FirstOf
  <1>14. QED
    BY <1>1, <1>7, <1>12, <1>13

LEMMA SliceAgrees ==
  ASSUME NEW mem \in Memory, NEW a \in Offsets, NEW aEnd \in Offsets,
         NEW b \in Offsets, NEW bEnd \in Offsets
  PROVE  LET lenA == Length(a, aEnd)
             lenB == Length(b, bEnd)
         IN  RawMemSliceCmp(mem, a, b, lenA, lenB) = SliceDifference(mem, a, lenA, b, lenB)
  <1> DEFINE lenA == Length(a, aEnd)
             lenB == Length(b, bEnd)
             N == IF lenA < lenB THEN lenA ELSE lenB
             next(r, n) == IF r # 0 THEN r ELSE mem[a + n - 1] - mem[b + n - 1]
             step == [n \in 1 .. N |-> [r \in Int |-> next(r, n)]]
             Is(f) == f = [n \in 0 .. N |-> IF n = 0 THEN 0 ELSE next(f[n - 1], n)]
             d == [i \in 0 .. N - 1 |-> mem[a + i] - mem[b + i]]
  <1>1. /\ N \in Nat /\ b \in Nat /\ a \in Nat
        /\ \A n \in 1 .. N : mem[a + n - 1] \in Int /\ mem[b + n - 1] \in Int
        /\ \A i \in 0 .. N - 1 : mem[a + i] \in Int /\ mem[b + i] \in Int
    <2>1. lenA \in Nat /\ lenB \in Nat /\ b \in Nat /\ a \in Nat
      BY Buffer
    <2>2. N \in Nat /\ N <= lenA /\ N <= lenB
      BY <2>1
    <2>3. ASSUME NEW i \in 0 .. N - 1 PROVE mem[a + i] \in Int /\ mem[b + i] \in Int
      <3>1. i \in 0 .. lenA - 1 /\ i \in 0 .. lenB - 1
        BY <2>1, <2>2
      <3>2. a + i \in Offsets /\ b + i \in Offsets
        BY <3>1, Buffer
      <3>3. QED
        BY <3>2, ByteAt
    <2>4. ASSUME NEW n \in 1 .. N PROVE mem[a + n - 1] \in Int /\ mem[b + n - 1] \in Int
      <3>1. n - 1 \in 0 .. N - 1 /\ a + n - 1 = a + (n - 1) /\ b + n - 1 = b + (n - 1)
        BY <2>1, <2>2
      <3>2. QED
        BY <2>3, <3>1
    <2>5. QED
      BY <2>1, <2>2, <2>3, <2>4
  <1>2. \A n \in 1 .. N : \A r \in Int : next(r, n) \in Int
    BY <1>1
  <1>3. RawMemSliceCmp(mem, a, b, lenA, lenB)
          = LET e == CHOOSE f : Is(f) IN IF e[N] # 0 THEN e[N] ELSE lenA - lenB
    BY DEF RawMemSliceCmp
  <1> HIDE DEF next, N
  <1>4. step \in Steps(Int, N)
    BY <1>2 DEF Steps
  <1>5. PICK f : Goes(f, Int, 0, N, step)
    <2>1. N \in Nat /\ 0 \in Int
      BY <1>1
    <2> HIDE DEF step
    <2>2. QED
      BY <2>1, <1>4, Recursion
  <1>6. Is(f)
    <2>1. ASSUME NEW n \in 0 .. N, n # 0 PROVE f[n] = next(f[n - 1], n)
      <3>1. n \in 1 .. N /\ n - 1 \in 0 .. N
        BY <1>1, <2>1
      <3>2. f[n - 1] \in Int /\ f[n] = step[n][f[n - 1]]
        BY <1>5, <3>1 DEF Goes
      <3>3. QED
        BY <3>1, <3>2
    <2>2. f \in [0 .. N -> Int] /\ f[0] = 0
      BY <1>5 DEF Goes
    <2>3. QED
      BY <1>1, <2>1, <2>2
  <1> DEFINE e == CHOOSE g : Is(g)
  <1>7. Is(e)
    BY <1>6
  <1> HIDE DEF e
  <1>8. e[0] = 0 /\ \A n \in 1 .. N : e[n] = next(e[n - 1], n)
    <2>1. \A n \in 1 .. N : n \in 0 .. N /\ n # 0
      BY <1>1
    <2>2. QED
      BY <1>1, <1>7, <2>1
  <1>9. d \in [0 .. N - 1 -> Int]
    <2>1. ASSUME NEW i \in 0 .. N - 1 PROVE mem[a + i] - mem[b + i] \in Int
      <3>1. mem[a + i] \in Int /\ mem[b + i] \in Int
        BY <1>1
      <3>2. QED
        BY <3>1
    <2>2. QED
      BY <2>1
  <1> DEFINE S == { n \in Nat : n <= N => e[n] = FirstOf(d, n) }
  <1>10. 0 \in S
    <2>1. FirstOf(d, 0) = 0
      BY DEF FirstOf, Nonzero
    <2>2. QED
      BY <1>8, <2>1
  <1>11. ASSUME NEW n \in Nat, n \in S PROVE n + 1 \in S
    <2>1. SUFFICES ASSUME n + 1 <= N PROVE e[n + 1] = FirstOf(d, n + 1)
      OBVIOUS
    <2>2. /\ n + 1 \in 1 .. N /\ (n + 1) - 1 = n /\ a + (n + 1) - 1 = a + n
          /\ b + (n + 1) - 1 = b + n /\ n \in 0 .. N - 1 /\ e[n] = FirstOf(d, n)
      BY <1>1, <1>11, <2>1
    <2>3. e[n + 1] = next(e[n], n + 1)
      BY <1>8, <2>2
    <2>4. FirstOf(d, n + 1) = IF FirstOf(d, n) # 0 THEN FirstOf(d, n) ELSE d[n]
      <3> HIDE DEF d
      <3>1. QED
        BY <1>1, <1>9, <2>2, FirstNext
    <2>5. d[n] = mem[a + n] - mem[b + n]
      BY <2>2
    <2>6. QED
      BY <2>2, <2>3, <2>4, <2>5 DEF next
  <1>12. N \in S
    <2> HIDE DEF S
    <2>1. QED
      BY <1>1, <1>10, <1>11, Induct
  <1> DEFINE differ == { i \in 0 .. N - 1 : mem[a + i] # mem[b + i] }
  <1>13. Nonzero(d, N) = differ
    <2>1. ASSUME NEW i \in 0 .. N - 1 PROVE d[i] # 0 <=> mem[a + i] # mem[b + i]
      <3>1. mem[a + i] \in Int /\ mem[b + i] \in Int /\ d[i] = mem[a + i] - mem[b + i]
        BY <1>1
      <3> HIDE DEF d
      <3>2. QED
        BY <3>1
    <2>2. QED
      BY <2>1 DEF Nonzero
  <1>14. differ # {} => FirstOf(d, N) = mem[a + Lowest(differ)] - mem[b + Lowest(differ)]
                        /\ FirstOf(d, N) # 0
    <2>1. SUFFICES ASSUME differ # {}
                   PROVE  /\ FirstOf(d, N) = mem[a + Lowest(differ)] - mem[b + Lowest(differ)]
                          /\ FirstOf(d, N) # 0
      OBVIOUS
    <2>2. Lowest(differ) \in differ
      <3>1. differ \subseteq Nat
        BY <1>1
      <3> HIDE DEF differ
      <3>2. QED
        BY <2>1, <3>1, LowestIs
    <2>3. FirstOf(d, N) = d[Lowest(differ)]
      <3> HIDE DEF d, differ
      <3>1. QED
        BY <1>13, <2>1 DEF FirstOf
    <2> DEFINE i == Lowest(differ)
    <2>4. i \in 0 .. N - 1 /\ mem[a + i] # mem[b + i]
      BY <2>2
    <2> HIDE DEF i, differ
    <2>5. d[i] = mem[a + i] - mem[b + i] /\ mem[a + i] \in Int /\ mem[b + i] \in Int
      BY <1>1, <2>4
    <2> HIDE DEF d
    <2>6. d[i] # 0
      BY <2>4, <2>5
    <2>7. QED
      BY <2>3, <2>5, <2>6 DEF i
  <1>15. differ = {} => FirstOf(d, N) = 0
    BY <1>13 DEF FirstOf
  <1>16. SliceDifference(mem, a, lenA, b, lenB)
           = IF differ = {} THEN lenA - lenB
             ELSE mem[a + Lowest(differ)] - mem[b + Lowest(differ)]
    BY DEF SliceDifference, N
  <1>17. e[N] = FirstOf(d, N)
    BY <1>1, <1>12
  <1>18. RawMemSliceCmp(mem, a, b, lenA, lenB) = IF e[N] # 0 THEN e[N] ELSE lenA - lenB
    BY <1>3 DEF e
  <1> HIDE DEF d, differ, lenA, lenB
  <1>19. RawMemSliceCmp(mem, a, b, lenA, lenB) = SliceDifference(mem, a, lenA, b, lenB)
    BY <1>14, <1>15, <1>16, <1>17, <1>18
  <1>20. QED
    BY <1>19 DEF lenA, lenB

-----------------------------------------------------------------------------
(* An opcode on both halves. *)

LEMMA StoreTyped ==
  ASSUME NEW mem \in Memory, NEW base \in Nat, NEW w \in {1, 2, 4}, NEW v \in Nat
  PROVE  WithBytes(mem, base, w, v) \in Memory
  <1>1. ASSUME NEW o \in Offsets, o \in base .. base + w - 1
        PROVE  (v \div TwoTo[ByteBits * (o - base)]) % ByteMod \in Bytes
    <2>1. o - base \in 0 .. 3
      BY <1>1, Buffer
    <2>2. ByteBits * (o - base) \in 0 .. WordBits
      BY <2>1, Sizes
    <2>3. TwoTo[ByteBits * (o - base)] \in Nat \ {0} /\ ByteMod \in Nat \ {0}
      BY <2>2, PowersPositive
    <2>4. v \div TwoTo[ByteBits * (o - base)] \in Nat
      BY <2>3, Remainder
    <2>5. QED
      BY <2>3, <2>4, Remainder DEF Bytes
  <1>2. DOMAIN mem = Offsets /\ \A o \in Offsets : mem[o] \in Bytes
    BY Buffer
  <1>3. WithBytes(mem, base, w, v) \in [Offsets -> Bytes]
    BY <1>1, <1>2 DEF WithBytes
  <1>4. QED
    BY <1>3, Buffer

LEMMA OpcodeAgrees ==
  ASSUME NEW op \in ExtOps, NEW mem \in Memory,
         NEW stack \in [1 .. Pops(op) -> 0 .. Word - 1], NEW acc \in 0 .. Word - 1
  PROVE  Emitted(op, mem, stack, acc) = Exec(op, mem, stack, acc) /\ Exec(op, mem, stack, acc).mem \in Memory
  <1>1. acc \in Nat /\ \A i \in 1 .. Pops(op) : stack[i] \in Nat
    BY PowersPositive
  <1>2. ASSUME NEW r \in Nat PROVE MaskAndAlign(r, 1) = Masked(r) /\ Masked(r) \in Offsets
    <2>1. MaskAndAlign(r, 1) = At(r, 1) /\ Masked(r) \in Offsets
      BY MaskIsAt DEF Offsets
    <2>2. \A x \in Nat : x - (x % 1) = x
      OBVIOUS
    <2>3. Masked(r) \in Nat
      BY <2>1, Buffer
    <2>4. At(r, 1) = Masked(r)
      BY <2>2, <2>3 DEF At
    <2>5. QED
      BY <2>1, <2>4
  <1>3. Width(op) \in {1, 2, 4}
    BY DEF Width
  <1>a. /\ op \in LoadOps => op \notin StoreOps
        /\ op \in LoadOps \cup StoreOps => op \notin BlockOps
        /\ "memmove" \in BlockOps /\ "memcmp" \in BlockOps /\ "slicecmp" \in BlockOps
    BY DEF LoadOps, StoreOps, BlockOps
  <1> DEFINE s == [i \in DOMAIN stack |-> Masked(stack[i])]
             m(i) == MaskAndAlign(stack[i], 1)
  <1>4. ASSUME NEW i \in 1 .. Pops(op) PROVE s[i] = m(i) /\ s[i] \in Offsets
    BY <1>1, <1>2
  <1> HIDE DEF m
  <1>5. CASE op \in LoadOps
    <2>1. MaskAndAlign(acc, Width(op)) = At(acc, Width(op))
      BY <1>1, <1>3, MaskIsAt
    <2>2. /\ Emitted(op, mem, stack, acc) = Result(mem, BytesAt(mem, MaskAndAlign(acc, Width(op)), Width(op)))
          /\ Exec(op, mem, stack, acc) = Result(mem, BytesAt(mem, At(acc, Width(op)), Width(op)))
      BY <1>5, <1>a DEF Emitted, Exec
    <2>3. QED
      BY <2>1, <2>2 DEF Result
  <1>6. CASE op \in StoreOps
    <2>1. 1 \in 1 .. Pops(op) /\ op \notin LoadOps
      BY <1>6 DEF Pops, StoreOps, LoadOps
    <2>2. MaskAndAlign(stack[1], Width(op)) = At(stack[1], Width(op)) /\ At(stack[1], Width(op)) \in Nat
      <3>1. stack[1] \in Nat
        BY <1>1, <2>1
      <3> DEFINE o == stack[1]
                 w == Width(op)
      <3> HIDE DEF o, w
      <3>2. MaskAndAlign(o, w) = At(o, w) /\ At(o, w) \in 0 .. MemBytes - w
        BY <1>3, <3>1, MaskIsAt DEF o, w
      <3>3. QED
        BY <3>2 DEF o, w
    <2>3. /\ Emitted(op, mem, stack, acc) = Result(WithBytes(mem, MaskAndAlign(stack[1], Width(op)), Width(op), acc), acc)
          /\ Exec(op, mem, stack, acc) = Result(WithBytes(mem, At(stack[1], Width(op)), Width(op), acc), acc)
      BY <1>6, <2>1, <1>a DEF Emitted, Exec
    <2>4. WithBytes(mem, At(stack[1], Width(op)), Width(op), acc) \in Memory
      BY <1>1, <1>3, <2>2, StoreTyped
    <2>5. QED
      BY <2>2, <2>3, <2>4 DEF Result
  <1>7. CASE op = "memmove"
    <2>1. {1, 2, 3} \subseteq 1 .. Pops(op)
      BY <1>7 DEF Pops, StoreOps, LoadOps
    <2>2. /\ Emitted(op, mem, stack, acc) = Result(RawMemMove(mem, m(1), m(2), m(3)), acc)
          /\ Exec(op, mem, stack, acc) = Result(CopyTo(mem, s[1], s[2], s[3]), acc)
      BY <1>7 DEF Emitted, Exec, LoadOps, StoreOps, m
    <2> HIDE DEF s
    <2>3. s[1] \in Offsets /\ s[2] \in Offsets /\ s[3] \in Offsets /\ s[1] = m(1) /\ s[2] = m(2) /\ s[3] = m(3)
      BY <1>4, <2>1
    <2>4. QED
      BY <2>2, <2>3, MoveAgrees DEF Result
  <1>8. CASE op = "memcmp"
    <2>1. {1, 2, 3} \subseteq 1 .. Pops(op)
      BY <1>8 DEF Pops, StoreOps, LoadOps
    <2>2. /\ Emitted(op, mem, stack, acc) = Result(mem, AsWord(RawMemCmp(mem, m(1), m(2), m(3))))
          /\ Exec(op, mem, stack, acc) = Result(mem, AsWord(FirstDifference(mem, s[1], s[2], s[3])))
      BY <1>8 DEF Emitted, Exec, LoadOps, StoreOps, m
    <2> HIDE DEF s
    <2>3. s[1] \in Offsets /\ s[2] \in Offsets /\ s[3] \in Offsets /\ s[1] = m(1) /\ s[2] = m(2) /\ s[3] = m(3)
      BY <1>4, <2>1
    <2>4. QED
      BY <2>2, <2>3, CmpAgrees DEF Result
  <1>9. CASE op = "slicecmp"
    <2>1. {1, 2, 3, 4} \subseteq 1 .. Pops(op)
      BY <1>9 DEF Pops, StoreOps, LoadOps
    <2>2. /\ Emitted(op, mem, stack, acc)
               = Result(mem, AsWord(RawMemSliceCmp(mem, m(1), m(3), Length(m(1), m(2)), Length(m(3), m(4)))))
          /\ Exec(op, mem, stack, acc)
               = Result(mem, AsWord(SliceDifference(mem, s[1], Length(s[1], s[2]), s[3], Length(s[3], s[4]))))
      BY <1>9 DEF Emitted, Exec, LoadOps, StoreOps, m
    <2> HIDE DEF s
    <2>3. /\ s[1] \in Offsets /\ s[2] \in Offsets /\ s[3] \in Offsets /\ s[4] \in Offsets
          /\ s[1] = m(1) /\ s[2] = m(2) /\ s[3] = m(3) /\ s[4] = m(4)
      BY <1>4, <2>1
    <2>4. QED
      BY <2>2, <2>3, SliceAgrees DEF Result
  <1>10. QED
    BY <1>5, <1>6, <1>7, <1>8, <1>9 DEF ExtOps, BlockOps

(* The buffer of the reference half is a buffer, and the target's the same. *)
HalvesInvariant == HalvesAgree /\ reference.mem \in Memory

LEMMA HalvesInit ==
  ASSUME HalvesIdle PROVE HalvesInvariant
  <1>1. Zeroed \in Memory
    <2>1. 0 \in Bytes
      BY PowersPositive DEF Bytes
    <2>2. Zeroed \in [Offsets -> Bytes]
      BY <2>1 DEF Zeroed, Offsets
    <2>3. QED
      BY <2>2, Buffer
  <1>2. QED
    BY <1>1 DEF HalvesIdle, HalvesInvariant, HalvesAgree, Result

LEMMA HalvesStep ==
  ASSUME HalvesInvariant, [RunOpcode]_halvesVars PROVE HalvesInvariant'
  <1>1. CASE RunOpcode
    <2>1. PICK op \in ExtOps : RunBoth(op)
      BY <1>1 DEF RunOpcode
    <2>2. PICK stack \in [1 .. Pops(op) -> OnStack], acc \in InAcc :
            /\ reference' = Exec(op, reference.mem, stack, acc)
            /\ target' = Emitted(op, target.mem, stack, acc)
      BY <2>1 DEF RunBoth
    <2>3. stack \in [1 .. Pops(op) -> 0 .. Word - 1] /\ acc \in 0 .. Word - 1
      BY HalvesAssumption
    <2>4. reference.mem \in Memory /\ target.mem = reference.mem
      BY DEF HalvesInvariant, HalvesAgree
    <2>5. /\ Emitted(op, reference.mem, stack, acc) = Exec(op, reference.mem, stack, acc)
          /\ Exec(op, reference.mem, stack, acc).mem \in Memory
      BY <2>3, <2>4, OpcodeAgrees
    <2>6. QED
      BY <2>2, <2>4, <2>5 DEF HalvesInvariant, HalvesAgree
  <1>2. CASE UNCHANGED halvesVars
    BY <1>2 DEF halvesVars, HalvesInvariant, HalvesAgree
  <1>3. QED
    BY <1>1, <1>2

(* Whatever opcodes run one after the other on whatever operands, the emitted
   code and its helpers leave the buffer and the accumulator as the reference
   half does. *)
THEOREM HalvesAlwaysAgree == HalvesSpec => []HalvesAgree
  <1>1. HalvesIdle => HalvesInvariant
    BY HalvesInit
  <1>2. HalvesInvariant /\ [RunOpcode]_halvesVars => HalvesInvariant'
    BY HalvesStep
  <1>3. HalvesInvariant => HalvesAgree
    BY DEF HalvesInvariant
  <1>4. QED
    BY <1>1, <1>2, <1>3, PTL DEF HalvesSpec

(* No access of the emitted code leaves the buffer, which is why it carries no
   bounds check: whatever is in the register, the masked offset and the width
   after it are inside, and the offset is aligned to the width. *)
THEOREM AccessStaysInside ==
  ASSUME NEW r \in 0 .. Word - 1, NEW w \in {1, 2, 4}
  PROVE  /\ MaskAndAlign(r, w) .. MaskAndAlign(r, w) + w - 1 \subseteq 0 .. MemBytes - 1
         /\ MaskAndAlign(r, w) % w = 0
  <1>1. r \in Nat
    BY PowersPositive
  <1>2. MaskAndAlign(r, w) = At(r, w) /\ At(r, w) \in 0 .. MemBytes - w /\ Masked(r) \in Nat
    BY <1>1, MaskIsAt
  <1>3. \A x \in Nat, u \in Nat \ {0} : (x - (x % u)) % u = 0
    OBVIOUS
  <1>4. At(r, w) % w = 0
    BY <1>2, <1>3 DEF At
  <1>5. MemBytes \in Nat
    BY PowersPositive
  <1> DEFINE o == At(r, w)
  <1> HIDE DEF o
  <1>6. o .. o + w - 1 \subseteq 0 .. MemBytes - 1
    BY <1>2, <1>5 DEF o
  <1>7. QED
    BY <1>2, <1>4, <1>6 DEF o

-----------------------------------------------------------------------------
(* The stack margin. *)

(* What defines a function by its values at arguments of a lower rank. *)
Agree(P, rank, x, g, h) == \A y \in P : rank[y] < rank[x] => g[y] = h[y]
Ranked(P, V, rank, G) ==
  /\ G \in [[P -> V] -> [P -> V]]
  /\ \A g, h \in [P -> V] : \A x \in P : Agree(P, rank, x, g, h) => G[g][x] = G[h][x]

(* Such a function exists when ranks are bounded. *)
LEMMA RankedRecursion ==
  ASSUME NEW P, NEW V, NEW v \in V, NEW N \in Nat, NEW rank \in [P -> 0 .. N],
         NEW G, Ranked(P, V, rank, G)
  PROVE  \E F \in [P -> V] : F = G[F]
  <1> DEFINE W == [P -> V]
             base == [x \in P |-> v]
             step == [i \in 1 .. N + 2 |-> G]
  <1>1. base \in W /\ step \in Steps(W, N + 2) /\ N + 2 \in Nat
    BY DEF Ranked, Steps
  <1>2. PICK A : Goes(A, W, base, N + 2, step)
    <2> HIDE DEF W, base, step
    <2>1. QED
      BY <1>1, Recursion
  <1>3. ASSUME NEW n \in 0 .. N + 1 PROVE A[n] \in W /\ A[n + 1] = G[A[n]]
    <2>1. n + 1 \in 1 .. N + 2 /\ (n + 1) - 1 = n /\ n \in 0 .. N + 2
      OBVIOUS
    <2>2. A[n] \in W /\ A[n + 1] = step[n + 1][A[n]]
      BY <1>2, <2>1 DEF Goes
    <2>3. QED
      BY <2>1, <2>2
  <1> DEFINE S == { n \in Nat : n <= N + 1 =>
                      \A x \in P : rank[x] < n => A[n + 1][x] = A[n][x] }
  <1>4. 0 \in S
    OBVIOUS
  <1>5. ASSUME NEW n \in Nat, n \in S PROVE n + 1 \in S
    <2>1. SUFFICES ASSUME n + 1 <= N + 1, NEW x \in P, rank[x] < n + 1
                   PROVE  A[(n + 1) + 1][x] = A[n + 1][x]
      OBVIOUS
    <2>2. n \in 0 .. N + 1 /\ n + 1 \in 0 .. N + 1
      BY <2>1
    <2>3. /\ A[n] \in W /\ A[n + 1] \in W
          /\ A[n + 1] = G[A[n]] /\ A[(n + 1) + 1] = G[A[n + 1]]
      BY <1>3, <2>2
    <2>4. ASSUME NEW y \in P, rank[y] < rank[x] PROVE A[n + 1][y] = A[n][y]
      <3>1. rank[y] < n
        BY <2>1, <2>4
      <3>2. QED
        BY <1>5, <2>1, <3>1
    <2>5. Agree(P, rank, x, A[n + 1], A[n])
      BY <2>4 DEF Agree
    <2>6. QED
      BY <2>3, <2>5 DEF Ranked
  <1>6. N + 1 \in S
    <2> HIDE DEF S
    <2>1. QED
      BY <1>4, <1>5, Induct
  <1>7. A[N + 1] \in W /\ A[(N + 1) + 1] \in W /\ A[(N + 1) + 1] = G[A[N + 1]]
    <2>1. N + 1 \in 0 .. N + 1 /\ (N + 1) + 1 \in 0 .. N + 2
      OBVIOUS
    <2>2. QED
      BY <1>2, <1>3, <2>1 DEF Goes
  <1>8. ASSUME NEW x \in P PROVE A[(N + 1) + 1][x] = A[N + 1][x]
    BY <1>6
  <1>9. A[(N + 1) + 1] = A[N + 1]
    BY <1>7, <1>8
  <1>10. QED
    BY <1>7, <1>9

(* The larger of two. *)
LEMMA BiggestOfTwo ==
  ASSUME NEW a \in Nat, NEW b \in Nat
  PROVE  /\ Biggest({a, b}) \in {a, b} /\ Biggest({a, b}) \in Nat
         /\ a <= Biggest({a, b}) /\ b <= Biggest({a, b})
  <1>1. \E m \in {a, b} : \A o \in {a, b} : o <= m
    <2>1. CASE a <= b
      BY <2>1
    <2>2. CASE b <= a
      BY <2>2
    <2>3. QED
      BY <2>1, <2>2
  <1>2. QED
    BY <1>1 DEF Biggest

LEMMA BiggestIs ==
  ASSUME NEW S, S \subseteq Nat, NEW b \in S, \A x \in S : x <= b
  PROVE  Biggest(S) = b
  <1>1. Biggest(S) \in S /\ \A o \in S : o <= Biggest(S)
    BY DEF Biggest
  <1>2. b <= Biggest(S) /\ Biggest(S) <= b /\ b \in Nat /\ Biggest(S) \in Nat
    BY <1>1
  <1>3. QED
    BY <1>2

(* A sequence of one or of more. *)
LEMMA OneOrMore ==
  ASSUME NEW p \in Seq(Defined)
  PROVE  /\ Len(p) > 1 => Len(p) # 1
         /\ Len(p) >= 1 /\ Len(p) # 1 => Len(p) > 1
         /\ Len(p) > 1 /\ ~ (Len(p) > 2) => Len(p) = 2
         /\ 1 <= Len(p) - 1 => Len(p) # 1
  <1>1. ASSUME NEW n \in Nat
        PROVE  /\ n > 1 => n # 1
               /\ n >= 1 /\ n # 1 => n > 1
               /\ n > 1 /\ ~ (n > 2) => n = 2
               /\ 1 <= n - 1 => n # 1
    OBVIOUS
  <1>2. Len(p) \in Nat
    OBVIOUS
  <1>3. QED
    BY <1>1, <1>2, Zenon

LEMMA GraphIs ==
  /\ IsFiniteSet(Defined) /\ IsFiniteSet(Signatures) /\ NoCaller \notin Defined
  /\ \A f \in Defined : f[2] \in Signatures /\ MayCall(f) \in SUBSET Defined
  <1>1. IsFiniteSet(Defined) /\ NoCaller \notin Defined
    BY StackMarginAssumption DEF NoCaller
  <1>2. IsFiniteSet(Signatures)
    <2> DEFINE sig == [f \in Defined |-> f[2]]
    <2>1. sig \in Surjection(Defined, Signatures)
      BY DEF Signatures, Surjection
    <2> HIDE DEF sig
    <2>2. QED
      BY <1>1, <2>1, FS_Surjection
  <1>3. ASSUME NEW f \in Defined PROVE f[2] \in Signatures /\ MayCall(f) \in SUBSET Defined
    BY DEF Signatures, MayCall, Resolve
  <1>4. QED
    BY <1>1, <1>2, <1>3

-----------------------------------------------------------------------------
(* The depth of a chain. *)

FrameTyped == frame \in [Defined -> Nat]

Sums(d, p) ==
  /\ d \in [0 .. Len(p) -> Nat] /\ d[0] = 0
  /\ \A n \in 1 .. Len(p) : d[n] = d[n - 1] + frame[p[n]]

LEMMA DepthIs ==
  ASSUME FrameTyped, NEW p \in Seq(Defined)
  PROVE  \E d : Sums(d, p) /\ Depth(p) = d[Len(p)]
  <1> DEFINE N == Len(p)
             step == [n \in 1 .. N |-> [b \in Nat |-> b + frame[p[n]]]]
             Is(f) == f = [n \in 0 .. Len(p) |-> IF n = 0 THEN 0 ELSE f[n - 1] + frame[p[n]]]
  <1>1. N \in Nat /\ 0 \in Nat /\ \A n \in 1 .. N : frame[p[n]] \in Nat
    BY DEF FrameTyped
  <1>2. step \in Steps(Nat, N)
    BY <1>1 DEF Steps
  <1>3. PICK f : Goes(f, Nat, 0, N, step)
    <2> HIDE DEF N, step
    <2>1. QED
      BY <1>1, <1>2, Recursion
  <1>4. Is(f)
    <2>1. ASSUME NEW n \in 0 .. N, n # 0 PROVE f[n] = f[n - 1] + frame[p[n]]
      <3>1. n \in 1 .. N /\ n - 1 \in 0 .. N
        BY <1>1, <2>1
      <3>2. f[n - 1] \in Nat /\ f[n] = step[n][f[n - 1]]
        BY <1>3, <3>1 DEF Goes
      <3>3. QED
        BY <3>1, <3>2
    <2>2. f \in [0 .. N -> Nat] /\ f[0] = 0
      BY <1>3 DEF Goes
    <2>3. QED
      BY <1>1, <2>1, <2>2
  <1> DEFINE e == CHOOSE g : Is(g)
  <1>5. Is(e)
    BY <1>4
  <1>6. Depth(p) = e[N]
    BY DEF Depth
  <1> HIDE DEF e
  <1>7. /\ e[0] = 0 /\ DOMAIN e = 0 .. N /\ e = [n \in DOMAIN e |-> e[n]]
        /\ \A n \in 1 .. N : e[n] = e[n - 1] + frame[p[n]]
    <2>1. \A n \in 1 .. N : n \in 0 .. N /\ n # 0
      BY <1>1
    <2>2. QED
      BY <1>1, <1>5, <2>1
  <1> DEFINE S == { n \in Nat : n <= N => e[n] \in Nat }
  <1>8. 0 \in S
    BY <1>7
  <1>9. ASSUME NEW n \in Nat, n \in S PROVE n + 1 \in S
    <2>1. SUFFICES ASSUME n + 1 <= N PROVE e[n + 1] \in Nat
      OBVIOUS
    <2>2. n + 1 \in 1 .. N /\ (n + 1) - 1 = n /\ e[n] \in Nat
      BY <1>1, <1>9, <2>1
    <2>3. e[n + 1] = e[n] + frame[p[n + 1]] /\ frame[p[n + 1]] \in Nat
      BY <1>1, <1>7, <2>2
    <2>4. QED
      BY <2>2, <2>3
  <1>10. Nat \subseteq S
    <2> HIDE DEF S
    <2>1. QED
      BY <1>8, <1>9, Induct
  <1>11. e \in [0 .. N -> Nat]
    BY <1>1, <1>7, <1>10
  <1>12. Sums(e, p)
    BY <1>7, <1>11 DEF Sums
  <1>13. QED
    BY <1>6, <1>12

LEMMA DepthOne ==
  ASSUME FrameTyped, NEW f \in Defined
  PROVE  Depth(<< f >>) = frame[f] /\ frame[f] \in Nat
  <1> DEFINE p == << f >>
  <1>1. p \in Seq(Defined) /\ Len(p) = 1 /\ p[1] = f /\ frame[f] \in Nat
    BY DEF FrameTyped
  <1> HIDE DEF p
  <1>2. PICK d : Sums(d, p) /\ Depth(p) = d[Len(p)]
    BY <1>1, DepthIs
  <1>3. d[1] = d[0] + frame[f] /\ d[0] = 0
    <2>1. 1 \in 1 .. Len(p) /\ 1 - 1 = 0
      BY <1>1
    <2>2. QED
      BY <1>1, <1>2, <2>1 DEF Sums
  <1>4. QED
    BY <1>1, <1>2, <1>3 DEF p

(* A chain is as deep as its first frame and the rest of it. *)
LEMMA DepthShift ==
  ASSUME FrameTyped, NEW p \in Seq(Defined), NEW q \in Seq(Defined),
         Len(p) = Len(q) + 1, \A i \in 1 .. Len(q) : p[i + 1] = q[i]
  PROVE  Depth(p) = frame[p[1]] + Depth(q) /\ Depth(p) \in Nat /\ Depth(q) \in Nat
  <1>1. PICK d : Sums(d, p) /\ Depth(p) = d[Len(p)]
    BY DepthIs
  <1>2. PICK e : Sums(e, q) /\ Depth(q) = e[Len(q)]
    BY DepthIs
  <1>3. Len(q) \in Nat /\ Len(p) = Len(q) + 1
    OBVIOUS
  <1>4. /\ \A n \in 0 .. Len(p) : d[n] \in Nat
        /\ \A n \in 0 .. Len(q) : e[n] \in Nat
        /\ \A n \in 1 .. Len(p) : frame[p[n]] \in Nat
    <2>1. \A n \in 1 .. Len(p) : p[n] \in Defined
      OBVIOUS
    <2>2. \A n \in 1 .. Len(p) : frame[p[n]] \in Nat
      BY <2>1 DEF FrameTyped
    <2>3. QED
      BY <1>1, <1>2, <2>2 DEF Sums
  <1> DEFINE b == frame[p[1]]
             S == { n \in Nat : n <= Len(q) => d[n + 1] = b + e[n] }
  <1>5. 0 \in S
    <2>1. 1 \in 1 .. Len(p) /\ 1 - 1 = 0
      BY <1>3
    <2>2. d[1] = d[0] + b /\ d[0] = 0 /\ e[0] = 0 /\ b \in Nat
      BY <1>1, <1>2, <1>4, <2>1 DEF Sums
    <2>3. QED
      BY <2>2
  <1>6. ASSUME NEW n \in Nat, n \in S PROVE n + 1 \in S
    <2>1. SUFFICES ASSUME n + 1 <= Len(q) PROVE d[(n + 1) + 1] = b + e[n + 1]
      OBVIOUS
    <2>2. /\ n + 1 \in 1 .. Len(q) /\ (n + 1) - 1 = n /\ n \in 0 .. Len(q)
          /\ (n + 1) + 1 \in 1 .. Len(p) /\ ((n + 1) + 1) - 1 = n + 1
      BY <1>3, <2>1
    <2>3. /\ d[(n + 1) + 1] = d[n + 1] + frame[p[(n + 1) + 1]]
          /\ e[n + 1] = e[n] + frame[q[n + 1]] /\ p[(n + 1) + 1] = q[n + 1]
          /\ d[n + 1] = b + e[n]
      BY <1>1, <1>2, <1>6, <2>2 DEF Sums
    <2>4. e[n] \in Nat /\ frame[p[(n + 1) + 1]] \in Nat /\ b \in Nat
      <3>1. 1 \in 1 .. Len(p)
        BY <1>3
      <3>2. QED
        BY <1>4, <2>2, <3>1
    <2> HIDE DEF b
    <2>5. QED
      BY <2>3, <2>4
  <1>7. Len(q) \in S
    <2> HIDE DEF S
    <2>1. QED
      BY <1>3, <1>5, <1>6, Induct
  <1>8. Len(p) \in 0 .. Len(p) /\ Len(q) \in 0 .. Len(q)
    BY <1>3
  <1>9. QED
    BY <1>1, <1>2, <1>3, <1>4, <1>7, <1>8

-----------------------------------------------------------------------------
(* What a walk finds.  A chain of calls from any function: the first runs, each
   of the others runs that is not guarded. *)
IsChain(p) ==
  /\ p \in Seq(Defined) /\ Len(p) >= 1
  /\ \A i \in 1 .. Len(p) - 1 :
       p[i + 1] \in MayCall(p[i]) /\ (i > 1 => p[i][2] \notin guarded)
From(f) == { p \in Seq(Defined) : IsChain(p) /\ p[1] = f }

(* No chain from f meets a problem, and one is b deep and none deeper. *)
Clear(f) ==
  \A p \in From(f) : Runs(p) =>
    Top(p) \notin dynamic /\ ~ Unresolved(Top(p)) /\ ~ Repeats(p)
Deepest(f, b) ==
  (\E p \in From(f) : Depth(p) = b) /\ \A p \in From(f) : Depth(p) <= b
Good(f, b) == b \in Nat /\ Clear(f) /\ Deepest(f, b)

(* What f adds below a caller, and the worst that some functions do. *)
Guarded(f, caller) == caller # NoCaller /\ f[2] \in guarded
Counts(f, caller, b) ==
  IF Guarded(f, caller) THEN b = frame[f] ELSE Good(f, b)
Worst(nodes, caller, b) ==
  /\ b \in Nat
  /\ \A n \in nodes : \E c \in Nat : Counts(n, caller, c) /\ c <= b
  /\ b = 0 \/ \E n \in nodes : Counts(n, caller, b)

(* The rest of a chain is a chain. *)
LEMMA RestIsChain ==
  ASSUME NEW p, IsChain(p), Len(p) > 1
  PROVE  /\ p[2] \in MayCall(p[1]) /\ p[1] \in Defined /\ p[2] \in Defined
         /\ Tail(p) \in From(p[2]) /\ Len(p) = Len(Tail(p)) + 1
         /\ \A i \in 1 .. Len(Tail(p)) : p[i + 1] = Tail(p)[i]
         /\ Top(Tail(p)) = Top(p)
         /\ Len(p) > 2 => p[2][2] \notin guarded
  <1> DEFINE q == Tail(p)
  <1>1. /\ p \in Seq(Defined) /\ q \in Seq(Defined) /\ Len(q) = Len(p) - 1
        /\ Len(p) \in Nat /\ \A i \in 1 .. Len(q) : q[i] = p[i + 1]
    BY DEF IsChain
  <1> HIDE DEF q
  <1>2. p[1] \in Defined /\ p[2] \in Defined /\ p[2] \in MayCall(p[1])
    BY <1>1 DEF IsChain
  <1>3. Len(p) > 2 => p[2][2] \notin guarded
    BY <1>1 DEF IsChain
  <1>4. ASSUME NEW i \in 1 .. Len(q) - 1
        PROVE  q[i + 1] \in MayCall(q[i]) /\ (i > 1 => q[i][2] \notin guarded)
    <2>1. /\ i + 1 \in 1 .. Len(p) - 1 /\ i + 1 > 1 /\ i \in 1 .. Len(q)
          /\ i + 1 \in 1 .. Len(q)
      BY <1>1
    <2>2. q[i] = p[i + 1] /\ q[i + 1] = p[(i + 1) + 1]
      BY <1>1, <2>1
    <2>3. QED
      BY <2>1, <2>2 DEF IsChain
  <1>5. IsChain(q)
    BY <1>1, <1>4 DEF IsChain
  <1>6. q[1] = p[2] /\ q[Len(q)] = p[Len(p)]
    BY <1>1
  <1>7. q \in From(p[2]) /\ Top(q) = Top(p) /\ Len(p) = Len(q) + 1
    BY <1>1, <1>5, <1>6 DEF From, Top
  <1>8. \A i \in 1 .. Len(q) : p[i + 1] = q[i]
    BY <1>1
  <1>9. QED
    BY <1>2, <1>3, <1>7, <1>8 DEF q

(* A call in front of a chain makes a chain. *)
LEMMA CallBefore ==
  ASSUME NEW f \in Defined, NEW g \in MayCall(f), NEW q \in From(g),
         Len(q) = 1 \/ g[2] \notin guarded
  PROVE  \E p \in From(f) : /\ Len(p) = Len(q) + 1 /\ p[1] = f
                             /\ \A i \in 1 .. Len(q) : p[i + 1] = q[i]
  <1> DEFINE p == [i \in 1 .. Len(q) + 1 |-> IF i = 1 THEN f ELSE q[i - 1]]
  <1>1. q \in Seq(Defined) /\ Len(q) \in Nat /\ Len(q) >= 1 /\ q[1] = g
    BY DEF From, IsChain
  <1>2. p \in Seq(Defined) /\ Len(p) = Len(q) + 1 /\ p[1] = f
    <2>1. ASSUME NEW i \in 1 .. Len(q) + 1 PROVE p[i] \in Defined
      <3>1. CASE i = 1
        BY <3>1
      <3>2. CASE i # 1
        <4>1. i - 1 \in 1 .. Len(q)
          BY <1>1, <3>2
        <4>2. QED
          BY <1>1, <3>2, <4>1
      <3>3. QED
        BY <3>1, <3>2
    <2>2. p \in [1 .. Len(q) + 1 -> Defined] /\ Len(q) + 1 \in Nat
      BY <1>1, <2>1
    <2>3. QED
      BY <1>1, <2>2
  <1>3. \A i \in 1 .. Len(q) : p[i + 1] = q[i]
    BY <1>1
  <1> HIDE DEF p
  <1>4. ASSUME NEW i \in 1 .. Len(p) - 1
        PROVE  p[i + 1] \in MayCall(p[i]) /\ (i > 1 => p[i][2] \notin guarded)
    <2>1. CASE i = 1
      <3>1. p[2] = q[1]
        <4>1. 1 \in 1 .. Len(q) /\ 1 + 1 = 2
          BY <1>1
        <4>2. QED
          BY <1>3, <4>1
      <3>2. QED
        BY <1>1, <1>2, <2>1, <3>1
    <2>2. CASE i > 1
      <3>1. /\ i - 1 \in 1 .. Len(q) /\ i \in 1 .. Len(q) /\ (i - 1) + 1 = i
            /\ i - 1 \in 1 .. Len(q) - 1
        BY <1>1, <1>2, <2>2
      <3>2. p[i] = q[i - 1] /\ p[i + 1] = q[i]
        BY <1>3, <3>1
      <3>3. q[i] \in MayCall(q[i - 1]) /\ (i - 1 > 1 => q[i - 1][2] \notin guarded)
        BY <3>1 DEF From, IsChain
      <3>4. ASSUME i - 1 = 1 PROVE q[i - 1][2] \notin guarded
        <4>1. 1 \in 1 .. Len(q) - 1
          BY <3>1, <3>4
        <4>2. Len(q) # 1
          <5>1. 1 <= Len(q) - 1
            BY <1>1, <4>1
          <5>2. QED
            BY <1>1, <5>1, OneOrMore
        <4>3. q[i - 1] = g
          BY <1>1, <3>4
        <4>4. QED
          BY <4>2, <4>3
      <3>5. QED
        BY <2>2, <3>1, <3>2, <3>3, <3>4
    <2>3. QED
      BY <1>1, <1>2, <2>1, <2>2
  <1>5. p \in From(f)
    BY <1>1, <1>2, <1>4 DEF From, IsChain
  <1>6. QED
    BY <1>2, <1>3, <1>5

(* A call at the end of a chain whose last function runs makes a chain. *)
LEMMA CallAfter ==
  ASSUME NEW p, IsChain(p), Runs(p), NEW g \in MayCall(Top(p))
  PROVE  /\ Append(p, g) \in From(p[1]) /\ Len(Append(p, g)) = Len(p) + 1
         /\ Top(Append(p, g)) = g /\ \A i \in 1 .. Len(p) : Append(p, g)[i] = p[i]
  <1> DEFINE q == Append(p, g)
  <1>1. p \in Seq(Defined) /\ Len(p) \in Nat /\ Len(p) >= 1 /\ Top(p) \in Defined
    BY DEF IsChain, Top
  <1>2. g \in Defined
    BY <1>1, GraphIs
  <1>3. /\ q \in Seq(Defined) /\ Len(q) = Len(p) + 1 /\ q[Len(p) + 1] = g
        /\ \A i \in 1 .. Len(p) : q[i] = p[i]
    BY <1>1, <1>2
  <1> HIDE DEF q
  <1>4. ASSUME NEW i \in 1 .. Len(q) - 1
        PROVE  q[i + 1] \in MayCall(q[i]) /\ (i > 1 => q[i][2] \notin guarded)
    <2>1. i \in 1 .. Len(p) /\ i \in Nat /\ q[i] = p[i]
      BY <1>1, <1>3
    <2>2. CASE i = Len(p)
      <3>1. q[i] = Top(p) /\ q[i + 1] = g
        BY <1>3, <2>1, <2>2 DEF Top
      <3>2. i > 1 => Top(p)[2] \notin guarded
        BY <2>2 DEF Runs
      <3>3. QED
        BY <3>1, <3>2
    <2>3. CASE i # Len(p)
      <3>1. i \in 1 .. Len(p) - 1 /\ i + 1 \in 1 .. Len(p)
        BY <1>1, <2>1, <2>3
      <3>2. QED
        BY <1>3, <2>1, <3>1 DEF IsChain
    <2>4. QED
      BY <2>2, <2>3
  <1>5. IsChain(q) /\ q[1] = p[1] /\ Top(q) = g
    BY <1>1, <1>3, <1>4 DEF IsChain, Top
  <1>6. QED
    BY <1>3, <1>5 DEF From, q

(* What is good below a function is good of it. *)
LEMMA ClearAbove ==
  ASSUME NEW f \in Defined, f \notin dynamic, ~ Unresolved(f),
         \A g \in MayCall(f) : g[2] \notin guarded => Clear(g)
  PROVE  Clear(f)
  <1>1. SUFFICES ASSUME NEW p \in From(f), Runs(p)
                 PROVE  /\ Top(p) \notin dynamic /\ ~ Unresolved(Top(p)) /\ ~ Repeats(p)
    BY DEF Clear
  <1>2. IsChain(p) /\ p[1] = f /\ Len(p) \in Nat /\ Len(p) >= 1 /\ p \in Seq(Defined)
    BY DEF From, IsChain
  <1>3. CASE Len(p) = 1
    BY <1>2, <1>3 DEF Top, Repeats
  <1>4. CASE Len(p) > 1
    <2> DEFINE q == Tail(p)
               g == p[2]
    <2>1. /\ g \in MayCall(f) /\ g \in Defined /\ q \in From(g)
          /\ Len(p) = Len(q) + 1 /\ Top(q) = Top(p)
          /\ \A i \in 1 .. Len(q) : p[i + 1] = q[i]
          /\ Len(p) > 2 => g[2] \notin guarded
      BY <1>2, <1>4, RestIsChain
    <2> HIDE DEF q
    <2>2. Top(p)[2] \notin guarded
      BY <1>1, <1>2, <1>4, OneOrMore DEF Runs
    <2>3. Len(q) \in Nat /\ Len(q) >= 1 /\ IsChain(q) /\ q[1] = g
      BY <2>1 DEF From, IsChain
    <2>4. g[2] \notin guarded
      <3>1. CASE Len(p) > 2
        BY <2>1, <3>1
      <3>2. CASE Len(p) = 2
        BY <2>2, <3>2 DEF Top
      <3>3. QED
        BY <1>2, <1>4, <3>1, <3>2, OneOrMore
    <2>5. Clear(g) /\ Runs(q)
      BY <2>1, <2>2, <2>4 DEF Runs
    <2>6. Top(p) \notin dynamic /\ ~ Unresolved(Top(p)) /\ ~ Repeats(q)
      BY <2>1, <2>5 DEF Clear
    <2>7. Top(p) # f
      <3>1. SUFFICES ASSUME Top(p) = f PROVE FALSE
        OBVIOUS
      <3> DEFINE c == Append(q, g)
      <3>2. /\ c \in From(g) /\ Len(c) = Len(q) + 1 /\ Top(c) = g
            /\ \A i \in 1 .. Len(q) : c[i] = q[i]
        BY <2>1, <2>3, <2>5, <3>1, CallAfter
      <3> HIDE DEF c
      <3>3. Runs(c)
        BY <2>4, <3>2 DEF Runs
      <3>4. 1 \in 1 .. Len(c) - 1 /\ c[1] = Top(c)
        BY <2>3, <3>2
      <3>5. Repeats(c)
        BY <3>3, <3>4 DEF Repeats
      <3>6. QED
        BY <2>5, <3>2, <3>3, <3>5 DEF Clear
    <2>8. ASSUME NEW i \in 1 .. Len(p) - 1 PROVE p[i] # Top(p)
      <3>1. CASE i = 1
        BY <1>2, <2>7, <3>1
      <3>2. CASE i # 1
        <4>1. i - 1 \in 1 .. Len(q) - 1 /\ i - 1 \in 1 .. Len(q) /\ (i - 1) + 1 = i
          BY <1>2, <2>1, <2>3, <3>2
        <4>2. p[i] = q[i - 1] /\ q[i - 1] # Top(q)
          BY <2>1, <2>5, <2>6, <4>1 DEF Repeats
        <4>3. QED
          BY <2>1, <4>2
      <3>3. QED
        BY <3>1, <3>2
    <2>9. QED
      BY <2>6, <2>8 DEF Repeats
  <1>5. QED
    BY <1>2, <1>3, <1>4, OneOrMore

LEMMA OneIsChain ==
  ASSUME NEW f \in Defined
  PROVE  << f >> \in From(f)
  BY DEF From, IsChain

LEMMA DepthTyped ==
  ASSUME FrameTyped, NEW p \in Seq(Defined)
  PROVE  Depth(p) \in Nat
  <1>1. PICK d : Sums(d, p) /\ Depth(p) = d[Len(p)]
    BY DepthIs
  <1>2. Len(p) \in 0 .. Len(p)
    OBVIOUS
  <1>3. QED
    BY <1>1, <1>2 DEF Sums

(* The deepest chain of a function is its frame and the worst below. *)
LEMMA DeepestAbove ==
  ASSUME FrameTyped, NEW f \in Defined, NEW b \in Nat, Worst(MayCall(f), f, b)
  PROVE  Deepest(f, frame[f] + b)
  <1>1. frame[f] \in Nat /\ Depth(<< f >>) = frame[f] /\ << f >> \in From(f)
    BY DepthOne, OneIsChain
  <1>2. \A g \in MayCall(f) : g \in Defined /\ (Guarded(g, f) <=> g[2] \in guarded)
    BY GraphIs DEF Guarded
  <1>3. ASSUME NEW p \in From(f) PROVE Depth(p) <= frame[f] + b
    <2>1. IsChain(p) /\ p[1] = f /\ Len(p) \in Nat /\ Len(p) >= 1 /\ p \in Seq(Defined)
      BY DEF From, IsChain
    <2>2. CASE Len(p) = 1
      <3>1. p = << f >>
        BY <2>1, <2>2
      <3>2. QED
        BY <1>1, <3>1
    <2>3. CASE Len(p) > 1
      <3> DEFINE q == Tail(p)
                 g == p[2]
      <3>1. /\ g \in MayCall(f) /\ g \in Defined /\ q \in From(g)
            /\ Len(p) = Len(q) + 1
            /\ \A i \in 1 .. Len(q) : p[i + 1] = q[i]
            /\ Len(p) > 2 => g[2] \notin guarded
        BY <2>1, <2>3, RestIsChain
      <3> HIDE DEF q
      <3>2. q \in Seq(Defined) /\ q[1] = g
        BY <3>1 DEF From
      <3>3. Depth(p) = frame[f] + Depth(q) /\ Depth(q) \in Nat
        BY <2>1, <3>1, <3>2, DepthShift
      <3>4. PICK c \in Nat : Counts(g, f, c) /\ c <= b
        BY <3>1 DEF Worst
      <3>5. Depth(q) <= c
        <4>1. CASE g[2] \in guarded
          <5>1. Len(q) = 1
            <6>1. Len(p) = 2
              BY <2>1, <2>3, <3>1, <4>1, OneOrMore
            <6>2. Len(p) - 1 = 1
              BY <6>1
            <6>3. QED
              BY <3>1, <3>2, <6>1, <6>2
          <5>2. q = << g >>
            BY <3>2, <5>1
          <5>3. Depth(q) = frame[g] /\ c = frame[g]
            BY <1>2, <3>1, <3>4, <4>1, <5>2, DepthOne DEF Counts
          <5>4. QED
            BY <5>3, <3>4
        <4>2. CASE g[2] \notin guarded
          BY <1>2, <3>1, <3>4, <4>2 DEF Counts, Good, Deepest
        <4>3. QED
          BY <4>1, <4>2
      <3>6. QED
        BY <1>1, <3>3, <3>4, <3>5
    <2>4. QED
      BY <2>1, <2>2, <2>3, OneOrMore
  <1>4. \E p \in From(f) : Depth(p) = frame[f] + b
    <2>1. CASE b = 0
      BY <1>1, <2>1
    <2>2. CASE b # 0
      <3>1. PICK g \in MayCall(f) : Counts(g, f, b)
        BY <2>2 DEF Worst
      <3>2. \E q \in From(g) : Depth(q) = b /\ (Len(q) = 1 \/ g[2] \notin guarded)
        <4>1. CASE g[2] \in guarded
          <5>1. b = frame[g]
            BY <1>2, <3>1, <4>1 DEF Counts
          <5>2. << g >> \in From(g) /\ Depth(<< g >>) = b /\ Len(<< g >>) = 1
            BY <1>2, <5>1, DepthOne, OneIsChain
          <5>3. QED
            BY <5>2
        <4>2. CASE g[2] \notin guarded
          BY <1>2, <3>1, <4>2 DEF Counts, Good, Deepest
        <4>3. QED
          BY <4>1, <4>2
      <3>3. PICK q \in From(g) : Depth(q) = b /\ (Len(q) = 1 \/ g[2] \notin guarded)
        BY <3>2
      <3>4. PICK p \in From(f) : /\ Len(p) = Len(q) + 1 /\ p[1] = f
                                 /\ \A i \in 1 .. Len(q) : p[i + 1] = q[i]
        BY <3>3, CallBefore
      <3>5. p \in Seq(Defined) /\ q \in Seq(Defined)
        BY DEF From
      <3>6. Depth(p) = frame[f] + b
        BY <3>3, <3>4, <3>5, DepthShift
      <3>7. QED
        BY <3>6
    <2>3. QED
      BY <2>1, <2>2
  <1>5. QED
    BY <1>3, <1>4 DEF Deepest

LEMMA GoodAbove ==
  ASSUME FrameTyped, NEW f \in Defined, NEW b \in Nat, Worst(MayCall(f), f, b),
         f \notin dynamic, ~ Unresolved(f)
  PROVE  Good(f, frame[f] + b)
  <1>1. ASSUME NEW g \in MayCall(f), g[2] \notin guarded PROVE Clear(g)
    <2>1. PICK c \in Nat : Counts(g, f, c)
      BY DEF Worst
    <2>2. QED
      BY <1>1, <2>1 DEF Counts, Guarded, Good
  <1>2. Clear(f)
    BY <1>1, ClearAbove
  <1>3. Deepest(f, frame[f] + b)
    BY DeepestAbove
  <1>4. frame[f] + b \in Nat
    BY DEF FrameTyped
  <1>5. QED
    BY <1>2, <1>3, <1>4 DEF Good

-----------------------------------------------------------------------------
(* The walk. *)

(* What holds of a set as soon as it holds of it without any of its elements,
   holds of all finite sets. *)
LEMMA SubsetInduct ==
  ASSUME NEW S, IsFiniteSet(S), NEW K,
         \A T \in SUBSET S : (\A x \in T : T \ {x} \in K) => T \in K
  PROVE  SUBSET S \subseteq K
  <1> DEFINE B == { n \in Nat : \A T \in SUBSET S : Cardinality(T) <= n => T \in K }
  <1>1. ASSUME NEW T \in SUBSET S
        PROVE  /\ IsFiniteSet(T) /\ Cardinality(T) \in Nat
               /\ \A x \in T : T \ {x} \in SUBSET S /\ Cardinality(T \ {x}) = Cardinality(T) - 1
    <2>1. IsFiniteSet(T) /\ Cardinality(T) \in Nat
      BY FS_Subset, FS_CardinalityType
    <2>2. QED
      BY <2>1, FS_RemoveElement
  <1>2. 0 \in B
    <2>1. SUFFICES ASSUME NEW T \in SUBSET S, Cardinality(T) <= 0 PROVE T \in K
      OBVIOUS
    <2>2. Cardinality(T) = 0
      BY <1>1, <2>1
    <2>3. T = {}
      BY <1>1, <2>2, FS_EmptySet
    <2>4. QED
      BY <2>3
  <1>3. ASSUME NEW n \in Nat, n \in B PROVE n + 1 \in B
    <2>1. SUFFICES ASSUME NEW T \in SUBSET S, Cardinality(T) <= n + 1 PROVE T \in K
      OBVIOUS
    <2>2. ASSUME NEW x \in T PROVE T \ {x} \in K
      <3>1. T \ {x} \in SUBSET S /\ Cardinality(T \ {x}) <= n
        BY <1>1, <2>1
      <3>2. QED
        BY <1>3, <3>1
    <2>3. QED
      BY <2>2
  <1>4. Nat \subseteq B
    <2> HIDE DEF B
    <2>1. QED
      BY <1>2, <1>3, Induct
  <1>5. ASSUME NEW T \in SUBSET S PROVE T \in K
    <2>1. Cardinality(T) \in B /\ Cardinality(T) <= Cardinality(T)
      BY <1>1, <1>4
    <2>2. QED
      BY <2>1
  <1>6. QED
    BY <1>5

Walks == [Defined \X Callers \X States -> States]

Sound(s) ==
  /\ s \in States
  /\ ~ s.problem => \A g \in Defined : s.memo[g] # Unseen => Good(g, s.memo[g])
(* A problem stays; without one the bytes are the ones that count. *)
Gives(s, r) == Sound(r) /\ (~ r.problem => ~ s.problem)
RightWalk(w) ==
  \A f \in Defined, caller \in Callers, s \in States :
    Sound(s) => /\ Gives(s, w[f, caller, s])
                /\ ~ w[f, caller, s].problem => Counts(f, caller, w[f, caller, s].bytes)

(* One definition after another. *)
Lap(walk, caller, n, before) ==
  [walk[n, caller, before] EXCEPT !.bytes = Biggest({before.bytes, @})]
Laps(e, walk, nodes, caller, s) ==
  /\ e[{}] = [s EXCEPT !.bytes = 0]
  /\ \A seen \in SUBSET nodes : seen # {} =>
       \E n \in seen : e[seen] = Lap(walk, caller, n, e[seen \ {n}])

LEMMA LapTyped ==
  ASSUME NEW walk \in Walks, NEW caller \in Callers, NEW n \in Defined, NEW before \in States
  PROVE  /\ Lap(walk, caller, n, before) \in States /\ walk[n, caller, before] \in States
         /\ Lap(walk, caller, n, before).bytes
              \in {before.bytes, walk[n, caller, before].bytes}
         /\ before.bytes <= Lap(walk, caller, n, before).bytes
         /\ walk[n, caller, before].bytes <= Lap(walk, caller, n, before).bytes
         /\ Lap(walk, caller, n, before).problem = walk[n, caller, before].problem
         /\ Lap(walk, caller, n, before).memo = walk[n, caller, before].memo
  <1> DEFINE c == walk[n, caller, before]
             b == Biggest({before.bytes, c.bytes})
  <1>1. c \in States
    BY DEF Walks
  <1>2. c.bytes \in Nat /\ before.bytes \in Nat
    BY <1>1 DEF States
  <1>3. Lap(walk, caller, n, before) = [c EXCEPT !.bytes = b]
    BY DEF Lap
  <1> HIDE DEF c
  <1>4. b \in {before.bytes, c.bytes} /\ b \in Nat /\ before.bytes <= b /\ c.bytes <= b
    BY <1>2, BiggestOfTwo
  <1> HIDE DEF b
  <1>5. /\ [c EXCEPT !.bytes = b] \in States /\ [c EXCEPT !.bytes = b].bytes = b
        /\ [c EXCEPT !.bytes = b].problem = c.problem /\ [c EXCEPT !.bytes = b].memo = c.memo
    BY <1>1, <1>4 DEF States
  <1>6. QED
    BY <1>1, <1>3, <1>4, <1>5 DEF c

LEMMA BestIs ==
  ASSUME NEW walk \in Walks, NEW nodes \in SUBSET Defined, NEW caller \in Callers,
         NEW s \in States
  PROVE  \E e : Laps(e, walk, nodes, caller, s) /\ Best(walk, nodes, caller, s) = e[nodes]
  <1> DEFINE P == SUBSET nodes
             N == Cardinality(nodes)
             base == [s EXCEPT !.bytes = 0]
             first(seen) == CHOOSE f \in seen : TRUE
             next(seen, before) == Lap(walk, caller, first(seen), before)
             rank == [seen \in P |-> Cardinality(seen)]
             G == [g \in [P -> States] |-> [seen \in P |->
                     IF seen = {} THEN base ELSE next(seen, g[seen \ {first(seen)}])]]
             Is(f) == f = [seen \in P |->
                     IF seen = {} THEN base ELSE next(seen, f[seen \ {first(seen)}])]
  <1>1. /\ IsFiniteSet(nodes) /\ N \in Nat /\ base \in States
        /\ \A seen \in P : /\ IsFiniteSet(seen) /\ Cardinality(seen) \in 0 .. N
                            /\ \A x \in seen : Cardinality(seen \ {x}) = Cardinality(seen) - 1
    <2>1. IsFiniteSet(nodes) /\ N \in Nat
      BY GraphIs, FS_Subset, FS_CardinalityType
    <2>2. ASSUME NEW seen \in P
          PROVE  /\ IsFiniteSet(seen) /\ Cardinality(seen) \in 0 .. N
                 /\ \A x \in seen : Cardinality(seen \ {x}) = Cardinality(seen) - 1
      <3>1. IsFiniteSet(seen) /\ Cardinality(seen) <= N
        BY <2>1, FS_Subset
      <3>2. Cardinality(seen) \in Nat
        BY <3>1, FS_CardinalityType
      <3>3. QED
        BY <2>1, <3>1, <3>2, FS_RemoveElement
    <2>3. base \in States
      BY DEF States
    <2>4. QED
      BY <2>1, <2>2, <2>3
  <1>2. ASSUME NEW seen \in P, seen # {}
        PROVE  /\ first(seen) \in seen /\ first(seen) \in Defined
               /\ seen \ {first(seen)} \in P
               /\ rank[seen \ {first(seen)}] < rank[seen]
    <2>1. first(seen) \in seen /\ seen \ {first(seen)} \in P
      BY <1>2
    <2>2. /\ \A x \in seen : Cardinality(seen \ {x}) = Cardinality(seen) - 1
          /\ Cardinality(seen) \in Nat
      BY <1>1
    <2> HIDE DEF first
    <2>3. Cardinality(seen \ {first(seen)}) = Cardinality(seen) - 1
      BY <2>1, <2>2
    <2>4. QED
      BY <2>1, <2>2, <2>3
  <1>3. ASSUME NEW seen \in P, seen # {}, NEW before \in States PROVE next(seen, before) \in States
    BY <1>2, <1>3, LapTyped
  <1> HIDE DEF first, next, base
  <1>4. Ranked(P, States, rank, G)
    <2>1. G \in [[P -> States] -> [P -> States]]
      <3>1. ASSUME NEW g \in [P -> States], NEW seen \in P
            PROVE  (IF seen = {} THEN base ELSE next(seen, g[seen \ {first(seen)}])) \in States
        BY <1>1, <1>2, <1>3
      <3>2. QED
        BY <3>1
    <2>2. ASSUME NEW g \in [P -> States], NEW h \in [P -> States], NEW seen \in P,
                 Agree(P, rank, seen, g, h)
          PROVE  G[g][seen] = G[h][seen]
      <3>1. CASE seen = {}
        BY <3>1
      <3>2. CASE seen # {}
        <4>1. g[seen \ {first(seen)}] = h[seen \ {first(seen)}]
          BY <1>2, <2>2, <3>2 DEF Agree
        <4>2. QED
          BY <3>2, <4>1
      <3>3. QED
        BY <3>1, <3>2
    <2>3. QED
      BY <2>1, <2>2 DEF Ranked
  <1>5. rank \in [P -> 0 .. N]
    BY <1>1
  <1>6. PICK F \in [P -> States] : F = G[F]
    <2> HIDE DEF P, N, rank, G
    <2>1. QED
      BY <1>1, <1>4, <1>5, RankedRecursion
  <1>7. Is(F)
    BY <1>6
  <1> DEFINE e == CHOOSE f : Is(f)
  <1>8. Is(e)
    BY <1>7
  <1>9. Best(walk, nodes, caller, s) = e[nodes]
    BY DEF Best, next, first, base, Lap
  <1> HIDE DEF e
  <1>10. e[{}] = [s EXCEPT !.bytes = 0]
    <2>1. {} \in P
      OBVIOUS
    <2>2. QED
      BY <1>8, <2>1 DEF base
  <1>11. ASSUME NEW seen \in SUBSET nodes, seen # {}
         PROVE  \E n \in seen : e[seen] = Lap(walk, caller, n, e[seen \ {n}])
    <2>1. e[seen] = next(seen, e[seen \ {first(seen)}])
      BY <1>8, <1>11
    <2>2. QED
      BY <1>2, <1>11, <2>1 DEF next
  <1>12. QED
    BY <1>9, <1>10, <1>11 DEF Laps

(* Without a problem the worst of the definitions is found. *)
LEMMA BestGives ==
  ASSUME NEW walk \in Walks, NEW nodes \in SUBSET Defined, NEW caller \in Callers,
         NEW s \in States
  PROVE  LET r == Best(walk, nodes, caller, s)
         IN  /\ r \in States
             /\ RightWalk(walk) /\ Sound(s) =>
                  Gives(s, r) /\ (~ r.problem => Worst(nodes, caller, r.bytes))
  <1>1. PICK e : Laps(e, walk, nodes, caller, s) /\ Best(walk, nodes, caller, s) = e[nodes]
    BY BestIs
  <1> DEFINE Right(T) == RightWalk(walk) /\ Sound(s) =>
               Gives(s, e[T]) /\ (~ e[T].problem => Worst(T, caller, e[T].bytes))
             K == { T \in SUBSET nodes : e[T] \in States /\ Right(T) }
  <1>2. ASSUME NEW T \in SUBSET nodes, \A x \in T : T \ {x} \in K PROVE T \in K
    <2>1. CASE T = {}
      <3>1. e[T] = [s EXCEPT !.bytes = 0]
        BY <1>1, <2>1 DEF Laps
      <3>2. /\ e[T] \in States /\ e[T].bytes = 0
            /\ e[T].problem = s.problem /\ e[T].memo = s.memo
        BY <3>1 DEF States
      <3>3. Sound(s) => Gives(s, e[T])
        BY <3>2 DEF Sound, Gives
      <3>4. Worst(T, caller, e[T].bytes)
        BY <2>1, <3>2 DEF Worst
      <3>5. QED
        BY <3>2, <3>3, <3>4
    <2>2. CASE T # {}
      <3>1. PICK n \in T : e[T] = Lap(walk, caller, n, e[T \ {n}])
        BY <1>1, <2>2 DEF Laps
      <3> DEFINE before == e[T \ {n}]
                 c == walk[n, caller, before]
                 r == e[T]
      <3>2. T \ {n} \in K
        BY <1>2, <3>1
      <3>3. before \in States /\ Right(T \ {n}) /\ n \in Defined
        BY <3>2
      <3>4. /\ r \in States /\ c \in States /\ r.bytes \in {before.bytes, c.bytes}
            /\ before.bytes <= r.bytes /\ c.bytes <= r.bytes
            /\ r.problem = c.problem /\ r.memo = c.memo
        <4>1. r = Lap(walk, caller, n, before)
          BY <3>1
        <4> HIDE DEF before, r
        <4>2. QED
          BY <3>3, <4>1, LapTyped DEF c
      <3> HIDE DEF K
      <3>5. ASSUME RightWalk(walk), Sound(s)
            PROVE  Gives(s, r) /\ (~ r.problem => Worst(T, caller, r.bytes))
        <4>1. Gives(s, before) /\ (~ before.problem => Worst(T \ {n}, caller, before.bytes))
          BY <3>3, <3>5
        <4>2. Gives(before, c) /\ (~ c.problem => Counts(n, caller, c.bytes))
          BY <3>3, <3>5, <4>1 DEF RightWalk, Gives
        <4> HIDE DEF before, c, r
        <4>3. Gives(s, r)
          BY <3>4, <4>1, <4>2 DEF Gives, Sound
        <4>4. ASSUME ~ r.problem PROVE Worst(T, caller, r.bytes)
          <5>1. ~ c.problem /\ ~ before.problem
            BY <3>4, <4>2, <4>4 DEF Gives
          <5>2. Worst(T \ {n}, caller, before.bytes) /\ Counts(n, caller, c.bytes)
            BY <4>1, <4>2, <5>1
          <5>3. r.bytes \in Nat /\ c.bytes \in Nat /\ before.bytes \in Nat
            BY <3>3, <3>4 DEF States, before
          <5>4. ASSUME NEW m \in T
                PROVE  \E d \in Nat : Counts(m, caller, d) /\ d <= r.bytes
            <6>1. CASE m = n
              BY <3>4, <5>2, <5>3, <6>1
            <6>2. CASE m # n
              <7>1. PICK d \in Nat : Counts(m, caller, d) /\ d <= before.bytes
                BY <5>2, <6>2 DEF Worst
              <7>2. d <= r.bytes
                BY <3>4, <5>3, <7>1
              <7>3. QED
                BY <7>1, <7>2
            <6>3. QED
              BY <6>1, <6>2
          <5>5. r.bytes = 0 \/ \E m \in T : Counts(m, caller, r.bytes)
            <6>1. CASE r.bytes = c.bytes
              BY <5>2, <6>1
            <6>2. CASE r.bytes = before.bytes
              BY <5>2, <6>2 DEF Worst
            <6>3. QED
              BY <3>4, <6>1, <6>2
          <5>6. QED
            BY <5>3, <5>4, <5>5 DEF Worst
        <4>5. QED
          BY <4>3, <4>4
      <3>6. QED
        BY <3>4, <3>5 DEF K
    <2>3. QED
      BY <2>1, <2>2
  <1>3. nodes \in K
    <2>1. IsFiniteSet(nodes)
      BY GraphIs, FS_Subset
    <2> HIDE DEF K
    <2>2. SUBSET nodes \subseteq K
      BY <1>2, <2>1, SubsetInduct
    <2>3. QED
      BY <2>2
  <1>4. QED
    BY <1>1, <1>3

(* One function, when the walk of what it calls is right. *)
LEMMA WalkOneGives ==
  ASSUME FrameTyped, NEW onStack \in SUBSET Signatures, NEW f \in Defined,
         NEW caller \in Callers, NEW s \in States, NEW walk,
         f[2] \notin onStack => walk \in Walks
  PROVE  LET r == WalkOne(walk, onStack, f, caller, s)
         IN  /\ r \in States
             /\ (f[2] \notin onStack => RightWalk(walk)) /\ Sound(s) =>
                  Gives(s, r) /\ (~ r.problem => Counts(f, caller, r.bytes))
  <1> DEFINE r == WalkOne(walk, onStack, f, caller, s)
             Right == (f[2] \notin onStack => RightWalk(walk)) /\ Sound(s) =>
                        Gives(s, r) /\ (~ r.problem => Counts(f, caller, r.bytes))
  <1>1. frame[f] \in Nat /\ f[2] \in Signatures
    BY GraphIs DEF FrameTyped
  <1>2. CASE Guarded(f, caller)
    <2> DEFINE cuts == s.cuts \cup {<<f[2], caller[2]>>}
    <2>1. caller[2] \in Signatures
      BY <1>2, GraphIs DEF Guarded, Callers
    <2>2. cuts \in SUBSET (Signatures \X Signatures)
      BY <1>1, <2>1 DEF States
    <2>3. r = [s EXCEPT !.bytes = frame[f], !.cuts = cuts]
      BY <1>2 DEF WalkOne, Guarded
    <2> HIDE DEF r, cuts
    <2>4. r \in States /\ r.bytes = frame[f] /\ r.problem = s.problem /\ r.memo = s.memo
      BY <1>1, <2>2, <2>3 DEF States
    <2>5. Sound(s) => Gives(s, r)
      BY <2>4 DEF Sound, Gives
    <2>6. Counts(f, caller, r.bytes)
      BY <1>2, <2>4 DEF Counts
    <2>7. QED
      BY <2>4, <2>5, <2>6 DEF r
  <1>3. CASE ~ Guarded(f, caller) /\ f[2] \in onStack
    <2>1. r = [s EXCEPT !.bytes = 0, !.problem = TRUE]
      BY <1>3 DEF WalkOne, Guarded, Fail
    <2> HIDE DEF r
    <2>2. r \in States /\ r.problem
      BY <2>1 DEF States
    <2>3. Gives(s, r)
      BY <2>2 DEF Gives, Sound
    <2>4. QED
      BY <2>2, <2>3 DEF r
  <1>4. CASE ~ Guarded(f, caller) /\ f[2] \notin onStack /\ s.memo[f] # Unseen
    <2>1. r = [s EXCEPT !.bytes = s.memo[f]]
      BY <1>4 DEF WalkOne, Guarded
    <2>2. s.memo[f] \in Nat
      BY <1>4 DEF States
    <2> HIDE DEF r
    <2>3. r \in States /\ r.bytes = s.memo[f] /\ r.problem = s.problem /\ r.memo = s.memo
      BY <2>1, <2>2 DEF States
    <2>4. Sound(s) => Gives(s, r)
      BY <2>3 DEF Sound, Gives
    <2>5. Sound(s) /\ ~ r.problem => Counts(f, caller, r.bytes)
      BY <1>4, <2>3 DEF Sound, Counts
    <2>6. QED
      BY <2>3, <2>4, <2>5 DEF r
  <1>5. CASE ~ Guarded(f, caller) /\ f[2] \notin onStack /\ s.memo[f] = Unseen
    <2> DEFINE entered == [s EXCEPT !.problem = @ \/ f \in dynamic \/ Unresolved(f)]
               below == Best(walk, MayCall(f), f, entered)
               bytes == frame[f] + below.bytes
               memo == IF below.cuts # s.cuts THEN below.memo ELSE [below.memo EXCEPT ![f] = bytes]
    <2>1. r = [below EXCEPT !.bytes = bytes, !.memo = memo]
      BY <1>5 DEF WalkOne, Guarded, Finish
    <2>2. /\ entered \in States /\ entered.memo = s.memo
          /\ entered.problem = (s.problem \/ f \in dynamic \/ Unresolved(f))
      BY DEF States
    <2>3. f \in Callers /\ MayCall(f) \in SUBSET Defined /\ walk \in Walks
      BY <1>5, GraphIs DEF Callers
    <2> HIDE DEF entered, r
    <2>4. /\ below \in States
          /\ RightWalk(walk) /\ Sound(entered) =>
               /\ Gives(entered, below)
               /\ ~ below.problem => Worst(MayCall(f), f, below.bytes)
      BY <2>2, <2>3, BestGives
    <2> HIDE DEF below
    <2>5. bytes \in Nat /\ below.memo \in [Defined -> Nat \cup {Unseen}]
      BY <1>1, <2>4 DEF States
    <2>6. memo \in [Defined -> Nat \cup {Unseen}]
      BY <2>5
    <2>7. r \in States /\ r.bytes = bytes /\ r.memo = memo /\ r.problem = below.problem
      <3> HIDE DEF bytes, memo
      <3>1. QED
        BY <2>1, <2>4, <2>5, <2>6 DEF States
    <2>8. ASSUME RightWalk(walk), Sound(s)
          PROVE  Gives(s, r) /\ (~ r.problem => Counts(f, caller, r.bytes))
      <3>1. Sound(entered)
        BY <2>2, <2>8 DEF Sound
      <3>2. Gives(entered, below) /\ (~ below.problem => Worst(MayCall(f), f, below.bytes))
        BY <2>4, <2>8, <3>1
      <3>3. ASSUME ~ r.problem
            PROVE  ~ s.problem /\ f \notin dynamic /\ ~ Unresolved(f) /\ Good(f, bytes)
        <4>1. ~ below.problem /\ ~ entered.problem
          BY <2>7, <3>2, <3>3 DEF Gives
        <4>2. ~ s.problem /\ f \notin dynamic /\ ~ Unresolved(f)
          BY <2>2, <4>1
        <4>3. Worst(MayCall(f), f, below.bytes) /\ below.bytes \in Nat
          BY <2>4, <3>2, <4>1 DEF States
        <4>4. QED
          BY <4>2, <4>3, GoodAbove
      <3>4. ASSUME ~ r.problem, NEW g \in Defined, r.memo[g] # Unseen
            PROVE  Good(g, r.memo[g])
        <4>1. ~ below.problem /\ Sound(below)
          BY <2>7, <3>2, <3>4 DEF Gives
        <4>2. CASE r.memo[g] = below.memo[g]
          BY <3>4, <4>1, <4>2 DEF Sound
        <4>3. CASE g = f /\ r.memo[g] = bytes
          BY <3>3, <3>4, <4>3
        <4>4. r.memo[g] = below.memo[g] \/ (g = f /\ r.memo[g] = bytes)
          <5> HIDE DEF bytes
          <5>1. QED
            BY <2>5, <2>7
        <4>5. QED
          BY <4>2, <4>3, <4>4
      <3>5. Gives(s, r)
        BY <2>7, <3>3, <3>4 DEF Gives, Sound
      <3>6. QED
        BY <1>5, <2>7, <3>3, <3>5 DEF Counts
    <2>9. QED
      BY <1>5, <2>7, <2>8 DEF r
  <1>6. QED
    BY <1>2, <1>3, <1>4, <1>5

(* The walks with some signatures on the stack, by those with one more. *)
Level(onStack, g) ==
  [q \in Defined \X Callers \X States |->
     WalkOne(g[onStack \cup {q[1][2]}], onStack, q[1], q[2], q[3])]

LEMMA LevelIs ==
  ASSUME NEW onStack, NEW g, NEW f \in Defined, NEW caller \in Callers, NEW s \in States
  PROVE  Level(onStack, g)[f, caller, s] = WalkOne(g[onStack \cup {f[2]}], onStack, f, caller, s)
  BY DEF Level

LEMMA LevelTyped ==
  ASSUME FrameTyped, NEW onStack \in SUBSET Signatures, NEW g,
         \A x \in Signatures \ onStack : g[onStack \cup {x}] \in Walks
  PROVE  Level(onStack, g) \in Walks
  <1>1. ASSUME NEW f \in Defined, NEW caller \in Callers, NEW s \in States
        PROVE  WalkOne(g[onStack \cup {f[2]}], onStack, f, caller, s) \in States
    <2>1. f[2] \notin onStack => g[onStack \cup {f[2]}] \in Walks
      BY GraphIs
    <2>2. QED
      BY <2>1, WalkOneGives
  <1>2. ASSUME NEW q \in Defined \X Callers \X States
        PROVE  WalkOne(g[onStack \cup {q[1][2]}], onStack, q[1], q[2], q[3]) \in States
    <2>1. q[1] \in Defined /\ q[2] \in Callers /\ q[3] \in States
      OBVIOUS
    <2>2. QED
      BY <1>1, <2>1
  <1>3. QED
    BY <1>2 DEF Level, Walks

LEMMA WalksAre ==
  ASSUME FrameTyped
  PROVE  \A onStack \in SUBSET Signatures : WalkFrom[onStack] = Level(onStack, WalkFrom)
  <1> DEFINE P == SUBSET Signatures
             N == Cardinality(Signatures)
             rank == [onStack \in P |-> Cardinality(Signatures \ onStack)]
             G == [g \in [P -> Walks] |-> [onStack \in P |-> Level(onStack, g)]]
             Is(w) == w = [onStack \in P |-> Level(onStack, w)]
             v == [q \in Defined \X Callers \X States |-> q[3]]
  <1>1. N \in Nat /\ v \in Walks
    BY GraphIs, FS_CardinalityType DEF Walks
  <1>2. ASSUME NEW onStack \in P
        PROVE  /\ rank[onStack] \in 0 .. N
               /\ \A x \in Signatures \ onStack :
                    onStack \cup {x} \in P /\ rank[onStack \cup {x}] < rank[onStack]
    <2>1. /\ IsFiniteSet(Signatures \ onStack) /\ Cardinality(Signatures \ onStack) \in Nat
          /\ Cardinality(Signatures \ onStack) <= N
      <3>1. Signatures \ onStack \in SUBSET Signatures
        OBVIOUS
      <3>2. QED
        BY <3>1, GraphIs, FS_Subset, FS_CardinalityType
    <2>2. ASSUME NEW x \in Signatures \ onStack
          PROVE  onStack \cup {x} \in P /\ rank[onStack \cup {x}] < rank[onStack]
      <3>1. Signatures \ (onStack \cup {x}) = (Signatures \ onStack) \ {x}
        OBVIOUS
      <3>2. Cardinality((Signatures \ onStack) \ {x}) = Cardinality(Signatures \ onStack) - 1
        BY <2>1, FS_RemoveElement
      <3>3. QED
        BY <2>1, <3>1, <3>2
    <2>3. rank[onStack] = Cardinality(Signatures \ onStack)
      OBVIOUS
    <2>4. rank[onStack] \in 0 .. N
      BY <1>1, <2>1, <2>3
    <2>5. QED
      BY <2>2, <2>4
  <1>3. Ranked(P, Walks, rank, G)
    <2>1. G \in [[P -> Walks] -> [P -> Walks]]
      <3>1. ASSUME NEW g \in [P -> Walks], NEW onStack \in P PROVE Level(onStack, g) \in Walks
        BY <1>2, LevelTyped
      <3>2. QED
        BY <3>1
    <2>2. ASSUME NEW g \in [P -> Walks], NEW h \in [P -> Walks], NEW onStack \in P,
                 Agree(P, rank, onStack, g, h)
          PROVE  G[g][onStack] = G[h][onStack]
      <3>1. ASSUME NEW f \in Defined, NEW caller \in Callers, NEW s \in States
            PROVE  WalkOne(g[onStack \cup {f[2]}], onStack, f, caller, s)
                     = WalkOne(h[onStack \cup {f[2]}], onStack, f, caller, s)
        <4>1. CASE f[2] \in onStack
          BY <4>1 DEF WalkOne
        <4>2. CASE f[2] \notin onStack
          <5>1. f[2] \in Signatures \ onStack
            BY <4>2, GraphIs
          <5>2. g[onStack \cup {f[2]}] = h[onStack \cup {f[2]}]
            BY <1>2, <2>2, <5>1 DEF Agree
          <5>3. QED
            BY <5>2
        <4>3. QED
          BY <4>1, <4>2
      <3>2. Level(onStack, g) = Level(onStack, h)
        <4>1. ASSUME NEW q \in Defined \X Callers \X States
              PROVE  WalkOne(g[onStack \cup {q[1][2]}], onStack, q[1], q[2], q[3])
                       = WalkOne(h[onStack \cup {q[1][2]}], onStack, q[1], q[2], q[3])
          <5>1. q[1] \in Defined /\ q[2] \in Callers /\ q[3] \in States
            OBVIOUS
          <5>2. QED
            BY <3>1, <5>1
        <4>2. QED
          BY <4>1 DEF Level
      <3>3. QED
        BY <3>2
    <2>3. QED
      BY <2>1, <2>2 DEF Ranked
  <1>4. rank \in [P -> 0 .. N]
    BY <1>2
  <1>5. PICK F \in [P -> Walks] : F = G[F]
    <2> HIDE DEF P, N, rank, G, v
    <2>1. QED
      BY <1>1, <1>3, <1>4, RankedRecursion
  <1>6. Is(F)
    BY <1>5
  <1>7. Is(WalkFrom)
    BY <1>6 DEF WalkFrom, Level
  <1>8. QED
    BY <1>7

LEMMA WalkIsRight ==
  ASSUME FrameTyped
  PROVE  WalkFrom[{}] \in Walks /\ RightWalk(WalkFrom[{}])
  <1> DEFINE K == { free \in SUBSET Signatures :
                      /\ WalkFrom[Signatures \ free] \in Walks
                      /\ RightWalk(WalkFrom[Signatures \ free]) }
  <1>1. ASSUME NEW free \in SUBSET Signatures, \A x \in free : free \ {x} \in K
        PROVE  free \in K
    <2> DEFINE onStack == Signatures \ free
    <2>1. ASSUME NEW x \in Signatures \ onStack
          PROVE  /\ WalkFrom[onStack \cup {x}] \in Walks
                 /\ RightWalk(WalkFrom[onStack \cup {x}])
      <3>1. x \in free /\ Signatures \ (free \ {x}) = onStack \cup {x}
        OBVIOUS
      <3>2. free \ {x} \in K
        BY <1>1, <3>1
      <3>3. QED
        BY <3>1, <3>2
    <2>2. onStack \in SUBSET Signatures
      OBVIOUS
    <2>3. WalkFrom[onStack] = Level(onStack, WalkFrom)
      BY <2>2, WalksAre
    <2> HIDE DEF onStack, K
    <2>4. WalkFrom[onStack] \in Walks
      BY <2>1, <2>2, <2>3, LevelTyped
    <2>5. ASSUME NEW f \in Defined, NEW caller \in Callers, NEW s \in States, Sound(s)
          PROVE  /\ Gives(s, WalkFrom[onStack][f, caller, s])
                 /\ ~ WalkFrom[onStack][f, caller, s].problem
                       => Counts(f, caller, WalkFrom[onStack][f, caller, s].bytes)
      <3>1. f[2] \notin onStack => /\ WalkFrom[onStack \cup {f[2]}] \in Walks
                                  /\ RightWalk(WalkFrom[onStack \cup {f[2]}])
        BY <2>1, GraphIs
      <3>2. WalkFrom[onStack][f, caller, s]
              = WalkOne(WalkFrom[onStack \cup {f[2]}], onStack, f, caller, s)
        <4>1. WalkFrom[onStack][f, caller, s] = Level(onStack, WalkFrom)[f, caller, s]
          BY <2>3
        <4>2. Level(onStack, WalkFrom)[f, caller, s]
                = WalkOne(WalkFrom[onStack \cup {f[2]}], onStack, f, caller, s)
          BY DEF Level
        <4>3. QED
          BY <4>1, <4>2
      <3>3. QED
        BY <2>2, <2>5, <3>1, <3>2, WalkOneGives
    <2>6. RightWalk(WalkFrom[onStack])
      BY <2>5 DEF RightWalk
    <2>7. QED
      BY <2>4, <2>6 DEF onStack, K
  <1>2. Signatures \in K
    <2> HIDE DEF K
    <2>1. SUBSET Signatures \subseteq K
      BY <1>1, GraphIs, SubsetInduct
    <2>2. QED
      BY <2>1
  <1>3. Signatures \ Signatures = {}
    OBVIOUS
  <1>4. QED
    BY <1>2, <1>3

LEMMA MarginCounts ==
  ASSUME FrameTyped
  PROVE  ~ Margin.rejected => Worst(Roots, NoCaller, Margin.bytes)
  <1> DEFINE start == Found(0, [f \in Defined |-> Unseen], {}, FALSE)
             s == Best(WalkFrom[{}], Roots, NoCaller, start)
  <1>1. Sound(start) /\ start \in States
    BY DEF Sound, States, Found
  <1>2. Roots \in SUBSET Defined /\ NoCaller \in Callers
    BY DEF Roots, Callers
  <1> HIDE DEF start
  <1>3. ~ s.problem => Worst(Roots, NoCaller, s.bytes)
    BY <1>1, <1>2, WalkIsRight, BestGives
  <1>4. Margin = [rejected |-> s.problem, bytes |-> IF s.problem THEN 0 ELSE s.bytes]
    BY DEF Margin, start
  <1> HIDE DEF s
  <1>5. QED
    BY <1>3, <1>4

-----------------------------------------------------------------------------
(* The chains from the roots, by the number of calls. *)

(* What chains of some calls, and those of one more. *)
Single == { << f >> : f \in Roots }
Extended(C) ==
  UNION { { Append(c, g) : g \in MayCall(Top(c)) } : c \in { d \in C : Runs(d) /\ ~ Repeats(d) } }

LEMMA ChainsAre ==
  /\ ChainsOf[0] = Single
  /\ \A n \in 1 .. Cardinality(Defined) : ChainsOf[n] = Extended(ChainsOf[n - 1])
  <1> DEFINE N == Cardinality(Defined)
             V == SUBSET Seq(Defined)
             step == [n \in 1 .. N |-> [C \in V |-> Extended(C)]]
             Is(f) == f = [n \in 0 .. N |-> IF n = 0 THEN Single ELSE Extended(f[n - 1])]
  <1>1. N \in Nat
    BY GraphIs, FS_CardinalityType
  <1>2. Single \in V
    <2>1. ASSUME NEW f \in Roots PROVE << f >> \in Seq(Defined)
      <3>1. f \in Defined
        BY DEF Roots
      <3>2. QED
        BY <3>1
    <2>2. QED
      BY <2>1 DEF Single
  <1>3. ASSUME NEW C \in V PROVE Extended(C) \in V
    <2>1. ASSUME NEW c \in C, NEW g \in MayCall(Top(c)) PROVE Append(c, g) \in Seq(Defined)
      <3>1. c \in Seq(Defined) /\ g \in Defined
        BY DEF MayCall, Resolve
      <3>2. QED
        BY <3>1
    <2>2. QED
      BY <2>1 DEF Extended
  <1> HIDE DEF V, N
  <1>4. step \in Steps(V, N)
    BY <1>3 DEF Steps
  <1>5. PICK f : Goes(f, V, Single, N, step)
    <2> HIDE DEF step
    <2>1. QED
      BY <1>1, <1>2, <1>4, Recursion
  <1>6. Is(f)
    <2>1. ASSUME NEW n \in 0 .. N, n # 0 PROVE f[n] = Extended(f[n - 1])
      <3>1. n \in 1 .. N /\ n - 1 \in 0 .. N
        BY <1>1, <2>1
      <3>2. f[n - 1] \in V /\ f[n] = step[n][f[n - 1]]
        BY <1>5, <3>1 DEF Goes
      <3>3. QED
        BY <3>1, <3>2
    <2>2. f \in [0 .. N -> V] /\ f[0] = Single
      BY <1>5 DEF Goes
    <2>3. QED
      BY <1>1, <2>1, <2>2
  <1>7. Is(ChainsOf)
    <2>1. ChainsOf = CHOOSE g : Is(g)
      BY DEF ChainsOf, Single, Extended, N
    <2>2. QED
      BY <1>6, <2>1
  <1>8. 0 \in 0 .. N /\ \A n \in 1 .. N : n \in 0 .. N /\ n # 0
    BY <1>1
  <1>9. QED
    BY <1>7, <1>8 DEF N

(* They are chains of calls from a root, of that many calls. *)
LEMMA ChainsBegin ==
  ASSUME NEW n \in 0 .. Cardinality(Defined), NEW c \in ChainsOf[n]
  PROVE  IsChain(c) /\ c[1] \in Roots /\ Len(c) = n + 1
  <1> DEFINE N == Cardinality(Defined)
             S == { m \in Nat : m <= N => \A d \in ChainsOf[m] :
                       IsChain(d) /\ d[1] \in Roots /\ Len(d) = m + 1 }
  <1>1. N \in Nat
    BY GraphIs, FS_CardinalityType
  <1>2. 0 \in S
    <2>1. ASSUME NEW d \in ChainsOf[0] PROVE IsChain(d) /\ d[1] \in Roots /\ Len(d) = 0 + 1
      <3>1. PICK f \in Roots : d = << f >>
        BY <2>1, ChainsAre DEF Single
      <3>2. f \in Defined
        BY DEF Roots
      <3>3. QED
        BY <3>1, <3>2, OneIsChain DEF From
    <2>2. QED
      BY <2>1
  <1>3. ASSUME NEW m \in Nat, m \in S PROVE m + 1 \in S
    <2>1. SUFFICES ASSUME m + 1 <= N, NEW d \in ChainsOf[m + 1]
                   PROVE  IsChain(d) /\ d[1] \in Roots /\ Len(d) = (m + 1) + 1
      OBVIOUS
    <2>2. m + 1 \in 1 .. N /\ (m + 1) - 1 = m /\ m <= N
      BY <1>1, <2>1
    <2>3. PICK p \in ChainsOf[m] : Runs(p) /\ \E g \in MayCall(Top(p)) : d = Append(p, g)
      BY <2>1, <2>2, ChainsAre DEF Extended
    <2>4. IsChain(p) /\ p[1] \in Roots /\ Len(p) = m + 1
      BY <1>3, <2>2, <2>3
    <2>5. PICK g \in MayCall(Top(p)) : d = Append(p, g)
      BY <2>3
    <2>6. d \in From(p[1]) /\ Len(d) = Len(p) + 1
      BY <2>3, <2>4, <2>5, CallAfter
    <2>7. QED
      BY <2>4, <2>6 DEF From
  <1>4. Nat \subseteq S
    <2> HIDE DEF S
    <2>1. QED
      BY <1>2, <1>3, Induct
  <1>5. QED
    BY <1>1, <1>4

(* What a chain begins with is a chain, and calls what comes next. *)
LEMMA StartIsChain ==
  ASSUME NEW p, IsChain(p), NEW i \in 1 .. Len(p)
  PROVE  /\ SubSeq(p, 1, i) \in From(p[1]) /\ Len(SubSeq(p, 1, i)) = i
         /\ \A j \in 1 .. i : SubSeq(p, 1, i)[j] = p[j]
         /\ Top(SubSeq(p, 1, i)) = p[i]
  <1> DEFINE q == SubSeq(p, 1, i)
  <1>1. p \in Seq(Defined) /\ Len(p) \in Nat /\ i \in Int /\ i >= 1 /\ i <= Len(p)
    BY DEF IsChain
  <1>2. q \in Seq(Defined) /\ Len(q) = i /\ \A j \in 1 .. i : q[j] = p[j]
    <2>1. \A j \in 1 .. i : p[j] \in Defined
      BY <1>1
    <2>2. /\ q \in Seq(Defined) /\ Len(q) = IF 1 <= i THEN i - 1 + 1 ELSE 0
          /\ \A j \in 1 .. i - 1 + 1 : q[j] = p[1 + j - 1]
      BY <1>1, <2>1, SubSeqProperties
    <2>3. ASSUME NEW j \in 1 .. i PROVE q[j] = p[j]
      <3>1. j \in 1 .. i - 1 + 1 /\ 1 + j - 1 = j
        BY <1>1
      <3>2. QED
        BY <2>2, <3>1
    <2>4. QED
      BY <1>1, <2>2, <2>3
  <1> HIDE DEF q
  <1>3. ASSUME NEW j \in 1 .. Len(q) - 1
        PROVE  q[j + 1] \in MayCall(q[j]) /\ (j > 1 => q[j][2] \notin guarded)
    <2>1. j \in 1 .. i /\ j + 1 \in 1 .. i /\ j \in 1 .. Len(p) - 1
      BY <1>1, <1>2
    <2>2. q[j] = p[j] /\ q[j + 1] = p[j + 1]
      BY <1>2, <2>1
    <2>3. QED
      BY <2>1, <2>2 DEF IsChain
  <1>4. 1 \in 1 .. i /\ i \in 1 .. i
    BY <1>1
  <1>5. IsChain(q) /\ q[1] = p[1] /\ Top(q) = p[i]
    BY <1>1, <1>2, <1>3, <1>4 DEF IsChain, Top
  <1>6. QED
    BY <1>2, <1>5 DEF From, q

LEMMA StartRuns ==
  ASSUME NEW p, IsChain(p), NEW i \in 1 .. Len(p) - 1
  PROVE  /\ Runs(SubSeq(p, 1, i)) /\ p[i + 1] \in MayCall(p[i])
         /\ SubSeq(p, 1, i + 1) = Append(SubSeq(p, 1, i), p[i + 1])
  <1> DEFINE q == SubSeq(p, 1, i)
             r == SubSeq(p, 1, i + 1)
  <1>1. /\ p \in Seq(Defined) /\ Len(p) \in Nat /\ i \in Nat /\ i >= 1
        /\ i \in 1 .. Len(p) /\ i + 1 \in 1 .. Len(p)
    BY DEF IsChain
  <1>2. /\ q \in From(p[1]) /\ Len(q) = i /\ Top(q) = p[i]
        /\ \A j \in 1 .. i : q[j] = p[j]
    BY <1>1, StartIsChain
  <1>3. r \in From(p[1]) /\ Len(r) = i + 1 /\ \A j \in 1 .. i + 1 : r[j] = p[j]
    BY <1>1, StartIsChain
  <1> HIDE DEF q, r
  <1>4. p[i + 1] \in MayCall(p[i]) /\ (i > 1 => p[i][2] \notin guarded)
    BY DEF IsChain
  <1>5. Runs(q)
    <2>1. CASE i = 1
      BY <1>2, <2>1 DEF Runs
    <2>2. CASE i > 1
      BY <1>2, <1>4, <2>2 DEF Runs
    <2>3. QED
      BY <1>1, <2>1, <2>2
  <1>6. r = Append(q, p[i + 1])
    <2>1. q \in Seq(Defined) /\ r \in Seq(Defined) /\ p[i + 1] \in Defined
      BY <1>1, <1>2, <1>3 DEF From
    <2>2. /\ Append(q, p[i + 1]) \in Seq(Defined)
          /\ Len(Append(q, p[i + 1])) = i + 1
          /\ Append(q, p[i + 1])[i + 1] = p[i + 1]
          /\ \A j \in 1 .. i : Append(q, p[i + 1])[j] = q[j]
      BY <1>2, <2>1
    <2>3. ASSUME NEW j \in 1 .. i + 1 PROVE r[j] = Append(q, p[i + 1])[j]
      <3>1. CASE j = i + 1
        BY <1>3, <2>2, <3>1
      <3>2. CASE j # i + 1
        <4>1. j \in 1 .. i
          BY <1>1, <3>2
        <4>2. QED
          BY <1>2, <1>3, <2>2, <4>1
      <3>3. QED
        BY <3>1, <3>2
    <2>4. QED
      <3> DEFINE a == Append(q, p[i + 1])
      <3>1. /\ a \in Seq(Defined) /\ Len(r) = Len(a)
            /\ \A j \in 1 .. Len(r) : r[j] = a[j]
        BY <1>3, <2>2, <2>3
      <3> HIDE DEF a
      <3>2. r = a
        BY <2>1, <3>1, SeqEqual
      <3>3. QED
        BY <3>2 DEF a
  <1>7. QED
    BY <1>4, <1>5, <1>6 DEF q, r

(* A chain that nothing is wrong with is one of them: its functions are all
   different, the last apart, so that it has no more calls than there are
   functions. *)
LEMMA ChainsAreAll ==
  ASSUME NEW root \in Roots, Clear(root), NEW p \in From(root)
  PROVE  p \in AllChains
  <1> DEFINE N == Cardinality(Defined)
             L == Len(p)
  <1>1. /\ N \in Nat /\ IsFiniteSet(Defined)
        /\ IsChain(p) /\ p[1] = root /\ p \in Seq(Defined) /\ L \in Nat /\ L >= 1
    BY GraphIs, FS_CardinalityType DEF From, IsChain
  <1>2. ASSUME NEW i \in 1 .. L - 1
        PROVE  Runs(SubSeq(p, 1, i)) /\ ~ Repeats(SubSeq(p, 1, i)) /\ i \in 1 .. L
    <2>1. i \in 1 .. L
      BY <1>1
    <2>2. SubSeq(p, 1, i) \in From(root) /\ Runs(SubSeq(p, 1, i))
      BY <1>1, <2>1, StartIsChain, StartRuns
    <2>3. QED
      BY <2>1, <2>2 DEF Clear
  <1>3. ASSUME NEW i \in 1 .. L - 1, NEW j \in 1 .. L - 1, j < i PROVE p[j] # p[i]
    <2>1. i \in 1 .. L /\ j \in 1 .. i /\ j \in 1 .. i - 1
      BY <1>1, <1>3
    <2>2. /\ Len(SubSeq(p, 1, i)) = i /\ SubSeq(p, 1, i)[j] = p[j]
          /\ Top(SubSeq(p, 1, i)) = p[i]
      BY <1>1, <2>1, StartIsChain
    <2>3. QED
      BY <1>2, <2>1, <2>2 DEF Repeats
  <1>4. L - 1 <= N
    <2> DEFINE at == [i \in 1 .. L - 1 |-> p[i]]
    <2>1. \A i \in 1 .. L - 1 : p[i] \in Defined
      BY <1>1, <1>2
    <2>2. ASSUME NEW i \in 1 .. L - 1, NEW j \in 1 .. L - 1, i # j PROVE p[i] # p[j]
      <3>1. i < j \/ j < i
        BY <1>1, <2>2
      <3>2. QED
        BY <1>3, <3>1
    <2>3. at \in Injection(1 .. L - 1, Defined)
      BY <2>1, <2>2 DEF Injection, IsInjective
    <2> HIDE DEF at
    <2>4. Cardinality(1 .. L - 1) <= N
      BY <1>1, <2>3, FS_Injection
    <2>5. Cardinality(1 .. L - 1) = IF 1 > L - 1 THEN 0 ELSE (L - 1) - 1 + 1
      <3>1. 1 \in Int /\ L - 1 \in Int
        BY <1>1
      <3>2. QED
        BY <3>1, FS_Interval
    <2>6. QED
      BY <1>1, <2>4, <2>5
  <1> DEFINE S == { n \in Nat : n <= L - 1 => SubSeq(p, 1, n + 1) \in ChainsOf[n] }
  <1>5. 0 \in S
    <2>1. 1 \in 1 .. L
      BY <1>1
    <2>2. SubSeq(p, 1, 1) \in Seq(Defined) /\ Len(SubSeq(p, 1, 1)) = 1 /\ SubSeq(p, 1, 1)[1] = root
      BY <1>1, <2>1, StartIsChain DEF From
    <2>3. SubSeq(p, 1, 1) = << root >>
      <3> DEFINE q == SubSeq(p, 1, 1)
      <3> HIDE DEF q
      <3>1. q = << root >>
        <4>1. root \in Defined
          BY DEF Roots
        <4>2. << root >> \in Seq(Defined) /\ Len(<< root >>) = 1 /\ << root >>[1] = root
          BY <4>1
        <4>3. q \in Seq(Defined) /\ Len(q) = 1 /\ q[1] = root
          BY <2>2 DEF q
        <4>4. \A j \in 1 .. Len(q) : q[j] = << root >>[j]
          BY <4>2, <4>3
        <4>5. QED
          BY <4>2, <4>3, <4>4, SeqEqual
      <3>2. QED
        BY <3>1 DEF q
    <2>4. 0 + 1 = 1 /\ << root >> \in ChainsOf[0]
      BY ChainsAre DEF Single
    <2>5. QED
      BY <2>3, <2>4
  <1>6. ASSUME NEW n \in Nat, n \in S PROVE n + 1 \in S
    <2>1. SUFFICES ASSUME n + 1 <= L - 1 PROVE SubSeq(p, 1, (n + 1) + 1) \in ChainsOf[n + 1]
      OBVIOUS
    <2>2. /\ n + 1 \in 1 .. L - 1 /\ n + 1 \in 1 .. N /\ n + 1 \in 1 .. L
          /\ (n + 1) - 1 = n /\ n <= L - 1
      BY <1>1, <1>4, <2>1
    <2>3. SubSeq(p, 1, n + 1) \in ChainsOf[n]
      BY <1>6, <2>2
    <2>4. /\ Runs(SubSeq(p, 1, n + 1)) /\ ~ Repeats(SubSeq(p, 1, n + 1))
          /\ Top(SubSeq(p, 1, n + 1)) = p[n + 1]
      BY <1>1, <1>2, <2>2, StartIsChain
    <2>5. /\ p[(n + 1) + 1] \in MayCall(p[n + 1])
          /\ SubSeq(p, 1, (n + 1) + 1) = Append(SubSeq(p, 1, n + 1), p[(n + 1) + 1])
      BY <1>1, <2>2, StartRuns
    <2>6. SubSeq(p, 1, (n + 1) + 1) \in Extended(ChainsOf[n])
      <3> DEFINE d == SubSeq(p, 1, n + 1)
                 g == p[(n + 1) + 1]
      <3>1. d \in ChainsOf[n] /\ Runs(d) /\ ~ Repeats(d) /\ g \in MayCall(Top(d))
        BY <2>3, <2>4, <2>5
      <3>2. SubSeq(p, 1, (n + 1) + 1) = Append(d, g)
        BY <2>5
      <3> HIDE DEF d, g
      <3>3. Append(d, g) \in Extended(ChainsOf[n])
        BY <3>1 DEF Extended
      <3>4. QED
        BY <3>2, <3>3
    <2>7. QED
      BY <2>2, <2>6, ChainsAre
  <1>7. L - 1 \in S
    <2> HIDE DEF S
    <2>1. L - 1 \in Nat
      BY <1>1
    <2>2. QED
      BY <1>5, <1>6, <2>1, Induct
  <1>8. L - 1 \in 0 .. N /\ (L - 1) + 1 = L
    BY <1>1, <1>4
  <1>9. SubSeq(p, 1, L) = p
    BY <1>1, SubSeqFull
  <1>10. p \in ChainsOf[L - 1]
    <2>1. L - 1 <= L - 1
      BY <1>1
    <2>2. SubSeq(p, 1, (L - 1) + 1) \in ChainsOf[L - 1]
      BY <1>7, <2>1
    <2>3. SubSeq(p, 1, (L - 1) + 1) = SubSeq(p, 1, L)
      BY <1>8
    <2>4. QED
      BY <1>9, <2>2, <2>3
  <1>11. QED
    BY <1>8, <1>10 DEF AllChains

(* What the walk prints is right. *)
LEMMA MarginRight ==
  ASSUME FrameTyped, ~ Margin.rejected
  PROVE  ~ NoBound /\ Margin.bytes = Biggest({ Depth(c) : c \in AllChains })
  <1> DEFINE b == Margin.bytes
             Depths == { Depth(c) : c \in AllChains }
  <1>1. b \in Nat
    BY MarginCounts DEF Worst
  <1>2. ASSUME NEW root \in Roots
        PROVE  root \in Defined /\ \E c \in Nat : Good(root, c) /\ c <= b
    <2>1. PICK c \in Nat : Counts(root, NoCaller, c) /\ c <= b
      BY MarginCounts DEF Worst
    <2>2. Good(root, c)
      BY <2>1 DEF Counts, Guarded
    <2>3. QED
      BY <2>1, <2>2 DEF Roots
  <1>3. \E root \in Roots : Good(root, b)
    <2>1. CASE b = 0
      <3>1. PICK root \in Roots : TRUE
        BY StackMarginAssumption DEF Roots
      <3>2. PICK c \in Nat : Good(root, c) /\ c <= b
        BY <1>2
      <3>3. c = b
        BY <2>1, <3>2
      <3>4. QED
        BY <3>2, <3>3
    <2>2. CASE b # 0
      <3>1. PICK root \in Roots : Counts(root, NoCaller, b)
        BY <2>2, MarginCounts DEF Worst
      <3>2. QED
        BY <3>1 DEF Counts, Guarded
    <2>3. QED
      BY <2>1, <2>2
  <1> HIDE DEF b
  <1>4. ASSUME NEW c \in AllChains
        PROVE  c[1] \in Roots /\ c \in From(c[1]) /\ c \in Seq(Defined)
    <2>1. PICK n \in 0 .. Cardinality(Defined) : c \in ChainsOf[n]
      BY DEF AllChains
    <2>2. IsChain(c) /\ c[1] \in Roots
      BY <2>1, ChainsBegin
    <2>3. QED
      BY <2>2 DEF From, IsChain
  <1>5. ASSUME NEW c \in AllChains
        PROVE  /\ Runs(c) => Top(c) \notin dynamic /\ ~ Unresolved(Top(c))
               /\ ~ Repeats(c)
    <2>1. Clear(c[1]) /\ c \in From(c[1])
      BY <1>2, <1>4 DEF Good
    <2>2. Repeats(c) => Runs(c)
      BY DEF Repeats
    <2>3. QED
      BY <2>1, <2>2 DEF Clear
  <1>6. ~ NoBound
    BY <1>5 DEF NoBound, RunInFull
  <1>7. ASSUME NEW c \in AllChains PROVE Depth(c) \in Nat /\ Depth(c) <= b
    <2>1. PICK d \in Nat : Good(c[1], d) /\ d <= b
      BY <1>2, <1>4
    <2>2. Depth(c) <= d
      BY <1>4, <2>1 DEF Good, Deepest
    <2>3. Depth(c) \in Nat
      BY <1>4, DepthTyped
    <2>4. QED
      BY <1>1, <2>1, <2>2, <2>3
  <1>8. b \in Depths
    <2>1. PICK root \in Roots : Good(root, b)
      BY <1>3
    <2>2. PICK p \in From(root) : Depth(p) = b
      BY <2>1 DEF Good, Deepest
    <2>3. p \in AllChains
      BY <2>1, <2>2, ChainsAreAll DEF Good
    <2>4. QED
      BY <2>2, <2>3
  <1>9. Biggest(Depths) = b
    <2>1. Depths \subseteq Nat /\ \A x \in Depths : x <= b
      BY <1>7
    <2> HIDE DEF Depths
    <2>2. QED
      BY <1>8, <2>1, BiggestIs
  <1>10. QED
    BY <1>6, <1>9 DEF b

-----------------------------------------------------------------------------
(* The answer, once there is one, is what the walk prints for a graph that does
   not change. *)
Answered == margin # NotAsked => margin = Margin
MarginInvariant == frame \in Frames /\ Answered

(* The walk reads nothing but the graph. *)
LEMMA MarginStays ==
  ASSUME UNCHANGED <<calls, frame, guarded, dynamic>>
  PROVE  Margin' = Margin
  BY DEF Margin, WalkFrom, WalkOne, Finish, Best, MayCall, Callees, Unresolved

LEMMA MarginStep ==
  ASSUME MarginInvariant, [Measure]_marginVars
  PROVE  MarginInvariant'
  <1>1. CASE Measure
    <2>1. UNCHANGED <<calls, frame, guarded, dynamic>> /\ margin' = Margin
      BY <1>1 DEF Measure
    <2>2. Margin' = Margin
      BY <2>1, MarginStays
    <2>3. QED
      BY <2>1, <2>2 DEF MarginInvariant, Answered
  <1>2. CASE UNCHANGED marginVars
    <2>1. Margin' = Margin
      BY <1>2, MarginStays DEF marginVars
    <2>2. QED
      BY <1>2, <2>1 DEF MarginInvariant, Answered, marginVars
  <1>3. QED
    BY <1>1, <1>2

(* Whatever functions there are, of whatever frames, and whichever calls,
   guards and dynamic frames among them: a margin the tool prints is the
   deepest of all chains of calls, and it prints none where there is no bound. *)
THEOREM MarginIsAlwaysWorst == MarginSpec => []MarginIsWorst
  <1>1. MarginInit => MarginInvariant
    BY DEF MarginInit, MarginInvariant, Answered
  <1>2. MarginInvariant /\ [Measure]_marginVars => MarginInvariant'
    BY MarginStep
  <1>3. MarginInvariant => MarginIsWorst
    <2>1. SUFFICES ASSUME MarginInvariant, margin # NotAsked, ~ margin.rejected
                   PROVE  ~ NoBound /\ margin.bytes = Biggest({ Depth(c) : c \in AllChains })
      BY DEF MarginIsWorst
    <2>2. margin = Margin /\ FrameTyped
      BY <2>1, StackMarginAssumption DEF MarginInvariant, Answered, FrameTyped
    <2>3. QED
      BY <2>1, <2>2, MarginRight
  <1>4. QED
    BY <1>1, <1>2, <1>3, PTL DEF MarginSpec
=============================================================================
