---------------------------- MODULE Emitters_proofs ----------------------------
(***************************************************************************)
(* What the instructions and the sequences of the emit layer do, for every *)
(* size of the window and every depth of the operand stack: lemmas about   *)
(* the registers of the window, PUSH and POP, and the runs built of them;  *)
(* then what each operation of the window does to the operand stack:       *)
(* evicting, pushing, popping, restoring a depth, and the spill, the fill  *)
(* and the reload around a call.                                           *)
(***************************************************************************)
EXTENDS EntryArgs, FiniteSetTheorems, FunctionTheorems, SequenceTheorems, TLAPS

-----------------------------------------------------------------------------
(* The registers of the window: slots less than WindowSize apart never share
   one, and along a run that does not wrap they go down one by one. *)

LEMMA Remainder ==
  ASSUME NEW w \in Nat \ {0}, NEW k \in Nat
  PROVE  /\ (k % w) \in 0 .. w - 1 /\ k \div w \in Nat
         /\ k = w * (k \div w) + (k % w)
  OBVIOUS

LEMMA RemainderIsUnique ==
  ASSUME NEW w \in Nat \ {0}, NEW k \in Nat, NEW q \in Nat, NEW r \in 0 .. w - 1,
         k = w * q + r
  PROVE  (k % w) = r
  <1> DEFINE p == k \div w
             s == (k % w)
  <1>1. s \in 0 .. w - 1 /\ p \in Nat /\ w * p + s = w * q + r
    BY Remainder
  <1> HIDE DEF p, s
  <1>2. ~ p >= q + 1
    <2> SUFFICES ASSUME p >= q + 1 PROVE FALSE
      OBVIOUS
    <2>1. w * p >= w * (q + 1)
      BY <1>1
    <2>2. w * (q + 1) = w * q + w
      OBVIOUS
    <2> QED
      BY <1>1, <2>1, <2>2
  <1>3. ~ q >= p + 1
    <2> SUFFICES ASSUME q >= p + 1 PROVE FALSE
      OBVIOUS
    <2>1. w * q >= w * (p + 1)
      BY <1>1
    <2>2. w * (p + 1) = w * p + w
      BY <1>1
    <2> QED
      BY <1>1, <2>1, <2>2
  <1>4. p = q
    BY <1>1, <1>2, <1>3
  <1>5. s = r
    BY <1>1, <1>4
  <1> QED
    BY <1>5 DEF s

LEMMA RemainderNext ==
  ASSUME NEW w \in Nat \ {0}, NEW k \in Nat, NEW j \in Nat, (k % w) + j < w
  PROVE  (k + j) % w = (k % w) + j
  <1>1. (k % w) \in 0 .. w - 1 /\ k \div w \in Nat /\ k = w * (k \div w) + (k % w)
    BY Remainder
  <1>2. k + j = w * (k \div w) + ((k % w) + j)
    BY <1>1
  <1>3. (k % w) + j \in 0 .. w - 1
    BY <1>1
  <1> QED
    BY <1>1, <1>2, <1>3, RemainderIsUnique, k + j \in Nat

LEMMA RemainderAround ==
  ASSUME NEW w \in Nat \ {0}, NEW k \in Nat
  PROVE  /\ (k + w) % w = (k % w)
         /\ (k + (w - (k % w))) % w = 0
  <1>1. (k % w) \in 0 .. w - 1 /\ k \div w \in Nat /\ k = w * (k \div w) + (k % w)
    BY Remainder
  <1>2. k \div w + 1 \in Nat /\ w * (k \div w + 1) = w * (k \div w) + w
    BY <1>1
  <1>3. k + w = w * (k \div w + 1) + (k % w)
    BY <1>1, <1>2
  <1>4. k + (w - (k % w)) = w * (k \div w + 1) + 0
    BY <1>1, <1>2
  <1>5. (k + w) % w = (k % w)
    BY <1>1, <1>2, <1>3, RemainderIsUnique, k + w \in Nat
  <1>6. (k + (w - (k % w))) % w = 0
    BY <1>1, <1>2, <1>4, RemainderIsUnique, k + (w - (k % w)) \in Nat, 0 \in 0 .. w - 1
  <1> QED
    BY <1>5, <1>6

PhysRegs == WINDOW_BASE .. WINDOW_BASE + WindowSize - 1

(* The register of a slot, and of one so many slots on. *)
LEMMA PhysRegIs ==
  ASSUME WindowSize \in Nat \ {0}, NEW k \in Nat
  PROVE  /\ PhysReg(k) \in PhysRegs /\ PhysReg(k) \in Nat
         /\ PhysReg(k) \notin {ACC, SCRATCH, JUMP}
         /\ PhysReg(k) - WINDOW_BASE \in 0 .. WindowSize - 1
         /\ PhysReg(k + WindowSize) = PhysReg(k)
  <1>1. (k % WindowSize) \in 0 .. WindowSize - 1
    BY Remainder
  <1>2. (k + WindowSize) % WindowSize = (k % WindowSize)
    BY RemainderAround
  <1> QED
    BY <1>1, <1>2 DEF PhysReg, PhysRegs, WINDOW_BASE, ACC, SCRATCH, JUMP

(* Slots less than a window apart never share a register. *)
LEMMA PhysRegDistinct ==
  ASSUME WindowSize \in Nat \ {0}, NEW j \in Nat, NEW k \in Nat,
         j < k, k < j + WindowSize
  PROVE  PhysReg(j) # PhysReg(k)
  <1> DEFINE w == WindowSize
             a == j \div w
             b == k \div w
  <1>1. /\ (j % w) \in 0 .. w - 1 /\ a \in Nat /\ j = w * a + (j % w)
        /\ (k % w) \in 0 .. w - 1 /\ b \in Nat /\ k = w * b + (k % w)
    BY Remainder
  <1>2. SUFFICES ASSUME (j % w) = (k % w) PROVE FALSE
    BY <1>1 DEF PhysReg, WINDOW_BASE
  <1>3. w \in Nat \ {0} /\ k - j \in 1 .. w - 1
    OBVIOUS
  <1> HIDE DEF a, b, w
  <1>4. k - j = w * b - w * a /\ w * a \in Int /\ w * b \in Int
    BY <1>1, <1>2, <1>3
  <1>5. w * b - w * a = w * (b - a)
    BY <1>1, <1>3
  <1>6. CASE b - a <= 0
    <2>1. w * (b - a) <= 0
      BY <1>1, <1>3, <1>6
    <2> QED
      BY <1>3, <1>4, <1>5, <2>1
  <1>7. CASE b - a >= 1
    <2>1. w * (b - a) >= w
      BY <1>1, <1>3, <1>7
    <2> QED
      BY <1>3, <1>4, <1>5, <2>1
  <1> QED
    BY <1>1, <1>6, <1>7

LEMMA PhysRegsApart ==
  ASSUME WindowSize \in Nat \ {0}, NEW lo \in Nat,
         NEW j \in lo .. lo + WindowSize - 1, NEW k \in lo .. lo + WindowSize - 1,
         j # k
  PROVE  PhysReg(j) # PhysReg(k)
  <1>1. CASE j < k
    BY <1>1, PhysRegDistinct
  <1>2. CASE k < j
    BY <1>2, PhysRegDistinct
  <1> QED
    BY <1>1, <1>2

(* Along a run that does not wrap the registers go down one by one. *)
LEMMA PhysRegRun ==
  ASSUME WindowSize \in Nat \ {0}, NEW k \in Nat, NEW j \in Nat,
         (k % WindowSize) + j < WindowSize
  PROVE  PhysReg(k + j) = PhysReg(k) - j
  <1>1. (k % WindowSize) \in 0 .. WindowSize - 1
    BY Remainder
  <1>2. (k + j) % WindowSize = (k % WindowSize) + j
    BY RemainderNext
  <1> QED
    BY <1>1, <1>2 DEF PhysReg, WINDOW_BASE

-----------------------------------------------------------------------------
(* The order in which PUSH and POP name the registers of a set. *)

LEMMA PlaceIsInside ==
  ASSUME NEW R, IsFiniteSet(R), R \subseteq Int, NEW r \in R
  PROVE  Place(R, r) \in 1 .. Cardinality(R)
  <1> DEFINE above == { q \in R : q > r }
  <1>1. above \in SUBSET (R \ {r})
    OBVIOUS
  <1>2. IsFiniteSet(R \ {r}) /\ Cardinality(R \ {r}) = Cardinality(R) - 1
    BY FS_RemoveElement
  <1>3. IsFiniteSet(above) /\ Cardinality(above) <= Cardinality(R) - 1
    BY <1>1, <1>2, FS_Subset
  <1>4. Cardinality(above) \in Nat /\ Cardinality(R) \in Nat
    BY <1>3, FS_CardinalityType
  <1> QED
    BY <1>3, <1>4 DEF Place

LEMMA PlaceGrowsDown ==
  ASSUME NEW R, IsFiniteSet(R), R \subseteq Int, NEW r \in R, NEW q \in R, r < q
  PROVE  Place(R, q) < Place(R, r)
  <1> DEFINE High == { x \in R : x > q }
             Low  == { x \in R : x > r }
  <1>1. IsFiniteSet(High) /\ IsFiniteSet(Low)
    BY FS_Subset, High \in SUBSET R, Low \in SUBSET R
  <1>2. q \notin High
    OBVIOUS
  <1>3. High \cup {q} \in SUBSET Low
    <2>1. q \in Int /\ r \in Int /\ q > r
      OBVIOUS
    <2>2. ASSUME NEW x \in High PROVE x \in Low
      BY <2>1
    <2> QED
      BY <2>1, <2>2
  <1>4. Cardinality(High \cup {q}) = Cardinality(High) + 1
    BY <1>1, <1>2, FS_AddElement
  <1>5. Cardinality(High \cup {q}) <= Cardinality(Low)
    BY <1>1, <1>3, FS_Subset
  <1>6. Cardinality(High) \in Nat /\ Cardinality(Low) \in Nat
    BY <1>1, FS_CardinalityType
  <1>7. Cardinality(High) < Cardinality(Low)
    BY <1>4, <1>5, <1>6
  <1> QED
    BY <1>6, <1>7 DEF Place

LEMMA PlacesApart ==
  ASSUME NEW R, IsFiniteSet(R), R \subseteq Int, NEW r \in R, NEW q \in R,
         Place(R, r) = Place(R, q)
  PROVE  r = q
  <1>1. Place(R, r) \in 1 .. Cardinality(R) /\ Cardinality(R) \in Nat
    BY PlaceIsInside, FS_CardinalityType
  <1>2. ~ r < q
    <2> SUFFICES ASSUME r < q PROVE Place(R, q) < Place(R, r)
      BY <1>1
    <2> QED
      BY PlaceGrowsDown
  <1>3. ~ q < r
    <2> SUFFICES ASSUME q < r PROVE Place(R, r) < Place(R, q)
      BY <1>1
    <2> QED
      BY PlaceGrowsDown
  <1>4. r \in Int /\ q \in Int
    OBVIOUS
  <1> QED
    BY <1>2, <1>3, <1>4

(* Every place is some register's: Downwards lists the set. *)
LEMMA PlacesFill ==
  ASSUME NEW R, IsFiniteSet(R), R \subseteq Int, NEW i \in 1 .. Cardinality(R)
  PROVE  \E r \in R : Place(R, r) = i
  <1> DEFINE n == Cardinality(R)
             Others == (1 .. n) \ {i}
             f == [r \in R |-> Place(R, r)]
  <1>1. SUFFICES ASSUME \A r \in R : Place(R, r) # i PROVE FALSE
    OBVIOUS
  <1>2. n \in Nat
    BY FS_CardinalityType
  <1>3. IsFiniteSet(1 .. n) /\ Cardinality(1 .. n) = n
    BY <1>2, FS_Interval
  <1>4. IsFiniteSet(Others) /\ Cardinality(Others) = n - 1
    BY <1>3, FS_RemoveElement
  <1>5. \A r \in R : Place(R, r) \in Others
    BY <1>1, PlaceIsInside
  <1>6. f \in [R -> Others]
    BY <1>5
  <1>7. Cardinality(Others) < Cardinality(R)
    BY <1>2, <1>4
  <1> HIDE DEF Others, f
  <1>8. \E x, y \in R : x # y /\ f[x] = f[y]
    BY <1>4, <1>6, <1>7, FS_PigeonHole
  <1> QED
    BY <1>8, PlacesApart DEF f

LEMMA DownwardsLists ==
  ASSUME NEW R, IsFiniteSet(R), R \subseteq Int
  PROVE  /\ Downwards(R) \in [1 .. Cardinality(R) -> R]
         /\ \A r \in R : /\ Place(R, r) \in 1 .. Cardinality(R)
                         /\ Downwards(R)[Place(R, r)] = r
  <1>1. ASSUME NEW i \in 1 .. Cardinality(R)
        PROVE  (CHOOSE r \in R : Place(R, r) = i) \in R
    BY PlacesFill
  <1>2. Downwards(R) \in [1 .. Cardinality(R) -> R]
    BY <1>1 DEF Downwards
  <1>3. ASSUME NEW r \in R
        PROVE  /\ Place(R, r) \in 1 .. Cardinality(R)
               /\ Downwards(R)[Place(R, r)] = r
    <2>1. Place(R, r) \in 1 .. Cardinality(R)
      BY PlaceIsInside
    <2> DEFINE q == CHOOSE x \in R : Place(R, x) = Place(R, r)
    <2>2. q \in R /\ Place(R, q) = Place(R, r)
      OBVIOUS
    <2>3. Downwards(R)[Place(R, r)] = q
      BY <2>1 DEF Downwards
    <2> HIDE DEF q
    <2>4. q = r
      BY <2>2, PlacesApart
    <2> QED
      BY <2>1, <2>3, <2>4
  <1> QED
    BY <1>2, <1>3

-----------------------------------------------------------------------------
(* Runs of slots, and the places of their registers. *)

LEMMA RegsAreRegs ==
  ASSUME WindowSize \in Nat \ {0}, NEW b \in Nat, NEW c \in Nat
  PROVE  /\ RegsFor(b, c) \subseteq PhysRegs /\ RegsFor(b, c) \subseteq Int
         /\ \A j \in 0 .. c - 1 : PhysReg(b + j) \in RegsFor(b, c)
         /\ \A r \in RegsFor(b, c) : \E j \in 0 .. c - 1 : r = PhysReg(b + j)
  <1>1. ASSUME NEW r \in RegsFor(b, c)
        PROVE  /\ r \in PhysRegs /\ r \in Int
               /\ \E j \in 0 .. c - 1 : r = PhysReg(b + j)
    <2>1. PICK k \in b .. b + c - 1 : r = PhysReg(k)
      BY <1>1 DEF RegsFor
    <2>2. k \in Nat /\ k - b \in 0 .. c - 1 /\ k = b + (k - b)
      OBVIOUS
    <2>3. r = PhysReg(b + (k - b))
      BY <2>1, <2>2
    <2>4. r \in PhysRegs /\ r \in Nat
      BY <2>1, <2>2, PhysRegIs
    <2> QED
      BY <2>2, <2>3, <2>4
  <1>2. ASSUME NEW j \in 0 .. c - 1
        PROVE  PhysReg(b + j) \in RegsFor(b, c)
    <2>1. b + j \in b .. b + c - 1
      OBVIOUS
    <2> QED
      BY <2>1 DEF RegsFor
  <1> QED
    BY <1>1, <1>2

LEMMA RegsCount ==
  ASSUME WindowSize \in Nat \ {0}, NEW b \in Nat, NEW c \in 0 .. WindowSize
  PROVE  IsFiniteSet(RegsFor(b, c)) /\ Cardinality(RegsFor(b, c)) = c
  <1> DEFINE R == RegsFor(b, c)
             f == [i \in 1 .. c |-> PhysReg(b + (i - 1))]
  <1>1. f \in [1 .. c -> R]
    <2>1. ASSUME NEW i \in 1 .. c PROVE PhysReg(b + (i - 1)) \in R
      <3>1. i - 1 \in 0 .. c - 1 /\ c \in Nat
        OBVIOUS
      <3> QED
        BY <3>1, RegsAreRegs
    <2> QED
      BY <2>1
  <1>2. ASSUME NEW i \in 1 .. c, NEW j \in 1 .. c, f[i] = f[j]
        PROVE  i = j
    <2>1. /\ b + (i - 1) \in b .. b + WindowSize - 1
          /\ b + (j - 1) \in b .. b + WindowSize - 1
      OBVIOUS
    <2>2. PhysReg(b + (i - 1)) = PhysReg(b + (j - 1))
      BY <1>2
    <2>3. b + (i - 1) = b + (j - 1)
      BY <2>1, <2>2, PhysRegsApart
    <2> QED
      BY <2>3
  <1>3. ASSUME NEW r \in R PROVE \E i \in 1 .. c : f[i] = r
    <2>1. PICK j \in 0 .. c - 1 : r = PhysReg(b + j)
      BY RegsAreRegs, c \in Nat
    <2>2. j + 1 \in 1 .. c /\ j = (j + 1) - 1
      OBVIOUS
    <2>3. f[j + 1] = r
      BY <2>1, <2>2
    <2> QED
      BY <2>2, <2>3
  <1> HIDE DEF f, R
  <1>4. f \in Bijection(1 .. c, R)
    BY <1>1, <1>2, <1>3 DEF Bijection, Injection, Surjection, IsInjective
  <1>5. ExistsBijection(1 .. c, R) /\ c \in Nat
    BY <1>4 DEF ExistsBijection
  <1>6. IsFiniteSet(R)
    BY <1>5, FS_NatBijection
  <1>7. Cardinality(R) = c
    BY <1>5, FS_CountingElements
  <1> QED
    BY <1>6, <1>7 DEF R

(* Whether a run of slots can be named by one instruction in stack order. *)
Unbroken(b, c) == c = 0 \/ (b % WindowSize) + c <= WindowSize

LEMMA RunPlaces ==
  ASSUME WindowSize \in Nat \ {0}, NEW b \in Nat, NEW c \in Nat, Unbroken(b, c),
         NEW j \in 0 .. c - 1
  PROVE  Place(RegsFor(b, c), PhysReg(b + j)) = j + 1
  <1> DEFINE R == RegsFor(b, c)
             above == { q \in R : q > PhysReg(b + j) }
  <1>1. (b % WindowSize) \in 0 .. WindowSize - 1
    BY Remainder
  <1>2. (b % WindowSize) + c <= WindowSize
    BY DEF Unbroken
  <1>3. PhysReg(b) \in Nat
    BY PhysRegIs
  <1>4. ASSUME NEW i \in 0 .. c - 1
        PROVE  PhysReg(b + i) = PhysReg(b) - i
    <2>1. i \in Nat /\ (b % WindowSize) + i < WindowSize
      BY <1>1, <1>2
    <2> QED
      BY <2>1, PhysRegRun
  <1>5. ASSUME NEW q \in above PROVE q \in RegsFor(b, j)
    <2>1. PICK i \in 0 .. c - 1 : q = PhysReg(b + i)
      BY RegsAreRegs
    <2>2. PhysReg(b) - i > PhysReg(b) - j
      BY <1>4, <2>1
    <2>3. i \in 0 .. j - 1 /\ j \in Nat
      BY <1>3, <2>2
    <2> QED
      BY <2>1, <2>3, RegsAreRegs
  <1>6. ASSUME NEW q \in RegsFor(b, j) PROVE q \in above
    <2>1. PICK i \in 0 .. j - 1 : q = PhysReg(b + i)
      BY RegsAreRegs, j \in Nat
    <2>2. i \in 0 .. c - 1
      OBVIOUS
    <2>3. PhysReg(b) - i > PhysReg(b) - j
      BY <1>3
    <2>4. q > PhysReg(b + j)
      BY <1>4, <2>1, <2>2, <2>3
    <2> QED
      BY <2>1, <2>2, <2>4, RegsAreRegs
  <1>7. above = RegsFor(b, j)
    BY <1>5, <1>6
  <1>8. j \in 0 .. WindowSize
    BY <1>1, <1>2
  <1>9. Cardinality(above) = j
    BY <1>7, <1>8, RegsCount
  <1> QED
    BY <1>9 DEF Place

-----------------------------------------------------------------------------
(* What the translator tracks and what the machine holds, by type. *)

Words == Values \cup {Junk, Record}
Homes == {ACC} \cup PhysRegs
Shapes == { Imm(v) : v \in Values } \cup { Reg(r) : r \in Homes }
FlagStates == {Unknown} \cup { Into(r, TRUE) : r \in Registers }
                        \cup { Comparison(c) : c \in {"EQ", "GT", "LT"} }

IsState(s) ==
  /\ s = [tos |-> s.tos, proc |-> s.proc, kind |-> s.kind, value |-> s.value,
          flags |-> s.flags, reg |-> s.reg, lr |-> s.lr, nz |-> s.nz,
          mem |-> s.mem]
  /\ s.tos \in Nat /\ s.proc.args \in Nat /\ s.proc.savesLR \in BOOLEAN
  /\ s.kind \in {"Pending", "Boolean", "Dead"}
  /\ s.value \in Shapes /\ s.flags \in FlagStates
  /\ s.reg \in [Registers -> Words] /\ s.mem \in Seq(Words)

SameTracking(s, t) ==
  /\ t.tos = s.tos /\ t.proc = s.proc /\ t.kind = s.kind /\ t.value = s.value
  /\ t.flags = s.flags /\ t.lr = s.lr

(* What pushing and popping the registers of a set do. *)
Pushed(s, t, R) ==
  /\ IsState(t) /\ SameTracking(s, t) /\ t.nz = s.nz /\ t.reg = s.reg
  /\ Len(t.mem) = Len(s.mem) + Cardinality(R)
  /\ \A i \in 1 .. Len(s.mem) : t.mem[i] = s.mem[i]
  /\ \A r \in R : t.mem[Len(s.mem) + Place(R, r)] = s.reg[r]

Popped(s, t, R) ==
  /\ IsState(t) /\ SameTracking(s, t) /\ t.nz = s.nz
  /\ Len(t.mem) = Len(s.mem) - Cardinality(R)
  /\ \A i \in 1 .. Len(t.mem) : t.mem[i] = s.mem[i]
  /\ \A r \in R : t.reg[r] = s.mem[Len(t.mem) + Place(R, r)]
  /\ \A r \in Registers \ R : t.reg[r] = s.reg[r]

LEMMA RegsAreRegisters ==
  ASSUME WindowSize \in Nat \ {0}
  PROVE  /\ PhysRegs \subseteq Registers /\ PhysRegs \subseteq Homes
         /\ Homes \subseteq Registers /\ Registers \subseteq Int
         /\ {ACC, SCRATCH, JUMP} \subseteq Registers /\ ACC \in Homes
         /\ \A r \in PhysRegs : r \notin {ACC, SCRATCH, JUMP} /\ r > JUMP
         /\ SCRATCH \notin Homes /\ JUMP \notin Homes
  BY DEF PhysRegs, Homes, Registers, ACC, SCRATCH, JUMP, WINDOW_BASE

LEMMA PushDoes ==
  ASSUME WindowSize \in Nat \ {0}, NEW s, IsState(s),
         NEW R, IsFiniteSet(R), R \subseteq Registers
  PROVE  Pushed(s, Push(s, R), R)
  <1> DEFINE n == Cardinality(R)
             m == s.mem
             col == [i \in 1 .. n |-> s.reg[Downwards(R)[i]]]
             t == Push(s, R)
  <1>1. n \in Nat /\ R \subseteq Int
    BY FS_CardinalityType, RegsAreRegisters
  <1>2. /\ Downwards(R) \in [1 .. n -> R]
        /\ \A r \in R : Place(R, r) \in 1 .. n /\ Downwards(R)[Place(R, r)] = r
    BY <1>1, DownwardsLists
  <1>3. s.reg \in [Registers -> Words] /\ m \in Seq(Words)
    BY DEF IsState
  <1>4. \A i \in 1 .. n : s.reg[Downwards(R)[i]] \in Words
    BY <1>2, <1>3
  <1>5. col \in [1 .. n -> Words]
    BY <1>4
  <1>6. col \in Seq(Words) /\ Len(col) = n
    BY <1>1, <1>5, SeqDef
  <1>7. t = [s EXCEPT !.mem = m \o col]
    BY DEF Push
  <1> DEFINE mm == m \o col
  <1>8. /\ mm \in Seq(Words) /\ Len(mm) = Len(m) + n
        /\ \A i \in 1 .. Len(m) : mm[i] = m[i]
        /\ \A i \in 1 .. n : mm[Len(m) + i] = s.reg[Downwards(R)[i]]
    <2> HIDE DEF col
    <2>1. mm \in Seq(Words) /\ Len(mm) = Len(m) + n
      BY <1>3, <1>6
    <2>2. \A i \in 1 .. Len(m) : mm[i] = m[i]
      BY <1>3, <1>6
    <2>3. \A i \in 1 .. n : mm[Len(m) + i] = col[i]
      BY <1>3, <1>6, <1>1
    <2> QED
      BY <2>1, <2>2, <2>3 DEF col
  <1> HIDE DEF n, m, t
  <1>9. /\ t.mem = mm /\ SameTracking(s, t) /\ t.nz = s.nz /\ t.reg = s.reg
    <2> HIDE DEF mm
    <2> QED
      BY <1>7 DEF IsState, SameTracking, mm
  <1>10. IsState(t)
    <2> HIDE DEF mm
    <2>1. t = [s EXCEPT !.mem = mm] /\ mm \in Seq(Words)
      BY <1>7, <1>8 DEF mm
    <2> QED
      BY <2>1 DEF IsState
  <1>11. \A r \in R : mm[Len(m) + Place(R, r)] = s.reg[r]
    <2> HIDE DEF mm
    <2> QED
      BY <1>2, <1>8
  <1> HIDE DEF mm
  <1> QED
    BY <1>8, <1>9, <1>10, <1>11 DEF Pushed, n, m, t

LEMMA PopDoes ==
  ASSUME WindowSize \in Nat \ {0}, NEW s, IsState(s),
         NEW R, IsFiniteSet(R), R \subseteq Registers,
         Cardinality(R) <= Len(s.mem)
  PROVE  Popped(s, Pop(s, R), R)
  <1> DEFINE n == Cardinality(R)
             m == s.mem
             left == Len(m) - n
             regs == [r \in DOMAIN s.reg |->
                        IF r \in R THEN MemAt(s, left + Place(R, r)) ELSE s.reg[r]]
             mm == SubSeq(m, 1, left)
             t == Pop(s, R)
  <1>1. n \in Nat /\ R \subseteq Int
    BY FS_CardinalityType, RegsAreRegisters
  <1>2. \A r \in R : Place(R, r) \in 1 .. n
    BY <1>1, PlaceIsInside
  <1>3. s.reg \in [Registers -> Words] /\ m \in Seq(Words) /\ Len(m) \in Nat
    BY LenProperties DEF IsState
  <1>4. left \in 0 .. Len(m)
    BY <1>1, <1>3
  <1>5. ASSUME NEW r \in R
        PROVE  /\ MemAt(s, left + Place(R, r)) = m[left + Place(R, r)]
               /\ m[left + Place(R, r)] \in Words
    <2>1. Place(R, r) \in 1 .. n /\ n = Len(m) - left
      BY <1>1, <1>2, <1>3
    <2> HIDE DEF left, n, m
    <2>2. left + Place(R, r) \in 1 .. Len(m)
      BY <1>3, <1>4, <2>1
    <2> QED
      BY <1>3, <2>2, ElementOfSeq DEF MemAt, m
  <1>6. /\ regs \in [Registers -> Words]
        /\ \A r \in R : regs[r] = m[left + Place(R, r)]
        /\ \A r \in Registers \ R : regs[r] = s.reg[r]
    <2> HIDE DEF left, n, m
    <2> QED
      BY <1>3, <1>5
  <1>7. /\ mm \in Seq(Words) /\ Len(mm) = left
        /\ \A i \in 1 .. left : mm[i] = m[i]
    <2> HIDE DEF left
    <2> QED
      BY <1>3, <1>4, SubSeqProperties
  <1>8. t = [s EXCEPT !.reg = regs, !.mem = mm]
    BY DEF Pop
  <1> HIDE DEF regs, mm, t
  <1>9. /\ t.mem = mm /\ t.reg = regs /\ SameTracking(s, t) /\ t.nz = s.nz
    BY <1>8 DEF IsState, SameTracking
  <1>10. IsState(t)
    BY <1>6, <1>7, <1>8 DEF IsState
  <1> QED
    BY <1>6, <1>7, <1>9, <1>10 DEF Popped, t

(* Pushing and popping a run of slots, whether it wraps or not: the first slot
   at the lowest address. *)
RunPushed(s, t, b, c) ==
  /\ IsState(t) /\ SameTracking(s, t) /\ t.nz = s.nz /\ t.reg = s.reg
  /\ Len(t.mem) = Len(s.mem) + c
  /\ \A i \in 1 .. Len(s.mem) : t.mem[i] = s.mem[i]
  /\ \A j \in 0 .. c - 1 : t.mem[Len(s.mem) + (j + 1)] = s.reg[PhysReg(b + j)]

RunPopped(s, t, b, c) ==
  /\ IsState(t) /\ SameTracking(s, t) /\ t.nz = s.nz
  /\ Len(t.mem) = Len(s.mem) - c
  /\ \A i \in 1 .. Len(t.mem) : t.mem[i] = s.mem[i]
  /\ \A j \in 0 .. c - 1 : t.reg[PhysReg(b + j)] = s.mem[Len(t.mem) + (j + 1)]
  /\ \A r \in Registers \ RegsFor(b, c) : t.reg[r] = s.reg[r]

LEMMA PushRun ==
  ASSUME WindowSize \in Nat \ {0}, NEW s, IsState(s),
         NEW b \in Nat, NEW c \in 0 .. WindowSize, Unbroken(b, c)
  PROVE  RunPushed(s, Push(s, RegsFor(b, c)), b, c)
  <1> DEFINE R == RegsFor(b, c)
             t == Push(s, R)
  <1>1. IsFiniteSet(R) /\ Cardinality(R) = c
    BY RegsCount
  <1>2. R \subseteq Registers /\ c \in Nat
    BY RegsAreRegs, RegsAreRegisters
  <1>3. Pushed(s, t, R)
    BY <1>1, <1>2, PushDoes
  <1>4. ASSUME NEW j \in 0 .. c - 1
        PROVE  PhysReg(b + j) \in R /\ Place(R, PhysReg(b + j)) = j + 1
    BY <1>2, RegsAreRegs, RunPlaces
  <1> HIDE DEF R, t
  <1> QED
    BY <1>1, <1>3, <1>4 DEF Pushed, RunPushed, R, t

LEMMA PopRun ==
  ASSUME WindowSize \in Nat \ {0}, NEW s, IsState(s),
         NEW b \in Nat, NEW c \in 0 .. WindowSize, Unbroken(b, c), c <= Len(s.mem)
  PROVE  RunPopped(s, Pop(s, RegsFor(b, c)), b, c)
  <1> DEFINE R == RegsFor(b, c)
             t == Pop(s, R)
  <1>1. IsFiniteSet(R) /\ Cardinality(R) = c
    BY RegsCount
  <1>2. R \subseteq Registers /\ c \in Nat
    BY RegsAreRegs, RegsAreRegisters
  <1>3. Popped(s, t, R)
    BY <1>1, <1>2, PopDoes
  <1>4. ASSUME NEW j \in 0 .. c - 1
        PROVE  PhysReg(b + j) \in R /\ Place(R, PhysReg(b + j)) = j + 1
    BY <1>2, RegsAreRegs, RunPlaces
  <1> HIDE DEF R, t
  <1> QED
    BY <1>1, <1>3, <1>4 DEF Popped, RunPopped, R, t

LEMMA RunsSplit ==
  ASSUME WindowSize \in Nat \ {0}, NEW b \in Nat, NEW c \in 0 .. WindowSize
  PROVE  LET a == PreWrap(b, c)
         IN  /\ a \in 0 .. c /\ a \in 0 .. WindowSize
             /\ c - a \in 0 .. WindowSize /\ b + a \in Nat
             /\ Unbroken(b, a) /\ Unbroken(b + a, c - a)
  <1> DEFINE w == WindowSize
             a == PreWrap(b, c)
  <1>1. (b % w) \in 0 .. w - 1 /\ (b + (w - (b % w))) % w = 0
    BY Remainder, RemainderAround
  <1>2. CASE c <= w - (b % w)
    <2>1. a = c
      BY <1>1, <1>2 DEF PreWrap, Lower
    <2> QED
      BY <1>1, <1>2, <2>1 DEF Unbroken
  <1>3. CASE ~ c <= w - (b % w)
    <2>1. a = w - (b % w)
      BY <1>1, <1>3 DEF PreWrap, Lower
    <2>2. (b + a) % w = 0
      BY <1>1, <2>1
    <2> HIDE DEF a
    <2> QED
      BY <1>1, <1>3, <2>1, <2>2 DEF Unbroken, a
  <1> QED
    BY <1>2, <1>3

LEMMA PushRunsDoes ==
  ASSUME WindowSize \in Nat \ {0}, NEW s, IsState(s),
         NEW b \in Nat, NEW c \in 0 .. WindowSize
  PROVE  RunPushed(s, PushRuns(s, b, c), b, c)
  <1> DEFINE a == PreWrap(b, c)
             u == Push(s, RegsFor(b, a))
             t == Push(u, RegsFor(b + a, c - a))
  <1>1. /\ a \in 0 .. c /\ a \in 0 .. WindowSize
        /\ c - a \in 0 .. WindowSize /\ b + a \in Nat
        /\ Unbroken(b, a) /\ Unbroken(b + a, c - a)
    BY RunsSplit
  <1>2. t = PushRuns(s, b, c)
    BY DEF PushRuns, FirstRun, SecondRun
  <1> HIDE DEF a
  <1>3. RunPushed(s, u, b, a)
    BY <1>1, PushRun
  <1> HIDE DEF u
  <1>u. IsState(u)
    BY <1>3 DEF RunPushed
  <1> DEFINE lo == b + a
             rem == c - a
  <1>v. lo \in Nat /\ rem \in 0 .. WindowSize /\ Unbroken(lo, rem)
    BY <1>1
  <1>w. t = Push(u, RegsFor(lo, rem))
    OBVIOUS
  <1> HIDE DEF t, lo, rem
  <1>x. RunPushed(u, t, lo, rem)
    BY <1>u, <1>v, <1>w, PushRun
  <1>4. RunPushed(u, t, b + a, c - a)
    BY <1>x DEF lo, rem
  <1>5. Len(s.mem) \in Nat /\ Len(u.mem) \in Nat
    BY <1>3, LenProperties DEF IsState, RunPushed
  <1>6. Len(u.mem) = Len(s.mem) + a /\ Len(t.mem) = Len(s.mem) + c
    BY <1>1, <1>3, <1>4, <1>5 DEF RunPushed
  <1>7. \A i \in 1 .. Len(s.mem) : t.mem[i] = s.mem[i]
    BY <1>1, <1>3, <1>4, <1>5, <1>6 DEF RunPushed
  <1> DEFINE n == Len(s.mem)
             p == Len(u.mem)
  <1>n. n \in Nat /\ p = n + a
    BY <1>5, <1>6
  <1> HIDE DEF n, p
  <1>8. ASSUME NEW j \in 0 .. c - 1
        PROVE  t.mem[Len(s.mem) + (j + 1)] = s.reg[PhysReg(b + j)]
    <2>1. CASE j < a
      <3>1. a \in Nat /\ c \in Nat /\ j \in Nat
        BY <1>1
      <3>2. j \in 0 .. a - 1 /\ n + (j + 1) \in 1 .. p
        BY <1>n, <2>1, <3>1
      <3> QED
        BY <1>3, <1>4, <3>2 DEF RunPushed, n, p
    <2>2. CASE ~ j < a
      <3> DEFINE i == j - a
      <3>0. a \in Nat /\ c \in Nat /\ j \in Nat
        BY <1>1
      <3>1. i \in 0 .. (c - a) - 1 /\ b + j = (b + a) + i
        BY <2>2, <3>0
      <3>2. n + (j + 1) = p + (i + 1)
        BY <1>n, <3>0
      <3> HIDE DEF i
      <3>3. t.mem[Len(u.mem) + (i + 1)] = u.reg[PhysReg((b + a) + i)]
        BY <1>4, <3>1 DEF RunPushed
      <3> QED
        BY <1>3, <3>1, <3>2, <3>3 DEF RunPushed, n, p
    <2> QED
      BY <2>1, <2>2
  <1>9. IsState(t) /\ SameTracking(s, t) /\ t.nz = s.nz /\ t.reg = s.reg
    BY <1>3, <1>4 DEF RunPushed, SameTracking
  <1> QED
    BY <1>2, <1>6, <1>7, <1>8, <1>9 DEF RunPushed

LEMMA PopRunsDoes ==
  ASSUME WindowSize \in Nat \ {0}, NEW s, IsState(s),
         NEW b \in Nat, NEW c \in 0 .. WindowSize, c <= Len(s.mem)
  PROVE  RunPopped(s, PopRuns(s, b, c), b, c)
  <1> DEFINE a == PreWrap(b, c)
             u == Pop(s, RegsFor(b + a, c - a))
             t == Pop(u, RegsFor(b, a))
  <1>1. /\ a \in 0 .. c /\ a \in 0 .. WindowSize
        /\ c - a \in 0 .. WindowSize /\ b + a \in Nat
        /\ Unbroken(b, a) /\ Unbroken(b + a, c - a)
    BY RunsSplit
  <1>2. t = PopRuns(s, b, c)
    BY DEF PopRuns, FirstRun, SecondRun
  <1> HIDE DEF a
  <1>3. Len(s.mem) \in Nat /\ c \in Nat /\ a \in Nat
    BY <1>1, LenProperties DEF IsState
  <1>4. RunPopped(s, u, b + a, c - a)
    BY <1>1, <1>3, PopRun
  <1>5. Len(u.mem) = Len(s.mem) - (c - a)
    BY <1>4 DEF RunPopped
  <1>6. RunPopped(u, t, b, a)
    <2>1. IsState(u)
      BY <1>4 DEF RunPopped
    <2> HIDE DEF u
    <2>2. a <= Len(u.mem)
      BY <1>3, <1>5
    <2> QED
      BY <1>1, <2>1, <2>2, PopRun
  <1> HIDE DEF u, t
  <1> DEFINE n == Len(t.mem)
             p == Len(u.mem)
  <1>7. n \in Nat /\ p = n + a /\ n = Len(s.mem) - c /\ p = Len(s.mem) - (c - a)
    <2>1. n = p - a
      BY <1>6 DEF RunPopped
    <2> HIDE DEF p
    <2> QED
      BY <1>1, <1>3, <1>4, <1>5, <2>1 DEF p
  <1> HIDE DEF n, p
  <1>a. a \in Nat
    BY <1>3
  <1>n. n \in Nat /\ p = n + a
    BY <1>7
  <1>8. \A i \in 1 .. n : t.mem[i] = s.mem[i]
    BY <1>1, <1>3, <1>4, <1>6, <1>7 DEF RunPopped, n, p
  <1>9. ASSUME NEW j \in 0 .. c - 1
        PROVE  /\ t.reg[PhysReg(b + j)] = s.mem[n + (j + 1)]
               /\ PhysReg(b + j) \in RegsFor(b, c)
    <2>j. j \in Nat
      BY <1>3
    <2>0. PhysReg(b + j) \in RegsFor(b, c)
      BY <1>3, RegsAreRegs
    <2>1. CASE j < a
      <3>1. j \in 0 .. a - 1 /\ n + (j + 1) \in 1 .. p
        BY <1>a, <1>n, <2>1, <2>j
      <3>2. t.reg[PhysReg(b + j)] = u.mem[n + (j + 1)]
        BY <1>6, <3>1 DEF RunPopped, n
      <3> QED
        BY <1>4, <2>0, <3>1, <3>2 DEF RunPopped, p
    <2>2. CASE ~ j < a
      <3> DEFINE i == j - a
      <3>1. i \in 0 .. (c - a) - 1 /\ b + j = (b + a) + i
        BY <1>3, <2>2
      <3>2. n + (j + 1) = p + (i + 1)
        BY <1>a, <1>n, <2>j
      <3>3. u.reg[PhysReg((b + a) + i)] = s.mem[p + (i + 1)]
        BY <1>4, <3>1 DEF RunPopped, p
      <3>4. PhysReg(b + j) \notin RegsFor(b, a)
        <4> SUFFICES ASSUME PhysReg(b + j) \in RegsFor(b, a) PROVE FALSE
          OBVIOUS
        <4>1. PICK k \in 0 .. a - 1 : PhysReg(b + j) = PhysReg(b + k)
          BY <1>3, RegsAreRegs
        <4>2. /\ b + j \in b .. b + WindowSize - 1
              /\ b + k \in b .. b + WindowSize - 1 /\ b + j # b + k
          BY <1>1, <1>3, <2>2
        <4> QED
          BY <4>1, <4>2, PhysRegsApart
      <3>5. PhysReg(b + j) \in Registers
        BY <1>3, PhysRegIs, RegsAreRegisters
      <3> HIDE DEF i
      <3>6. t.reg[PhysReg(b + j)] = u.reg[PhysReg(b + j)]
        BY <1>6, <3>4, <3>5 DEF RunPopped
      <3> QED
        BY <2>0, <3>1, <3>2, <3>3, <3>6
    <2> QED
      BY <2>1, <2>2
  <1>10. ASSUME NEW r \in Registers \ RegsFor(b, c)
         PROVE  t.reg[r] = s.reg[r]
    <2>1. r \notin RegsFor(b, a)
      <3> SUFFICES ASSUME r \in RegsFor(b, a) PROVE FALSE
        OBVIOUS
      <3>1. PICK k \in 0 .. a - 1 : r = PhysReg(b + k)
        BY <1>3, RegsAreRegs
      <3>2. k \in 0 .. c - 1
        BY <1>1, <1>3
      <3> QED
        BY <1>3, <3>1, <3>2, RegsAreRegs
    <2>2. r \notin RegsFor(b + a, c - a)
      <3> SUFFICES ASSUME r \in RegsFor(b + a, c - a) PROVE FALSE
        OBVIOUS
      <3>1. PICK k \in 0 .. (c - a) - 1 : r = PhysReg((b + a) + k)
        BY <1>1, <1>3, RegsAreRegs, c - a \in Nat
      <3>2. a + k \in 0 .. c - 1 /\ (b + a) + k = b + (a + k)
        BY <1>1, <1>3
      <3>3. PhysReg(b + (a + k)) \in RegsFor(b, c)
        BY <1>3, <3>2, RegsAreRegs
      <3> QED
        BY <3>1, <3>2, <3>3
    <2> QED
      BY <1>4, <1>6, <2>1, <2>2 DEF RunPopped
  <1>11. IsState(t) /\ SameTracking(s, t) /\ t.nz = s.nz
    BY <1>4, <1>6 DEF RunPopped, SameTracking
  <1> QED
    BY <1>2, <1>7, <1>8, <1>9, <1>10, <1>11 DEF RunPopped, n

LEMMA OneReg ==
  ASSUME WindowSize \in Nat \ {0}, NEW k \in Nat
  PROVE  /\ RegsFor(k, 1) = {PhysReg(k)} /\ Unbroken(k, 1) /\ 1 \in 0 .. WindowSize
         /\ RegsFor(k, 0) = {}
  <1>1. (k % WindowSize) \in 0 .. WindowSize - 1
    BY Remainder
  <1>2. k .. k + 1 - 1 = {k} /\ k .. k + 0 - 1 = {}
    OBVIOUS
  <1> QED
    BY <1>1, <1>2 DEF RegsFor, Unbroken

-----------------------------------------------------------------------------
(* Where the operands are: the first n of the stack in memory, the word of
   lr between those that came as arguments and the others, and those from
   lo to hi in the registers of their slots. *)

Saved(s) == IF s.proc.savesLR THEN 1 ELSE 0
MemIndex(s, k) ==
  IF s.proc.savesLR /\ k >= InitialSpilled(s.proc) THEN k + 2 ELSE k + 1

InMem(s, stack, n) ==
  /\ n \in Nat /\ InitialSpilled(s.proc) <= n
  /\ Len(s.mem) = n + Saved(s)
  /\ \A k \in 0 .. n - 1 : s.mem[MemIndex(s, k)] = stack[k + 1]
  /\ s.proc.savesLR => s.mem[InitialSpilled(s.proc) + 1] = Record

InRegs(s, stack, lo, hi) == \A k \in lo .. hi - 1 : s.reg[PhysReg(k)] = stack[k + 1]

(* The layout between two instructions. *)
Layout(s, stack) ==
  /\ s.tos = Len(stack) /\ s.proc.args <= s.tos
  /\ InMem(s, stack, SpilledCount(s.tos))
  /\ InRegs(s, stack, SpilledCount(s.tos), s.tos)
  /\ ~ s.proc.savesLR => s.lr = Record

LEMMA SpilledCountIs ==
  ASSUME WindowSize \in Nat \ {0}, NEW m \in Nat, NEW n \in Nat, m <= n
  PROVE  /\ SpilledCount(n) \in Nat /\ SpilledCount(n) <= n
         /\ n <= SpilledCount(n) + WindowSize
         /\ SpilledCount(m) <= SpilledCount(n)
         /\ n >= WindowSize => n = SpilledCount(n) + WindowSize
         /\ n <= WindowSize => SpilledCount(n) = 0
  BY DEF SpilledCount

LEMMA InitialSpilledIs ==
  ASSUME WindowSize \in Nat \ {0}, NEW s, IsState(s)
  PROVE  InitialSpilled(s.proc) \in Nat
  BY SpilledCountIs DEF IsState, InitialSpilled

LEMMA MemIndexIs ==
  ASSUME WindowSize \in Nat \ {0}, NEW s, IsState(s), NEW stack, NEW n,
         InMem(s, stack, n), NEW k \in 0 .. n - 1
  PROVE  /\ MemIndex(s, k) \in 1 .. Len(s.mem)
         /\ s.mem[MemIndex(s, k)] = stack[k + 1]
         /\ s.proc.savesLR => MemIndex(s, k) # InitialSpilled(s.proc) + 1
         /\ \A j \in 0 .. n - 1 : j # k => MemIndex(s, j) # MemIndex(s, k)
         /\ s.proc.savesLR => InitialSpilled(s.proc) + 1 \in 1 .. Len(s.mem)
  <1> DEFINE i == InitialSpilled(s.proc)
  <1>1. i \in Nat
    BY InitialSpilledIs
  <1>2. /\ n \in Nat /\ i <= n
        /\ Len(s.mem) = n + (IF s.proc.savesLR THEN 1 ELSE 0)
        /\ s.mem[MemIndex(s, k)] = stack[k + 1]
    BY DEF InMem, Saved
  <1>3. \A j \in 0 .. n - 1 :
          MemIndex(s, j) = IF s.proc.savesLR /\ j >= i THEN j + 2 ELSE j + 1
    BY DEF MemIndex
  <1> HIDE DEF i
  <1>4. MemIndex(s, k) \in 1 .. Len(s.mem) /\ (s.proc.savesLR => MemIndex(s, k) # i + 1)
    BY <1>1, <1>2, <1>3
  <1>5. \A j \in 0 .. n - 1 : j # k => MemIndex(s, j) # MemIndex(s, k)
    BY <1>1, <1>2, <1>3
  <1> QED
    BY <1>1, <1>2, <1>4, <1>5 DEF i

LEMMA InMemLength ==
  ASSUME WindowSize \in Nat \ {0}, NEW s, IsState(s), NEW stack, NEW n,
         InMem(s, stack, n)
  PROVE  /\ Len(s.mem) = n + Saved(s) /\ Saved(s) \in {0, 1} /\ n \in Nat
         /\ Len(s.mem) \in Nat /\ InitialSpilled(s.proc) \in 0 .. n
  BY InitialSpilledIs DEF InMem, Saved

(* Only the first n of the stack matter, and what is tracked does not. *)
LEMMA InMemKept ==
  ASSUME NEW s, NEW t, NEW stack, NEW other, NEW n, InMem(s, stack, n),
         t.mem = s.mem, t.proc = s.proc,
         \A k \in 0 .. n - 1 : other[k + 1] = stack[k + 1]
  PROVE  InMem(t, other, n)
  BY DEF InMem, MemIndex, Saved

(* Spilling the next c operands, in their order. *)
LEMMA SpillMore ==
  ASSUME WindowSize \in Nat \ {0}, NEW s, IsState(s), NEW stack, NEW n,
         InMem(s, stack, n), NEW c \in Nat, NEW t, RunPushed(s, t, n, c),
         InRegs(s, stack, n, n + c)
  PROVE  InMem(t, stack, n + c)
  <1>1. /\ Len(s.mem) = n + Saved(s) /\ Saved(s) \in {0, 1} /\ n \in Nat
        /\ Len(s.mem) \in Nat /\ InitialSpilled(s.proc) \in 0 .. n
    BY InMemLength
  <1>2. t.proc = s.proc /\ Len(t.mem) = Len(s.mem) + c
    BY DEF RunPushed, SameTracking
  <1>3. Len(t.mem) = (n + c) + Saved(t)
    BY <1>1, <1>2 DEF Saved
  <1>4. ASSUME NEW k \in 0 .. (n + c) - 1
        PROVE  t.mem[MemIndex(t, k)] = stack[k + 1]
    <2>1. CASE k < n
      <3>1. k \in 0 .. n - 1
        BY <1>1, <2>1
      <3>2. MemIndex(s, k) \in 1 .. Len(s.mem) /\ s.mem[MemIndex(s, k)] = stack[k + 1]
        BY <3>1, MemIndexIs
      <3>3. MemIndex(t, k) = MemIndex(s, k)
        BY <1>2 DEF MemIndex
      <3> QED
        BY <3>2, <3>3 DEF RunPushed
    <2>2. CASE ~ k < n
      <3>1. PICK j \in 0 .. c - 1 : k = n + j
        <4>1. k - n \in 0 .. c - 1 /\ k = n + (k - n)
          BY <1>1, <2>2
        <4> QED
          BY <4>1
      <3>2. MemIndex(t, k) = Len(s.mem) + (j + 1)
        <4>1. k \in Nat /\ j \in Nat /\ k >= InitialSpilled(t.proc)
          BY <1>1, <1>2, <2>2
        <4>2. MemIndex(t, k) = k + (Saved(s) + 1)
          BY <1>2, <4>1 DEF MemIndex, Saved
        <4> QED
          BY <1>1, <3>1, <4>1, <4>2
      <3>3. t.mem[Len(s.mem) + (j + 1)] = s.reg[PhysReg(n + j)]
        BY <3>1 DEF RunPushed
      <3>4. k \in n .. (n + c) - 1
        BY <1>1, <2>2
      <3> QED
        BY <3>1, <3>2, <3>3, <3>4 DEF InRegs
    <2> QED
      BY <2>1, <2>2
  <1>5. ASSUME t.proc.savesLR
        PROVE  t.mem[InitialSpilled(t.proc) + 1] = Record
    <2>1. InitialSpilled(s.proc) + 1 \in 1 .. Len(s.mem)
      BY <1>1, <1>2, <1>5 DEF Saved
    <2> QED
      BY <1>2, <1>5, <2>1 DEF RunPushed, InMem
  <1> QED
    BY <1>1, <1>2, <1>3, <1>4, <1>5 DEF InMem

(* Dropping the last d of the operands in memory, whatever the code does with
   them, while the arguments that came there stay. *)
LEMMA MemShrinks ==
  ASSUME WindowSize \in Nat \ {0}, NEW s, IsState(s), NEW stack, NEW n,
         InMem(s, stack, n), NEW d \in Nat, d + InitialSpilled(s.proc) <= n,
         NEW t, t.proc = s.proc, Len(t.mem) = Len(s.mem) - d,
         \A i \in 1 .. Len(t.mem) : t.mem[i] = s.mem[i]
  PROVE  InMem(t, stack, n - d)
  <1>1. /\ Len(s.mem) = n + Saved(s) /\ Saved(s) \in {0, 1} /\ n \in Nat
        /\ Len(s.mem) \in Nat /\ InitialSpilled(s.proc) \in 0 .. n
    BY InMemLength
  <1>2. Len(t.mem) = (n - d) + Saved(t) /\ Saved(t) = Saved(s) /\ n - d \in Nat
    BY <1>1 DEF Saved
  <1>3. ASSUME NEW k \in 0 .. (n - d) - 1
        PROVE  t.mem[MemIndex(t, k)] = stack[k + 1]
    <2>1. k \in 0 .. n - 1
      BY <1>1
    <2>2. s.mem[MemIndex(s, k)] = stack[k + 1] /\ MemIndex(t, k) = MemIndex(s, k)
      BY <2>1, MemIndexIs DEF MemIndex
    <2>3. MemIndex(t, k) \in 1 .. Len(t.mem)
      BY <1>1, <1>2 DEF MemIndex, Saved
    <2> QED
      BY <2>2, <2>3
  <1>4. ASSUME t.proc.savesLR
        PROVE  t.mem[InitialSpilled(t.proc) + 1] = Record
    <2>1. InitialSpilled(s.proc) + 1 \in 1 .. Len(t.mem)
      BY <1>1, <1>2, <1>4 DEF Saved
    <2> QED
      BY <1>4, <2>1 DEF InMem
  <1> QED
    BY <1>1, <1>2, <1>3, <1>4 DEF InMem

(* Reloading the last c of the operands in memory into their registers, which
   disturbs no other slot of the same window. *)
LEMMA SpillLess ==
  ASSUME WindowSize \in Nat \ {0}, NEW s, IsState(s), NEW stack, NEW lo \in Nat,
         NEW c \in 0 .. WindowSize, InMem(s, stack, lo + c),
         InitialSpilled(s.proc) <= lo, NEW t, RunPopped(s, t, lo, c),
         NEW hi \in Nat, hi <= lo + WindowSize, InRegs(s, stack, lo + c, hi)
  PROVE  InMem(t, stack, lo) /\ InRegs(t, stack, lo, hi)
  <1> DEFINE n == lo + c
  <1>1. /\ Len(s.mem) = n + Saved(s) /\ Saved(s) \in {0, 1} /\ n \in Nat
        /\ Len(s.mem) \in Nat /\ InitialSpilled(s.proc) \in 0 .. n
    BY InMemLength
  <1>2. c \in Nat /\ t.proc = s.proc /\ Len(t.mem) = Len(s.mem) - c
    BY DEF RunPopped, SameTracking
  <1>3. InMem(t, stack, lo)
    <2>1. n - c = lo /\ c + InitialSpilled(s.proc) <= n
      BY <1>1, <1>2
    <2>2. \A i \in 1 .. Len(t.mem) : t.mem[i] = s.mem[i]
      BY DEF RunPopped
    <2>3. InMem(t, stack, n - c)
      BY <1>2, <2>1, <2>2, MemShrinks
    <2> QED
      BY <2>1, <2>3
  <1>4. ASSUME NEW k \in lo .. hi - 1
        PROVE  t.reg[PhysReg(k)] = stack[k + 1]
    <2>1. CASE k < lo + c
      <3>1. PICK j \in 0 .. c - 1 : k = lo + j
        <4>1. k - lo \in 0 .. c - 1 /\ k = lo + (k - lo)
          BY <1>2, <2>1
        <4> QED
          BY <4>1
      <3>2. t.reg[PhysReg(k)] = s.mem[Len(t.mem) + (j + 1)]
        BY <3>1 DEF RunPopped
      <3>3. k \in 0 .. n - 1
        BY <1>2, <2>1
      <3>4. s.mem[MemIndex(s, k)] = stack[k + 1]
        BY <3>3, MemIndexIs
      <3>5. MemIndex(s, k) = Len(t.mem) + (j + 1)
        <4>1. k \in Nat /\ j \in Nat /\ k >= InitialSpilled(s.proc)
          BY <1>1, <1>2
        <4>2. MemIndex(s, k) = k + (Saved(s) + 1)
          BY <4>1 DEF MemIndex, Saved
        <4>3. Len(t.mem) = lo + Saved(s) /\ Saved(s) \in Nat
          BY <1>1, <1>2
        <4>4. k + (Saved(s) + 1) = (lo + Saved(s)) + (j + 1)
          BY <3>1, <4>1, <4>3
        <4> QED
          BY <4>2, <4>3, <4>4
      <3> QED
        BY <3>2, <3>4, <3>5
    <2>2. CASE ~ k < lo + c
      <3>1. PhysReg(k) \notin RegsFor(lo, c)
        <4> SUFFICES ASSUME PhysReg(k) \in RegsFor(lo, c) PROVE FALSE
          OBVIOUS
        <4>1. PICK j \in 0 .. c - 1 : PhysReg(k) = PhysReg(lo + j)
          BY <1>2, RegsAreRegs
        <4>2. /\ k \in lo .. lo + WindowSize - 1 /\ lo + j \in lo .. lo + WindowSize - 1
              /\ k # lo + j
          BY <1>2, <2>2
        <4> QED
          BY <4>1, <4>2, PhysRegsApart
      <3>2. PhysReg(k) \in Registers
        BY PhysRegIs, RegsAreRegisters, k \in Nat
      <3>3. t.reg[PhysReg(k)] = s.reg[PhysReg(k)]
        BY <3>1, <3>2 DEF RunPopped
      <3>4. k \in lo + c .. hi - 1
        BY <1>2, <2>2
      <3> QED
        BY <3>3, <3>4 DEF InRegs
    <2> QED
      BY <2>1, <2>2
  <1> QED
    BY <1>3, <1>4 DEF InRegs

-----------------------------------------------------------------------------
(* Instructions, and what AccState makes of their effects.  FlagsOk is what
   the translator relies on when it leaves out a CMP with zero: the scratch
   registers never hold an accumulator, so nothing asks about their flags. *)

FlagsOk(s) ==
  s.flags.kind = "ZeroOf" /\ s.flags.of \in Homes => s.nz = Zero(s.reg[s.flags.of])

SameMachine(s, t) == t.reg = s.reg /\ t.nz = s.nz /\ t.lr = s.lr /\ t.mem = s.mem
SameFrame(s, t) == t.tos = s.tos /\ t.proc = s.proc /\ t.lr = s.lr /\ t.mem = s.mem
SameAcc(s, t) == t.kind = s.kind /\ t.value = s.value

(* A step that writes one register. *)
Wrote(s, t, r, v) ==
  /\ IsState(t) /\ SameFrame(s, t) /\ SameAcc(s, t)
  /\ t.reg[r] = v
  /\ \A q \in Registers : q # r => t.reg[q] = s.reg[q]

(* An instruction that writes one register, its effect not yet applied. *)
Raw(s, t, r, v) == Wrote(s, t, r, v) /\ t.flags = s.flags

LEMMA AluDoes ==
  ASSUME NEW s, IsState(s), NEW r \in Registers, NEW v \in Words
  PROVE  Raw(s, Alu(s, r, v), r, v) /\ Alu(s, r, v).nz = Zero(v)
  <1> DEFINE t == Alu(s, r, v)
             regs == [s.reg EXCEPT ![r] = v]
  <1>1. /\ regs \in [Registers -> Words] /\ regs[r] = v
        /\ \A q \in Registers : q # r => regs[q] = s.reg[q]
    BY DEF IsState
  <1>2. t = [s EXCEPT !.reg = regs, !.nz = Zero(v)]
    BY DEF Alu, IsState
  <1> HIDE DEF t, regs
  <1>3. /\ t.reg = regs /\ t.nz = Zero(v) /\ t.flags = s.flags
        /\ SameFrame(s, t) /\ SameAcc(s, t)
    BY <1>2 DEF IsState, SameFrame, SameAcc
  <1>4. IsState(t)
    BY <1>1, <1>2 DEF IsState
  <1> QED
    BY <1>1, <1>3, <1>4 DEF Raw, Wrote, t

LEMMA LoadDoes ==
  ASSUME NEW s, IsState(s), NEW r \in Registers, NEW v \in Words
  PROVE  Raw(s, LoadInto(s, r, v), r, v) /\ LoadInto(s, r, v).nz = s.nz
  <1> DEFINE t == LoadInto(s, r, v)
             regs == [s.reg EXCEPT ![r] = v]
  <1>1. /\ regs \in [Registers -> Words] /\ regs[r] = v
        /\ \A q \in Registers : q # r => regs[q] = s.reg[q]
    BY DEF IsState
  <1>2. t = [s EXCEPT !.reg = regs]
    BY DEF LoadInto, IsState
  <1> HIDE DEF t, regs
  <1>3. /\ t.reg = regs /\ t.nz = s.nz /\ t.flags = s.flags
        /\ SameFrame(s, t) /\ SameAcc(s, t)
    BY <1>2 DEF IsState, SameFrame, SameAcc
  <1>4. IsState(t)
    BY <1>1, <1>2 DEF IsState
  <1> QED
    BY <1>1, <1>3, <1>4 DEF Raw, Wrote, t

LEMMA MovDoes ==
  ASSUME NEW s, IsState(s), NEW r \in Registers, NEW q \in Registers
  PROVE  Raw(s, Mov(s, r, q), r, s.reg[q]) /\ Mov(s, r, q).nz = s.nz
  <1>1. s.reg[q] \in Words
    BY DEF IsState
  <1>2. Mov(s, r, q) = LoadInto(s, r, s.reg[q])
    BY DEF Mov, LoadInto
  <1> QED
    BY <1>1, <1>2, LoadDoes

LEMMA CmpDoes ==
  ASSUME NEW s, IsState(s), NEW z
  PROVE  LET t == [s EXCEPT !.nz = z]
         IN  /\ IsState(t) /\ SameFrame(s, t) /\ SameAcc(s, t)
             /\ t.reg = s.reg /\ t.flags = s.flags /\ t.nz = z
  BY DEF IsState, SameFrame, SameAcc

(* What an effect changes: what is known of the flags, and nothing else. *)
Marked(s, t) ==
  IsState(t) /\ t.tos = s.tos /\ t.proc = s.proc /\ SameAcc(s, t) /\ SameMachine(s, t)

LEMMA WritesDoes ==
  ASSUME NEW s, IsState(s), NEW R
  PROVE  LET t == Apply(s, Writes(R))
         IN  /\ Marked(s, t)
             /\ t.flags.kind = "ZeroOf" => t.flags = s.flags /\ t.flags.of \notin R
             /\ s.flags.kind # "ZeroOf" => t.flags = s.flags
  BY DEF IsState, Apply, Writes, Marked, SameAcc, SameMachine, FlagStates, Unknown

LEMMA ZeroOfDoes ==
  ASSUME NEW s, IsState(s), NEW r \in Registers
  PROVE  LET t == Apply(s, Into(r, TRUE))
         IN  Marked(s, t) /\ t.flags.kind = "ZeroOf" /\ t.flags.of = r
  BY DEF IsState, Apply, Into, Marked, SameAcc, SameMachine, FlagStates

LEMMA UnknownDoes ==
  ASSUME NEW s, IsState(s)
  PROVE  LET t == Apply(s, FlagsUnknown)
         IN  Marked(s, t) /\ FlagsOk(t)
  BY DEF IsState, Apply, FlagsUnknown, Unknown, Marked, SameAcc, SameMachine,
         FlagStates, FlagsOk

LEMMA ComparisonDoes ==
  ASSUME NEW s, IsState(s), NEW cond \in {"EQ", "GT", "LT"}
  PROVE  LET t == Apply(s, Comparison(cond))
         IN  /\ IsState(t) /\ t.tos = s.tos /\ t.proc = s.proc /\ SameMachine(s, t)
             /\ t.kind = "Boolean" /\ t.flags = Comparison(cond) /\ FlagsOk(t)
  BY DEF IsState, Apply, Comparison, SameMachine, FlagStates, FlagsOk

LEMMA PendingDoes ==
  ASSUME NEW s, IsState(s), NEW shape \in Shapes
  PROVE  LET t == Pending(s, shape)
         IN  /\ IsState(t) /\ t.tos = s.tos /\ t.proc = s.proc /\ SameMachine(s, t)
             /\ t.flags = s.flags /\ t.kind = "Pending" /\ t.value = shape
  <1> DEFINE t == Pending(s, shape)
  <1>1. t = [s EXCEPT !.kind = "Pending", !.value = shape]
    BY DEF Pending
  <1> HIDE DEF t
  <1>2. /\ t.tos = s.tos /\ t.proc = s.proc /\ SameMachine(s, t)
        /\ t.flags = s.flags /\ t.kind = "Pending" /\ t.value = shape
    BY <1>1 DEF SameMachine, IsState
  <1>3. IsState(t)
    BY <1>1 DEF IsState
  <1> QED
    BY <1>2, <1>3 DEF t

LEMMA PoisonDoes ==
  ASSUME NEW s, IsState(s)
  PROVE  LET t == Poison(s)
         IN  /\ IsState(t) /\ t.tos = s.tos /\ t.proc = s.proc /\ SameMachine(s, t)
             /\ t.flags = s.flags /\ t.kind = "Dead"
  BY DEF IsState, Poison, SameMachine

(* A step after which the flags say of no register what they should not: the
   one it wrote is zero or not as they say, or they speak of another. *)
Placed(s, t, r, v) == Wrote(s, t, r, v) /\ FlagsOk(t)

LEMMA ZeroPlaces ==
  ASSUME NEW s, IsState(s), NEW r \in Registers, s.nz = Zero(s.reg[r])
  PROVE  LET t == Apply(s, Into(r, TRUE)) IN Marked(s, t) /\ FlagsOk(t)
  <1> DEFINE t == Apply(s, Into(r, TRUE))
  <1>1. Marked(s, t) /\ t.flags.kind = "ZeroOf" /\ t.flags.of = r
    BY ZeroOfDoes
  <1> HIDE DEF t
  <1>2. FlagsOk(t)
    BY <1>1 DEF FlagsOk, Marked, SameMachine
  <1> QED
    BY <1>1, <1>2 DEF t

LEMMA WritesPlaces ==
  ASSUME WindowSize \in Nat \ {0}, NEW s, IsState(s), FlagsOk(s), NEW u, IsState(u),
         u.flags = s.flags, u.nz = s.nz, NEW R,
         \A q \in Registers \ R : u.reg[q] = s.reg[q]
  PROVE  LET t == Apply(u, Writes(R)) IN Marked(u, t) /\ FlagsOk(t)
  <1> DEFINE t == Apply(u, Writes(R))
  <1>1. /\ Marked(u, t)
        /\ t.flags.kind = "ZeroOf" => t.flags = u.flags /\ t.flags.of \notin R
    BY WritesDoes
  <1> HIDE DEF t
  <1>2. ASSUME t.flags.kind = "ZeroOf", t.flags.of \in Homes
        PROVE  t.nz = Zero(t.reg[t.flags.of])
    <2>1. t.flags = s.flags /\ t.flags.of \in Registers \ R
      BY <1>1, <1>2, RegsAreRegisters
    <2>2. s.nz = Zero(s.reg[t.flags.of])
      BY <1>2, <2>1 DEF FlagsOk
    <2> QED
      BY <1>1, <2>1, <2>2 DEF Marked, SameMachine
  <1> QED
    BY <1>1, <1>2 DEF FlagsOk, t

LEMMA MarkedWrote ==
  ASSUME NEW s, NEW u, NEW t, NEW r, NEW v, Wrote(s, u, r, v), Marked(u, t)
  PROVE  Wrote(s, t, r, v)
  BY DEF Wrote, Marked, SameFrame, SameAcc, SameMachine

LEMMA AluPlaces ==
  ASSUME NEW s, IsState(s), NEW r \in Registers, NEW v \in Words
  PROVE  Placed(s, Apply(Alu(s, r, v), Into(r, TRUE)), r, v)
  <1> DEFINE u == Alu(s, r, v)
  <1>1. Raw(s, u, r, v) /\ u.nz = Zero(v)
    BY AluDoes
  <1> HIDE DEF u
  <1>2. IsState(u) /\ u.nz = Zero(u.reg[r]) /\ Wrote(s, u, r, v)
    BY <1>1 DEF Raw, Wrote
  <1> QED
    BY <1>2, ZeroPlaces, MarkedWrote DEF Placed, u

LEMMA RawPlaces ==
  ASSUME WindowSize \in Nat \ {0}, NEW s, IsState(s), FlagsOk(s),
         NEW r \in Registers, NEW v, NEW u, Raw(s, u, r, v), u.nz = s.nz
  PROVE  Placed(s, Apply(u, Into(r, FALSE)), r, v)
  <1>1. /\ IsState(u) /\ u.flags = s.flags /\ Wrote(s, u, r, v)
        /\ \A q \in Registers \ {r} : u.reg[q] = s.reg[q]
    BY DEF Raw, Wrote
  <1> DEFINE t == Apply(u, Writes({r}))
  <1>2. Marked(u, t) /\ FlagsOk(t)
    BY <1>1, WritesPlaces
  <1>3. t = Apply(u, Into(r, FALSE))
    BY DEF Into
  <1> HIDE DEF t
  <1> QED
    BY <1>1, <1>2, <1>3, MarkedWrote DEF Placed

-----------------------------------------------------------------------------
(* The accumulator. *)

LEMMA ShapesAre ==
  ASSUME WindowSize \in Nat \ {0}, NEW shape \in Shapes
  PROVE  \/ shape.is = "imm" /\ shape.of \in Values /\ shape.of \in Words
            /\ shape = Imm(shape.of)
         \/ shape.is = "reg" /\ shape.of \in Homes /\ shape.of \in Registers
            /\ shape = Reg(shape.of)
  BY RegsAreRegisters DEF Shapes, Imm, Reg, Words

LEMMA ValueIsWord ==
  ASSUME WindowSize \in Nat \ {0}, NEW s, IsState(s), NEW shape \in Shapes
  PROVE  ValueOf(s, shape) \in Words
  BY ShapesAre DEF IsState, ValueOf

LEMMA MoveDoes ==
  ASSUME WindowSize \in Nat \ {0}, NEW s, IsState(s), NEW shape \in Shapes,
         NEW dst \in Registers
  PROVE  Raw(s, Move(s, shape, dst), dst, ValueOf(s, shape))
  <1>1. CASE shape.is = "imm"
    BY <1>1, ShapesAre, AluDoes DEF Move, ValueOf
  <1>2. CASE shape.is = "reg" /\ shape.of = dst
    BY <1>2 DEF Move, ValueOf, Raw, Wrote, SameFrame, SameAcc
  <1>3. CASE shape.is = "reg" /\ shape.of # dst
    BY <1>3, ShapesAre, MovDoes DEF Move, ValueOf
  <1> QED
    BY <1>1, <1>2, <1>3, ShapesAre

LEMMA MovePlaces ==
  ASSUME WindowSize \in Nat \ {0}, NEW s, IsState(s), FlagsOk(s),
         NEW shape \in Shapes, NEW dst \in Registers
  PROVE  Placed(s, Apply(Move(s, shape, dst), MoveEffect(shape, dst)), dst,
                ValueOf(s, shape))
  <1>1. CASE shape.is = "imm"
    <2>1. /\ Move(s, shape, dst) = Alu(s, dst, shape.of) /\ shape.of \in Words
          /\ MoveEffect(shape, dst) = Into(dst, TRUE) /\ ValueOf(s, shape) = shape.of
      BY <1>1, ShapesAre DEF Move, MoveEffect, ValueOf
    <2> QED
      BY <2>1, AluPlaces
  <1>2. CASE shape.is = "reg" /\ shape.of = dst
    <2>1. /\ Move(s, shape, dst) = s /\ MoveEffect(shape, dst) = Writes({})
          /\ ValueOf(s, shape) = s.reg[dst]
      BY <1>2 DEF Move, MoveEffect, ValueOf, NoEffect
    <2>2. Marked(s, Apply(s, Writes({}))) /\ FlagsOk(Apply(s, Writes({})))
      BY WritesPlaces
    <2>3. Wrote(s, s, dst, s.reg[dst])
      BY DEF Wrote, SameFrame, SameAcc
    <2> QED
      BY <2>1, <2>2, <2>3, MarkedWrote DEF Placed
  <1>3. CASE shape.is = "reg" /\ shape.of # dst
    <2>1. /\ Move(s, shape, dst) = Mov(s, dst, shape.of) /\ shape.of \in Registers
          /\ MoveEffect(shape, dst) = Into(dst, FALSE)
          /\ ValueOf(s, shape) = s.reg[shape.of]
      BY <1>3, ShapesAre DEF Move, MoveEffect, ValueOf
    <2>2. /\ Raw(s, Mov(s, dst, shape.of), dst, s.reg[shape.of])
          /\ Mov(s, dst, shape.of).nz = s.nz
      BY <2>1, MovDoes
    <2> QED
      BY <2>1, <2>2, RawPlaces
  <1> QED
    BY <1>1, <1>2, <1>3, ShapesAre

(* Where AccState says the accumulator is, if the program may read it. *)
AccOk(s, acc) ==
  acc \in Values => \/ s.kind = "Pending" /\ ValueOf(s, s.value) = acc
                    \/ s.kind = "Boolean" /\ Holds(s) = acc

(* An accumulator brought to a register. *)
Flushed(s, t, dst, acc) ==
  /\ IsState(t) /\ SameFrame(s, t) /\ FlagsOk(t)
  /\ t.kind = "Pending" /\ t.value = Reg(dst)
  /\ acc \in Values => t.reg[dst] = acc
  /\ \A q \in Registers : q # dst => t.reg[q] = s.reg[q]

LEMMA PendingPlaces ==
  ASSUME NEW s, NEW dst \in Homes, NEW v, NEW u, Placed(s, u, dst, v), NEW acc,
         acc \in Values => v = acc
  PROVE  Flushed(s, Pending(u, Reg(dst)), dst, acc)
  <1> DEFINE t == Pending(u, Reg(dst))
  <1>1. Reg(dst) \in Shapes
    BY DEF Shapes
  <1>2. IsState(u)
    BY DEF Placed, Wrote
  <1>3. /\ IsState(t) /\ t.tos = u.tos /\ t.proc = u.proc /\ SameMachine(u, t)
        /\ t.flags = u.flags /\ t.kind = "Pending" /\ t.value = Reg(dst)
    BY <1>1, <1>2, PendingDoes
  <1> HIDE DEF t
  <1>4. FlagsOk(t) /\ SameFrame(s, t)
    BY <1>3 DEF Placed, Wrote, FlagsOk, SameFrame, SameMachine
  <1> QED
    BY <1>3, <1>4 DEF Placed, Wrote, SameMachine, Flushed, t

LEMMA HoldsIsWord ==
  ASSUME NEW s
  PROVE  Holds(s) \in {0, 1, Junk} /\ Holds(s) \in Words
  BY EmittersConstants DEF Holds, Words

LEMMA FlushDoes ==
  ASSUME WindowSize \in Nat \ {0}, NEW s, IsState(s), FlagsOk(s),
         NEW acc, AccOk(s, acc), NEW dst \in Homes
  PROVE  Flushed(s, Flush(s, dst), dst, acc)
  <1>1. dst \in Registers /\ s.value \in Shapes
    BY RegsAreRegisters DEF IsState
  <1>2. CASE s.kind = "Boolean"
    <2> DEFINE u == Apply(Alu(s, dst, Holds(s)), Into(dst, TRUE))
    <2>1. Placed(s, u, dst, Holds(s))
      BY <1>1, HoldsIsWord, AluPlaces
    <2>2. Flush(s, dst) = Pending(u, Reg(dst))
      BY <1>2 DEF Flush
    <2>3. acc \in Values => Holds(s) = acc
      BY <1>2 DEF AccOk
    <2> HIDE DEF u
    <2> QED
      BY <2>1, <2>2, <2>3, PendingPlaces
  <1>3. CASE s.kind # "Boolean" /\ LivesIn(s, dst)
    <2>1. Flush(s, dst) = s /\ s.kind = "Pending" /\ s.value = Reg(dst)
      BY <1>3 DEF Flush, FlushPending, LivesIn
    <2>2. acc \in Values => s.reg[dst] = acc
      BY <2>1 DEF AccOk, ValueOf, Reg
    <2> QED
      BY <2>1, <2>2 DEF Flushed, SameFrame
  <1>4. CASE s.kind # "Boolean" /\ ~ LivesIn(s, dst)
    <2> DEFINE u == Apply(Move(s, s.value, dst), MoveEffect(s.value, dst))
    <2>1. Placed(s, u, dst, ValueOf(s, s.value))
      BY <1>1, MovePlaces
    <2>2. Flush(s, dst) = Pending(u, Reg(dst))
      BY <1>4 DEF Flush, FlushPending
    <2>3. acc \in Values => ValueOf(s, s.value) = acc
      BY <1>4 DEF AccOk
    <2> HIDE DEF u
    <2> QED
      BY <2>1, <2>2, <2>3, PendingPlaces
  <1> QED
    BY <1>2, <1>3, <1>4

(* What bringing the accumulator to r0, if it waits anywhere, leaves. *)
Settled(s, t, acc) ==
  /\ IsState(t) /\ SameFrame(s, t) /\ FlagsOk(t) /\ AccOk(t, acc)
  /\ \A q \in PhysRegs : t.reg[q] = s.reg[q]
  /\ t.kind = "Pending" => t.value = Reg(ACC)

LEMMA FlushLiveDoes ==
  ASSUME WindowSize \in Nat \ {0}, NEW s, IsState(s), FlagsOk(s),
         NEW acc, AccOk(s, acc)
  PROVE  /\ Settled(s, FlushLive(s, ACC), acc)
         /\ FlushLive(s, ACC).kind = s.kind
         /\ s.kind # "Pending" => FlushLive(s, ACC) = s
  <1>1. CASE s.kind = "Pending"
    <2> DEFINE t == FlushLive(s, ACC)
    <2>1. t = Flush(s, ACC)
      BY <1>1 DEF FlushLive, Flush
    <2>2. Flushed(s, t, ACC, acc)
      BY <2>1, FlushDoes, RegsAreRegisters
    <2> HIDE DEF t
    <2>3. AccOk(t, acc)
      BY <2>2 DEF Flushed, AccOk, ValueOf, Reg
    <2>4. \A q \in PhysRegs : t.reg[q] = s.reg[q]
      BY <2>2, RegsAreRegisters DEF Flushed
    <2> QED
      BY <1>1, <2>2, <2>3, <2>4 DEF Flushed, Settled, t
  <1>2. CASE s.kind # "Pending"
    BY <1>2 DEF FlushLive, Settled, SameFrame
  <1> QED
    BY <1>1, <1>2

(* The accumulator read where it is, or put in a scratch register. *)
LEMMA AccSourceDoes ==
  ASSUME WindowSize \in Nat \ {0}, NEW s, IsState(s), FlagsOk(s),
         NEW scratch \in Registers
  PROVE  LET t == AccSource(s, scratch)
             r == SourceReg(s.value, scratch)
         IN  /\ r \in Registers /\ IsState(t) /\ SameFrame(s, t) /\ SameAcc(s, t)
             /\ FlagsOk(t) /\ t.reg[r] = ValueOf(s, s.value)
             /\ \A q \in Registers : q # scratch => t.reg[q] = s.reg[q]
  <1>1. s.value \in Shapes
    BY DEF IsState
  <1>2. CASE s.value.is = "reg"
    BY <1>1, <1>2, ShapesAre DEF AccSource, SourceReg, ValueOf, SameFrame, SameAcc
  <1>3. CASE s.value.is # "reg"
    <2>1. Placed(s, AccSource(s, scratch), scratch, ValueOf(s, s.value))
      BY <1>1, <1>3, MovePlaces DEF AccSource
    <2>2. SourceReg(s.value, scratch) = scratch
      BY <1>3 DEF SourceReg
    <2> QED
      BY <2>1, <2>2 DEF Placed, Wrote
  <1> QED
    BY <1>2, <1>3

(* A branch on the accumulator tests what the program's does. *)
LEMMA TestDoes ==
  ASSUME WindowSize \in Nat \ {0}, NEW s, IsState(s), FlagsOk(s),
         NEW acc \in Values, AccOk(s, acc)
  PROVE  LET t == TestNonzero(s)
         IN  /\ Outcome(t) = IF acc = 0 THEN 0 ELSE 1
             /\ IsState(t) /\ SameFrame(s, t)
             /\ \A q \in PhysRegs : t.reg[q] = s.reg[q]
  <1>1. acc \in Nat /\ acc # Junk /\ Junk \notin Values /\ 0 \in Nat
    BY EmittersConstants
  <1>2. CASE s.kind = "Boolean"
    <2>1. TestNonzero(s) = s /\ Holds(s) = acc
      BY <1>2 DEF TestNonzero, AccOk
    <2>2. acc \in {0, 1}
      BY <1>1, <2>1, HoldsIsWord
    <2> QED
      BY <1>2, <2>1, <2>2 DEF Outcome, SameFrame
  <1> DEFINE known == /\ s.value.is = "reg" /\ s.flags.kind = "ZeroOf"
                      /\ s.flags.of = s.value.of
  <1>3. CASE s.kind # "Boolean" /\ known
    <2>1. TestNonzero(s) = s /\ s.value \in Shapes /\ ValueOf(s, s.value) = acc
      BY <1>3 DEF TestNonzero, AccOk, IsState
    <2>2. s.nz = Zero(acc)
      BY <1>3, <2>1, ShapesAre DEF FlagsOk, ValueOf
    <2> QED
      BY <1>1, <1>3, <2>1, <2>2 DEF Outcome, Zero, SameFrame
  <1>4. CASE s.kind # "Boolean" /\ ~ known
    <2> DEFINE r == SourceReg(s.value, SCRATCH)
               u == AccSource(s, SCRATCH)
               z == [u EXCEPT !.nz = Zero(u.reg[r])]
               t == Apply(z, Into(r, TRUE))
    <2>1. SCRATCH \in Registers /\ (\A q \in PhysRegs : q # SCRATCH /\ q \in Registers)
      BY RegsAreRegisters
    <2>2. /\ r \in Registers /\ IsState(u) /\ SameFrame(s, u) /\ SameAcc(s, u)
          /\ u.reg[r] = ValueOf(s, s.value)
          /\ \A q \in Registers : q # SCRATCH => u.reg[q] = s.reg[q]
      BY <2>1, AccSourceDoes
    <2>3. t = TestNonzero(s) /\ ValueOf(s, s.value) = acc
      BY <1>4 DEF TestNonzero, AccOk
    <2> HIDE DEF r, u
    <2>4. /\ IsState(z) /\ SameFrame(u, z) /\ SameAcc(u, z)
          /\ z.reg = u.reg /\ z.nz = Zero(u.reg[r])
      BY <2>2, CmpDoes
    <2> HIDE DEF z
    <2>5. Marked(z, t) /\ FlagsOk(t)
      BY <2>2, <2>4, ZeroPlaces
    <2> HIDE DEF t
    <2>6. t.kind = s.kind /\ t.nz = Zero(acc)
      BY <2>2, <2>3, <2>4, <2>5 DEF Marked, SameAcc, SameMachine
    <2>7. Outcome(t) = IF acc = 0 THEN 0 ELSE 1
      BY <1>1, <1>4, <2>6 DEF Outcome, Zero
    <2>8. SameFrame(s, t) /\ (\A q \in PhysRegs : t.reg[q] = s.reg[q]) /\ IsState(t)
      BY <2>1, <2>2, <2>4, <2>5 DEF Marked, SameFrame, SameMachine
    <2> QED
      BY <2>3, <2>7, <2>8
  <1> QED
    BY <1>2, <1>3, <1>4

-----------------------------------------------------------------------------
(* Arithmetic: whatever the operands' places, the operation is done on their
   values, no other window register is touched, and the flags are true. *)

Worked(s, t, dest, v) ==
  /\ IsState(t) /\ SameFrame(s, t) /\ SameAcc(s, t) /\ t.reg[dest] = v
  /\ \A q \in PhysRegs : q # dest => t.reg[q] = s.reg[q]

Computed(s, t, dest, v) == Worked(s, t, dest, v) /\ FlagsOk(t)

IsOperand(shape) ==
  \/ shape.is = "imm" /\ shape.of \in Values
  \/ shape.is = "reg" /\ shape.of \in PhysRegs \cup {SCRATCH}

LEMMA ComputeIs ==
  ASSUME NEW op \in BinaryOps, NEW x \in Values, NEW y \in Values
  PROVE  /\ Compute(op, x, y) = Arith(op, x, y) /\ Compute(op, x, y) \in Words
         /\ Arith(op, x, y) \in Values
         /\ op \in {"SUB", "RSUB"} => /\ Swapped(op) \in {"SUB", "RSUB"}
                                      /\ Arith(Swapped(op), y, x) = Arith(op, x, y)
         /\ op = "SUB" /\ y = 0 => Arith(op, x, y) = x
         /\ op = "XOR" => Arith(op, y, x) = Arith(op, x, y)
  BY Arithmetic DEF Compute, Words, Swapped, BinaryOps

LEMMA WorkedThenZero ==
  ASSUME NEW s, NEW dest \in Registers, NEW v, NEW u, Worked(s, u, dest, v),
         u.nz = Zero(v)
  PROVE  Computed(s, Apply(u, Into(dest, TRUE)), dest, v)
  <1> DEFINE t == Apply(u, Into(dest, TRUE))
  <1>1. IsState(u) /\ u.nz = Zero(u.reg[dest])
    BY DEF Worked
  <1>2. Marked(u, t) /\ FlagsOk(t)
    BY <1>1, ZeroPlaces
  <1> HIDE DEF t
  <1> QED
    BY <1>2 DEF Worked, Computed, Marked, SameFrame, SameAcc, SameMachine, t

(* The last instruction of an operation, after some that wrote only scratch
   registers. *)
LEMMA AluFinishes ==
  ASSUME WindowSize \in Nat \ {0}, NEW s, NEW u, IsState(u), SameFrame(s, u),
         SameAcc(s, u), NEW dest \in Registers, NEW v \in Words,
         \A q \in PhysRegs : q # dest => u.reg[q] = s.reg[q]
  PROVE  /\ Worked(s, Alu(u, dest, v), dest, v)
         /\ Alu(u, dest, v).nz = Zero(v)
  <1> DEFINE t == Alu(u, dest, v)
  <1>1. Raw(u, t, dest, v) /\ t.nz = Zero(v)
    BY AluDoes
  <1>2. PhysRegs \subseteq Registers
    BY RegsAreRegisters
  <1> HIDE DEF t
  <1> QED
    BY <1>1, <1>2 DEF Raw, Wrote, Worked, SameFrame, SameAcc, t

LEMMA SubDoes ==
  ASSUME WindowSize \in Nat \ {0}, NEW s, IsState(s), FlagsOk(s),
         NEW op \in {"SUB", "RSUB"}, NEW dest \in Registers,
         NEW n \in Registers, s.reg[n] \in Values, NEW k \in Values,
         NEW wide \in BOOLEAN
  PROVE  Computed(s, Apply(SubWithImm(s, op, dest, n, k, wide),
                           SubEffect(op, dest, n, k, wide)),
                  dest, Arith(op, s.reg[n], k))
  <1> DEFINE x == s.reg[n]
             v == Arith(op, x, k)
  <1>1. op \in BinaryOps /\ x \in Values
    BY DEF BinaryOps
  <1>2. Compute(op, x, k) = v /\ v \in Words /\ (op = "SUB" /\ k = 0 => v = x)
    BY <1>1, ComputeIs
  <1> HIDE DEF v
  <1>3. CASE op # "RSUB" /\ ~ wide /\ k = 0 /\ dest = n
    <2>1. /\ SubWithImm(s, op, dest, n, k, wide) = s
          /\ SubEffect(op, dest, n, k, wide) = Writes({})
      BY <1>3 DEF SubWithImm, SubEffect, NoEffect
    <2>2. Marked(s, Apply(s, Writes({}))) /\ FlagsOk(Apply(s, Writes({})))
      BY WritesPlaces
    <2>3. s.reg[dest] = v
      BY <1>2, <1>3
    <2> QED
      BY <2>1, <2>2, <2>3
      DEF Computed, Worked, Marked, SameFrame, SameMachine, SameAcc, v
  <1>4. CASE op # "RSUB" /\ ~ wide /\ ~ (k = 0 /\ dest = n)
    <2>1. /\ SubWithImm(s, op, dest, n, k, wide) = Alu(s, dest, v)
          /\ SubEffect(op, dest, n, k, wide) = Into(dest, TRUE)
      BY <1>2, <1>4 DEF SubWithImm, SubEffect
    <2>2. Worked(s, Alu(s, dest, v), dest, v) /\ Alu(s, dest, v).nz = Zero(v)
      BY <1>2, AluFinishes DEF SameFrame, SameAcc
    <2> QED
      BY <2>1, <2>2, WorkedThenZero DEF v
  <1>5. CASE ~ (op # "RSUB" /\ ~ wide)
    <2> DEFINE t == IF n = SCRATCH THEN JUMP ELSE SCRATCH
               u == Alu(s, t, k)
    <2>1. t \in Registers /\ t \notin PhysRegs /\ t # n /\ k \in Words
      BY RegsAreRegisters DEF Words, SCRATCH, JUMP
    <2>2. Raw(s, u, t, k)
      BY <2>1, AluDoes
    <2>3. u.reg[n] = x /\ u.reg[t] = k
      BY <2>1, <2>2 DEF Raw, Wrote
    <2>4. /\ SubWithImm(s, op, dest, n, k, wide)
               = Alu(u, dest, Compute(op, u.reg[n], u.reg[t]))
          /\ SubEffect(op, dest, n, k, wide) = Into(dest, TRUE)
      BY <1>5 DEF SubWithImm, SubEffect
    <2> HIDE DEF t, u
    <2>5. /\ IsState(u) /\ SameFrame(s, u) /\ SameAcc(s, u)
          /\ \A q \in PhysRegs : q # dest => u.reg[q] = s.reg[q]
      BY <2>1, <2>2, RegsAreRegisters DEF Raw, Wrote
    <2>6. Worked(s, Alu(u, dest, v), dest, v) /\ Alu(u, dest, v).nz = Zero(v)
      BY <1>2, <2>5, AluFinishes
    <2> QED
      BY <1>2, <2>3, <2>4, <2>6, WorkedThenZero DEF v
  <1> QED
    BY <1>3, <1>4, <1>5

LEMMA ShiftDoes ==
  ASSUME WindowSize \in Nat \ {0}, NEW s, IsState(s), NEW op \in BinaryOps,
         NEW acc \in Shapes, ValueOf(s, acc) \in Values,
         NEW rhs, IsOperand(rhs), ValueOf(s, rhs) \in Values,
         ~ (acc.is = "imm" /\ rhs.is = "imm"),
         NEW dest \in Homes \cup {SCRATCH}
  PROVE  LET v == Arith(op, ValueOf(s, acc), ValueOf(s, rhs))
         IN  /\ Worked(s, Shift(s, op, acc, rhs, dest), dest, v)
             /\ Shift(s, op, acc, rhs, dest).nz = Zero(v)
  <1> DEFINE x == ValueOf(s, acc)
             y == ValueOf(s, rhs)
             v == Arith(op, x, y)
  <1>1. Compute(op, x, y) = v /\ v \in Words
    BY ComputeIs
  <1>2. /\ dest \in Registers /\ ACC \in Registers /\ PhysRegs \subseteq Registers
        /\ SCRATCH \in Registers /\ SCRATCH # ACC
        /\ \A q \in PhysRegs : q # ACC /\ q # SCRATCH
    BY RegsAreRegisters DEF SCRATCH, ACC
  <1> HIDE DEF v
  <1>3. CASE rhs.is = "imm"
    <2>1. acc.is = "reg" /\ rhs.of = y
      BY <1>3, ShapesAre DEF ValueOf
    <2>2. Shift(s, op, acc, rhs, dest) = Alu(s, dest, v)
      BY <1>1, <1>3, <2>1 DEF Shift, SourceReg, Source, ValueOf
    <2>3. Worked(s, Alu(s, dest, v), dest, v) /\ Alu(s, dest, v).nz = Zero(v)
      BY <1>1, <1>2, AluFinishes DEF SameFrame, SameAcc
    <2> QED
      BY <2>2, <2>3 DEF v
  <1>4. CASE rhs.is = "reg"
    <2> DEFINE t == IF rhs.of = dest THEN ACC ELSE dest
               u == Move(s, acc, t)
               a == Alu(u, t, v)
               m == Mov(a, dest, t)
    <2>1. /\ rhs.of \in PhysRegs \cup {SCRATCH} /\ rhs.of \in Registers
          /\ y = s.reg[rhs.of]
      BY <1>2, <1>4 DEF IsOperand, ValueOf
    <2>2. t \in Registers /\ t # rhs.of
      BY <1>2, <2>1
    <2>3. Raw(s, u, t, x)
      BY <2>2, MoveDoes
    <2> HIDE DEF u
    <2>4. u.reg[t] = x /\ u.reg[rhs.of] = y /\ IsState(u)
      BY <2>1, <2>2, <2>3 DEF Raw, Wrote
    <2>5. Shift(s, op, acc, rhs, dest) = m
      BY <1>1, <1>4, <2>4 DEF Shift, u
    <2>6. Raw(u, a, t, v) /\ a.nz = Zero(v)
      BY <1>1, <2>2, <2>4, AluDoes
    <2> HIDE DEF a
    <2>7. IsState(a) /\ a.reg[t] = v
      BY <2>6 DEF Raw, Wrote
    <2>8. Raw(a, m, dest, v) /\ m.nz = Zero(v)
      BY <1>2, <2>2, <2>6, <2>7, MovDoes
    <2> HIDE DEF m
    <2>9. \A q \in PhysRegs : q # dest => m.reg[q] = s.reg[q]
      <3> SUFFICES ASSUME NEW q \in PhysRegs, q # dest PROVE m.reg[q] = s.reg[q]
        OBVIOUS
      <3>1. q \in Registers /\ q # t
        BY <1>2
      <3> HIDE DEF t
      <3> QED
        BY <2>3, <2>6, <2>8, <3>1 DEF Raw, Wrote
    <2>10. Worked(s, m, dest, v)
      BY <2>3, <2>6, <2>8, <2>9 DEF Raw, Wrote, Worked, SameFrame, SameAcc
    <2> QED
      BY <2>5, <2>8, <2>10 DEF v
  <1> QED
    BY <1>3, <1>4 DEF IsOperand

LEMMA CommutativeDoes ==
  ASSUME WindowSize \in Nat \ {0}, NEW s, IsState(s),
         NEW acc \in Shapes, ValueOf(s, acc) \in Values,
         NEW rhs, IsOperand(rhs), ValueOf(s, rhs) \in Values,
         NEW dest \in Homes \cup {SCRATCH}
  PROVE  LET v == Arith("XOR", ValueOf(s, acc), ValueOf(s, rhs))
         IN  /\ Worked(s, Commutative(s, "XOR", acc, rhs, dest), dest, v)
             /\ Commutative(s, "XOR", acc, rhs, dest).nz = Zero(v)
  <1> DEFINE x == ValueOf(s, acc)
             y == ValueOf(s, rhs)
             v == Arith("XOR", x, y)
             m == SourceReg(rhs, SCRATCH)
             t == Source(s, rhs, SCRATCH)
  <1>1. "XOR" \in BinaryOps
    BY DEF BinaryOps
  <1>2. Compute("XOR", x, y) = v /\ Compute("XOR", y, x) = v /\ v \in Words
    BY <1>1, ComputeIs
  <1>3. /\ dest \in Registers /\ ACC \in Registers /\ PhysRegs \subseteq Registers
        /\ SCRATCH \in Registers /\ SCRATCH # ACC /\ SCRATCH \notin Homes
        /\ \A q \in PhysRegs : q # ACC /\ q # SCRATCH
    BY RegsAreRegisters DEF SCRATCH, ACC
  <1>4. /\ m \in PhysRegs \cup {SCRATCH} /\ m \in Registers /\ t.reg[m] = y
        /\ IsState(t) /\ SameFrame(s, t) /\ SameAcc(s, t)
        /\ \A q \in Registers : q # SCRATCH => t.reg[q] = s.reg[q]
    <2>1. CASE rhs.is = "imm"
      <3>1. /\ t = Alu(s, SCRATCH, rhs.of) /\ m = SCRATCH /\ y = rhs.of
            /\ rhs.of \in Words
        BY <2>1 DEF Source, Move, SourceReg, ValueOf, IsOperand, Words
      <3>2. Raw(s, t, SCRATCH, y)
        BY <1>3, <3>1, AluDoes
      <3> QED
        BY <1>3, <3>1, <3>2 DEF Raw, Wrote
    <2>2. CASE rhs.is = "reg"
      BY <1>3, <2>2 DEF Source, SourceReg, ValueOf, IsOperand, SameFrame, SameAcc
    <2> QED
      BY <2>1, <2>2 DEF IsOperand
  <1>5. ValueOf(t, acc) = x
    BY <1>3, <1>4, ShapesAre DEF ValueOf
  <1> HIDE DEF v, m, t, x, y
  <1>6. CASE m = dest
    <2> DEFINE a == SourceReg(acc, ACC)
               u == Source(t, acc, ACC)
    <2>1. /\ a \in Registers /\ u.reg[a] = x /\ IsState(u)
          /\ SameFrame(t, u) /\ SameAcc(t, u)
          /\ \A q \in Registers : q # ACC => u.reg[q] = t.reg[q]
      <3>1. CASE acc.is = "imm"
        <4>1. Raw(t, Move(t, acc, ACC), ACC, x)
          BY <1>3, <1>4, <1>5, MoveDoes
        <4> QED
          BY <1>3, <3>1, <4>1 DEF Source, SourceReg, Raw, Wrote
      <3>2. CASE acc.is = "reg"
        BY <1>4, <1>5, <3>2, ShapesAre DEF Source, SourceReg, ValueOf, SameFrame, SameAcc
      <3> QED
        BY <3>1, <3>2, ShapesAre
    <2>2. Commutative(s, "XOR", acc, rhs, dest)
            = Alu(u, dest, Compute("XOR", u.reg[dest], u.reg[a]))
      BY <1>6 DEF Commutative, m, t
    <2> HIDE DEF a, u
    <2>3. u.reg[dest] = y
      BY <1>3, <1>4, <1>6, <2>1
    <2>4. SameFrame(s, u) /\ SameAcc(s, u)
      BY <1>4, <2>1 DEF SameFrame, SameAcc
    <2>5. \A q \in PhysRegs : q # dest => u.reg[q] = s.reg[q]
      BY <1>3, <1>4, <2>1
    <2>6. Worked(s, Alu(u, dest, v), dest, v) /\ Alu(u, dest, v).nz = Zero(v)
      BY <1>2, <1>3, <2>1, <2>4, <2>5, AluFinishes
    <2> QED
      BY <1>2, <2>1, <2>2, <2>3, <2>6 DEF v, x, y
  <1>7. CASE m # dest
    <2> DEFINE u == Move(t, acc, dest)
    <2>1. Raw(t, u, dest, x)
      BY <1>3, <1>4, <1>5, MoveDoes
    <2>2. Commutative(s, "XOR", acc, rhs, dest)
            = Alu(u, dest, Compute("XOR", u.reg[dest], u.reg[m]))
      BY <1>7 DEF Commutative, m, t
    <2> HIDE DEF u
    <2>3. u.reg[dest] = x /\ u.reg[m] = y /\ IsState(u)
      BY <1>4, <1>7, <2>1 DEF Raw, Wrote
    <2>4. SameFrame(s, u) /\ SameAcc(s, u)
      BY <1>4, <2>1 DEF Raw, Wrote, SameFrame, SameAcc
    <2>5. \A q \in PhysRegs : q # dest => u.reg[q] = s.reg[q]
      BY <1>3, <1>4, <2>1 DEF Raw, Wrote
    <2>6. Worked(s, Alu(u, dest, v), dest, v) /\ Alu(u, dest, v).nz = Zero(v)
      BY <1>2, <1>3, <2>3, <2>4, <2>5, AluFinishes
    <2> QED
      BY <1>2, <2>2, <2>3, <2>6 DEF v, x, y
  <1> QED
    BY <1>6, <1>7

(* A result that is a constant, loaded with no flag set. *)
LEMMA LoadedIsComputed ==
  ASSUME WindowSize \in Nat \ {0}, NEW s, IsState(s), FlagsOk(s),
         NEW dest \in Registers, NEW v \in Words
  PROVE  Computed(s, Apply(LoadInto(s, dest, v), Into(dest, FALSE)), dest, v)
  <1> DEFINE u == LoadInto(s, dest, v)
             t == Apply(u, Into(dest, FALSE))
  <1>1. Raw(s, u, dest, v) /\ u.nz = s.nz
    BY LoadDoes
  <1> HIDE DEF u
  <1>2. Placed(s, t, dest, v)
    BY <1>1, RawPlaces
  <1>3. PhysRegs \subseteq Registers
    BY RegsAreRegisters
  <1> HIDE DEF t
  <1>4. Computed(s, t, dest, v)
    BY <1>2, <1>3 DEF Placed, Wrote, Computed, Worked
  <1> QED
    BY <1>4 DEF t, u

(* Every operation, of every pair of operands, into every destination. *)
LEMMA BinaryOpDoes ==
  ASSUME WindowSize \in Nat \ {0}, NEW s, IsState(s), FlagsOk(s),
         NEW op \in BinaryOps,
         NEW acc \in Shapes, ValueOf(s, acc) \in Values,
         NEW rhs, IsOperand(rhs), ValueOf(s, rhs) \in Values,
         NEW dest \in Homes \cup {SCRATCH}, NEW wide \in BOOLEAN
  PROVE  Computed(s, BinaryOp(s, op, acc, rhs, dest, wide), dest,
                  Arith(op, ValueOf(s, acc), ValueOf(s, rhs)))
  <1> DEFINE x == ValueOf(s, acc)
             y == ValueOf(s, rhs)
             v == Arith(op, x, y)
             t == BinaryOp(s, op, acc, rhs, dest, wide)
  <1>1. Compute(op, x, y) = v /\ v \in Words
    BY ComputeIs
  <1>2. dest \in Registers /\ PhysRegs \cup {SCRATCH} \subseteq Registers
    BY RegsAreRegisters
  <1>3. /\ acc.is \in {"imm", "reg"}
        /\ acc.is = "imm" => acc.of = x /\ acc.of \in Values
        /\ acc.is = "reg" => s.reg[acc.of] = x /\ acc.of \in Registers
    BY ShapesAre DEF ValueOf
  <1>4. /\ rhs.is \in {"imm", "reg"}
        /\ rhs.is = "imm" => rhs.of = y /\ rhs.of \in Values
        /\ rhs.is = "reg" => s.reg[rhs.of] = y /\ rhs.of \in Registers
    BY <1>2 DEF ValueOf, IsOperand
  <1>5. x \in Values /\ y \in Values
    OBVIOUS
  <1>6. Computed(s, Apply(Alu(s, dest, v), Into(dest, TRUE)), dest, v)
    <2>1. Worked(s, Alu(s, dest, v), dest, v) /\ Alu(s, dest, v).nz = Zero(v)
      BY <1>1, <1>2, AluFinishes DEF SameFrame, SameAcc
    <2> QED
      BY <1>2, <2>1, WorkedThenZero
  <1>7. CASE acc.is = "imm" /\ rhs.is = "imm"
    <2>1. CASE ~ wide
      <3>1. t = Apply(Alu(s, dest, v), Into(dest, TRUE))
        BY <1>1, <1>3, <1>4, <1>7, <2>1 DEF BinaryOp
      <3> QED
        BY <1>6, <3>1
    <2>2. CASE wide
      <3>1. t = Apply(LoadInto(s, dest, v), Into(dest, FALSE))
        BY <1>1, <1>3, <1>4, <1>7, <2>2 DEF BinaryOp
      <3> QED
        BY <1>1, <1>2, <3>1, LoadedIsComputed
    <2> QED
      BY <2>1, <2>2
  <1>8. CASE ~ (acc.is = "imm" /\ rhs.is = "imm") /\ op \in {"SUB", "RSUB"}
    <2>1. CASE rhs.is = "imm"
      <3>1. t = Apply(SubWithImm(s, op, dest, acc.of, rhs.of, wide),
                      SubEffect(op, dest, acc.of, rhs.of, wide))
        BY <1>8, <2>1 DEF BinaryOp
      <3>2. acc.of \in Registers /\ s.reg[acc.of] = x /\ rhs.of = y
        BY <1>3, <1>4, <1>8, <2>1
      <3> HIDE DEF t, x, y
      <3>3. Computed(s, Apply(SubWithImm(s, op, dest, acc.of, rhs.of, wide),
                              SubEffect(op, dest, acc.of, rhs.of, wide)),
                     dest, Arith(op, s.reg[acc.of], rhs.of))
        BY <1>2, <1>5, <1>8, <3>2, SubDoes
      <3> QED
        BY <3>1, <3>2, <3>3 DEF t, x, y
    <2>2. CASE rhs.is = "reg" /\ acc.is = "imm"
      <3> DEFINE back == Swapped(op)
      <3>1. t = Apply(SubWithImm(s, back, dest, rhs.of, acc.of, wide),
                      SubEffect(back, dest, rhs.of, acc.of, wide))
        BY <1>8, <2>2 DEF BinaryOp
      <3>2. rhs.of \in Registers /\ s.reg[rhs.of] = y /\ acc.of = x
        BY <1>3, <1>4, <2>2
      <3>3. back \in {"SUB", "RSUB"} /\ Arith(back, y, x) = v
        BY <1>8, ComputeIs
      <3> HIDE DEF t, x, y, back
      <3>4. Computed(s, Apply(SubWithImm(s, back, dest, rhs.of, acc.of, wide),
                              SubEffect(back, dest, rhs.of, acc.of, wide)),
                     dest, Arith(back, s.reg[rhs.of], acc.of))
        BY <1>2, <1>5, <3>2, <3>3, SubDoes
      <3> QED
        BY <3>1, <3>2, <3>3, <3>4 DEF t, x, y
    <2>3. CASE rhs.is = "reg" /\ acc.is = "reg"
      <3>1. t = Apply(Alu(s, dest, v), Into(dest, TRUE))
        BY <1>1, <1>3, <1>4, <1>8, <2>3 DEF BinaryOp
      <3> QED
        BY <1>6, <3>1
    <2> QED
      BY <1>3, <1>4, <1>8, <2>1, <2>2, <2>3
  <1>9. CASE ~ (acc.is = "imm" /\ rhs.is = "imm") /\ op = "SHL"
    <2> DEFINE u == Shift(s, op, acc, rhs, dest)
    <2>1. t = Apply(u, Into(dest, TRUE))
      BY <1>9 DEF BinaryOp
    <2>2. Worked(s, u, dest, v) /\ u.nz = Zero(v)
      BY <1>9, ShiftDoes
    <2> HIDE DEF u
    <2> QED
      BY <1>2, <2>1, <2>2, WorkedThenZero
  <1>10. CASE ~ (acc.is = "imm" /\ rhs.is = "imm") /\ op = "XOR"
    <2> DEFINE u == Commutative(s, op, acc, rhs, dest)
    <2>1. t = Apply(u, Into(dest, TRUE))
      BY <1>10 DEF BinaryOp
    <2>2. Worked(s, u, dest, v) /\ u.nz = Zero(v)
      BY <1>10, CommutativeDoes
    <2> HIDE DEF u
    <2> QED
      BY <1>2, <2>1, <2>2, WorkedThenZero
  <1> QED
    BY <1>7, <1>8, <1>9, <1>10 DEF BinaryOps

(* A comparison left in the flags, its operands in the order of the code. *)
Compared(s, t, truth) ==
  /\ IsState(t) /\ SameFrame(s, t) /\ FlagsOk(t)
  /\ t.kind = "Boolean" /\ Holds(t) = IF truth THEN 1 ELSE 0
  /\ \A q \in PhysRegs : t.reg[q] = s.reg[q]

LEMMA CmpCompares ==
  ASSUME NEW s, NEW u, IsState(u), SameFrame(s, u),
         \A q \in PhysRegs : u.reg[q] = s.reg[q],
         NEW x \in Values, NEW y \in Values, NEW cond \in {"EQ", "GT", "LT"}
  PROVE  Compared(s, Apply(Cmp(u, x, y), Comparison(cond)), Truth(cond, x, y))
  <1> DEFINE z == Cmp(u, x, y)
             nz == [kind |-> "cmp", x |-> x, y |-> y]
             t == Apply(z, Comparison(cond))
  <1>1. /\ IsState(z) /\ SameFrame(u, z) /\ z.reg = u.reg /\ z.nz = nz
    <2> HIDE DEF nz
    <2>1. z = [u EXCEPT !.nz = nz]
      BY DEF Cmp, nz
    <2> QED
      BY <2>1, CmpDoes
  <1> HIDE DEF z
  <1>2. /\ IsState(t) /\ t.tos = z.tos /\ t.proc = z.proc /\ SameMachine(z, t)
        /\ t.kind = "Boolean" /\ t.flags = Comparison(cond) /\ FlagsOk(t)
    BY <1>1, ComparisonDoes
  <1> HIDE DEF t
  <1>3. t.nz.kind = "cmp" /\ t.nz.x = x /\ t.nz.y = y
    BY <1>1, <1>2 DEF SameMachine
  <1>4. Holds(t) = IF Truth(cond, x, y) THEN 1 ELSE 0
    BY <1>2, <1>3 DEF Holds, Comparison
  <1>5. SameFrame(s, t) /\ \A q \in PhysRegs : t.reg[q] = s.reg[q]
    BY <1>1, <1>2 DEF SameFrame, SameMachine
  <1> QED
    BY <1>2, <1>4, <1>5 DEF Compared, z, t

LEMMA CompareDoes ==
  ASSUME WindowSize \in Nat \ {0}, NEW s, IsState(s), NEW cond \in {"EQ", "GT", "LT"},
         NEW left \in Shapes, ValueOf(s, left) \in Values,
         NEW operand, IsOperand(operand), ValueOf(s, operand) \in Values,
         NEW wide \in BOOLEAN
  PROVE  Compared(s, Compare(s, cond, left, operand, wide),
                  Truth(cond, ValueOf(s, left), ValueOf(s, operand)))
  <1> DEFINE x == ValueOf(s, left)
             y == ValueOf(s, operand)
             c == Compare(s, cond, left, operand, wide)
             t == Source(s, left, ACC)
             u == IF wide THEN Source(t, operand, SCRATCH) ELSE t
  <1>1. /\ ACC \in Registers /\ SCRATCH \in Registers /\ PhysRegs \subseteq Registers
        /\ ACC # SCRATCH /\ \A q \in PhysRegs : q # ACC /\ q # SCRATCH
    BY RegsAreRegisters DEF ACC, SCRATCH
  <1>2. CASE left.is = "imm" /\ operand.is = "reg"
    <2>1. Mirrored(cond) \in {"EQ", "GT", "LT"} /\ x \in Nat /\ y \in Nat
      BY EmittersConstants DEF Mirrored
    <2>2. c = Apply(Cmp(s, y, x), Comparison(Mirrored(cond)))
      BY <1>2 DEF Compare, CompareEffect, ValueOf
    <2>3. Truth(Mirrored(cond), y, x) = Truth(cond, x, y)
      BY <2>1 DEF Truth, Mirrored
    <2> HIDE DEF x, y, c
    <2>4. Compared(s, Apply(Cmp(s, y, x), Comparison(Mirrored(cond))),
                   Truth(Mirrored(cond), y, x))
      BY <2>1, CmpCompares DEF SameFrame, x, y
    <2> QED
      BY <2>2, <2>3, <2>4 DEF x, y, c
  <1>3. CASE ~ (left.is = "imm" /\ operand.is = "reg")
    <2>1. /\ IsState(t) /\ SameFrame(s, t) /\ t.reg[SourceReg(left, ACC)] = x
          /\ SourceReg(left, ACC) \in Registers /\ SourceReg(left, ACC) # SCRATCH
          /\ \A q \in Registers : q # ACC => t.reg[q] = s.reg[q]
          /\ left.is = "reg" => t = s
      <3>1. CASE left.is = "imm"
        <4>1. Raw(s, Move(s, left, ACC), ACC, x)
          BY <1>1, MoveDoes
        <4> QED
          BY <1>1, <3>1, <4>1 DEF Source, SourceReg, Raw, Wrote
      <3>2. CASE left.is = "reg"
        BY <1>1, <3>2, ShapesAre, RegsAreRegisters DEF Source, SourceReg, ValueOf, SameFrame
      <3> QED
        BY <3>1, <3>2, ShapesAre
    <2>2. /\ IsState(u) /\ SameFrame(t, u)
          /\ \A q \in Registers : q # SCRATCH => u.reg[q] = t.reg[q]
          /\ operand.is = "reg" => u = t
      <3>1. CASE wide /\ operand.is = "imm"
        <4>1. u = Alu(t, SCRATCH, operand.of) /\ operand.of \in Words
          BY <3>1 DEF Source, Move, IsOperand, Words
        <4>2. Raw(t, u, SCRATCH, operand.of)
          BY <1>1, <2>1, <4>1, AluDoes
        <4> QED
          BY <3>1, <4>2 DEF Raw, Wrote
      <3>2. CASE ~ (wide /\ operand.is = "imm")
        <4>1. u = t
          BY <3>2 DEF Source, IsOperand
        <4> QED
          BY <2>1, <4>1 DEF SameFrame
      <3> QED
        BY <3>1, <3>2
    <2>3. c = Apply(Cmp(u, u.reg[SourceReg(left, ACC)], ValueOf(u, operand)),
                    Comparison(cond))
      BY <1>3 DEF Compare, CompareEffect
    <2> HIDE DEF t, u, c
    <2>4. u.reg[SourceReg(left, ACC)] = x
      BY <2>1, <2>2
    <2>5. ValueOf(u, operand) = y
      BY <1>3, <2>1, <2>2, ShapesAre DEF ValueOf, IsOperand
    <2>6. SameFrame(s, u) /\ \A q \in PhysRegs : u.reg[q] = s.reg[q]
      BY <1>1, <2>1, <2>2 DEF SameFrame
    <2> HIDE DEF x, y
    <2>7. Compared(s, Apply(Cmp(u, x, y), Comparison(cond)), Truth(cond, x, y))
      BY <2>2, <2>6, CmpCompares DEF x, y
    <2> QED
      BY <2>3, <2>4, <2>5, <2>7 DEF x, y, c
  <1> QED
    BY <1>2, <1>3

-----------------------------------------------------------------------------
(* The operand stack, one operation of Window at a time. *)

LEMMA LayoutIs ==
  ASSUME WindowSize \in Nat \ {0}, NEW s, IsState(s), NEW stack \in Seq(Values),
         Layout(s, stack)
  PROVE  /\ s.tos \in Nat /\ Len(stack) = s.tos /\ s.proc.args \in Nat
         /\ s.proc.args <= s.tos
         /\ SpilledCount(s.tos) \in Nat /\ SpilledCount(s.tos) <= s.tos
         /\ s.tos <= SpilledCount(s.tos) + WindowSize
         /\ \A k \in 0 .. s.tos - 1 : /\ k \in Nat /\ stack[k + 1] \in Values
                                      /\ InWindow(s.tos, k) <=> k >= SpilledCount(s.tos)
  <1>1. s.tos \in Nat /\ s.proc.args \in Nat /\ Len(stack) = s.tos /\ s.proc.args <= s.tos
    BY DEF IsState, Layout
  <1>2. ASSUME NEW k \in 0 .. s.tos - 1
        PROVE  /\ k \in Nat /\ stack[k + 1] \in Values
               /\ InWindow(s.tos, k) <=> k >= SpilledCount(s.tos)
    <2>1. k + 1 \in 1 .. Len(stack)
      BY <1>1
    <2> QED
      BY <1>1, <2>1, ElementOfSeq DEF InWindow, SpilledCount
  <1> QED
    BY <1>1, <1>2, SpilledCountIs

(* Code that touches neither the stack nor a window register. *)
LEMMA LayoutKept ==
  ASSUME WindowSize \in Nat \ {0}, NEW s, IsState(s), NEW stack \in Seq(Values),
         Layout(s, stack), NEW t, SameFrame(s, t),
         \A q \in PhysRegs : t.reg[q] = s.reg[q]
  PROVE  Layout(t, stack)
  <1>1. SpilledCount(s.tos) \in Nat /\ s.tos \in Nat
    BY LayoutIs
  <1>2. \A k \in SpilledCount(s.tos) .. s.tos - 1 : PhysReg(k) \in PhysRegs
    BY <1>1, PhysRegIs
  <1>3. InMem(t, stack, SpilledCount(s.tos))
    BY InMemKept DEF Layout, SameFrame
  <1> QED
    BY <1>2, <1>3 DEF Layout, InRegs, SameFrame

(* Code that writes the register of one slot. *)
LEMMA SlotWritten ==
  ASSUME WindowSize \in Nat \ {0}, NEW s, IsState(s), NEW stack \in Seq(Values),
         Layout(s, stack), NEW k \in 0 .. s.tos - 1, InWindow(s.tos, k),
         NEW t, SameFrame(s, t), NEW v, t.reg[PhysReg(k)] = v,
         \A q \in PhysRegs : q # PhysReg(k) => t.reg[q] = s.reg[q]
  PROVE  Layout(t, [stack EXCEPT ![k + 1] = v])
  <1> DEFINE n == SpilledCount(s.tos)
             new == [stack EXCEPT ![k + 1] = v]
  <1>1. /\ n \in Nat /\ s.tos \in Nat /\ Len(stack) = s.tos /\ k \in Nat /\ k >= n
        /\ n <= s.tos /\ s.tos <= n + WindowSize
    BY LayoutIs
  <1> HIDE DEF n
  <1>2. /\ Len(new) = Len(stack)
        /\ \A i \in 1 .. Len(stack) : new[i] = IF i = k + 1 THEN v ELSE stack[i]
    BY <1>1
  <1> HIDE DEF new
  <1>3. InMem(t, new, n)
    <2>1. \A j \in 0 .. n - 1 : new[j + 1] = stack[j + 1]
      BY <1>1, <1>2
    <2> QED
      BY <2>1, InMemKept DEF Layout, SameFrame, n
  <1>4. ASSUME NEW j \in n .. s.tos - 1
        PROVE  t.reg[PhysReg(j)] = new[j + 1]
    <2>1. j \in Nat /\ j + 1 \in 1 .. Len(stack)
      BY <1>1
    <2>2. CASE j = k
      BY <1>2, <2>1, <2>2
    <2>3. CASE j # k
      <3>1. j \in n .. n + WindowSize - 1 /\ k \in n .. n + WindowSize - 1
        BY <1>1
      <3>2. PhysReg(j) # PhysReg(k) /\ PhysReg(j) \in PhysRegs
        BY <1>1, <2>1, <2>3, <3>1, PhysRegsApart, PhysRegIs
      <3>3. s.reg[PhysReg(j)] = stack[j + 1]
        BY DEF Layout, InRegs, n
      <3> QED
        BY <1>2, <2>1, <2>3, <3>2, <3>3
    <2> QED
      BY <2>2, <2>3
  <1> QED
    BY <1>1, <1>2, <1>3, <1>4 DEF Layout, InRegs, SameFrame, n, new

LEMMA SpillIndexIs ==
  ASSUME WindowSize \in Nat \ {0}, NEW s, IsState(s), NEW stack \in Seq(Values),
         Layout(s, stack), NEW k \in 0 .. s.tos - 1, ~ InWindow(s.tos, k)
  PROVE  /\ SpillIndex(s, k) = MemIndex(s, k) /\ k \in 0 .. SpilledCount(s.tos) - 1
         /\ SpillIndex(s, k) \in 1 .. Len(s.mem)
         /\ MemAt(s, SpillIndex(s, k)) = stack[k + 1]
  <1> DEFINE n == SpilledCount(s.tos)
  <1>1. n \in Nat /\ k \in 0 .. n - 1 /\ InMem(s, stack, n)
    BY LayoutIs DEF Layout
  <1>2. Len(s.mem) = n + Saved(s) /\ Saved(s) \in {0, 1}
    BY <1>1, InMemLength
  <1>3. MemIndex(s, k) \in 1 .. Len(s.mem) /\ s.mem[MemIndex(s, k)] = stack[k + 1]
    BY <1>1, MemIndexIs
  <1>4. SpillIndex(s, k) = MemIndex(s, k)
    <2>1. InitialSpilled(s.proc) \in Nat
      BY InitialSpilledIs
    <2>2. SpillIndex(s, k) = Len(s.mem) - ((n - 1 - k)
            + (IF s.proc.savesLR /\ k < InitialSpilled(s.proc) THEN 1 ELSE 0))
      BY DEF SpillIndex, SpillOffset
    <2> HIDE DEF n
    <2>3. k \in Nat
      BY <1>1
    <2> QED
      BY <1>1, <1>2, <2>1, <2>2, <2>3 DEF Saved, MemIndex
  <1> QED
    BY <1>1, <1>3, <1>4 DEF MemAt

LEMMA LdrSpDoes ==
  ASSUME WindowSize \in Nat \ {0}, NEW s, IsState(s), NEW stack \in Seq(Values),
         Layout(s, stack), NEW k \in 0 .. s.tos - 1, ~ InWindow(s.tos, k),
         NEW dst \in Registers
  PROVE  /\ Raw(s, LdrSp(s, dst, k), dst, stack[k + 1])
         /\ LdrSp(s, dst, k).nz = s.nz
  <1>1. LdrSp(s, dst, k) = LoadInto(s, dst, stack[k + 1])
    BY SpillIndexIs DEF LdrSp
  <1>2. stack[k + 1] \in Words
    BY LayoutIs DEF Words
  <1> QED
    BY <1>1, <1>2, LoadDoes

LEMMA StrSpDoes ==
  ASSUME WindowSize \in Nat \ {0}, NEW s, IsState(s), NEW stack \in Seq(Values),
         Layout(s, stack), NEW k \in 0 .. s.tos - 1, ~ InWindow(s.tos, k),
         NEW src \in Registers
  PROVE  LET t == StrSp(s, src, k)
         IN  /\ IsState(t) /\ SameTracking(s, t) /\ t.reg = s.reg /\ t.nz = s.nz
             /\ Layout(t, [stack EXCEPT ![k + 1] = s.reg[src]])
  <1> DEFINE n == SpilledCount(s.tos)
             v == s.reg[src]
             x == SpillIndex(s, k)
             mm == [i \in 1 .. Len(s.mem) |-> IF i = x THEN v ELSE s.mem[i]]
             t == StrSp(s, src, k)
             new == [stack EXCEPT ![k + 1] = v]
  <1>1. /\ n \in Nat /\ s.tos \in Nat /\ Len(stack) = s.tos /\ k \in 0 .. n - 1
        /\ n <= s.tos /\ InMem(s, stack, n) /\ InRegs(s, stack, n, s.tos)
    BY LayoutIs, SpillIndexIs DEF Layout
  <1>2. x = MemIndex(s, k) /\ x \in 1 .. Len(s.mem)
    BY SpillIndexIs
  <1>3. Len(s.mem) \in Nat /\ s.mem \in Seq(Words) /\ v \in Words
    BY LenProperties DEF IsState
  <1> HIDE DEF n, v, x
  <1>4. /\ mm \in Seq(Words) /\ Len(mm) = Len(s.mem)
        /\ \A i \in 1 .. Len(s.mem) : mm[i] = IF i = x THEN v ELSE s.mem[i]
    <2>1. \A i \in 1 .. Len(s.mem) : s.mem[i] \in Words
      BY <1>3, ElementOfSeq
    <2>2. mm \in [1 .. Len(s.mem) -> Words]
      BY <1>3, <2>1
    <2> QED
      BY <1>3, <2>2, SeqDef
  <1>5. t = [s EXCEPT !.mem = mm]
    BY DEF StrSp, x, v
  <1> HIDE DEF mm, t
  <1>6. t.mem = mm /\ SameTracking(s, t) /\ t.reg = s.reg /\ t.nz = s.nz /\ IsState(t)
    BY <1>4, <1>5 DEF IsState, SameTracking
  <1>7. /\ Len(new) = Len(stack)
        /\ \A i \in 1 .. Len(stack) : new[i] = IF i = k + 1 THEN v ELSE stack[i]
    BY <1>1
  <1> HIDE DEF new
  <1>8. ASSUME NEW j \in 0 .. n - 1
        PROVE  mm[MemIndex(s, j)] = new[j + 1]
    <2>1. /\ MemIndex(s, j) \in 1 .. Len(s.mem) /\ s.mem[MemIndex(s, j)] = stack[j + 1]
          /\ j # k => MemIndex(s, j) # MemIndex(s, k)
      BY <1>1, MemIndexIs
    <2>2. j + 1 \in 1 .. Len(stack)
      BY <1>1
    <2>3. CASE j = k
      BY <1>2, <1>4, <1>7, <2>1, <2>2, <2>3
    <2>4. CASE j # k
      <3>1. j + 1 # k + 1
        BY <1>1, <2>4
      <3> QED
        BY <1>2, <1>4, <1>7, <2>1, <2>2, <2>4, <3>1
    <2> QED
      BY <2>3, <2>4
  <1>9. s.proc.savesLR => mm[InitialSpilled(s.proc) + 1] = Record
    <2> SUFFICES ASSUME s.proc.savesLR PROVE mm[InitialSpilled(s.proc) + 1] = Record
      OBVIOUS
    <2>1. /\ MemIndex(s, k) # InitialSpilled(s.proc) + 1
          /\ InitialSpilled(s.proc) + 1 \in 1 .. Len(s.mem)
      BY <1>1, MemIndexIs
    <2> QED
      BY <1>1, <1>2, <1>4, <2>1 DEF InMem
  <1>10. InMem(t, new, n)
    BY <1>1, <1>4, <1>6, <1>8, <1>9 DEF InMem, SameTracking, MemIndex, Saved
  <1>11. InRegs(t, new, n, s.tos)
    BY <1>1, <1>6, <1>7 DEF InRegs
  <1> QED
    BY <1>1, <1>6, <1>7, <1>10, <1>11 DEF Layout, SameTracking, n, t, new, v

(* Room for one more: the slot whose register it takes goes to memory. *)
LEMMA EvictDoes ==
  ASSUME WindowSize \in Nat \ {0}, NEW s, IsState(s), NEW stack \in Seq(Values),
         Layout(s, stack)
  PROVE  LET t == Evict(s)
         IN  /\ IsState(t) /\ SameTracking(s, t) /\ t.reg = s.reg /\ t.nz = s.nz
             /\ InMem(t, stack, SpilledCount(s.tos + 1))
  <1> DEFINE n == SpilledCount(s.tos)
             t == Evict(s)
  <1>1. /\ n \in Nat /\ s.tos \in Nat /\ n <= s.tos
        /\ InMem(s, stack, n) /\ InRegs(s, stack, n, s.tos)
    BY LayoutIs DEF Layout
  <1>2. CASE s.tos >= WindowSize
    <2>1. n = s.tos - WindowSize /\ SpilledCount(s.tos + 1) = n + 1
      BY <1>1, <1>2 DEF SpilledCount
    <2>2. t = Push(s, RegsFor(n, 1))
      BY <1>1, <1>2, <2>1, OneReg DEF Evict
    <2> HIDE DEF n, t
    <2>3. RunPushed(s, t, n, 1)
      BY <1>1, <2>2, OneReg, PushRun
    <2>4. InRegs(s, stack, n, n + 1)
      BY <1>1, <2>1 DEF InRegs
    <2>5. InMem(t, stack, n + 1)
      BY <1>1, <2>3, <2>4, SpillMore
    <2> QED
      BY <2>1, <2>3, <2>5 DEF RunPushed, t
  <1>3. CASE s.tos < WindowSize
    <2>1. n = 0 /\ SpilledCount(s.tos + 1) = 0 /\ t = s
      BY <1>1, <1>3 DEF SpilledCount, Evict
    <2> QED
      BY <1>1, <2>1 DEF SameTracking
  <1> QED
    BY <1>1, <1>2, <1>3

(* After which the new top is written to its register. *)
LEMMA TopWritten ==
  ASSUME WindowSize \in Nat \ {0}, NEW s, IsState(s), NEW stack \in Seq(Values),
         Layout(s, stack), NEW t, t.tos = s.tos + 1, t.proc = s.proc, t.lr = s.lr,
         t.mem = Evict(s).mem, NEW v, t.reg[PhysReg(s.tos)] = v,
         \A q \in PhysRegs : q # PhysReg(s.tos) => t.reg[q] = s.reg[q]
  PROVE  Layout(t, Append(stack, v))
  <1> DEFINE n == SpilledCount(s.tos + 1)
             new == Append(stack, v)
  <1>1. /\ s.tos \in Nat /\ Len(stack) = s.tos /\ s.proc.args <= s.tos
        /\ s.proc.args \in Nat
        /\ InRegs(s, stack, SpilledCount(s.tos), s.tos)
    BY LayoutIs DEF Layout
  <1> DEFINE d == s.tos
             m == SpilledCount(d)
  <1>2. n \in Nat /\ m \in Nat /\ d \in Nat /\ n <= d /\ d < n + WindowSize /\ m <= n
    BY <1>1 DEF SpilledCount
  <1>3. /\ Len(new) = s.tos + 1 /\ new[s.tos + 1] = v
        /\ \A i \in 1 .. s.tos : new[i] = stack[i]
    BY <1>1
  <1>4. InMem(Evict(s), stack, n) /\ Evict(s).proc = s.proc
    BY EvictDoes DEF SameTracking
  <1> HIDE DEF n, new, m, d
  <1>5. InMem(t, new, n)
    <2>1. \A k \in 0 .. n - 1 : new[k + 1] = stack[k + 1]
      <3>1. \A k \in 0 .. n - 1 : k + 1 \in 1 .. d
        BY <1>2
      <3> QED
        BY <1>3, <3>1 DEF d
    <2> QED
      BY <1>4, <2>1, InMemKept
  <1>6. ASSUME NEW k \in n .. (d + 1) - 1
        PROVE  t.reg[PhysReg(k)] = new[k + 1]
    <2>1. k \in Nat
      BY <1>2
    <2>2. CASE k = d
      BY <1>3, <2>2 DEF d
    <2>3. CASE k # d
      <3>1. /\ k \in n .. n + WindowSize - 1 /\ d \in n .. n + WindowSize - 1
            /\ k + 1 \in 1 .. d /\ k \in m .. d - 1
        BY <1>2, <2>1, <2>3
      <3>2. PhysReg(k) # PhysReg(d)
        BY <1>2, <2>3, <3>1, PhysRegsApart
      <3>3. PhysReg(k) \in PhysRegs
        BY <2>1, PhysRegIs
      <3> QED
        BY <1>1, <1>3, <3>1, <3>2, <3>3 DEF InRegs, d, m
    <2> QED
      BY <2>2, <2>3
  <1>7. InRegs(t, new, n, s.tos + 1)
    BY <1>6 DEF InRegs, d
  <1>8. t.proc.args <= s.tos + 1 /\ (~ t.proc.savesLR => t.lr = Record)
    BY <1>1 DEF Layout
  <1> QED
    BY <1>3, <1>5, <1>7, <1>8 DEF Layout, n, new

(* Down to a depth: the operands below that were in memory and now belong to
   the window come back to their registers. *)
Lowered(s, t, stack, m) ==
  /\ IsState(t) /\ t.proc = s.proc /\ t.lr = s.lr /\ t.nz = s.nz /\ SameAcc(s, t)
  /\ Layout(t, SubSeq(stack, 1, m))
  /\ FlagsOk(s) => FlagsOk(t)
  /\ s.flags.kind # "ZeroOf" => t.flags = s.flags
  /\ \A q \in Registers \ PhysRegs : t.reg[q] = s.reg[q]

LEMMA LayoutLowered ==
  ASSUME WindowSize \in Nat \ {0}, NEW stack \in Seq(Values),
         NEW m \in Nat, m <= Len(stack), NEW t, t.tos = m,
         t.proc.args <= m,
         InMem(t, stack, SpilledCount(m)), InRegs(t, stack, SpilledCount(m), m),
         ~ t.proc.savesLR => t.lr = Record
  PROVE  Layout(t, SubSeq(stack, 1, m))
  <1> DEFINE new == SubSeq(stack, 1, m)
             n == SpilledCount(m)
  <1>1. Len(new) = m /\ \A i \in 1 .. m : new[i] = stack[i]
    BY LenProperties, SubSeqProperties
  <1>2. n \in Nat /\ n <= m
    BY SpilledCountIs
  <1> HIDE DEF new, n
  <1>3. InMem(t, new, n)
    <2>1. \A k \in 0 .. n - 1 : new[k + 1] = stack[k + 1]
      BY <1>1, <1>2
    <2> QED
      BY <2>1, InMemKept DEF n
  <1>4. InRegs(t, new, n, m)
    <2>1. \A k \in n .. m - 1 : new[k + 1] = stack[k + 1]
      BY <1>1, <1>2
    <2> QED
      BY <2>1 DEF InRegs, n
  <1> QED
    BY <1>1, <1>3, <1>4 DEF Layout, n, new

(* As InMemKept, for the operands in registers. *)
LEMMA InRegsKept ==
  ASSUME WindowSize \in Nat \ {0}, NEW s, NEW t, NEW stack, NEW lo \in Nat, NEW hi,
         InRegs(s, stack, lo, hi), \A q \in PhysRegs : t.reg[q] = s.reg[q]
  PROVE  InRegs(t, stack, lo, hi)
  <1> SUFFICES ASSUME NEW k \in lo .. hi - 1
               PROVE  t.reg[PhysReg(k)] = stack[k + 1]
    BY DEF InRegs
  <1>1. PhysReg(k) \in PhysRegs
    BY PhysRegIs, k \in Nat
  <1> QED
    BY <1>1 DEF InRegs

LEMMA InRegsPart ==
  ASSUME NEW s, NEW stack, NEW lo \in Nat, NEW hi \in Nat, InRegs(s, stack, lo, hi),
         NEW m \in Nat, NEW n \in Nat, lo <= m, n <= hi
  PROVE  InRegs(s, stack, m, n)
  <1>1. \A k \in m .. n - 1 : k \in lo .. hi - 1
    OBVIOUS
  <1> QED
    BY <1>1 DEF InRegs

(* The translator and the program agree: on the operands, and on the
   accumulator if the program may read it. *)
InStep(s, stack, acc) ==
  IsState(s) /\ FlagsOk(s) /\ AccOk(s, acc) /\ Layout(s, stack)

LEMMA AtTos ==
  ASSUME NEW s, IsState(s), NEW n \in Nat
  PROVE  LET t == [s EXCEPT !.tos = n]
         IN  /\ IsState(t) /\ t.tos = n /\ t.proc = s.proc /\ SameMachine(s, t)
             /\ SameAcc(s, t) /\ t.flags = s.flags
  BY DEF IsState, SameMachine, SameAcc

LEMMA PushValueDoes ==
  ASSUME WindowSize \in Nat \ {0}, NEW s, NEW stack \in Seq(Values),
         NEW acc \in Values, InStep(s, stack, acc)
  PROVE  /\ InStep(PushValue(s), Append(stack, acc), acc)
         /\ PushValue(s).proc = s.proc
  <1> DEFINE e == Evict(s)
             r == PhysReg(s.tos)
             u == Flush(e, r)
             t == [u EXCEPT !.tos = @ + 1]
  <1>1. /\ IsState(e) /\ SameTracking(s, e) /\ e.reg = s.reg /\ e.nz = s.nz
    BY EvictDoes DEF InStep
  <1>2. s.tos \in Nat /\ r \in PhysRegs /\ r \in Homes /\ PhysRegs \subseteq Registers
    BY PhysRegIs, RegsAreRegisters DEF InStep, IsState
  <1> DEFINE d == s.tos
  <1>3. t = PushValue(s)
    BY DEF PushValue
  <1> HIDE DEF e, r
  <1>4. FlagsOk(e)
    BY <1>1 DEF InStep, FlagsOk, SameTracking
  <1>5. AccOk(e, acc)
    BY <1>1 DEF InStep, AccOk, ValueOf, Holds, SameTracking
  <1>6. Flushed(e, u, r, acc)
    BY <1>1, <1>2, <1>4, <1>5, FlushDoes
  <1> HIDE DEF u
  <1>7. /\ IsState(u) /\ SameFrame(e, u) /\ FlagsOk(u) /\ u.reg[r] = acc
        /\ u.kind = "Pending" /\ u.value = Reg(r)
        /\ \A q \in PhysRegs : q # r => u.reg[q] = s.reg[q]
    BY <1>1, <1>2, <1>6 DEF Flushed
  <1>8. u.tos = d /\ d + 1 \in Nat /\ t = [u EXCEPT !.tos = d + 1]
    BY <1>1, <1>2, <1>7 DEF SameFrame, SameTracking, IsState
  <1> HIDE DEF t, d
  <1>9. /\ IsState(t) /\ t.tos = d + 1 /\ t.proc = u.proc /\ SameMachine(u, t)
        /\ SameAcc(u, t) /\ t.flags = u.flags
    BY <1>7, <1>8, AtTos
  <1>10. FlagsOk(t) /\ AccOk(t, acc)
    BY <1>7, <1>9 DEF FlagsOk, AccOk, ValueOf, Reg, SameMachine, SameAcc
  <1>11. Layout(t, Append(stack, acc))
    <2>1. /\ t.tos = s.tos + 1 /\ t.proc = s.proc /\ t.lr = s.lr
          /\ t.mem = Evict(s).mem /\ t.reg[PhysReg(s.tos)] = acc
          /\ \A q \in PhysRegs : q # PhysReg(s.tos) => t.reg[q] = s.reg[q]
      BY <1>1, <1>7, <1>9 DEF SameFrame, SameTracking, SameMachine, e, r, d
    <2> QED
      BY <2>1, TopWritten DEF InStep
  <1>12. t.proc = s.proc
    BY <1>1, <1>7, <1>9 DEF SameFrame, SameTracking
  <1> QED
    BY <1>3, <1>9, <1>10, <1>11, <1>12 DEF InStep

(* Popping the top: the register it leaves gets the slot under the window. *)
LEMMA FinishPopDoes ==
  ASSUME WindowSize \in Nat \ {0}, NEW s, IsState(s), NEW stack \in Seq(Values),
         Layout(s, stack), s.proc.args < s.tos
  PROVE  LET t == FinishPop(s)
         IN  /\ Lowered(s, t, stack, s.tos - 1) /\ t.tos = s.tos - 1
             /\ \A q \in Registers : q # PhysReg(s.tos - 1) => t.reg[q] = s.reg[q]
             /\ s.tos - 1 < WindowSize => t.reg = s.reg
  <1> DEFINE d == s.tos - 1
             t == FinishPop(s)
             w == WindowSize
  <1>1. /\ d \in Nat /\ s.tos = d + 1 /\ Len(stack) = d + 1 /\ s.proc.args \in Nat
        /\ s.proc.args <= d /\ (~ s.proc.savesLR => s.lr = Record)
        /\ InMem(s, stack, SpilledCount(s.tos)) /\ InRegs(s, stack, SpilledCount(s.tos), s.tos)
    BY LayoutIs DEF Layout
  <1>2. InitialSpilled(s.proc) <= SpilledCount(d) /\ SpilledCount(d) \in Nat
    BY <1>1, SpilledCountIs DEF InitialSpilled
  <1> HIDE DEF d
  <1>3. CASE d >= w
    <2> DEFINE lo == d - w
               u == Pop(s, RegsFor(lo, 1))
               v == Apply(u, Writes(RegsFor(lo, 1)))
    <2>1. /\ lo \in Nat /\ SpilledCount(d) = lo /\ SpilledCount(s.tos) = lo + 1
          /\ d = lo + w
      BY <1>1, <1>3 DEF SpilledCount
    <2>2. RegsFor(lo, 1) = {PhysReg(lo)} /\ PhysReg(lo) \in PhysRegs
      BY <2>1, OneReg, PhysRegIs
    <2>3. PhysReg(lo) = PhysReg(d)
      BY <2>1, PhysRegIs
    <2>4. t = [v EXCEPT !.tos = @ - 1]
      <3>1. s.tos - 1 - w = lo /\ lo >= 0
        BY <1>1, <1>3
      <3> QED
        BY <2>2, <3>1 DEF FinishPop
    <2> HIDE DEF lo
    <2>5. RunPopped(s, u, lo, 1)
      <3>1. Len(s.mem) = lo + 1 + Saved(s) /\ Saved(s) \in {0, 1}
        BY <1>1, <2>1, InMemLength
      <3> QED
        BY <2>1, <3>1, OneReg, PopRun
    <2> HIDE DEF u
    <2>6. InMem(u, stack, lo) /\ InRegs(u, stack, lo, d)
      <3>1. InRegs(s, stack, lo + 1, d)
        <4>1. lo + 1 \in Nat /\ s.tos \in Nat /\ d <= s.tos
          BY <1>1, <2>1
        <4> QED
          BY <1>1, <2>1, <4>1, InRegsPart
      <3> QED
        BY <1>1, <1>2, <2>1, <2>5, <3>1, OneReg, SpillLess
    <2>7. /\ IsState(u) /\ SameTracking(s, u) /\ u.nz = s.nz
          /\ \A q \in Registers \ {PhysReg(lo)} : u.reg[q] = s.reg[q]
      BY <2>2, <2>5 DEF RunPopped
    <2>8. Marked(u, v) /\ (u.flags.kind # "ZeroOf" => v.flags = u.flags)
      BY <2>7, WritesDoes
    <2>9. FlagsOk(s) => FlagsOk(v)
      BY <2>2, <2>7, WritesPlaces DEF SameTracking
    <2> HIDE DEF v
    <2>10. IsState(v) /\ v.tos = s.tos /\ t = [v EXCEPT !.tos = d]
      <3>1. IsState(v) /\ v.tos = s.tos
        BY <2>7, <2>8 DEF Marked, SameTracking
      <3>2. v.tos - 1 = d
        BY <1>1, <3>1
      <3> QED
        BY <2>4, <3>1, <3>2
    <2>11. /\ IsState(t) /\ t.tos = d /\ t.proc = v.proc /\ SameMachine(v, t)
           /\ SameAcc(v, t) /\ t.flags = v.flags
      BY <1>1, <2>10, AtTos
    <2> HIDE DEF t
    <2>12. t.reg = u.reg /\ t.mem = u.mem /\ t.proc = u.proc
      BY <2>8, <2>11 DEF Marked, SameMachine
    <2>13. /\ t.proc = s.proc /\ t.lr = s.lr /\ t.nz = s.nz /\ SameAcc(s, t)
           /\ s.flags.kind # "ZeroOf" => t.flags = s.flags
      BY <2>7, <2>8, <2>11 DEF Marked, SameMachine, SameTracking, SameAcc
    <2>14. InMem(t, stack, SpilledCount(d)) /\ InRegs(t, stack, SpilledCount(d), d)
      BY <2>1, <2>6, <2>12 DEF InMem, InRegs, MemIndex, Saved
    <2>15. Layout(t, SubSeq(stack, 1, d))
      BY <1>1, <2>11, <2>13, <2>14, LayoutLowered
    <2>16. FlagsOk(s) => FlagsOk(t)
      BY <2>9, <2>11 DEF FlagsOk, SameMachine
    <2>17. /\ \A q \in Registers : q # PhysReg(d) => t.reg[q] = s.reg[q]
           /\ \A q \in Registers \ PhysRegs : t.reg[q] = s.reg[q]
      BY <2>2, <2>3, <2>7, <2>12
    <2> QED
      BY <1>1, <1>3, <2>11, <2>13, <2>15, <2>16, <2>17 DEF Lowered, t, d
  <1>4. CASE d < w
    <2>1. SpilledCount(d) = 0 /\ SpilledCount(s.tos) = 0
      BY <1>1, <1>4 DEF SpilledCount
    <2>2. t = [s EXCEPT !.tos = d]
      BY <1>1, <1>4 DEF FinishPop, IsState
    <2>3. /\ IsState(t) /\ t.tos = d /\ t.proc = s.proc /\ SameMachine(s, t)
          /\ SameAcc(s, t) /\ t.flags = s.flags
      BY <1>1, <2>2, AtTos
    <2> HIDE DEF t
    <2>4. InMem(t, stack, SpilledCount(d)) /\ InRegs(t, stack, SpilledCount(d), d)
      <3>1. 0 \in Nat /\ s.tos \in Nat /\ d <= s.tos /\ t.reg = s.reg /\ t.mem = s.mem
        BY <1>1, <2>3 DEF SameMachine
      <3>2. InRegs(s, stack, 0, d)
        BY <1>1, <2>1, <3>1, InRegsPart
      <3>3. InRegs(t, stack, 0, d)
        BY <3>1, <3>2, InRegsKept
      <3>4. InMem(t, stack, 0)
        BY <1>1, <2>1, <2>3, <3>1, InMemKept
      <3> QED
        BY <2>1, <3>3, <3>4
    <2>5. Layout(t, SubSeq(stack, 1, d))
      BY <1>1, <2>3, <2>4, LayoutLowered DEF SameMachine
    <2>6. (FlagsOk(s) => FlagsOk(t)) /\ t.reg = s.reg /\ t.lr = s.lr /\ t.nz = s.nz
      BY <2>3 DEF FlagsOk, SameMachine
    <2> QED
      BY <1>1, <1>4, <2>3, <2>5, <2>6 DEF Lowered, t, d
  <1> QED
    BY <1>1, <1>3, <1>4 DEF d

(* The reload both Restore and ReloadAfterCall end with: the operands from
   floor to top come back from memory, the ones above being in place. *)
LEMMA ReloadDoes ==
  ASSUME WindowSize \in Nat \ {0}, NEW s, IsState(s), NEW stack \in Seq(Values),
         NEW m \in Nat, m <= Len(stack), s.proc.args <= m,
         ~ s.proc.savesLR => s.lr = Record,
         NEW top \in Nat, SpilledCount(m) <= top, top <= m,
         InMem(s, stack, top), InRegs(s, stack, top, m),
         NEW R, RegsFor(SpilledCount(m), top - SpilledCount(m)) \subseteq R,
         R \subseteq PhysRegs
  PROVE  LET u == Apply(PopRuns(s, SpilledCount(m), top - SpilledCount(m)), Writes(R))
         IN  Lowered(s, [u EXCEPT !.tos = m], stack, m)
  <1> DEFINE floor == SpilledCount(m)
             c == top - floor
             p == PopRuns(s, floor, c)
             u == Apply(p, Writes(R))
             t == [u EXCEPT !.tos = m]
  <1>1. /\ floor \in Nat /\ floor <= m /\ m <= floor + WindowSize
        /\ s.proc.args \in Nat /\ s.tos \in Nat
    BY SpilledCountIs DEF IsState
  <1>2. InitialSpilled(s.proc) <= floor
    BY <1>1, SpilledCountIs DEF InitialSpilled
  <1> HIDE DEF floor
  <1>3. c \in 0 .. WindowSize /\ floor + c = top /\ c \in Nat
    BY <1>1 DEF floor
  <1>4. c <= Len(s.mem)
    BY <1>1, <1>3, InMemLength
  <1> HIDE DEF c
  <1>5. RunPopped(s, p, floor, c)
    BY <1>1, <1>3, <1>4, PopRunsDoes
  <1> HIDE DEF p
  <1>6. InMem(p, stack, floor) /\ InRegs(p, stack, floor, m)
    BY <1>1, <1>2, <1>3, <1>5, SpillLess
  <1>7. /\ IsState(p) /\ SameTracking(s, p) /\ p.nz = s.nz
        /\ \A q \in Registers \ R : p.reg[q] = s.reg[q]
    BY <1>5 DEF RunPopped, floor, c
  <1>8. Marked(p, u) /\ (p.flags.kind # "ZeroOf" => u.flags = p.flags)
    BY <1>7, WritesDoes
  <1>9. FlagsOk(s) => FlagsOk(u)
    BY <1>7, WritesPlaces DEF SameTracking
  <1> HIDE DEF u
  <1>10. IsState(u)
    BY <1>8 DEF Marked
  <1>11. /\ IsState(t) /\ t.tos = m /\ t.proc = u.proc /\ SameMachine(u, t)
         /\ SameAcc(u, t) /\ t.flags = u.flags
    BY <1>10, AtTos
  <1> HIDE DEF t
  <1>12. /\ t.proc = s.proc /\ t.lr = s.lr /\ t.nz = s.nz /\ SameAcc(s, t)
         /\ t.reg = p.reg /\ t.mem = p.mem /\ t.proc = p.proc
         /\ s.flags.kind # "ZeroOf" => t.flags = s.flags
    BY <1>7, <1>8, <1>11 DEF Marked, SameMachine, SameTracking, SameAcc
  <1>13. InMem(t, stack, SpilledCount(m)) /\ InRegs(t, stack, SpilledCount(m), m)
    BY <1>6, <1>12, InMemKept DEF InRegs, floor
  <1>14. Layout(t, SubSeq(stack, 1, m))
    BY <1>11, <1>12, <1>13, LayoutLowered
  <1>15. FlagsOk(s) => FlagsOk(t)
    BY <1>9, <1>11 DEF FlagsOk, SameMachine
  <1>16. \A q \in Registers \ PhysRegs : t.reg[q] = s.reg[q]
    BY <1>7, <1>12
  <1>17. Lowered(s, t, stack, m)
    BY <1>11, <1>12, <1>14, <1>15, <1>16 DEF Lowered
  <1> QED
    BY <1>17 DEF t, u, p, c, floor

LEMMA IncrSpDoes ==
  ASSUME NEW s, IsState(s), NEW d \in Nat, d <= Len(s.mem)
  PROVE  LET t == IncrSp(s, d)
         IN  /\ IsState(t) /\ SameTracking(s, t) /\ t.nz = s.nz /\ t.reg = s.reg
             /\ Len(t.mem) = Len(s.mem) - d
             /\ \A i \in 1 .. Len(t.mem) : t.mem[i] = s.mem[i]
  <1> DEFINE n == Len(s.mem)
             mm == SubSeq(s.mem, 1, n - d)
             t == IncrSp(s, d)
  <1>1. n \in Nat /\ s.mem \in Seq(Words) /\ n - d \in 0 .. n
    BY LenProperties DEF IsState
  <1>2. mm \in Seq(Words) /\ Len(mm) = n - d /\ \A i \in 1 .. n - d : mm[i] = s.mem[i]
    BY <1>1, SubSeqProperties
  <1>3. t = [s EXCEPT !.mem = mm]
    BY DEF IncrSp
  <1> HIDE DEF t, mm
  <1>4. t.mem = mm /\ SameTracking(s, t) /\ t.nz = s.nz /\ t.reg = s.reg /\ IsState(t)
    BY <1>2, <1>3 DEF IsState, SameTracking
  <1> QED
    BY <1>2, <1>4 DEF t, n

LEMMA RestoreDoes ==
  ASSUME WindowSize \in Nat \ {0}, NEW s, IsState(s), NEW stack \in Seq(Values),
         Layout(s, stack), NEW m \in Nat, s.proc.args <= m, m <= s.tos
  PROVE  Lowered(s, Restore(s, m), stack, m)
  <1> DEFINE now == SpilledCount(s.tos)
             floor == SpilledCount(m)
             top == Lower(now, m)
             i == IncrSp(s, now - top)
             R == RegsFor(floor, top - floor)
             u == Apply(PopRuns(i, floor, top - floor), Writes(R))
  <1>1. /\ s.tos \in Nat /\ Len(stack) = s.tos /\ s.proc.args \in Nat
        /\ InMem(s, stack, now) /\ InRegs(s, stack, now, s.tos)
        /\ ~ s.proc.savesLR => s.lr = Record
    BY LayoutIs DEF Layout
  <1>2. /\ now \in Nat /\ floor \in Nat /\ floor <= now /\ floor <= m
        /\ InitialSpilled(s.proc) <= floor
    BY <1>1, SpilledCountIs DEF InitialSpilled
  <1>3. Restore(s, m) = [u EXCEPT !.tos = m]
    BY DEF Restore
  <1> HIDE DEF now, floor
  <1>4. /\ top \in Nat /\ floor <= top /\ top <= m /\ now - top \in Nat
        /\ top = now \/ top = m
    BY <1>1, <1>2 DEF Lower
  <1>5. Len(s.mem) = now + Saved(s) /\ Saved(s) \in {0, 1}
        /\ InitialSpilled(s.proc) \in Nat /\ Len(s.mem) \in Nat
    BY <1>1, InMemLength
  <1> HIDE DEF top
  <1>6. now - top <= Len(s.mem)
    BY <1>1, <1>2, <1>4, <1>5
  <1>7. /\ IsState(i) /\ SameTracking(s, i) /\ i.nz = s.nz /\ i.reg = s.reg
        /\ Len(i.mem) = Len(s.mem) - (now - top)
        /\ \A x \in 1 .. Len(i.mem) : i.mem[x] = s.mem[x]
    BY <1>4, <1>6, IncrSpDoes
  <1> HIDE DEF i
  <1>8. i.proc = s.proc /\ i.lr = s.lr
    BY <1>7 DEF SameTracking
  <1>9. InMem(i, stack, top)
    <2>1. /\ (now - top) + InitialSpilled(s.proc) <= now /\ now - (now - top) = top
      BY <1>2, <1>4, <1>5
    <2>2. InMem(i, stack, now - (now - top))
      BY <1>1, <1>4, <1>7, <1>8, <2>1, MemShrinks
    <2> QED
      BY <2>1, <2>2
  <1>10. InRegs(i, stack, top, m)
    <2>1. CASE top = now
      <3>1. InRegs(s, stack, top, m)
        BY <1>1, <1>2, <2>1, InRegsPart
      <3> QED
        BY <1>7, <3>1 DEF InRegs
    <2>2. CASE top = m
      BY <2>2 DEF InRegs
    <2> QED
      BY <1>4, <2>1, <2>2
  <1>11. R \subseteq PhysRegs /\ R \subseteq R
    <2>1. top - floor \in Nat
      BY <1>2, <1>4
    <2> QED
      BY <1>2, <2>1, RegsAreRegs
  <1>12. Lowered(i, [u EXCEPT !.tos = m], stack, m)
    <2> HIDE DEF u, R
    <2>1. m <= Len(stack) /\ i.proc.args <= m /\ (~ i.proc.savesLR => i.lr = Record)
      BY <1>1, <1>8
    <2> QED
      BY <1>4, <1>7, <1>9, <1>10, <1>11, <2>1, ReloadDoes DEF floor, u, R
  <1> HIDE DEF u
  <1>13. Lowered(s, [u EXCEPT !.tos = m], stack, m)
    BY <1>7, <1>12 DEF Lowered, SameTracking, SameAcc, FlagsOk
  <1> QED
    BY <1>3, <1>13

(* What a return leaves: the record it goes back to and the caller's stack. *)
LEMMA DiscardDoes ==
  ASSUME WindowSize \in Nat \ {0}, NEW s, IsState(s), NEW stack \in Seq(Values),
         Layout(s, stack)
  PROVE  LET t == Discard(s)
             n == Len(t.mem)
         IN  /\ t.proc = s.proc /\ t.reg = s.reg
             /\ s.proc.savesLR => /\ MemAt(t, n) = Record
                                  /\ SubSeq(t.mem, 1, n - 1 - InitialSpilled(s.proc)) = << >>
             /\ ~ s.proc.savesLR => t.lr = Record /\ t.mem = << >>
  <1> DEFINE now == SpilledCount(s.tos)
             i == InitialSpilled(s.proc)
             d == now - (IF s.proc.savesLR THEN i ELSE 0)
             t == Discard(s)
  <1>1. InMem(s, stack, now) /\ (~ s.proc.savesLR => s.lr = Record)
    BY DEF Layout
  <1>2. /\ Len(s.mem) = now + Saved(s) /\ now \in Nat /\ i \in 0 .. now
        /\ Len(s.mem) \in Nat /\ (s.proc.savesLR => s.mem[i + 1] = Record)
    BY <1>1, InMemLength DEF InMem
  <1>3. t = IncrSp(s, d)
    BY DEF Discard
  <1> HIDE DEF now, i, t
  <1>4. d \in Nat /\ d <= Len(s.mem)
    BY <1>2 DEF Saved
  <1> HIDE DEF d
  <1>5. /\ IsState(t) /\ SameTracking(s, t) /\ t.reg = s.reg
        /\ Len(t.mem) = Len(s.mem) - d
        /\ \A x \in 1 .. Len(t.mem) : t.mem[x] = s.mem[x]
    BY <1>3, <1>4, IncrSpDoes
  <1>6. ASSUME s.proc.savesLR
        PROVE  MemAt(t, Len(t.mem)) = Record /\ Len(t.mem) - 1 - i = 0
    <2>1. Len(t.mem) = i + 1 /\ i \in Nat
      BY <1>2, <1>5, <1>6 DEF Saved, d
    <2>2. i + 1 \in 1 .. Len(t.mem)
      BY <2>1
    <2> QED
      BY <1>2, <1>5, <1>6, <2>1, <2>2 DEF MemAt
  <1>7. t.mem \in Seq(Words)
    BY <1>5 DEF IsState
  <1>8. SubSeq(t.mem, 1, 0) = << >>
    BY <1>7
  <1>9. ASSUME ~ s.proc.savesLR
        PROVE  t.lr = Record /\ t.mem = << >>
    <2>1. Len(t.mem) = 0
      BY <1>2, <1>5, <1>9 DEF Saved, d
    <2> QED
      BY <1>1, <1>5, <1>7, <1>9, <2>1 DEF SameTracking
  <1> QED
    BY <1>5, <1>6, <1>8, <1>9 DEF SameTracking, t, i

-----------------------------------------------------------------------------
(* Calls: of a words of arguments, on top of the operands that stay. *)

ArgsOnTop(s, stack, a) ==
  /\ a <= Len(s.mem)
  /\ \A j \in 1 .. a : s.mem[(Len(s.mem) - a) + j] = stack[(Len(stack) - a) + j]

(* Below them: either what was in memory and then the registers of the window
   that are no arguments, or the whole operand stack in its order. *)
Parked(s, t, stack, a) ==
  LET bottom == SpilledCount(s.tos)
      count  == (s.tos - a) - bottom
  IN  IF a <= WindowSize
      THEN /\ Len(t.mem) - a = Len(s.mem) + count
           /\ \A i \in 1 .. Len(s.mem) : t.mem[i] = s.mem[i]
           /\ \A r \in RegsFor(bottom, count) :
                t.mem[Len(s.mem) + Place(RegsFor(bottom, count), r)] = s.reg[r]
      ELSE InMem(t, stack, s.tos)

(* How SpillForCall splits the window: w operands in registers, m of them
   arguments, c of them not. *)
LEMMA CallSplit ==
  ASSUME WindowSize \in Nat \ {0}, NEW d \in Nat, NEW a \in Nat, a <= d
  PROVE  LET w == Lower(d, WindowSize)
             m == Lower(a, w)
             c == (d - m) - (d - w)
         IN  /\ w \in Nat /\ w <= WindowSize /\ d - w \in Nat
             /\ d - w = SpilledCount(d)
             /\ m \in Nat /\ m <= WindowSize /\ m <= w /\ m <= a /\ d - m \in Nat
             /\ a <= WindowSize => m = a
             /\ a > WindowSize => m = w /\ w = WindowSize /\ c = 0
             /\ c \in Nat /\ c <= WindowSize /\ d - m = (d - w) + c
             /\ d = (d - m) + m /\ d = (d - w) + w
  <1> DEFINE w == Lower(d, WindowSize)
  <1>1. /\ w \in Nat /\ w <= WindowSize /\ w <= d /\ d - w = SpilledCount(d)
        /\ w = d \/ w = WindowSize
    BY DEF Lower, SpilledCount
  <1> HIDE DEF w
  <1> DEFINE m == Lower(a, w)
  <1>2. /\ m \in Nat /\ m <= w /\ m <= a
        /\ a <= WindowSize => m = a
        /\ a > WindowSize => m = w /\ w = WindowSize
    BY <1>1 DEF Lower
  <1> HIDE DEF m
  <1> QED
    BY <1>1, <1>2 DEF w, m

LEMMA SpillForCallDoes ==
  ASSUME WindowSize \in Nat \ {0}, NEW s, IsState(s), NEW stack \in Seq(Values),
         Layout(s, stack), NEW a \in Nat, s.proc.args + a <= s.tos
  PROVE  LET t == SpillForCall(s, a)
         IN  /\ IsState(t) /\ SameTracking(s, t) /\ t.reg = s.reg
             /\ ArgsOnTop(t, stack, a) /\ Parked(s, t, stack, a)
  <1> DEFINE w == Lower(s.tos, WindowSize)
             m == Lower(a, w)
             bottom == s.tos - w
             base == s.tos - m
             X == RegsFor(bottom, base - bottom)
             u == Push(s, X)
             t == PushRuns(u, base, m)
             d == s.tos
  <1>1. /\ d \in Nat /\ Len(stack) = d /\ a <= d /\ s.proc.args \in Nat
        /\ InMem(s, stack, SpilledCount(d)) /\ InRegs(s, stack, SpilledCount(d), d)
    BY LayoutIs DEF Layout
  <1> DEFINE c == base - bottom
  <1>2. /\ w \in Nat /\ w <= WindowSize /\ bottom \in Nat /\ bottom = SpilledCount(d)
        /\ m \in Nat /\ m <= WindowSize /\ m <= w /\ m <= a /\ base \in Nat
        /\ a <= WindowSize => m = a
        /\ a > WindowSize => m = w /\ w = WindowSize /\ c = 0
        /\ c \in Nat /\ c <= WindowSize /\ base = bottom + c
        /\ d = base + m /\ d = bottom + w
    BY <1>1, CallSplit
  <1>3. t = SpillForCall(s, a)
    BY DEF SpillForCall
  <1> HIDE DEF w, m, bottom, base, d, c
  <1>4. /\ d \in Nat /\ base \in Nat /\ bottom \in Nat /\ c \in Nat /\ m \in Nat /\ w \in Nat
        /\ d = base + m /\ base = bottom + c /\ bottom <= base
    BY <1>1, <1>2
  <1>5. c \in 0 .. WindowSize /\ m \in 0 .. WindowSize
    BY <1>2
  <1>6. /\ IsFiniteSet(X) /\ Cardinality(X) = c /\ X \subseteq Registers
    <2>1. X = RegsFor(bottom, c)
      BY DEF c
    <2> HIDE DEF X
    <2> QED
      BY <1>4, <1>5, <2>1, RegsCount, RegsAreRegs, RegsAreRegisters
  <1> HIDE DEF X
  <1>7. Pushed(s, u, X)
    BY <1>6, PushDoes
  <1> HIDE DEF u
  <1>8. RunPushed(u, t, base, m)
    BY <1>2, <1>5, <1>7, PushRunsDoes DEF Pushed
  <1> HIDE DEF t
  <1>9. IsState(t) /\ SameTracking(s, t) /\ t.reg = s.reg
    BY <1>7, <1>8 DEF Pushed, RunPushed, SameTracking
  <1> DEFINE n == Len(s.mem)
             p == Len(u.mem)
             q == Len(t.mem)
  <1>10. n \in Nat /\ p = n + c /\ q = p + m
    BY <1>6, <1>7, <1>8, LenProperties DEF IsState, Pushed, RunPushed
  <1>11. n = bottom + Saved(s) /\ Saved(s) \in {0, 1} /\ InitialSpilled(s.proc) \in 0 .. bottom
    BY <1>1, <1>2, InMemLength DEF d
  <1>12. /\ \A i \in 1 .. n : t.mem[i] = s.mem[i]
         /\ \A i \in 1 .. p : t.mem[i] = u.mem[i]
    <2>1. \A i \in 1 .. p : t.mem[i] = u.mem[i]
      BY <1>8 DEF RunPushed
    <2>2. \A i \in 1 .. n : u.mem[i] = s.mem[i] /\ i \in 1 .. p
      BY <1>5, <1>7, <1>10 DEF Pushed
    <2> QED
      BY <2>1, <2>2
  <1>13. \A j \in 0 .. m - 1 : t.mem[p + (j + 1)] = s.reg[PhysReg(base + j)]
    BY <1>7, <1>8 DEF Pushed, RunPushed
  <1> HIDE DEF n, p, q
  <1>14. CASE a <= WindowSize
    <2>1. m = a /\ base = d - a /\ q - a = n + c /\ q - a = p /\ a \in Nat
      BY <1>1, <1>2, <1>10, <1>14
    <2>2. ASSUME NEW j \in 1 .. a
          PROVE  t.mem[(q - a) + j] = stack[(d - a) + j]
      <3>1. j - 1 \in 0 .. m - 1 /\ (j - 1) + 1 = j
        BY <2>1
      <3>2. t.mem[p + j] = s.reg[PhysReg(base + (j - 1))]
        BY <1>13, <3>1
      <3>3. base + (j - 1) \in bottom .. d - 1 /\ (base + (j - 1)) + 1 = (d - a) + j
        <4>1. j \in Nat /\ 1 <= j /\ j <= m
          BY <2>1
        <4>2. base + (j - 1) <= d - 1 /\ bottom <= base + (j - 1) /\ base + (j - 1) \in Nat
          BY ONLY <1>4, <4>1
        <4>3. (base + (j - 1)) + 1 = (d - a) + j
          BY ONLY <1>4, <2>1, <4>1
        <4> QED
          BY <1>4, <4>2, <4>3
      <3>4. s.reg[PhysReg(base + (j - 1))] = stack[(base + (j - 1)) + 1]
        BY <1>1, <1>2, <3>3 DEF InRegs
      <3> QED
        BY <2>1, <3>2, <3>3, <3>4
    <2>3. a <= q
      BY <1>5, <1>10, <2>1
    <2>4. ArgsOnTop(t, stack, a)
      BY <1>1, <2>2, <2>3 DEF ArgsOnTop, q
    <2>5. ASSUME NEW r \in X
          PROVE  t.mem[n + Place(X, r)] = s.reg[r]
      <3>1. X \subseteq Int /\ c \in Nat
        BY <1>5, <1>6, RegsAreRegisters
      <3>2. Place(X, r) \in 1 .. c
        BY <1>6, <3>1, PlaceIsInside
      <3>3. n + Place(X, r) \in 1 .. p
        BY <1>10, <3>1, <3>2
      <3>4. u.mem[n + Place(X, r)] = s.reg[r]
        BY <1>7 DEF Pushed, n
      <3> QED
        BY <1>12, <3>3, <3>4
    <2>6. X = RegsFor(SpilledCount(d), (d - a) - SpilledCount(d)) /\ c = (d - a) - SpilledCount(d)
      BY <1>2, <2>1 DEF X, c
    <2>7. Parked(s, t, stack, a)
      BY <1>12, <1>14, <2>1, <2>5, <2>6 DEF Parked, d, n, q
    <2> QED
      BY <1>3, <1>9, <2>4, <2>7
  <1>15. CASE a > WindowSize
    <2>1. c = 0 /\ base = bottom /\ m = w /\ p = n /\ q = n + w /\ d = bottom + w /\ w \in Nat
      BY <1>2, <1>10, <1>15 DEF c
    <2>2. RunPushed(s, t, bottom, w)
      <3>1. t.nz = s.nz
        BY <1>7, <1>8 DEF Pushed, RunPushed
      <3> QED
        BY <1>9, <1>12, <1>13, <2>1, <3>1 DEF RunPushed, n, q
    <2>3. InMem(t, stack, d)
      BY <1>1, <1>2, <2>1, <2>2, SpillMore
    <2>4. q = d + Saved(s) /\ Saved(t) = Saved(s)
      <3>1. Saved(t) = Saved(s)
        BY <1>9 DEF Saved, SameTracking
      <3>2. Saved(s) \in Nat
        BY <1>11
      <3>3. q = d + Saved(s)
        BY ONLY <1>4, <1>11, <2>1, <3>2
      <3> QED
        BY <3>1, <3>3
    <2>5. ASSUME NEW j \in 1 .. a
          PROVE  t.mem[(q - a) + j] = stack[(d - a) + j]
      <3> DEFINE k == (d - a) + (j - 1)
      <3> DEFINE n0 == s.proc.args
      <3>0. n0 \in Nat /\ d \in Nat /\ n0 + a <= d /\ j \in Nat /\ 1 <= j /\ j <= a
        BY <1>1 DEF d
      <3> HIDE DEF n0
      <3>1. k \in 0 .. d - 1 /\ k + 1 = (d - a) + j /\ k >= s.proc.args /\ k \in Nat
        BY ONLY <3>0, a \in Nat DEF n0
      <3>2. k >= InitialSpilled(t.proc)
        <4>1. InitialSpilled(s.proc) <= s.proc.args
          BY <1>1, SpilledCountIs DEF InitialSpilled
        <4>2. t.proc = s.proc
          BY <1>9 DEF SameTracking
        <4> QED
          BY <1>1, <1>11, <3>1, <4>1, <4>2
      <3>3. MemIndex(t, k) = (k + 1) + Saved(t)
        <4> HIDE DEF k
        <4> QED
          BY <3>1, <3>2 DEF MemIndex, Saved
      <3>4. (q - a) + j = (k + 1) + Saved(t)
        <4>1. Saved(s) \in Int
          BY <1>11
        <4> QED
          BY <1>1, <2>4, <4>1
      <3>5. t.mem[MemIndex(t, k)] = stack[k + 1]
        BY <2>3, <3>1 DEF InMem
      <3> QED
        BY <3>1, <3>3, <3>4, <3>5
    <2>6. a <= q
      BY <1>1, <1>11, <2>4
    <2>7. ArgsOnTop(t, stack, a)
      BY <1>1, <2>5, <2>6 DEF ArgsOnTop, q
    <2>8. Parked(s, t, stack, a)
      BY <1>15, <2>3 DEF Parked, d
    <2> QED
      BY <1>3, <1>9, <2>7, <2>8
  <1> QED
    BY <1>14, <1>15

(* The callee's side: FillCalleeArgs moves the arguments its window has room
   for to its registers, the others staying on top of the stack. *)
LEMMA FillCalleeArgsDoes ==
  ASSUME WindowSize \in Nat \ {0}, NEW s, IsState(s), NEW stack, NEW a \in Nat,
         ArgsOnTop(s, stack, a)
  PROVE  LET t == FillCalleeArgs(s, a)
         IN  /\ IsState(t) /\ t.tos = s.tos /\ t.proc = s.proc /\ SameAcc(s, t)
             /\ t.reg[ACC] = s.reg[ACC]
             /\ SpilledCount(a + 1) \in 0 .. a
             /\ Len(t.mem) = (Len(s.mem) - a) + SpilledCount(a + 1)
             /\ \A i \in 1 .. Len(t.mem) : t.mem[i] = s.mem[i]
             /\ \A k \in SpilledCount(a + 1) .. a - 1 :
                  t.reg[PhysReg(k)] = stack[(Len(stack) - a) + (k + 1)]
  <1> DEFINE m == Lower(a, WindowSize - 1)
             b == a - m
             p == PopRuns(s, b, m)
             t == Apply(p, Writes(RegsFor(b, m)))
             n == Len(s.mem)
  <1>1. /\ m \in 0 .. WindowSize /\ m \in Nat /\ b \in Nat /\ b = SpilledCount(a + 1)
        /\ a = b + m
    BY DEF Lower, SpilledCount
  <1>2. n \in Nat /\ a <= n
    BY LenProperties DEF IsState, ArgsOnTop
  <1>3. t = FillCalleeArgs(s, a)
    BY DEF FillCalleeArgs
  <1> HIDE DEF m, b
  <1>4. m <= n
    BY ONLY <1>1, <1>2, a \in Nat
  <1>5. RunPopped(s, p, b, m)
    BY <1>1, <1>4, PopRunsDoes DEF n
  <1> HIDE DEF p
  <1>6. IsState(p) /\ SameTracking(s, p)
    BY <1>5 DEF RunPopped
  <1>7. Marked(p, t)
    BY <1>6, WritesDoes
  <1> HIDE DEF t
  <1>8. ACC \in Registers \ RegsFor(b, m)
    BY <1>1, RegsAreRegs, RegsAreRegisters
  <1>9. /\ IsState(t) /\ t.tos = s.tos /\ t.proc = s.proc /\ SameAcc(s, t)
        /\ t.reg = p.reg /\ t.mem = p.mem /\ p.reg[ACC] = s.reg[ACC]
    BY <1>5, <1>6, <1>7, <1>8 DEF RunPopped, SameTracking, Marked, SameMachine, SameAcc
  <1>10. Len(p.mem) = n - m /\ \A i \in 1 .. Len(p.mem) : p.mem[i] = s.mem[i]
    BY <1>5 DEF RunPopped, n
  <1>11. n - m = (n - a) + b
    BY ONLY <1>1, <1>2, a \in Nat
  <1>12. ASSUME NEW k \in b .. a - 1
         PROVE  p.reg[PhysReg(k)] = stack[(Len(stack) - a) + (k + 1)]
    <2> DEFINE j == k - b
    <2>1. k \in Nat /\ j \in Nat /\ j \in 0 .. m - 1 /\ k = b + j
      BY ONLY <1>1, k \in b .. a - 1
    <2> HIDE DEF j
    <2>2. p.reg[PhysReg(k)] = s.mem[(n - m) + (j + 1)]
      BY <1>5, <1>10, <2>1 DEF RunPopped
    <2>3. (n - m) + (j + 1) = (n - a) + (k + 1)
      <3> HIDE DEF n
      <3>1. n \in Nat /\ a \in Nat /\ m \in Nat /\ b \in Nat
        BY <1>1, <1>2
      <3> QED
        BY ONLY <1>11, <2>1, <3>1
    <2>4. k + 1 \in 1 .. a
      BY ONLY <1>1, <2>1, k \in b .. a - 1, a \in Nat
    <2>5. s.mem[(n - a) + (k + 1)] = stack[(Len(stack) - a) + (k + 1)]
      BY <2>4 DEF ArgsOnTop, n
    <2> QED
      BY <2>2, <2>3, <2>5
  <1>13. b \in 0 .. a
    BY ONLY <1>1, a \in Nat
  <1> QED
    BY <1>1, <1>3, <1>9, <1>10, <1>11, <1>12, <1>13 DEF n

LEMMA LowerIs ==
  ASSUME WindowSize \in Nat \ {0}, NEW d \in Nat
  PROVE  d - Lower(d, WindowSize) = SpilledCount(d)
  BY DEF Lower, SpilledCount

LEMMA RegsWithin ==
  ASSUME WindowSize \in Nat \ {0}, NEW lo \in Nat, NEW b \in Nat, NEW c \in Nat,
         NEW hi \in Nat, lo <= b, b + c <= hi
  PROVE  RegsFor(b, c) \subseteq RegsFor(lo, hi - lo)
  BY DEF RegsFor

(* After the return, the arguments gone: what stays is where it was. *)
LEMMA ReloadAfterCallDoes ==
  ASSUME WindowSize \in Nat \ {0}, NEW s, IsState(s), NEW stack \in Seq(Values),
         Layout(s, stack), NEW a \in Nat, s.proc.args + a <= s.tos,
         NEW v, Parked(s, v, stack, a), IsState(v), v.proc = s.proc,
         NEW t, IsState(t), t.tos = s.tos, t.proc = s.proc, s.proc.savesLR,
         t.flags.kind # "ZeroOf",
         a <= Len(v.mem), Len(t.mem) = Len(v.mem) - a,
         \A i \in 1 .. Len(t.mem) : t.mem[i] = v.mem[i]
  PROVE  Lowered(t, ReloadAfterCall(t, s.tos - a), stack, s.tos - a)
  <1> DEFINE d == s.tos
             m == d - a
             bottom == t.tos - Lower(t.tos, WindowSize)
             floor == m - Lower(m, WindowSize)
             top == Lower(bottom, m)
             mine == IF m > bottom THEN Pop(t, RegsFor(bottom, m - bottom)) ELSE t
             R == RegsFor(floor, m - floor)
             u == Apply(PopRuns(mine, floor, top - floor), Writes(R))
  <1>1. /\ d \in Nat /\ Len(stack) = d /\ s.proc.args \in Nat /\ m \in Nat /\ d = m + a
        /\ s.proc.args <= m /\ m <= d
        /\ InMem(s, stack, SpilledCount(d)) /\ InRegs(s, stack, SpilledCount(d), d)
    BY LayoutIs DEF Layout
  <1>2. /\ bottom = SpilledCount(d) /\ floor = SpilledCount(m)
        /\ bottom \in Nat /\ floor \in Nat
    <2>1. bottom = d - Lower(d, WindowSize) /\ d \in Nat /\ m \in Nat
      BY <1>1
    <2> HIDE DEF m, d, bottom
    <2> QED
      BY ONLY <2>1, WindowSize \in Nat \ {0} DEF Lower, SpilledCount
  <1>3. ReloadAfterCall(t, m) = [u EXCEPT !.tos = m]
    BY DEF ReloadAfterCall
  <1> HIDE DEF bottom, floor, m, d
  <1>a. SpilledCount(s.proc.args) \in Nat /\ SpilledCount(s.proc.args) <= s.proc.args
        /\ SpilledCount(s.proc.args) <= floor
    <2> DEFINE x == s.proc.args
    <2>1. x \in Nat /\ x <= m /\ m \in Nat
      BY <1>1
    <2> HIDE DEF x
    <2>2. SpilledCount(x) \in Nat /\ SpilledCount(x) <= x /\ SpilledCount(x) <= floor
      BY ONLY <1>2, <2>1, WindowSize \in Nat \ {0} DEF SpilledCount
    <2> QED
      BY <2>2 DEF x
  <1>b. floor <= bottom /\ floor <= m /\ m <= floor + WindowSize /\ d <= bottom + WindowSize
    BY <1>1, <1>2, SpilledCountIs
  <1>4. floor <= bottom /\ floor <= m /\ InitialSpilled(s.proc) <= floor
        /\ m <= floor + WindowSize /\ d <= bottom + WindowSize
        /\ InitialSpilled(s.proc) \in Nat /\ InitialSpilled(s.proc) <= s.proc.args
    BY <1>a, <1>b DEF InitialSpilled
  <1>5. top \in Nat /\ floor <= top /\ top <= m /\ (top = IF bottom < m THEN bottom ELSE m)
    BY ONLY <1>1, <1>2, <1>4 DEF Lower
  <1> HIDE DEF top
  <1>6. /\ IsState(mine) /\ mine.proc = s.proc
        /\ mine.nz = t.nz /\ mine.lr = t.lr /\ SameAcc(t, mine) /\ mine.flags = t.flags
        /\ \A q \in Registers \ RegsFor(floor, m - floor) : mine.reg[q] = t.reg[q]
        /\ InMem(mine, stack, top) /\ InRegs(mine, stack, top, m)
    <2>1. CASE a <= WindowSize
      <3> DEFINE c == m - bottom
                 X == RegsFor(bottom, c)
      <3>1. /\ Len(v.mem) - a = Len(s.mem) + c
            /\ \A i \in 1 .. Len(s.mem) : v.mem[i] = s.mem[i]
            /\ \A r \in X : v.mem[Len(s.mem) + Place(X, r)] = s.reg[r]
        BY <1>2, <2>1 DEF Parked, d, m
      <3>2. bottom <= m
        <4>1. bottom = 0 \/ d = bottom + WindowSize
          BY <1>1, <1>2 DEF SpilledCount
        <4> QED
          BY ONLY <1>1, <1>2, <2>1, <4>1, a \in Nat, WindowSize \in Nat \ {0}
      <3>3. c \in Nat /\ c \in 0 .. WindowSize /\ m = bottom + c /\ top = bottom
        <4>1. c \in Nat /\ m = bottom + c
          BY ONLY <1>1, <1>2, <3>2
        <4>2. m <= bottom + WindowSize
          BY ONLY <1>1, <1>2, <1>4, WindowSize \in Nat \ {0}
        <4>3. c <= WindowSize
          BY ONLY <1>1, <1>2, <4>2, WindowSize \in Nat \ {0}
        <4>4. top = bottom
          BY ONLY <1>1, <1>2, <1>5, <3>2
        <4> QED
          BY <4>1, <4>3, <4>4
      <3>4. Len(s.mem) = bottom + Saved(s) /\ Saved(s) \in {0, 1} /\ Len(s.mem) \in Nat
        BY <1>1, <1>2, InMemLength
      <3>5. Len(t.mem) = Len(s.mem) + c
        BY <3>1
      <3> HIDE DEF c
      <3>6. CASE m > bottom
        <4>1. IsFiniteSet(X) /\ Cardinality(X) = c /\ X \subseteq Registers
          BY <1>2, <3>3, RegsCount, RegsAreRegs, RegsAreRegisters
        <4>2. c <= Len(t.mem)
          BY ONLY <3>3, <3>4, <3>5
        <4> HIDE DEF X
        <4>3. Popped(t, Pop(t, X), X)
          BY <3>5, <4>1, <4>2, PopDoes
        <4>4. mine = Pop(t, X)
          BY <3>6 DEF X, c
        <4> HIDE DEF mine
        <4>5. Popped(t, mine, X)
          BY <4>3, <4>4
        <4>6. Len(mine.mem) = Len(s.mem)
          <5>1. Len(mine.mem) = Len(t.mem) - c
            BY <4>1, <4>5 DEF Popped
          <5> QED
            BY ONLY <3>3, <3>4, <3>5, <5>1
        <4>7. ASSUME NEW i \in 1 .. Len(s.mem) PROVE mine.mem[i] = s.mem[i]
          <5>1. i \in 1 .. Len(t.mem)
            BY ONLY <3>3, <3>4, <3>5, i \in 1 .. Len(s.mem)
          <5> QED
            BY <3>1, <4>5, <4>6, <5>1 DEF Popped
        <4>8. ASSUME NEW r \in X PROVE mine.reg[r] = s.reg[r]
          <5>1. X \subseteq Int /\ Place(X, r) \in 1 .. c
            BY <3>3, <4>1, PlaceIsInside, RegsAreRegisters
          <5>2. Len(s.mem) + Place(X, r) \in 1 .. Len(t.mem)
            BY ONLY <3>3, <3>4, <3>5, <5>1
          <5>3. mine.reg[r] = t.mem[Len(s.mem) + Place(X, r)]
            BY <4>5, <4>6 DEF Popped
          <5> QED
            BY <3>1, <5>2, <5>3
        <4>9. InMem(mine, stack, bottom)
          <5>1. mine.proc = s.proc
            BY <4>5 DEF Popped, SameTracking
          <5>2. 0 + InitialSpilled(s.proc) <= bottom /\ bottom - 0 = bottom /\ 0 \in Nat
                /\ Len(mine.mem) = Len(s.mem) - 0
            BY <1>2, <1>4, <3>4, <4>6
          <5>3. InMem(mine, stack, bottom - 0)
            BY <1>1, <1>2, <4>6, <4>7, <5>1, <5>2, MemShrinks
          <5> QED
            BY <5>2, <5>3
        <4>10. ASSUME NEW k \in bottom .. m - 1
               PROVE  mine.reg[PhysReg(k)] = stack[k + 1]
          <5>1. k - bottom \in 0 .. c - 1 /\ k = bottom + (k - bottom) /\ k \in Nat
            BY ONLY <1>2, <3>3, k \in bottom .. m - 1
          <5>2. PhysReg(k) \in X
            BY <1>2, <3>3, <5>1, RegsAreRegs DEF X
          <5>3. k \in bottom .. d - 1
            BY ONLY <1>1, <1>2, <5>1, k \in bottom .. m - 1
          <5>4. s.reg[PhysReg(k)] = stack[k + 1]
            BY <1>1, <1>2, <5>3 DEF InRegs
          <5> QED
            BY <4>8, <5>2, <5>4
        <4>11. InRegs(mine, stack, bottom, m)
          BY <4>10 DEF InRegs
        <4>12. X \subseteq RegsFor(floor, m - floor)
          <5>1. floor <= bottom /\ bottom + c <= m /\ c \in Nat /\ m \in Nat
            BY <1>1, <1>4, <3>3
          <5> QED
            BY <1>2, <5>1, RegsWithin DEF X
        <4>13. \A q \in Registers \ RegsFor(floor, m - floor) : mine.reg[q] = t.reg[q]
          BY <4>5, <4>12 DEF Popped
        <4> QED
          BY <3>3, <4>5, <4>9, <4>11, <4>13 DEF Popped, SameTracking, SameAcc
      <3>7. CASE ~ m > bottom
        <4>1. mine = t /\ m = bottom /\ c = 0
          BY <1>1, <1>2, <3>2, <3>3, <3>7
        <4> HIDE DEF mine
        <4>2. Len(t.mem) = Len(s.mem)
          BY <3>4, <3>5, <4>1, Len(s.mem) + 0 = Len(s.mem)
        <4>3. \A i \in 1 .. Len(t.mem) : t.mem[i] = s.mem[i]
          BY <3>1, <4>2
        <4>4. InMem(t, stack, bottom)
          <5>1. 0 + InitialSpilled(s.proc) <= bottom /\ bottom - 0 = bottom /\ 0 \in Nat
                /\ Len(t.mem) = Len(s.mem) - 0
            BY ONLY <1>2, <1>4, <3>4, <4>2
          <5>2. InMem(t, stack, bottom - 0)
            BY <1>1, <1>2, <4>3, <5>1, MemShrinks
          <5> QED
            BY <5>1, <5>2
        <4>5. InRegs(t, stack, bottom, m)
          BY <1>2, <4>1 DEF InRegs
        <4> QED
          BY <3>3, <4>1, <4>4, <4>5 DEF SameAcc
      <3> QED
        BY <3>6, <3>7
    <2>2. CASE a > WindowSize
      <3>1. InMem(v, stack, d)
        BY <2>2 DEF Parked, d
      <3>2. /\ ~ m > bottom /\ top = m
        <4>1. d = bottom + WindowSize
          BY <1>1, <1>2, <2>2 DEF SpilledCount
        <4>2. m < bottom
          BY ONLY <1>1, <1>2, <2>2, <4>1, a \in Nat, WindowSize \in Nat \ {0}
        <4> QED
          BY ONLY <1>1, <1>2, <1>5, <4>2
      <3>3. mine = t
        BY <3>2
      <3> HIDE DEF mine
      <3>4. d - a = m /\ a + InitialSpilled(v.proc) <= d
        <4>1. m + a = d /\ InitialSpilled(s.proc) <= m
          BY <1>1, <1>4
        <4> QED
          BY <1>1, <1>4, <4>1
      <3>5. t.proc = v.proc
        OBVIOUS
      <3>6. InMem(t, stack, d - a)
        BY <3>1, <3>4, <3>5, MemShrinks
      <3>7. InRegs(t, stack, m, m)
        BY <1>1 DEF InRegs
      <3> QED
        BY <3>2, <3>3, <3>4, <3>6, <3>7 DEF SameAcc
    <2> QED
      BY <2>1, <2>2, WindowSize \in Nat \ {0}, a \in Nat
  <1> HIDE DEF mine
  <1>7. /\ R \subseteq PhysRegs
        /\ RegsFor(floor, top - floor) \subseteq R
    <2>1. m - floor \in Nat /\ top - floor \in Nat
      BY ONLY <1>1, <1>2, <1>4, <1>5
    <2>2. R \subseteq PhysRegs
      BY <1>2, <2>1, RegsAreRegs
    <2>3. floor + (top - floor) <= m
      BY ONLY <1>1, <1>2, <1>5
    <2>4. RegsFor(floor, top - floor) \subseteq R
      BY <1>1, <1>2, <2>1, <2>3, RegsWithin
    <2> QED
      BY <2>2, <2>4
  <1>8. Lowered(mine, [u EXCEPT !.tos = m], stack, m)
    <2> HIDE DEF u, R
    <2>1. m <= Len(stack) /\ mine.proc.args <= m /\ (~ mine.proc.savesLR => mine.lr = Record)
      BY <1>1, <1>6
    <2> QED
      BY <1>1, <1>2, <1>5, <1>6, <1>7, <2>1, ReloadDoes DEF u, R
  <1> HIDE DEF u
  <1>9. FlagsOk(mine)
    BY <1>6 DEF FlagsOk
  <1>10. \A q \in Registers \ PhysRegs : mine.reg[q] = t.reg[q]
    BY <1>6, <1>7
  <1>11. Lowered(t, [u EXCEPT !.tos = m], stack, m)
    BY <1>6, <1>8, <1>9, <1>10 DEF Lowered, SameAcc
  <1> QED
    BY <1>3, <1>11 DEF m, d
=============================================================================
