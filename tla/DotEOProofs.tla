----------------------------- MODULE DotEOProofs -----------------------------
(***************************************************************************)
(* Proofs about DotEO for every lane count, count and offset: the loop     *)
(* invariant DInv (each accumulator holds exactly the products of its      *)
(* quarter of the elements below the index), what the loop returns for    *)
(* every count the assertion admits, and, for even numbers of 2*N32        *)
(* blocks, that it returns the dot product.                                *)
(***************************************************************************)
EXTENDS DotEO, TLAPS

USE LanesAssumption, BlocksAssumption, OfsAssumption

-----------------------------------------------------------------------------
(* Arithmetic.                                                             *)

(* Quotient and remainder are the only ones: k = q*m + r with r < m.       *)
LEMMA DivModUnique ==
    ASSUME NEW k \in Nat, NEW m \in Nat \ {0}, NEW q \in Nat,
           NEW r \in 0..(m - 1), k = q * m + r
    PROVE  k \div m = q /\ k % m = r
<1> DEFINE q0 == k \div m
           r0 == k % m
<1>1. k = q0 * m + r0 /\ r0 \in 0..(m - 1) /\ q0 \in Nat
  OBVIOUS
<1>2. q0 = q
  <2>1. CASE q0 >= q + 1
    <3>1. q0 * m >= q * m + m
      BY <2>1
    <3>2. QED
      BY <1>1, <3>1
  <2>2. CASE q >= q0 + 1
    <3>1. q * m >= q0 * m + m
      BY <2>2
    <3>2. QED
      BY <1>1, <3>1
  <2>3. QED
    BY <2>1, <2>2
<1>3. QED
  BY <1>1, <1>2

(* Quotient and remainder of x by m.                                       *)
LEMMA DivModFacts ==
    ASSUME NEW x \in Nat, NEW m \in Nat \ {0}
    PROVE  /\ x \div m \in Nat /\ (x % m) \in 0..(m - 1)
           /\ x = (x \div m) * m + (x % m)
OBVIOUS

(* A number that m divides is a multiple of m.                            *)
LEMMA MultipleOf ==
    ASSUME NEW x \in Nat, NEW m \in Nat \ {0}, x % m = 0
    PROVE  \E t \in Nat : x = t * m
<1>1. x \div m \in Nat /\ x = (x \div m) * m + (x % m)
  BY DivModFacts
<1>2. QED
  BY <1>1

(* A multiple a * m that fits under x has a at most x \div m.              *)
LEMMA DivBound ==
    ASSUME NEW x \in Nat, NEW a \in Nat, NEW m \in Nat \ {0}, a * m <= x
    PROVE  a <= x \div m
<1> DEFINE q == x \div m
<1>1. x = q * m + (x % m) /\ x % m \in 0..(m - 1) /\ q \in Nat
  OBVIOUS
<1>2. SUFFICES ASSUME a >= q + 1 PROVE FALSE
  BY <1>1
<1>3. a * m >= q * m + m
  BY <1>2
<1>4. QED
  BY <1>1, <1>3

-----------------------------------------------------------------------------
(* Bags of sets.                                                           *)

(* Adding the bags of two disjoint sets gives the bag of their union: no   *)
(* element is counted twice.                                               *)
LEMMA BagOfUnion ==
    ASSUME NEW S, NEW T, S \cap T = {}
    PROVE  SetToBag(S) (+) SetToBag(T) = SetToBag(S \cup T)
BY DEF SetToBag, \oplus

(* The bag of a set is a bag whose elements are the set's.                 *)
LEMMA SetToBagFacts ==
    ASSUME NEW S
    PROVE  IsABag(SetToBag(S)) /\ BagToSet(SetToBag(S)) = S
BY DEF SetToBag, IsABag, BagToSet

-----------------------------------------------------------------------------
(* The layout of one loop iteration.                                       *)

(* The widths the loop runs with: N32 lanes, N = 2 * N32 bf16 lanes, and  *)
(* a stride of 2N per iteration.                                           *)
LEMMA WidthFacts ==
    ASSUME n32 \in Nat \ {0}
    PROVE  /\ Lanes16 \in Nat \ {0} /\ Stride \in Nat \ {0}
           /\ Lanes16 = 2 * n32 /\ Stride = 2 * Lanes16 /\ Lanes16 \div 2 = n32
BY DEF Lanes16, Stride

(* The count and the offset DInv admits are in Nat.                       *)
LEMMA ConstFacts ==
    ASSUME DInv
    PROVE  n32 \in Nat \ {0} /\ num \in Nat /\ ofs \in Nat
<1>1. n32 \in Nat \ {0}
  BY DEF DInv
<1>2. PICK b \in Blocks : num = b * 2 * n32
  BY DEF DInv
<1>3. PICK c \in OfsBlocks : ofs = c * 2 * n32
  BY DEF DInv
<1>4. QED
  BY <1>1, <1>2, <1>3

(* The lanes of one bf16 vector at base: PromoteEvenTo (e = 0) or          *)
(* PromoteOddTo (e = 1) pairs matrix element base + 2j + e with vector     *)
(* element base + e * N32 + j.                                             *)
Lanes(e, base) == {<<ofs + base + 2 * j + e, base + e * n32 + j>> : j \in 0..(n32 - 1)}

LEMMA LanesIs ==
    ASSUME n32 \in Nat \ {0}, ofs \in Nat, NEW base \in Nat
    PROVE  EvenLanes(base) = Lanes(0, base) /\ OddLanes(base) = Lanes(1, base)
<1>1. Lanes16 \div 2 = n32
  BY DEF Lanes16
<1>2. EvenLanes(base) = Lanes(0, base)
  <2>1. ASSUME NEW x \in EvenLanes(base) PROVE x \in Lanes(0, base)
    <3>1. PICK j \in 0..(n32 - 1) : x = <<ofs + base + 2 * j, base + j>>
      BY <2>1 DEF EvenLanes
    <3>2. x = <<ofs + base + 2 * j + 0, base + 0 * n32 + j>>
      BY <3>1
    <3>3. QED
      BY <3>2 DEF Lanes
  <2>2. ASSUME NEW x \in Lanes(0, base) PROVE x \in EvenLanes(base)
    <3>1. PICK j \in 0..(n32 - 1) : x = <<ofs + base + 2 * j + 0, base + 0 * n32 + j>>
      BY <2>2 DEF Lanes
    <3>2. x = <<ofs + base + 2 * j, base + j>>
      BY <3>1
    <3>3. QED
      BY <3>2 DEF EvenLanes
  <2>3. QED
    BY <2>1, <2>2
<1>3. OddLanes(base) = Lanes(1, base)
  <2>1. ASSUME NEW x \in OddLanes(base) PROVE x \in Lanes(1, base)
    <3>1. PICK j \in 0..(n32 - 1) : x = <<ofs + base + 2 * j + 1, base + Lanes16 \div 2 + j>>
      BY <2>1 DEF OddLanes
    <3>2. x = <<ofs + base + 2 * j + 1, base + 1 * n32 + j>>
      BY <1>1, <3>1
    <3>3. QED
      BY <3>2 DEF Lanes
  <2>2. ASSUME NEW x \in Lanes(1, base) PROVE x \in OddLanes(base)
    <3>1. PICK j \in 0..(n32 - 1) : x = <<ofs + base + 2 * j + 1, base + 1 * n32 + j>>
      BY <2>2 DEF Lanes
    <3>2. x = <<ofs + base + 2 * j + 1, base + Lanes16 \div 2 + j>>
      BY <1>1, <3>1
    <3>3. QED
      BY <3>2 DEF OddLanes
  <2>3. QED
    BY <2>1, <2>2
<1>4. QED
  BY <1>2, <1>3

(* An offset r inside two bf16 vectors of 2n lanes each is hN + 2j + e:   *)
(* vector h, lane pair j, even or odd lane e.                              *)
LEMMA SplitOffset ==
    ASSUME NEW n \in Nat \ {0}, NEW r \in 0..(4 * n - 1)
    PROVE  \E h \in 0..1, e \in 0..1, j \in 0..(n - 1) : r = h * (2 * n) + 2 * j + e
<1>1. CASE r < 2 * n
  <2>1. r = 0 * (2 * n) + 2 * (r \div 2) + (r % 2) /\ r % 2 \in 0..1
        /\ r \div 2 \in 0..(n - 1)
    BY <1>1
  <2>2. QED
    BY <2>1
<1>2. CASE r >= 2 * n
  <2> DEFINE s == r - 2 * n
  <2>1. s \in 0..(2 * n - 1)
    BY <1>2
  <2>2. r = 1 * (2 * n) + 2 * (s \div 2) + (s % 2) /\ s % 2 \in 0..1
        /\ s \div 2 \in 0..(n - 1)
    BY <2>1
  <2>3. QED
    BY <2>2
<1>3. QED
  BY <1>1, <1>2

(* Element 2tL + hL + s lies in a vector of L lanes of parity h, at lane  *)
(* s of it.                                                                *)
LEMMA LaneDiv ==
    ASSUME NEW L \in Nat \ {0}, NEW t \in Nat, NEW h \in 0..1, NEW s \in 0..(L - 1)
    PROVE  /\ ((2 * t * L + h * L + s) \div L) % 2 = h
           /\ (2 * t * L + h * L + s) % L = s
<1>1. 2 * t * L + h * L + s = (2 * t + h) * L + s /\ 2 * t + h \in Nat
      /\ 2 * t * L + h * L + s \in Nat
  OBVIOUS
<1>2. (2 * t * L + h * L + s) \div L = 2 * t + h /\ (2 * t * L + h * L + s) % L = s
  BY <1>1, DivModUnique
<1>3. (2 * t + h) % 2 = h
  BY DivModUnique
<1>4. QED
  BY <1>2, <1>3

(* An iteration starts at a multiple of 2N.                                *)
Start(ix) == ix \in Nat /\ \E t \in Nat : ix = t * Stride

(* Element k = i + hN + 2j + e of an iteration that starts at a multiple i *)
(* of 2N has parity e, lies in a bf16 vector of parity h and sits at       *)
(* i + hN + e*N32 + j in the deinterleaved vector.                        *)
LEMMA BlockTerm ==
    ASSUME n32 \in Nat \ {0}, NEW ix \in Nat, Start(ix),
           NEW h \in 0..1, NEW e \in 0..1, NEW j \in 0..(n32 - 1)
    PROVE  /\ (ix + h * Lanes16 + 2 * j + e) % 2 = e
           /\ ((ix + h * Lanes16 + 2 * j + e) \div Lanes16) % 2 = h
           /\ VecPos(ix + h * Lanes16 + 2 * j + e) = ix + h * Lanes16 + e * n32 + j
<1> DEFINE k == ix + h * Lanes16 + 2 * j + e
<1> PICK t \in Nat : ix = t * Stride
  BY DEF Start
<1>1. Lanes16 \in Nat \ {0} /\ Stride \in Nat \ {0}
  BY WidthFacts
<1>2. Lanes16 = 2 * n32 /\ Stride = 2 * Lanes16 /\ Lanes16 \div 2 = n32
  BY WidthFacts
<1>4. k = 2 * t * Lanes16 + h * Lanes16 + (2 * j + e) /\ 2 * j + e \in 0..(Lanes16 - 1)
  BY <1>1, <1>2
<1>5. /\ ((2 * t * Lanes16 + h * Lanes16 + (2 * j + e)) \div Lanes16) % 2 = h
      /\ (2 * t * Lanes16 + h * Lanes16 + (2 * j + e)) % Lanes16 = 2 * j + e
  BY <1>1, <1>4, LaneDiv
<1>6. (k \div Lanes16) % 2 = h /\ (k % Lanes16) = 2 * j + e
  BY <1>4, <1>5
<1>7. (k \div Lanes16) * Lanes16 = k - (2 * j + e)
  <2>1. k \in Nat
    BY <1>1, <1>4
  <2>2. k = (k \div Lanes16) * Lanes16 + (k % Lanes16)
    BY <1>1, <2>1, DivModFacts
  <2>3. QED
    BY <1>1, <2>1, <2>2, <1>6
<1>8. k % 2 = e
  <2>1. k = (t * Lanes16 + h * n32 + j) * 2 + e /\ t * Lanes16 + h * n32 + j \in Nat
    BY <1>1, <1>2
  <2>2. QED
    BY <2>1, DivModUnique
<1>9. (2 * j + e) \div 2 = j
  BY DivModUnique
<1>10. QED
  BY <1>2, <1>6, <1>7, <1>8, <1>9 DEF VecPos

(* Every element of the iteration at i is of that form.                   *)
LEMMA BlockSplit ==
    ASSUME n32 \in Nat \ {0}, NEW ix \in Nat, NEW k \in ix..(ix + 2 * Lanes16 - 1)
    PROVE  \E h \in 0..1, e \in 0..1, j \in 0..(n32 - 1) :
               k = ix + h * Lanes16 + 2 * j + e
<1>1. Lanes16 = 2 * n32 /\ k - ix \in 0..(4 * n32 - 1)
  BY DEF Lanes16
<1>2. \E h \in 0..1, e \in 0..1, j \in 0..(n32 - 1) : k - ix = h * (2 * n32) + 2 * j + e
  BY <1>1, SplitOffset
<1>3. QED
  BY <1>1, <1>2

-----------------------------------------------------------------------------
(* The accumulators.                                                       *)

(* Products are pairs of addresses; the first is the matrix element, so    *)
(* different elements give different products.                            *)
LEMMA TermFacts ==
    ASSUME n32 \in Nat \ {0}, ofs \in Nat, NEW k \in Nat
    PROVE  Term(k) \in Nat \X Nat /\ Term(k)[1] = ofs + k
<1>1. Lanes16 \in Nat \ {0}
  BY WidthFacts
<1>2. k \div Lanes16 \in Nat /\ (k % Lanes16) \in Nat /\ Lanes16 \div 2 \in Nat
  BY <1>1, DivModFacts
<1>3. (k \div Lanes16) * Lanes16 \in Nat /\ (k % Lanes16) \div 2 \in Nat
  BY <1>1, <1>2
<1>4. VecPos(k) \in Nat
  BY <1>2, <1>3 DEF VecPos
<1>5. QED
  BY <1>4 DEF Term

(* What is in a part.                                                      *)
LEMMA PartIff ==
    ASSUME NEW e, NEW h, NEW n, NEW x
    PROVE  x \in Part(e, h, n) <=>
             \E k \in 0..(n - 1) : k % 2 = e /\ (k \div Lanes16) % 2 = h /\ x = Term(k)
BY Zenon DEF Part

(* A product of the right parity and vector parity below n is in the part. *)
LEMMA PartIn ==
    ASSUME NEW e, NEW h, NEW n \in Nat, NEW k \in Nat, k < n,
           k % 2 = e, (k \div Lanes16) % 2 = h
    PROVE  Term(k) \in Part(e, h, n)
<1>1. k \in 0..(n - 1)
  OBVIOUS
<1>2. QED
  BY <1>1, Zenon DEF Part

(* The parts of different accumulators never share a product.              *)
LEMMA PartDisjoint ==
    ASSUME n32 \in Nat \ {0}, ofs \in Nat, NEW n,
           NEW e1, NEW h1, NEW e2, NEW h2, e1 # e2 \/ h1 # h2
    PROVE  Part(e1, h1, n) \cap Part(e2, h2, n) = {}
<1> SUFFICES ASSUME NEW x \in Part(e1, h1, n), x \in Part(e2, h2, n) PROVE FALSE
  OBVIOUS
<1>1. PICK k1 \in 0..(n - 1) : k1 % 2 = e1 /\ (k1 \div Lanes16) % 2 = h1 /\ x = Term(k1)
  BY Zenon DEF Part
<1>2. PICK k2 \in 0..(n - 1) : k2 % 2 = e2 /\ (k2 \div Lanes16) % 2 = h2 /\ x = Term(k2)
  BY Zenon DEF Part
<1>3. k1 \in Nat /\ k2 \in Nat
  OBVIOUS
<1>4. Term(k1)[1] = ofs + k1 /\ Term(k2)[1] = ofs + k2
  BY <1>3, TermFacts
<1>5. k1 = k2
  BY <1>1, <1>2, <1>3, <1>4
<1>6. QED
  BY <1>1, <1>2, <1>5

(* The four parts together are every product below n.                      *)
LEMMA PartCover ==
    ASSUME n32 \in Nat \ {0}, NEW n \in Nat
    PROVE  (Part(0, 0, n) \cup Part(1, 0, n)) \cup (Part(0, 1, n) \cup Part(1, 1, n))
             = Upto(n)
<1>1. Lanes16 \in Nat \ {0}
  BY WidthFacts
<1>2. ASSUME NEW x \in Upto(n)
      PROVE  x \in (Part(0, 0, n) \cup Part(1, 0, n)) \cup (Part(0, 1, n) \cup Part(1, 1, n))
  <2>1. PICK k \in 0..(n - 1) : x = Term(k)
    BY <1>2 DEF Upto
  <2>2. (k % 2) \in 0..1 /\ ((k \div Lanes16) % 2) \in 0..1
    BY <1>1, DivModFacts
  <2>3. QED
    BY <2>1, <2>2 DEF Part
<1>3. QED
  BY <1>2 DEF Part, Upto

(* One iteration at a multiple i of 2N adds to part (e, h) exactly the     *)
(* lanes of the bf16 vector i + hN that PromoteEvenTo (e = 0) or           *)
(* PromoteOddTo (e = 1) produces, and none of them was there before.       *)
LEMMA PartStep ==
    ASSUME n32 \in Nat \ {0}, ofs \in Nat, NEW ix \in Nat, Start(ix),
           NEW e \in 0..1, NEW h \in 0..1
    PROVE  /\ Part(e, h, ix + Stride) = Part(e, h, ix) \cup Lanes(e, ix + h * Lanes16)
           /\ Part(e, h, ix) \cap Lanes(e, ix + h * Lanes16) = {}
<1>1. Lanes16 \in Nat \ {0} /\ Stride \in Nat \ {0} /\ Stride = 2 * Lanes16
      /\ Lanes16 = 2 * n32 /\ ix \in Nat
  BY WidthFacts DEF Start
<1>2. Part(e, h, ix + Stride) \subseteq Part(e, h, ix) \cup Lanes(e, ix + h * Lanes16)
  <2> SUFFICES ASSUME NEW x, x \in Part(e, h, ix + Stride)
               PROVE  x \in Part(e, h, ix) \cup Lanes(e, ix + h * Lanes16)
    OBVIOUS
  <2>1. PICK k \in 0..(ix + Stride - 1) :
            k % 2 = e /\ (k \div Lanes16) % 2 = h /\ x = Term(k)
    BY <1>1, PartIff
  <2>2. CASE k < ix
    <3>1. k \in 0..(ix - 1)
      BY <1>1, <2>1, <2>2
    <3>2. QED
      BY <1>1, <2>1, <3>1, PartIff
  <2>3. CASE k >= ix
    <3>1. k \in ix..(ix + 2 * Lanes16 - 1)
      BY <1>1, <2>1, <2>3
    <3>2. PICK h2 \in 0..1, e2 \in 0..1, j \in 0..(n32 - 1) :
              k = ix + h2 * Lanes16 + 2 * j + e2
      BY <1>1, <3>1, BlockSplit
    <3>3. /\ k % 2 = e2 /\ (k \div Lanes16) % 2 = h2
          /\ VecPos(k) = ix + h2 * Lanes16 + e2 * n32 + j
      BY ONLY <3>2, BlockTerm, n32 \in Nat \ {0}, ix \in Nat, Start(ix),
              h2 \in 0..1, e2 \in 0..1, j \in 0..(n32 - 1)
    <3>4. e2 = e /\ h2 = h
      BY <2>1, <3>3
    <3>5. x = <<ofs + (ix + h * Lanes16) + 2 * j + e, (ix + h * Lanes16) + e * n32 + j>>
      BY <1>1, <2>1, <3>2, <3>3, <3>4 DEF Term
    <3>6. QED
      BY <3>5 DEF Lanes
  <2>4. QED
    BY <2>2, <2>3
<1>3. Part(e, h, ix) \subseteq Part(e, h, ix + Stride)
  <2> SUFFICES ASSUME NEW x, x \in Part(e, h, ix) PROVE x \in Part(e, h, ix + Stride)
    OBVIOUS
  <2>1. PICK k \in 0..(ix - 1) : k % 2 = e /\ (k \div Lanes16) % 2 = h /\ x = Term(k)
    BY <1>1, PartIff
  <2>2. k \in Nat /\ k < ix + Stride /\ ix + Stride \in Nat
    BY <1>1
  <2>3. Term(k) \in Part(e, h, ix + Stride)
    BY <2>1, <2>2, PartIn
  <2>4. QED
    BY <2>1, <2>3
<1>4. ASSUME NEW x, x \in Lanes(e, ix + h * Lanes16) PROVE x \in Part(e, h, ix + Stride)
  <2>1. PICK j \in 0..(n32 - 1) :
            x = <<ofs + (ix + h * Lanes16) + 2 * j + e, (ix + h * Lanes16) + e * n32 + j>>
    BY <1>4 DEF Lanes
  <2> DEFINE k == ix + h * Lanes16 + 2 * j + e
  <2>2. /\ k % 2 = e /\ (k \div Lanes16) % 2 = h
        /\ VecPos(k) = ix + h * Lanes16 + e * n32 + j
    BY ONLY BlockTerm, n32 \in Nat \ {0}, ix \in Nat, Start(ix),
            h \in 0..1, e \in 0..1, j \in 0..(n32 - 1)
  <2>3. h * Lanes16 \in Nat /\ k \in 0..(ix + Stride - 1)
    BY <1>1
  <2>4. x = Term(k)
    BY <1>1, <2>1, <2>2, <2>3 DEF Term
  <2>5. k \in Nat /\ k < ix + Stride /\ ix + Stride \in Nat
    BY <1>1, <2>3
  <2>6. Term(k) \in Part(e, h, ix + Stride)
    BY <2>2, <2>5, PartIn
  <2>7. QED
    BY <2>4, <2>6
<1>5. Part(e, h, ix) \cap Lanes(e, ix + h * Lanes16) = {}
  <2> SUFFICES ASSUME NEW x, x \in Part(e, h, ix), x \in Lanes(e, ix + h * Lanes16)
               PROVE  FALSE
    OBVIOUS
  <2>1. PICK k \in 0..(ix - 1) : x = Term(k)
    BY <1>1, PartIff
  <2>2. PICK j \in 0..(n32 - 1) :
            x = <<ofs + (ix + h * Lanes16) + 2 * j + e, (ix + h * Lanes16) + e * n32 + j>>
    BY DEF Lanes
  <2>3. k \in Nat /\ x[1] = ofs + k
    BY <2>1, TermFacts
  <2>4. h * Lanes16 \in Nat /\ x[1] = ofs + (ix + h * Lanes16) + 2 * j + e
    BY <1>1, <2>2
  <2>5. QED
    BY <1>1, <2>1, <2>3, <2>4
<1>6. QED
  BY <1>2, <1>3, <1>4, <1>5

(* Iteration i adds to sum_{e + 2h} the bag of the lanes at i + hN and so  *)
(* makes it the bag of the part below i + 2N: nothing is added twice.     *)
LEMMA AccStep ==
    ASSUME n32 \in Nat \ {0}, ofs \in Nat, NEW ix \in Nat, Start(ix),
           NEW e \in 0..1, NEW h \in 0..1, NEW base, base = ix + h * Lanes16
    PROVE  SetToBag(Part(e, h, ix)) (+) SetToBag(Lanes(e, base))
             = SetToBag(Part(e, h, ix + Stride))
<1>1. /\ Part(e, h, ix + Stride) = Part(e, h, ix) \cup Lanes(e, base)
      /\ Part(e, h, ix) \cap Lanes(e, base) = {}
  BY PartStep
<1>2. QED
  BY <1>1, BagOfUnion

-----------------------------------------------------------------------------
(* Where the loop stops.                                                   *)

(* Reach is a multiple of 2N at or past num, less than 2N past it.        *)
LEMMA ReachFacts ==
    ASSUME n32 \in Nat \ {0}, num \in Nat
    PROVE  /\ Reach \in Nat /\ num <= Reach /\ Reach < num + Stride
           /\ (Reach \div Stride) \in Nat /\ Reach = (Reach \div Stride) * Stride
<1>1. Stride \in Nat \ {0}
  BY WidthFacts
<1> DEFINE x == num + Stride - 1
           q == x \div Stride
<1>2. x \in Nat
  BY <1>1
<1>3. q \in Nat /\ (x % Stride) \in 0..(Stride - 1) /\ x = q * Stride + (x % Stride)
  BY <1>1, <1>2, DivModFacts
<1>4. Reach = q * Stride
  BY DEF Reach
<1>5. q * Stride \in Nat /\ num <= q * Stride /\ q * Stride < num + Stride
  BY <1>1, <1>3
<1>6. (q * Stride) \div Stride = q
  BY <1>1, <1>5, DivModUnique
<1>7. QED
  BY <1>3, <1>4, <1>5, <1>6

(* An index at a multiple of 2N below num can take one more step without  *)
(* passing Reach.                                                          *)
LEMMA ReachStep ==
    ASSUME n32 \in Nat \ {0}, num \in Nat, NEW ix \in Nat, Start(ix), ix < num
    PROVE  ix + Stride <= Reach
<1>1. Stride \in Nat \ {0}
  BY WidthFacts
<1>2. PICK t \in Nat : ix = t * Stride
  BY DEF Start
<1>3. PICK q \in Nat : Reach = q * Stride /\ num <= Reach
  BY ReachFacts
<1>4. t < q
  <2>1. SUFFICES ASSUME t >= q PROVE FALSE
    OBVIOUS
  <2>2. t * Stride >= q * Stride
    BY <1>1, <2>1
  <2>3. QED
    BY <1>2, <1>3, <2>2
<1>5. (t + 1) * Stride <= q * Stride
  BY <1>1, <1>4
<1>6. QED
  BY <1>1, <1>2, <1>3, <1>5

(* An index at a multiple of 2N at or past num that has not passed Reach  *)
(* is Reach.                                                               *)
LEMMA ReachLeast ==
    ASSUME n32 \in Nat \ {0}, num \in Nat, NEW ix \in Nat, Start(ix), num <= ix, ix <= Reach
    PROVE  ix = Reach
<1>1. Stride \in Nat \ {0}
  BY WidthFacts
<1>2. PICK t \in Nat : ix = t * Stride
  BY DEF Start
<1>3. PICK q \in Nat : Reach = q * Stride /\ Reach < num + Stride
  BY ReachFacts
<1>4. t <= q
  <2>1. SUFFICES ASSUME t >= q + 1 PROVE FALSE
    OBVIOUS
  <2>2. t * Stride >= q * Stride + Stride
    BY <1>1, <2>1
  <2>3. QED
    BY <1>1, <1>2, <1>3, <2>2
<1>5. t >= q
  <2>1. SUFFICES ASSUME t + 1 <= q PROVE FALSE
    OBVIOUS
  <2>2. t * Stride + Stride <= q * Stride
    BY <1>1, <2>1
  <2>3. QED
    BY <1>1, <1>2, <1>3, <2>2
<1>6. QED
  BY <1>2, <1>3, <1>4, <1>5

(* With an even number of 2*N32 blocks, num is a multiple of 2N and the   *)
(* loop stops exactly at num.                                              *)
LEMMA EvenReach ==
    ASSUME n32 \in Nat \ {0}, NEW b \in Nat, b % 2 = 0, num = b * 2 * n32
    PROVE  Reach = num
<1>1. Stride \in Nat \ {0} /\ Stride = 4 * n32
  BY WidthFacts
<1>2. PICK c \in Nat : b = c * 2
  BY MultipleOf
<1>3. num = c * Stride /\ c * Stride \in Nat
  BY <1>1, <1>2
<1>4. num + Stride - 1 = c * Stride + (Stride - 1) /\ Stride - 1 \in 0..(Stride - 1)
      /\ num + Stride - 1 \in Nat
  BY <1>1, <1>3
<1>5. (num + Stride - 1) \div Stride = c
  BY <1>1, <1>4, DivModUnique
<1>6. QED
  BY <1>3, <1>5 DEF Reach

-----------------------------------------------------------------------------
(* The loop invariant.                                                     *)

(* The parts, the products and Reach depend only on N32, num and in_ofs,   *)
(* which no step changes.                                                  *)
LEMMA Frame ==
    ASSUME n32' = n32, num' = num, ofs' = ofs
    PROVE  /\ \A p, q, n : Part(p, q, n)' = Part(p, q, n)
           /\ \A n : Upto(n)' = Upto(n)
           /\ Reach' = Reach /\ Stride' = Stride
<1>1. \A k : Term(k)' = Term(k)
  BY DEF Term, VecPos, Lanes16
<1>2. \A p, q, n : Part(p, q, n)' = Part(p, q, n)
  BY <1>1 DEF Part, Lanes16
<1>3. \A n : Upto(n)' = Upto(n)
  BY <1>1 DEF Upto
<1>4. QED
  BY <1>2, <1>3 DEF Reach, Stride, Lanes16


(* The accumulators DInv describes, one by one.                           *)
LEMMA SumIs ==
    ASSUME DInv
    PROVE  /\ DOMAIN sum = 0..3
           /\ sum[0] = SetToBag(Part(0, 0, i)) /\ sum[1] = SetToBag(Part(1, 0, i))
           /\ sum[2] = SetToBag(Part(0, 1, i)) /\ sum[3] = SetToBag(Part(1, 1, i))
<1>1. sum = [k \in 0..3 |-> SetToBag(Part(k % 2, k \div 2, i))]
  BY DEF DInv
<1>2. /\ 0 % 2 = 0 /\ 0 \div 2 = 0 /\ 1 % 2 = 1 /\ 1 \div 2 = 0
      /\ 2 % 2 = 0 /\ 2 \div 2 = 1 /\ 3 % 2 = 1 /\ 3 \div 2 = 1
  OBVIOUS
<1>3. QED
  BY <1>1, <1>2

(* DInv holds initially: the index is 0 and every accumulator is empty.   *)
LEMMA InitDInv ==
    ASSUME Init
    PROVE  DInv
<1>1. n32 \in Nat \ {0} /\ num \in Nat
  <2>1. PICK b \in Blocks : num = b * 2 * n32
    BY DEF Init
  <2>2. n32 \in Nat \ {0}
    BY DEF Init
  <2>3. QED
    BY <2>1, <2>2
<1>2. Stride \in Nat \ {0} /\ 0 <= Reach
  BY <1>1, WidthFacts, ReachFacts
<1>3. \A p, q : Part(p, q, 0) = {}
  BY DEF Part
<1>4. sum = [k \in 0..3 |-> SetToBag(Part(k % 2, k \div 2, 0))]
  BY <1>3 DEF Init, EmptyBag
<1>5. QED
  BY <1>2, <1>4 DEF Init, DInv

(* An iteration keeps DInv: each accumulator gains the lanes of the next   *)
(* vector of its parity, which it did not hold, and the index a stride     *)
(* that does not carry it past Reach.                                      *)
LEMMA IterateDInv ==
    ASSUME DInv, Iterate
    PROVE  DInv'
<1>1. n32 \in Nat \ {0} /\ num \in Nat /\ ofs \in Nat
  BY ConstFacts
<1>2. Lanes16 \in Nat \ {0} /\ Stride \in Nat \ {0} /\ Stride = 2 * Lanes16
  BY <1>1, WidthFacts
<1>3. i \in Nat /\ i % Stride = 0 /\ i < num
  <2>1. i \in Nat /\ i % Stride = 0
    BY DEF DInv
  <2>2. QED
    BY <2>1 DEF Iterate, Continue
<1>4. Start(i)
  <2>1. \E t \in Nat : i = t * Stride
    BY <1>2, <1>3, MultipleOf
  <2>2. QED
    BY <1>3, <2>1 DEF Start
<1>5. /\ i' = i + Stride /\ n32' = n32 /\ num' = num /\ ofs' = ofs
      /\ dot' = dot /\ phase' = "loop"
  BY <1>2 DEF Iterate
<1>6. i' \in Nat /\ i' % Stride = 0 /\ i' <= Reach
  <2>1. PICK t \in Nat : i = t * Stride
    BY <1>4 DEF Start
  <2>2. i + Stride = (t + 1) * Stride /\ t + 1 \in Nat
    BY <1>2, <2>1
  <2>3. (i + Stride) % Stride = 0
    BY <1>2, <2>2, DivModUnique
  <2>4. i + Stride <= Reach
    BY <1>1, <1>3, <1>4, ReachStep
  <2>5. QED
    BY <1>2, <1>3, <1>5, <2>3, <2>4
<1>7. /\ EvenLanes(i) = Lanes(0, i) /\ OddLanes(i) = Lanes(1, i)
      /\ EvenLanes(i + Lanes16) = Lanes(0, i + Lanes16)
      /\ OddLanes(i + Lanes16) = Lanes(1, i + Lanes16)
  BY <1>1, <1>2, <1>3, LanesIs
<1>8. /\ SetToBag(Part(0, 0, i)) (+) SetToBag(Lanes(0, i)) = SetToBag(Part(0, 0, i + Stride))
      /\ SetToBag(Part(1, 0, i)) (+) SetToBag(Lanes(1, i)) = SetToBag(Part(1, 0, i + Stride))
      /\ SetToBag(Part(0, 1, i)) (+) SetToBag(Lanes(0, i + Lanes16))
           = SetToBag(Part(0, 1, i + Stride))
      /\ SetToBag(Part(1, 1, i)) (+) SetToBag(Lanes(1, i + Lanes16))
           = SetToBag(Part(1, 1, i + Stride))
  <2>1. i = i + 0 * Lanes16 /\ i + Lanes16 = i + 1 * Lanes16
    BY <1>2, <1>3
  <2>2. QED
    BY <1>1, <1>3, <1>4, <2>1, AccStep
<1>9. /\ DOMAIN sum = 0..3
      /\ sum[0] = SetToBag(Part(0, 0, i)) /\ sum[1] = SetToBag(Part(1, 0, i))
      /\ sum[2] = SetToBag(Part(0, 1, i)) /\ sum[3] = SetToBag(Part(1, 1, i))
  BY SumIs
<1>10. sum' = [k \in 0..3 |-> SetToBag(Part(k % 2, k \div 2, i'))]
  <2>1. sum' = [sum EXCEPT ![0] = @ (+) SetToBag(EvenLanes(i)),
                           ![1] = @ (+) SetToBag(OddLanes(i)),
                           ![2] = @ (+) SetToBag(EvenLanes(i + Lanes16)),
                           ![3] = @ (+) SetToBag(OddLanes(i + Lanes16))]
    BY DEF Iterate
  <2>2. /\ sum'[0] = SetToBag(Part(0, 0, i')) /\ sum'[1] = SetToBag(Part(1, 0, i'))
        /\ sum'[2] = SetToBag(Part(0, 1, i')) /\ sum'[3] = SetToBag(Part(1, 1, i'))
        /\ DOMAIN sum' = 0..3
    BY <1>5, <1>7, <1>8, <1>9, <2>1
  <2>3. /\ 0 % 2 = 0 /\ 0 \div 2 = 0 /\ 1 % 2 = 1 /\ 1 \div 2 = 0
        /\ 2 % 2 = 0 /\ 2 \div 2 = 1 /\ 3 % 2 = 1 /\ 3 \div 2 = 1
    OBVIOUS
  <2>4. \A k \in 0..3 : k = 0 \/ k = 1 \/ k = 2 \/ k = 3
    OBVIOUS
  <2>5. QED
    BY <2>1, <2>2, <2>3, <2>4
<1>11. /\ \A p, q, n : Part(p, q, n)' = Part(p, q, n)
       /\ \A n : Upto(n)' = Upto(n)
       /\ Reach' = Reach /\ Stride' = Stride
  BY <1>5, Frame
<1>12. (sum = [k \in 0..3 |-> SetToBag(Part(k % 2, k \div 2, i))])'
  BY <1>10, <1>11
<1>13. (i \in Nat /\ i % Stride = 0 /\ i <= Reach)'
  BY <1>6, <1>11
<1>14. QED
  BY <1>5, <1>12, <1>13 DEF DInv

(* The reduction keeps DInv: the loop has stopped at Reach, and the four   *)
(* disjoint parts below it add up to every product below it, once.        *)
LEMMA ReduceDInv ==
    ASSUME DInv, Reduce
    PROVE  DInv'
<1>1. n32 \in Nat \ {0} /\ num \in Nat /\ ofs \in Nat
  BY ConstFacts
<1>2. Stride \in Nat \ {0}
  BY <1>1, WidthFacts
<1>3. i \in Nat /\ i % Stride = 0 /\ num <= i /\ i <= Reach
  <2>1. i \in Nat /\ i % Stride = 0 /\ i <= Reach
    BY DEF DInv
  <2>2. ~(i < num)
    BY DEF Reduce, Continue
  <2>3. QED
    BY <1>1, <2>1, <2>2
<1>4. Start(i)
  <2>1. \E t \in Nat : i = t * Stride
    BY <1>2, <1>3, MultipleOf
  <2>2. QED
    BY <1>3, <2>1 DEF Start
<1>5. i = Reach
  BY <1>1, <1>3, <1>4, ReachLeast
<1>6. /\ DOMAIN sum = 0..3
      /\ sum[0] = SetToBag(Part(0, 0, i)) /\ sum[1] = SetToBag(Part(1, 0, i))
      /\ sum[2] = SetToBag(Part(0, 1, i)) /\ sum[3] = SetToBag(Part(1, 1, i))
  BY SumIs
<1>7. /\ Part(0, 0, i) \cap Part(1, 0, i) = {} /\ Part(0, 1, i) \cap Part(1, 1, i) = {}
      /\ Part(0, 0, i) \cap Part(0, 1, i) = {} /\ Part(0, 0, i) \cap Part(1, 1, i) = {}
      /\ Part(1, 0, i) \cap Part(0, 1, i) = {} /\ Part(1, 0, i) \cap Part(1, 1, i) = {}
  BY <1>1, PartDisjoint
<1>8. (Part(0, 0, i) \cup Part(1, 0, i)) \cap (Part(0, 1, i) \cup Part(1, 1, i)) = {}
  BY <1>7
<1>9. (sum[0] (+) sum[1]) (+) (sum[2] (+) sum[3])
        = SetToBag((Part(0, 0, i) \cup Part(1, 0, i)) \cup (Part(0, 1, i) \cup Part(1, 1, i)))
  <2>1. sum[0] (+) sum[1] = SetToBag(Part(0, 0, i) \cup Part(1, 0, i))
    BY <1>6, <1>7, BagOfUnion
  <2>2. sum[2] (+) sum[3] = SetToBag(Part(0, 1, i) \cup Part(1, 1, i))
    BY <1>6, <1>7, BagOfUnion
  <2>3. QED
    BY <2>1, <2>2, <1>8, BagOfUnion
<1>10. dot' = SetToBag(Upto(Reach))
  BY <1>1, <1>3, <1>5, <1>9, PartCover DEF Reduce
<1>11. /\ n32' = n32 /\ num' = num /\ ofs' = ofs /\ i' = i /\ sum' = sum
       /\ phase' = "done"
  BY DEF Reduce
<1>12. /\ \A p, q, n : Part(p, q, n)' = Part(p, q, n)
       /\ \A n : Upto(n)' = Upto(n)
       /\ Reach' = Reach /\ Stride' = Stride
  BY <1>11, Frame
<1>13. (sum = [k \in 0..3 |-> SetToBag(Part(k % 2, k \div 2, i))])'
  BY <1>11, <1>12 DEF DInv
<1>14. (i \in Nat /\ i % Stride = 0 /\ i <= Reach)'
  BY <1>3, <1>11, <1>12
<1>15. (phase = "done" => i = Reach /\ dot = SetToBag(Upto(Reach)))'
  BY <1>5, <1>10, <1>11, <1>12
<1>16. QED
  BY <1>11, <1>13, <1>14, <1>15 DEF DInv

(* A step that changes no variable keeps DInv.                             *)
LEMMA StutterDInv ==
    ASSUME DInv, UNCHANGED vars
    PROVE  DInv'
<1>1. /\ n32' = n32 /\ num' = num /\ ofs' = ofs /\ i' = i /\ sum' = sum
      /\ dot' = dot /\ phase' = phase
  BY DEF vars
<1>2. /\ \A p, q, n : Part(p, q, n)' = Part(p, q, n)
      /\ \A n : Upto(n)' = Upto(n)
      /\ Reach' = Reach /\ Stride' = Stride
  BY <1>1, Frame
<1>3. (sum = [k \in 0..3 |-> SetToBag(Part(k % 2, k \div 2, i))])'
  BY <1>1, <1>2 DEF DInv
<1>4. (i \in Nat /\ i % Stride = 0 /\ i <= Reach)'
  BY <1>1, <1>2 DEF DInv
<1>5. (phase = "done" => i = Reach /\ dot = SetToBag(Upto(Reach)))'
  BY <1>1, <1>2 DEF DInv
<1>6. QED
  BY <1>1, <1>3, <1>4, <1>5 DEF DInv

(* DInv holds in every state of DotEO, for every lane count, count and     *)
(* offset: the loop index of DotEO's for loop stays a multiple of 2N no    *)
(* further than Reach, sum0..sum3 each hold exactly their quarter of the   *)
(* products below it, and the reduction adds the four into every product   *)
(* below Reach, each once.                                                 *)
THEOREM LoopInvariant == Spec => []DInv
<1>1. Init => DInv
  BY InitDInv
<1>2. DInv /\ [Next]_vars => DInv'
  BY IterateDInv, ReduceDInv, StutterDInv DEF Next
<1>3. QED
  BY <1>1, <1>2, PTL DEF Spec

(* What DotEO returns, for every count its assertion admits: the products  *)
(* of the elements below Reach, each once; past the row when num is an odd *)
(* number of 2*N32 blocks.                                                 *)
THEOREM DotEOResult == Spec => []DotEOReach
<1>1. DInv => DotEOReach
  BY DEF DInv, DotEOReach
<1>2. QED
  BY LoopInvariant, <1>1, PTL

-----------------------------------------------------------------------------
(* Counts of an even number of 2*N32 blocks.                               *)

(* The products of any part are pairs of addresses.                       *)
LEMMA PartProducts ==
    ASSUME n32 \in Nat \ {0}, ofs \in Nat, NEW p, NEW q, NEW n \in Nat
    PROVE  Part(p, q, n) \subseteq Products
<1> SUFFICES ASSUME NEW x \in Part(p, q, n) PROVE x \in Nat \X Nat
  BY DEF Products
<1>1. PICK k \in 0..(n - 1) : k % 2 = p /\ (k \div Lanes16) % 2 = q /\ x = Term(k)
  BY PartIff
<1>2. k \in Nat
  OBVIOUS
<1>3. QED
  BY <1>1, <1>2, TermFacts

(* With an even number of blocks, DInv gives the type of every variable   *)
(* and the dot product once the loop has ended.                           *)
LEMMA EvenDInv ==
    ASSUME EvenBlocks, DInv
    PROVE  TypeOK /\ DotEOMatches
<1>1. n32 \in Nat \ {0} /\ num \in Nat /\ ofs \in Nat
  BY ConstFacts
<1>2. Reach = num
  <2>1. PICK b \in Blocks : num = b * 2 * n32
    BY DEF DInv
  <2>2. b \in Nat /\ b % 2 = 0
    BY DEF EvenBlocks
  <2>3. QED
    BY <1>1, <2>1, <2>2, EvenReach
<1>3. i \in 0..num
  BY <1>2 DEF DInv
<1>4. \A k \in 0..3 : IsABag(sum[k]) /\ BagToSet(sum[k]) \subseteq Products
  <2> SUFFICES ASSUME NEW k \in 0..3
               PROVE  IsABag(sum[k]) /\ BagToSet(sum[k]) \subseteq Products
    OBVIOUS
  <2>1. sum[k] = SetToBag(Part(k % 2, k \div 2, i))
    BY DEF DInv
  <2>2. i \in Nat
    BY DEF DInv
  <2>3. Part(k % 2, k \div 2, i) \subseteq Products
    BY <1>1, <2>2, PartProducts
  <2>4. QED
    BY <2>1, <2>3, SetToBagFacts
<1>5. TypeOK
  BY <1>3, <1>4 DEF DInv, TypeOK
<1>6. DotEOMatches
  BY <1>2 DEF DInv, DotEOMatches, Want
<1>7. QED
  BY <1>5, <1>6

(* With an even number of 2*N32 blocks, as the model dimensions give, the  *)
(* loop index of DotEO never passes num and every accumulator is a bag of  *)
(* products.                                                               *)
THEOREM DotEOTypeCorrect ==
    ASSUME EvenBlocks
    PROVE  Spec => []TypeOK
<1>1. DInv => TypeOK
  BY EvenDInv
<1>2. QED
  BY LoopInvariant, <1>1, PTL

(* With an even number of 2*N32 blocks, DotEO returns the dot product: the *)
(* product of matrix element ofs + k with vector element k, for every      *)
(* k < num, each once, and no other.                                       *)
THEOREM DotEOCorrect ==
    ASSUME EvenBlocks
    PROVE  Spec => []DotEOMatches
<1>1. DInv => DotEOMatches
  BY EvenDInv
<1>2. QED
  BY LoopInvariant, <1>1, PTL

====
