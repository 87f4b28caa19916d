-------------------------- MODULE Ext2AllocProofs --------------------------
(***************************************************************************)
(* Proofs about the allocator, for images of any size.                     *)
(***************************************************************************)
EXTENDS Ext2Alloc, FiniteSetTheorems, TLAPS

-----------------------------------------------------------------------------
(* Arithmetic of words and groups.                                         *)

\* Dividing a multiple plus a remainder gives both back.
LEMMA DivMod ==
  ASSUME NEW P \in Nat \ {0}, NEW g \in Nat, NEW b \in Nat, b < P
  PROVE  (g * P + b) \div P = g /\ (g * P + b) % P = b
OBVIOUS

\* Division with remainder.
LEMMA DivSplit ==
  ASSUME NEW P \in Nat \ {0}, NEW x \in Nat
  PROVE  /\ x = P * (x \div P) + (x % P)
         /\ x % P \in 0 .. P - 1
         /\ x \div P \in Nat
OBVIOUS

\* Remainders below twice the divisor.
LEMMA SmallMod ==
  /\ \A P \in Nat \ {0} : \A x \in Nat : x < P => x % P = x
  /\ \A P \in Nat \ {0} : \A x \in Nat : P <= x /\ x < 2 * P => x % P = x - P
OBVIOUS

\* The remainder of an offset into the word of b.
LEMMA WordOffset ==
  ASSUME NEW W \in Nat \ {0}, NEW b \in Nat, NEW s \in 0 .. W - 1
  PROVE  /\ b - (b % W) \in Nat
         /\ ((b - (b % W)) + s) % W = s
<1>1. b = W * (b \div W) + (b % W) /\ b \div W \in Nat /\ b % W \in 0 .. W - 1
  BY DivSplit
<1>2. DEFINE q == b \div W
<1>3. b - (b % W) = q * W
  BY <1>1
<1>4. q * W \in Nat
  BY <1>1
<1>5. (q * W + s) % W = s
  BY <1>1, DivMod
<1> QED
  BY <1>3, <1>4, <1>5

\* A lower-half bit names itself, and no other lower-half bit.
LEMMA MaskLow ==
  ASSUME NEW b \in Bit, Low(b)
  PROVE  /\ b \in Mask(b)
         /\ \A c \in Bit : Low(c) /\ c \in Mask(b) => c = b
<1> DEFINE r == b % WordBits
           base == b - r
<1>1. WordBits \in Nat \ {0} /\ IntBits \in Nat \ {0} /\ WordBits = 2 * IntBits
  BY SizeAssumption
<1>2. b \in Nat /\ Bit \subseteq Nat
  BY <1>1, SizeAssumption DEF Bit
<1>3. r \in 0 .. IntBits - 1 /\ base \in Nat /\ b = base + r
  <2>1. r \in 0 .. WordBits - 1
    BY <1>1, <1>2, DivSplit
  <2>2. 0 \in 0 .. WordBits - 1
    BY <1>1
  <2>3. base \in Nat
    BY <1>1, <1>2, <2>2, WordOffset
  <2> QED
    BY <2>1, <2>3, <1>2, <1>1 DEF Low
<1>4. r % IntBits = r
  <2> HIDE DEF r
  <2>1. r \in Nat /\ r < IntBits
    BY <1>1, <1>3
  <2> QED
    BY <2>1, <1>1, SmallMod
<1>5. Mask(b) = IF r = IntBits - 1 THEN base + r .. base + WordBits - 1 ELSE {base + r}
  BY <1>4 DEF Mask
<1> HIDE DEF r, base
<1>6. b \in Mask(b)
  BY <1>1, <1>3, <1>5
<1>7. ASSUME NEW c \in Bit, Low(c), c \in Mask(b) PROVE c = b
  <2>1. CASE r # IntBits - 1
    BY <2>1, <1>7, <1>5, <1>3
  <2>2. CASE r = IntBits - 1
    <3>1. c \in base + r .. base + WordBits - 1
      BY <2>2, <1>5, <1>7
    <3>2. PICK s \in r .. WordBits - 1 : c = base + s
      <4>1. c - base \in r .. WordBits - 1 /\ c = base + (c - base)
        BY <3>1, <1>1, <1>2, <1>3, <2>2
      <4> QED
        BY <4>1
    <3>3. s \in 0 .. WordBits - 1
      BY <3>2, <1>3
    <3>4. c % WordBits = s
      BY <3>2, <3>3, <1>1, <1>2, WordOffset DEF base, r
    <3>5. s < IntBits
      BY <3>4, <1>7 DEF Low
    <3> QED
      BY <3>2, <3>5, <2>2, <1>1, <1>3
  <2> QED
    BY <2>1, <2>2
<1> QED
  BY <1>6, <1>7

\* An upper-half bit has the mask of the bit IntBits below it.
LEMMA MaskUpper ==
  ASSUME NEW b \in Bit, ~Low(b)
  PROVE  /\ b - IntBits \in Bit
         /\ Mask(b - IntBits) = Mask(b)
<1> DEFINE r == b % WordBits
           base == b - r
           t == r - IntBits
<1>1. WordBits \in Nat \ {0} /\ IntBits \in Nat \ {0} /\ WordBits = 2 * IntBits
  BY SizeAssumption
<1>2. b \in Nat /\ MapWords \in Nat
  BY <1>1, SizeAssumption DEF Bit
<1>3. r \in IntBits .. WordBits - 1 /\ base \in Nat
  <2>1. r \in 0 .. WordBits - 1
    BY <1>1, <1>2, DivSplit
  <2>2. 0 \in 0 .. WordBits - 1
    BY <1>1
  <2>3. base \in Nat
    BY <1>1, <1>2, <2>2, WordOffset
  <2> QED
    BY <2>1, <2>3, <1>1 DEF Low
<1>4. t \in 0 .. IntBits - 1 /\ b - IntBits = base + t
  BY <1>1, <1>2, <1>3
<1>5. (b - IntBits) % WordBits = t
  <2>1. t \in 0 .. WordBits - 1
    BY <1>1, <1>4
  <2>2. (base + t) % WordBits = t
    BY <2>1, <1>1, <1>2, WordOffset
  <2> QED
    BY <2>2, <1>4
<1>6. r % IntBits = t /\ t % IntBits = t
  <2> HIDE DEF r
  <2>1. r \in Nat /\ IntBits <= r /\ r < 2 * IntBits /\ t \in Nat /\ t < IntBits
    BY <1>1, <1>3, <1>4
  <2>2. r % IntBits = r - IntBits
    BY <2>1, <1>1, SmallMod
  <2>3. t % IntBits = t
    <3> HIDE DEF t
    <3> QED
      BY <2>1, <1>1, SmallMod
  <2> QED
    BY <2>2, <2>3
<1>7. b - IntBits \in Bit
  <2>1. WordBits * MapWords \in Nat
    BY <1>1, <1>2
  <2> QED
    BY <2>1, <1>1, <1>2, <1>3, <1>4 DEF Bit
<1>8. (b - IntBits) - t = base
  BY <1>2, <1>3, <1>4, <1>1
<1>9. Mask(b - IntBits) = Mask(b)
  BY <1>5, <1>6, <1>8 DEF Mask
<1> QED
  BY <1>7, <1>9

\* The bits two different lower-half bits stand for are different.
LEMMA MaskDisjoint ==
  ASSUME NEW b \in Bit, NEW c \in Bit, Low(b), Low(c), b # c
  PROVE  Mask(b) \cap Mask(c) = {}
<1> DEFINE r(x) == x % WordBits
           base(x) == x - r(x)
<1>1. WordBits \in Nat \ {0} /\ IntBits \in Nat \ {0} /\ WordBits = 2 * IntBits
  BY SizeAssumption
<1>2. Bit \subseteq Nat
  BY <1>1, SizeAssumption DEF Bit
<1>3. ASSUME NEW x \in Bit, Low(x)
      PROVE  /\ base(x) \in Nat /\ r(x) \in 0 .. IntBits - 1 /\ x = base(x) + r(x)
             /\ \/ Mask(x) = {x}
                \/ r(x) = IntBits - 1 /\ Mask(x) = base(x) + r(x) .. base(x) + WordBits - 1
             /\ \A s \in 0 .. WordBits - 1 : (base(x) + s) % WordBits = s
  <2>1. x \in Nat /\ r(x) \in 0 .. WordBits - 1
    BY <1>1, <1>2, DivSplit
  <2>2. r(x) \in 0 .. IntBits - 1
    BY <2>1, <1>3, <1>1 DEF Low
  <2>3. base(x) \in Nat
    <3>1. 0 \in 0 .. WordBits - 1
      BY <1>1
    <3> QED
      BY <3>1, <2>1, <1>1, WordOffset
  <2>4. \A s \in 0 .. WordBits - 1 : (base(x) + s) % WordBits = s
    BY <2>1, <1>1, WordOffset
  <2>5. Mask(x) = IF r(x) % IntBits = IntBits - 1
                  THEN base(x) + (r(x) % IntBits) .. base(x) + WordBits - 1
                  ELSE {base(x) + (r(x) % IntBits)}
    BY DEF Mask
  <2>6. x = base(x) + r(x)
    BY <2>1, <1>1
  <2> HIDE DEF r, base
  <2>7. r(x) % IntBits = r(x)
    <3>1. r(x) \in Nat /\ r(x) < IntBits
      BY <2>2, <1>1
    <3> QED
      BY <3>1, <1>1, SmallMod
  <2> QED
    BY <2>2, <2>3, <2>4, <2>5, <2>6, <2>7
<1>4. SUFFICES ASSUME NEW x \in Mask(b), x \in Mask(c) PROVE FALSE
  OBVIOUS
<1>5. CASE Mask(b) = {b}
  BY <1>5, <1>4, MaskLow
<1>6. CASE Mask(c) = {c}
  BY <1>6, <1>4, MaskLow
<1>7. CASE Mask(b) # {b} /\ Mask(c) # {c}
  <2> HIDE DEF r, base
  <2>1. /\ base(b) \in Nat /\ base(c) \in Nat /\ r(b) = IntBits - 1 /\ r(c) = IntBits - 1
        /\ b = base(b) + r(b) /\ c = base(c) + r(c)
        /\ x \in base(b) + r(b) .. base(b) + WordBits - 1
        /\ x \in base(c) + r(c) .. base(c) + WordBits - 1
    BY <1>3, <1>4, <1>7
  <2>2. x - base(b) \in 0 .. WordBits - 1 /\ x - base(c) \in 0 .. WordBits - 1
    BY <2>1, <1>1
  <2>3. base(b) + (x - base(b)) = x /\ base(c) + (x - base(c)) = x
    BY <2>1, <1>1
  <2>4. x % WordBits = x - base(b) /\ x % WordBits = x - base(c)
    BY <2>2, <2>3, <1>3
  <2>5. base(b) = base(c)
    BY <2>4, <2>2, <2>1, <1>1
  <2> QED
    BY <2>5, <2>1
<1> QED
  BY <1>5, <1>6, <1>7

\* Multiplication is monotone.
LEMMA MulMono ==
  \A w, m, n \in Nat : m <= n => w * m <= w * n
OBVIOUS

\* A mask is not empty and stays inside the bitmap block.
LEMMA MaskType ==
  ASSUME NEW b \in Bit
  PROVE  Mask(b) # {} /\ Mask(b) \subseteq Bit
<1> DEFINE r == b % WordBits
           q == b \div WordBits
           base == b - r
           s == r % IntBits
<1>1. WordBits \in Nat \ {0} /\ IntBits \in Nat \ {0} /\ WordBits = 2 * IntBits
      /\ MapWords \in Nat
  BY SizeAssumption
<1>2. b \in Nat /\ WordBits * MapWords \in Nat /\ b < WordBits * MapWords
  <2>1. WordBits * MapWords \in Nat
    BY <1>1
  <2> QED
    BY <2>1 DEF Bit
<1>3. b = WordBits * q + r /\ r \in 0 .. WordBits - 1 /\ q \in Nat
  BY <1>1, <1>2, DivSplit
<1>4. s \in 0 .. IntBits - 1
  <2> HIDE DEF r
  <2>1. r \in Nat
    BY <1>3, <1>1
  <2> QED
    BY <2>1, <1>1, DivSplit
<1>5. Mask(b) = IF s = IntBits - 1 THEN base + s .. base + WordBits - 1 ELSE {base + s}
  BY DEF Mask
<1> HIDE DEF r, q, s
<1>6. q + 1 <= MapWords
  <2>1. q >= MapWords => WordBits * q >= WordBits * MapWords
    BY <1>1, <1>3, MulMono
  <2>2. WordBits * q \in Nat
    BY <1>1, <1>3
  <2> HIDE DEF base
  <2> QED
    BY <2>1, <2>2, <1>1, <1>2, <1>3
<1>7. WordBits * q + WordBits <= WordBits * MapWords
  <2>1. WordBits * (q + 1) <= WordBits * MapWords
    BY <1>6, <1>1, <1>3, MulMono
  <2>2. WordBits * (q + 1) = WordBits * q + WordBits
    BY <1>1, <1>3
  <2> QED
    BY <2>1, <2>2
<1>8. base \in Nat /\ base + WordBits <= WordBits * MapWords
  <2>1. base = WordBits * q /\ WordBits * q \in Nat
    BY <1>1, <1>2, <1>3
  <2> HIDE DEF base
  <2> QED
    BY <2>1, <1>7
<1> HIDE DEF base
<1>9. Bit = 0 .. WordBits * MapWords - 1
  BY DEF Bit
<1>10. base + s \in Mask(b)
  BY <1>1, <1>4, <1>5, <1>8
<1>11. ASSUME NEW c \in Mask(b) PROVE c \in Bit
  <2>1. c \in Nat /\ c < base + WordBits
    BY <1>11, <1>1, <1>4, <1>5, <1>8
  <2> DEFINE size == WordBits * MapWords
  <2>2. size \in Nat /\ base + WordBits <= size /\ Bit = 0 .. size - 1
    BY <1>2, <1>8, <1>9
  <2> HIDE DEF size
  <2>3. c < size
    BY <2>1, <2>2, <1>1, <1>8
  <2> QED
    BY <2>1, <2>2, <2>3
<1> QED
  BY <1>10, <1>11

\* A number made from a group and a bit of it gives both back.
LEMMA UnitRound ==
  ASSUME NEW k \in Kind, NEW g \in Group, NEW b \in Bit, b < PerGroup[k]
  PROVE  GroupOf(k, UnitNo(k, g, b)) = g /\ BitOf(k, UnitNo(k, g, b)) = b
<1>1. PerGroup[k] \in Nat \ {0} /\ g \in Nat /\ b \in Nat
  BY SizeAssumption DEF Group, Bit
<1>2. g * PerGroup[k] \in Nat
  BY <1>1
<1>3. UnitNo(k, g, b) - 1 = g * PerGroup[k] + b
  BY <1>1, <1>2 DEF UnitNo
<1> QED
  BY <1>1, <1>3, DivMod DEF GroupOf, BitOf

\* Numbers are positive, and equal when group and bit are.
LEMMA NumberType ==
  ASSUME NEW k \in Kind, NEW no \in Number(k)
  PROVE  no \in Nat \ {0}
<1>1. PICK g \in Group, b \in Bit : no = UnitNo(k, g, b)
  BY DEF Number
<1>2. PerGroup[k] \in Nat /\ g \in Nat /\ b \in Nat
  BY SizeAssumption DEF Group, Bit
<1>3. g * PerGroup[k] \in Nat
  BY <1>2
<1> QED
  BY <1>1, <1>2, <1>3 DEF UnitNo

\* The number names one group and one bit: two units never have one number.
LEMMA UnitInjective ==
  ASSUME NEW k \in Kind, NEW m \in Number(k), NEW n \in Number(k),
         GroupOf(k, m) = GroupOf(k, n), BitOf(k, m) = BitOf(k, n)
  PROVE  m = n
<1> DEFINE P == PerGroup[k]
<1>1. P \in Nat \ {0} /\ m - 1 \in Nat /\ n - 1 \in Nat
  BY SizeAssumption, NumberType
<1>2. /\ m - 1 = P * ((m - 1) \div P) + ((m - 1) % P)
      /\ n - 1 = P * ((n - 1) \div P) + ((n - 1) % P)
  <2> HIDE DEF P
  <2> QED
    BY <1>1, DivSplit
<1>3. m - 1 = n - 1
  BY <1>2 DEF GroupOf, BitOf
<1>4. m \in Nat /\ n \in Nat
  BY NumberType
<1> QED
  BY <1>3, <1>4

-----------------------------------------------------------------------------
(* The steps.                                                              *)

\* A remainder is in the range of the divisor, for -1 as well.
LEMMA WrapType ==
  \A P \in Nat \ {0} : \A x \in Int : x % P \in 0 .. P - 1
OBVIOUS

\* The write sequence keeps the types of the bitmaps and counters.
LEMMA CommitType ==
  ASSUME TypeOK, NEW k \in Kind, NEW g \in Group, NEW map \in SUBSET Bit,
         NEW d \in {-1, 1}, NEW w \in 1 .. AllWrites, Commit(k, g, map, d, w)
  PROVE  /\ bitmap' \in [Kind -> [Group -> SUBSET Bit]]
         /\ dfree' \in [Kind -> [Group -> 0 .. GroupMod - 1]]
         /\ free' \in [Kind -> [Group -> 0 .. GroupMod - 1]]
         /\ dtotal' \in [Kind -> 0 .. TotalMod - 1]
         /\ total' \in [Kind -> 0 .. TotalMod - 1]
<1>1. bitmap' \in [Kind -> [Group -> SUBSET Bit]]
  BY DEF TypeOK, Commit
<1>2. free' \in [Kind -> [Group -> 0 .. GroupMod - 1]]
  <2>1. GroupMod \in Nat \ {0} /\ free[k][g] \in 0 .. GroupMod - 1
    <3>1. free[k][g] \in 0 .. GroupMod - 1
      BY DEF TypeOK
    <3> QED
      BY <3>1, SizeAssumption
  <2>2. (free[k][g] + d) % GroupMod \in 0 .. GroupMod - 1
    <3>1. free[k][g] + d \in Int
      BY <2>1
    <3> QED
      BY <2>1, <3>1, WrapType
  <2> DEFINE v == (free[k][g] + d) % GroupMod
  <2>3. free' = IF w >= 1 THEN [free EXCEPT ![k][g] = v] ELSE free
    BY DEF Commit
  <2>4. v \in 0 .. GroupMod - 1 /\ free \in [Kind -> [Group -> 0 .. GroupMod - 1]]
    BY <2>2 DEF TypeOK
  <2> HIDE DEF v
  <2> QED
    BY <2>3, <2>4
<1>3. dfree' \in [Kind -> [Group -> 0 .. GroupMod - 1]]
  <2> DEFINE Count == 0 .. GroupMod - 1
  <2>1. dfree' = [j \in Kind |-> [h \in Group |->
                   IF w >= 2 + DescBlock[h] THEN free'[j][h] ELSE dfree[j][h]]]
    BY DEF Commit
  <2>2. free' \in [Kind -> [Group -> Count]] /\ dfree \in [Kind -> [Group -> Count]]
    BY <1>2 DEF TypeOK
  <2> HIDE DEF Count
  <2>3. dfree' \in [Kind -> [Group -> Count]]
    BY <2>1, <2>2
  <2> QED
    BY <2>3 DEF Count
<1>4. total' \in [Kind -> 0 .. TotalMod - 1]
  <2>1. TotalMod \in Nat \ {0} /\ total[k] \in 0 .. TotalMod - 1
    <3>1. total[k] \in 0 .. TotalMod - 1
      BY DEF TypeOK
    <3> QED
      BY <3>1, SizeAssumption
  <2> DEFINE v == (total[k] + d) % TotalMod
  <2>2. v \in 0 .. TotalMod - 1
    <3>1. total[k] + d \in Int
      BY <2>1
    <3> QED
      BY <2>1, <3>1, WrapType
  <2>3. total' = IF w >= 1 + TableBlocks THEN [total EXCEPT ![k] = v] ELSE total
    BY DEF Commit
  <2>4. total \in [Kind -> 0 .. TotalMod - 1]
    BY DEF TypeOK
  <2> HIDE DEF v
  <2> QED
    BY <2>2, <2>3, <2>4
<1>5. dtotal' \in [Kind -> 0 .. TotalMod - 1]
  BY <1>4 DEF TypeOK, Commit
<1> QED
  BY <1>1, <1>2, <1>3, <1>4, <1>5

\* The scan stops at bit b of group g.
Finds(k, g, b) == g \in FirstGroup(k) /\ b \in FirstBit(bitmap[k][g])

\* The scan stops in the lower half of a word: an upper-half bit shares its
\* mask with a bit that is tested earlier.
LEMMA FindsLow ==
  ASSUME NEW k \in Kind, NEW g \in Group, NEW b \in Bit, Finds(k, g, b)
  PROVE  Low(b) /\ b \notin bitmap[k][g] /\ Mask(b) \cap bitmap[k][g] = {}
<1>1. b \in Avail(bitmap[k][g]) /\ \A c \in Avail(bitmap[k][g]) : b <= c
  BY DEF Finds, FirstBit
<1>2. Mask(b) \cap bitmap[k][g] = {}
  BY <1>1 DEF Avail
<1>3. ASSUME ~Low(b) PROVE FALSE
  <2>1. b - IntBits \in Bit /\ Mask(b - IntBits) = Mask(b)
    BY <1>3, MaskUpper
  <2>2. b - IntBits \in Avail(bitmap[k][g])
    BY <2>1, <1>2 DEF Avail
  <2>3. b <= b - IntBits
    BY <1>1, <2>2
  <2>4. b \in Nat /\ IntBits \in Nat \ {0}
    BY SizeAssumption DEF Bit
  <2> QED
    BY <2>3, <2>4
<1>4. b \in Mask(b)
  BY <1>3, MaskLow
<1> QED
  BY <1>2, <1>3, <1>4

\* What an allocation does to the bitmap and the references: it takes a bit
\* of a lower half that was clear, and whatever used its unit before used it
\* without marking it.
Takes(k, g, b, no, w) ==
  /\ Finds(k, g, b) /\ Commit(k, g, bitmap[k][g] \cup Mask(b), -1, w)
  /\ no = UnitNo(k, g, b) /\ GroupOf(k, no) = g /\ BitOf(k, no) = b
  /\ Low(b) /\ b \notin bitmap[k][g] /\ Mask(b) \cap bitmap[k][g] = {}
  /\ b \in Mask(b) /\ Mask(b) \subseteq Bit
  /\ refs[k][no] \in Nat /\ refs[k][no] <= cut[k][g]
  /\ no \notin torn[k] => refs[k][no] = 0
  /\ \/ refs' = refs
     \/ w = AllWrites /\ refs' = [refs EXCEPT ![k][no] = @ + 1]

\* Every allocation that finds a bit does that.
LEMMA AllocEffect ==
  ASSUME LowImage, IInv, NEW k \in Kind, NEW w \in 1 .. AllWrites,
         NEW recorded \in BOOLEAN, Alloc(k, w, recorded)
  PROVE  \E g \in Group, b \in Bit, no \in Number(k) : Takes(k, g, b, no, w)
<1>1. PICK g \in Group, b \in Bit :
        /\ Finds(k, g, b)
        /\ Commit(k, g, bitmap[k][g] \cup Mask(b), -1, w)
        /\ refs' = IF w = AllWrites /\ recorded
                   THEN [refs EXCEPT ![k][UnitNo(k, g, b)] = @ + 1] ELSE refs
  BY DEF Alloc, Finds, FirstGroup, Candidates, FirstBit, Avail
<1> DEFINE no == UnitNo(k, g, b)
<1>2. TypeOK /\ UsedMarked /\ UsedLow /\ UsesCut
  BY DEF IInv
<1>3. Low(b) /\ b \notin bitmap[k][g] /\ Mask(b) \cap bitmap[k][g] = {}
  BY <1>1, FindsLow
<1>4. b \in Mask(b) /\ Mask(b) \subseteq Bit
  BY <1>3, MaskLow, MaskType
<1>5. b < PerGroup[k]
  <2>1. Pinned(k, g) \subseteq bitmap[k][g]
    BY <1>2 DEF UsedMarked
  <2>2. ~(b >= PerGroup[k])
    BY <2>1, <1>3 DEF LowImage
  <2>3. b \in Int /\ PerGroup[k] \in Int
    BY SizeAssumption DEF Bit
  <2> QED
    BY <2>2, <2>3
<1>6. no \in Number(k) /\ GroupOf(k, no) = g /\ BitOf(k, no) = b
  BY <1>5, UnitRound DEF Number
<1> HIDE DEF no
<1>7. refs[k][no] \in Nat /\ cut[k][g] \in Nat
  BY <1>2, <1>6, SizeAssumption DEF TypeOK
<1>8. refs[k][no] <= cut[k][g]
  <2>1. refs[k][no] > 0 => refs[k][no] <= cut[k][g] + 0
    BY <1>2, <1>3, <1>6 DEF UsesCut
  <2> QED
    BY <2>1, <1>7
<1>9. no \notin torn[k] => refs[k][no] = 0
  <2>1. no \notin torn[k] => ~(refs[k][no] > 0)
    BY <1>2, <1>3, <1>6 DEF UsedMarked
  <2> QED
    BY <2>1, <1>7
<1>10. \/ refs' = refs
       \/ w = AllWrites /\ refs' = [refs EXCEPT ![k][no] = @ + 1]
  BY <1>1 DEF no
<1>11. Takes(k, g, b, no, w)
  BY <1>1, <1>3, <1>4, <1>6, <1>7, <1>8, <1>9, <1>10 DEF no, Takes
<1> QED
  BY <1>6, <1>11

\* An allocation, with any number of its writes done, keeps the invariant.
LEMMA AllocStep ==
  ASSUME LowImage, IInv, NEW k \in Kind, NEW w \in 1 .. AllWrites,
         NEW recorded \in BOOLEAN, Alloc(k, w, recorded)
  PROVE  IInv'
<1>1. PICK g \in Group, b \in Bit, no \in Number(k) : Takes(k, g, b, no, w)
  BY AllocEffect
<1>2. /\ Finds(k, g, b) /\ Commit(k, g, bitmap[k][g] \cup Mask(b), -1, w)
      /\ no = UnitNo(k, g, b) /\ GroupOf(k, no) = g /\ BitOf(k, no) = b
      /\ Low(b) /\ b \notin bitmap[k][g] /\ Mask(b) \cap bitmap[k][g] = {}
      /\ b \in Mask(b) /\ Mask(b) \subseteq Bit
      /\ refs[k][no] \in Nat /\ refs[k][no] <= cut[k][g]
      /\ no \notin torn[k] => refs[k][no] = 0
      /\ \/ refs' = refs
         \/ w = AllWrites /\ refs' = [refs EXCEPT ![k][no] = @ + 1]
  BY <1>1 DEF Takes
<1>3. TypeOK /\ UsedMarked /\ UsedLow /\ UsesCut /\ NoSharing /\ AssertHolds
  BY DEF IInv
<1>4. UNCHANGED <<torn, cut, halted>> /\ ~halted
  BY DEF Alloc
<1>5. bitmap' = [bitmap EXCEPT ![k][g] = bitmap[k][g] \cup Mask(b)]
  <2>1. w >= 1
    BY SizeAssumption DEF AllWrites
  <2> QED
    BY <2>1, <1>2 DEF Commit
<1>6. \A j \in Kind, h \in Group : bitmap[j][h] \subseteq bitmap'[j][h]
  BY <1>5, <1>3 DEF TypeOK
<1>7. Mask(b) \subseteq bitmap'[k][g]
  BY <1>5, <1>3 DEF TypeOK
<1>8. DOMAIN refs = Kind /\ \A j \in Kind : refs[j] \in [Number(j) -> Nat]
  BY <1>3 DEF TypeOK
<1>9. \A j \in Kind : \A n \in Number(j) :
         \/ refs'[j][n] = refs[j][n]
         \/ j = k /\ n = no /\ refs'[j][n] = refs[k][no] + 1
  BY <1>2, <1>8
<1>10. TypeOK'
  <2>1. bitmap[k][g] \cup Mask(b) \in SUBSET Bit
    BY <1>2, <1>3 DEF TypeOK
  <2>2. /\ bitmap' \in [Kind -> [Group -> SUBSET Bit]]
        /\ dfree' \in [Kind -> [Group -> 0 .. GroupMod - 1]]
        /\ free' \in [Kind -> [Group -> 0 .. GroupMod - 1]]
        /\ dtotal' \in [Kind -> 0 .. TotalMod - 1]
        /\ total' \in [Kind -> 0 .. TotalMod - 1]
    BY <1>2, <1>3, <2>1, CommitType
  <2>3. DOMAIN refs' = Kind /\ \A j \in Kind : refs'[j] \in [Number(j) -> Nat]
    BY <1>2, <1>8
  <2>4. /\ halted' \in BOOLEAN /\ torn' \in [Kind -> SUBSET Nat] /\ DOMAIN cut' = Kind
        /\ \A j \in Kind : cut'[j] \in [Group -> 0 .. MaxCut[j]]
    BY <1>3, <1>4 DEF TypeOK
  <2> QED
    BY <2>2, <2>3, <2>4 DEF TypeOK
<1>11. UsedMarked'
  <2>1. \A j \in Kind, h \in Group : Pinned(j, h) \subseteq bitmap'[j][h]
    BY <1>3, <1>6 DEF UsedMarked
  <2>2. ASSUME NEW j \in Kind, NEW n \in Number(j) \ torn'[j], refs'[j][n] > 0
        PROVE  BitOf(j, n) \in bitmap'[j][GroupOf(j, n)]
    <3>1. CASE refs'[j][n] = refs[j][n]
      BY <3>1, <2>2, <1>3, <1>4, <1>6 DEF UsedLow, UsedMarked
    <3>2. CASE j = k /\ n = no
      BY <3>2, <1>2, <1>7
    <3> QED
      BY <3>1, <3>2, <1>9
  <2> QED
    BY <2>1, <2>2 DEF UsedMarked, Pinned
<1>12. UsedLow'
  <2>1. ASSUME NEW j \in Kind, NEW n \in Number(j), refs'[j][n] > 0
        PROVE  /\ GroupOf(j, n) \in Group /\ BitOf(j, n) \in Bit /\ Low(BitOf(j, n))
               /\ Mask(BitOf(j, n)) \cap Pinned(j, GroupOf(j, n)) = {}
    <3>1. CASE refs'[j][n] = refs[j][n]
      BY <3>1, <2>1, <1>3 DEF UsedLow
    <3>2. CASE j = k /\ n = no
      <4>1. Pinned(k, g) \subseteq bitmap[k][g]
        BY <1>3 DEF UsedMarked
      <4> QED
        BY <4>1, <3>2, <1>2
    <3> QED
      BY <3>1, <3>2, <1>9
  <2> QED
    BY <2>1 DEF UsedLow, Pinned
<1>13. UsesCut'
  <2>1. ASSUME NEW j \in Kind, NEW n \in Number(j), refs'[j][n] > 0
        PROVE  refs'[j][n] <= cut[j][GroupOf(j, n)] +
                 IF BitOf(j, n) \in bitmap'[j][GroupOf(j, n)] THEN 1 ELSE 0
    <3>1. CASE refs'[j][n] = refs[j][n]
      <4>1. GroupOf(j, n) \in Group
        BY <3>1, <2>1, <1>3 DEF UsedLow
      <4>2. cut[j][GroupOf(j, n)] \in Nat /\ refs[j][n] \in Nat
        BY <4>1, <1>3, SizeAssumption DEF TypeOK
      <4>3. refs[j][n] <= cut[j][GroupOf(j, n)] +
              IF BitOf(j, n) \in bitmap[j][GroupOf(j, n)] THEN 1 ELSE 0
        BY <3>1, <2>1, <1>3 DEF UsesCut
      <4>4. bitmap[j][GroupOf(j, n)] \subseteq bitmap'[j][GroupOf(j, n)]
        BY <4>1, <1>6
      <4> QED
        BY <4>2, <4>3, <4>4, <3>1
    <3>2. CASE j = k /\ n = no /\ refs'[j][n] = refs[k][no] + 1
      <4>1. BitOf(j, n) \in bitmap'[j][GroupOf(j, n)]
        BY <3>2, <1>2, <1>7
      <4>2. refs[k][no] \in Nat /\ refs[k][no] <= cut[k][g] /\ cut[k][g] \in Nat
        BY <1>2, <1>3, SizeAssumption DEF TypeOK
      <4> QED
        BY <4>1, <4>2, <3>2, <1>2
    <3> QED
      BY <3>1, <3>2, <1>9
  <2> QED
    BY <2>1, <1>4 DEF UsesCut
<1>14. NoSharing'
  <2>1. ASSUME NEW j \in Kind, NEW n \in Number(j) \ torn[j] PROVE refs'[j][n] <= 1
    BY <1>2, <1>3, <1>9 DEF NoSharing
  <2> QED
    BY <2>1, <1>4 DEF NoSharing
<1>15. AssertHolds'
  BY <1>4 DEF AssertHolds
<1> QED
  BY <1>10, <1>11, <1>12, <1>13, <1>14, <1>15 DEF IInv

\* What a release that passes its assert does: it clears the unit's own bit
\* and those of its mask; it ends with the reference dropped, or with one more
\* unit torn.
GivesBack(k, g, b, no, w) ==
  /\ Commit(k, g, bitmap[k][g] \ Mask(b), 1, w)
  /\ ~halted /\ halted' = halted
  /\ refs[k][no] \in Nat \ {0} /\ refs[k][no] <= cut[k][g] + 1
  /\ no \notin torn[k] => refs[k][no] = 1
  /\ \/ /\ w = AllWrites /\ refs' = [refs EXCEPT ![k][no] = @ - 1]
        /\ torn' = torn /\ cut' = cut
     \/ /\ refs' = refs /\ cut[k][g] < MaxCut[k]
        /\ torn' = [torn EXCEPT ![k] = @ \cup {no}]
        /\ cut' = [cut EXCEPT ![k][g] = @ + 1]

\* Every such release does that.
LEMMA ReleaseEffect ==
  ASSUME IInv, NEW k \in Kind, NEW no \in Number(k), NEW w \in 1 .. AllWrites,
         NEW dropped \in BOOLEAN, Release(k, no, w, dropped),
         Mask(BitOf(k, no)) \cap bitmap[k][GroupOf(k, no)] # {}
  PROVE  GivesBack(k, GroupOf(k, no), BitOf(k, no), no, w)
<1> DEFINE g == GroupOf(k, no)
           b == BitOf(k, no)
<1>1. TypeOK /\ UsedLow /\ UsesCut /\ NoSharing
  BY DEF IInv
<1>2. refs[k][no] > 0 /\ refs[k][no] \in Nat
  BY <1>1 DEF Release, TypeOK
<1>3. g \in Group
  BY <1>1, <1>2 DEF UsedLow
<1>4. cut[k][g] \in Nat
  BY <1>1, <1>3, SizeAssumption DEF TypeOK
<1>5. refs[k][no] <= cut[k][g] + 1
  <2>1. refs[k][no] <= cut[k][g] + IF b \in bitmap[k][g] THEN 1 ELSE 0
    BY <1>1, <1>2 DEF UsesCut
  <2> QED
    BY <2>1, <1>2, <1>4
<1>6. no \notin torn[k] => refs[k][no] = 1
  <2>1. no \notin torn[k] => refs[k][no] <= 1
    BY <1>1 DEF NoSharing
  <2> QED
    BY <2>1, <1>2
<1>7. /\ Commit(k, g, bitmap[k][g] \ Mask(b), 1, w)
      /\ ~halted /\ halted' = halted /\ Drop(k, no, w, dropped)
  BY DEF Release
<1> QED
  BY <1>2, <1>5, <1>6, <1>7 DEF Drop, GivesBack

\* A release keeps the invariant, whether it completes, ends early or meets
\* the assert: it clears the unit's own bit and no bit of another unit.
LEMMA ReleaseStep ==
  ASSUME IInv, NEW k \in Kind, NEW no \in Number(k), NEW w \in 1 .. AllWrites,
         NEW dropped \in BOOLEAN, Release(k, no, w, dropped)
  PROVE  IInv'
<1> DEFINE g == GroupOf(k, no)
           b == BitOf(k, no)
<1>1. TypeOK /\ UsedMarked /\ UsedLow /\ UsesCut /\ NoSharing /\ AssertHolds
  BY DEF IInv
<1>2. refs[k][no] > 0
  BY DEF Release
<1>3. /\ g \in Group /\ b \in Bit /\ Low(b)
      /\ Mask(b) \cap Pinned(k, g) = {}
  BY <1>1, <1>2 DEF UsedLow
<1>4. b \in Mask(b) /\ \A c \in Bit : Low(c) /\ c \in Mask(b) => c = b
  BY <1>3, MaskLow
<1>5. CASE Mask(b) \cap bitmap[k][g] = {}
  <2>1. /\ halted' = TRUE
        /\ UNCHANGED <<bitmap, dfree, dtotal, free, total, refs, torn, cut>>
    BY <1>5 DEF Release
  <2>2. no \in torn[k] /\ b \notin bitmap[k][g]
    BY <1>1, <1>2, <1>4, <1>5 DEF UsedMarked
  <2>3. AssertHolds'
    BY <2>1, <2>2, <1>2 DEF AssertHolds
  <2> QED
    BY <2>1, <2>3, <1>1
    DEF IInv, TypeOK, UsedMarked, UsedLow, UsesCut, NoSharing, Pinned
<1>6. CASE Mask(b) \cap bitmap[k][g] # {}
  <2>0. GivesBack(k, g, b, no, w)
    <3>1. Mask(BitOf(k, no)) \cap bitmap[k][GroupOf(k, no)] # {}
      BY <1>6
    <3> QED
      BY <3>1, ReleaseEffect
  <2>1. /\ Commit(k, g, bitmap[k][g] \ Mask(b), 1, w)
        /\ ~halted /\ halted' = halted
        /\ refs[k][no] \in Nat \ {0} /\ refs[k][no] <= cut[k][g] + 1
        /\ no \notin torn[k] => refs[k][no] = 1
        /\ \/ /\ w = AllWrites /\ refs' = [refs EXCEPT ![k][no] = @ - 1]
              /\ torn' = torn /\ cut' = cut
           \/ /\ refs' = refs /\ cut[k][g] < MaxCut[k]
              /\ torn' = [torn EXCEPT ![k] = @ \cup {no}]
              /\ cut' = [cut EXCEPT ![k][g] = @ + 1]
    BY <2>0 DEF GivesBack
  <2>2. bitmap' = [bitmap EXCEPT ![k][g] = bitmap[k][g] \ Mask(b)]
    <3>1. w >= 1
      BY SizeAssumption DEF AllWrites
    <3> QED
      BY <3>1, <2>1 DEF Commit
  <2> HIDE DEF g, b
  <2>3. /\ DOMAIN refs = Kind /\ \A j \in Kind : refs[j] \in [Number(j) -> Nat]
        /\ torn \in [Kind -> SUBSET Nat] /\ DOMAIN cut = Kind
        /\ \A j \in Kind : cut[j] \in [Group -> 0 .. MaxCut[j]]
        /\ \A j \in Kind : MaxCut[j] \in Nat
    BY <1>1, SizeAssumption DEF TypeOK
  <2>4. \A j \in Kind, h \in Group :
          bitmap'[j][h] = IF j = k /\ h = g THEN bitmap[j][h] \ Mask(b) ELSE bitmap[j][h]
    BY <1>1, <1>3, <2>2 DEF TypeOK
  <2>5. /\ \A j \in Kind : \A n \in Number(j) : ~(j = k /\ n = no) => refs'[j][n] = refs[j][n]
        /\ refs'[k][no] \in {refs[k][no], refs[k][no] - 1}
        /\ \A j \in Kind : torn[j] \subseteq torn'[j]
        /\ \A j \in Kind, h \in Group : cut[j][h] <= cut'[j][h] /\ cut'[j][h] \in Nat
    <3>1. /\ \A j \in Kind : \A n \in Number(j) : ~(j = k /\ n = no) => refs'[j][n] = refs[j][n]
          /\ refs'[k][no] \in {refs[k][no], refs[k][no] - 1}
      BY <2>1, <2>3
    <3>2. \A j \in Kind : torn[j] \subseteq torn'[j]
      BY <2>1, <2>3
    <3>3. \A j \in Kind, h \in Group : cut[j][h] \in Nat /\ cut[j][h] <= cut[j][h]
      BY <2>3
    <3>4. ASSUME NEW j \in Kind, NEW h \in Group
          PROVE  cut'[j][h] = cut[j][h] \/ cut'[j][h] = cut[j][h] + 1
      BY <2>1, <2>3, <1>3
    <3>5. \A j \in Kind, h \in Group : cut[j][h] <= cut'[j][h] /\ cut'[j][h] \in Nat
      BY <3>3, <3>4
    <3> QED
      BY <3>1, <3>2, <3>5
  <2>6. \/ refs'[k][no] = refs[k][no] - 1 /\ cut'[k][g] = cut[k][g] /\ torn' = torn
        \/ refs'[k][no] = refs[k][no] /\ cut'[k][g] = cut[k][g] + 1 /\ no \in torn'[k]
    BY <2>1, <2>3, <1>3
  <2>7. TypeOK'
    <3>1. bitmap[k][g] \ Mask(b) \in SUBSET Bit
      BY <1>1, <1>3 DEF TypeOK
    <3>2. /\ bitmap' \in [Kind -> [Group -> SUBSET Bit]]
          /\ dfree' \in [Kind -> [Group -> 0 .. GroupMod - 1]]
          /\ free' \in [Kind -> [Group -> 0 .. GroupMod - 1]]
          /\ dtotal' \in [Kind -> 0 .. TotalMod - 1]
          /\ total' \in [Kind -> 0 .. TotalMod - 1]
      BY <1>1, <1>3, <2>1, <3>1, CommitType
    <3>3. DOMAIN refs' = Kind /\ \A j \in Kind : refs'[j] \in [Number(j) -> Nat]
      <4>1. refs[k][no] - 1 \in Nat
        BY <2>1
      <4> QED
        BY <4>1, <2>1, <2>3
    <3>4. halted' \in BOOLEAN
      BY <1>1, <2>1 DEF TypeOK
    <3>5. torn' \in [Kind -> SUBSET Nat]
      <4>1. no \in Nat
        BY NumberType
      <4> QED
        BY <4>1, <2>1, <2>3
    <3>6. DOMAIN cut' = Kind /\ \A j \in Kind : cut'[j] \in [Group -> 0 .. MaxCut[j]]
      <4>1. CASE cut' = cut
        BY <4>1, <2>3
      <4>2. CASE cut' = [cut EXCEPT ![k][g] = @ + 1] /\ cut[k][g] < MaxCut[k]
        <5>1. cut[k][g] + 1 \in 0 .. MaxCut[k]
          BY <4>2, <2>3, <1>3
        <5> QED
          BY <5>1, <4>2, <2>3, <1>3
      <4> QED
        BY <4>1, <4>2, <2>1
    <3> QED
      BY <3>2, <3>3, <3>4, <3>5, <3>6 DEF TypeOK
  <2>8. ASSUME NEW j \in Kind, NEW n \in Number(j), refs'[j][n] > 0, ~(j = k /\ n = no)
        PROVE  /\ GroupOf(j, n) \in Group
               /\ refs[j][n] > 0 /\ refs'[j][n] = refs[j][n]
               /\ BitOf(j, n) \in bitmap'[j][GroupOf(j, n)] <=>
                    BitOf(j, n) \in bitmap[j][GroupOf(j, n)]
    <3>1. refs[j][n] > 0 /\ refs'[j][n] = refs[j][n]
      BY <2>5, <2>8
    <3>2. GroupOf(j, n) \in Group /\ BitOf(j, n) \in Bit /\ Low(BitOf(j, n))
      BY <3>1, <1>1 DEF UsedLow
    <3>3. j = k /\ GroupOf(j, n) = g => BitOf(j, n) # b
      BY <2>8, UnitInjective DEF g, b
    <3> QED
      BY <3>1, <3>2, <3>3, <1>4, <2>4
  <2>9. UsedLow'
    <3>1. ASSUME NEW j \in Kind, NEW n \in Number(j), refs'[j][n] > 0 PROVE refs[j][n] > 0
      BY <3>1, <2>1, <2>5
    <3> QED
      BY <3>1, <1>1 DEF UsedLow, Pinned
  <2>10. UsedMarked'
    <3>1. \A j \in Kind, h \in Group : Pinned(j, h) \subseteq bitmap'[j][h]
      BY <1>1, <1>3, <2>4 DEF UsedMarked
    <3>2. ASSUME NEW j \in Kind, NEW n \in Number(j) \ torn'[j], refs'[j][n] > 0
          PROVE  BitOf(j, n) \in bitmap'[j][GroupOf(j, n)]
      <4>1. n \notin torn[j]
        BY <3>2, <2>5
      <4>2. ~(j = k /\ n = no)
        <5>1. SUFFICES ASSUME j = k, n = no PROVE FALSE
          OBVIOUS
        <5>2. refs[k][no] = 1 /\ no \notin torn'[k]
          BY <5>1, <4>1, <3>2, <2>1
        <5> QED
          BY <5>1, <5>2, <3>2, <2>6
      <4> QED
        BY <4>1, <4>2, <3>2, <2>8, <1>1 DEF UsedMarked
    <3> QED
      BY <3>1, <3>2 DEF UsedMarked, Pinned
  <2>11. UsesCut'
    <3>1. ASSUME NEW j \in Kind, NEW n \in Number(j), refs'[j][n] > 0
          PROVE  refs'[j][n] <= cut'[j][GroupOf(j, n)] +
                   IF BitOf(j, n) \in bitmap'[j][GroupOf(j, n)] THEN 1 ELSE 0
      <4>1. CASE ~(j = k /\ n = no)
        <5>1. /\ GroupOf(j, n) \in Group /\ refs[j][n] > 0 /\ refs'[j][n] = refs[j][n]
              /\ BitOf(j, n) \in bitmap'[j][GroupOf(j, n)] <=>
                   BitOf(j, n) \in bitmap[j][GroupOf(j, n)]
          BY <4>1, <3>1, <2>8
        <5>2. refs[j][n] <= cut[j][GroupOf(j, n)] +
                IF BitOf(j, n) \in bitmap[j][GroupOf(j, n)] THEN 1 ELSE 0
          BY <5>1, <1>1 DEF UsesCut
        <5>3. /\ cut[j][GroupOf(j, n)] <= cut'[j][GroupOf(j, n)]
              /\ cut[j][GroupOf(j, n)] \in Nat /\ cut'[j][GroupOf(j, n)] \in Nat
              /\ refs[j][n] \in Nat
          BY <5>1, <2>3, <2>5
        <5> QED
          BY <5>1, <5>2, <5>3
      <4>2. CASE j = k /\ n = no
        <5>1. refs'[k][no] <= cut'[k][g] + 0 /\ cut'[k][g] \in Nat /\ refs'[k][no] \in Nat
          <6>1. cut[k][g] \in Nat /\ cut'[k][g] \in Nat
            BY <2>3, <2>5, <1>3
          <6> QED
            BY <6>1, <2>1, <2>6
        <5> QED
          BY <5>1, <4>2 DEF g
      <4> QED
        BY <4>1, <4>2
    <3> QED
      BY <3>1 DEF UsesCut
  <2>12. NoSharing'
    <3>1. ASSUME NEW j \in Kind, NEW n \in Number(j) \ torn'[j] PROVE refs'[j][n] <= 1
      <4>1. refs[j][n] <= 1
        BY <2>5, <1>1 DEF NoSharing
      <4> QED
        BY <4>1, <2>1, <2>5
    <3> QED
      BY <3>1 DEF NoSharing
  <2>13. AssertHolds'
    BY <2>1 DEF AssertHolds
  <2> QED
    BY <2>7, <2>9, <2>10, <2>11, <2>12, <2>13 DEF IInv
<1> QED
  BY <1>5, <1>6

\* Mounting changes neither the bitmaps nor the references.
LEMMA MountStep ==
  ASSUME IInv, ext2_fs_mount
  PROVE  IInv'
BY DEF IInv, ext2_fs_mount, TypeOK, UsedMarked, UsedLow, UsesCut, NoSharing, AssertHolds, Pinned

-----------------------------------------------------------------------------
(* The counters: what a group's free counter may claim.                    *)

\* Sets of bits of one bitmap are finite, and not larger than it.
LEMMA BitSets ==
  ASSUME NEW S \in SUBSET Bit
  PROVE  /\ IsFiniteSet(S) /\ Cardinality(S) \in Nat
         /\ Cardinality(S) <= WordBits * MapWords /\ WordBits * MapWords \in Nat
<1>1. WordBits * MapWords \in Nat
  BY SizeAssumption
<1>2. IsFiniteSet(Bit) /\ Cardinality(Bit) = WordBits * MapWords
  <2> DEFINE last == WordBits * MapWords - 1
  <2>1. last \in Int /\ 0 \in Int
    BY <1>1
  <2>2. Bit = 0 .. last
    BY DEF Bit
  <2>3. IsFiniteSet(0 .. last) /\ Cardinality(0 .. last) = IF 0 > last THEN 0 ELSE last - 0 + 1
    <3> HIDE DEF last
    <3> QED
      BY <2>1, FS_Interval
  <2> QED
    BY <2>2, <2>3, <1>1
<1>3. IsFiniteSet(S) /\ Cardinality(S) <= Cardinality(Bit)
  BY <1>2, FS_Subset
<1>4. Cardinality(S) \in Nat
  BY <1>3, FS_CardinalityType
<1> QED
  BY <1>1, <1>2, <1>3, <1>4

\* A bitmap, with all releases that may end early, is within a counter's range.
LEMMA CounterRange ==
  ASSUME NEW k \in Kind, NEW S \in SUBSET Bit
  PROVE  Cardinality(S) + MaxCut[k] < GroupMod /\ MaxCut[k] \in Nat /\ GroupMod \in Nat
<1>1. WordBits * MapWords + MaxCut[k] < GroupMod /\ MaxCut[k] \in Nat /\ GroupMod \in Nat
  BY SizeAssumption
<1>2. /\ Cardinality(S) \in Nat /\ Cardinality(S) <= WordBits * MapWords
      /\ WordBits * MapWords \in Nat
  BY BitSets
<1> DEFINE size == WordBits * MapWords
<1> HIDE DEF size
<1> QED
  BY <1>1, <1>2 DEF size

\* Of two sets of bits the larger one has as many members.
LEMMA BitSubset ==
  ASSUME NEW S \in SUBSET Bit, NEW T \in SUBSET S
  PROVE  Cardinality(T) <= Cardinality(S)
BY BitSets, FS_Subset

\* A bit more, and a bit less.
LEMMA BitCount ==
  ASSUME NEW S \in SUBSET Bit, NEW b \in Bit
  PROVE  /\ b \notin S => Cardinality(S \cup {b}) = Cardinality(S) + 1
         /\ Cardinality(S \cup {b}) <= Cardinality(S) + 1
         /\ b \in S => Cardinality(S \ {b}) = Cardinality(S) - 1
         /\ Cardinality(S) - 1 <= Cardinality(S \ {b})
BY BitSets, FS_AddElement, FS_RemoveElement

\* The parts of a bitmap the properties count are sets of bits.
LEMMA CountedType ==
  ASSUME NEW k \in Kind, NEW g \in Group, NEW map
  PROVE  LowAvail(map) \in SUBSET Bit /\ Loose(k, g) \in SUBSET Bit
BY DEF LowAvail, Avail, Loose

\* A bit of a group that is not pinned is a unit with a number of its own.
LEMMA UnpinnedUnit ==
  ASSUME LowImage, NEW k \in Kind, NEW g \in Group, NEW b \in Bit, b \notin Pinned(k, g)
  PROVE  /\ b < PerGroup[k] /\ UnitNo(k, g, b) \in Number(k)
         /\ GroupOf(k, UnitNo(k, g, b)) = g /\ BitOf(k, UnitNo(k, g, b)) = b
<1>1. ~(b >= PerGroup[k])
  BY DEF LowImage
<1>2. b \in Int /\ PerGroup[k] \in Int
  BY SizeAssumption DEF Bit
<1>3. b < PerGroup[k]
  BY <1>1, <1>2
<1> QED
  BY <1>3, UnitRound DEF Number

\* The pairs that stand for the uses of a set of units, m for each at most.
Pairs(f, S, m) == {p \in S \X (1 .. m) : p[2] <= f[p[1]]}

\* They are finitely many.
LEMMA PairsFinite ==
  ASSUME NEW S, IsFiniteSet(S), NEW m \in Nat, NEW f
  PROVE  IsFiniteSet(Pairs(f, S, m)) /\ Cardinality(Pairs(f, S, m)) \in Nat
<1>1. IsFiniteSet(1 .. m)
  BY FS_Interval
<1>2. IsFiniteSet(S \X (1 .. m))
  BY <1>1, FS_Product
<1>3. IsFiniteSet(Pairs(f, S, m))
  BY <1>2, FS_Subset DEF Pairs
<1> QED
  BY <1>3, FS_CardinalityType

\* One use more is one pair more.
LEMMA PairsMore ==
  ASSUME NEW S, IsFiniteSet(S), NEW m \in Nat, NEW f, NEW h, NEW b \in S,
         \A c \in S : f[c] \in Nat, f[b] < m, h[b] = f[b] + 1,
         \A c \in S : c # b => h[c] = f[c]
  PROVE  Cardinality(Pairs(h, S, m)) = Cardinality(Pairs(f, S, m)) + 1
<1> DEFINE p == <<b, f[b] + 1>>
<1>1. f[b] + 1 \in 1 .. m
  OBVIOUS
<1>2. p \notin Pairs(f, S, m)
  BY <1>1 DEF Pairs
<1>3. Pairs(h, S, m) = Pairs(f, S, m) \cup {p}
  <2>1. ASSUME NEW q \in S \X (1 .. m)
        PROVE  q[2] <= h[q[1]] <=> (q[2] <= f[q[1]] \/ q = p)
    <3>1. q[1] \in S /\ q[2] \in 1 .. m /\ q = <<q[1], q[2]>>
      OBVIOUS
    <3>2. CASE q[1] = b
      BY <3>1, <3>2
    <3>3. CASE q[1] # b
      BY <3>1, <3>3
    <3> QED
      BY <3>2, <3>3
  <2>2. p \in S \X (1 .. m)
    BY <1>1
  <2> HIDE DEF p
  <2> QED
    BY <2>1, <2>2 DEF Pairs
<1>4. IsFiniteSet(Pairs(f, S, m))
  BY PairsFinite
<1> QED
  BY <1>2, <1>3, <1>4, FS_AddElement

\* The uses of the units of a group are such pairs.
UseOf(k, g) == [b \in Bit |-> refs[k][UnitNo(k, g, b)]]

\* The uses of a group are finitely many.
LEMMA UsesPairs ==
  ASSUME NEW k \in Kind, NEW g \in Group
  PROVE  /\ Uses(k, g) = Pairs(UseOf(k, g), Loose(k, g), MaxCut[k] + 1)
         /\ Uses(k, g)' = Pairs(UseOf(k, g)', Loose(k, g), MaxCut[k] + 1)
         /\ IsFiniteSet(Loose(k, g)) /\ MaxCut[k] + 1 \in Nat
         /\ Cardinality(Uses(k, g)) \in Nat /\ Cardinality(Uses(k, g)') \in Nat
<1>1. Loose(k, g) \subseteq Bit
  BY CountedType
<1>2. Uses(k, g) = Pairs(UseOf(k, g), Loose(k, g), MaxCut[k] + 1)
  <2>1. \A p \in Loose(k, g) \X (1 .. MaxCut[k] + 1) :
          UseOf(k, g)[p[1]] = refs[k][UnitNo(k, g, p[1])]
    BY <1>1 DEF UseOf
  <2> QED
    BY <2>1 DEF Uses, Pairs
<1>3. Uses(k, g)' = Pairs(UseOf(k, g)', Loose(k, g), MaxCut[k] + 1)
  <2>1. \A p \in Loose(k, g) \X (1 .. MaxCut[k] + 1) :
          UseOf(k, g)'[p[1]] = refs'[k][UnitNo(k, g, p[1])]
    BY <1>1 DEF UseOf
  <2>2. Uses(k, g)' = {p \in Loose(k, g) \X (1 .. MaxCut[k] + 1) :
                         p[2] <= refs'[k][UnitNo(k, g, p[1])]}
    BY DEF Uses, Loose, Pinned
  <2> QED
    BY <2>1, <2>2 DEF Pairs
<1>4. IsFiniteSet(Loose(k, g)) /\ MaxCut[k] + 1 \in Nat
  BY <1>1, BitSets, SizeAssumption
<1> QED
  BY <1>2, <1>3, <1>4, PairsFinite

\* The uses of a group count one more or one less when a unit of it does.
LEMMA UsesChange ==
  ASSUME LowImage, TypeOK, TypeOK', NEW k \in Kind, NEW no \in Number(k),
         NEW g \in Group, NEW b \in Bit, b \notin Pinned(k, g), no = UnitNo(k, g, b),
         \A j \in Kind : \A n \in Number(j) : ~(j = k /\ n = no) => refs'[j][n] = refs[j][n]
  PROVE  /\ refs'[k][no] = refs[k][no] + 1 /\ refs[k][no] <= MaxCut[k] =>
              Cardinality(Uses(k, g)') = Cardinality(Uses(k, g)) + 1
         /\ refs'[k][no] = refs[k][no] - 1 /\ refs[k][no] <= MaxCut[k] + 1 =>
              Cardinality(Uses(k, g)') = Cardinality(Uses(k, g)) - 1
         /\ \A j \in Kind, h \in Group : ~(j = k /\ h = g) => Uses(j, h)' = Uses(j, h)
<1>1. \A j \in Kind, h \in Group : \A c \in Loose(j, h) :
        /\ UnitNo(j, h, c) \in Number(j) /\ GroupOf(j, UnitNo(j, h, c)) = h
        /\ BitOf(j, UnitNo(j, h, c)) = c
  BY UnpinnedUnit DEF Loose
<1>2. b \in Loose(k, g)
  BY DEF Loose
<1>3. \A j \in Kind, h \in Group : \A c \in Loose(j, h) :
        ~(j = k /\ h = g /\ c = b) => refs'[j][UnitNo(j, h, c)] = refs[j][UnitNo(j, h, c)]
  BY <1>1, <1>2
<1>4. /\ \A j \in Kind : \A n \in Number(j) : refs[j][n] \in Nat /\ refs'[j][n] \in Nat
      /\ MaxCut[k] \in Nat
  BY SizeAssumption DEF TypeOK
<1> DEFINE f == UseOf(k, g)
           h == UseOf(k, g)'
           S == Loose(k, g)
           m == MaxCut[k] + 1
<1>5. /\ Uses(k, g) = Pairs(f, S, m) /\ Uses(k, g)' = Pairs(h, S, m)
      /\ IsFiniteSet(S) /\ m \in Nat
      /\ Cardinality(Uses(k, g)) \in Nat /\ Cardinality(Uses(k, g)') \in Nat
  BY UsesPairs
<1>6. /\ \A c \in S : f[c] \in Nat /\ h[c] \in Nat
      /\ f[b] = refs[k][no] /\ h[b] = refs'[k][no]
      /\ \A c \in S : c # b => h[c] = f[c]
  BY <1>1, <1>2, <1>3, <1>4, CountedType DEF UseOf, Loose
<1>7. ASSUME NEW j \in Kind, NEW i \in Group, ~(j = k /\ i = g) PROVE Uses(j, i)' = Uses(j, i)
  <2>1. \A p \in Loose(j, i) \X (1 .. MaxCut[j] + 1) :
          refs'[j][UnitNo(j, i, p[1])] = refs[j][UnitNo(j, i, p[1])]
    BY <1>3, <1>7
  <2> QED
    BY <2>1 DEF Uses, Loose, Pinned
<1> HIDE DEF f, h, S
<1>8. ASSUME refs'[k][no] = refs[k][no] + 1, refs[k][no] <= MaxCut[k]
      PROVE  Cardinality(Pairs(h, S, m)) = Cardinality(Pairs(f, S, m)) + 1
  <2>1. f[b] < m /\ h[b] = f[b] + 1 /\ b \in S
    BY <1>2, <1>4, <1>6, <1>8 DEF S
  <2> HIDE DEF m
  <2> QED
    BY <2>1, <1>5, <1>6, PairsMore
<1>9. ASSUME refs'[k][no] = refs[k][no] - 1, refs[k][no] <= MaxCut[k] + 1
      PROVE  Cardinality(Pairs(f, S, m)) = Cardinality(Pairs(h, S, m)) + 1
  <2>1. h[b] < m /\ f[b] = h[b] + 1 /\ b \in S /\ \A c \in S : c # b => f[c] = h[c]
    BY <1>2, <1>4, <1>6, <1>9 DEF S
  <2> HIDE DEF m
  <2> QED
    BY <2>1, <1>5, <1>6, PairsMore
<1> QED
  BY <1>5, <1>7, <1>8, <1>9

\* What the write sequence leaves behind: it changes one group of one kind, a
\* group's entry on the device is its old value or the one in memory, and all
\* entries are written when the sequence runs to its end.
Written(k, g, map, d, w) ==
  /\ bitmap'[k][g] = map
  /\ free'[k][g] = (free[k][g] + d) % GroupMod
  /\ \A j \in Kind, h \in Group :
       ~(j = k /\ h = g) => bitmap'[j][h] = bitmap[j][h] /\ free'[j][h] = free[j][h]
  /\ \A j \in Kind, h \in Group :
       /\ dfree'[j][h] = free'[j][h] \/ dfree'[j][h] = dfree[j][h]
       /\ w = AllWrites => dfree'[j][h] = free'[j][h]

\* Every run of the write sequence does that.
LEMMA CommitWrites ==
  ASSUME TypeOK, NEW k \in Kind, NEW g \in Group, NEW map \in SUBSET Bit,
         NEW d \in {-1, 1}, NEW w \in 1 .. AllWrites, Commit(k, g, map, d, w)
  PROVE  Written(k, g, map, d, w)
<1>1. w >= 1
  BY SizeAssumption DEF AllWrites
<1>2. bitmap' = [bitmap EXCEPT ![k][g] = map]
  BY <1>1 DEF Commit
<1>3. /\ free'[k][g] = (free[k][g] + d) % GroupMod
      /\ \A j \in Kind, h \in Group : ~(j = k /\ h = g) => free'[j][h] = free[j][h]
  <2> DEFINE v == (free[k][g] + d) % GroupMod
  <2>1. free' = [free EXCEPT ![k][g] = v]
    BY <1>1 DEF Commit
  <2> HIDE DEF v
  <2>2. /\ free'[k][g] = v
        /\ \A j \in Kind, h \in Group : ~(j = k /\ h = g) => free'[j][h] = free[j][h]
    BY <2>1 DEF TypeOK
  <2> QED
    BY <2>2 DEF v
<1>4. \A j \in Kind, h \in Group :
        dfree'[j][h] = IF w >= 2 + DescBlock[h] THEN free'[j][h] ELSE dfree[j][h]
  BY DEF Commit
<1>5. \A h \in Group : w = AllWrites => w >= 2 + DescBlock[h]
  BY SizeAssumption DEF AllWrites
<1> QED
  BY <1>2, <1>3, <1>4, <1>5 DEF TypeOK, Written

\* The types of what the counters' invariants compare.
LEMMA CounterTypes ==
  ASSUME TypeOK, NEW k \in Kind, NEW g \in Group
  PROVE  /\ free[k][g] \in Nat /\ dfree[k][g] \in Nat
         /\ cut[k][g] \in Nat /\ cut[k][g] <= MaxCut[k]
         /\ Cardinality(LowAvail(bitmap[k][g])) \in Nat
         /\ Cardinality(Loose(k, g)) \in Nat /\ Cardinality(Uses(k, g)) \in Nat
<1>1. free[k][g] \in Nat /\ dfree[k][g] \in Nat /\ cut[k][g] \in Nat /\ cut[k][g] <= MaxCut[k]
  BY SizeAssumption DEF TypeOK
<1> QED
  BY <1>1, CountedType, BitSets, UsesPairs

\* The counters' invariants hold in the next state when they hold for the group
\* that changed: its counter is worth what it was worth before, in memory, and
\* on the device as well or as before.
LEMMA CountersStep ==
  ASSUME NoFalseENOSPC, CounterHonest, TypeOK, TypeOK',
         NEW k \in Kind, NEW g \in Group, NEW map, NEW d, NEW w, Written(k, g, map, d, w),
         \A j \in Kind, h \in Group : ~(j = k /\ h = g) =>
           Uses(j, h)' = Uses(j, h) /\ cut'[j][h] = cut[j][h],
         Cardinality(LowAvail(map)) <= free'[k][g] + cut'[k][g],
         Cardinality(LowAvail(map)) <= dfree'[k][g] + cut'[k][g],
         free'[k][g] + Cardinality(Uses(k, g)') <= Cardinality(Loose(k, g)) + cut'[k][g],
         dfree'[k][g] + Cardinality(Uses(k, g)') <= Cardinality(Loose(k, g)) + cut'[k][g]
  PROVE  NoFalseENOSPC' /\ CounterHonest'
<1>1. ASSUME NEW j \in Kind, NEW h \in Group
      PROVE  /\ Cardinality(LowAvail(bitmap'[j][h])) <= free'[j][h] + cut'[j][h]
             /\ Cardinality(LowAvail(bitmap'[j][h])) <= dfree'[j][h] + cut'[j][h]
             /\ free'[j][h] + Cardinality(Uses(j, h)') <= Cardinality(Loose(j, h)) + cut'[j][h]
             /\ dfree'[j][h] + Cardinality(Uses(j, h)') <= Cardinality(Loose(j, h)) + cut'[j][h]
  <2>1. CASE j = k /\ h = g
    BY <2>1 DEF Written
  <2>2. CASE ~(j = k /\ h = g)
    <3>1. /\ bitmap'[j][h] = bitmap[j][h] /\ free'[j][h] = free[j][h]
          /\ dfree'[j][h] = free'[j][h] \/ dfree'[j][h] = dfree[j][h]
          /\ Uses(j, h)' = Uses(j, h) /\ cut'[j][h] = cut[j][h]
      BY <2>2 DEF Written
    <3> QED
      BY <3>1 DEF NoFalseENOSPC, CounterHonest
  <2> QED
    BY <2>1, <2>2
<1>2. \A j \in Kind, h \in Group : Loose(j, h)' = Loose(j, h)
  BY DEF Loose, Pinned
<1> QED
  BY <1>1, <1>2 DEF NoFalseENOSPC, CounterHonest

\* The counters lie between the clear bits and the unused units after an
\* allocation: the bit it takes is counted by both.
LEMMA AllocCounters ==
  ASSUME LowImage, IInv, NoFalseENOSPC, CounterHonest,
         NEW k \in Kind, NEW w \in 1 .. AllWrites,
         NEW recorded \in BOOLEAN, Alloc(k, w, recorded)
  PROVE  NoFalseENOSPC' /\ CounterHonest'
<1>1. PICK g \in Group, b \in Bit, no \in Number(k) : Takes(k, g, b, no, w)
  BY AllocEffect
<1>2. /\ Finds(k, g, b) /\ Commit(k, g, bitmap[k][g] \cup Mask(b), -1, w)
      /\ no = UnitNo(k, g, b) /\ GroupOf(k, no) = g /\ BitOf(k, no) = b
      /\ Low(b) /\ b \notin bitmap[k][g] /\ Mask(b) \cap bitmap[k][g] = {}
      /\ b \in Mask(b) /\ Mask(b) \subseteq Bit
      /\ refs[k][no] \in Nat /\ refs[k][no] <= cut[k][g]
      /\ no \notin torn[k] => refs[k][no] = 0
      /\ \/ refs' = refs
         \/ w = AllWrites /\ refs' = [refs EXCEPT ![k][no] = @ + 1]
  BY <1>1 DEF Takes
<1>3. TypeOK /\ TypeOK' /\ UsedMarked
  BY AllocStep DEF IInv
<1>4. cut' = cut
  BY DEF Alloc
<1> DEFINE map == bitmap[k][g] \cup Mask(b)
<1>5. map \in SUBSET Bit
  BY <1>2, <1>3 DEF TypeOK
<1> HIDE DEF map
<1>6. Written(k, g, map, -1, w)
  BY <1>2, <1>3, <1>5, CommitWrites DEF map
<1>7. /\ free[k][g] \in Nat /\ dfree[k][g] \in Nat /\ dfree'[k][g] \in Nat
      /\ cut[k][g] \in Nat /\ cut[k][g] <= MaxCut[k] /\ MaxCut[k] \in Nat
      /\ Cardinality(LowAvail(bitmap[k][g])) \in Nat
      /\ Cardinality(Loose(k, g)) \in Nat /\ Cardinality(Uses(k, g)) \in Nat
      /\ Cardinality(Uses(k, g)') \in Nat /\ Cardinality(LowAvail(map)) \in Nat
  BY <1>3, CounterTypes, UsesPairs, CountedType, BitSets, SizeAssumption DEF TypeOK
<1>8. free'[k][g] = free[k][g] - 1
  <2>1. free[k][g] > 0
    BY <1>2 DEF Finds, FirstGroup, Candidates
  <2>2. free[k][g] - 1 \in Nat /\ free[k][g] - 1 < GroupMod /\ GroupMod \in Nat \ {0}
    BY <2>1, <1>3, SizeAssumption DEF TypeOK
  <2>3. free[k][g] + (-1) = free[k][g] - 1
    BY <1>7
  <2> QED
    BY <2>2, <2>3, <1>6, SmallMod DEF Written
<1>9. Cardinality(LowAvail(map)) <= Cardinality(LowAvail(bitmap[k][g])) - 1
  <2> DEFINE old == LowAvail(bitmap[k][g])
             new == LowAvail(map)
  <2>1. b \in old
    BY <1>2 DEF LowAvail, Avail
  <2>2. new \subseteq old \ {b}
    BY <1>2 DEF LowAvail, Avail, map
  <2>3. old \in SUBSET Bit /\ new \in SUBSET Bit
    BY CountedType
  <2> HIDE DEF old, new
  <2>4. Cardinality(new) <= Cardinality(old \ {b})
    BY <2>2, <2>3, BitSubset
  <2>5. Cardinality(new) <= Cardinality(old) - 1
    BY <2>1, <2>3, <2>4, BitCount
  <2> QED
    BY <2>5 DEF old, new
<1>10. b \notin Pinned(k, g)
  BY <1>2, <1>3 DEF UsedMarked
<1>11. DOMAIN refs = Kind /\ \A j \in Kind : refs[j] \in [Number(j) -> Nat]
  BY <1>3 DEF TypeOK
<1>12. \A j \in Kind : \A n \in Number(j) : ~(j = k /\ n = no) => refs'[j][n] = refs[j][n]
  BY <1>2, <1>11
<1>13. /\ refs'[k][no] = refs[k][no] + 1 => Cardinality(Uses(k, g)') = Cardinality(Uses(k, g)) + 1
       /\ \A j \in Kind, h \in Group : ~(j = k /\ h = g) => Uses(j, h)' = Uses(j, h)
  BY <1>2, <1>3, <1>7, <1>10, <1>12, UsesChange
<1>14. \/ Cardinality(Uses(k, g)') = Cardinality(Uses(k, g))
       \/ Cardinality(Uses(k, g)') = Cardinality(Uses(k, g)) + 1 /\ dfree'[k][g] = free'[k][g]
  <2>1. CASE refs' = refs
    BY <2>1 DEF Uses, Loose, Pinned
  <2>2. CASE w = AllWrites /\ refs' = [refs EXCEPT ![k][no] = @ + 1]
    <3>1. refs'[k][no] = refs[k][no] + 1
      BY <2>2, <1>11
    <3> QED
      BY <3>1, <2>2, <1>6, <1>13 DEF Written
  <2> QED
    BY <2>1, <2>2, <1>2
<1>15. dfree'[k][g] = free'[k][g] \/ dfree'[k][g] = dfree[k][g]
  BY <1>6 DEF Written
<1>16. /\ Cardinality(LowAvail(bitmap[k][g])) <= free[k][g] + cut[k][g]
       /\ Cardinality(LowAvail(bitmap[k][g])) <= dfree[k][g] + cut[k][g]
       /\ free[k][g] + Cardinality(Uses(k, g)) <= Cardinality(Loose(k, g)) + cut[k][g]
       /\ dfree[k][g] + Cardinality(Uses(k, g)) <= Cardinality(Loose(k, g)) + cut[k][g]
  BY DEF NoFalseENOSPC, CounterHonest
<1>17. /\ Cardinality(LowAvail(map)) <= free'[k][g] + cut'[k][g]
       /\ Cardinality(LowAvail(map)) <= dfree'[k][g] + cut'[k][g]
       /\ free'[k][g] + Cardinality(Uses(k, g)') <= Cardinality(Loose(k, g)) + cut'[k][g]
       /\ dfree'[k][g] + Cardinality(Uses(k, g)') <= Cardinality(Loose(k, g)) + cut'[k][g]
  BY <1>4, <1>7, <1>8, <1>9, <1>14, <1>15, <1>16
<1> QED
  BY <1>3, <1>4, <1>6, <1>13, <1>17, CountersStep

\* And after a release, complete or not: the unit it gives back is counted by
\* both, one that ends early is counted by cut, and the 16-bit counter cannot
\* wrap.
LEMMA ReleaseCounters ==
  ASSUME LowImage, IInv, NoFalseENOSPC, CounterHonest,
         NEW k \in Kind, NEW no \in Number(k), NEW w \in 1 .. AllWrites,
         NEW dropped \in BOOLEAN, Release(k, no, w, dropped)
  PROVE  NoFalseENOSPC' /\ CounterHonest'
<1> DEFINE g == GroupOf(k, no)
           b == BitOf(k, no)
<1>1. TypeOK /\ UsedLow /\ TypeOK'
  BY ReleaseStep DEF IInv
<1>2. refs[k][no] > 0
  BY DEF Release
<1>3. /\ g \in Group /\ b \in Bit /\ Low(b)
      /\ Mask(b) \cap Pinned(k, g) = {}
  BY <1>1, <1>2 DEF UsedLow
<1>4. CASE Mask(b) \cap bitmap[k][g] = {}
  <2>1. UNCHANGED <<bitmap, dfree, free, refs, cut>>
    BY <1>4 DEF Release
  <2> QED
    BY <2>1 DEF NoFalseENOSPC, CounterHonest, Uses, Loose, Pinned
<1>5. CASE Mask(b) \cap bitmap[k][g] # {}
  <2>0. GivesBack(k, g, b, no, w)
    <3>1. Mask(BitOf(k, no)) \cap bitmap[k][GroupOf(k, no)] # {}
      BY <1>5
    <3> QED
      BY <3>1, ReleaseEffect
  <2>1. /\ Commit(k, g, bitmap[k][g] \ Mask(b), 1, w)
        /\ ~halted /\ halted' = halted
        /\ refs[k][no] \in Nat \ {0} /\ refs[k][no] <= cut[k][g] + 1
        /\ no \notin torn[k] => refs[k][no] = 1
        /\ \/ /\ w = AllWrites /\ refs' = [refs EXCEPT ![k][no] = @ - 1]
              /\ torn' = torn /\ cut' = cut
           \/ /\ refs' = refs /\ cut[k][g] < MaxCut[k]
              /\ torn' = [torn EXCEPT ![k] = @ \cup {no}]
              /\ cut' = [cut EXCEPT ![k][g] = @ + 1]
    BY <2>0 DEF GivesBack
  <2>2. b \notin Pinned(k, g)
    BY <1>3, MaskLow
  <2>3. UnitNo(k, g, b) = no
    <3>1. /\ UnitNo(k, g, b) \in Number(k)
          /\ GroupOf(k, UnitNo(k, g, b)) = g /\ BitOf(k, UnitNo(k, g, b)) = b
      BY <1>3, <2>2, UnpinnedUnit
    <3> QED
      BY <3>1, UnitInjective
  <2> DEFINE map == bitmap[k][g] \ Mask(b)
  <2>4. map \in SUBSET Bit
    BY <1>1, <1>3 DEF TypeOK
  <2> HIDE DEF map, g, b
  <2>5. Written(k, g, map, 1, w)
    BY <1>1, <1>3, <2>1, <2>4, CommitWrites DEF map
  <2>6. /\ free[k][g] \in Nat /\ dfree[k][g] \in Nat /\ dfree'[k][g] \in Nat
        /\ cut[k][g] \in Nat /\ cut[k][g] <= MaxCut[k] /\ MaxCut[k] \in Nat
        /\ Cardinality(LowAvail(bitmap[k][g])) \in Nat
        /\ Cardinality(Loose(k, g)) \in Nat /\ Cardinality(Uses(k, g)) \in Nat
        /\ Cardinality(Uses(k, g)') \in Nat /\ Cardinality(LowAvail(map)) \in Nat
    BY <1>1, <1>3, CounterTypes, UsesPairs, CountedType, BitSets, SizeAssumption DEF TypeOK
  <2>7. /\ DOMAIN refs = Kind /\ \A j \in Kind : refs[j] \in [Number(j) -> Nat]
        /\ DOMAIN cut = Kind /\ \A j \in Kind : cut[j] \in [Group -> 0 .. MaxCut[j]]
    BY <1>1 DEF TypeOK
  <2>8. /\ \A j \in Kind : \A n \in Number(j) : ~(j = k /\ n = no) => refs'[j][n] = refs[j][n]
        /\ \A j \in Kind, h \in Group : ~(j = k /\ h = g) => cut'[j][h] = cut[j][h]
    BY <2>1, <2>7, <1>3
  <2>9. /\ refs'[k][no] = refs[k][no] + 1 /\ refs[k][no] <= MaxCut[k] =>
              Cardinality(Uses(k, g)') = Cardinality(Uses(k, g)) + 1
        /\ refs'[k][no] = refs[k][no] - 1 /\ refs[k][no] <= MaxCut[k] + 1 =>
              Cardinality(Uses(k, g)') = Cardinality(Uses(k, g)) - 1
        /\ \A j \in Kind, h \in Group : ~(j = k /\ h = g) => Uses(j, h)' = Uses(j, h)
    BY <1>1, <1>3, <2>2, <2>3, <2>8, UsesChange
  <2>10. \/ /\ dfree'[k][g] = free'[k][g] /\ cut'[k][g] = cut[k][g]
            /\ Cardinality(Uses(k, g)') = Cardinality(Uses(k, g)) - 1
         \/ /\ Cardinality(Uses(k, g)') = Cardinality(Uses(k, g))
            /\ cut'[k][g] = cut[k][g] + 1 /\ cut'[k][g] <= MaxCut[k]
    <3>1. CASE w = AllWrites /\ refs' = [refs EXCEPT ![k][no] = @ - 1] /\ cut' = cut
      <4>1. refs'[k][no] = refs[k][no] - 1 /\ refs[k][no] <= MaxCut[k] + 1
        BY <3>1, <2>1, <2>6, <2>7
      <4> QED
        BY <4>1, <3>1, <1>3, <2>5, <2>6, <2>9 DEF Written
    <3>2. CASE refs' = refs /\ cut[k][g] < MaxCut[k] /\ cut' = [cut EXCEPT ![k][g] = @ + 1]
      <4>1. Uses(k, g)' = Uses(k, g)
        BY <3>2 DEF Uses, Loose, Pinned
      <4>2. cut'[k][g] = cut[k][g] + 1
        BY <3>2, <2>7, <1>3
      <4> QED
        BY <4>1, <4>2, <3>2, <2>6
    <3> QED
      BY <3>1, <3>2, <2>1
  <2>11. /\ Cardinality(LowAvail(bitmap[k][g])) <= free[k][g] + cut[k][g]
         /\ Cardinality(LowAvail(bitmap[k][g])) <= dfree[k][g] + cut[k][g]
         /\ free[k][g] + Cardinality(Uses(k, g)) <= Cardinality(Loose(k, g)) + cut[k][g]
         /\ dfree[k][g] + Cardinality(Uses(k, g)) <= Cardinality(Loose(k, g)) + cut[k][g]
    BY <1>3 DEF NoFalseENOSPC, CounterHonest
  <2>12. free'[k][g] = free[k][g] + 1
    <3>1. Cardinality(Loose(k, g)) + MaxCut[k] < GroupMod /\ GroupMod \in Nat
      BY <1>3, CountedType, CounterRange
    <3>2. free[k][g] + 1 \in Nat /\ free[k][g] + 1 < GroupMod /\ GroupMod \in Nat \ {0}
      BY <3>1, <2>6, <2>10, <2>11
    <3> QED
      BY <3>2, <2>5, SmallMod DEF Written
  <2>13. Cardinality(LowAvail(map)) <= Cardinality(LowAvail(bitmap[k][g])) + 1
    <3> DEFINE old == LowAvail(bitmap[k][g])
               new == LowAvail(map)
    <3>1. ASSUME NEW c \in new, c # b PROVE c \in old
      <4>1. c \in Bit /\ Low(c) /\ Mask(c) \cap map = {}
        BY <3>1 DEF LowAvail, Avail
      <4>2. Mask(c) \cap Mask(b) = {}
        BY <3>1, <4>1, <1>3, MaskDisjoint
      <4> QED
        BY <4>1, <4>2 DEF LowAvail, Avail, map
    <3>2. old \in SUBSET Bit /\ new \in SUBSET Bit /\ old \cup {b} \in SUBSET Bit
      BY <1>3, CountedType
    <3> HIDE DEF old, new
    <3>3. Cardinality(new) <= Cardinality(old \cup {b})
      BY <3>1, <3>2, BitSubset
    <3>4. /\ Cardinality(old \cup {b}) <= Cardinality(old) + 1
          /\ Cardinality(old \cup {b}) \in Nat /\ Cardinality(old) \in Nat
          /\ Cardinality(new) \in Nat
      BY <1>3, <3>2, BitCount, BitSets
    <3>5. Cardinality(new) <= Cardinality(old) + 1
      BY <3>3, <3>4
    <3> QED
      BY <3>5 DEF old, new
  <2>14. dfree'[k][g] = free'[k][g] \/ dfree'[k][g] = dfree[k][g]
    BY <1>3, <2>5 DEF Written
  <2>15. /\ Cardinality(LowAvail(map)) <= free'[k][g] + cut'[k][g]
         /\ Cardinality(LowAvail(map)) <= dfree'[k][g] + cut'[k][g]
         /\ free'[k][g] + Cardinality(Uses(k, g)') <= Cardinality(Loose(k, g)) + cut'[k][g]
         /\ dfree'[k][g] + Cardinality(Uses(k, g)') <= Cardinality(Loose(k, g)) + cut'[k][g]
    BY <2>6, <2>10, <2>11, <2>12, <2>13, <2>14
  <2> QED
    BY <1>1, <1>3, <2>5, <2>8, <2>9, <2>15, CountersStep
<1> QED
  BY <1>4, <1>5

\* At the first mount the counters are the clear bits of the image.
LEMMA InitCounters ==
  ASSUME LowImage, Init
  PROVE  NoFalseENOSPC /\ CounterHonest
<1>1. ASSUME NEW k \in Kind, NEW g \in Group
      PROVE  /\ Cardinality(LowAvail(bitmap[k][g])) <= free[k][g] + cut[k][g]
             /\ free[k][g] + Cardinality(Uses(k, g)) <= Cardinality(Loose(k, g)) + cut[k][g]
             /\ dfree[k][g] = free[k][g]
  <2> DEFINE clear == Bit \ Marked[k][g]
             kept == Loose(k, g) \cap Marked[k][g]
  <2>1. /\ free[k][g] = Cardinality(clear) /\ dfree[k][g] = free[k][g]
        /\ bitmap = Marked /\ cut[k][g] = 0
    BY DEF Init
  <2>2. /\ clear \in SUBSET Bit /\ kept \in SUBSET Bit /\ LowAvail(bitmap[k][g]) \subseteq clear
    BY <2>1, CountedType, MaskLow DEF LowAvail, Avail
  <2>3. Loose(k, g) = clear \cup kept /\ clear \cap kept = {}
    BY ImageAssumption DEF Loose, Pinned
  <2>4. Uses(k, g) \subseteq kept \X (1 .. 1)
    <3>1. SUFFICES ASSUME NEW p \in Uses(k, g) PROVE p \in kept \X (1 .. 1)
      OBVIOUS
    <3>2. /\ p = <<p[1], p[2]>> /\ p[1] \in Loose(k, g) /\ p[2] \in Nat \ {0}
          /\ p[2] <= refs[k][UnitNo(k, g, p[1])]
      BY <3>1 DEF Uses
    <3>3. /\ UnitNo(k, g, p[1]) \in Number(k) /\ GroupOf(k, UnitNo(k, g, p[1])) = g
          /\ BitOf(k, UnitNo(k, g, p[1])) = p[1]
      BY <3>2, UnpinnedUnit DEF Loose
    <3>4. UnitNo(k, g, p[1]) \in Held[k] /\ p[2] = 1
      <4>1. refs[k][UnitNo(k, g, p[1])] = IF UnitNo(k, g, p[1]) \in Held[k] THEN 1 ELSE 0
        BY <3>3 DEF Init
      <4> QED
        BY <4>1, <3>2
    <3>5. p[1] \in Marked[k][g]
      BY <3>3, <3>4 DEF LowImage
    <3> QED
      BY <3>2, <3>4, <3>5
  <2> HIDE DEF clear, kept
  <2>5. /\ IsFiniteSet(clear) /\ IsFiniteSet(kept)
        /\ Cardinality(clear) \in Nat /\ Cardinality(kept) \in Nat
    BY <2>2, BitSets
  <2>6. Cardinality(Loose(k, g)) = Cardinality(clear) + Cardinality(kept)
    <3>1. Cardinality(clear \cup kept) =
            Cardinality(clear) + Cardinality(kept) - Cardinality(clear \cap kept)
      BY <2>5, FS_Union
    <3>2. Cardinality(clear \cap kept) = 0
      BY <2>3, FS_EmptySet
    <3> QED
      BY <3>1, <3>2, <2>3, <2>5
  <2>7. Cardinality(Uses(k, g)) <= Cardinality(kept)
    <3>1. IsFiniteSet(1 .. 1) /\ Cardinality(1 .. 1) = 1
      <4>1. 1 .. 1 = {1}
        OBVIOUS
      <4> QED
        BY <4>1, FS_Singleton
    <3>2. /\ IsFiniteSet(kept \X (1 .. 1))
          /\ Cardinality(kept \X (1 .. 1)) = Cardinality(kept) * 1
      BY <3>1, <2>5, FS_Product
    <3>3. Cardinality(Uses(k, g)) <= Cardinality(kept \X (1 .. 1))
      BY <3>2, <2>4, FS_Subset
    <3> QED
      BY <3>2, <3>3, <2>5
  <2>8. Cardinality(LowAvail(bitmap[k][g])) <= Cardinality(clear)
    BY <2>2, BitSubset
  <2>9. Cardinality(Uses(k, g)) \in Nat /\ Cardinality(LowAvail(bitmap[k][g])) \in Nat
    BY UsesPairs, CountedType, BitSets
  <2> QED
    BY <2>1, <2>5, <2>6, <2>7, <2>8, <2>9
<1> QED
  BY <1>1 DEF NoFalseENOSPC, CounterHonest

\* Every step keeps the counters between the clear bits and the unused units.
LEMMA NextCounters ==
  ASSUME LowImage, IInv, NoFalseENOSPC, CounterHonest, [Next]_vars
  PROVE  NoFalseENOSPC' /\ CounterHonest'
<1>1. ASSUME NEW w \in 1 .. AllWrites, NEW recorded \in BOOLEAN,
             ext2_alloc_block(w, recorded) \/ ext2_alloc_inode(w, recorded)
      PROVE  NoFalseENOSPC' /\ CounterHonest'
  BY <1>1, AllocCounters DEF ext2_alloc_block, ext2_alloc_inode, Kind
<1>2. ASSUME NEW no \in Number("block"), NEW w \in 1 .. AllWrites, NEW dropped \in BOOLEAN,
             ext2_free_block(no, w, dropped)
      PROVE  NoFalseENOSPC' /\ CounterHonest'
  BY <1>2, ReleaseCounters DEF ext2_free_block, Kind
<1>3. ASSUME NEW no \in Number("inode"), NEW w \in 1 .. AllWrites, NEW dropped \in BOOLEAN,
             ext2_free_inode(no, w, dropped)
      PROVE  NoFalseENOSPC' /\ CounterHonest'
  BY <1>3, ReleaseCounters DEF ext2_free_inode, Kind
<1>4. ASSUME ext2_fs_mount PROVE NoFalseENOSPC' /\ CounterHonest'
  BY <1>4 DEF ext2_fs_mount, NoFalseENOSPC, CounterHonest, Uses, Loose, Pinned
<1>5. CASE UNCHANGED vars
  BY <1>5 DEF vars, NoFalseENOSPC, CounterHonest, Uses, Loose, Pinned
<1> QED
  BY <1>1, <1>2, <1>3, <1>4, <1>5 DEF Next

-----------------------------------------------------------------------------
(* The theorems.                                                           *)


\* The image satisfies the invariant when it is mounted.
LEMMA InitIInv ==
  ASSUME LowImage, Init
  PROVE  IInv
<1>1. \A k \in Kind, g \in Group : Cardinality(Bit \ Marked[k][g]) \in 0 .. GroupMod - 1
  <2>1. ASSUME NEW k \in Kind, NEW g \in Group
        PROVE  Cardinality(Bit \ Marked[k][g]) \in 0 .. GroupMod - 1
    <3>1. Bit \ Marked[k][g] \in SUBSET Bit
      OBVIOUS
    <3>2. Cardinality(Bit \ Marked[k][g]) \in Nat
      BY <3>1, BitSets
    <3> QED
      BY <3>1, <3>2, CounterRange
  <2> QED
    BY <2>1
<1>2. TypeOK
  <2>1. /\ bitmap \in [Kind -> [Group -> SUBSET Bit]]
        /\ dfree \in [Kind -> [Group -> 0 .. GroupMod - 1]]
        /\ free \in [Kind -> [Group -> 0 .. GroupMod - 1]]
        /\ dtotal \in [Kind -> 0 .. TotalMod - 1]
        /\ total \in [Kind -> 0 .. TotalMod - 1]
        /\ halted \in BOOLEAN
    BY <1>1, ImageAssumption DEF Init
  <2>2. DOMAIN refs = Kind /\ \A k \in Kind : refs[k] \in [Number(k) -> Nat]
    BY DEF Init
  <2>3. torn \in [Kind -> SUBSET Nat] /\ DOMAIN cut = Kind
    BY DEF Init
  <2>4. \A k \in Kind : cut[k] \in [Group -> 0 .. MaxCut[k]]
    BY SizeAssumption DEF Init
  <2> QED
    BY <2>1, <2>2, <2>3, <2>4 DEF TypeOK
<1>3. \A k \in Kind : \A no \in Number(k) : refs[k][no] > 0 => no \in Held[k]
  BY DEF Init
<1>4. UsedLow
  <2>1. ASSUME NEW k \in Kind, NEW no \in Number(k), refs[k][no] > 0
        PROVE  /\ GroupOf(k, no) \in Group /\ BitOf(k, no) \in Bit /\ Low(BitOf(k, no))
               /\ Mask(BitOf(k, no)) \cap Pinned(k, GroupOf(k, no)) = {}
    <3>1. no \in Held[k]
      BY <2>1, <1>3
    <3>2. /\ GroupOf(k, no) \in Group /\ BitOf(k, no) \in Marked[k][GroupOf(k, no)]
          /\ Low(BitOf(k, no)) /\ Mask(BitOf(k, no)) \cap Pinned(k, GroupOf(k, no)) = {}
      BY <3>1 DEF LowImage
    <3>3. BitOf(k, no) \in Bit
      BY <3>2, ImageAssumption
    <3> QED
      BY <3>2, <3>3 DEF Init
  <2> QED
    BY <2>1 DEF UsedLow
<1>5. \A k \in Kind : \A no \in Number(k) : refs[k][no] > 0 =>
        BitOf(k, no) \in bitmap[k][GroupOf(k, no)] /\ GroupOf(k, no) \in Group /\ refs[k][no] = 1
  BY <1>3 DEF LowImage, Init
<1>6. UsedMarked
  BY <1>5 DEF UsedMarked, Pinned, Init
<1>7. NoSharing /\ AssertHolds
  BY DEF NoSharing, AssertHolds, Init
<1>8. UsesCut
  BY <1>5 DEF UsesCut, Init
<1> QED
  BY <1>2, <1>4, <1>6, <1>7, <1>8 DEF IInv

\* Every step of the specification keeps the invariant.
LEMMA NextIInv ==
  ASSUME LowImage, IInv, [Next]_vars
  PROVE  IInv'
<1>1. ASSUME NEW w \in 1 .. AllWrites, NEW recorded \in BOOLEAN,
             ext2_alloc_block(w, recorded) \/ ext2_alloc_inode(w, recorded)
      PROVE  IInv'
  BY <1>1, AllocStep DEF ext2_alloc_block, ext2_alloc_inode, Kind
<1>2. ASSUME NEW no \in Number("block"), NEW w \in 1 .. AllWrites, NEW dropped \in BOOLEAN,
             ext2_free_block(no, w, dropped)
      PROVE  IInv'
  BY <1>2, ReleaseStep DEF ext2_free_block, Kind
<1>3. ASSUME NEW no \in Number("inode"), NEW w \in 1 .. AllWrites, NEW dropped \in BOOLEAN,
             ext2_free_inode(no, w, dropped)
      PROVE  IInv'
  BY <1>3, ReleaseStep DEF ext2_free_inode, Kind
<1>4. ASSUME ext2_fs_mount PROVE IInv'
  BY <1>4, MountStep
<1>5. CASE UNCHANGED vars
  BY <1>5 DEF vars, IInv, TypeOK, UsedMarked, UsedLow, UsesCut, NoSharing, AssertHolds, Pinned
<1> QED
  BY <1>1, <1>2, <1>3, <1>4, <1>5 DEF Next

\* On an image whose removable units the driver's masks can name, the
\* inductive invariant always holds: for any number and size of groups, with
\* any operation ending early after any of its writes, by an error or a crash.
THEOREM AllocInvariant ==
  ASSUME LowImage
  PROVE  Spec => []IInv
<1>1. Init => IInv
  BY InitIInv
<1>2. IInv /\ [Next]_vars => IInv'
  BY NextIInv
<1> QED
  BY <1>1, <1>2, PTL DEF Spec

\* The state keeps its types: no counter leaves the range of its C type and no
\* unit is released more often than it was taken.
THEOREM AllocTypes ==
  ASSUME LowImage
  PROVE  Spec => []TypeOK
<1>1. IInv => TypeOK
  BY DEF IInv
<1> QED
  BY <1>1, AllocInvariant, PTL

\* A unit in use is marked on the device, unless a release of just this unit
\* ended early.
THEOREM AllocUsedMarked ==
  ASSUME LowImage
  PROVE  Spec => []UsedMarked
<1>1. IInv => UsedMarked
  BY DEF IInv
<1> QED
  BY <1>1, AllocInvariant, PTL

\* No unit has two users, unless a release of it ended early.
THEOREM AllocNoSharing ==
  ASSUME LowImage
  PROVE  Spec => []NoSharing
<1>1. IInv => NoSharing
  BY DEF IInv
<1> QED
  BY <1>1, AllocInvariant, PTL

\* The asserts of ext2_free_block and ext2_free_inode fail only for a unit whose
\* release ended early before.
THEOREM AllocAsserts ==
  ASSUME LowImage
  PROVE  Spec => []AssertHolds
<1>1. IInv => AssertHolds
  BY DEF IInv
<1> QED
  BY <1>1, AllocInvariant, PTL

\* The free counters of the groups are honest both ways, in memory and on the
\* device, up to one unit for each release that ended early: the scan skips no
\* group that has more bits to give (ext2alloc.c tests the counter before the
\* bitmap), and no counter claims more units than are unused, whatever write
\* of an allocation or a release failed.
THEOREM AllocCountersHold ==
  ASSUME LowImage
  PROVE  Spec => [](NoFalseENOSPC /\ CounterHonest)
<1>1. Init => NoFalseENOSPC /\ CounterHonest
  BY InitCounters
<1>2. IInv /\ NoFalseENOSPC /\ CounterHonest /\ [Next]_vars => NoFalseENOSPC' /\ CounterHonest'
  BY NextCounters
<1> QED
  BY <1>1, <1>2, AllocInvariant, PTL DEF Spec

\* An allocation does not report ENOSPC while more bits it could take are clear
\* than releases that ended early.
THEOREM AllocNoFalseENOSPC ==
  ASSUME LowImage
  PROVE  Spec => []NoFalseENOSPC
BY AllocCountersHold, PTL

\* A group's counter never claims more units than nothing uses, but for one a
\* release that ended early.
THEOREM AllocCounterHonest ==
  ASSUME LowImage
  PROVE  Spec => []CounterHonest
BY AllocCountersHold, PTL
=============================================================================
