-------------------------- MODULE CpdmaPoolProofs --------------------------
(***************************************************************************)
(* Proofs about the descriptor pool, for every size of the pool and every  *)
(* number of receive buffers that fits into its lower half.                *)
(***************************************************************************)
EXTENDS CpdmaPool, FiniteSetTheorems, WellFoundedInduction, TLAPS

\* A nonempty set of natural numbers contains its Min.
LEMMA MinIsLeast ==
  ASSUME NEW S \in SUBSET Nat, S # {}
  PROVE  Min(S) \in S /\ \A y \in S : Min(S) <= y
<1>1. PICK x \in S : \A y \in S : ~(<<y, x>> \in OpToRel(<, Nat))
  BY NatLessThanWellFounded, WFMin
<1>2. \A y \in S : ~(y < x)
  BY <1>1, Zenon DEF OpToRel
<1>3. \A y \in S : x <= y
  BY <1>2
<1> QED
  BY <1>3 DEF Min

\* bitmap_find_next_zero_area returns a clear bit of the range searched, or
\* size + 1 if all of them are set.
LEMMA SearchFinds ==
  ASSUME NEW size \in Nat, NEW start \in Nat
  PROVE  LET i == bitmap_find_next_zero_area(size, start)
         IN  \/ i \in start..size - 1 /\ i \notin bitmap
             \/ i = size + 1 /\ start..size - 1 \subseteq bitmap
<1> DEFINE free == {i \in start..size - 1 : i \notin bitmap}
<1>1. CASE free = {}
  BY <1>1 DEF bitmap_find_next_zero_area
<1>2. CASE free # {}
  <2>1. free \in SUBSET Nat
    OBVIOUS
  <2>2. Min(free) \in free
    <3> HIDE DEF free
    <3> QED BY <1>2, <2>1, MinIsLeast
  <2>3. bitmap_find_next_zero_area(size, start) = Min(free)
    BY <1>2 DEF bitmap_find_next_zero_area
  <2> QED
    BY <2>2, <2>3
<1> QED
  BY <1>1, <1>2

\* The descriptors lie in the pool, and the transmit search begins in its half.
PoolTypes ==
  /\ holds \subseteq {"rx", "tx"} \X (0..NumDesc - 1)
  /\ IsFiniteSet(holds)
  /\ lastIndex \in Nat /\ lastIndex >= Half

\* The inductive invariant.
PoolInv == PoolTypes /\ OneHolder /\ HalvesApart /\ UsedDescExact

RxHolds == {h \in holds : h[1] = "rx"}

LEMMA HalfFacts ==
  Half \in Nat /\ 0 < Half /\ Half < NumDesc /\ Half <= 4096
<1>1. NumDesc \in Nat /\ NumDesc > 1
  BY PoolAssumption
<1>2. NumDesc \div 2 \in Nat /\ 0 < NumDesc \div 2 /\ NumDesc \div 2 < NumDesc
  BY <1>1, SMT
<1> QED
  BY <1>2, PoolAssumption DEF Half

\* While fewer receive buffers are out than allowed, the receive half has a
\* free descriptor: otherwise each of its Half descriptors had a holder.
LEMMA RxSearchSucceeds ==
  ASSUME PoolInv, Cardinality(RxHolds) < RxDescs
  PROVE  RxIndex \in 0..Half - 1 /\ RxIndex \notin bitmap
<1> USE HalfFacts
<1>1. \/ RxIndex \in 0..Half - 1 /\ RxIndex \notin bitmap
      \/ 0..Half - 1 \subseteq bitmap
  BY SearchFinds DEF RxIndex
<1>2. ASSUME 0..Half - 1 \subseteq bitmap PROVE FALSE
  <2> DEFINE f == [i \in 0..Half - 1 |-> <<"rx", i>>]
  <2>1. \A i \in 0..Half - 1 : <<"rx", i>> \in RxHolds
    <3> TAKE i \in 0..Half - 1
    <3>1. PICK h \in holds : h[2] = i
      BY <1>2 DEF PoolInv, OneHolder
    <3>2. h = <<h[1], h[2]>>
      BY DEF PoolInv, PoolTypes
    <3>3. h[1] = "rx"
      BY <3>1 DEF PoolInv, HalvesApart
    <3>4. h = <<"rx", i>>
      BY <3>1, <3>2, <3>3
    <3> QED
      BY <3>3, <3>4 DEF RxHolds
  <2>2. f \in [0..Half - 1 -> RxHolds] /\ \A i, j \in 0..Half - 1 : f[i] = f[j] => i = j
    BY <2>1
  <2>3. IsFiniteSet(RxHolds) /\ Cardinality(RxHolds) \in Nat
    <3>1. IsFiniteSet(holds) /\ RxHolds \in SUBSET holds
      BY DEF PoolInv, PoolTypes, RxHolds
    <3> QED
      BY <3>1, FS_Subset, FS_CardinalityType
  <2>4. IsFiniteSet(0..Half - 1) /\ Cardinality(0..Half - 1) = Half
    BY FS_Interval
  <2>5. Cardinality(RxHolds) < Cardinality(0..Half - 1)
    BY <2>3, <2>4, PoolAssumption
  <2> HIDE DEF f
  <2> QED
    BY <2>2, <2>3, <2>4, <2>5, FS_PigeonHole
<1> QED
  BY <1>1, <1>2

\* A transmit search ends in the transmit half, or in none.
LEMMA TxSearchStaysInHalf ==
  ASSUME PoolInv
  PROVE  \/ TxIndex \in Half..NumDesc - 1 /\ TxIndex \notin bitmap
         \/ TxIndex = NumDesc + 1
<1> USE HalfFacts, PoolAssumption
<1>1. TxFrom \in Nat /\ TxFrom >= Half
  BY DEF TxFrom, PoolInv, PoolTypes
<1>2. LET i == bitmap_find_next_zero_area(NumDesc, TxFrom)
      IN  (i \in TxFrom..NumDesc - 1 /\ i \notin bitmap) \/ i = NumDesc + 1
  BY <1>1, SearchFinds
<1>3. LET i == bitmap_find_next_zero_area(NumDesc, Half)
      IN  (i \in Half..NumDesc - 1 /\ i \notin bitmap) \/ i = NumDesc + 1
  BY SearchFinds
<1> QED
  BY <1>1, <1>2, <1>3 DEF TxIndex

\* Handing out a clear bit of a side's own half keeps the invariant.
LEMMA GrantKeepsInv ==
  ASSUME PoolInv, NEW side \in {"rx", "tx"},
         NEW index \in 0..NumDesc - 1, index \notin bitmap,
         index < Half <=> side = "rx",
         Grant(index, side), lastIndex' \in Nat, lastIndex' >= Half
  PROVE  PoolInv'
<1> USE HalfFacts, PoolAssumption
<1> DEFINE new == <<side, index>>
<1>1. /\ bitmap' = bitmap \cup {index}
      /\ usedDesc' = usedDesc + 1
      /\ holds' = holds \cup {new}
  BY DEF Grant
<1>2. \A h \in holds : h[2] # index
  BY DEF PoolInv, OneHolder
<1>3. new \notin holds /\ new[2] = index
  BY <1>2
<1>4. PoolTypes'
  <2>1. IsFiniteSet(holds')
    <3> HIDE DEF new
    <3> QED BY <1>1, FS_AddElement DEF PoolInv, PoolTypes
  <2> QED
    BY <1>1, <2>1 DEF PoolInv, PoolTypes
<1>5. OneHolder'
  <2>1. \A g, h \in holds' : g[2] = h[2] => g = h
    BY <1>1, <1>2 DEF PoolInv, OneHolder
  <2>2. bitmap' = {h[2] : h \in holds'}
    <3> HIDE DEF new
    <3> QED BY <1>1, <1>3 DEF PoolInv, OneHolder
  <2> QED
    BY <2>1, <2>2 DEF OneHolder
<1>6. HalvesApart'
  BY <1>1 DEF PoolInv, HalvesApart
<1>7. UsedDescExact'
  <2>1. Cardinality(holds') = Cardinality(holds) + 1
    <3> HIDE DEF new
    <3>1. IsFiniteSet(holds) /\ new \notin holds
      BY <1>3 DEF PoolInv, PoolTypes
    <3>2. Cardinality(holds \cup {new}) = Cardinality(holds) + 1
      BY ONLY <3>1, FS_AddElement
    <3> QED
      BY <1>1, <3>2
  <2> QED
    BY <1>1, <2>1 DEF PoolInv, UsedDescExact
<1> QED
  BY <1>4, <1>5, <1>6, <1>7 DEF PoolInv

\* Giving a descriptor back keeps the invariant.
LEMMA FreeKeepsInv ==
  ASSUME PoolInv, NEW d \in holds, cpdma_desc_free(d)
  PROVE  PoolInv'
<1> USE HalfFacts, PoolAssumption
<1>1. /\ bitmap' = bitmap \ {d[2]}
      /\ usedDesc' = usedDesc - 1
      /\ holds' = holds \ {d}
      /\ lastIndex' = lastIndex
  BY DEF cpdma_desc_free
<1>2. PoolTypes'
  <2>1. IsFiniteSet(holds')
    BY <1>1, FS_RemoveElement DEF PoolInv, PoolTypes
  <2> QED
    BY <1>1, <2>1 DEF PoolInv, PoolTypes
<1>3. OneHolder'
  <2>1. \A h \in holds : h # d => h[2] # d[2]
    BY DEF PoolInv, OneHolder
  <2>2. bitmap' = {h[2] : h \in holds'}
    BY <1>1, <2>1 DEF PoolInv, OneHolder
  <2>3. \A g, h \in holds' : g[2] = h[2] => g = h
    BY <1>1 DEF PoolInv, OneHolder
  <2> QED
    BY <2>2, <2>3 DEF OneHolder
<1>4. HalvesApart'
  BY <1>1 DEF PoolInv, HalvesApart
<1>5. UsedDescExact'
  <2>1. Cardinality(holds') = Cardinality(holds) - 1
    BY <1>1, FS_RemoveElement DEF PoolInv, PoolTypes
  <2> QED
    BY <1>1, <2>1 DEF PoolInv, UsedDescExact
<1> QED
  BY <1>2, <1>3, <1>4, <1>5 DEF PoolInv

\* The initial states satisfy the invariant, and every call keeps it.
LEMMA PoolInvInductive ==
  /\ PoolInit => PoolInv
  /\ PoolInv /\ [PoolNext]_poolVars => PoolInv'
<1> USE HalfFacts, PoolAssumption
<1>1. PoolInit => PoolInv
  <2> SUFFICES ASSUME PoolInit PROVE PoolInv
    OBVIOUS
  <2>1. Cardinality({}) = 0 /\ IsFiniteSet({})
    BY FS_EmptySet
  <2> QED
    BY <2>1 DEF PoolInit, PoolInv, PoolTypes, OneHolder, HalvesApart,
                UsedDescExact
<1>2. ASSUME PoolInv, [PoolNext]_poolVars PROVE PoolInv'
  <2>1. CASE Cardinality(RxHolds) < RxDescs /\ AllocRx
    <3>1. RxIndex \in 0..Half - 1 /\ RxIndex \notin bitmap
      BY <1>2, <2>1, RxSearchSucceeds
    <3>2. Grant(RxIndex, "rx") /\ lastIndex' = lastIndex
      BY <2>1 DEF AllocRx
    <3>3. RxIndex \in 0..NumDesc - 1 /\ (RxIndex < Half <=> "rx" = "rx")
      BY <3>1
    <3>4. lastIndex' \in Nat /\ lastIndex' >= Half
      BY <1>2, <3>2 DEF PoolInv, PoolTypes
    <3> QED
      BY <1>2, <3>1, <3>2, <3>3, <3>4, GrantKeepsInv
  <2>2. CASE AllocTx
    <3>1. Grant(TxIndex, "tx")
      BY <2>2 DEF AllocTx
    <3>2. lastIndex' = IF TxIndex < NumDesc THEN TxIndex + 1 ELSE Half
      BY <2>2 DEF AllocTx
    <3>3. CASE TxIndex \in Half..NumDesc - 1 /\ TxIndex \notin bitmap
      <4>1. TxIndex \in 0..NumDesc - 1 /\ (TxIndex < Half <=> "tx" = "rx")
        BY <3>3
      <4>2. lastIndex' \in Nat /\ lastIndex' >= Half
        BY <3>2, <3>3
      <4> QED
        BY <1>2, <3>1, <3>3, <4>1, <4>2, GrantKeepsInv
    <3>4. CASE TxIndex = NumDesc + 1
      <4>1. UNCHANGED <<bitmap, usedDesc, holds>>
        BY <3>1, <3>4 DEF Grant
      <4>2. lastIndex' = Half
        BY <3>2, <3>4
      <4> QED
        BY <1>2, <4>1, <4>2
        DEF PoolInv, PoolTypes, OneHolder, HalvesApart, UsedDescExact
    <3> QED
      BY <1>2, <3>3, <3>4, TxSearchStaysInHalf
  <2>3. CASE \E h \in holds : cpdma_desc_free(h)
    BY <1>2, <2>3, FreeKeepsInv
  <2>4. CASE UNCHANGED poolVars
    BY <1>2, <2>4
    DEF PoolInv, PoolTypes, OneHolder, HalvesApart, UsedDescExact, poolVars
  <2> QED
    BY <1>2, <2>1, <2>2, <2>3, <2>4 DEF PoolNext, RxHolds
<1> QED
  BY <1>1, <1>2

LEMMA PoolInvHolds == PoolSpec => []PoolInv
<1> QED
  BY PoolInvInductive, PTL DEF PoolSpec

\* cpdma_desc_alloc never hands out a descriptor that somebody holds, and the
\* bitmap marks exactly the ones held.
THEOREM NoDoubleGrant == PoolSpec => []OneHolder
<1>1. PoolInv => OneHolder
  BY DEF PoolInv
<1> QED
  BY <1>1, PoolInvHolds, PTL

\* Receive and transmit channels never take each other's descriptors, though
\* cpdma_desc_alloc does not test an index of the receive search against the
\* end of the receive half.
THEOREM HalvesStayApart == PoolSpec => []HalvesApart
<1>1. PoolInv => HalvesApart
  BY DEF PoolInv
<1> QED
  BY <1>1, PoolInvHolds, PTL

\* used_desc is the number of descriptors held.
THEOREM UsedDescCounts == PoolSpec => []UsedDescExact
<1>1. PoolInv => UsedDescExact
  BY DEF PoolInv
<1> QED
  BY <1>1, PoolInvHolds, PTL

\* The search starts over at the first transmit descriptor, so its failure
\* shows that all of them are held.
LEMMA TxSearchComplete ==
  ASSUME PoolInv, TxIndex >= NumDesc
  PROVE  Half..NumDesc - 1 \subseteq bitmap
<1> USE HalfFacts, PoolAssumption
<1>1. TxFrom \in Nat
  BY DEF TxFrom, PoolInv, PoolTypes
<1>2. LET i == bitmap_find_next_zero_area(NumDesc, TxFrom)
      IN  i \in TxFrom..NumDesc - 1 \/ i = NumDesc + 1
  BY <1>1, SearchFinds
<1>3. TxIndex = bitmap_find_next_zero_area(NumDesc, Half)
  BY <1>1, <1>2 DEF TxIndex
<1> QED
  BY <1>3, SearchFinds

\* The rotating transmit search of cpdma_desc_alloc overlooks no descriptor.
THEOREM TxSearchIsComplete == PoolSpec => []TxFailsOnlyWhenFull
<1>1. PoolInv => TxFailsOnlyWhenFull
  BY TxSearchComplete DEF TxFailsOnlyWhenFull
<1> QED
  BY <1>1, PoolInvHolds, PTL
=============================================================================
