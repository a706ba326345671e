----------------------------- MODULE CpdmaPool -----------------------------
(***************************************************************************)
(* The descriptor pool of the CPDMA driver (drivers/net/davinci_cpdma.c):  *)
(* a bitmap whose lower half serves receive channels and whose upper half  *)
(* serves transmit channels, searched from a rotating index.               *)
(*                                                                         *)
(* pool->lock makes each call one step.  Descriptors are asked for one at  *)
(* a time (num_desc is 1 in every call).                                   *)
(***************************************************************************)
EXTENDS Integers, FiniteSets, FiniteSetsExt

CONSTANTS NumDesc,   \* pool->num_desc
          RxDescs    \* receive buffers submitted at a time

Half == NumDesc \div 2

\* The board has 64 receive buffers and 256 descriptors.  The first value of
\* last_index has to lie in the transmit half or beyond the pool.
ASSUME PoolAssumption == /\ NumDesc \in Nat /\ NumDesc > 1
                         /\ Half <= 4096
                         /\ RxDescs \in 1..Half

VARIABLES bitmap,     \* indices whose bit is set
          lastIndex,  \* the static variable last_index
          usedDesc,   \* pool->used_desc
          holds       \* the descriptors held, and by which side: <<side, index>>

poolVars == <<bitmap, lastIndex, usedDesc, holds>>

PoolInit == bitmap = {} /\ lastIndex = 4096 /\ usedDesc = 0 /\ holds = {}

\* bitmap_find_next_zero_area for one bit: the first clear bit from start on,
\* or, if there is none below size, size + 1.
bitmap_find_next_zero_area(size, start) ==
  LET free == {i \in start..size - 1 : i \notin bitmap}
  IN IF free = {} THEN size + 1 ELSE Min(free)

RxIndex == bitmap_find_next_zero_area(Half, 0)

\* Where the transmit search begins.
TxFrom == IF lastIndex >= NumDesc THEN Half ELSE lastIndex

\* Wrong variant: does not start over at the first transmit descriptor.
TxIndex_NoWrap == bitmap_find_next_zero_area(NumDesc, TxFrom)

\* Wrong variant: starts over at the first descriptor of the pool.
TxIndex_WrapsToZero ==
  LET index == bitmap_find_next_zero_area(NumDesc, TxFrom)
  IN IF index < NumDesc THEN index ELSE bitmap_find_next_zero_area(NumDesc, 0)

TxIndex ==
  LET index == bitmap_find_next_zero_area(NumDesc, TxFrom)
  IN IF index < NumDesc THEN index
     ELSE bitmap_find_next_zero_area(NumDesc, Half)

\* Wrong variant: does not mark the descriptor.
Grant_NoBit(index, side) ==
  IF index < NumDesc
  THEN /\ usedDesc' = usedDesc + 1
       /\ holds' = holds \cup {<<side, index>>}
       /\ UNCHANGED bitmap
  ELSE UNCHANGED <<bitmap, usedDesc, holds>>

\* bitmap_set and the new descriptor, if the search found one.
Grant(index, side) ==
  IF index < NumDesc
  THEN /\ bitmap' = bitmap \cup {index}
       /\ usedDesc' = usedDesc + 1
       /\ holds' = holds \cup {<<side, index>>}
  ELSE UNCHANGED <<bitmap, usedDesc, holds>>

\* cpdma_desc_alloc with is_rx.
AllocRx ==
  /\ Grant(RxIndex, "rx")
  /\ UNCHANGED lastIndex

\* cpdma_desc_alloc without.
AllocTx ==
  /\ Grant(TxIndex, "tx")
  /\ lastIndex' = IF TxIndex < NumDesc THEN TxIndex + 1 ELSE Half

\* Wrong variant: forgets to count.
cpdma_desc_free_NoCount(h) ==
  /\ bitmap' = bitmap \ {h[2]}
  /\ holds' = holds \ {h}
  /\ UNCHANGED <<usedDesc, lastIndex>>

cpdma_desc_free(h) ==
  /\ bitmap' = bitmap \ {h[2]}
  /\ usedDesc' = usedDesc - 1
  /\ holds' = holds \ {h}
  /\ UNCHANGED lastIndex

\* Receive channels keep to their number of buffers.
PoolNext ==
  \/ Cardinality({h \in holds : h[1] = "rx"}) < RxDescs /\ AllocRx
  \/ AllocTx
  \/ \E h \in holds : cpdma_desc_free(h)

\* What a user of the pool may do: one call at a time, and each descriptor is
\* freed by its holder, once.
PoolSpec == PoolInit /\ [][PoolNext]_poolVars

-----------------------------------------------------------------------------
(* Properties.                                                             *)

\* No descriptor has two holders, and the bitmap says which are held: the
\* area an allocation gets is a zero area of the bitmap, and stays its own
\* until it is freed.  (Two grants of one descriptor to the same side show in
\* UsedDescExact.)
OneHolder ==
  /\ \A g, h \in holds : g[2] = h[2] => g = h
  /\ bitmap = {h[2] : h \in holds}

\* The receive side never takes a descriptor of the transmit half or the
\* other way round, so neither can starve the other.
HalvesApart == \A h \in holds : h[2] < Half <=> h[1] = "rx"

\* used_desc counts the descriptors held; cpdma_desc_pool_destroy warns if it
\* is not zero when all should have been freed.
UsedDescExact == usedDesc = Cardinality(holds)

\* A transmit request fails only if every transmit descriptor is held: the
\* rotating start of the search never hides a free one.
TxFailsOnlyWhenFull ==
  TxIndex >= NumDesc => Half..NumDesc - 1 \subseteq bitmap
=============================================================================
