----------------------------- MODULE CpswProofs -----------------------------
(***************************************************************************)
(* Proofs about the Ethernet driver, for every size of the pool, every     *)
(* quota and budget and any number of packets.                             *)
(*                                                                         *)
(* The driver is shown to use the descriptor pool as PoolSpec says, so     *)
(* that what CpdmaPoolProofs proves of the pool holds for the driver; its  *)
(* own invariants rest on how open, stop, the soft interrupts and the      *)
(* descriptors on the channels belong together.                            *)
(***************************************************************************)
EXTENDS Cpsw, CpdmaPoolProofs, SequenceTheorems

Descriptors == {"rx", "tx"} \X Nat

\* The descriptors of one side, each at one place of its channel.
RingOf(H, ring, side) ==
  /\ ring \in Seq(Descriptors)
  /\ \A i \in 1..Len(ring) : ring[i] \in H /\ ring[i][1] = side
  /\ \A h \in H : h[1] = side => \E i \in 1..Len(ring) : ring[i] = h
  /\ \A i, j \in 1..Len(ring) : ring[i] = ring[j] => i = j

\* Submitting a descriptor that was not held ...
LEMMA RingPut ==
  ASSUME NEW H, NEW ring, NEW side, RingOf(H, ring, side),
         NEW h \in Descriptors, h \notin H, h[1] = side
  PROVE  RingOf(H \cup {h}, Append(ring, h), side)
<1> DEFINE new == Append(ring, h)
<1>1. /\ ring \in Seq(Descriptors) /\ Len(ring) \in Nat
      /\ new \in Seq(Descriptors) /\ Len(new) = Len(ring) + 1
      /\ \A i \in 1..Len(ring) : new[i] = ring[i]
      /\ new[Len(ring) + 1] = h
  BY AppendProperties, LenProperties DEF RingOf
<1> HIDE DEF new
<1>2. \A i \in 1..Len(new) : i \in 1..Len(ring) \/ i = Len(ring) + 1
  BY <1>1
<1>3. \A i \in 1..Len(new) : new[i] \in H \cup {h} /\ new[i][1] = side
  BY <1>1, <1>2 DEF RingOf
<1>4. ASSUME NEW g \in H \cup {h}, g[1] = side
      PROVE  \E i \in 1..Len(new) : new[i] = g
  <2>1. CASE g = h
    BY <1>1, <2>1
  <2>2. CASE g \in H
    <3>1. PICK i \in 1..Len(ring) : ring[i] = g
      BY <1>4, <2>2 DEF RingOf
    <3> QED BY <1>1, <3>1
  <2> QED BY <2>1, <2>2
<1>5. \A i, j \in 1..Len(new) : new[i] = new[j] => i = j
  BY <1>1, <1>2 DEF RingOf
<1> QED BY <1>1, <1>3, <1>4, <1>5 DEF RingOf, new

\* ... and giving back the oldest keep the ring one.
LEMMA RingGet ==
  ASSUME NEW H, NEW ring, NEW side, RingOf(H, ring, side), ring # <<>>
  PROVE  /\ RingOf(H \ {Head(ring)}, Tail(ring), side)
         /\ Head(ring) \in H /\ Head(ring)[1] = side
         /\ Len(ring) \in Nat \ {0} /\ Len(Tail(ring)) = Len(ring) - 1
<1> DEFINE old == Tail(ring)
<1>1. /\ ring \in Seq(Descriptors) /\ Len(ring) \in Nat \ {0}
      /\ old \in Seq(Descriptors) /\ Len(old) = Len(ring) - 1
      /\ \A i \in 1..Len(old) : old[i] = ring[i + 1]
      /\ Head(ring) = ring[1]
  BY HeadTailProperties, LenProperties, EmptySeq DEF RingOf
<1> HIDE DEF old
<1>2. \A i \in 1..Len(old) : i + 1 \in 1..Len(ring) /\ i + 1 # 1
  BY <1>1
<1>3. 1 \in 1..Len(ring)
  BY <1>1
<1>4. \A i \in 1..Len(old) : old[i] \in H \ {Head(ring)} /\ old[i][1] = side
  BY <1>1, <1>2, <1>3 DEF RingOf
<1>5. ASSUME NEW g \in H \ {Head(ring)}, g[1] = side
      PROVE  \E i \in 1..Len(old) : old[i] = g
  <2>1. PICK i \in 1..Len(ring) : ring[i] = g
    BY <1>5 DEF RingOf
  <2>2. i # 1
    BY <1>1, <2>1
  <2>3. i - 1 \in 1..Len(old) /\ (i - 1) + 1 = i
    BY <1>1, <2>2
  <2> QED BY <1>1, <2>1, <2>3
<1>6. \A i, j \in 1..Len(old) : old[i] = old[j] => i = j
  BY <1>1, <1>2 DEF RingOf
<1> QED BY <1>1, <1>3, <1>4, <1>5, <1>6 DEF RingOf, old

\* The other side's descriptors do not touch it.
LEMMA RingOther ==
  ASSUME NEW H, NEW ring, NEW side, RingOf(H, ring, side), NEW h, h[1] # side
  PROVE  RingOf(H \cup {h}, ring, side) /\ RingOf(H \ {h}, ring, side)
BY DEF RingOf

\* A side holds no more descriptors than its channel has places.
LEMMA RingCount ==
  ASSUME NEW H, NEW ring, NEW side, RingOf(H, ring, side)
  PROVE  LET S == {h \in H : h[1] = side}
         IN  Cardinality(S) \in Nat /\ Cardinality(S) <= Len(ring)
<1> DEFINE S == {h \in H : h[1] = side}
           f == [i \in 1..Len(ring) |-> ring[i]]
<1>1. Len(ring) \in Nat
  BY LenProperties DEF RingOf
<1>2. f \in Surjection(1..Len(ring), S)
  BY DEF RingOf, Surjection
<1>3. IsFiniteSet(1..Len(ring)) /\ Cardinality(1..Len(ring)) = Len(ring)
  BY <1>1, FS_Interval, SMTT(30)
<1> HIDE DEF S, f
<1>4. IsFiniteSet(S) /\ Cardinality(S) <= Len(ring)
  BY <1>2, <1>3, FS_Surjection
<1>5. Cardinality(S) \in Nat
  BY <1>4, FS_CardinalityType
<1> QED BY <1>4, <1>5 DEF S

-----------------------------------------------------------------------------
(* What open, stop, the discipline and NAPI allow in each phase.           *)

PhaseTypes ==
  /\ pc \in {"down", "opening", "up", "deactivated", "disabling", "stopping"}
  /\ soft \in {"none", "polltx", "pollrx", "rxhandler", "timeout"}
  /\ napi \in {"off", "idle", "sched"}

\* Packets reach the driver only while it is up; from the moment stop waits
\* for NAPI the discipline is not run any more; and once NAPI is off nothing
\* runs beside stop and open.
Phases ==
  /\ pc # "up" => ~qactive /\ backlog = 0 /\ ~gso
  /\ pc \in {"down", "opening", "disabling", "stopping"} => ~txsched /\ ~qrun
  /\ pc \in {"down", "opening", "stopping"} => napi = "off" /\ soft = "none"
  /\ pc \in {"up", "deactivated", "disabling"} => napi # "off"
  /\ pc = "opening" => ~carrier /\ ~intr

PhaseInv == PhaseTypes /\ Phases

LEMMA PhaseStep == PhaseInv /\ [Next]_vars => PhaseInv'
<1> SUFFICES ASSUME PhaseInv, [Next]_vars PROVE PhaseInv'
  OBVIOUS
<1> USE DEF PhaseInv, PhaseTypes, Phases, qdisc, queue, rings, irqs, poll
<1>1. CASE dev_queue_xmit
  BY <1>1 DEF dev_queue_xmit
<1>2. CASE net_tx_action
  BY <1>2 DEF net_tx_action, Quiet
<1>3. CASE QdiscIdle \/ QdiscParks
  BY <1>3 DEF QdiscIdle, QdiscParks, dev_requeue_skb
<1>4. CASE XmitOk
  BY <1>4 DEF XmitOk
<1>5. CASE XmitBusy \/ XmitPadFails
  BY <1>5 DEF XmitBusy, XmitPadFails, dev_requeue_skb
<1>6. CASE cpsw_interrupt
  BY <1>6 DEF cpsw_interrupt, Running
<1>7. CASE PollStart \/ PollTx \/ PollTxEnds \/ PollRx
  BY <1>7 DEF PollStart, PollTx, PollTxEnds, PollRx
<1>8. CASE cpsw_rx_handler
  BY <1>8 DEF cpsw_rx_handler
<1>9. CASE PollCompletes \/ PollUsesBudget
  BY <1>9 DEF PollCompletes, PollUsesBudget
<1>10. CASE dev_watchdog
  BY <1>10 DEF dev_watchdog
<1>11. CASE cpsw_ndo_tx_timeout
  BY <1>11 DEF cpsw_ndo_tx_timeout, TimeoutFrees, TimeoutEnds
<1>12. CASE cpsw_ndo_open
  BY <1>12 DEF cpsw_ndo_open, OpenBegins, OpenFails, OpenSubmits, OpenEnds
<1>13. CASE CloseBegins \/ StopBegins \/ StopNapi
  BY <1>13 DEF CloseBegins, StopBegins, StopNapi, Quiet
<1>14. CASE StopTx \/ StopRx \/ StopEnds
  BY <1>14 DEF StopTx, StopRx, StopEnds
<1>15. CASE cpsw_adjust_link \/ linkwatch_do_dev
  BY <1>15 DEF cpsw_adjust_link, LinkUp, LinkDown, linkwatch_do_dev, Connected,
     Running
<1>16. CASE EngineTx \/ EngineRx
  BY <1>16 DEF EngineTx, EngineRx
<1>17. CASE UNCHANGED vars
  BY <1>17 DEF vars
<1> HIDE DEF PhaseInv, PhaseTypes, Phases, qdisc, queue, rings, irqs, poll
<1> QED BY <1>1, <1>2, <1>3, <1>4, <1>5, <1>6, <1>7, <1>8, <1>9, <1>10, <1>11,
           <1>12, <1>13, <1>14, <1>15, <1>16, <1>17
        DEF Next, qdisc_run, cpsw_poll, cpsw_ndo_stop

LEMMA PhaseInvHolds == Spec => []PhaseInv
<1>1. Init => PhaseInv
  BY DEF Init, PhaseInv, PhaseTypes, Phases
<1> QED BY <1>1, PhaseStep, PTL DEF Spec

-----------------------------------------------------------------------------
(* Interrupts and completions.                                             *)

\* The lines are enabled unless a poll is due that will enable them, or one
\* was cut short by a stop; and while the interface is up and no poll is due
\* the device may interrupt.
IrqInv ==
  /\ line \/ lineLost \/ napi = "sched"
  /\ pc = "up" /\ soft # "timeout" /\ napi = "idle" => intr /\ armed

LEMMA IrqStep == PhaseInv /\ IrqInv /\ [Next]_vars => IrqInv'
<1> SUFFICES ASSUME PhaseInv, IrqInv, [Next]_vars PROVE IrqInv'
  OBVIOUS
<1> USE DEF IrqInv, qdisc, queue, rings, irqs, poll
<1>1. CASE dev_queue_xmit \/ net_tx_action
  BY <1>1 DEF dev_queue_xmit, net_tx_action
<1>2. CASE qdisc_run
  BY <1>2 DEF qdisc_run, QdiscIdle, QdiscParks, XmitOk, XmitBusy, XmitPadFails
<1>3. CASE cpsw_interrupt
  BY <1>3 DEF cpsw_interrupt, Running, PhaseInv, PhaseTypes, Phases
<1>4. CASE PollStart \/ PollTx \/ PollTxEnds \/ PollRx \/ cpsw_rx_handler
  BY <1>4 DEF PollStart, PollTx, PollTxEnds, PollRx, cpsw_rx_handler, PhaseInv,
     Phases
<1>5. CASE PollCompletes \/ PollUsesBudget
  BY <1>5 DEF PollCompletes, PollUsesBudget
<1>6. CASE dev_watchdog
  BY <1>6 DEF dev_watchdog
<1>7. CASE cpsw_ndo_tx_timeout
  BY <1>7 DEF cpsw_ndo_tx_timeout, TimeoutFrees, TimeoutEnds
<1>8. CASE cpsw_ndo_open
  BY <1>8 DEF cpsw_ndo_open, OpenBegins, OpenFails, OpenSubmits, OpenEnds,
     PhaseInv, Phases
<1>9. CASE cpsw_ndo_stop
  BY <1>9 DEF cpsw_ndo_stop, CloseBegins, StopBegins, StopNapi, StopTx, StopRx,
     StopEnds
<1>10. CASE cpsw_adjust_link \/ linkwatch_do_dev \/ EngineTx \/ EngineRx
  BY <1>10 DEF cpsw_adjust_link, LinkUp, LinkDown, linkwatch_do_dev, EngineTx,
     EngineRx
<1>11. CASE UNCHANGED vars
  BY <1>11 DEF vars
<1> HIDE DEF IrqInv, qdisc, queue, rings, irqs, poll
<1> QED BY <1>1, <1>2, <1>3, <1>4, <1>5, <1>6, <1>7, <1>8, <1>9, <1>10, <1>11
        DEF Next, cpsw_poll

\* While the interface is up, a completed buffer never waits for an interrupt
\* that cannot come: NAPI is scheduled, or the interrupt is enabled and armed
\* and its lines are enabled, unless an earlier stop left them disabled.
THEOREM CompletionsAreNoticed == Spec => []NoMissedCompletion
<1>1. Init => IrqInv
  BY DEF Init, IrqInv
<1>2. IrqInv => NoMissedCompletion
  BY DEF IrqInv, NoMissedCompletion
<1> QED BY <1>1, <1>2, IrqStep, PhaseInvHolds, PTL DEF Spec

-----------------------------------------------------------------------------
(* The channels and the pool.                                              *)

\* Every descriptor held is on its channel, and nothing else is; the receive
\* channel keeps to its buffers, one less while its handler has one in hand;
\* and the channels are empty when the driver is down.
RingInv ==
  /\ RingOf(holds, txRing, "tx") /\ RingOf(holds, rxRing, "rx")
  /\ Len(rxRing) <= RxDescs
  /\ soft = "rxhandler" => Len(rxRing) < RxDescs
  /\ pc \in {"down", "opening"} => txRing = <<>>
  /\ pc = "down" => rxRing = <<>>

\* What a step may do to the channels and the pool.
TxPut ==
  /\ TxIndex < NumDesc /\ AllocTx
  /\ txRing' = Append(txRing, <<"tx", TxIndex>>)
  /\ UNCHANGED <<rxRing, pc, soft>> /\ pc = "up"

TxRefused ==
  /\ TxIndex >= NumDesc /\ AllocTx
  /\ UNCHANGED <<txRing, rxRing, pc, soft>>

RxPut ==
  /\ Len(rxRing) < RxDescs /\ AllocRx
  /\ rxRing' = Append(rxRing, <<"rx", RxIndex>>)
  /\ UNCHANGED <<txRing, pc>> /\ pc # "down" /\ soft' # "rxhandler"

TxGet ==
  /\ txRing # <<>> /\ cpdma_desc_free(Head(txRing)) /\ txRing' = Tail(txRing)
  /\ UNCHANGED <<rxRing, pc, soft>>

RxGet ==
  /\ rxRing # <<>> /\ cpdma_desc_free(Head(rxRing)) /\ rxRing' = Tail(rxRing)
  /\ UNCHANGED <<txRing, pc>>

RingsSame ==
  /\ UNCHANGED <<poolVars, txRing, rxRing>>
  /\ soft' = "rxhandler" => soft = "rxhandler"
  /\ pc' \in {"down", "opening"} => pc \in {"down", "opening"} \/ txRing = <<>>
  /\ pc' = "down" => pc = "down" \/ rxRing = <<>>

\* Every step of the driver is one of these.
LEMMA RingSteps ==
  ASSUME PhaseInv, RingInv, [Next]_vars
  PROVE  TxPut \/ TxRefused \/ RxPut \/ TxGet \/ RxGet \/ RingsSame
<1> USE DEF rings, poll
<1>1. CASE dev_queue_xmit \/ net_tx_action \/ QdiscIdle \/ QdiscParks
           \/ XmitPadFails
  BY <1>1 DEF dev_queue_xmit, net_tx_action, QdiscIdle, QdiscParks, XmitPadFails,
     RingsSame
<1>2. CASE XmitOk
  <2>1. pc = "up"
    BY <1>2 DEF XmitOk, PhaseInv, Phases
  <2> QED BY <1>2, <2>1 DEF XmitOk, TxPut
<1>3. CASE XmitBusy
  BY <1>3 DEF XmitBusy, TxRefused
<1>4. CASE cpsw_interrupt \/ PollStart \/ PollTxEnds \/ PollCompletes
           \/ PollUsesBudget \/ dev_watchdog \/ TimeoutEnds
  BY <1>4 DEF cpsw_interrupt, PollStart, PollTxEnds, PollCompletes, PollUsesBudget,
     dev_watchdog, TimeoutEnds, RingsSame
<1>5. CASE PollTx \/ TimeoutFrees \/ StopTx
  BY <1>5 DEF PollTx, TimeoutFrees, StopTx, TxGiveBack, TxGet
<1>6. CASE PollRx \/ StopRx
  BY <1>6 DEF PollRx, StopRx, RxGiveBack, RxGet
<1>7. CASE cpsw_rx_handler
  <2>1. Len(rxRing) < RxDescs /\ pc # "down" /\ soft' # "rxhandler"
    BY <1>7 DEF cpsw_rx_handler, RingInv, PhaseInv, Phases
  <2> QED BY <1>7, <2>1 DEF cpsw_rx_handler, RxPut, RingsSame
<1>8. CASE OpenSubmits
  BY <1>8 DEF OpenSubmits, RxPut, PhaseInv, Phases
<1>9. CASE OpenBegins \/ OpenFails \/ OpenEnds \/ CloseBegins \/ StopBegins
           \/ StopNapi \/ StopEnds
  BY <1>9 DEF OpenBegins, OpenFails, OpenEnds, CloseBegins, StopBegins, StopNapi,
     StopEnds, RingsSame
<1>10. CASE cpsw_adjust_link \/ linkwatch_do_dev \/ EngineTx \/ EngineRx
  BY <1>10 DEF cpsw_adjust_link, LinkUp, LinkDown, linkwatch_do_dev, EngineTx,
     EngineRx, RingsSame
<1>11. CASE UNCHANGED vars
  BY <1>11 DEF vars, RingsSame
<1> HIDE DEF rings, poll
<1> QED BY <1>1, <1>2, <1>3, <1>4, <1>5, <1>6, <1>7, <1>8, <1>9, <1>10, <1>11
        DEF Next, qdisc_run, cpsw_poll, cpsw_ndo_tx_timeout, cpsw_ndo_open,
            cpsw_ndo_stop

\* Each keeps the channels in step with the pool and is a call of the pool
\* as it is meant to be used.
LEMMA RingStep ==
  ASSUME PoolInv, PhaseInv, RingInv, [Next]_vars
  PROVE  RingInv' /\ [PoolNext]_poolVars
<1> USE HalfFacts, PoolAssumption
<1>t. /\ RingOf(holds, txRing, "tx") /\ RingOf(holds, rxRing, "rx")
      /\ Len(rxRing) \in Nat /\ RxDescs \in Nat
      /\ holds \subseteq Descriptors
  BY LenProperties DEF RingInv, RingOf, PoolInv, PoolTypes, Descriptors
<1>h. \A h \in holds : h[2] \in bitmap
  BY DEF PoolInv, OneHolder
<1>1. CASE TxPut
  <2> DEFINE h == <<"tx", TxIndex>>
  <2>1. TxIndex \in Half..NumDesc - 1 /\ TxIndex \notin bitmap
    BY <1>1, TxSearchStaysInHalf DEF TxPut
  <2>2. h \in Descriptors /\ h \notin holds /\ h[1] = "tx" /\ h[1] # "rx"
    BY <1>h, <2>1 DEF Descriptors
  <2>3. holds' = holds \cup {h} /\ txRing' = Append(txRing, h)
        /\ UNCHANGED <<rxRing, pc, soft>> /\ pc = "up"
    BY <1>1, <2>1 DEF TxPut, AllocTx, Grant
  <2> HIDE DEF h
  <2>4. RingOf(holds', txRing', "tx") /\ RingOf(holds', rxRing', "rx")
    <3>1. RingOf(holds \cup {h}, Append(txRing, h), "tx")
      BY <1>t, <2>2, RingPut
    <3>2. RingOf(holds \cup {h}, rxRing, "rx")
      BY <1>t, <2>2, RingOther
    <3> QED BY <2>3, <3>1, <3>2
  <2> QED BY <1>1, <2>3, <2>4 DEF RingInv, TxPut, PoolNext
<1>2. CASE TxRefused
  <2>1. TxIndex = NumDesc + 1
    BY <1>2, TxSearchStaysInHalf DEF TxRefused
  <2>2. holds' = holds
    BY <1>2, <2>1 DEF TxRefused, AllocTx, Grant
  <2> QED BY <1>2, <2>2 DEF RingInv, TxRefused, PoolNext
<1>3. CASE RxPut
  <2> DEFINE h == <<"rx", RxIndex>>
  <2>1. Cardinality(RxHolds) < RxDescs
    <3>1. Cardinality(RxHolds) \in Nat /\ Cardinality(RxHolds) <= Len(rxRing)
      BY <1>t, RingCount DEF RxHolds
    <3> QED BY <1>t, <1>3, <3>1 DEF RxPut
  <2>2. RxIndex \in 0..Half - 1 /\ RxIndex \notin bitmap
    BY <2>1, RxSearchSucceeds
  <2>3. h \in Descriptors /\ h \notin holds /\ h[1] = "rx" /\ h[1] # "tx"
    BY <1>h, <2>2 DEF Descriptors
  <2>4. holds' = holds \cup {h} /\ rxRing' = Append(rxRing, h)
        /\ UNCHANGED <<txRing, pc>> /\ pc # "down" /\ soft' # "rxhandler"
    BY <1>3, <2>2 DEF RxPut, AllocRx, Grant
  <2> HIDE DEF h
  <2>5. RingOf(holds', rxRing', "rx") /\ RingOf(holds', txRing', "tx")
    <3>1. RingOf(holds \cup {h}, Append(rxRing, h), "rx")
      BY <1>t, <2>3, RingPut
    <3>2. RingOf(holds \cup {h}, txRing, "tx")
      BY <1>t, <2>3, RingOther
    <3> QED BY <2>4, <3>1, <3>2
  <2>6. Len(rxRing') = Len(rxRing) + 1
    BY <1>t, <2>3, <2>4, AppendProperties DEF RingOf
  <2>7. Len(rxRing') <= RxDescs
    BY <1>t, <1>3, <2>6 DEF RxPut
  <2> QED BY <1>3, <2>1, <2>4, <2>5, <2>7 DEF RingInv, RxPut, PoolNext, RxHolds
<1>4. CASE TxGet
  <2> DEFINE h == Head(txRing)
  <2>1. /\ holds' = holds \ {h} /\ txRing' = Tail(txRing) /\ txRing # <<>>
        /\ UNCHANGED <<rxRing, pc, soft>>
    BY <1>4 DEF TxGet, cpdma_desc_free
  <2>2. RingOf(holds', txRing', "tx") /\ h \in holds /\ h[1] = "tx"
    BY <1>t, <2>1, RingGet
  <2> HIDE DEF h
  <2>3. RingOf(holds', rxRing', "rx")
    BY <1>t, <2>1, <2>2, RingOther
  <2>4. PoolNext
    BY <1>4, <2>2 DEF TxGet, PoolNext, h
  <2> QED BY <2>1, <2>2, <2>3, <2>4 DEF RingInv
<1>5. CASE RxGet
  <2> DEFINE h == Head(rxRing)
  <2>1. /\ holds' = holds \ {h} /\ rxRing' = Tail(rxRing) /\ rxRing # <<>>
        /\ UNCHANGED <<txRing, pc>>
    BY <1>5 DEF RxGet, cpdma_desc_free
  <2>2. RingOf(holds', rxRing', "rx") /\ h \in holds /\ h[1] = "rx"
        /\ Len(rxRing') = Len(rxRing) - 1
    BY <1>t, <2>1, RingGet
  <2> HIDE DEF h
  <2>3. RingOf(holds', txRing', "tx")
    BY <1>t, <2>1, <2>2, RingOther
  <2>4. PoolNext
    BY <1>5, <2>2 DEF RxGet, PoolNext, h
  <2>5. Len(rxRing') < RxDescs
    BY <1>t, <2>2 DEF RingInv
  <2>6. pc # "down"
    BY <2>1 DEF RingInv
  <2> QED BY <1>t, <2>1, <2>2, <2>3, <2>4, <2>5, <2>6 DEF RingInv
<1>6. CASE RingsSame
  BY <1>6 DEF RingsSame, RingInv, poolVars
<1> QED BY <1>1, <1>2, <1>3, <1>4, <1>5, <1>6, RingSteps

LEMMA RingInvHolds == Spec => [](PoolInv /\ RingInv)
<1>1. Init => PoolInv /\ RingInv
  <2> SUFFICES ASSUME Init PROVE PoolInv /\ RingInv
    OBVIOUS
  <2>1. PoolInit /\ txRing = <<>> /\ rxRing = <<>> /\ soft = "none"
    BY DEF Init
  <2>2. PoolInv
    BY <2>1, PoolInvInductive
  <2>3. holds = {}
    BY <2>1 DEF PoolInit
  <2>4. RingOf(holds, <<>>, "tx") /\ RingOf(holds, <<>>, "rx")
    BY <2>3 DEF RingOf
  <2>5. Len(<<>>) = 0 /\ RxDescs \in Nat
    BY PoolAssumption, HalfFacts
  <2> QED BY <2>1, <2>2, <2>4, <2>5 DEF RingInv
<1>2. ASSUME PoolInv, RingInv, PhaseInv, [Next]_vars PROVE (PoolInv /\ RingInv)'
  BY <1>2, RingStep, PoolInvInductive
<1> QED BY <1>1, <1>2, PhaseInvHolds, PTL DEF Spec

\* The driver calls the pool only as PoolSpec allows: each descriptor is freed
\* once by its holder, and the receive side, whose search does not test what
\* it finds, never asks for one more than RxDescs, neither in cpsw_ndo_open nor
\* in cpsw_rx_handler.
THEOREM DriverUsesPool == Spec => UsesPool
<1>1. Init => PoolInit
  BY DEF Init
<1>2. ASSUME PoolInv, RingInv, PhaseInv, [Next]_vars PROVE [PoolNext]_poolVars
  BY <1>2, RingStep
<1> QED BY <1>1, <1>2, RingInvHolds, PhaseInvHolds, PTL DEF Spec, UsesPool, PoolSpec

\* So what holds of the pool holds of the driver's.
THEOREM DriverPoolIsSafe ==
  Spec => [](OneHolder /\ HalvesApart /\ UsedDescExact /\ TxFailsOnlyWhenFull)
BY DriverUsesPool, NoDoubleGrant, HalvesStayApart, UsedDescCounts,
   TxSearchIsComplete, PTL DEF UsesPool

\* After a stop, and after an open that failed, every descriptor has come back
\* to the pool.
THEOREM DownHoldsNothing == Spec => []NothingHeldWhenDown
<1>1. PoolInv /\ RingInv => NothingHeldWhenDown
  <2> SUFFICES ASSUME PoolInv, RingInv, pc = "down"
               PROVE  holds = {} /\ usedDesc = 0
    BY DEF NothingHeldWhenDown
  <2>1. RingOf(holds, <<>>, "tx") /\ RingOf(holds, <<>>, "rx")
    BY DEF RingInv
  <2>2. \A h \in holds : h[1] # "tx" /\ h[1] # "rx"
    BY <2>1 DEF RingOf
  <2>3. \A h \in holds : h[1] \in {"rx", "tx"}
    BY DEF PoolInv, PoolTypes
  <2>4. holds = {}
    BY <2>2, <2>3
  <2>5. usedDesc = 0
    BY <2>4, FS_EmptySet DEF PoolInv, UsedDescExact
  <2> QED BY <2>4, <2>5
<1> QED BY <1>1, RingInvHolds, PTL

-----------------------------------------------------------------------------
(* The stopped queue.                                                      *)

\* A transmit request is refused only while the transmit channel has buffers.
LEMMA RefusedMeansBusy ==
  ASSUME PoolInv, RingInv, TxIndex >= NumDesc
  PROVE  txRing # <<>>
<1> USE HalfFacts, PoolAssumption
<1>1. Half \in bitmap
  BY TxSearchComplete
<1>2. PICK h \in holds : h[2] = Half
  BY <1>1 DEF PoolInv, OneHolder
<1>3. h[1] = "tx"
  BY <1>2 DEF PoolInv, HalvesApart, PoolTypes
<1>4. RingOf(holds, txRing, "tx")
  BY DEF RingInv
<1>5. PICK i \in 1..Len(txRing) : txRing[i] = h
  BY <1>3, <1>4 DEF RingOf
<1> QED BY <1>5

LEMMA StoppedStep ==
  ASSUME PoolInv, RingInv, PhaseInv, StoppedHasReason, [Next]_vars
  PROVE  StoppedHasReason'
<1> USE DEF StoppedHasReason, queue, rings
<1>1. CASE dev_queue_xmit \/ net_tx_action \/ QdiscIdle \/ QdiscParks
  BY <1>1 DEF dev_queue_xmit, net_tx_action, QdiscIdle, QdiscParks
<1>2. CASE XmitOk \/ XmitPadFails
  BY <1>2 DEF XmitOk, XmitPadFails
<1>3. CASE XmitBusy
  BY <1>3, RefusedMeansBusy DEF XmitBusy
<1>4. CASE cpsw_interrupt \/ PollStart \/ PollTxEnds \/ PollRx \/ cpsw_rx_handler
           \/ PollCompletes \/ PollUsesBudget \/ dev_watchdog \/ TimeoutEnds
  BY <1>4 DEF cpsw_interrupt, PollStart, PollTxEnds, PollRx, cpsw_rx_handler,
     PollCompletes, PollUsesBudget, dev_watchdog, TimeoutEnds
<1>5. CASE PollTx \/ TimeoutFrees \/ StopTx
  BY <1>5 DEF PollTx, TimeoutFrees, StopTx, TxGiveBack, cpsw_tx_handler,
     netif_start_queue
<1>6. CASE cpsw_ndo_open
  BY <1>6 DEF cpsw_ndo_open, OpenBegins, OpenFails, OpenSubmits, OpenEnds,
     PhaseInv, Phases
<1>7. CASE CloseBegins \/ StopBegins \/ StopNapi \/ StopRx \/ StopEnds
  BY <1>7 DEF CloseBegins, StopBegins, StopNapi, StopRx, StopEnds
<1>8. CASE cpsw_adjust_link
  BY <1>8 DEF cpsw_adjust_link, LinkUp, LinkDown, netif_start_queue, Running
<1>9. CASE linkwatch_do_dev \/ EngineTx \/ EngineRx
  BY <1>9 DEF linkwatch_do_dev, EngineTx, EngineRx
<1>10. CASE UNCHANGED vars
  BY <1>10 DEF vars
<1> HIDE DEF StoppedHasReason, queue, rings
<1> QED BY <1>1, <1>2, <1>3, <1>4, <1>5, <1>6, <1>7, <1>8, <1>9, <1>10
        DEF Next, qdisc_run, cpsw_poll, cpsw_ndo_tx_timeout, cpsw_ndo_stop

\* With a carrier the queue is stopped only while a packet is on its way whose
\* completion will start it again, unless a packet could not be padded.
THEOREM StoppedQueueHasReason == Spec => []StoppedHasReason
<1>1. Init => StoppedHasReason
  BY DEF Init, StoppedHasReason
<1>2. ASSUME PoolInv /\ RingInv, PhaseInv, StoppedHasReason, [Next]_vars
      PROVE  StoppedHasReason'
  BY <1>2, StoppedStep
<1> QED BY <1>1, <1>2, RingInvHolds, PhaseInvHolds, PTL DEF Spec

-----------------------------------------------------------------------------
(* Type correctness.                                                       *)

FlagTypes ==
  /\ carrier \in BOOLEAN /\ qactive \in BOOLEAN /\ gso \in BOOLEAN
  /\ txsched \in BOOLEAN /\ qrun \in BOOLEAN /\ stopped \in BOOLEAN
  /\ padStop \in BOOLEAN /\ intr \in BOOLEAN /\ armed \in BOOLEAN
  /\ line \in BOOLEAN /\ lineLost \in BOOLEAN

BacklogTypes == backlog \in 0..MaxBacklog /\ (gso => backlog > 0)

CountTypes ==
  /\ txDone \in Nat /\ txDone <= Len(txRing)
  /\ rxDone \in Nat /\ rxDone <= Len(rxRing)
  /\ left \in 0..TxQuota + Budget

LEMMA FlagStep == FlagTypes /\ [Next]_vars => FlagTypes'
<1> SUFFICES ASSUME FlagTypes, [Next]_vars PROVE FlagTypes'
  OBVIOUS
<1> USE DEF FlagTypes, qdisc, queue, irqs, poll
<1>1. CASE dev_queue_xmit \/ net_tx_action
  BY <1>1 DEF dev_queue_xmit, net_tx_action
<1>2. CASE qdisc_run
  BY <1>2, ZenonT(60) DEF qdisc_run, QdiscIdle, QdiscParks, XmitOk, XmitBusy, XmitPadFails,
     dev_requeue_skb
<1>3. CASE cpsw_interrupt
  BY <1>3 DEF cpsw_interrupt
<1>g. ASSUME TxGiveBack PROVE stopped' \in BOOLEAN /\ padStop' \in BOOLEAN
  BY <1>g DEF TxGiveBack, cpsw_tx_handler, netif_start_queue
<1>4. CASE PollTx \/ TimeoutFrees \/ StopTx
  BY <1>4, <1>g, ZenonT(60) DEF PollTx, TimeoutFrees, StopTx
<1>5. CASE PollStart \/ PollTxEnds \/ PollRx
  BY <1>5, ZenonT(60) DEF PollStart, PollTxEnds, PollRx
<1>6. CASE cpsw_rx_handler
  BY <1>6 DEF cpsw_rx_handler
<1>7. CASE PollCompletes \/ PollUsesBudget
  BY <1>7, ZenonT(60) DEF PollCompletes, PollUsesBudget
<1>8. CASE dev_watchdog \/ TimeoutEnds
  BY <1>8, ZenonT(60) DEF dev_watchdog, TimeoutEnds
<1>9. CASE OpenBegins \/ OpenFails
  BY <1>9, ZenonT(60) DEF OpenBegins, OpenFails
<1>10. CASE OpenSubmits \/ OpenEnds
  BY <1>10, ZenonT(60) DEF OpenSubmits, OpenEnds
<1>11. CASE CloseBegins \/ StopBegins
  BY <1>11, ZenonT(60) DEF CloseBegins, StopBegins
<1>12. CASE StopNapi \/ StopRx \/ StopEnds
  BY <1>12, ZenonT(60) DEF StopNapi, StopRx, StopEnds
<1>13. CASE LinkUp
  BY <1>13 DEF LinkUp, netif_start_queue
<1>14. CASE LinkDown
  BY <1>14 DEF LinkDown
<1>15. CASE linkwatch_do_dev
  BY <1>15 DEF linkwatch_do_dev
<1>16. CASE EngineTx \/ EngineRx
  BY <1>16 DEF EngineTx, EngineRx
<1>17. CASE UNCHANGED vars
  BY <1>17 DEF vars
<1> HIDE DEF FlagTypes, qdisc, queue, irqs, poll
<1> QED BY <1>1, <1>2, <1>3, <1>4, <1>5, <1>6, <1>7, <1>8, <1>9, <1>10, <1>11,
           <1>12, <1>13, <1>14, <1>15, <1>16, <1>17
        DEF Next, cpsw_adjust_link, cpsw_poll, cpsw_ndo_tx_timeout,
            cpsw_ndo_open, cpsw_ndo_stop

LEMMA BacklogStep == BacklogTypes /\ [Next]_vars => BacklogTypes'
<1> SUFFICES ASSUME BacklogTypes, [Next]_vars PROVE BacklogTypes'
  OBVIOUS
<1> USE CpswAssumption DEF BacklogTypes, qdisc
<1>1. CASE dev_queue_xmit \/ net_tx_action
  BY <1>1 DEF dev_queue_xmit, net_tx_action
<1>2. CASE QdiscIdle \/ QdiscParks \/ XmitBusy \/ XmitPadFails
  BY <1>2 DEF QdiscIdle, QdiscParks, XmitBusy, XmitPadFails, dev_requeue_skb
<1>3. CASE XmitOk
  BY <1>3 DEF XmitOk
<1>4. CASE cpsw_interrupt \/ cpsw_poll \/ dev_watchdog \/ cpsw_ndo_tx_timeout
  BY <1>4 DEF cpsw_interrupt, cpsw_poll, PollStart, PollTx, PollTxEnds, PollRx,
     cpsw_rx_handler, PollCompletes, PollUsesBudget, dev_watchdog,
     cpsw_ndo_tx_timeout, TimeoutFrees, TimeoutEnds
<1>5. CASE cpsw_ndo_open
  BY <1>5 DEF cpsw_ndo_open, OpenBegins, OpenFails, OpenSubmits, OpenEnds
<1>6. CASE cpsw_ndo_stop
  BY <1>6 DEF cpsw_ndo_stop, CloseBegins, StopBegins, StopNapi, StopTx, StopRx,
     StopEnds
<1>7. CASE cpsw_adjust_link \/ linkwatch_do_dev \/ EngineTx \/ EngineRx
  BY <1>7 DEF cpsw_adjust_link, LinkUp, LinkDown, linkwatch_do_dev, EngineTx,
     EngineRx
<1>8. CASE UNCHANGED vars
  BY <1>8 DEF vars
<1> HIDE DEF BacklogTypes, qdisc
<1> QED BY <1>1, <1>2, <1>3, <1>4, <1>5, <1>6, <1>7, <1>8 DEF Next, qdisc_run

LEMMA CountStep ==
  ASSUME PoolInv, RingInv, CountTypes, [Next]_vars
  PROVE  CountTypes'
<1> USE CpswAssumption DEF CountTypes, rings, poll
<1>t. Len(txRing) \in Nat /\ Len(rxRing) \in Nat
  BY LenProperties DEF RingInv, RingOf
<1>a. \A x : /\ Len(Append(txRing, x)) = Len(txRing) + 1
             /\ Len(Append(rxRing, x)) = Len(rxRing) + 1
  <2>1. txRing \in Seq(Descriptors) /\ rxRing \in Seq(Descriptors)
    BY DEF RingInv, RingOf
  <2> QED BY <2>1
<1>g. /\ txRing # <<>> => Len(Tail(txRing)) = Len(txRing) - 1 /\ Len(txRing) > 0
      /\ rxRing # <<>> => Len(Tail(rxRing)) = Len(rxRing) - 1 /\ Len(rxRing) > 0
  BY RingGet DEF RingInv
<1>1. CASE dev_queue_xmit \/ net_tx_action \/ QdiscIdle \/ QdiscParks
           \/ XmitBusy \/ XmitPadFails
  BY <1>1 DEF dev_queue_xmit, net_tx_action, QdiscIdle, QdiscParks, XmitBusy,
     XmitPadFails
<1>2. CASE XmitOk
  BY <1>2, <1>t, <1>a DEF XmitOk
<1>3. CASE cpsw_interrupt \/ PollStart \/ PollTxEnds \/ PollCompletes
           \/ PollUsesBudget \/ dev_watchdog \/ TimeoutEnds
  BY <1>3 DEF cpsw_interrupt, PollStart, PollTxEnds, PollCompletes,
     PollUsesBudget, dev_watchdog, TimeoutEnds
<1>4. CASE PollTx
  BY <1>4, <1>t, <1>g DEF PollTx, TxGiveBack
<1>5. CASE PollRx
  BY <1>5, <1>t, <1>g DEF PollRx, RxGiveBack
<1>6. CASE cpsw_rx_handler
  BY <1>6, <1>t, <1>a DEF cpsw_rx_handler
<1>7. CASE TimeoutFrees \/ StopTx
  BY <1>7, <1>t, <1>g DEF TimeoutFrees, StopTx, TxGiveBack
<1>8. CASE StopRx
  BY <1>8, <1>t, <1>g DEF StopRx, RxGiveBack
<1>9. CASE OpenSubmits
  BY <1>9, <1>t, <1>a DEF OpenSubmits
<1>10. CASE OpenBegins \/ OpenFails \/ OpenEnds \/ CloseBegins \/ StopBegins
            \/ StopNapi \/ StopEnds
  BY <1>10 DEF OpenBegins, OpenFails, OpenEnds, CloseBegins, StopBegins,
     StopNapi, StopEnds
<1>11. CASE cpsw_adjust_link \/ linkwatch_do_dev
  BY <1>11 DEF cpsw_adjust_link, LinkUp, LinkDown, linkwatch_do_dev
<1>12. CASE EngineTx \/ EngineRx
  BY <1>12, <1>t DEF EngineTx, EngineRx
<1>13. CASE UNCHANGED vars
  BY <1>13 DEF vars
<1> HIDE DEF CountTypes, rings, poll
<1> QED BY <1>1, <1>2, <1>3, <1>4, <1>5, <1>6, <1>7, <1>8, <1>9, <1>10, <1>11,
           <1>12, <1>13
        DEF Next, qdisc_run, cpsw_poll, cpsw_ndo_tx_timeout, cpsw_ndo_open,
            cpsw_ndo_stop

\* Every variable keeps its type; in particular no more buffers are complete
\* than a channel has, the channels hold only descriptors of theirs, and the
\* parked packet is counted in the backlog.
THEOREM TypeCorrect == Spec => []TypeOK
<1> DEFINE Types == FlagTypes /\ BacklogTypes /\ CountTypes
<1>1. Init => Types
  <2> SUFFICES ASSUME Init PROVE Types
    OBVIOUS
  <2>1. FlagTypes
    BY DEF Init, FlagTypes
  <2>2. BacklogTypes /\ CountTypes
    BY CpswAssumption DEF Init, BacklogTypes, CountTypes
  <2> QED BY <2>1, <2>2
<1>2. ASSUME PoolInv /\ RingInv, Types, [Next]_vars PROVE Types'
  BY <1>2, FlagStep, BacklogStep, CountStep
<1>3. ASSUME PoolInv /\ RingInv, PhaseInv, Types PROVE TypeOK
  <2>1. /\ pc \in {"down", "opening", "up", "deactivated", "disabling", "stopping"}
        /\ soft \in {"none", "polltx", "pollrx", "rxhandler", "timeout"}
        /\ napi \in {"off", "idle", "sched"}
    BY <1>3 DEF PhaseInv, PhaseTypes
  <2>2. {carrier, qactive, gso, txsched, qrun, stopped, padStop, intr, armed, line,
         lineLost} \subseteq BOOLEAN
    BY <1>3, Zenon DEF FlagTypes
  <2>3. {txRing, rxRing} \subseteq Seq(holds)
    <3>1. /\ txRing \in Seq(Descriptors) /\ rxRing \in Seq(Descriptors)
          /\ \A i \in 1..Len(txRing) : txRing[i] \in holds
          /\ \A i \in 1..Len(rxRing) : rxRing[i] \in holds
      BY <1>3 DEF RingInv, RingOf
    <3>2. txRing \in Seq(holds) /\ rxRing \in Seq(holds)
      BY <3>1
    <3> QED BY <3>2
  <2>4. txDone \in 0..Len(txRing) /\ rxDone \in 0..Len(rxRing)
    <3>1. Len(txRing) \in Nat /\ Len(rxRing) \in Nat
      BY <1>3, LenProperties DEF RingInv, RingOf
    <3> QED BY <1>3, <3>1 DEF CountTypes
  <2> QED BY <1>3, <2>1, <2>2, <2>3, <2>4 DEF TypeOK, BacklogTypes, CountTypes
<1> QED BY <1>1, <1>2, <1>3, RingInvHolds, PhaseInvHolds, PTL DEF Spec
=============================================================================
