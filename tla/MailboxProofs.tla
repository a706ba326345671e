--------------------------- MODULE MailboxProofs ---------------------------
(***************************************************************************)
(* Proofs about Mailbox, for every queue capacity, device depth and bound. *)
(***************************************************************************)
EXTENDS Mailbox, SequenceTheorems, TLAPS

USE KfifoLenAssumption, FifoDepthAssumption, BoundsAssumption

-----------------------------------------------------------------------------
(* Facts about queues.                                                     *)

\* Moving the head of one queue to the tail of the queue before it changes
\* nothing in what the two hold together.
LEMMA MoveHead ==
  ASSUME NEW S, NEW s \in Seq(S), NEW t \in Seq(S), t # <<>>
  PROVE  Append(s, Head(t)) \o Tail(t) = s \o t
<1>1. Head(t) \in S /\ Tail(t) \in Seq(S) /\ Len(Tail(t)) = Len(t) - 1
      /\ Len(t) \in Nat \ {0} /\ Head(t) = t[1]
  BY HeadTailProperties, EmptySeq
<1>2. Append(s, Head(t)) \in Seq(S) /\ Len(Append(s, Head(t))) = Len(s) + 1
  BY <1>1, AppendProperties
<1>3. Append(s, Head(t)) \o Tail(t) \in Seq(S) /\ s \o t \in Seq(S)
  BY <1>1, <1>2, ConcatProperties
<1>4. Len(Append(s, Head(t)) \o Tail(t)) = Len(s \o t)
  BY <1>1, <1>2, ConcatProperties, LenProperties
<1>5. \A i \in 1..Len(s \o t) : (Append(s, Head(t)) \o Tail(t))[i] = (s \o t)[i]
  BY <1>1, <1>2, ConcatProperties, HeadTailProperties, AppendProperties,
     LenProperties
<1> QED BY <1>3, <1>4, <1>5, SeqEqual

\* Appending to the last of two queues appends to what they hold together.
LEMMA AppendLast ==
  ASSUME NEW S, NEW s \in Seq(S), NEW t \in Seq(S), NEW e \in S
  PROVE  s \o Append(t, e) = Append(s \o t, e)
<1>1. Append(t, e) = t \o <<e>> /\ <<e>> \in Seq(S)
  BY AppendIsConcat
<1>2. s \o t \in Seq(S) /\ Append(s \o t, e) = (s \o t) \o <<e>>
  BY ConcatProperties, AppendIsConcat
<1> QED BY <1>1, <1>2, ConcatAssociative

\* The handler cuts the device's queue in two: the part it moves and the rest.
LEMMA CutInTwo ==
  ASSUME NEW S, NEW s \in Seq(S), NEW n \in 0..Len(s)
  PROVE  /\ SubSeq(s, 1, n) \in Seq(S) /\ Len(SubSeq(s, 1, n)) = n
         /\ SubSeq(s, n + 1, Len(s)) \in Seq(S)
         /\ Len(SubSeq(s, n + 1, Len(s))) = Len(s) - n
         /\ SubSeq(s, 1, n) \o SubSeq(s, n + 1, Len(s)) = s
<1>1. Len(s) \in Nat /\ \A i \in 1..Len(s) : s[i] \in S
  BY LenProperties, ElementOfSeq
<1>2. /\ SubSeq(s, 1, n) \in Seq(S)
      /\ Len(SubSeq(s, 1, n)) = n
  BY <1>1, SubSeqProperties
<1>3. /\ SubSeq(s, n + 1, Len(s)) \in Seq(S)
      /\ Len(SubSeq(s, n + 1, Len(s))) = Len(s) - n
  BY <1>1, SubSeqProperties
<1>4. SubSeq(s, 1, n) \o SubSeq(s, n + 1, Len(s)) = SubSeq(s, 1, Len(s))
  <2>1. 1 \in 1..Len(s)+1 /\ n \in (1-1)..Len(s) /\ Len(s) \in n..Len(s)
    BY <1>1
  <2> QED BY <2>1, ConcatAdjacentSubSeq, Zenon
<1> QED BY <1>2, <1>3, <1>4, SubSeqFull

-----------------------------------------------------------------------------
(* Type correctness.                                                       *)

\* What a queue holds and how long it gets, for the three ways it changes.
LEMMA QueueTypes ==
  ASSUME NEW s \in Seq(MsgNos)
  PROVE  /\ Len(s) \in Nat
         /\ s # <<>> => /\ Head(s) \in MsgNos /\ Tail(s) \in Seq(MsgNos)
                         /\ Len(s) > 0 /\ Len(Tail(s)) = Len(s) - 1
         /\ \A m \in MsgNos : /\ Append(s, m) \in Seq(MsgNos)
                               /\ Len(Append(s, m)) = Len(s) + 1
         /\ Len(s) + 1 \in MsgNos
BY HeadTailProperties, AppendProperties, EmptySeq, LenProperties DEF MsgNos

\* A queue that is left alone, or appended to below its capacity, stays within it.
LEMMA GrowsWithin ==
  ASSUME NEW s \in Seq(MsgNos), NEW m \in MsgNos, NEW k \in Nat, Len(s) <= k,
         NEW t, t = s \/ (Len(s) # k /\ t = Append(s, m))
  PROVE  t \in Seq(MsgNos) /\ Len(t) <= k
<1>1. Len(s) \in Nat /\ Append(s, m) \in Seq(MsgNos)
      /\ Len(Append(s, m)) = Len(s) + 1
  BY QueueTypes
<1>2. CASE t = s
  BY <1>2
<1>3. CASE Len(s) # k /\ t = Append(s, m)
  BY <1>1, <1>3
<1> QED BY <1>2, <1>3

\* What the interrupt handler makes of the receive queues.
LEMMA RxInterruptTypes ==
  ASSUME RxTypeOK, __mbox_rx_interrupt
  PROVE  /\ rxq' \in Seq(MsgNos) /\ Len(rxq') <= KfifoLen
         /\ hwrx' \in Seq(MsgNos) /\ Len(hwrx') <= FifoDepth
         /\ rxq' \o hwrx' = rxq \o hwrx
         /\ \/ irqRx' = FALSE /\ full' = TRUE /\ rxq' # <<>>
            \/ hwrx' = <<>> /\ UNCHANGED <<irqRx, full>>
         /\ workPending' = TRUE
<1> DEFINE room == KfifoLen - Len(rxq)
           n    == IF room < Len(hwrx) THEN room ELSE Len(hwrx)
           a    == SubSeq(hwrx, 1, n)
           b    == SubSeq(hwrx, n + 1, Len(hwrx))
<1>1. /\ rxq \in Seq(MsgNos) /\ hwrx \in Seq(MsgNos) /\ Len(rxq) \in Nat
      /\ Len(hwrx) \in Nat /\ Len(rxq) <= KfifoLen /\ Len(hwrx) <= FifoDepth
  BY LenProperties DEF RxTypeOK
<1>2. n \in 0..Len(hwrx) /\ n <= KfifoLen - Len(rxq)
      /\ (n < Len(hwrx) => n = KfifoLen - Len(rxq))
  BY <1>1
<1>3. /\ rxq' = rxq \o a /\ hwrx' = b /\ workPending' = TRUE
      /\ IF n < Len(hwrx) THEN irqRx' = FALSE /\ full' = TRUE
                          ELSE UNCHANGED <<irqRx, full>>
  BY DEF __mbox_rx_interrupt
<1> HIDE DEF n
<1>4. /\ a \in Seq(MsgNos) /\ Len(a) = n /\ b \in Seq(MsgNos)
      /\ Len(b) = Len(hwrx) - n /\ a \o b = hwrx
  BY <1>1, <1>2, CutInTwo, ZenonT(60)
<1> HIDE DEF a, b
<1>5. rxq \o a \in Seq(MsgNos) /\ Len(rxq \o a) = Len(rxq) + n
  BY <1>1, <1>4, ConcatProperties
<1>6. (rxq \o a) \o b = rxq \o hwrx
  <2>1. rxq \in Seq(MsgNos) /\ a \in Seq(MsgNos) /\ b \in Seq(MsgNos)
    BY <1>1, <1>4
  <2>2. (rxq \o a) \o b = rxq \o (a \o b)
    BY <2>1, ConcatAssociative
  <2> QED BY <2>2, <1>4
<1>7. n < Len(hwrx) => rxq \o a # <<>>
  BY <1>1, <1>2, <1>5, EmptySeq
<1>8. ~(n < Len(hwrx)) => b = <<>>
  BY <1>1, <1>2, <1>4, EmptySeq
<1>9. Len(rxq \o a) <= KfifoLen /\ Len(b) <= FifoDepth
  BY <1>1, <1>2, <1>4, <1>5
<1> QED BY <1>3, <1>4, <1>5, <1>6, <1>7, <1>8, <1>9

\* Every variable keeps its type; in particular the driver never writes a full
\* transmit FIFO and never stores more than a kfifo holds.
THEOREM TypeCorrect == Spec => []TypeOK
<1>1. Init => TypeOK
  <2>1. <<>> \in Seq(MsgNos) /\ Len(<<>>) = 0
    BY EmptySeq
  <2>2. Init => /\ {txSched, irqTx, full, irqRx, workPending, masked} \subseteq BOOLEAN
                /\ txpc = "idle" /\ rxpc = "idle" /\ rxmsg = 0 /\ masks = 0
    BY Zenon DEF Init
  <2>3. Init => \A s \in {txq, hwtx, rxq, hwrx, accepted, taken, posted, delivered} :
                   s = <<>>
    BY Zenon DEF Init
  <2> QED BY <2>1, <2>2, <2>3 DEF TypeOK, TxTypeOK, RxTypeOK
<1>2. TypeOK /\ [Next]_vars => TypeOK'
  <2> SUFFICES ASSUME TypeOK, [Next]_vars PROVE TypeOK'
    OBVIOUS
  <2>t. TxTypeOK /\ RxTypeOK
    BY DEF TypeOK
  <2>1. CASE omap_mbox_msg_send
    <3>1. RxTypeOK'
      BY <2>t, <2>1 DEF omap_mbox_msg_send, RxTypeOK, rxvars, maskvars
    <3> DEFINE msg == Len(accepted) + 1
    <3>2. /\ txq \in Seq(MsgNos) /\ hwtx \in Seq(MsgNos) /\ Len(txq) \in Nat
          /\ Len(txq) <= KfifoLen /\ Len(hwtx) <= FifoDepth /\ msg \in MsgNos
          /\ Append(accepted, msg) \in Seq(MsgNos) /\ accepted \in Seq(MsgNos)
      BY <2>t, QueueTypes DEF TxTypeOK
    <3>3. /\ txq' = txq \/ (Len(txq) < KfifoLen /\ txq' = Append(txq, msg))
          /\ hwtx' = hwtx \/ (Len(hwtx) # FifoDepth /\ hwtx' = Append(hwtx, msg))
          /\ accepted' = accepted \/ accepted' = Append(accepted, msg)
          /\ UNCHANGED <<irqTx, txpc, taken>>
      BY <2>1 DEF omap_mbox_msg_send, mbox_fifo_full
    <3>b. txSched' \in BOOLEAN
      BY <2>t, <2>1, Zenon DEF omap_mbox_msg_send, TxTypeOK
    <3> HIDE DEF msg
    <3>k. KfifoLen \in Nat /\ FifoDepth \in Nat
          /\ (Len(txq) < KfifoLen => Len(txq) # KfifoLen)
      BY <3>2
    <3>4. /\ txq' \in Seq(MsgNos) /\ Len(txq') <= KfifoLen
          /\ hwtx' \in Seq(MsgNos) /\ Len(hwtx') <= FifoDepth
          /\ accepted' \in Seq(MsgNos)
      BY <3>2, <3>3, <3>k, GrowsWithin, Zenon
    <3>5. TxTypeOK'
      BY <2>t, <3>3, <3>4, <3>b DEF TxTypeOK
    <3> QED BY <3>1, <3>5 DEF TypeOK
  <2>2. CASE mbox_tx_tasklet
    <3>1. RxTypeOK'
      BY <2>t, <2>2 DEF mbox_tx_tasklet, TaskletStart, TaskletMove,
         TaskletSeesFull, TaskletArm, TaskletDone, RxTypeOK, rxvars, maskvars
    <3>2. ASSUME TaskletMove PROVE TxTypeOK'
      BY <2>t, <3>2, QueueTypes DEF TaskletMove, TxTypeOK, mbox_fifo_full
    <3>3. ASSUME TaskletStart \/ TaskletSeesFull \/ TaskletArm \/ TaskletDone
          PROVE  TxTypeOK'
      BY <2>t, <3>3 DEF TaskletStart, TaskletSeesFull, TaskletArm, TaskletDone,
         TxTypeOK
    <3> QED BY <2>2, <3>1, <3>2, <3>3 DEF mbox_tx_tasklet, TypeOK
  <2>3. CASE mbox_interrupt
    <3>1. TxTypeOK'
      BY <2>t, <2>3 DEF mbox_interrupt, TxTypeOK, __mbox_tx_interrupt
    <3>2. CASE RxRaised
      <4>1. __mbox_rx_interrupt /\ UNCHANGED <<rxpc, rxmsg, posted, delivered,
                                              masked, masks>>
        BY <2>3, <3>2 DEF mbox_interrupt, maskvars
      <4> QED BY <2>t, <3>1, <4>1, RxInterruptTypes DEF RxTypeOK, TypeOK
    <3>3. CASE ~RxRaised
      BY <2>t, <2>3, <3>1, <3>3 DEF mbox_interrupt, RxTypeOK, maskvars, TypeOK
    <3> QED BY <3>2, <3>3
  <2>4. CASE mbox_rx_work
    <3>1. TxTypeOK'
      BY <2>t, <2>4 DEF mbox_rx_work, RxWorkStart, RxWorkPop, RxWorkNotify,
         RxWorkRefill, RxWorkDone, TxTypeOK, txvars
    <3>2. ASSUME RxWorkStart \/ RxWorkDone PROVE RxTypeOK'
      BY <2>t, <3>2 DEF RxWorkStart, RxWorkDone, RxTypeOK, maskvars
    <3>3. ASSUME RxWorkPop PROVE RxTypeOK'
      BY <2>t, <3>3, QueueTypes DEF RxWorkPop, RxTypeOK, maskvars, MsgNos
    <3>4. ASSUME RxWorkNotify PROVE RxTypeOK'
      BY <2>t, <3>4, QueueTypes DEF RxWorkNotify, RxTypeOK, maskvars, MsgNos
    <3>5. ASSUME RxWorkRefill PROVE RxTypeOK'
      <4>1. /\ rxq \in Seq(MsgNos) /\ Len(rxq) <= KfifoLen /\ Len(rxq) \in Nat
            /\ hwrx \in Seq(MsgNos) /\ Len(hwrx) <= FifoDepth /\ Len(hwrx) \in Nat
            /\ hwrx # <<>> => /\ Tail(hwrx) \in Seq(MsgNos)
                               /\ Len(Tail(hwrx)) <= FifoDepth
                               /\ Head(hwrx) \in MsgNos
        BY <2>t, QueueTypes DEF RxTypeOK
      <4>2. /\ hwrx' = hwrx \/ (hwrx # <<>> /\ hwrx' = Tail(hwrx))
            /\ rxq' = rxq \/ (hwrx # <<>> /\ Len(rxq) < KfifoLen
                               /\ rxq' = Append(rxq, Head(hwrx)))
            /\ rxpc' = "loop"
            /\ UNCHANGED <<workPending, rxmsg, posted, delivered, masked, masks>>
        BY <3>5 DEF RxWorkRefill, kfifo_in, mbox_fifo_empty, maskvars
      <4>3. full' \in BOOLEAN /\ irqRx' \in BOOLEAN
        BY <2>t, <3>5, Zenon DEF RxWorkRefill, RxTypeOK
      <4>4. hwrx' \in Seq(MsgNos) /\ Len(hwrx') <= FifoDepth
        BY <4>1, <4>2, Zenon
      <4>5. rxq' \in Seq(MsgNos) /\ Len(rxq') <= KfifoLen
        <5>1. KfifoLen \in Nat /\ (Len(rxq) < KfifoLen => Len(rxq) # KfifoLen)
          BY <4>1
        <5> QED BY <4>1, <4>2, <5>1, GrowsWithin, Zenon
      <4> QED BY <2>t, <4>2, <4>3, <4>4, <4>5 DEF RxTypeOK
    <3> QED BY <2>4, <3>1, <3>2, <3>3, <3>4, <3>5 DEF mbox_rx_work, TypeOK
  <2>5. CASE omap_mbox_disable_irq \/ omap_mbox_enable_irq
    <3>1. TxTypeOK'
      BY <2>t, <2>5 DEF omap_mbox_disable_irq, omap_mbox_enable_irq, TxTypeOK,
         txvars
    <3>2. RxTypeOK'
      <4>1. masked' \in BOOLEAN /\ irqRx' \in BOOLEAN
        BY <2>5, Zenon DEF omap_mbox_disable_irq, omap_mbox_enable_irq
      <4>2. /\ masks' = masks \/ (masks < MaxMask /\ masks' = masks + 1)
            /\ UNCHANGED <<rxq, hwrx, full, workPending, rxpc, rxmsg, posted,
                           delivered>>
        BY <2>5 DEF omap_mbox_disable_irq, omap_mbox_enable_irq
      <4> QED BY <2>t, <4>1, <4>2 DEF RxTypeOK
    <3> QED BY <3>1, <3>2 DEF TypeOK
  <2>6. CASE RemoteRead
    <3>1. RxTypeOK'
      BY <2>t, <2>6 DEF RemoteRead, RxTypeOK, rxvars, maskvars
    <3>2. TxTypeOK'
      BY <2>t, <2>6, QueueTypes DEF RemoteRead, TxTypeOK
    <3> QED BY <3>1, <3>2 DEF TypeOK
  <2>7. CASE RemoteWrite
    <3>1. TxTypeOK'
      BY <2>t, <2>7 DEF RemoteWrite, TxTypeOK, txvars
    <3>2. RxTypeOK'
      BY <2>t, <2>7, QueueTypes DEF RemoteWrite, RxTypeOK, maskvars
    <3> QED BY <3>1, <3>2 DEF TypeOK
  <2>8. CASE UNCHANGED vars
    BY <2>t, <2>8 DEF vars, txvars, rxvars, maskvars, TypeOK, TxTypeOK, RxTypeOK
  <2> QED BY <2>1, <2>2, <2>3, <2>4, <2>5, <2>6, <2>7, <2>8 DEF Next
<1> QED BY <1>1, <1>2, PTL DEF Spec

-----------------------------------------------------------------------------
(* Nobody waits for a wakeup that does not come.                           *)

\* No message is stranded in the transmit kfifo: what the tasklet and the
\* not-full interrupt owe to a queued message holds in every reachable state.
THEOREM TxNeverStalls == Spec => []TxNoStall
<1>1. Init => TxNoStall
  BY DEF Init, TxNoStall
<1>2. TxNoStall /\ [Next]_vars => TxNoStall'
  <2> SUFFICES ASSUME TxNoStall, [Next]_vars PROVE TxNoStall'
    OBVIOUS
  <2> USE DEF TxNoStall
  <2>1. CASE omap_mbox_msg_send
    BY <2>1 DEF omap_mbox_msg_send
  <2>2. CASE mbox_tx_tasklet
    BY <2>2 DEF mbox_tx_tasklet, TaskletStart, TaskletMove, TaskletSeesFull,
                TaskletArm, TaskletDone
  <2>3. CASE mbox_interrupt
    BY <2>3 DEF mbox_interrupt, __mbox_tx_interrupt
  <2>4. CASE mbox_rx_work
    BY <2>4 DEF mbox_rx_work, RxWorkStart, RxWorkPop, RxWorkNotify,
                RxWorkRefill, RxWorkDone, txvars
  <2>5. CASE omap_mbox_disable_irq \/ omap_mbox_enable_irq
    BY <2>5 DEF omap_mbox_disable_irq, omap_mbox_enable_irq, txvars
  <2>6. CASE RemoteRead \/ RemoteWrite
    BY <2>6 DEF RemoteRead, RemoteWrite, txvars
  <2>7. CASE UNCHANGED vars
    BY <2>7 DEF vars, txvars
  <2> QED BY <2>1, <2>2, <2>3, <2>4, <2>5, <2>6, <2>7 DEF Next
<1> QED BY <1>1, <1>2, PTL DEF Spec

\* The receive interrupt is never left disabled with nobody to enable it:
\* whoever set `full' finds the work with its test of `full' still ahead.
THEOREM RxNeverStalls == Spec => []RxNoStall
<1>1. Init => RxNoStall
  BY DEF Init, RxNoStall
<1>2. TypeOK /\ RxNoStall /\ [Next]_vars => RxNoStall'
  <2> SUFFICES ASSUME TypeOK, RxNoStall, [Next]_vars PROVE RxNoStall'
    OBVIOUS
  <2>1. CASE omap_mbox_msg_send
    BY <2>1 DEF omap_mbox_msg_send, rxvars, maskvars, RxNoStall
  <2>2. CASE mbox_tx_tasklet
    BY <2>2 DEF mbox_tx_tasklet, TaskletStart, TaskletMove, TaskletSeesFull,
                TaskletArm, TaskletDone, rxvars, maskvars, RxNoStall
  <2>3. CASE mbox_interrupt
    <3>1. CASE RxRaised
      <4>1. /\ __mbox_rx_interrupt /\ irqRx
            /\ UNCHANGED <<rxpc, masked>>
        BY <2>3, <3>1 DEF mbox_interrupt, maskvars, RxRaised
      <4>2. \/ irqRx' = FALSE /\ full' = TRUE /\ rxq' # <<>> /\ workPending' = TRUE
            \/ irqRx' = irqRx
        BY <4>1, RxInterruptTypes DEF TypeOK
      <4> QED BY <4>1, <4>2 DEF RxNoStall
    <3>2. CASE ~RxRaised
      BY <2>3, <3>2 DEF mbox_interrupt, maskvars, RxNoStall
    <3> QED BY <3>1, <3>2
  <2>4. CASE mbox_rx_work
    BY <2>4 DEF mbox_rx_work, RxWorkStart, RxWorkPop, RxWorkNotify,
                RxWorkRefill, RxWorkDone, maskvars, RxNoStall
  <2>5. CASE omap_mbox_disable_irq \/ omap_mbox_enable_irq
    BY <2>5 DEF omap_mbox_disable_irq, omap_mbox_enable_irq, RxNoStall
  <2>6. CASE RemoteRead \/ RemoteWrite
    BY <2>6 DEF RemoteRead, RemoteWrite, rxvars, maskvars, RxNoStall
  <2>7. CASE UNCHANGED vars
    BY <2>7 DEF vars, rxvars, maskvars, RxNoStall
  <2> QED BY <2>1, <2>2, <2>3, <2>4, <2>5, <2>6, <2>7 DEF Next
<1> QED BY <1>1, <1>2, TypeCorrect, PTL DEF Spec

\* What is in the receive kfifo is never forgotten: whoever puts a message
\* there finds the work queued or running, and the work ends only on an empty
\* kfifo.
THEOREM RxWorkAlwaysComes == Spec => []RxWorkComes
<1>1. Init => RxWorkComes
  BY DEF Init, RxWorkComes
<1>2. RxWorkComes /\ [Next]_vars => RxWorkComes'
  <2> SUFFICES ASSUME RxWorkComes, [Next]_vars PROVE RxWorkComes'
    OBVIOUS
  <2>1. CASE omap_mbox_msg_send
    BY <2>1 DEF omap_mbox_msg_send, rxvars, maskvars, RxWorkComes
  <2>2. CASE mbox_tx_tasklet
    BY <2>2 DEF mbox_tx_tasklet, TaskletStart, TaskletMove, TaskletSeesFull,
                TaskletArm, TaskletDone, rxvars, maskvars, RxWorkComes
  <2>3. CASE mbox_interrupt
    <3>1. CASE RxRaised
      <4>1. workPending' = TRUE
        BY <2>3, <3>1 DEF mbox_interrupt, __mbox_rx_interrupt
      <4> QED BY <4>1 DEF RxWorkComes
    <3>2. CASE ~RxRaised
      BY <2>3, <3>2 DEF mbox_interrupt, maskvars, RxWorkComes
    <3> QED BY <3>1, <3>2
  <2>4. CASE mbox_rx_work
    BY <2>4 DEF mbox_rx_work, RxWorkStart, RxWorkPop, RxWorkNotify,
                RxWorkRefill, RxWorkDone, maskvars, RxWorkComes
  <2>5. CASE omap_mbox_disable_irq \/ omap_mbox_enable_irq
    BY <2>5 DEF omap_mbox_disable_irq, omap_mbox_enable_irq, RxWorkComes
  <2>6. CASE RemoteRead \/ RemoteWrite
    BY <2>6 DEF RemoteRead, RemoteWrite, rxvars, maskvars, RxWorkComes
  <2>7. CASE UNCHANGED vars
    BY <2>7 DEF vars, rxvars, maskvars, RxWorkComes
  <2> QED BY <2>1, <2>2, <2>3, <2>4, <2>5, <2>6, <2>7 DEF Next
<1> QED BY <1>1, <1>2, PTL DEF Spec

-----------------------------------------------------------------------------
(* Nothing accepted is lost, duplicated or reordered on the way out.       *)

\* Taking the head of a nonempty queue takes the head of what it starts.
LEMMA HeadOfConcat ==
  ASSUME NEW S, NEW s \in Seq(S), NEW t \in Seq(S), s # <<>>
  PROVE  /\ s \o t # <<>>
         /\ Head(s \o t) = Head(s)
         /\ Tail(s \o t) = Tail(s) \o t
<1>1. /\ Len(s) \in Nat \ {0} /\ Len(t) \in Nat /\ Head(s) = s[1]
      /\ Tail(s) \in Seq(S) /\ Len(Tail(s)) = Len(s) - 1
  BY HeadTailProperties, EmptySeq, LenProperties
<1>2. s \o t \in Seq(S) /\ Len(s \o t) = Len(s) + Len(t) /\ (s \o t)[1] = s[1]
  BY <1>1, ConcatProperties
<1>3. s \o t # <<>>
  BY <1>1, <1>2, EmptySeq
<1>4. Head(s \o t) = Head(s)
  BY <1>1, <1>2, <1>3
<1>5. /\ Tail(s \o t) \in Seq(S) /\ Tail(s) \o t \in Seq(S)
      /\ Len(Tail(s \o t)) = Len(Tail(s) \o t)
  BY <1>1, <1>2, <1>3, HeadTailProperties, ConcatProperties
<1>6. \A i \in 1..Len(Tail(s \o t)) : Tail(s \o t)[i] = (Tail(s) \o t)[i]
  BY <1>1, <1>2, <1>3, HeadTailProperties, ConcatProperties
<1>7. Tail(s \o t) = Tail(s) \o t
  BY <1>5, <1>6, SeqEqual
<1> QED BY <1>3, <1>4, <1>7

\* Every step of the driver accepts one message at the end of what is in
\* flight, hands its first message to the remote processor, or leaves what is
\* in flight as it is.
LEMMA TxSteps ==
  ASSUME TypeOK, [Next]_vars
  PROVE  \/ /\ \E m \in 1..MaxSend : /\ hwtx' \o txq' = Append(hwtx \o txq, m)
                                     /\ accepted' = Append(accepted, m)
            /\ taken' = taken
         \/ /\ hwtx \o txq # <<>>
            /\ hwtx' \o txq' = Tail(hwtx \o txq)
            /\ taken' = Append(taken, Head(hwtx \o txq))
            /\ accepted' = accepted
         \/ hwtx' \o txq' = hwtx \o txq /\ UNCHANGED <<accepted, taken>>
<1>t. /\ hwtx \in Seq(MsgNos) /\ txq \in Seq(MsgNos) /\ accepted \in Seq(MsgNos)
      /\ taken \in Seq(MsgNos)
  BY DEF TypeOK, TxTypeOK
<1>1. CASE omap_mbox_msg_send
  <2> DEFINE msg == Len(accepted) + 1
  <2>1. taken' = taken /\ Len(accepted) < MaxSend
    BY <1>1 DEF omap_mbox_msg_send
  <2>2. msg \in 1..MaxSend /\ msg \in MsgNos
    BY <1>t, <2>1, LenProperties DEF MsgNos
  <2>3. CASE /\ txq = <<>> /\ UNCHANGED txq
             /\ hwtx' = Append(hwtx, msg) /\ accepted' = Append(accepted, msg)
    <3>1. Append(hwtx, msg) \in Seq(MsgNos)
      BY <1>t, <2>2, AppendProperties
    <3>2. hwtx' \o txq' = Append(hwtx, msg) /\ hwtx \o txq = hwtx
      BY <1>t, <2>3, <3>1, ConcatEmptySeq
    <3> QED BY <2>1, <2>2, <2>3, <3>2
  <2>4. CASE /\ UNCHANGED hwtx
             /\ txq' = Append(txq, msg) /\ accepted' = Append(accepted, msg)
    <3>1. hwtx' \o txq' = Append(hwtx \o txq, msg)
      BY <1>t, <2>2, <2>4, AppendLast
    <3> QED BY <2>1, <2>2, <2>4, <3>1
  <2>5. CASE UNCHANGED <<hwtx, txq, accepted>>
    BY <2>1, <2>5
  <2> QED BY <1>1, <2>3, <2>4, <2>5 DEF omap_mbox_msg_send
<1>2. CASE mbox_tx_tasklet
  <2>1. CASE TaskletMove
    <3>1. /\ txq # <<>> /\ hwtx' = Append(hwtx, Head(txq)) /\ txq' = Tail(txq)
          /\ UNCHANGED <<accepted, taken>>
      BY <2>1 DEF TaskletMove
    <3> QED BY <1>t, <3>1, MoveHead
  <2>2. CASE TaskletStart \/ TaskletSeesFull \/ TaskletArm \/ TaskletDone
    BY <2>2 DEF TaskletStart, TaskletSeesFull, TaskletArm, TaskletDone
  <2> QED BY <1>2, <2>1, <2>2 DEF mbox_tx_tasklet
<1>3. CASE RemoteRead
  <2>1. /\ hwtx # <<>> /\ taken' = Append(taken, Head(hwtx))
        /\ hwtx' = Tail(hwtx) /\ UNCHANGED <<txq, accepted>>
    BY <1>3 DEF RemoteRead
  <2> QED BY <1>t, <2>1, HeadOfConcat
<1>4. CASE mbox_interrupt
  BY <1>4 DEF mbox_interrupt
<1>5. CASE mbox_rx_work
  BY <1>5 DEF mbox_rx_work, RxWorkStart, RxWorkPop, RxWorkNotify, RxWorkRefill,
     RxWorkDone, txvars
<1>6. CASE omap_mbox_disable_irq \/ omap_mbox_enable_irq \/ RemoteWrite
  BY <1>6 DEF omap_mbox_disable_irq, omap_mbox_enable_irq, RemoteWrite, txvars
<1>7. CASE UNCHANGED vars
  BY <1>7 DEF vars, txvars
<1> QED BY <1>1, <1>2, <1>3, <1>4, <1>5, <1>6, <1>7 DEF Next

\* Whatever path a message takes, direct or through the kfifo, the messages
\* the remote processor has read, followed by those in flight, are exactly
\* those omap_mbox_msg_send accepted, in that order.
THEOREM TxNeverLoses == Spec => []TxConserved
<1>1. Init => TxConserved
  <2>1. \A s \in {taken, hwtx, txq, accepted} : Init => s = <<>>
    BY DEF Init
  <2>2. <<>> \o (<<>> \o <<>>) = <<>>
    BY EmptySeq, ConcatEmptySeq
  <2> QED BY <2>1, <2>2 DEF TxConserved
<1>2. TypeOK /\ TypeOK' /\ TxConserved /\ [Next]_vars => TxConserved'
  <2> SUFFICES ASSUME TypeOK, TypeOK', TxConserved, [Next]_vars PROVE TxConserved'
    OBVIOUS
  <2> DEFINE buf == hwtx \o txq
  <2>1. /\ buf \in Seq(MsgNos) /\ taken \in Seq(MsgNos) /\ accepted = taken \o buf
    BY ConcatProperties DEF TypeOK, TxTypeOK, TxConserved
  <2>2. \/ /\ \E m \in 1..MaxSend : buf' = Append(buf, m) /\ accepted' = Append(accepted, m)
           /\ taken' = taken
        \/ /\ buf # <<>> /\ buf' = Tail(buf)
           /\ taken' = Append(taken, Head(buf)) /\ accepted' = accepted
        \/ buf' = buf /\ UNCHANGED <<accepted, taken>>
    BY TxSteps
  <2>3. TxConserved' = (accepted' = taken' \o buf')
    BY DEF TxConserved
  <2> HIDE DEF buf
  <2>4. ASSUME NEW m \in 1..MaxSend, buf' = Append(buf, m),
               accepted' = Append(accepted, m), taken' = taken
        PROVE  accepted' = taken' \o buf'
    <3>1. m \in MsgNos
      BY DEF MsgNos
    <3>2. taken \o Append(buf, m) = Append(taken \o buf, m)
      BY <2>1, <3>1, AppendLast
    <3> QED BY <2>1, <2>4, <3>2
  <2>5. ASSUME buf # <<>>, buf' = Tail(buf), taken' = Append(taken, Head(buf)),
               accepted' = accepted
        PROVE  accepted' = taken' \o buf'
    BY <2>1, <2>5, MoveHead
  <2> QED BY <2>1, <2>2, <2>3, <2>4, <2>5
<1> QED BY <1>1, <1>2, TypeCorrect, PTL DEF Spec

\* The transmit side implements the lossless in-order channel.
THEOREM TxImplementsChannel == Spec => TxIsReliable
<1>1. Init => TxChannel!Init
  <2>1. Init => hwtx = <<>> /\ txq = <<>> /\ taken = <<>>
    BY DEF Init
  <2>2. <<>> \o <<>> = <<>>
    BY EmptySeq, ConcatEmptySeq
  <2> QED BY <2>1, <2>2 DEF TxChannel!Init
<1>2. TypeOK /\ [Next]_vars => [TxChannel!Next]_(TxChannel!cvars)
  BY TxSteps DEF TxChannel!Next, TxChannel!Put, TxChannel!Get, TxChannel!cvars
<1> QED BY <1>1, <1>2, TypeCorrect, PTL DEF Spec, TxIsReliable, TxChannel!Spec

-----------------------------------------------------------------------------
(* What comes in keeps its order, whatever the handler and the work do.    *)

\* Leaving out one element of a queue that is the head of its second part.
LEMMA LeaveOutHead ==
  ASSUME NEW S, NEW s \in Seq(S), NEW t \in Seq(S), t # <<>>
  PROVE  \E i \in 1..Len(s \o t) :
            s \o Tail(t) = SubSeq(s \o t, 1, i - 1)
                              \o SubSeq(s \o t, i + 1, Len(s \o t))
<1> DEFINE q == s \o t
           i == Len(s) + 1
           a == SubSeq(q, 1, i - 1)
           b == SubSeq(q, i + 1, Len(q))
<1>1. /\ Len(s) \in Nat /\ Len(t) \in Nat \ {0} /\ Tail(t) \in Seq(S)
      /\ Len(Tail(t)) = Len(t) - 1
      /\ \A j \in 1..Len(Tail(t)) : Tail(t)[j] = t[j + 1]
  BY HeadTailProperties, EmptySeq, LenProperties
<1>2. /\ q \in Seq(S) /\ Len(q) = Len(s) + Len(t)
      /\ \A j \in 1..Len(s) : q[j] = s[j]
      /\ \A j \in Len(s)+1..Len(q) : q[j] = t[j - Len(s)]
      /\ \A j \in 1..Len(q) : q[j] \in S
  BY <1>1, ConcatProperties, ElementOfSeq
<1>3. i \in 1..Len(q)
  BY <1>1, <1>2
<1> HIDE DEF q
<1>4. a \in Seq(S) /\ Len(a) = Len(s) /\ \A j \in 1..Len(s) : a[j] = s[j]
  BY <1>1, <1>2, SubSeqProperties
<1>5. a = s
  BY <1>4, SeqEqual
<1>6. /\ b \in Seq(S) /\ Len(b) = Len(t) - 1
      /\ \A j \in 1..Len(t) - 1 : b[j] = q[Len(s) + 1 + j]
  BY <1>1, <1>2, SubSeqProperties
<1>7. \A j \in 1..Len(b) : b[j] = Tail(t)[j]
  BY <1>1, <1>2, <1>6
<1>8. b = Tail(t)
  BY <1>1, <1>6, <1>7, SeqEqual
<1>9. s \o Tail(t) = SubSeq(q, 1, i - 1) \o SubSeq(q, i + 1, Len(q))
  BY <1>5, <1>8
<1> QED BY <1>3, <1>9 DEF q

\* Every step of the receive side adds the remote processor's message at the
\* end of what is in flight, hands its first message to the notifier chain,
\* loses one message, or leaves what is in flight as it is.
LEMMA RxSteps ==
  ASSUME TypeOK, [Next]_vars
  PROVE  [RxChannel!Next]_(RxChannel!cvars)
<1> DEFINE buf == held \o rxq \o hwrx
<1> USE DEF RxChannel!Next, RxChannel!cvars
<1>t. /\ rxq \in Seq(MsgNos) /\ hwrx \in Seq(MsgNos) /\ posted \in Seq(MsgNos)
      /\ held \in Seq(MsgNos) /\ held \o rxq \in Seq(MsgNos)
      /\ rxq \o hwrx \in Seq(MsgNos)
  <2>1. /\ rxq \in Seq(MsgNos) /\ hwrx \in Seq(MsgNos) /\ posted \in Seq(MsgNos)
        /\ rxpc = "notify" => rxmsg \in MsgNos
    BY DEF TypeOK, RxTypeOK, MsgNos
  <2>2. held \in Seq(MsgNos)
    BY <2>1, EmptySeq DEF held
  <2> QED BY <2>1, <2>2, ConcatProperties
<1>a. buf = held \o (rxq \o hwrx)
  BY <1>t, ConcatAssociative
<1>1. CASE RemoteWrite
  <2> DEFINE msg == Len(posted) + 1
  <2>1. /\ hwrx' = Append(hwrx, msg) /\ UNCHANGED <<rxq, rxpc, rxmsg, delivered>>
        /\ Len(posted) < MaxPost
    BY <1>1 DEF RemoteWrite
  <2>2. msg \in 1..MaxPost /\ msg \in MsgNos
    BY <1>t, <2>1, LenProperties DEF MsgNos
  <2>3. (held \o rxq) \o Append(hwrx, msg) = Append(buf, msg)
    BY <1>t, <2>2, AppendLast
  <2>4. buf' = Append(buf, msg)
    BY <2>1, <2>3 DEF held
  <2> QED BY <2>1, <2>2, <2>4 DEF RxChannel!Put
<1>2. CASE mbox_interrupt
  <2>1. UNCHANGED <<rxpc, rxmsg, delivered>>
    BY <1>2 DEF mbox_interrupt
  <2>2. CASE RxRaised
    <3>1. /\ rxq' \in Seq(MsgNos) /\ hwrx' \in Seq(MsgNos)
          /\ rxq' \o hwrx' = rxq \o hwrx
      BY <1>2, <2>2, RxInterruptTypes DEF mbox_interrupt, TypeOK
    <3>a. \A x, y \in Seq(MsgNos) : (held \o x) \o y = held \o (x \o y)
      BY <1>t, ConcatAssociative, SMTT(30)
    <3>2. (held \o rxq') \o hwrx' = held \o (rxq' \o hwrx')
      BY <3>1, <3>a
    <3>3. held' = held
      BY <2>1 DEF held
    <3> QED BY <1>a, <2>1, <3>1, <3>2, <3>3
  <2>3. CASE ~RxRaised
    BY <1>2, <2>1, <2>3 DEF mbox_interrupt, held
  <2> QED BY <2>2, <2>3
<1>3. CASE RxWorkPop
  <2>1. /\ rxpc = "loop" /\ rxpc' = "notify" /\ rxq # <<>> /\ rxmsg' = Head(rxq)
        /\ rxq' = Tail(rxq) /\ UNCHANGED <<hwrx, delivered>>
    BY <1>3 DEF RxWorkPop
  <2>2. held = <<>> /\ held' = <<Head(rxq)>>
    BY <2>1 DEF held
  <2>3. Append(<<>>, Head(rxq)) \o Tail(rxq) = <<>> \o rxq
    BY <1>t, <2>1, EmptySeq, MoveHead
  <2>4. Append(<<>>, Head(rxq)) = <<Head(rxq)>>
    OBVIOUS
  <2> QED BY <2>1, <2>2, <2>3, <2>4
<1>4. CASE RxWorkNotify
  <2>1. /\ rxpc = "notify" /\ rxpc' = "refill" /\ delivered' = Append(delivered, rxmsg)
        /\ UNCHANGED <<rxq, hwrx>>
    BY <1>4 DEF RxWorkNotify
  <2>2. held = <<rxmsg>> /\ held' = <<>>
    BY <2>1 DEF held
  <2>3. held # <<>> /\ Head(held) = rxmsg /\ Tail(held) = <<>>
    BY <2>2
  <2>h. /\ held \o (rxq \o hwrx) # <<>>
        /\ Head(held \o (rxq \o hwrx)) = Head(held)
        /\ Tail(held \o (rxq \o hwrx)) = Tail(held) \o (rxq \o hwrx)
    BY <1>t, <2>3, HeadOfConcat
  <2>4. buf # <<>> /\ Head(buf) = rxmsg /\ Tail(buf) = <<>> \o (rxq \o hwrx)
    BY <1>a, <2>3, <2>h, Zenon
  <2>5. <<>> \o (rxq \o hwrx) = rxq \o hwrx /\ <<>> \o rxq = rxq
    BY <1>t, ConcatEmptySeq
  <2>6. buf' = Tail(buf)
    BY <2>1, <2>2, <2>4, <2>5
  <2> QED BY <2>1, <2>4, <2>6 DEF RxChannel!Get
<1>5. CASE RxWorkRefill
  <2>1. rxpc = "refill" /\ rxpc' = "loop" /\ UNCHANGED delivered
    BY <1>5 DEF RxWorkRefill
  <2>2. held = <<>> /\ held' = <<>>
    BY <2>1 DEF held
  <2>3. <<>> \o rxq = rxq
    BY <1>t, ConcatEmptySeq
  <2>4. CASE UNCHANGED <<rxq, hwrx>>
    BY <2>1, <2>2, <2>4
  <2>5. CASE hwrx # <<>> /\ hwrx' = Tail(hwrx) /\ rxq' = Append(rxq, Head(hwrx))
    <3>1. Append(rxq, Head(hwrx)) \in Seq(MsgNos)
      BY <1>t, <2>5, HeadTailProperties, AppendProperties
    <3>2. <<>> \o Append(rxq, Head(hwrx)) = Append(rxq, Head(hwrx))
      BY <3>1, ConcatEmptySeq
    <3>3. Append(rxq, Head(hwrx)) \o Tail(hwrx) = rxq \o hwrx
      BY <1>t, <2>5, MoveHead
    <3> QED BY <2>1, <2>2, <2>3, <2>5, <3>2, <3>3
  <2>6. CASE hwrx # <<>> /\ hwrx' = Tail(hwrx) /\ rxq' = rxq
    <3>1. buf = rxq \o hwrx /\ buf' = rxq \o Tail(hwrx)
      BY <2>2, <2>3, <2>6
    <3>2. \E i \in 1..Len(rxq \o hwrx) :
             rxq \o Tail(hwrx) = SubSeq(rxq \o hwrx, 1, i - 1)
                                    \o SubSeq(rxq \o hwrx, i + 1, Len(rxq \o hwrx))
      BY <1>t, <2>6, LeaveOutHead
    <3> HIDE DEF buf
    <3>3. \E i \in 1..Len(buf) :
             buf' = SubSeq(buf, 1, i - 1) \o SubSeq(buf, i + 1, Len(buf))
      BY <3>1, <3>2
    <3> QED BY <2>1, <3>3 DEF RxChannel!Drop, buf
  <2> QED BY <1>5, <2>4, <2>5, <2>6 DEF RxWorkRefill, kfifo_in, mbox_fifo_empty
<1>6. CASE RxWorkStart \/ RxWorkDone
  BY <1>6 DEF RxWorkStart, RxWorkDone, held
<1>7. CASE omap_mbox_disable_irq \/ omap_mbox_enable_irq
  BY <1>7 DEF omap_mbox_disable_irq, omap_mbox_enable_irq, held
<1>8. CASE omap_mbox_msg_send \/ mbox_tx_tasklet \/ RemoteRead
  BY <1>8 DEF omap_mbox_msg_send, mbox_tx_tasklet, TaskletStart, TaskletMove,
     TaskletSeesFull, TaskletArm, TaskletDone, RemoteRead, rxvars, held
<1>9. CASE UNCHANGED vars
  BY <1>9 DEF vars, rxvars, held
<1> QED BY <1>1, <1>2, <1>3, <1>4, <1>5, <1>6, <1>7, <1>8, <1>9
        DEF Next, mbox_rx_work

\* The receive side implements the in-order channel that may lose a message:
\* no race between handler and work, the refill that finds the kfifo full
\* included, makes the notifier chain see a message twice or out of order.
THEOREM RxImplementsChannel == Spec => RxInOrder
<1>1. Init => RxChannel!Init
  <2>1. Init => held = <<>> /\ rxq = <<>> /\ hwrx = <<>> /\ delivered = <<>>
    BY DEF Init, held
  <2>2. <<>> \o <<>> \o <<>> = <<>>
    BY EmptySeq, ConcatEmptySeq
  <2> QED BY <2>1, <2>2 DEF RxChannel!Init
<1>2. TypeOK /\ [Next]_vars => [RxChannel!Next]_(RxChannel!cvars)
  BY RxSteps
<1> QED BY <1>1, <1>2, TypeCorrect, PTL DEF Spec, RxInOrder, RxChannel!Spec
=============================================================================
