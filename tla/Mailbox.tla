------------------------------ MODULE Mailbox ------------------------------
(***************************************************************************)
(* The data path of one OMAP/TI81xx mailbox:                               *)
(*   arch/arm/plat-omap/mailbox.c    software queues, tasklet, work, irq   *)
(*   arch/arm/mach-omap2/mailbox.c   TYPE2 register operations             *)
(*                                                                         *)
(* Sending:    omap_mbox_msg_send -> [txq kfifo -> tx tasklet ->] hwtx     *)
(* Receiving:  hwrx -> irq handler -> rxq kfifo -> rx work -> notifier     *)
(*                                                                         *)
(* hwtx and hwrx are the two hardware FIFOs.  The processor at the other   *)
(* end (DSP, video or VPSS M3) reads hwtx and writes hwrx at any moment.   *)
(*                                                                         *)
(* The kernel is a uniprocessor (no SMP on Cortex-A8) without kernel       *)
(* preemption.  The sender holds a bh-disabling lock, so it runs as one    *)
(* step with respect to the tasklet; the interrupt handler is one step;    *)
(* the tasklet can be interrupted by the handler, and the rx work by both. *)
(* The interrupt lines are levels: the rx line is up while hwrx holds a    *)
(* message, the tx line while hwtx has room, each if enabled.              *)
(***************************************************************************)
EXTENDS Integers, Sequences

CONSTANTS KfifoLen,   \* capacity of each kfifo, in messages (mbox_kfifo_size)
          FifoDepth,  \* depth of a hardware FIFO (4 in the device)
          MaxSend,    \* bound: messages accepted from local senders
          MaxPost,    \* bound: messages posted by the remote processor
          MaxMask     \* bound: times the client disables the rx interrupt

ASSUME KfifoLenAssumption  == KfifoLen \in Nat \ {0}
ASSUME FifoDepthAssumption == FifoDepth \in Nat \ {0}
ASSUME BoundsAssumption    == MaxSend \in Nat /\ MaxPost \in Nat /\ MaxMask \in Nat

VARIABLES txq,        \* mbox->txq->fifo
          hwtx,       \* the transmit FIFO of the device
          txSched,    \* TASKLET_STATE_SCHED of mbox->txq->tasklet
          txpc,       \* where mbox_tx_tasklet is
          irqTx,      \* IRQ_TX (not full) enabled
          rxq,        \* mbox->rxq->fifo
          hwrx,       \* the receive FIFO of the device
          full,       \* mbox->rxq->full
          irqRx,      \* IRQ_RX (new message) enabled
          workPending,\* WORK_STRUCT_PENDING of mbox->rxq->work
          rxpc,       \* where mbox_rx_work is
          rxmsg,      \* the local variable msg of mbox_rx_work
          masked,     \* the client's last request was to disable IRQ_RX
          masks,      \* how many times it asked to
          accepted,   \* history: messages omap_mbox_msg_send took
          taken,      \* history: messages the remote processor read
          posted,     \* history: messages the remote processor wrote
          delivered   \* history: messages the notifier chain was called with

txvars  == <<txq, hwtx, txSched, txpc, irqTx, accepted, taken>>
rxvars  == <<rxq, hwrx, full, irqRx, workPending, rxpc, rxmsg, posted,
             delivered>>
maskvars == <<masked, masks>>
vars    == <<txvars, rxvars, maskvars>>

Init ==
  /\ txq = <<>> /\ hwtx = <<>> /\ txSched = FALSE /\ txpc = "idle"
  /\ irqTx = FALSE
  /\ rxq = <<>> /\ hwrx = <<>> /\ full = FALSE /\ irqRx = TRUE
  /\ workPending = FALSE /\ rxpc = "idle" /\ rxmsg = 0
  /\ masked = FALSE /\ masks = 0
  /\ accepted = <<>> /\ taken = <<>> /\ posted = <<>> /\ delivered = <<>>

-----------------------------------------------------------------------------
(* Register operations.                                                    *)

mbox_fifo_full  == Len(hwtx) = FifoDepth
mbox_fifo_empty == hwrx = <<>>

\* is_mbox_irq: enabled and raised.
TxRaised == irqTx /\ ~mbox_fifo_full
RxRaised == irqRx /\ ~mbox_fifo_empty

-----------------------------------------------------------------------------
(* Transmit side.  The i-th accepted message is the number i.              *)

\* Wrong variant: writes the device without looking at the kfifo.
omap_mbox_msg_send_Overtakes ==
  /\ txpc = "idle"
  /\ Len(accepted) < MaxSend
  /\ Len(txq) < KfifoLen
  /\ accepted' = Append(accepted, Len(accepted) + 1)
  /\ IF mbox_fifo_full
     THEN /\ txq' = Append(txq, Len(accepted) + 1)
          /\ txSched' = TRUE
          /\ UNCHANGED hwtx
     ELSE hwtx' = Append(hwtx, Len(accepted) + 1) /\ UNCHANGED <<txq, txSched>>
  /\ UNCHANGED <<txpc, irqTx, taken, rxvars, maskvars>>

\* omap_mbox_msg_send.  With a full kfifo it returns -ENOMEM and changes
\* nothing; it writes the device only if no earlier message is queued.
omap_mbox_msg_send ==
  LET msg == Len(accepted) + 1 IN
  /\ txpc = "idle"
  /\ Len(accepted) < MaxSend
  /\ \/ /\ Len(txq) >= KfifoLen
        /\ UNCHANGED <<hwtx, txq, txSched, accepted>>
     \/ /\ Len(txq) < KfifoLen
        /\ txq = <<>> /\ ~mbox_fifo_full
        /\ hwtx' = Append(hwtx, msg)
        /\ accepted' = Append(accepted, msg)
        /\ UNCHANGED <<txq, txSched>>
     \/ /\ Len(txq) < KfifoLen
        /\ txq # <<>> \/ mbox_fifo_full
        /\ txq' = Append(txq, msg)
        /\ txSched' = TRUE
        /\ accepted' = Append(accepted, msg)
        /\ UNCHANGED hwtx
  /\ UNCHANGED <<txpc, irqTx, taken, rxvars, maskvars>>

\* tasklet_action starts a scheduled tasklet: SCHED is cleared first, so a
\* tasklet_schedule from now on makes it run once more.
TaskletStart ==
  /\ txSched /\ txpc = "idle"
  /\ txSched' = FALSE
  /\ txpc' = "loop"
  /\ UNCHANGED <<txq, hwtx, irqTx, accepted, taken, rxvars, maskvars>>

TaskletMove ==
  /\ txpc = "loop" /\ txq # <<>> /\ ~mbox_fifo_full
  /\ hwtx' = Append(hwtx, Head(txq))
  /\ txq' = Tail(txq)
  /\ UNCHANGED <<txSched, txpc, irqTx, accepted, taken, rxvars, maskvars>>

\* Wrong variant: the message is popped before the device is polled.
TaskletSeesFull_PopsFirst ==
  /\ txpc = "loop" /\ txq # <<>> /\ mbox_fifo_full
  /\ txpc' = "arm"
  /\ txq' = Tail(txq)
  /\ UNCHANGED <<hwtx, txSched, irqTx, accepted, taken, rxvars, maskvars>>

\* The device may drain between seeing it full and enabling the interrupt.
TaskletSeesFull ==
  /\ txpc = "loop" /\ txq # <<>> /\ mbox_fifo_full
  /\ txpc' = "arm"
  /\ UNCHANGED <<txq, hwtx, txSched, irqTx, accepted, taken, rxvars, maskvars>>

\* Wrong variant: gives up without enabling IRQ_TX.
TaskletArm_Forgets ==
  /\ txpc = "arm"
  /\ txpc' = "idle"
  /\ UNCHANGED <<txq, hwtx, txSched, irqTx, accepted, taken, rxvars, maskvars>>

TaskletArm ==
  /\ txpc = "arm"
  /\ irqTx' = TRUE
  /\ txpc' = "idle"
  /\ UNCHANGED <<txq, hwtx, txSched, accepted, taken, rxvars, maskvars>>

TaskletDone ==
  /\ txpc = "loop" /\ txq = <<>>
  /\ txpc' = "idle"
  /\ UNCHANGED <<txq, hwtx, txSched, irqTx, accepted, taken, rxvars, maskvars>>

mbox_tx_tasklet ==
  TaskletStart \/ TaskletMove \/ TaskletSeesFull \/ TaskletArm \/ TaskletDone

-----------------------------------------------------------------------------
(* The interrupt handler.                                                  *)

\* Wrong variant: does not schedule the tasklet.
__mbox_tx_interrupt_Lazy ==
  /\ irqTx' = FALSE
  /\ UNCHANGED txSched

__mbox_tx_interrupt ==
  /\ irqTx' = FALSE
  /\ txSched' = TRUE

\* Wrong variant: disables the interrupt without setting `full'.
__mbox_rx_interrupt_NotFull ==
  LET room == KfifoLen - Len(rxq)
      n    == IF room < Len(hwrx) THEN room ELSE Len(hwrx)
  IN /\ rxq' = rxq \o SubSeq(hwrx, 1, n)
     /\ hwrx' = SubSeq(hwrx, n + 1, Len(hwrx))
     /\ irqRx' = (n = Len(hwrx))
     /\ workPending' = TRUE
     /\ UNCHANGED full

\* Reads the device until it is empty or the kfifo has no room; in the second
\* case the interrupt is disabled and the work is left to enable it.
__mbox_rx_interrupt ==
  LET room == KfifoLen - Len(rxq)
      n    == IF room < Len(hwrx) THEN room ELSE Len(hwrx)
  IN /\ rxq' = rxq \o SubSeq(hwrx, 1, n)
     /\ hwrx' = SubSeq(hwrx, n + 1, Len(hwrx))
     /\ IF n < Len(hwrx)
        THEN irqRx' = FALSE /\ full' = TRUE
        ELSE UNCHANGED <<irqRx, full>>
     /\ workPending' = TRUE

mbox_interrupt ==
  /\ TxRaised \/ RxRaised
  /\ IF TxRaised THEN __mbox_tx_interrupt ELSE UNCHANGED <<irqTx, txSched>>
  /\ IF RxRaised THEN __mbox_rx_interrupt
                 ELSE UNCHANGED <<rxq, hwrx, irqRx, full, workPending>>
  /\ UNCHANGED <<txq, hwtx, txpc, accepted, taken, rxpc, rxmsg, posted,
                 delivered, maskvars>>

-----------------------------------------------------------------------------
(* Receive side: the work.                                                 *)

\* process_one_work clears PENDING before it calls the function.
RxWorkStart ==
  /\ workPending /\ rxpc = "idle"
  /\ workPending' = FALSE
  /\ rxpc' = "loop"
  /\ UNCHANGED <<rxq, hwrx, full, irqRx, rxmsg, posted, delivered, txvars,
                 maskvars>>

RxWorkPop ==
  /\ rxpc = "loop" /\ rxq # <<>>
  /\ rxmsg' = Head(rxq)
  /\ rxq' = Tail(rxq)
  /\ rxpc' = "notify"
  /\ UNCHANGED <<hwrx, full, irqRx, workPending, posted, delivered, txvars,
                 maskvars>>

RxWorkNotify ==
  /\ rxpc = "notify"
  /\ delivered' = Append(delivered, rxmsg)
  /\ rxpc' = "refill"
  /\ UNCHANGED <<rxq, hwrx, full, irqRx, workPending, rxmsg, posted, txvars,
                 maskvars>>

\* Wrong variant: no bounds check.
kfifo_in_Unbounded(q, m) == Append(q, m)

\* kfifo_in: a message that does not fit is not stored.
kfifo_in(q, m) == IF Len(q) < KfifoLen THEN Append(q, m) ELSE q

\* Wrong variant: looks at the message without taking it out of the device.
RxWorkRefill_Peeks ==
  /\ rxpc = "refill"
  /\ rxpc' = "loop"
  /\ IF full
     THEN /\ full' = FALSE
          /\ irqRx' = TRUE
          /\ rxq' = IF mbox_fifo_empty THEN rxq ELSE kfifo_in(rxq, Head(hwrx))
     ELSE UNCHANGED <<full, irqRx, rxq>>
  /\ UNCHANGED <<hwrx, workPending, rxmsg, posted, delivered, txvars, maskvars>>

\* Wrong variant: clears `full' and leaves the interrupt disabled.
RxWorkRefill_Forgets ==
  /\ rxpc = "refill"
  /\ rxpc' = "loop"
  /\ full' = FALSE
  /\ UNCHANGED <<rxq, hwrx, irqRx, workPending, rxmsg, posted, delivered,
                 txvars, maskvars>>

\* The section under spin_lock_irq.
RxWorkRefill ==
  /\ rxpc = "refill"
  /\ rxpc' = "loop"
  /\ IF full
     THEN /\ full' = FALSE
          /\ irqRx' = TRUE
          /\ IF mbox_fifo_empty
             THEN UNCHANGED <<rxq, hwrx>>
             ELSE /\ hwrx' = Tail(hwrx)
                  /\ rxq' = kfifo_in(rxq, Head(hwrx))
     ELSE UNCHANGED <<full, irqRx, rxq, hwrx>>
  /\ UNCHANGED <<workPending, rxmsg, posted, delivered, txvars, maskvars>>

\* Wrong variant: leaves the last message in the kfifo.
RxWorkDone_OffByOne ==
  /\ rxpc = "loop" /\ Len(rxq) <= 1
  /\ rxpc' = "idle"
  /\ UNCHANGED <<rxq, hwrx, full, irqRx, workPending, rxmsg, posted,
                 delivered, txvars, maskvars>>

RxWorkDone ==
  /\ rxpc = "loop" /\ rxq = <<>>
  /\ rxpc' = "idle"
  /\ UNCHANGED <<rxq, hwrx, full, irqRx, workPending, rxmsg, posted,
                 delivered, txvars, maskvars>>

mbox_rx_work ==
  RxWorkStart \/ RxWorkPop \/ RxWorkNotify \/ RxWorkRefill \/ RxWorkDone

-----------------------------------------------------------------------------
(* The client of the mailbox (Notify) may disable and enable IRQ_RX.       *)

omap_mbox_disable_irq ==
  /\ masks < MaxMask
  /\ masked' = TRUE /\ masks' = masks + 1
  /\ irqRx' = FALSE
  /\ UNCHANGED <<rxq, hwrx, full, workPending, rxpc, rxmsg, posted, delivered,
                 txvars>>

omap_mbox_enable_irq ==
  /\ masked
  /\ masked' = FALSE
  /\ irqRx' = TRUE
  /\ UNCHANGED <<rxq, hwrx, full, workPending, rxpc, rxmsg, posted, delivered,
                 txvars, masks>>

-----------------------------------------------------------------------------
(* External: the processor at the other end.                               *)

RemoteRead ==
  /\ hwtx # <<>>
  /\ taken' = Append(taken, Head(hwtx))
  /\ hwtx' = Tail(hwtx)
  /\ UNCHANGED <<txq, txSched, txpc, irqTx, accepted, rxvars, maskvars>>

RemoteWrite ==
  LET msg == Len(posted) + 1 IN
  /\ Len(posted) < MaxPost
  /\ Len(hwrx) < FifoDepth
  /\ hwrx' = Append(hwrx, msg)
  /\ posted' = Append(posted, msg)
  /\ UNCHANGED <<rxq, full, irqRx, workPending, rxpc, rxmsg, delivered, txvars,
                 maskvars>>

-----------------------------------------------------------------------------
Next ==
  \/ omap_mbox_msg_send
  \/ mbox_tx_tasklet
  \/ mbox_interrupt
  \/ mbox_rx_work
  \/ omap_mbox_disable_irq \/ omap_mbox_enable_irq
  \/ RemoteRead \/ RemoteWrite

\* Softirqs and kernel threads run, an interrupt that stays raised is taken,
\* and the remote processor keeps reading its FIFO.
Fairness ==
  /\ WF_vars(mbox_tx_tasklet)
  /\ WF_vars(mbox_interrupt)
  /\ WF_vars(mbox_rx_work)
  /\ WF_vars(RemoteRead)

Spec == Init /\ [][Next]_vars /\ Fairness

-----------------------------------------------------------------------------
(* Properties.                                                             *)

MsgNos == Nat \ {0}

TxTypeOK ==
  /\ txq \in Seq(MsgNos) /\ Len(txq) <= KfifoLen
  /\ hwtx \in Seq(MsgNos) /\ Len(hwtx) <= FifoDepth
  /\ txSched \in BOOLEAN /\ irqTx \in BOOLEAN
  /\ txpc \in {"idle", "loop", "arm"}
  /\ accepted \in Seq(MsgNos) /\ taken \in Seq(MsgNos)

RxTypeOK ==
  /\ rxq \in Seq(MsgNos) /\ Len(rxq) <= KfifoLen
  /\ hwrx \in Seq(MsgNos) /\ Len(hwrx) <= FifoDepth
  /\ full \in BOOLEAN /\ irqRx \in BOOLEAN /\ workPending \in BOOLEAN
  /\ rxpc \in {"idle", "loop", "notify", "refill"}
  /\ rxmsg \in Nat /\ (rxpc = "notify" => rxmsg # 0)
  /\ posted \in Seq(MsgNos) /\ delivered \in Seq(MsgNos)
  /\ masked \in BOOLEAN /\ masks \in 0..MaxMask

\* Type invariant: among others, neither a kfifo nor a device FIFO is ever
\* filled beyond its capacity.
TypeOK == TxTypeOK /\ RxTypeOK

\* A message left in the transmit kfifo always has somebody on the way to it:
\* the tasklet is scheduled or running, or the not-full interrupt that will
\* schedule it is enabled (mbox_tx_tasklet arms it before it gives up).
TxNoStall ==
  txq # <<>> => txSched \/ txpc # "idle" \/ irqTx

\* Every message omap_mbox_msg_send accepted is exactly once in the device,
\* in the kfifo or with the remote processor, in the order of acceptance,
\* although it may take either the direct or the queued path.
TxConserved == accepted = taken \o (hwtx \o txq)

\* The transmit side implements an in-order channel that loses nothing.
TxChannel == INSTANCE MsgChannel
               WITH Msgs <- 1..MaxSend, Lossy <- FALSE,
                    buf <- hwtx \o txq, got <- taken
TxIsReliable == TxChannel!Spec

\* A message the work has taken out of the kfifo and not yet passed on.
held == IF rxpc = "notify" THEN <<rxmsg>> ELSE <<>>

\* The receive side implements an in-order channel that may lose messages:
\* whatever races happen between handler and work, what the notifier chain
\* sees is in the order the remote processor wrote it, and nothing twice.
RxChannel == INSTANCE MsgChannel
               WITH Msgs <- 1..MaxPost, Lossy <- TRUE,
                    buf <- held \o rxq \o hwrx, got <- delivered
RxInOrder == RxChannel!Spec

\* A message in the device is never forgotten: unless the client disabled the
\* interrupt, it is enabled, or `full' is set and the work that will find it
\* set, and enable the interrupt again, is certain to reach that test.
RxNoStall ==
  ~masked =>
     irqRx \/ (full /\ (rxpc \in {"notify", "refill"}
                        \/ (rxq # <<>> /\ (workPending \/ rxpc = "loop"))))

\* The same for a message in the receive kfifo: the work is queued or running.
RxWorkComes == rxq # <<>> => workPending \/ rxpc # "idle"

\* Every accepted message reaches the remote processor.
TxDelivers == \A i \in 1..MaxSend : Len(accepted) >= i ~> Len(taken) >= i

\* The receive side never stays clogged: again and again it is empty from the
\* device to the notifier chain, or the client keeps the interrupt disabled.
RxDrains == []<>(masked \/ (hwrx = <<>> /\ rxq = <<>> /\ rxpc = "idle"))

\* No message is lost between the remote processor and the notifier chain.
RxNothingLost == posted = delivered \o held \o rxq \o hwrx
=============================================================================
