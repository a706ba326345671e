-------------------------------- MODULE Cpsw --------------------------------
(***************************************************************************)
(* The Ethernet driver drivers/net/cpsw.c between the network stack and    *)
(* its two DMA channels:                                                   *)
(*   - transmit: the queueing discipline (net/sched/sch_generic.c), the    *)
(*     queue's stopped bit, cpsw_ndo_start_xmit, the transmit watchdog;    *)
(*   - completion: cpsw_interrupt, NAPI (net/core/dev.c), cpsw_poll;       *)
(*   - open, stop and changes of the link.                                 *)
(*                                                                         *)
(* The descriptor pool is that of CpdmaPool.  A channel is a queue of      *)
(* buffers the engine completes from the front: what module Cpdma shows.   *)
(*                                                                         *)
(* On this uniprocessor without preemption soft interrupts run one at a    *)
(* time (soft, qrun), tasks between them, the interrupt handler and the    *)
(* engine at any time.                                                     *)
(***************************************************************************)
EXTENDS CpdmaPool, Sequences

CONSTANTS TxQuota,     \* transmit buffers one poll takes back (128)
          Budget,      \* receive buffers one poll takes back (CPSW_POLL_WEIGHT)
          PadFails,    \* there may be no memory to pad a short packet
          MaxBacklog   \* bound: packets in the queueing discipline

ASSUME CpswAssumption == /\ TxQuota \in Nat \ {0} /\ Budget \in Nat \ {0}
                         /\ PadFails \in BOOLEAN /\ MaxBacklog \in Nat

VARIABLES
  pc,        \* where open or stop is
  carrier,   \* netif_carrier_ok
  \* the queueing discipline
  qactive,   \* it is attached (not the noop one)
  backlog,   \* packets in it, the parked one included
  gso,       \* one of them is parked in gso_skb
  txsched,   \* net_tx_action is to run it
  qrun,      \* __qdisc_run is running
  stopped,   \* __QUEUE_STATE_XOFF
  padStop,   \* history: it was set because a packet could not be padded
  \* the channels
  txRing, rxRing,  \* their descriptors, oldest first
  txDone, rxDone,  \* how many of these the engine has completed
  \* completion
  intr,      \* the device's interrupts are enabled
  armed,     \* end of interrupt was written since the last one
  line,      \* the interrupt lines are enabled (disable_irq, enable_irq)
  lineLost,  \* history: NAPI was completed with the lines disabled
  napi,      \* "off", "idle" or "sched"
  soft,      \* the soft interrupt in progress
  left       \* what is left of the poll's quota

qdisc == <<qactive, backlog, gso, txsched, qrun>>
queue == <<stopped, padStop>>
rings == <<txRing, rxRing, txDone, rxDone>>
irqs  == <<intr, armed, line>>
poll  == <<lineLost, napi, soft, left>>
vars  == <<poolVars, pc, carrier, qdisc, queue, rings, irqs, poll>>

Init ==
  /\ PoolInit
  /\ pc = "down" /\ carrier = FALSE
  /\ qactive = FALSE /\ backlog = 0 /\ gso = FALSE
  /\ txsched = FALSE /\ qrun = FALSE
  /\ stopped = FALSE /\ padStop = FALSE
  /\ txRing = <<>> /\ rxRing = <<>> /\ txDone = 0 /\ rxDone = 0
  /\ intr = FALSE /\ armed = TRUE /\ line = TRUE /\ lineLost = FALSE
  /\ napi = "off" /\ soft = "none" /\ left = 0

\* netif_running: __LINK_STATE_START is set before open, cleared before stop.
Running == pc \in {"opening", "up"}

\* No soft interrupt is in progress: a task, or the next one, may run.
Quiet == soft = "none" /\ ~qrun

\* The channels are started.
Active == pc \in {"up", "deactivated", "disabling"}

\* The phy is connected.
Connected == pc \in {"up", "deactivated", "disabling", "stopping"}

-----------------------------------------------------------------------------
(* Transmission.                                                           *)

\* A task sends a packet, or the network stack does, in answer to one it is
\* just given by cpsw_rx_handler.
dev_queue_xmit ==
  /\ qactive /\ ~qrun
  /\ soft = "none" \/ (soft = "rxhandler" /\ carrier)
  /\ backlog < MaxBacklog
  /\ backlog' = backlog + 1
  /\ qrun' = TRUE
  /\ UNCHANGED <<poolVars, pc, carrier, qactive, gso, txsched, queue, rings,
                 irqs, poll>>

net_tx_action ==
  /\ txsched /\ Quiet
  /\ txsched' = FALSE /\ qrun' = TRUE
  /\ UNCHANGED <<poolVars, pc, carrier, qactive, backlog, gso, queue, rings,
                 irqs, poll>>

\* dequeue_skb has nothing, or only a packet parked for a stopped queue.
QdiscIdle ==
  /\ qrun
  /\ backlog = 0 \/ (gso /\ stopped)
  /\ qrun' = FALSE
  /\ UNCHANGED <<poolVars, pc, carrier, qactive, backlog, gso, txsched, queue,
                 rings, irqs, poll>>

\* dev_requeue_skb: the packet is parked and the discipline scheduled.
dev_requeue_skb ==
  /\ gso' = TRUE /\ txsched' = TRUE /\ qrun' = FALSE
  /\ UNCHANGED <<qactive, backlog>>

\* sch_direct_xmit finds the queue stopped.
QdiscParks ==
  /\ qrun /\ backlog > 0 /\ ~gso /\ stopped
  /\ dev_requeue_skb
  /\ UNCHANGED <<poolVars, pc, carrier, queue, rings, irqs, poll>>

\* cpsw_ndo_start_xmit gets a descriptor; the run goes on with the next packet
\* or leaves it to another one ...
XmitOk ==
  /\ qrun /\ backlog > 0 /\ ~stopped /\ TxIndex < NumDesc
  /\ AllocTx
  /\ txRing' = Append(txRing, <<"tx", TxIndex>>)
  /\ backlog' = backlog - 1 /\ gso' = FALSE
  /\ \/ UNCHANGED <<txsched, qrun>>
     \/ backlog > 1 /\ txsched' = TRUE /\ qrun' = FALSE
  /\ UNCHANGED <<pc, carrier, qactive, queue, rxRing, txDone, rxDone, irqs,
                 poll>>

\* ... or none, and stops the queue ...
XmitBusy ==
  /\ qrun /\ backlog > 0 /\ ~stopped /\ TxIndex >= NumDesc
  /\ AllocTx
  /\ stopped' = TRUE
  /\ dev_requeue_skb
  /\ UNCHANGED <<pc, carrier, padStop, rings, irqs, poll>>

\* ... as it does if skb_padto finds no memory, before it asks for one.
XmitPadFails ==
  /\ PadFails
  /\ qrun /\ backlog > 0 /\ ~stopped
  /\ stopped' = TRUE /\ padStop' = TRUE
  /\ dev_requeue_skb
  /\ UNCHANGED <<poolVars, pc, carrier, rings, irqs, poll>>

qdisc_run ==
  \/ QdiscIdle \/ QdiscParks
  \/ XmitOk \/ XmitBusy \/ XmitPadFails

-----------------------------------------------------------------------------
(* Buffers come back.                                                      *)

\* Wrong variant: never starts the queue.
cpsw_tx_handler_Forgets == UNCHANGED queue

\* The queue is started, which does not make the discipline run.
netif_start_queue == stopped' = FALSE /\ padStop' = FALSE

cpsw_tx_handler == netif_start_queue

\* The channel frees the oldest transmit descriptor and calls the handler.
TxGiveBack ==
  /\ txRing # <<>>
  /\ cpdma_desc_free(Head(txRing))
  /\ txRing' = Tail(txRing)
  /\ txDone' = IF txDone > 0 THEN txDone - 1 ELSE 0
  /\ cpsw_tx_handler

RxGiveBack ==
  /\ rxRing # <<>>
  /\ cpdma_desc_free(Head(rxRing))
  /\ rxRing' = Tail(rxRing)
  /\ rxDone' = IF rxDone > 0 THEN rxDone - 1 ELSE 0

\* It does nothing while the interface is going down.
cpsw_interrupt ==
  /\ intr /\ armed /\ line /\ txDone + rxDone > 0
  /\ armed' = FALSE
  /\ IF Running
     THEN /\ intr' = FALSE /\ line' = FALSE
          /\ napi' = IF napi = "idle" THEN "sched" ELSE napi
     ELSE UNCHANGED <<intr, line, napi>>
  /\ UNCHANGED <<poolVars, pc, carrier, qdisc, queue, rings, lineLost, soft,
                 left>>

\* net_rx_action calls cpsw_poll: first the transmit channel ...
PollStart ==
  /\ napi = "sched" /\ Quiet
  /\ soft' = "polltx" /\ left' = TxQuota
  /\ UNCHANGED <<poolVars, pc, carrier, qdisc, queue, rings, irqs, lineLost,
                 napi>>

PollTx ==
  /\ soft = "polltx" /\ left > 0 /\ txDone > 0
  /\ TxGiveBack
  /\ left' = left - 1
  /\ UNCHANGED <<pc, carrier, qdisc, rxRing, rxDone, irqs, lineLost, napi, soft>>

PollTxEnds ==
  /\ soft = "polltx" /\ (left = 0 \/ txDone = 0)
  /\ soft' = "pollrx" /\ left' = Budget
  /\ UNCHANGED <<poolVars, pc, carrier, qdisc, queue, rings, irqs, lineLost,
                 napi>>

\* ... then the receive channel.
PollRx ==
  /\ soft = "pollrx" /\ left > 0 /\ rxDone > 0
  /\ RxGiveBack
  /\ left' = left - 1
  /\ soft' = "rxhandler"
  /\ UNCHANGED <<pc, carrier, qdisc, queue, txRing, txDone, irqs, lineLost,
                 napi>>

\* cpsw_rx_handler: with carrier, the packet goes to the network stack and a
\* new buffer is submitted, if there is memory for one; otherwise the channel
\* has one buffer less from then on.
cpsw_rx_handler ==
  /\ soft = "rxhandler" /\ ~qrun
  /\ soft' = "pollrx"
  /\ \/ /\ Running /\ carrier
        /\ AllocRx
        /\ rxRing' = Append(rxRing, <<"rx", RxIndex>>)
     \/ UNCHANGED <<poolVars, rxRing>>
  /\ UNCHANGED <<pc, carrier, qdisc, queue, txRing, txDone, rxDone, irqs,
                 lineLost, napi, left>>

\* Wrong variant: no end of interrupt is written.
PollCompletes_NoEoi ==
  /\ soft = "pollrx" /\ left > 0 /\ rxDone = 0
  /\ soft' = "none" /\ left' = 0 /\ napi' = "idle"
  /\ intr' = TRUE /\ line' = TRUE
  /\ UNCHANGED <<poolVars, pc, carrier, qdisc, queue, rings, armed, lineLost>>

\* Less than the budget: cpsw_poll completes NAPI and enables everything.
PollCompletes ==
  /\ soft = "pollrx" /\ left > 0 /\ rxDone = 0
  /\ soft' = "none" /\ left' = 0 /\ napi' = "idle"
  /\ armed' = TRUE /\ intr' = TRUE /\ line' = TRUE
  /\ UNCHANGED <<poolVars, pc, carrier, qdisc, queue, rings, lineLost>>

\* The whole budget: net_rx_action polls again, or, if napi_disable waits,
\* completes NAPI itself and leaves the interrupts as they are.
PollUsesBudget ==
  /\ soft = "pollrx" /\ left = 0
  /\ soft' = "none"
  /\ IF pc = "disabling"
     THEN napi' = "idle" /\ lineLost' = TRUE
     ELSE UNCHANGED <<napi, lineLost>>
  /\ UNCHANGED <<poolVars, pc, carrier, qdisc, queue, rings, irqs, left>>

cpsw_poll ==
  \/ PollStart \/ PollTx \/ PollTxEnds \/ PollRx \/ cpsw_rx_handler
  \/ PollCompletes \/ PollUsesBudget

-----------------------------------------------------------------------------
(* The transmit watchdog: cpsw_ndo_tx_timeout stops the transmit channel,  *)
(* which gives back what is on it, and starts it again.                    *)

\* Wrong variant: tests the carrier the wrong way round.
dev_watchdog_NoCarrier ==
  /\ Quiet /\ qactive /\ Running /\ ~carrier /\ stopped
  /\ soft' = "timeout" /\ intr' = FALSE
  /\ UNCHANGED <<poolVars, pc, carrier, qdisc, queue, rings, armed, line,
                 lineLost, napi, left>>

dev_watchdog ==
  /\ Quiet /\ qactive /\ Running /\ carrier /\ stopped
  /\ soft' = "timeout" /\ intr' = FALSE
  /\ UNCHANGED <<poolVars, pc, carrier, qdisc, queue, rings, armed, line,
                 lineLost, napi, left>>

TimeoutFrees ==
  /\ soft = "timeout"
  /\ TxGiveBack
  /\ UNCHANGED <<pc, carrier, qdisc, rxRing, rxDone, irqs, poll>>

TimeoutEnds ==
  /\ soft = "timeout" /\ txRing = <<>>
  /\ soft' = "none" /\ intr' = TRUE /\ armed' = TRUE
  /\ UNCHANGED <<poolVars, pc, carrier, qdisc, queue, rings, line, lineLost,
                 napi, left>>

cpsw_ndo_tx_timeout == TimeoutFrees \/ TimeoutEnds

-----------------------------------------------------------------------------
(* Opening and stopping.                                                   *)

\* __dev_open and the beginning of cpsw_ndo_open.
OpenBegins ==
  /\ pc = "down" /\ Quiet
  /\ pc' = "opening" /\ intr' = FALSE /\ carrier' = FALSE
  /\ UNCHANGED <<poolVars, qdisc, queue, rings, armed, line, poll>>

\* Wrong variant: one buffer too many.
OpenSubmits_OneMore ==
  /\ pc = "opening" /\ Len(rxRing) <= RxDescs
  /\ AllocRx
  /\ rxRing' = Append(rxRing, <<"rx", RxIndex>>)
  /\ UNCHANGED <<pc, carrier, qdisc, queue, txRing, txDone, rxDone, irqs, poll>>

OpenSubmits ==
  /\ pc = "opening" /\ Len(rxRing) < RxDescs
  /\ AllocRx
  /\ rxRing' = Append(rxRing, <<"rx", RxIndex>>)
  /\ UNCHANGED <<pc, carrier, qdisc, queue, txRing, txDone, rxDone, irqs, poll>>

\* There is no clock, or no room for the statistics file.
OpenFails ==
  /\ pc = "opening" /\ rxRing = <<>>
  /\ pc' = "down"
  /\ UNCHANGED <<poolVars, carrier, qdisc, queue, rings, irqs, poll>>

\* It goes on with fewer buffers if there is no memory for them, and starts the
\* channels.  No packet comes before its end: the phy has not reported a link.
OpenEnds ==
  /\ pc = "opening"
  /\ pc' = "up" /\ intr' = TRUE /\ armed' = TRUE /\ napi' = "idle"
  /\ UNCHANGED <<poolVars, carrier, qdisc, queue, rings, line, lineLost, soft,
                 left>>

cpsw_ndo_open == OpenBegins \/ OpenFails \/ OpenSubmits \/ OpenEnds

\* Wrong variant: forgets the parked packet.
CloseBegins_KeepsGso ==
  /\ pc = "up" /\ Quiet
  /\ pc' = "deactivated"
  /\ qactive' = FALSE /\ backlog' = 0
  /\ UNCHANGED <<poolVars, carrier, gso, txsched, qrun, queue, rings, irqs, poll>>

\* __dev_close: the interface no longer runs, the discipline is emptied.
CloseBegins ==
  /\ pc = "up" /\ Quiet
  /\ pc' = "deactivated"
  /\ qactive' = FALSE /\ backlog' = 0 /\ gso' = FALSE
  /\ UNCHANGED <<poolVars, carrier, txsched, qrun, queue, rings, irqs, poll>>

\* Once it is not scheduled any more, cpsw_ndo_stop stops the queue and
\* announces that NAPI is to be disabled ...
StopBegins ==
  /\ pc = "deactivated" /\ Quiet /\ ~txsched
  /\ pc' = "disabling" /\ stopped' = TRUE
  /\ UNCHANGED <<poolVars, carrier, qdisc, padStop, rings, irqs, poll>>

\* ... waits for NAPI ...
StopNapi ==
  /\ pc = "disabling" /\ Quiet /\ napi = "idle"
  /\ pc' = "stopping" /\ napi' = "off"
  /\ carrier' = FALSE /\ intr' = FALSE
  /\ UNCHANGED <<poolVars, qdisc, queue, rings, armed, line, lineLost, soft,
                 left>>

\* ... and stops the channels, which give back what is on them.
StopTx ==
  /\ pc = "stopping"
  /\ TxGiveBack
  /\ UNCHANGED <<pc, carrier, qdisc, rxRing, rxDone, irqs, poll>>

StopRx ==
  /\ pc = "stopping" /\ txRing = <<>>
  /\ RxGiveBack
  /\ UNCHANGED <<pc, carrier, qdisc, queue, txRing, txDone, irqs, poll>>

\* Wrong variant: leaves the receive channel as it is.
StopEnds_TxOnly ==
  /\ pc = "stopping" /\ txRing = <<>>
  /\ pc' = "down"
  /\ UNCHANGED <<poolVars, carrier, qdisc, queue, rings, irqs, poll>>

StopEnds ==
  /\ pc = "stopping" /\ txRing = <<>> /\ rxRing = <<>>
  /\ pc' = "down"
  /\ UNCHANGED <<poolVars, carrier, qdisc, queue, rings, irqs, poll>>

cpsw_ndo_stop ==
  \/ CloseBegins \/ StopBegins \/ StopNapi \/ StopTx \/ StopRx \/ StopEnds

-----------------------------------------------------------------------------
(* The link.                                                               *)

\* The phy's state machine reports a link: the queue is woken.
LinkUp ==
  /\ Connected /\ Quiet
  /\ carrier' = TRUE
  /\ IF Running
     THEN /\ netif_start_queue
          /\ txsched' = (txsched \/ (stopped /\ qactive))
     ELSE UNCHANGED <<queue, txsched>>
  /\ UNCHANGED <<poolVars, pc, qactive, backlog, gso, qrun, rings, irqs, poll>>

LinkDown ==
  /\ Connected /\ Quiet
  /\ carrier' = FALSE /\ stopped' = TRUE
  /\ UNCHANGED <<poolVars, pc, qdisc, padStop, rings, irqs, poll>>

cpsw_adjust_link == LinkUp \/ LinkDown

\* The stack follows: it attaches the discipline, or empties it.
linkwatch_do_dev ==
  /\ pc = "up" /\ Quiet
  /\ qactive' = carrier
  /\ IF carrier THEN UNCHANGED <<backlog, gso>> ELSE backlog' = 0 /\ gso' = FALSE
  /\ UNCHANGED <<poolVars, pc, carrier, txsched, qrun, queue, rings, irqs, poll>>

-----------------------------------------------------------------------------
(* External: the DMA engine completes the next buffer of a channel.        *)

EngineTx ==
  /\ Active /\ soft # "timeout" /\ txDone < Len(txRing)
  /\ txDone' = txDone + 1
  /\ UNCHANGED <<poolVars, pc, carrier, qdisc, queue, txRing, rxRing, rxDone,
                 irqs, poll>>

EngineRx ==
  /\ Active /\ carrier /\ rxDone < Len(rxRing)
  /\ rxDone' = rxDone + 1
  /\ UNCHANGED <<poolVars, pc, carrier, qdisc, queue, txRing, rxRing, txDone,
                 irqs, poll>>

-----------------------------------------------------------------------------
Next ==
  \/ dev_queue_xmit \/ net_tx_action \/ qdisc_run
  \/ cpsw_interrupt \/ cpsw_poll
  \/ dev_watchdog \/ cpsw_ndo_tx_timeout
  \/ cpsw_ndo_open \/ cpsw_ndo_stop
  \/ cpsw_adjust_link \/ linkwatch_do_dev
  \/ EngineTx \/ EngineRx

\* Soft interrupts that have begun go on, raised ones begin, and so does the
\* watchdog's timer however often others come before it.
Fairness ==
  /\ WF_vars(qdisc_run) /\ WF_vars(cpsw_ndo_tx_timeout)
  /\ WF_vars(cpsw_interrupt)
  /\ SF_vars(net_tx_action) /\ SF_vars(cpsw_poll) /\ SF_vars(dev_watchdog)

Spec == Init /\ [][Next]_vars /\ Fairness

\* With an engine that transmits what it is given.
EngineSpec == Spec /\ WF_vars(EngineTx)

-----------------------------------------------------------------------------
(* Properties.                                                             *)

\* Type invariant.
TypeOK ==
  /\ pc \in {"down", "opening", "up", "deactivated", "disabling", "stopping"}
  /\ soft \in {"none", "polltx", "pollrx", "rxhandler", "timeout"}
  /\ napi \in {"off", "idle", "sched"}
  /\ {carrier, qactive, gso, txsched, qrun, stopped, padStop, intr, armed, line,
      lineLost} \subseteq BOOLEAN
  /\ backlog \in 0..MaxBacklog /\ (gso => backlog > 0)
  /\ {txRing, rxRing} \subseteq Seq(holds)
  /\ txDone \in 0..Len(txRing) /\ rxDone \in 0..Len(rxRing)
  /\ left \in 0..TxQuota + Budget

\* With a carrier the queue is stopped only while a packet is on its way whose
\* completion will start it again (cpsw_tx_handler), except after a failure to
\* pad a packet: nothing starts it then if no packet is on its way.
StoppedHasReason ==
  pc = "up" /\ carrier /\ stopped /\ ~padStop => txRing # <<>>

\* A completed buffer never waits for an interrupt that cannot come, however
\* the interrupt, the poll, the watchdog and a stop alternate in switching it;
\* except when the lines were left disabled by an earlier stop.
NoMissedCompletion ==
  pc = "up" /\ soft # "timeout" /\ napi = "idle" /\ txDone + rxDone > 0
    => intr /\ armed /\ (line \/ lineLost)

\* After cpsw_ndo_stop every descriptor and buffer has come back.
NothingHeldWhenDown == pc = "down" => holds = {} /\ usedDesc = 0

\* A stopped queue is started again, though the engine may never complete a
\* packet: the watchdog gives back what is on the channel.
QueueRestarts ==
  pc = "up" /\ carrier /\ stopped ~> ~stopped \/ padStop \/ ~carrier \/ pc # "up"

\* The driver's steps are calls of the pool as it is meant to be used: one at a
\* time, each descriptor freed once by its holder, and never more receive
\* buffers than RxDescs.
UsesPool == PoolSpec

\* The packet cpsw_ndo_start_xmit refused is offered to it again once the
\* queue is started.  (Violated: cpsw_tx_handler starts the queue and does not
\* wake it.)
RefusedIsOfferedAgain ==
  pc = "up" /\ carrier /\ gso ~> ~gso \/ padStop \/ ~carrier \/ pc # "up"

\* After napi_enable NAPI can be scheduled again: the interrupt that does it is
\* not switched off.  (Violated after a stop in which a poll used up its
\* budget.)
NapiResumes == pc = "up" /\ napi = "idle" => line
=============================================================================
