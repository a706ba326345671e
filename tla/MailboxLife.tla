---------------------------- MODULE MailboxLife ----------------------------
(***************************************************************************)
(* The life cycle of the mailboxes, and what it shares between them:       *)
(*   arch/arm/plat-omap/mailbox.c    omap_mbox_get/put, startup, fini      *)
(*   arch/arm/mach-omap2/mailbox.c   the module's clock and interrupt mask *)
(*   notify_shm_drv.c                the client: setup, create, delete,    *)
(*                                   destroy                               *)
(*                                                                         *)
(* All mailboxes of a TI81xx share one clock, one interrupt line and one   *)
(* enable register; the handler installed for one of them serves them all. *)
(*                                                                         *)
(* omap_mbox_startup and omap_mbox_fini hold mbox_configured_lock, so one  *)
(* control thread stands for all callers.  The interrupt handler, the      *)
(* tasklets and the rx works run between its steps.  Of the data path      *)
(* (module Mailbox) only its use of the queues and of the mask is kept:    *)
(* whether a kfifo fills up and how many messages there are is left open.  *)
(*                                                                         *)
(* A use of a queue that is not allocated ends the behaviour (oops).       *)
(***************************************************************************)
EXTENDS Integers, FiniteSets

CONSTANTS Mboxes,    \* the list ti81xx_mboxes
          NoMbox,    \* none of them
          MaxUsers,  \* bound: users of one mailbox at a time
          MaxGets,   \* bound: calls of omap_mbox_get
          MaxFails   \* bound: failures of the calls it depends on

ASSUME MboxesAssumption == IsFiniteSet(Mboxes) /\ NoMbox \notin Mboxes
ASSUME LifeBounds == MaxUsers \in Nat /\ MaxGets \in Nat /\ MaxFails \in Nat

VARIABLES
  pc,          \* where the control thread is
  cur,         \* the mailbox its call is about
  gets, fails, \* number of gets, and of failures, so far
  configured,  \* mbox_configured
  useCount,    \* mbox->use_count
  chain,       \* number of notifier blocks on mbox->notifier
  attached,    \* mailboxes with a Notify driver (mbox_ref_count is 1)
  clk,         \* how often the clock has been enabled and not disabled
  ick,         \* mbox_ick_handle is a clock
  irqs,        \* mailboxes for which mbox_interrupt is installed
  txq, rxq,    \* where mbox->txq and mbox->rxq point
  full,        \* mailboxes whose rxq->full is set
  enRx, enTx,  \* mailboxes whose IRQ_RX, IRQ_TX is enabled
  posted,      \* mailboxes with a message in the device
  sched,       \* mailboxes whose tasklet is scheduled
  work,        \* mailboxes whose rx work is queued
  wpc, wcur,   \* where the worker is, and the mailbox it works for
  owed,        \* how many ends of that work flush_work still waits for
  spoiled,     \* history: a failed get stopped the clock of other users
  oops         \* a queue was used that is not allocated

counts == <<configured, useCount, chain, attached>>
clock  == <<clk, ick, spoiled>>
queues == <<irqs, txq, rxq>>
mask   == <<enRx, enTx>>
bh     == <<sched, work, wpc, wcur, full>>
ctrl   == <<pc, cur, gets, fails, owed>>
vars   == <<ctrl, counts, clock, queues, mask, posted, bh, oops>>

Pointers == {"null", "live", "freed"}

Init ==
  /\ pc = "idle" /\ cur = NoMbox /\ gets = 0 /\ fails = 0 /\ owed = 0
  /\ configured = 0 /\ useCount = [m \in Mboxes |-> 0]
  /\ chain = [m \in Mboxes |-> 0] /\ attached = {}
  /\ clk = 0 /\ ick = FALSE /\ spoiled = FALSE
  /\ irqs = {} /\ txq = [m \in Mboxes |-> "null"]
  /\ rxq = [m \in Mboxes |-> "null"]
  /\ enRx = {} /\ enTx = {} /\ posted = {}
  /\ sched = {} /\ work = {} /\ wpc = "idle" /\ wcur = NoMbox /\ full = {}
  /\ oops = FALSE

-----------------------------------------------------------------------------
(* The module's clock and reset.                                           *)

MayFail == fails < MaxFails /\ fails' = fails + 1

\* omap2_mbox_startup for the first user.  The soft reset empties the device
\* and its mask; then IRQ_RX of this mailbox, and of no other, is enabled.
HwStartup(m) ==
  /\ clk' = clk + 1 /\ ick' = TRUE
  /\ enRx' = {m} /\ enTx' = {} /\ posted' = {}

\* It fails if there is no clock (clk_get) or if the reset does not end in
\* time; the clock then stays enabled.
HwStartupFails ==
  /\ \/ ick' = FALSE /\ UNCHANGED clk
     \/ clk' = clk + 1 /\ ick' = TRUE
  /\ UNCHANGED <<enRx, enTx, posted>>

\* Wrong variant: disables a clock it no longer has.
HwShutdown_IgnoresHandle ==
  /\ clk' = clk - 1
  /\ ick' = FALSE

\* omap2_mbox_shutdown: clk_disable ignores a NULL handle.
HwShutdown ==
  /\ clk' = IF ick THEN clk - 1 ELSE clk
  /\ ick' = FALSE

-----------------------------------------------------------------------------
(* omap_mbox_get.                                                          *)

GetFirst(m) ==
  /\ pc = "idle" /\ gets < MaxGets /\ configured = 0
  /\ gets' = gets + 1 /\ cur' = m
  /\ \/ /\ HwStartup(m)
        /\ configured' = 1 /\ pc' = "use" /\ UNCHANGED fails
     \/ /\ MayFail /\ HwStartupFails
        /\ UNCHANGED <<configured, pc>>
  /\ UNCHANGED <<owed, useCount, chain, attached, spoiled, queues, bh, oops>>

GetNext(m) ==
  /\ pc = "idle" /\ gets < MaxGets /\ configured > 0
  /\ useCount[m] < MaxUsers
  /\ gets' = gets + 1 /\ cur' = m
  /\ configured' = configured + 1 /\ pc' = "use"
  /\ UNCHANGED <<fails, owed, useCount, chain, attached, clock, queues, mask,
                 posted, bh, oops>>

RequestIrq ==
  /\ pc = "use"
  /\ useCount' = [useCount EXCEPT ![cur] = @ + 1]
  /\ \/ /\ useCount[cur] > 0
        /\ pc' = "chain" /\ UNCHANGED <<irqs, fails>>
     \/ /\ useCount[cur] = 0
        /\ irqs' = irqs \cup {cur} /\ pc' = "txq" /\ UNCHANGED fails
     \/ /\ useCount[cur] = 0
        /\ MayFail /\ pc' = "failirq" /\ UNCHANGED irqs
  /\ UNCHANGED <<cur, gets, owed, configured, chain, attached, clock, txq, rxq,
                 mask, posted, bh, oops>>

\* mbox_queue_alloc for the transmit queue.
AllocTxq ==
  /\ pc = "txq"
  /\ \/ /\ txq' = [txq EXCEPT ![cur] = "live"] /\ pc' = "rxq"
        /\ UNCHANGED fails
     \/ MayFail /\ pc' = "failtx" /\ UNCHANGED txq
  /\ UNCHANGED <<cur, gets, owed, counts, clock, irqs, rxq, mask, posted, bh,
                 oops>>

\* mbox_queue_alloc for the receive queue; a new queue is not full.
AllocRxq ==
  /\ pc = "rxq"
  /\ \/ /\ rxq' = [rxq EXCEPT ![cur] = "live"] /\ pc' = "chain"
        /\ full' = full \ {cur}
        /\ UNCHANGED fails
     \/ MayFail /\ pc' = "failrx" /\ UNCHANGED <<rxq, full>>
  /\ UNCHANGED <<cur, gets, owed, counts, clock, irqs, txq, mask, posted,
                 sched, work, wpc, wcur, oops>>

\* The notifier chain of mailbox m is being called (its semaphore is held).
InChain(m) == wpc = "call" /\ wcur = m

\* blocking_notifier_chain_register, after the lock is released.
ChainRegister ==
  /\ pc = "chain" /\ ~InChain(cur)
  /\ chain' = [chain EXCEPT ![cur] = @ + 1]
  /\ pc' = "idle"
  /\ UNCHANGED <<cur, gets, fails, owed, configured, useCount, attached, clock,
                 queues, mask, posted, bh, oops>>

\* fail_alloc_rxq: the pointer to the freed transmit queue stays.
FailRxq ==
  /\ pc = "failrx"
  /\ txq' = [txq EXCEPT ![cur] = "freed"]
  /\ pc' = "failtx"
  /\ UNCHANGED <<cur, gets, fails, owed, counts, clock, irqs, rxq, mask,
                 posted, bh, oops>>

\* Wrong variant: the handler stays installed.
FailTxq_KeepsIrq ==
  /\ pc = "failtx"
  /\ pc' = "failirq"
  /\ UNCHANGED <<cur, gets, fails, owed, counts, clock, irqs, txq, rxq, mask,
                 posted, bh, oops>>

\* fail_alloc_txq.
FailTxq ==
  /\ pc = "failtx"
  /\ irqs' = irqs \ {cur}
  /\ pc' = "failirq"
  /\ UNCHANGED <<cur, gets, fails, owed, counts, clock, txq, rxq, mask, posted,
                 bh, oops>>

\* fail_request_irq: stops the clock, whoever else uses it.
FailIrq ==
  /\ pc = "failirq"
  /\ HwShutdown
  /\ spoiled' = (spoiled \/ configured > 1)
  /\ useCount' = [useCount EXCEPT ![cur] = @ - 1]
  /\ configured' = configured - 1
  /\ pc' = "idle"
  /\ UNCHANGED <<cur, gets, fails, owed, chain, attached, queues, mask, posted,
                 bh, oops>>

omap_mbox_get ==
  \/ \E m \in Mboxes : GetFirst(m) \/ GetNext(m)
  \/ RequestIrq \/ AllocTxq \/ AllocRxq \/ ChainRegister
  \/ FailRxq \/ FailTxq \/ FailIrq

-----------------------------------------------------------------------------
(* omap_mbox_put.  Notify deletes all its drivers before it puts any.      *)

\* Wrong variant: does not wait for a call of the chain to end.
PutUnregister_NoWait(m) ==
  /\ pc = "idle" /\ attached = {} /\ chain[m] > 0
  /\ chain' = [chain EXCEPT ![m] = @ - 1]
  /\ cur' = m /\ pc' = "fini"
  /\ UNCHANGED <<gets, fails, owed, configured, useCount, attached, clock,
                 queues, mask, posted, bh, oops>>

\* blocking_notifier_chain_unregister.
PutUnregister(m) ==
  /\ pc = "idle" /\ attached = {} /\ chain[m] > 0 /\ ~InChain(m)
  /\ chain' = [chain EXCEPT ![m] = @ - 1]
  /\ cur' = m /\ pc' = "fini"
  /\ UNCHANGED <<gets, fails, owed, configured, useCount, attached, clock,
                 queues, mask, posted, bh, oops>>

FiniFreeIrq ==
  /\ pc = "fini"
  /\ useCount' = [useCount EXCEPT ![cur] = @ - 1]
  /\ IF useCount[cur] = 1
     THEN irqs' = irqs \ {cur} /\ pc' = "kill"
     ELSE pc' = "last" /\ UNCHANGED irqs
  /\ UNCHANGED <<cur, gets, fails, owed, configured, chain, attached, clock,
                 txq, rxq, mask, posted, bh, oops>>

\* tasklet_kill returns when the tasklet is not scheduled; flush_work then
\* takes note of the instances of the work that are queued or running.
FiniKillTasklet ==
  /\ pc = "kill" /\ cur \notin sched
  /\ owed' = (IF cur \in work THEN 1 ELSE 0)
             + (IF wpc # "idle" /\ wcur = cur THEN 1 ELSE 0)
  /\ pc' = "flush"
  /\ UNCHANGED <<cur, gets, fails, counts, clock, queues, mask, posted, bh,
                 oops>>

FiniFlushWork ==
  /\ pc = "flush" /\ owed = 0
  /\ pc' = "free"
  /\ UNCHANGED <<cur, gets, fails, owed, counts, clock, queues, mask, posted,
                 bh, oops>>

FiniFreeQueues ==
  /\ pc = "free"
  /\ txq' = [txq EXCEPT ![cur] = "freed"]
  /\ rxq' = [rxq EXCEPT ![cur] = "freed"]
  /\ pc' = "last"
  /\ UNCHANGED <<cur, gets, fails, owed, counts, clock, irqs, mask, posted, bh,
                 oops>>

\* Wrong variant: stops the clock when the mailbox's own last user goes.
FiniShutdown_OwnCount ==
  /\ pc = "last"
  /\ configured' = configured - 1
  /\ IF useCount[cur] = 0 THEN HwShutdown ELSE UNCHANGED <<clk, ick>>
  /\ pc' = "idle"
  /\ UNCHANGED <<cur, gets, fails, owed, useCount, chain, attached, spoiled,
                 queues, mask, posted, bh, oops>>

FiniShutdown ==
  /\ pc = "last"
  /\ configured' = configured - 1
  /\ IF configured = 1 THEN HwShutdown ELSE UNCHANGED <<clk, ick>>
  /\ pc' = "idle"
  /\ UNCHANGED <<cur, gets, fails, owed, useCount, chain, attached, spoiled,
                 queues, mask, posted, bh, oops>>

omap_mbox_put ==
  \/ \E m \in Mboxes : PutUnregister(m)
  \/ FiniFreeIrq \/ FiniKillTasklet \/ FiniFlushWork \/ FiniFreeQueues
  \/ FiniShutdown

-----------------------------------------------------------------------------
(* The client attaches and detaches its driver on a mailbox it has.        *)

notify_shm_drv_create(m) ==
  /\ pc = "idle" /\ chain[m] > 0 /\ m \notin attached
  /\ attached' = attached \cup {m}
  /\ enRx' = enRx \cup {m}
  /\ UNCHANGED <<ctrl, configured, useCount, chain, clock, queues, enTx,
                 posted, bh, oops>>

notify_shm_drv_delete(m) ==
  /\ pc = "idle" /\ m \in attached
  /\ attached' = attached \ {m}
  /\ enRx' = enRx \ {m}
  /\ UNCHANGED <<ctrl, configured, useCount, chain, clock, queues, enTx,
                 posted, bh, oops>>

\* A send that finds the device full queues its message for the tasklet.
omap_mbox_msg_send(m) ==
  /\ m \in attached
  /\ sched' = sched \cup {m}
  /\ UNCHANGED <<ctrl, counts, clock, queues, mask, posted, work, wpc, wcur,
                 full, oops>>

-----------------------------------------------------------------------------
(* The interrupt handler, for each mailbox that has raised an interrupt.   *)

Use(q) == oops' = (q # "live")

\* The transmit FIFO may have room at any time.
__mbox_tx_interrupt(m) ==
  /\ irqs # {} /\ clk > 0 /\ m \in enTx
  /\ enTx' = enTx \ {m}
  /\ sched' = sched \cup {m}
  /\ Use(txq[m])
  /\ UNCHANGED <<ctrl, counts, clock, queues, enRx, posted, work, wpc, wcur,
                 full>>

\* Empties the device, or finds the kfifo full and disables the interrupt.
__mbox_rx_interrupt(m) ==
  /\ irqs # {} /\ clk > 0 /\ m \in enRx /\ m \in posted
  /\ \/ posted' = posted \ {m} /\ UNCHANGED <<enRx, full>>
     \/ enRx' = enRx \ {m} /\ full' = full \cup {m} /\ UNCHANGED posted
  /\ work' = work \cup {m}
  /\ Use(rxq[m])
  /\ UNCHANGED <<ctrl, counts, clock, queues, enTx, sched, wpc, wcur>>

-----------------------------------------------------------------------------
(* The tasklet and the work.                                               *)

mbox_tx_tasklet(m) ==
  /\ m \in sched
  /\ sched' = sched \ {m}
  /\ \/ enTx' = enTx \cup {m}
     \/ UNCHANGED enTx
  /\ Use(txq[m])
  /\ UNCHANGED <<ctrl, counts, clock, queues, enRx, posted, work, wpc, wcur,
                 full>>

\* The work takes a message and calls the chain; an empty chain is not even
\* locked.
WorkNotifies(m) == wpc' = IF chain[m] > 0 THEN "call" ELSE "refill"

RxWorkStart(m) ==
  /\ wpc = "idle" /\ m \in work
  /\ work' = work \ {m} /\ wcur' = m
  /\ WorkNotifies(m)
  /\ Use(rxq[m])
  /\ UNCHANGED <<ctrl, counts, clock, queues, mask, posted, sched, full>>

\* A callback may send an event in its turn.
RxWorkCallback ==
  /\ wpc = "call"
  /\ \/ UNCHANGED <<sched, oops>>
     \/ sched' = sched \cup {wcur} /\ Use(txq[wcur])
  /\ wpc' = "refill"
  /\ UNCHANGED <<ctrl, counts, clock, queues, mask, posted, work, wcur, full>>

\* The interrupt is enabled again if the handler left the kfifo full; then
\* the next message is taken, or the work ends.
RxWorkRefill ==
  /\ wpc = "refill"
  /\ full' = full \ {wcur}
  /\ enRx' = IF wcur \in full THEN enRx \cup {wcur} ELSE enRx
  /\ Use(rxq[wcur])
  /\ \/ WorkNotifies(wcur) /\ UNCHANGED <<wcur, owed>>
     \/ /\ wpc' = "idle" /\ wcur' = NoMbox
        /\ owed' = IF pc = "flush" /\ wcur = cur /\ owed > 0
                   THEN owed - 1 ELSE owed
  /\ UNCHANGED <<pc, cur, gets, fails, counts, clock, queues, enTx, posted,
                 sched, work>>

-----------------------------------------------------------------------------
\* External: the processor at the other end writes a message.
RemoteWrite(m) ==
  /\ clk > 0
  /\ posted' = posted \cup {m}
  /\ UNCHANGED <<ctrl, counts, clock, queues, mask, bh, oops>>

Control == omap_mbox_get \/ omap_mbox_put

Next ==
  /\ ~oops
  /\ \/ Control
     \/ \E m \in Mboxes :
          \/ notify_shm_drv_create(m) \/ notify_shm_drv_delete(m)
          \/ omap_mbox_msg_send(m)
          \/ __mbox_tx_interrupt(m) \/ __mbox_rx_interrupt(m)
          \/ mbox_tx_tasklet(m) \/ RxWorkStart(m)
          \/ RemoteWrite(m)
     \/ RxWorkCallback \/ RxWorkRefill

Spec == Init /\ [][Next]_vars

-----------------------------------------------------------------------------
(* Properties.                                                             *)

Pcs == {"idle", "use", "txq", "rxq", "chain", "failrx", "failtx", "failirq",
        "fini", "kill", "flush", "free", "last"}

\* Type invariant: no count ever becomes negative, also on the error paths.
TypeOK ==
  /\ pc \in Pcs /\ cur \in Mboxes \cup {NoMbox} /\ (pc # "idle" => cur \in Mboxes)
  /\ gets \in 0..MaxGets /\ fails \in 0..MaxFails /\ owed \in 0..2
  /\ configured \in Nat /\ clk \in Nat /\ ick \in BOOLEAN
  /\ useCount \in [Mboxes -> Nat] /\ chain \in [Mboxes -> Nat]
  /\ txq \in [Mboxes -> Pointers] /\ rxq \in [Mboxes -> Pointers]
  /\ \A s \in {attached, irqs, full, enRx, enTx, posted, sched, work} :
       s \subseteq Mboxes
  /\ wpc \in {"idle", "call", "refill"} /\ wcur \in Mboxes \cup {NoMbox}
  /\ spoiled \in BOOLEAN /\ oops \in BOOLEAN

\* Every use of a mailbox, numbered.
Users == UNION {{m} \X (1..useCount[m]) : m \in Mboxes}

\* Between calls of omap_mbox_get and omap_mbox_put, and whatever failed in
\* them: mbox_configured is the number of users; a mailbox has its handler
\* and both its queues exactly while it has users, and a notifier block each.
CountsExact ==
  pc = "idle" =>
    /\ configured = Cardinality(Users)
    /\ \A m \in Mboxes :
         /\ chain[m] = useCount[m]
         /\ useCount[m] > 0 <=> m \in irqs
         /\ useCount[m] > 0 <=> txq[m] = "live"
         /\ useCount[m] > 0 <=> rxq[m] = "live"

\* The clock runs whenever a mailbox is in use, unless a later get failed:
\* then it was stopped for all (fail_request_irq).
ClockRuns == configured > 0 /\ ~spoiled => clk > 0 /\ ick

\* When omap_mbox_fini frees the queues of the last mailbox with a handler,
\* its tasklet is not scheduled and its work neither queued nor running:
\* taking the client off the chain, free_irq, tasklet_kill and flush_work, in
\* this order, leave nobody who could start them again.
QuiescedWhenFreed ==
  pc = "free" /\ irqs = {} =>
    /\ cur \notin sched \cup work
    /\ ~(wpc # "idle" /\ wcur = cur)
=============================================================================
