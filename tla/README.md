# Formal model of the DM8148 kernel's inter-processor and Ethernet DMA paths

The repository is the Linux 2.6.37 tree for TI's DM8148 (TI814x), a system on
chip with a Cortex-A8 that runs Linux, a C674x DSP and two Cortex-M3 (video and
VPSS), and a small script that prepares an SD card. Nearly all of the tree is the
upstream kernel. What is the board support's own logic, and has state and
concurrency worth checking, is

* the **mailbox** driver, through which the processors exchange 32-bit messages,
* the SysLink **Notify** driver, an event protocol in shared memory on top of it,
* **CPSW**, the Ethernet switch driver, and **CPDMA**, the descriptor-queue DMA
  it transmits and receives through.

This directory holds TLA+ modules of these, the TLC configurations that check
them, and TLAPS proofs of every invariant, action property and refinement that
the passing runs check. Paths below are relative to `src/linux-2.6.37/`.

## 1. Inventory

| component | source | state | operations |
|---|---|---|---|
| mailbox data path | `arch/arm/plat-omap/mailbox.c`, `arch/arm/mach-omap2/mailbox.c` | two kfifos, `full`, tasklet and work, interrupt enables, two device FIFOs | `omap_mbox_msg_send`, `mbox_tx_tasklet`, `mbox_interrupt`, `mbox_rx_work`, `omap_mbox_disable_irq`/`enable_irq` |
| mailbox life cycle | same, and its user in `notify_shm_drv.c` | `mbox_configured`, `use_count`, queues, clock, handlers, interrupt mask | get with its failure paths, put, fini, driver create and delete |
| Notify event protocol | `drivers/dsp/syslink/notify_shmdriver/notify_shm_drv.c`, dispatch in `drivers/dsp/syslink/omap_notify/notify.c` | shared memory: registration and enable masks, flag and payload per event; local: `reg_chart`, callbacks, `nesting`, two gates | `send_event`, the scan, `register_event`, `unregister_event`, `disable`, `enable`, `disable_event`, `enable_event` |
| Notify module | `omap_notify/notify.c`, `notify_driver.c`, `notify_init.c` | drivers, listeners per event, local enable mask | attach, detach, listener lists, local events, ioctls |
| MultiProc | `multicore_ipc/multiproc.c` | table of names and ids | look-ups |
| CPDMA channel | `drivers/net/davinci_cpdma.c` | descriptor chain, channel state, hdp/cp registers | submit, process, start, stop |
| CPDMA descriptor pool | same | bitmap, `last_index`, `used_desc` | alloc, free |
| CPSW | `drivers/net/cpsw.c`, `cpsw_ale.c` | NAPI, transmit queue, rings, interrupt enables, carrier; address table | xmit, interrupt, poll, open, stop, tx_timeout, adjust_link |
| others | EMAC, MUSB CPPI 4.1, EDMA, display, PCIe, clocks, board files | registers and tables | `PROJECT.json` gives the reason each is left out |

How they interact. A sender calls `notify_send_event`; the driver tests the
receiver's masks in shared memory, writes payload and flag under its gate and
rings the receiver with `omap_mbox_msg_send`. On the receiver the mailbox
interrupt fills a kfifo, the work `mbox_rx_work` empties it and calls the
notifier chain, which is Notify's `notify_shmdrv_isr_callback`; this scans the
registered events and calls their callbacks, in process context. The mailbox's
receive interrupt enable is shared between its own flow control and Notify's
`disable`/`restore`. Ethernet: `cpsw_ndo_start_xmit` and the receive handler
submit buffers; `cpsw_interrupt` schedules the poll, which takes completed
buffers back; the transmit watchdog stops and restarts the channel.

What is hard in this code, and hardly tested:

* wake-ups: tasklet, work, interrupt enable, mailbox message and EOQ flag each
  stand for "somebody will look at this queue again", and each is set up on a
  path that races with the queue's other end;
* state read before a lock and used after it (the masks in `send_event`), or
  released in the middle (the gates, around callbacks and in the wait loop);
* two owners of one bit (the receive interrupt enable) and of one chain of
  descriptors (software and the DMA engine);
* limits: full kfifo, full device FIFO, full mailbox, exhausted pool, quota of a
  poll, poll limit of a sender, teardown that times out.

`PROJECT.json` lists 40 such places with their lines, under `hazards`, each with
the properties that would catch it going wrong, or why there is none.

What makes each part correct: the mailbox is, in each direction, an in-order
channel that never stalls; a Notify event is a one-place box whose content
reaches the callback once, and every sender returns; a CPDMA channel transfers
and returns every buffer exactly once, in order, and never gives the engine a
descriptor it should not have; the Ethernet driver starts a stopped queue again,
notices every completion, and gives everything back when it is closed; the
mailboxes keep the clock they share while one of them is used and free a queue
only when nothing can use it any more.

## 2. Modules

`MsgChannel` is the abstract specification of an in-order channel (`Put`, `Get`
and, if `Lossy`, `Drop`). `EventBox` is the abstract specification of the events
of Notify: per event a box with room for one payload.

### Mailbox (refines MsgChannel)

One mailbox against a remote processor that reads and writes the two device
FIFOs at any time. `txq` and `rxq` are the kfifos, as sequences of message
numbers; `hwtx` and `hwrx` the device FIFOs; `irqTx`, `irqRx` the interrupt
enables; `full` the flag of the same name; `txSched`, `txpc`, `workPending`,
`rxpc` say where the tasklet and the work are.

* `omap_mbox_msg_send`, one step since it holds a lock that excludes the tasklet:
  direct write if the kfifo is empty and the device has room, otherwise into the
  kfifo, `tasklet_schedule`; refused if the kfifo is full.
* `mbox_tx_tasklet`: `TaskletStart`, `TaskletMove`, `TaskletSeesFull`,
  `TaskletArm`, `TaskletDone`. The device may drain between the test of full and
  the enabling of the interrupt.
* `mbox_interrupt`: both parts of the handler, in its order.
* `mbox_rx_work`: `RxWorkStart`, `RxWorkPop`, `RxWorkNotify`, `RxWorkRefill`,
  `RxWorkDone`; the handler may come between any two.

### MailboxLife

Several mailboxes, which share one clock, one interrupt line and one mask. A
control thread goes through `omap_mbox_get` (`GetFirst`, `GetNext`, `RequestIrq`,
`AllocTxq`, `AllocRxq`, `ChainRegister`, and the failure exits `FailRxq`,
`FailTxq`, `FailIrq`) and `omap_mbox_put` (`PutUnregister`, then `omap_mbox_fini`
as `FiniFreeIrq`, `FiniKillTasklet`, `FiniFlushWork`, `FiniFreeQueues`,
`FiniShutdown`). Interrupts, tasklets and the rx works of all mailboxes run in
between; of the data path only its use of the queues and of the mask is kept. A
use of a queue that is not allocated ends a behaviour (`oops`): it is reachable,
because the handler is installed, and the receive interrupt enabled, before the
queues exist.

### NotifyShm (refines EventBox)

One direction: sender threads of one processor, the other processor as receiver.
The sender's action names follow `notify_shm_drv_send_event` from top to bottom
(`SendStart`: registration mask; `SendCheckEnabled`: enable mask; `SendLock`;
`SendPoll`: a round of the wait_clear loop; `SendWrite`; `SendRaise`;
`SendRing`). The receiver is the mailbox, reduced to counting its messages with
the flow control and the loss found in `Mailbox`; the scan (`IsrStart` to
`IsrReturn`), which runs in the mailbox work; and a control thread that registers
and unregisters events, disables and restores Notify and disables and enables
single events. The scan and the control thread share a processor without
preemption: one goes on only while the other sleeps, on the gate or in a
callback. `Kinds` selects callbacks registered directly (`single`) and through
`notify_register_event` (`many`, which takes the gate again).

### Cpdma (refines MsgChannel) and CpdmaPool

`Cpdma` is one channel: descriptor memory (`next`, `owner`, `eoq`, `td`,
`token`), the chain `head`..`tail`, the channel's state, and the engine. Submit
is split where the new descriptor has been chained and EOQ is not yet tested,
because the engine may act there. `Dequeue` is `__cpdma_chan_process`;
`cpdma_chan_stop` is its five parts. The engine (external, from how the driver
uses it) transfers a buffer, reads the successor, and later hands the descriptor
back, with EOQ if the successor it had read was null.

`CpdmaPool` is the descriptor allocator with `bitmap_find_next_zero_area` for one
bit; `holds` records which side has which descriptor. `PoolSpec` is what a user
of the pool may do.

### Cpsw (composes CpdmaPool, refines PoolSpec)

One interface between the network stack and its two channels. The stack is
modelled from how the driver meets it: `dev_queue_xmit`, `net_tx_action` and the
run of the queueing discipline (`QdiscIdle`, `QdiscParks`, and the outcomes of
`cpsw_ndo_start_xmit`, with and without a descriptor, with and without memory to
pad), the transmit watchdog, NAPI's states, linkwatch. `stopped` is the queue's
bit, `gso` the packet parked in the discipline. `cpsw_interrupt` and `cpsw_poll`
switch the device's interrupts (`intr`), end-of-interrupt (`armed`) and the
interrupt lines (`line`). `cpsw_ndo_open`, `cpsw_ndo_stop` and the timeout are
steps between which soft interrupts run. A channel is a queue completed from its
front, which is what `Cpdma` shows; every allocation and return is an action of
`CpdmaPool`, and `UsesPool` says that the driver uses it as `PoolSpec` allows, so
that what is proved of the pool holds of the driver.

## 3. Runs

Passing runs:

| run | bounds | what it shows |
|---|---|---|
| `mailbox` | kfifos and device FIFOs of 2, 4 messages each way, 1 mask | accepted messages are conserved in order (`TxConserved`, `TxIsReliable`) and all arrive (`TxDelivers`); received ones keep their order (`RxInOrder`); no path leaves a queue without somebody on the way to it (`TxNoStall`, `RxNoStall`, `RxWorkComes`), so the receive side keeps draining (`RxDrains`) |
| `notify` | 2 senders, 2 events, 3 sends, 3 control calls, mailbox of 2, kfifo of 1, no poll limit | without `disable_event` each event is a box (`IsBox`), no flagged event is forgotten though bells are refused and lost (`NoLostWakeup`), the scan never dispatches an event without callback (`ScanFindsCallback`), events are served and senders return (`EventsServed`, `SendReturns`) |
| `notify_mask` | 2 senders, 2 events, 2 sends, 3 + 1 control calls, poll limit 2, both callback kinds, waiting and not, senders symmetric | with everything switched on the gate is held exactly where it should be, also when the wait loop drops and retakes it (`GateExact`), no waiting sender overwrites an unread payload, whether it waited or not (`WaitersNeverOverwrite`), `reg_chart`, callbacks and mask agree (`ChartExact`) |
| `cpdma` | 3 descriptors, 5 buffers, quota 2 | the race of submit with the end of the queue: hdp is written only while the engine is idle (`HdpWrittenWhenIdle`), buffers are transferred once and in order (`TransferredInOrder`), given back afterwards (`GivenBackAfterTransfer`) and all of them (`AllGivenBack`) |
| `cpdma_stop` | 3 descriptors, 4 buffers, 1 stop that may time out, restart | buffers are given back once, in order, across a teardown (`GivesBackInOrder`), and no descriptor leaks (`PoolExact`) |
| `mailbox_life` | 2 mailboxes, 2 users each, 3 gets, 2 failures | counts, handlers and queues agree between calls, whichever step of a get failed (`CountsExact`); the clock runs while a mailbox is used (`ClockRuns`); the order of steps in fini leaves nobody who could use the queues when they are freed (`QuiescedWhenFreed`) |
| `cpsw` | 5 descriptors (halves of 2 and 3), 2 receive buffers, quotas of 2, backlog of 2, padding may fail | a stopped queue has a packet on its way (`StoppedHasReason`) and is started again although the engine may stop (`QueueRestarts`); no completion waits for an interrupt that cannot come (`NoMissedCompletion`); close gives everything back (`NothingHeldWhenDown`); the pool's properties hold under this use (`OneHolder`, `HalvesApart`, `UsedDescExact`, `TxFailsOnlyWhenFull`, `UsesPool`) |

Runs in which TLC refutes what a comment or an assertion says (each is a finding
in `PROJECT.json`, with the line quoted):

| run | what happens |
|---|---|
| `mailbox_loss` | an interrupt between the work's `kfifo_out` and its refill fills the kfifo; the refill reads one more message from the device and `kfifo_in` drops it (the `WARN_ON` there is commented out) |
| `notify_overwrite` | `disable_event` acknowledges an event before it reads its payload; a sender already waiting writes over it |
| `notify_spin` | a sender that tested the enable mask earlier flags the event after `disable_event` looked; nobody serves it, later senders spin |
| `cpsw_wake` | `cpsw_tx_handler` starts the stopped queue and does not schedule the discipline: the packet parked in it waits until somebody sends another |
| `cpsw_deadirq` | a poll that used up its budget when the interface is closed leaves the interrupt lines disabled; after the next open NAPI cannot be scheduled |

Further behaviour of this kind that the models show and no run is kept for (the
hazards list has the lines):

* `notify_disable_event` holds the gate that the callback it causes takes again:
  TLC refutes `cpc = "dtest" ~> cpc = "idle"` for callbacks of kind `many`;
* an event flagged after it was unregistered is dispatched by `disable_event`
  without a callback: `cpc # "oops"` is violated under the constants of
  `NotifySpin.cfg` with `MaxCtrl = 2`;
* `disable_event` inside a `notify_disable` section turns reception on again, and
  an event may be flagged after `unregister_event` returned;
* the drain after a teardown restarts the engine on descriptors that are then
  freed: `EngineOwnsItsDescriptor` checked alone is violated under the constants of
  `Cpdma.cfg` with `MaxStop = 1`;
* with more receive buffers than `NumDesc \div 2` the pool hands out transmit
  descriptors (`PoolAssumption` excludes it; without it `OneHolder` is violated);
* an interrupt during `omap_mbox_get` finds a mailbox without queues
  (`MailboxLife`, `oops`), and a failed get stops the clock for the other
  mailboxes (`spoiled`);
* if a packet cannot be padded the queue is stopped, and nothing starts it if no
  packet is on its way (`padStop` in `Cpsw`, which `StoppedHasReason` excludes).

Why the bounds are enough. The queues are long enough to be empty, partly filled
and full, with a message beyond the full queue still to come; two senders, since
senders interact only through the gate and the flag of one event; two events,
since the scan distinguishes only the event it serves and the ones before and
after it; three control calls allow register, unregister, register, and the
removal of either of two registered events. A poll limit of two lets a waiting
sender time out as well as find the entry clear after it has retaken the gate.
Symmetry of the senders is used only in `notify_mask`, which checks invariants:
nothing in the model tells senders apart. Three
descriptors are a head, a middle and a tail, five buffers make each be used
again. In `cpsw` the transmit half has three descriptors and the quota is two, so
that a poll ends with and without work left; the halves differ in size so that a
wrong half shows; receive fills its half. Two mailboxes are enough for one to be
got, to fail or to be put while the other is in use. Every history variable is
bounded by the number of messages. Deadlock is checked in `cpsw`, which never
runs out of steps, and is off elsewhere because the environment may stop sending
once its bound is reached.

Fairness. Weak fairness of the tasklet, the work, the scan, the control thread
and a started sender: the kernel runs what is scheduled, and callbacks return.
Weak fairness of interrupts: the lines are levels, so an enabled and raised
interrupt is taken. Weak fairness of the remote reader (it empties its FIFO) and
of a started DMA engine. Nobody has to begin a call, no signal has to come, and
the remote processor need not write. Senders get only weak fairness for the gate:
the wait loop of a spinning sender may keep it from the others for ever, which is
why `SendReturns` excludes the state in which an event was flagged after it was
unregistered. In `Cpsw` a soft interrupt that has begun goes on and an interrupt
whose line is up is taken (weak); `net_tx_action`, `cpsw_poll` and the watchdog's
timer are only enabled between other soft interrupts and get strong fairness: the
kernel serves a raised soft interrupt however often others come before it. The
engine gets none there, which is what the watchdog is for; only `cpsw_wake` uses
`EngineSpec`, to show that the engine is not to blame.

Platform assumptions: `ti8148_evm_defconfig` builds for a uniprocessor with
`CONFIG_PREEMPT_NONE`; process context is left only by sleeping, and interrupt
handlers run to their end. Device memory and shared memory are accessed in
program order (the drivers use `dsb` and uncached mappings). The engine
acknowledges a teardown between two packets and marks the descriptor it would
have gone on with.

## 4. Proofs

TLAPS proves every property of the passing runs that is not liveness, for every
value of the constants (any capacities, numbers of mailboxes, senders, events,
descriptors, packets, control calls and failures). What each invariant needs to
become inductive is said with it.

* `MailboxProofs`
  * `TypeCorrect`: `TypeOK`, with the capacities of all four queues. Inductive as
    it stands; `RxInterruptTypes` is the lemma for the handler, which moves
    several messages in one step.
  * `TxNeverStalls` and `RxNeverStalls`: `TxNoStall` is inductive; `RxNoStall` is
    relative to `TypeOK`, since the handler turns the interrupt off only with a
    nonempty kfifo, for which it queues the work. `RxWorkAlwaysComes`:
    `RxWorkComes` is inductive.
  * `TxNeverLoses` (`TxConserved`) and `TxImplementsChannel` (refinement of
    `MsgChannel`): both follow from `TxSteps`, which says of every step that it
    appends to what is in flight, takes its head, or leaves it alone.
  * `RxImplementsChannel` (`RxInOrder`, refinement of the lossy `MsgChannel`):
    `RxSteps` does the same for what is in flight on the way in, the message in
    the hands of the work, the kfifo and the device. The only step that loses
    one is the refill that finds the kfifo full (`LeaveOutHead`).
* `MailboxLifeProofs`
  * `ClockKeepsRunning` (`ClockRuns`). The inductive invariant is `ClockInv`,
    which adds that a clock handle stands for an enabling of the clock; without
    it the count could go below zero in the failure path. `OtherSteps` says that
    only get, its failure exit and fini touch the clock.
  * `CountsAreExact` (`CountsExact`). The property speaks of the moments between
    calls; `LifeInv` says for every point of get, its failure exits, put and fini
    how far counts, handlers and queues are behind or ahead of the users.
    `mbox_configured` is compared with the number of elements of `Users`, one for
    each use of a mailbox, so that a step adds or removes one element
    (`UsersGrow` and its counterpart).
  * `FreedWhenQuiet` (`QuiescedWhenFreed`). `QuietInv` adds what fini has waited
    for at each of its steps (the tasklet from `tasklet_kill` on, the ends of the
    work that `flush_work` still owes), and that the clients are gone and no
    chain is called that nobody is on: these could schedule the work again.
  * `TypeCorrect`: `TypeOK`, from the three.
* `NotifyShmProofs`
  * `GateDiscipline` (`GateExact`) and `NoUnreadOverwrite`
    (`WaitersNeverOverwrite`). The inductive invariant is `SenderInv`: the two
    properties and the types they need. The second is not inductive without the
    first: only the gate makes the test of the flag and the write one step with
    respect to other senders; and the receiver only clears flags (`ReceiverSteps`).
* `NotifyScanProofs`
  * `ChartIsExact` (`ChartExact`) and `ScanAlwaysFindsCallback`
    (`ScanFindsCallback`). `ReceiverInv` says of the chart that its numbers ascend
    and that it agrees with callbacks and registration mask but for the event a
    control call is working on; that of the scan and the control call only one is
    away from a place where it sleeps; and that the scan's index is a position of
    the chart when it is used. The chart's order is carried through the insertion
    and the removal as "two entries lie at least as far apart as their positions",
    since the provers have no induction over the chart.
  * `NoWakeupIsLost`: `NoLostWakeup` as long as `disable_event` has not been called
    (`nmask = 0`). `WakeInv` states it for the listed events whether or not they
    are masked. The condition is needed: an event flagged while it is masked is
    not looked at when `enable_event` unmasks it, which TLC shows as a violation.
  * `ImplementsBox` (`IsBox`, refinement of `EventBox`), if all senders wait
    (`WaitModes \subseteq {TRUE}`) and no event is disabled (`MaxMask = 0`), as in
    the run `notify`: senders that do not wait overwrite by design, and the run
    `notify_overwrite` refutes it with `disable_event`. `BoxInv` says that what a
    sender has written stays until it is raised and what is raised until the scan
    has read it.
  * `TypeCorrect`: `TypeOK`, from `TypeInv`, which bounds every counter.
* `CpdmaPoolProofs`
  * `NoDoubleGrant` (`OneHolder`), `HalvesStayApart`, `UsedDescCounts` and
    `TxSearchIsComplete`. The inductive invariant `PoolInv` is the first three
    with the types. None of them is inductive alone: the receive search does not
    test whether it found a descriptor, and if its half were full would return an
    index of the transmit half. That it is not full is a pigeonhole argument
    (`RxSearchSucceeds`): receive holds fewer than `Half` descriptors, each a
    different one (`OneHolder`), and only receive holds descriptors of this half
    (`HalvesApart`).
* `CpdmaProofs`
  * `PoolIsExact` (`PoolExact`) and `ImplementsChannel` (`GivesBackInOrder`,
    refinement of the lossless `MsgChannel`), across any number of stops. The
    properties are about the list one gets by following the `next` pointers,
    about which nothing can be proved by induction on its length. `ChainInv`
    describes the chain by the buffers' numbers instead: the allocated
    descriptors bear exactly the numbers submitted and not given back, each
    points to the one with the next number, and head and tail bear the first and
    the last. From that the list is computed.
  * `EngineOwnsItsDescriptorUntilStop`, `TransferredInOrderUntilStop`,
    `GivenBackAfterTransferUntilStop` (each for `nstop = 0`) and
    `HdpIsWrittenWhenIdle` (for `MaxStop = 0`, as in the run `cpdma`).
    `EngineInv` places the engine on the chain: unless it is idle it is at the
    first buffer not transferred or at the one just transferred; it owns that
    descriptor and those after it, and only the one transferred last may bear
    EOQ, with the engine idle. The
    condition is needed: after a stop the drain restarts the engine on descriptors
    that are then freed (section 3).
  * `TypeCorrect`: `TypeOK`.
* `CpswProofs`
  * `DriverUsesPool` (`UsesPool`, refinement of `PoolSpec`) and from it
    `DriverPoolIsSafe`: the four theorems about the pool hold of the driver.
    `RingInv` says that the two rings list exactly what is held, each entry once,
    and that receive has room in its share whenever it asks for a descriptor;
    `PhaseInv` says in which phase of open and stop who may run.
  * `DownHoldsNothing` (`NothingHeldWhenDown`) and `StoppedQueueHasReason`
    (`StoppedHasReason`), from the same invariants. The second also needs that a
    request is refused only by a full transmit half (`TxSearchComplete`), so that
    a refused packet finds others on the channel.
  * `CompletionsAreNoticed` (`NoMissedCompletion`). `IrqInv` drops the mention of
    completed buffers: an idle poll always comes with enabled interrupts.
  * `TypeCorrect`: `TypeOK`.

Assumptions: only the named `ASSUME`s on constants of the modules (capacities
positive, bounds natural numbers, `NoThread` not a sender and `NoMbox` not a
mailbox; the receive buffers fit into the lower half of the pool, and the first
value of `last_index`, 4096, does not lie in that half), which TLC evaluates in
the runs, and the hypotheses of the theorems named above.

Only model-checked: all liveness (`TxDelivers`, `RxDrains`, `EventsServed`,
`SendReturns`, `AllGivenBack`, `QueueRestarts`), which is out of the prover's
reach, and the properties of the runs that end in a violation.

## 5. Not modelled, and the plan

What is left out of the parts that are modelled:

* mailbox: registration and removal of the devices, suspend and resume;
* Notify: `notify_attach`/`detach`, the ioctl layer, local (loopback) events, and
  the list of listeners, which is reduced to one. On this uniprocessor kernel
  without preemption the gap between the two critical sections of
  `notify_register_event` and `notify_unregister_event` cannot be entered by
  another task, since an uncontended `mutex_lock` does not sleep; what remains is
  a listener freed while its callback sleeps (hazard at `notify.c:1236`), which
  is a matter of following freed memory;
* CPSW: the second interface of the dual-EMAC mode, which shares the channels and
  which `ti8148_evm_defconfig` does not build,
  the address table (`cpsw_ale.c`, table look-ups under one caller), probe and
  removal, ethtool and the timestamping ioctls.

Plan, in order of importance:

1. Proofs of what holds after a stop of a channel: which of the engine's
   properties survive a teardown that was acknowledged in time.
2. `Cpsw` over `Cpdma` in place of its queues, and `NotifyShm` over `Mailbox` in
   place of its counters. Each part now assumes of the other what the other's
   runs and theorems show; the product of the two state spaces is beyond a short
   run.

Left out for good, with the reasons in `PROJECT.json`: the drivers whose state is
hardware registers or another processor's firmware, static tables, the upstream
kernel, and the SD card script.

## 6. Running

    tlc -config Mailbox.cfg Mailbox          # likewise for the other .cfg files
    tlapm MailboxProofs.tla                  # likewise for the other *Proofs

The `.cfg` files of a module begin with its name (`Notify*.cfg` belong to
`NotifyShm`, `CpdmaStop.cfg` to `Cpdma`). Operators marked
"Wrong variant" are not part of a specification; each is the definition after
them with a plausible mistake, and putting it in its place makes TLC report the
property it is meant for.
