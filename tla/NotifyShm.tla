----------------------------- MODULE NotifyShm -----------------------------
(***************************************************************************)
(* The SysLink Notify event protocol over shared memory, one direction:    *)
(*   drivers/dsp/syslink/notify_shmdriver/notify_shm_drv.c                 *)
(*   drivers/dsp/syslink/omap_notify/notify.c                              *)
(*                                                                         *)
(* Sender threads of one processor raise events for the other one: each    *)
(* event has an entry (payload, flag) in the receiver's event chart; the   *)
(* sender fills it and rings the mailbox.  On the receiver, the mailbox    *)
(* work runs notify_shmdrv_isr_callback, which scans every registered      *)
(* event, and a control thread registers, unregisters, enables and         *)
(* disables.  Both processors run this code against each other with the    *)
(* charts swapped; the two directions share nothing but the sender's gate. *)
(*                                                                         *)
(* The receiver is a uniprocessor without kernel preemption: the work and  *)
(* the control thread alternate only where one of them sleeps, that is in  *)
(* a callback or on a gate.  The sender is another processor and may act   *)
(* between any two accesses to shared memory.                              *)
(***************************************************************************)
EXTENDS Integers, Sequences, FiniteSetsExt, SequencesExt

CONSTANTS Senders,     \* threads of the sending processor
          NumEvents,   \* notify_state.cfg.num_events
          WaitModes,   \* the values of wait_clear the senders use
          Kinds,       \* how events are registered: "single", "many"
          MaxPoll,     \* send_event_poll_count; 0 stands for (u32)-1, no limit
          BellCap,     \* messages the sending side holds before it refuses one
          KfifoLen,    \* capacity of the receive kfifo
          MaxSends,    \* bound: calls of send_event that get past the checks
          MaxCtrl,     \* bound: register, unregister, disable, restore calls
          MaxMask,     \* bound: disable_event calls
          NoThread     \* model value: nobody holds the gate

Events == 0..NumEvents - 1

ASSUME NumEventsAssumption == NumEvents \in Nat \ {0}
ASSUME SendersAssumption   == NoThread \notin Senders
ASSUME ModesAssumption     == /\ WaitModes \subseteq BOOLEAN
                              /\ Kinds \subseteq {"single", "many"}
ASSUME BoundsAssumption    == /\ MaxPoll \in Nat
                              /\ BellCap \in Nat \ {0} /\ KfifoLen \in Nat \ {0}
                              /\ MaxSends \in Nat /\ MaxCtrl \in Nat
                              /\ MaxMask \in Nat

VARIABLES
  \* shared memory, written by the receiver except flag and payload
  regMask,    \* event_reg_mask
  enMask,     \* event_enable_mask
  flag,       \* per event: event_entry->flag is UP
  payload,    \* per event: event_entry->payload
  \* the mailbox between the two
  inDev,      \* messages sent and not yet read by the interrupt handler
  inQueue,    \* messages in the receive kfifo
  irqOn,      \* the receive interrupt is enabled
  rxFull,     \* mbox->rxq->full
  \* sender
  sgate,      \* holder of the sender's notify_shm_drv_state.gate_handle
  spc,        \* where each sender is
  sev,        \* its event_id
  swait,      \* its wait_clear
  spolls,     \* its poll counter i
  nsent,      \* number of sends begun; the n-th carries payload n
  spay,       \* its payload
  \* receiver: the scan by the mailbox work
  ipc,        \* where it is
  idx,        \* the index i into reg_chart
  ipay,       \* the local variable payload
  imany,      \* the callback it runs is _notify_exec_many
  \* receiver: the control thread
  cpc,        \* where it is
  cev,        \* its event_id
  chart,      \* reg_chart up to its first -1 entry
  callbacks,  \* per event: kind of the registered callback, or "none"
  nesting,    \* obj->nesting
  nctrl, nmask, \* how many control calls have been made
  handed      \* history: the last <<event, payload>> given to a callback

shm    == <<regMask, enMask, flag, payload>>
bells  == <<inDev, inQueue, rxFull>>
svars  == <<sgate, spc, sev, swait, spolls, nsent, spay>>
ivars  == <<ipc, idx, ipay, imany>>
rvars  == <<chart, callbacks, nesting, nctrl, nmask>>
vars   == <<shm, bells, irqOn, svars, ivars, cpc, cev, rvars, handed>>

\* notify_shm_drv_create and notify_create have run on both sides: all events
\* are enabled, none is registered or flagged.
Init ==
  /\ regMask = {} /\ enMask = Events
  /\ flag = [e \in Events |-> FALSE] /\ payload = [e \in Events |-> 0]
  /\ inDev = 0 /\ inQueue = 0 /\ rxFull = FALSE /\ irqOn = TRUE
  /\ sgate = NoThread
  /\ spc = [s \in Senders |-> "idle"] /\ sev = [s \in Senders |-> 0]
  /\ swait = [s \in Senders |-> FALSE] /\ spolls = [s \in Senders |-> 0]
  /\ spay = [s \in Senders |-> 0] /\ nsent = 0
  /\ ipc = "idle" /\ idx = 1 /\ ipay = 0 /\ imany = FALSE
  /\ cpc = "idle" /\ cev = 0
  /\ chart = <<>> /\ callbacks = [e \in Events |-> "none"]
  /\ nesting = 0 /\ nctrl = 0 /\ nmask = 0
  /\ handed = <<0, 0>>

-----------------------------------------------------------------------------
(* The sender: notify_shm_drv_send_event.                                  *)

\* The receiver has registered the event; otherwise the call fails at once.
SendStart(s) ==
  /\ spc[s] = "idle" /\ nsent < MaxSends
  /\ \E e \in regMask, w \in WaitModes :
       /\ sev' = [sev EXCEPT ![s] = e]
       /\ swait' = [swait EXCEPT ![s] = w]
  /\ nsent' = nsent + 1
  /\ spay' = [spay EXCEPT ![s] = nsent + 1]
  /\ spolls' = [spolls EXCEPT ![s] = 0]
  /\ spc' = [spc EXCEPT ![s] = "enabled"]
  /\ UNCHANGED <<sgate, shm, bells, irqOn, ivars, cpc, cev, rvars, handed>>

SendCheckEnabled(s) ==
  /\ spc[s] = "enabled"
  /\ spc' = [spc EXCEPT ![s] = IF sev[s] \in enMask THEN "lock" ELSE "idle"]
  /\ UNCHANGED <<sgate, sev, swait, spolls, nsent, spay, shm, bells, irqOn,
                 ivars, cpc, cev, rvars, handed>>

SendLock(s) ==
  /\ spc[s] = "lock" /\ sgate = NoThread
  /\ sgate' = s
  /\ spc' = [spc EXCEPT ![s] = "poll"]
  /\ UNCHANGED <<sev, swait, spolls, nsent, spay, shm, bells, irqOn, ivars, cpc,
                 cev, rvars, handed>>

\* mutex_lock_interruptible: a signal makes the call return.
SendInterrupted(s) ==
  /\ spc[s] = "lock"
  /\ spc' = [spc EXCEPT ![s] = "idle"]
  /\ UNCHANGED <<sgate, sev, swait, spolls, nsent, spay, shm, bells, irqOn,
                 ivars, cpc, cev, rvars, handed>>

\* Wrong variant: a timeout leaves the loop with the gate held.
SendPoll_TimeoutKeepsGate(s) ==
  LET i == spolls[s] + 1 IN
  /\ spc[s] = "poll"
  /\ IF swait[s] /\ flag[sev[s]]
     THEN /\ sgate' = IF i = MaxPoll THEN s ELSE NoThread
          /\ spolls' = [spolls EXCEPT ![s] = i]
          /\ spc' = [spc EXCEPT ![s] = IF i = MaxPoll THEN "idle" ELSE "lock"]
     ELSE /\ spc' = [spc EXCEPT ![s] = "write"]
          /\ UNCHANGED <<sgate, spolls>>
  /\ UNCHANGED <<sev, swait, nsent, spay, shm, bells, irqOn, ivars, cpc, cev,
                 rvars, handed>>

\* Wrong variant: the flag is not looked at again after the gate was retaken,
\* as if the loop were a plain test.
SendPoll_TestsOnce(s) ==
  /\ spc[s] = "poll"
  /\ IF swait[s] /\ flag[sev[s]] /\ spolls[s] = 0
     THEN /\ sgate' = NoThread
          /\ spolls' = [spolls EXCEPT ![s] = 1]
          /\ spc' = [spc EXCEPT ![s] = IF MaxPoll = 1 THEN "idle" ELSE "lock"]
     ELSE /\ spc' = [spc EXCEPT ![s] = "write"]
          /\ UNCHANGED <<sgate, spolls>>
  /\ UNCHANGED <<sev, swait, nsent, spay, shm, bells, irqOn, ivars, cpc, cev,
                 rvars, handed>>

\* The wait_clear loop: while the entry is flagged, release the gate, give up
\* after MaxPoll rounds, take the gate again.
SendPoll(s) ==
  LET i == IF MaxPoll = 0 THEN 0 ELSE spolls[s] + 1 IN
  /\ spc[s] = "poll"
  /\ IF swait[s] /\ flag[sev[s]]
     THEN /\ sgate' = NoThread
          /\ spolls' = [spolls EXCEPT ![s] = i]
          /\ spc' = [spc EXCEPT ![s] = IF MaxPoll # 0 /\ i = MaxPoll
                                       THEN "idle" ELSE "lock"]
     ELSE /\ spc' = [spc EXCEPT ![s] = "write"]
          /\ UNCHANGED <<sgate, spolls>>
  /\ UNCHANGED <<sev, swait, nsent, spay, shm, bells, irqOn, ivars, cpc, cev,
                 rvars, handed>>

SendWrite(s) ==
  /\ spc[s] = "write"
  /\ payload' = [payload EXCEPT ![sev[s]] = spay[s]]
  /\ spc' = [spc EXCEPT ![s] = "raise"]
  /\ UNCHANGED <<sgate, sev, swait, spolls, nsent, spay, regMask, enMask, flag,
                 bells, irqOn, ivars, cpc, cev, rvars, handed>>

SendRaise(s) ==
  /\ spc[s] = "raise"
  /\ flag' = [flag EXCEPT ![sev[s]] = TRUE]
  /\ spc' = [spc EXCEPT ![s] = "ring"]
  /\ UNCHANGED <<sgate, sev, swait, spolls, nsent, spay, regMask, enMask,
                 payload, bells, irqOn, ivars, cpc, cev, rvars, handed>>

\* Wrong variant: returns with the gate held.
SendRing_KeepsGate(s) ==
  /\ spc[s] = "ring"
  /\ inDev' = IF inDev < BellCap THEN inDev + 1 ELSE inDev
  /\ spc' = [spc EXCEPT ![s] = "idle"]
  /\ UNCHANGED <<sgate, sev, swait, spolls, nsent, spay, shm, inQueue, rxFull,
                 irqOn, ivars, cpc, cev, rvars, handed>>

\* omap_mbox_msg_send returns -ENOMEM when the mailbox is full; the result is
\* not looked at.
SendRing(s) ==
  /\ spc[s] = "ring"
  /\ inDev' = IF inDev < BellCap THEN inDev + 1 ELSE inDev
  /\ sgate' = NoThread
  /\ spc' = [spc EXCEPT ![s] = "idle"]
  /\ UNCHANGED <<sev, swait, spolls, nsent, spay, shm, inQueue, rxFull, irqOn,
                 ivars, cpc, cev, rvars, handed>>

\* What a caller does once it has started; it may start, or not.
SendGoesOn(s) ==
  \/ SendCheckEnabled(s) \/ SendLock(s) \/ SendPoll(s)
  \/ SendWrite(s) \/ SendRaise(s) \/ SendRing(s)

notify_shm_drv_send_event(s) ==
  SendStart(s) \/ SendInterrupted(s) \/ SendGoesOn(s)

-----------------------------------------------------------------------------
(* The receiver's mailbox, reduced to counting messages (module Mailbox    *)
(* has it in full).  inDev counts those in the sender's queue too.         *)

\* Wrong variant: reads on although the kfifo is full.
MailboxInterrupt_NoRoom ==
  /\ irqOn /\ inDev > 0
  /\ inQueue' = inQueue + inDev
  /\ inDev' = 0
  /\ UNCHANGED <<shm, rxFull, irqOn, svars, ivars, cpc, cev, rvars, handed>>

\* __mbox_rx_interrupt: with more messages than room, it turns itself off.
MailboxInterrupt ==
  /\ irqOn /\ inDev > 0
  /\ LET n == Min({inDev, KfifoLen - inQueue}) IN
       /\ inQueue' = inQueue + n
       /\ inDev' = inDev - n
       /\ IF n < inDev THEN irqOn' = FALSE /\ rxFull' = TRUE
                       ELSE UNCHANGED <<irqOn, rxFull>>
  /\ UNCHANGED <<shm, svars, ivars, cpc, cev, rvars, handed>>

\* Wrong variant: leaves the interrupt off.
MailboxRefill_Forgets ==
  /\ ipc = "refill"
  /\ ipc' = "idle"
  /\ rxFull' = FALSE
  /\ UNCHANGED <<shm, inDev, inQueue, irqOn, svars, idx, ipay, imany, cpc, cev,
                 rvars, handed>>

\* The section of mbox_rx_work after a callback: it turns the interrupt on
\* again, and loses the message it reads if the kfifo has no room.
MailboxRefill ==
  /\ ipc = "refill"
  /\ ipc' = "idle"
  /\ IF rxFull
     THEN /\ rxFull' = FALSE /\ irqOn' = TRUE
          /\ inDev' = Max({inDev - 1, 0})
          /\ inQueue' = IF inDev > 0 THEN Min({inQueue + 1, KfifoLen})
                                     ELSE inQueue
     ELSE UNCHANGED <<bells, irqOn>>
  /\ UNCHANGED <<shm, svars, idx, ipay, imany, cpc, cev, rvars, handed>>

-----------------------------------------------------------------------------
(* The scan: notify_shmdrv_isr_callback, called for each mailbox message.  *)

\* The control thread is not running: it is idle, in a callback, or asleep on
\* the gate.
CtrlSleeps == cpc \in {"idle", "dlock", "dcall"}

\* The control thread holds notify_state.gate_handle during each of its calls.
GateHeld == cpc # "idle"

IsrStart ==
  /\ ipc = "idle" /\ CtrlSleeps /\ inQueue > 0
  /\ inQueue' = inQueue - 1
  /\ ipc' = "scan" /\ idx' = 1
  /\ UNCHANGED <<shm, inDev, rxFull, irqOn, svars, ipay, imany, cpc, cev, rvars,
                 handed>>

\* Flagged and enabled?
Asserted(e) == flag[e] /\ e \in enMask

\* Wrong variant: the last registered event is not looked at.
IsrScan_OffByOne ==
  /\ ipc = "scan"
  /\ IF idx >= Len(chart)
     THEN ipc' = "refill" /\ UNCHANGED idx
     ELSE IF Asserted(chart[idx])
          THEN ipc' = "take" /\ UNCHANGED idx
          ELSE idx' = idx + 1 /\ UNCHANGED ipc
  /\ UNCHANGED <<shm, bells, irqOn, svars, ipay, imany, cpc, cev, rvars, handed>>

IsrScan ==
  /\ ipc = "scan"
  /\ IF idx > Len(chart)
     THEN ipc' = "refill" /\ UNCHANGED idx
     ELSE IF Asserted(chart[idx])
          THEN ipc' = "take" /\ UNCHANGED idx
          ELSE idx' = idx + 1 /\ UNCHANGED ipc
  /\ UNCHANGED <<shm, bells, irqOn, svars, ipay, imany, cpc, cev, rvars, handed>>

IsrTake ==
  /\ ipc = "take"
  /\ ipay' = payload[chart[idx]]
  /\ ipc' = "ack"
  /\ UNCHANGED <<shm, bells, irqOn, svars, idx, imany, cpc, cev, rvars, handed>>

\* Acknowledge, then notify_exec: _notify_exec_many sleeps if the gate is held.
IsrAck ==
  LET e == chart[idx] IN
  /\ ipc = "ack"
  /\ flag' = [flag EXCEPT ![e] = FALSE]
  /\ handed' = <<e, ipay>>
  /\ imany' = (callbacks[e] = "many")
  /\ ipc' = CASE callbacks[e] = "none"   -> "oops"
              [] callbacks[e] = "many"   -> IF GateHeld THEN "lock" ELSE "call"
              [] callbacks[e] = "single" -> "call"
  /\ UNCHANGED <<regMask, enMask, payload, bells, irqOn, svars, idx, ipay, cpc,
                 cev, rvars>>

IsrLock ==
  /\ ipc = "lock" /\ ~GateHeld
  /\ ipc' = "call"
  /\ UNCHANGED <<shm, bells, irqOn, svars, idx, ipay, imany, cpc, cev, rvars,
                 handed>>

\* The callback returns (_notify_exec_many takes the gate once more); the
\* scan starts over at the first event.
IsrReturn ==
  /\ ipc = "call" /\ CtrlSleeps
  /\ imany => ~GateHeld
  /\ ipc' = "scan" /\ idx' = 1
  /\ UNCHANGED <<shm, bells, irqOn, svars, ipay, imany, cpc, cev, rvars, handed>>

notify_shmdrv_isr_callback ==
  IsrStart \/ IsrScan \/ IsrTake \/ IsrAck \/ IsrLock \/ IsrReturn

-----------------------------------------------------------------------------
(* The control thread.                                                     *)

\* The mailbox work is asleep, so the control thread may be running.
WorkSleeps == ipc \in {"idle", "lock", "call"}

CtrlStarts == cpc = "idle" /\ WorkSleeps /\ nctrl < MaxCtrl

\* Wrong variant: takes the first free slot.
ChartInsert_Appends(e) == Append(chart, e)

\* The insertion into reg_chart, by ascending event number.
ChartInsert(e) ==
  IF Len(chart) < NumEvents
  THEN InsertAt(chart, 1 + Max({0} \cup {j \in DOMAIN chart : chart[j] <= e}), e)
  ELSE chart

\* notify_register_event_single and notify_shm_drv_register_event.  The event
\* is announced in shared memory last.
RegisterEvent(e, kind) ==
  /\ CtrlStarts /\ callbacks[e] = "none"
  /\ callbacks' = [callbacks EXCEPT ![e] = kind]
  /\ chart' = ChartInsert(e)
  /\ flag' = [flag EXCEPT ![e] = FALSE]
  /\ nctrl' = nctrl + 1
  /\ cpc' = "reg" /\ cev' = e
  /\ UNCHANGED <<regMask, enMask, payload, bells, irqOn, svars, ivars, nesting,
                 nmask, handed>>

RegisterAnnounce ==
  /\ cpc = "reg"
  /\ regMask' = regMask \cup {cev}
  /\ cpc' = "idle"
  /\ UNCHANGED <<enMask, flag, payload, bells, irqOn, svars, ivars, cev, rvars,
                 handed>>

\* Wrong variant: clears the flag while the event is still announced.
UnregisterEvent_ClearsFirst(e) ==
  /\ CtrlStarts /\ callbacks[e] # "none"
  /\ callbacks' = [callbacks EXCEPT ![e] = "none"]
  /\ flag' = [flag EXCEPT ![e] = FALSE]
  /\ nctrl' = nctrl + 1
  /\ cpc' = "unreg" /\ cev' = e
  /\ UNCHANGED <<regMask, enMask, payload, bells, irqOn, svars, ivars, chart,
                 nesting, nmask, handed>>

\* notify_unregister_event_single and notify_shm_drv_unregister_event.
UnregisterEvent(e) ==
  /\ CtrlStarts /\ callbacks[e] # "none"
  /\ callbacks' = [callbacks EXCEPT ![e] = "none"]
  /\ regMask' = regMask \ {e}
  /\ nctrl' = nctrl + 1
  /\ cpc' = "unreg" /\ cev' = e
  /\ UNCHANGED <<enMask, flag, payload, bells, irqOn, svars, ivars, chart,
                 nesting, nmask, handed>>

\* Wrong variant: the event stays in reg_chart.
UnregisterClear_LeavesChart ==
  /\ cpc = "unreg"
  /\ flag' = [flag EXCEPT ![cev] = FALSE]
  /\ cpc' = "idle"
  /\ UNCHANGED <<regMask, enMask, payload, bells, irqOn, svars, ivars, cev,
                 rvars, handed>>

\* The search for the event in reg_chart, and the shift that closes the gap.
ChartRemove(e) ==
  LET found == {j \in DOMAIN chart : chart[j] = e}
  IN IF found = {} THEN chart ELSE RemoveAt(chart, Min(found))

UnregisterClear ==
  /\ cpc = "unreg"
  /\ flag' = [flag EXCEPT ![cev] = FALSE]
  /\ chart' = ChartRemove(cev)
  /\ cpc' = "idle"
  /\ UNCHANGED <<regMask, enMask, payload, bells, irqOn, svars, ivars, cev,
                 callbacks, nesting, nctrl, nmask, handed>>

\* notify_disable and notify_restore: the calls nest.
notify_disable ==
  /\ CtrlStarts
  /\ nesting' = nesting + 1
  /\ irqOn' = (irqOn /\ nesting > 0)
  /\ nctrl' = nctrl + 1
  /\ UNCHANGED <<shm, bells, svars, ivars, cpc, cev, chart, callbacks, nmask,
                 handed>>

notify_restore ==
  /\ cpc = "idle" /\ WorkSleeps /\ nesting > 0
  /\ nesting' = nesting - 1
  /\ irqOn' = (irqOn \/ nesting = 1)
  /\ UNCHANGED <<shm, bells, svars, ivars, cpc, cev, chart, callbacks, nctrl,
                 nmask, handed>>

\* notify_shm_drv_disable_event: the mask first, then the interrupt.
DisableBegin(e) ==
  /\ cpc = "idle" /\ WorkSleeps /\ nmask < MaxMask
  /\ enMask' = enMask \ {e}
  /\ irqOn' = FALSE
  /\ nmask' = nmask + 1
  /\ cpc' = "dtest" /\ cev' = e
  /\ UNCHANGED <<regMask, flag, payload, bells, svars, ivars, chart, callbacks,
                 nesting, nctrl, handed>>

\* An event that is already flagged is acknowledged here.
DisableTest ==
  /\ cpc = "dtest"
  /\ flag' = [flag EXCEPT ![cev] = FALSE]
  /\ cpc' = IF flag[cev] THEN "dexec" ELSE "dend"
  /\ UNCHANGED <<regMask, enMask, payload, bells, irqOn, svars, ivars, cev,
                 rvars, handed>>

\* notify_exec with the payload as it is now.  The thread holds
\* notify_state.gate_handle, which _notify_exec_many asks for.
DisableExec ==
  /\ cpc = "dexec"
  /\ handed' = <<cev, payload[cev]>>
  /\ cpc' = CASE callbacks[cev] = "none"   -> "oops"
              [] callbacks[cev] = "many"   -> "dlock"
              [] callbacks[cev] = "single" -> "dcall"
  /\ UNCHANGED <<shm, bells, irqOn, svars, ivars, cev, rvars>>

DisableReturn ==
  /\ cpc = "dcall" /\ WorkSleeps
  /\ cpc' = "dend"
  /\ UNCHANGED <<shm, bells, irqOn, svars, ivars, cev, rvars, handed>>

DisableEnd ==
  /\ cpc = "dend"
  /\ irqOn' = TRUE
  /\ cpc' = "idle"
  /\ UNCHANGED <<shm, bells, svars, ivars, cev, rvars, handed>>

notify_shm_drv_enable_event(e) ==
  /\ cpc = "idle" /\ WorkSleeps /\ e \notin enMask
  /\ enMask' = enMask \cup {e}
  /\ UNCHANGED <<regMask, flag, payload, bells, irqOn, svars, ivars, cpc, cev,
                 rvars, handed>>

\* What the thread does once a call has started.
CtrlGoesOn ==
  \/ RegisterAnnounce \/ UnregisterClear
  \/ DisableTest \/ DisableExec \/ DisableReturn \/ DisableEnd

CtrlCalls ==
  \/ \E e \in Events, kind \in Kinds : RegisterEvent(e, kind)
  \/ \E e \in Events : \/ UnregisterEvent(e)
                       \/ DisableBegin(e)
                       \/ notify_shm_drv_enable_event(e)
  \/ notify_disable \/ notify_restore

-----------------------------------------------------------------------------
Next ==
  \/ \E s \in Senders : notify_shm_drv_send_event(s)
  \/ MailboxInterrupt \/ MailboxRefill
  \/ notify_shmdrv_isr_callback
  \/ CtrlGoesOn \/ CtrlCalls

\* Running threads go on, callbacks return, a raised interrupt is taken.
\* Nobody has to start a call, and no signal has to come.
Fairness ==
  /\ \A s \in Senders : WF_vars(SendGoesOn(s))
  /\ WF_vars(MailboxInterrupt)
  /\ WF_vars(notify_shmdrv_isr_callback \/ MailboxRefill)
  /\ WF_vars(CtrlGoesOn)

Spec == Init /\ [][Next]_vars /\ Fairness

\* Senders differ only in name.
SenderSymmetry == Permutations(Senders)

-----------------------------------------------------------------------------
(* Properties.                                                             *)

\* Type invariant.
TypeOK ==
  /\ regMask \subseteq Events /\ enMask \subseteq Events
  /\ flag \in [Events -> BOOLEAN] /\ payload \in [Events -> 0..MaxSends]
  /\ inDev \in 0..BellCap /\ inQueue \in 0..KfifoLen
  /\ rxFull \in BOOLEAN /\ irqOn \in BOOLEAN
  /\ sgate \in Senders \cup {NoThread}
  /\ spc \in [Senders -> {"idle", "enabled", "lock", "poll", "write", "raise",
                          "ring"}]
  /\ sev \in [Senders -> Events] /\ swait \in [Senders -> BOOLEAN]
  /\ spolls \in [Senders -> 0..MaxPoll] /\ spay \in [Senders -> 0..MaxSends]
  /\ nsent \in 0..MaxSends
  /\ ipc \in {"idle", "scan", "take", "ack", "lock", "call", "refill", "oops"}
  /\ idx \in 1..NumEvents + 1 /\ ipay \in 0..MaxSends /\ imany \in BOOLEAN
  /\ cpc \in {"idle", "reg", "unreg", "dtest", "dexec", "dlock", "dcall",
              "dend", "oops"}
  /\ cev \in Events
  /\ chart \in Seq(Events) /\ callbacks \in [Events -> Kinds \cup {"none"}]
  /\ nesting \in 0..MaxCtrl /\ nctrl \in 0..MaxCtrl /\ nmask \in 0..MaxMask
  /\ handed \in Events \X (0..MaxSends)

\* Between taking the gate and ringing the mailbox.
Critical == {"poll", "write", "raise", "ring"}

\* The sender's gate is held exactly by the thread between its lock and the
\* unlock of each exit path: after the ring, at each round of the wait_clear
\* loop, on a timeout.
GateExact == \A s \in Senders : spc[s] \in Critical <=> sgate = s

\* A sender that waits for the previous event to be taken writes its payload
\* only into an entry that is clear, in spite of other senders, of the gate
\* being dropped in the loop, and of the receiver.
WaitersNeverOverwrite ==
  \A s \in Senders :
     spc[s] \in {"write", "raise"} /\ swait[s] => ~flag[sev[s]]

\* Between control calls reg_chart lists exactly the events that have a
\* callback, which are those announced in shared memory, by ascending number.
ChartExact ==
  cpc = "idle" =>
    /\ \A i, j \in DOMAIN chart : i < j => chart[i] < chart[j]
    /\ Range(chart) = regMask
    /\ regMask = {e \in Events : callbacks[e] # "none"}

\* The scan never calls the callback of an event that has none, although
\* control calls unregister events while an earlier callback runs.
ScanFindsCallback == ipc # "oops"

\* The scan under way will look at event e again.
ScanReaches(e) ==
  \/ ipc \in {"take", "ack", "lock", "call"}
  \/ ipc = "scan" /\ \E j \in idx..Len(chart) : chart[j] = e

\* A flagged event the receiver listens to is never forgotten: a mailbox
\* message is on its way, its sender is about to ring, or the scan under way
\* will still come to it.  This holds although messages are refused by a full
\* mailbox and lost by a full kfifo, since nothing is lost but bells that
\* follow others.
NoLostWakeup ==
  \A j \in DOMAIN chart :
     Asserted(chart[j]) =>
        \/ inDev + inQueue > 0
        \/ \E s \in Senders : spc[s] = "ring"
        \/ ScanReaches(chart[j])

\* For wait_clear senders each event is a one-place box.
Box == INSTANCE EventBox
         WITH Payloads <- 1..MaxSends, Empty <- 0, open <- regMask,
              box <- [e \in Events |-> IF flag[e] THEN payload[e] ELSE 0]
IsBox == Box!Spec

\* An event the receiver listens to is acknowledged sooner or later, unless
\* the receiver has disabled Notify.
EventsServed ==
  \A e \in Events : []<>(~flag[e] \/ e \notin regMask \/ nesting > 0)

\* Every call of notify_shm_drv_send_event returns, also with no limit to the
\* polls, unless the receiver has disabled Notify or an event was flagged
\* after it was unregistered: senders then wait for its flag for ever, and
\* keep taking the gate.
SendReturns ==
  \A s \in Senders :
     []<>(spc[s] = "idle" \/ nesting > 0 \/ \E e \in Events \ regMask : flag[e])

-----------------------------------------------------------------------------
(* What comments and assertions say, and the code does not do.             *)

\* "The other side will not send this event again even though flag is down,
\* because the event is now disabled. So the payload within the eventChart
\* will not get overwritten."  (disable_event)
DisabledPayloadKept == [][cpc = "dexec" => payload'[cev] = payload[cev]]_vars

\* "If so, we should handle this event so the other core isn't left spinning
\* until the event is re-enabled"  (disable_event)
SenderNotLeftSpinning ==
  \A s \in Senders : []<>(spc[s] = "idle" \/ nesting > 0)
=============================================================================
