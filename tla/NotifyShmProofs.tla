-------------------------- MODULE NotifyShmProofs --------------------------
(***************************************************************************)
(* Proofs about the senders of NotifyShm, for any number of sender threads *)
(* and events, with wait_clear and non-waiting callers, any poll limit and *)
(* any sequence of control calls.                                          *)
(***************************************************************************)
EXTENDS NotifyShm, TLAPS

\* What the arguments below need of the types.
SenderTypes ==
  /\ sev \in [Senders -> Events]
  /\ DOMAIN swait = Senders /\ DOMAIN spc = Senders
  /\ regMask \subseteq Events
  /\ DOMAIN flag = Events
  /\ cev \in Events

\* Inductive: the gate makes the test of the flag and the write one step with
\* respect to the other senders; the receiver only ever clears flags.
SenderInv == SenderTypes /\ GateExact /\ WaitersNeverOverwrite

\* A step of the receiver: it leaves the senders alone and raises no flag.
ReceiverStep ==
  /\ UNCHANGED <<sgate, spc, sev, swait>>
  /\ DOMAIN flag' = Events
  /\ \A e \in Events : ~flag[e] => ~flag'[e]

-----------------------------------------------------------------------------
\* No step of the mailbox, of the scan or of the control thread raises a flag,
\* and the events announced are events.
LEMMA ReceiverSteps ==
  ASSUME SenderTypes,
         MailboxInterrupt \/ MailboxRefill \/ notify_shmdrv_isr_callback
         \/ CtrlGoesOn \/ CtrlCalls
  PROVE  ReceiverStep /\ regMask' \subseteq Events /\ cev' \in Events
<1> USE DEF SenderTypes, ReceiverStep, shm, bells, svars, ivars, rvars
<1>1. CASE MailboxInterrupt
  BY <1>1 DEF MailboxInterrupt
<1>2. CASE MailboxRefill
  BY <1>2 DEF MailboxRefill
<1>3. CASE notify_shmdrv_isr_callback
  <2>1. CASE IsrStart BY <2>1 DEF IsrStart
  <2>2. CASE IsrScan BY <2>2 DEF IsrScan
  <2>3. CASE IsrTake BY <2>3 DEF IsrTake
  <2>4. CASE IsrAck BY <2>4 DEF IsrAck
  <2>5. CASE IsrLock BY <2>5 DEF IsrLock
  <2>6. CASE IsrReturn BY <2>6 DEF IsrReturn
  <2> QED BY <1>3, <2>1, <2>2, <2>3, <2>4, <2>5, <2>6
          DEF notify_shmdrv_isr_callback
<1>4. CASE CtrlGoesOn
  <2>1. CASE RegisterAnnounce BY <2>1 DEF RegisterAnnounce
  <2>2. CASE UnregisterClear BY <2>2 DEF UnregisterClear
  <2>3. CASE DisableTest BY <2>3 DEF DisableTest
  <2>4. CASE DisableExec BY <2>4 DEF DisableExec
  <2>5. CASE DisableReturn BY <2>5 DEF DisableReturn
  <2>6. CASE DisableEnd BY <2>6 DEF DisableEnd
  <2> QED BY <1>4, <2>1, <2>2, <2>3, <2>4, <2>5, <2>6 DEF CtrlGoesOn
<1>5. CASE CtrlCalls
  <2>1. ASSUME NEW e \in Events, NEW kind \in Kinds, RegisterEvent(e, kind)
        PROVE  ReceiverStep /\ regMask' \subseteq Events /\ cev' \in Events
    BY <2>1 DEF RegisterEvent
  <2>2. ASSUME NEW e \in Events, UnregisterEvent(e)
        PROVE  ReceiverStep /\ regMask' \subseteq Events /\ cev' \in Events
    BY <2>2 DEF UnregisterEvent
  <2>3. ASSUME NEW e \in Events, DisableBegin(e)
        PROVE  ReceiverStep /\ regMask' \subseteq Events /\ cev' \in Events
    BY <2>3 DEF DisableBegin
  <2>4. ASSUME NEW e \in Events, notify_shm_drv_enable_event(e)
        PROVE  ReceiverStep /\ regMask' \subseteq Events /\ cev' \in Events
    BY <2>4 DEF notify_shm_drv_enable_event
  <2>5. CASE notify_disable BY <2>5 DEF notify_disable
  <2>6. CASE notify_restore BY <2>6 DEF notify_restore
  <2> HIDE DEF SenderTypes, ReceiverStep
  <2> QED BY <1>5, <2>1, <2>2, <2>3, <2>4, <2>5, <2>6 DEF CtrlCalls
<1> QED BY <1>1, <1>2, <1>3, <1>4, <1>5

\* A receiver step preserves what the senders rely on.
LEMMA ReceiverKeeps ==
  ASSUME SenderInv, ReceiverStep, regMask' \subseteq Events, cev' \in Events
  PROVE  SenderInv'
<1>1. SenderTypes'
  BY DEF SenderInv, SenderTypes, ReceiverStep
<1>2. GateExact'
  BY DEF SenderInv, GateExact, ReceiverStep
<1>3. WaitersNeverOverwrite'
  BY DEF SenderInv, SenderTypes, WaitersNeverOverwrite, ReceiverStep
<1> QED BY <1>1, <1>2, <1>3 DEF SenderInv

-----------------------------------------------------------------------------
\* A step of sender s preserves what the senders rely on: it writes or raises
\* with the gate held, so no other sender is between its test and its raise.
LEMMA SenderKeeps ==
  ASSUME SenderInv, NEW s \in Senders, notify_shm_drv_send_event(s)
  PROVE  SenderInv'
<1> USE SendersAssumption DEF SenderInv, SenderTypes, GateExact, Critical,
        WaitersNeverOverwrite, shm, bells, svars, ivars, rvars
<1>1. CASE SendStart(s)
  BY <1>1 DEF SendStart
<1>2. CASE SendInterrupted(s)
  BY <1>2 DEF SendInterrupted
<1>3. CASE SendCheckEnabled(s)
  BY <1>3 DEF SendCheckEnabled
<1>4. CASE SendLock(s)
  BY <1>4 DEF SendLock
<1>5. CASE SendPoll(s)
  BY <1>5 DEF SendPoll
<1>6. CASE SendWrite(s)
  BY <1>6 DEF SendWrite
<1>7. CASE SendRaise(s)
  BY <1>7 DEF SendRaise
<1>8. CASE SendRing(s)
  BY <1>8 DEF SendRing
<1> QED BY <1>1, <1>2, <1>3, <1>4, <1>5, <1>6, <1>7, <1>8
        DEF notify_shm_drv_send_event, SendGoesOn

-----------------------------------------------------------------------------
\* The senders' invariant holds throughout.
LEMMA SendersSafe == Spec => []SenderInv
<1>1. Init => SenderInv
  BY NumEventsAssumption, SendersAssumption
     DEF Init, SenderInv, SenderTypes, GateExact, WaitersNeverOverwrite,
         Critical, Events
<1>2. SenderInv /\ [Next]_vars => SenderInv'
  <2> SUFFICES ASSUME SenderInv, [Next]_vars PROVE SenderInv'
    OBVIOUS
  <2>1. CASE \E s \in Senders : notify_shm_drv_send_event(s)
    BY <2>1, SenderKeeps
  <2>2. CASE MailboxInterrupt \/ MailboxRefill \/ notify_shmdrv_isr_callback
             \/ CtrlGoesOn \/ CtrlCalls
    BY <2>2, ReceiverSteps, ReceiverKeeps DEF SenderInv
  <2>3. CASE UNCHANGED vars
    BY <2>3 DEF vars, shm, svars, SenderInv, SenderTypes, GateExact,
                WaitersNeverOverwrite
  <2> QED BY <2>1, <2>2, <2>3 DEF Next
<1> QED BY <1>1, <1>2, PTL DEF Spec

\* notify_shm_drv_send_event holds the gate from its lock to the unlock on
\* each of its exit paths, and one thread at a time holds it.
THEOREM GateDiscipline == Spec => []GateExact
<1>1. SenderInv => GateExact
  BY DEF SenderInv
<1> QED BY <1>1, SendersSafe, PTL

\* A caller with wait_clear never writes over an event the receiver has not
\* acknowledged, whatever the other senders and the receiver do.
THEOREM NoUnreadOverwrite == Spec => []WaitersNeverOverwrite
<1>1. SenderInv => WaitersNeverOverwrite
  BY DEF SenderInv
<1> QED BY <1>1, SendersSafe, PTL
=============================================================================
