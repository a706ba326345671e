------------------------- MODULE MailboxLifeProofs -------------------------
(***************************************************************************)
(* Proofs about the life cycle of the mailboxes, for any number of         *)
(* mailboxes, users, calls and failures: the clock runs while a mailbox is *)
(* in use, all counts agree between calls, and nobody is left to use the   *)
(* queues that omap_mbox_fini frees.                                       *)
(***************************************************************************)
EXTENDS MailboxLife, FiniteSetTheorems, TLAPS

\* ClockRuns is inductive once the handle is known to stand for an enabling:
\* mbox_ick_handle is set only after the clock was enabled, and cleared when
\* it is disabled, so the count never goes below the number of other enablings.
ClockInv ==
  /\ configured \in Int
  /\ clk \in Nat
  /\ ick \in BOOLEAN
  /\ spoiled \in BOOLEAN
  /\ ick => clk > 0
  /\ ClockRuns

\* The steps that leave mbox_configured and the clock alone.
LEMMA OtherSteps ==
  ASSUME [Next]_vars,
         ~ \E m \in Mboxes : GetFirst(m) \/ GetNext(m),
         ~ FailIrq, ~ FiniShutdown
  PROVE  UNCHANGED <<configured, clk, ick, spoiled>>
<1>1. CASE omap_mbox_get
  BY <1>1, SMT DEF omap_mbox_get, RequestIrq, AllocTxq, AllocRxq, ChainRegister,
     FailRxq, FailTxq, counts, clock
<1>2. CASE omap_mbox_put
  BY <1>2, SMT DEF omap_mbox_put, PutUnregister, FiniFreeIrq, FiniKillTasklet,
     FiniFlushWork, FiniFreeQueues, counts, clock
<1>3. ASSUME NEW m \in Mboxes,
             \/ notify_shm_drv_create(m) \/ notify_shm_drv_delete(m)
             \/ omap_mbox_msg_send(m)
             \/ __mbox_tx_interrupt(m) \/ __mbox_rx_interrupt(m)
             \/ mbox_tx_tasklet(m) \/ RxWorkStart(m)
             \/ RemoteWrite(m)
      PROVE  UNCHANGED <<configured, clk, ick, spoiled>>
  BY <1>3, SMT DEF notify_shm_drv_create, notify_shm_drv_delete,
     omap_mbox_msg_send, __mbox_tx_interrupt, __mbox_rx_interrupt,
     mbox_tx_tasklet, RxWorkStart, RemoteWrite, counts, clock
<1>4. CASE RxWorkCallback \/ RxWorkRefill
  BY <1>4, SMT DEF RxWorkCallback, RxWorkRefill, counts, clock
<1>5. CASE UNCHANGED vars
  BY <1>5 DEF vars, counts, clock
<1> QED BY <1>1, <1>2, <1>3, <1>4, <1>5 DEF Next, Control

\* Every step keeps the invariant.  A failed omap_mbox_get that stops the clock
\* of others is recorded in `spoiled'; the last user stops it when nobody else
\* is left.
LEMMA ClockInvInductive ==
  ASSUME ClockInv, [Next]_vars
  PROVE  ClockInv'
<1>t. /\ configured \in Int /\ clk \in Nat
      /\ ick \in BOOLEAN /\ spoiled \in BOOLEAN
      /\ ick => clk > 0
      /\ configured > 0 /\ ~spoiled => clk > 0 /\ ick
  BY Zenon DEF ClockInv, ClockRuns
<1>1. ASSUME NEW m \in Mboxes, GetFirst(m) PROVE ClockInv'
  <2>1. CASE HwStartup(m) /\ configured' = 1 /\ spoiled' = spoiled
    <3>1. clk' \in Nat /\ clk' > 0 /\ configured' \in Int
      BY <1>t, <2>1 DEF HwStartup
    <3>2. ick' = TRUE /\ spoiled' \in BOOLEAN
      BY <1>t, <2>1, Zenon DEF HwStartup
    <3> QED BY <3>1, <3>2, Zenon DEF ClockInv, ClockRuns
  <2>2. CASE HwStartupFails /\ UNCHANGED <<configured, spoiled>>
    <3>1. configured' \in Int /\ ~(configured' > 0) /\ clk + 1 \in Nat /\ clk + 1 > 0
      BY <1>t, <1>1, <2>2 DEF GetFirst
    <3>2. /\ spoiled' \in BOOLEAN /\ clk' \in Nat
          /\ ick' \in BOOLEAN /\ (ick' => clk' > 0)
      BY <1>t, <2>2, <3>1, Zenon DEF HwStartupFails
    <3> QED BY <3>1, <3>2, Zenon DEF ClockInv, ClockRuns
  <2> QED BY <1>1, <2>1, <2>2, Zenon DEF GetFirst
<1>2. ASSUME NEW m \in Mboxes, GetNext(m) PROVE ClockInv'
  <2>1. configured' \in Int /\ configured > 0
    BY <1>t, <1>2 DEF GetNext
  <2>2. clk' = clk /\ ick' = ick /\ spoiled' = spoiled
    BY <1>2 DEF GetNext, clock
  <2> QED BY <1>t, <2>1, <2>2, Zenon DEF ClockInv, ClockRuns
<1>d. ASSUME HwShutdown
      PROVE  clk' \in Nat /\ ick' = FALSE
  <2>1. CASE ick
    <3>1. clk' = clk - 1 /\ clk > 0
      BY <1>t, <1>d, <2>1, Zenon DEF HwShutdown
    <3> QED BY <1>t, <1>d, <3>1 DEF HwShutdown
  <2>2. CASE ~ick
    BY <1>t, <1>d, <2>2, Zenon DEF HwShutdown
  <2> QED BY <2>1, <2>2
<1>3. CASE FailIrq
  <2>1. configured' \in Int /\ (configured' > 0 => configured > 1)
    BY <1>t, <1>3 DEF FailIrq
  <2>2. spoiled' \in BOOLEAN /\ (configured' > 0 => spoiled')
    BY <1>t, <1>3, <2>1, Zenon DEF FailIrq
  <2>3. clk' \in Nat /\ ick' = FALSE
    BY <1>3, <1>d DEF FailIrq
  <2> QED BY <2>1, <2>2, <2>3, Zenon DEF ClockInv, ClockRuns
<1>4. CASE FiniShutdown
  <2>1. /\ configured' \in Int /\ (configured' > 0 => configured > 0)
        /\ (configured = 1 => ~(configured' > 0))
    BY <1>t, <1>4 DEF FiniShutdown
  <2>2. spoiled' = spoiled
    BY <1>4 DEF FiniShutdown
  <2>3. CASE configured = 1
    <3>1. clk' \in Nat /\ ick' = FALSE
      BY <1>4, <1>d, <2>3 DEF FiniShutdown
    <3> QED BY <1>t, <2>1, <2>2, <2>3, <3>1, Zenon DEF ClockInv, ClockRuns
  <2>4. CASE configured # 1
    <3>1. clk' = clk /\ ick' = ick
      BY <1>4, <2>4 DEF FiniShutdown
    <3> QED BY <1>t, <2>1, <2>2, <3>1, Zenon DEF ClockInv, ClockRuns
  <2> QED BY <2>3, <2>4
<1>5. CASE UNCHANGED <<configured, clk, ick, spoiled>>
  BY <1>5 DEF ClockInv, ClockRuns
<1> QED BY <1>1, <1>2, <1>3, <1>4, <1>5, OtherSteps

LEMMA ClockInvHolds == Spec => []ClockInv
<1>1. Init => ClockInv
  <2>1. 0 \in Int /\ 0 \in Nat /\ ~(0 > 0)
    OBVIOUS
  <2> QED BY <2>1, Zenon DEF Init, ClockInv, ClockRuns
<1> QED BY <1>1, ClockInvInductive, PTL DEF Spec

\* The clock is enabled, and the driver can disable it again, whenever some
\* mailbox is in use and no failed get has stopped it.
THEOREM ClockKeepsRunning == Spec => []ClockRuns
<1>1. ClockInv => ClockRuns
  BY DEF ClockInv
<1> QED BY <1>1, ClockInvHolds, PTL

-----------------------------------------------------------------------------
(* Counts, handlers and queues.                                            *)

LifeTypes ==
  /\ pc \in Pcs /\ cur \in Mboxes \cup {NoMbox}
  /\ pc # "idle" => cur \in Mboxes
  /\ useCount \in [Mboxes -> Nat] /\ chain \in [Mboxes -> Nat]
  /\ txq \in [Mboxes -> Pointers] /\ rxq \in [Mboxes -> Pointers]
  /\ irqs \subseteq Mboxes /\ IsFiniteSet(Users)

\* omap_mbox_startup has counted the module's user and not yet the mailbox's,
\* or omap_mbox_fini has dropped the mailbox's and not yet the module's.
ConfiguredExact ==
  configured = Cardinality(Users)
               + (IF pc \in {"use", "kill", "flush", "free", "last"} THEN 1 ELSE 0)

\* The mailbox's user is counted, its notifier block is not on the chain.
Unchained == {"txq", "rxq", "chain", "failrx", "failtx", "failirq", "fini"}

ChainLags ==
  \A m \in Mboxes :
     useCount[m] = chain[m] + (IF m = cur /\ pc \in Unchained THEN 1 ELSE 0)

\* In these states the call is about the first, or the last, user.
FirstUser == pc \in {"txq", "rxq", "failrx", "failtx", "failirq"} => useCount[cur] = 1
LastUser  == pc \in {"kill", "flush", "free"} => useCount[cur] = 0

\* Handlers and queues lag behind the count of the mailbox the call is about.
HandlersExact ==
  \A m \in Mboxes :
     m \in irqs <=> useCount[m] > 0 /\ ~(m = cur /\ pc = "failirq")
TxqExact ==
  \A m \in Mboxes :
     txq[m] = "live" <=>
       IF m = cur /\ pc \in {"txq", "failtx", "failirq"} THEN FALSE
       ELSE IF m = cur /\ pc \in {"kill", "flush", "free"} THEN TRUE
       ELSE useCount[m] > 0
RxqExact ==
  \A m \in Mboxes :
     rxq[m] = "live" <=>
       IF m = cur /\ pc \in {"txq", "rxq", "failrx", "failtx", "failirq"} THEN FALSE
       ELSE IF m = cur /\ pc \in {"kill", "flush", "free"} THEN TRUE
       ELSE useCount[m] > 0

\* Inductive: CountsExact in the middle of calls as well.
LifeInv ==
  /\ LifeTypes /\ ConfiguredExact /\ ChainLags /\ FirstUser /\ LastUser
  /\ HandlersExact /\ TxqExact /\ RxqExact

-----------------------------------------------------------------------------
(* What is left to run when queues are freed.                              *)

BottomHalfTypes ==
  /\ attached \subseteq Mboxes /\ full \subseteq Mboxes
  /\ enRx \subseteq Mboxes /\ enTx \subseteq Mboxes /\ posted \subseteq Mboxes
  /\ sched \subseteq Mboxes /\ work \subseteq Mboxes
  /\ wpc \in {"idle", "call", "refill"} /\ wcur \in Mboxes \cup {NoMbox}
  /\ wpc # "idle" => wcur \in Mboxes
  /\ gets \in 0..MaxGets /\ fails \in 0..MaxFails /\ owed \in 0..2
  /\ oops \in BOOLEAN

\* Clients leave before mailboxes are put.
ClientsGone == pc \in {"fini", "kill", "flush", "free", "last"} => attached = {}

\* A chain is called only while somebody is on it.
CalledChains == wpc = "call" => chain[wcur] > 0

\* Ends of the work of mailbox cur still to come.
Ends == (IF cur \in work THEN 1 ELSE 0) + (IF wpc # "idle" /\ wcur = cur THEN 1 ELSE 0)

\* With no handler installed, what tasklet_kill and flush_work have waited for
\* does not come back: the interrupt, the clients and the callbacks of this
\* mailbox, which could schedule it, are gone.
Quiet ==
  irqs = {} =>
    /\ pc \in {"flush", "free"} => cur \notin sched
    /\ pc = "flush" => owed = Ends
    /\ pc = "free" => Ends = 0

QuietInv == BottomHalfTypes /\ ClientsGone /\ CalledChains /\ Quiet

-----------------------------------------------------------------------------
\* One more user of mailbox c ...
LEMMA UsersGrow ==
  ASSUME useCount \in [Mboxes -> Nat], IsFiniteSet(Users), NEW c \in Mboxes,
         useCount' = [useCount EXCEPT ![c] = useCount[c] + 1]
  PROVE  IsFiniteSet(Users') /\ Cardinality(Users') = Cardinality(Users) + 1
<1> DEFINE u == <<c, useCount[c] + 1>>
<1>1. u \notin Users
  BY DEF Users
<1>2. Users' = Users \cup {u}
  <2>1. ASSUME NEW m \in Mboxes, NEW i \in 1..useCount'[m] PROVE <<m, i>> \in Users \cup {u}
    <3>1. CASE m # c \/ i <= useCount[c]
      BY <2>1, <3>1 DEF Users
    <3>2. CASE m = c /\ i > useCount[c]
      BY <2>1, <3>2
    <3> QED BY <3>1, <3>2
  <2>2. ASSUME NEW m \in Mboxes, NEW i \in 1..useCount[m] PROVE <<m, i>> \in Users'
    <3>1. i \in 1..useCount'[m]
      BY <2>2
    <3> QED BY <3>1 DEF Users
  <2>3. u \in Users'
    BY DEF Users
  <2> HIDE DEF u
  <2> QED BY <2>1, <2>2, <2>3 DEF Users
<1> HIDE DEF u
<1> QED BY <1>1, <1>2, FS_AddElement

\* ... and one less.
LEMMA UsersShrink ==
  ASSUME useCount \in [Mboxes -> Nat], IsFiniteSet(Users), NEW c \in Mboxes,
         useCount[c] > 0, useCount' = [useCount EXCEPT ![c] = useCount[c] - 1]
  PROVE  IsFiniteSet(Users') /\ Cardinality(Users') = Cardinality(Users) - 1
<1> DEFINE u == <<c, useCount[c]>>
<1>1. u \in Users
  BY DEF Users
<1>2. Users' = Users \ {u}
  <2>1. ASSUME NEW m \in Mboxes, NEW i \in 1..useCount'[m] PROVE <<m, i>> \in Users \ {u}
    <3>1. i \in 1..useCount[m] /\ ~(m = c /\ i = useCount[c])
      BY <2>1
    <3> QED BY <3>1 DEF Users
  <2>2. ASSUME NEW m \in Mboxes, NEW i \in 1..useCount[m], <<m, i>> # u
        PROVE  <<m, i>> \in Users'
    <3>1. i \in 1..useCount'[m]
      BY <2>2
    <3> QED BY <3>1 DEF Users
  <2> HIDE DEF u
  <2> QED BY <2>1, <2>2 DEF Users
<1> HIDE DEF u
<1> QED BY <1>1, <1>2, FS_RemoveElement

\* Interrupts, tasklets, works and clients leave the counts alone.
LEMMA OthersLeaveCounts ==
  ASSUME [Next]_vars, ~Control
  PROVE  UNCHANGED <<pc, cur, configured, useCount, chain, irqs, txq, rxq>>
<1>1. ASSUME NEW m \in Mboxes,
             \/ notify_shm_drv_create(m) \/ notify_shm_drv_delete(m)
             \/ omap_mbox_msg_send(m)
             \/ __mbox_tx_interrupt(m) \/ __mbox_rx_interrupt(m)
             \/ mbox_tx_tasklet(m) \/ RxWorkStart(m)
             \/ RemoteWrite(m)
      PROVE  UNCHANGED <<pc, cur, configured, useCount, chain, irqs, txq, rxq>>
  BY <1>1, SMT DEF notify_shm_drv_create, notify_shm_drv_delete,
     omap_mbox_msg_send, __mbox_tx_interrupt, __mbox_rx_interrupt,
     mbox_tx_tasklet, RxWorkStart, RemoteWrite, counts, ctrl, queues
<1>2. CASE RxWorkCallback \/ RxWorkRefill
  BY <1>2, SMT DEF RxWorkCallback, RxWorkRefill, counts, ctrl, queues
<1>3. CASE UNCHANGED vars
  BY <1>3 DEF vars, counts, ctrl, queues
<1> QED BY <1>1, <1>2, <1>3 DEF Next

\* Every step of omap_mbox_get and omap_mbox_put keeps the counts in step.
LEMMA ControlKeepsLife ==
  ASSUME LifeInv, Control
  PROVE  LifeInv'
<1>t. /\ pc \in Pcs /\ (pc # "idle" => cur \in Mboxes)
      /\ useCount \in [Mboxes -> Nat] /\ chain \in [Mboxes -> Nat]
      /\ txq \in [Mboxes -> Pointers] /\ rxq \in [Mboxes -> Pointers]
      /\ irqs \subseteq Mboxes /\ IsFiniteSet(Users) /\ Cardinality(Users) \in Nat
      /\ "live" \in Pointers /\ "freed" \in Pointers
  BY FS_CardinalityType DEF LifeInv, LifeTypes, Pointers
<1>u. useCount' = useCount => Users' = Users
  BY DEF Users
<1>i. /\ ConfiguredExact /\ ChainLags /\ FirstUser /\ LastUser
      /\ HandlersExact /\ TxqExact /\ RxqExact
  BY DEF LifeInv
<1>1. ASSUME NEW m \in Mboxes, GetFirst(m) PROVE LifeInv'
  <2>1. /\ pc = "idle" /\ pc' \in {"idle", "use"} /\ cur' = m /\ configured = 0
        /\ configured' = IF pc' = "use" THEN 1 ELSE 0
        /\ UNCHANGED <<useCount, chain, irqs, txq, rxq>>
    BY <1>1 DEF GetFirst, queues
  <2>u. Users' = Users
    BY <2>1, <1>u
  <2>2. LifeTypes' /\ ConfiguredExact'
    BY <2>1, <1>t, <1>i, <2>u DEF LifeTypes, Pcs, ConfiguredExact
  <2>3. ChainLags' /\ FirstUser' /\ LastUser'
    BY <2>1, <1>t, <1>i, <2>u DEF ChainLags, Unchained, FirstUser, LastUser
  <2>4. HandlersExact' /\ TxqExact' /\ RxqExact'
    BY <2>1, <1>t, <1>i, <2>u DEF HandlersExact, TxqExact, RxqExact, FirstUser, LastUser
  <2> QED BY <2>2, <2>3, <2>4 DEF LifeInv
<1>2. ASSUME NEW m \in Mboxes, GetNext(m) PROVE LifeInv'
  <2>1. /\ pc = "idle" /\ pc' = "use" /\ cur' = m /\ configured' = configured + 1
        /\ UNCHANGED <<useCount, chain, irqs, txq, rxq>>
    BY <1>2 DEF GetNext, queues
  <2>u. Users' = Users
    BY <2>1, <1>u
  <2>2. LifeTypes' /\ ConfiguredExact'
    BY <2>1, <1>t, <1>i, <2>u DEF LifeTypes, Pcs, ConfiguredExact
  <2>3. ChainLags' /\ FirstUser' /\ LastUser'
    BY <2>1, <1>t, <1>i, <2>u DEF ChainLags, Unchained, FirstUser, LastUser
  <2>4. HandlersExact' /\ TxqExact' /\ RxqExact'
    BY <2>1, <1>t, <1>i, <2>u DEF HandlersExact, TxqExact, RxqExact, FirstUser, LastUser
  <2> QED BY <2>2, <2>3, <2>4 DEF LifeInv
<1>3. CASE RequestIrq
  <2>1. /\ pc = "use" /\ cur' = cur /\ configured' = configured
        /\ useCount' = [useCount EXCEPT ![cur] = useCount[cur] + 1]
        /\ \/ useCount[cur] > 0 /\ pc' = "chain" /\ irqs' = irqs
           \/ useCount[cur] = 0 /\ pc' = "txq" /\ irqs' = irqs \cup {cur}
           \/ useCount[cur] = 0 /\ pc' = "failirq" /\ irqs' = irqs
        /\ UNCHANGED <<chain, txq, rxq>>
    BY <1>3 DEF RequestIrq
  <2>u. IsFiniteSet(Users') /\ Cardinality(Users') = Cardinality(Users) + 1
    BY <2>1, <1>t, UsersGrow
  <2>2. LifeTypes' /\ ConfiguredExact'
    BY <2>1, <1>t, <1>i, <2>u DEF LifeTypes, Pcs, ConfiguredExact
  <2>3. ChainLags' /\ FirstUser' /\ LastUser'
    BY <2>1, <1>t, <1>i, <2>u DEF ChainLags, Unchained, FirstUser, LastUser
  <2>4. HandlersExact' /\ TxqExact' /\ RxqExact'
    BY <2>1, <1>t, <1>i, <2>u DEF HandlersExact, TxqExact, RxqExact, FirstUser, LastUser
  <2> QED BY <2>2, <2>3, <2>4 DEF LifeInv
<1>4. CASE AllocTxq
  <2>1. /\ pc = "txq" /\ cur' = cur
        /\ \/ txq' = [txq EXCEPT ![cur] = "live"] /\ pc' = "rxq"
           \/ pc' = "failtx" /\ txq' = txq
        /\ UNCHANGED <<configured, useCount, chain, irqs, rxq>>
    BY <1>4 DEF AllocTxq, counts
  <2>u. Users' = Users
    BY <2>1, <1>u
  <2>2. LifeTypes' /\ ConfiguredExact'
    BY <2>1, <1>t, <1>i, <2>u DEF LifeTypes, Pcs, ConfiguredExact
  <2>3. ChainLags' /\ FirstUser' /\ LastUser'
    BY <2>1, <1>t, <1>i, <2>u DEF ChainLags, Unchained, FirstUser, LastUser
  <2>4. HandlersExact' /\ TxqExact' /\ RxqExact'
    BY <2>1, <1>t, <1>i, <2>u DEF HandlersExact, TxqExact, RxqExact, FirstUser, LastUser
  <2> QED BY <2>2, <2>3, <2>4 DEF LifeInv
<1>5. CASE AllocRxq
  <2>1. /\ pc = "rxq" /\ cur' = cur
        /\ \/ rxq' = [rxq EXCEPT ![cur] = "live"] /\ pc' = "chain"
           \/ pc' = "failrx" /\ rxq' = rxq
        /\ UNCHANGED <<configured, useCount, chain, irqs, txq>>
    BY <1>5 DEF AllocRxq, counts
  <2>u. Users' = Users
    BY <2>1, <1>u
  <2>2. LifeTypes' /\ ConfiguredExact'
    BY <2>1, <1>t, <1>i, <2>u DEF LifeTypes, Pcs, ConfiguredExact
  <2>3. ChainLags' /\ FirstUser' /\ LastUser'
    BY <2>1, <1>t, <1>i, <2>u DEF ChainLags, Unchained, FirstUser, LastUser
  <2>4. HandlersExact' /\ TxqExact' /\ RxqExact'
    BY <2>1, <1>t, <1>i, <2>u DEF HandlersExact, TxqExact, RxqExact, FirstUser, LastUser
  <2> QED BY <2>2, <2>3, <2>4 DEF LifeInv
<1>6. CASE ChainRegister
  <2>1. /\ pc = "chain" /\ cur' = cur /\ pc' = "idle"
        /\ chain' = [chain EXCEPT ![cur] = chain[cur] + 1]
        /\ UNCHANGED <<configured, useCount, irqs, txq, rxq>>
    BY <1>6 DEF ChainRegister, queues
  <2>u. Users' = Users
    BY <2>1, <1>u
  <2>2. LifeTypes' /\ ConfiguredExact'
    BY <2>1, <1>t, <1>i, <2>u DEF LifeTypes, Pcs, ConfiguredExact
  <2>3. ChainLags' /\ FirstUser' /\ LastUser'
    BY <2>1, <1>t, <1>i, <2>u DEF ChainLags, Unchained, FirstUser, LastUser
  <2>4. HandlersExact' /\ TxqExact' /\ RxqExact'
    BY <2>1, <1>t, <1>i, <2>u DEF HandlersExact, TxqExact, RxqExact, FirstUser, LastUser
  <2> QED BY <2>2, <2>3, <2>4 DEF LifeInv
<1>7. CASE FailRxq
  <2>1. /\ pc = "failrx" /\ cur' = cur /\ pc' = "failtx"
        /\ txq' = [txq EXCEPT ![cur] = "freed"]
        /\ UNCHANGED <<configured, useCount, chain, irqs, rxq>>
    BY <1>7 DEF FailRxq, counts
  <2>u. Users' = Users
    BY <2>1, <1>u
  <2>2. LifeTypes' /\ ConfiguredExact'
    BY <2>1, <1>t, <1>i, <2>u DEF LifeTypes, Pcs, ConfiguredExact
  <2>3. ChainLags' /\ FirstUser' /\ LastUser'
    BY <2>1, <1>t, <1>i, <2>u DEF ChainLags, Unchained, FirstUser, LastUser
  <2>4. HandlersExact' /\ TxqExact' /\ RxqExact'
    BY <2>1, <1>t, <1>i, <2>u DEF HandlersExact, TxqExact, RxqExact, FirstUser, LastUser
  <2> QED BY <2>2, <2>3, <2>4 DEF LifeInv
<1>8. CASE FailTxq
  <2>1. /\ pc = "failtx" /\ cur' = cur /\ pc' = "failirq" /\ irqs' = irqs \ {cur}
        /\ UNCHANGED <<configured, useCount, chain, txq, rxq>>
    BY <1>8 DEF FailTxq, counts
  <2>u. Users' = Users
    BY <2>1, <1>u
  <2>2. LifeTypes' /\ ConfiguredExact'
    BY <2>1, <1>t, <1>i, <2>u DEF LifeTypes, Pcs, ConfiguredExact
  <2>3. ChainLags' /\ FirstUser' /\ LastUser'
    BY <2>1, <1>t, <1>i, <2>u DEF ChainLags, Unchained, FirstUser, LastUser
  <2>4. HandlersExact' /\ TxqExact' /\ RxqExact'
    BY <2>1, <1>t, <1>i, <2>u DEF HandlersExact, TxqExact, RxqExact, FirstUser, LastUser
  <2> QED BY <2>2, <2>3, <2>4 DEF LifeInv
<1>9. CASE FailIrq
  <2>1. /\ pc = "failirq" /\ cur' = cur /\ pc' = "idle" /\ configured' = configured - 1
        /\ useCount' = [useCount EXCEPT ![cur] = useCount[cur] - 1]
        /\ UNCHANGED <<chain, irqs, txq, rxq>>
    BY <1>9 DEF FailIrq, queues
  <2>p. useCount[cur] > 0
    BY <2>1, <1>t, <1>i DEF FirstUser
  <2>u. IsFiniteSet(Users') /\ Cardinality(Users') = Cardinality(Users) - 1
    BY <2>1, <1>t, <2>p, UsersShrink
  <2>2. LifeTypes' /\ ConfiguredExact'
    BY <2>1, <1>t, <1>i, <2>u, <2>p DEF LifeTypes, Pcs, ConfiguredExact
  <2>3. ChainLags' /\ FirstUser' /\ LastUser'
    BY <2>1, <1>t, <1>i, <2>u, <2>p DEF ChainLags, Unchained, FirstUser, LastUser
  <2>4. HandlersExact' /\ TxqExact' /\ RxqExact'
    BY <2>1, <1>t, <1>i, <2>u, <2>p DEF HandlersExact, TxqExact, RxqExact, FirstUser, LastUser
  <2> QED BY <2>2, <2>3, <2>4 DEF LifeInv
<1>10. ASSUME NEW m \in Mboxes, PutUnregister(m) PROVE LifeInv'
  <2>1. /\ pc = "idle" /\ pc' = "fini" /\ cur' = m /\ chain[m] > 0
        /\ chain' = [chain EXCEPT ![m] = chain[m] - 1]
        /\ UNCHANGED <<configured, useCount, irqs, txq, rxq>>
    BY <1>10 DEF PutUnregister, queues
  <2>u. Users' = Users
    BY <2>1, <1>u
  <2>2. LifeTypes' /\ ConfiguredExact'
    BY <2>1, <1>t, <1>i, <2>u DEF LifeTypes, Pcs, ConfiguredExact
  <2>3. ChainLags' /\ FirstUser' /\ LastUser'
    BY <2>1, <1>t, <1>i, <2>u DEF ChainLags, Unchained, FirstUser, LastUser
  <2>4. HandlersExact' /\ TxqExact' /\ RxqExact'
    BY <2>1, <1>t, <1>i, <2>u DEF HandlersExact, TxqExact, RxqExact, FirstUser, LastUser
  <2> QED BY <2>2, <2>3, <2>4 DEF LifeInv
<1>11. CASE FiniFreeIrq
  <2>1. /\ pc = "fini" /\ cur' = cur /\ configured' = configured
        /\ useCount' = [useCount EXCEPT ![cur] = useCount[cur] - 1]
        /\ \/ useCount[cur] = 1 /\ irqs' = irqs \ {cur} /\ pc' = "kill"
           \/ useCount[cur] # 1 /\ irqs' = irqs /\ pc' = "last"
        /\ UNCHANGED <<chain, txq, rxq>>
    BY <1>11 DEF FiniFreeIrq
  <2>p. useCount[cur] > 0
    BY <2>1, <1>t, <1>i DEF ChainLags, Unchained
  <2>u. IsFiniteSet(Users') /\ Cardinality(Users') = Cardinality(Users) - 1
    BY <2>1, <1>t, <2>p, UsersShrink
  <2>2. LifeTypes' /\ ConfiguredExact'
    BY <2>1, <1>t, <1>i, <2>u, <2>p DEF LifeTypes, Pcs, ConfiguredExact
  <2>3. ChainLags' /\ FirstUser' /\ LastUser'
    BY <2>1, <1>t, <1>i, <2>u, <2>p DEF ChainLags, Unchained, FirstUser, LastUser
  <2>4. HandlersExact' /\ TxqExact' /\ RxqExact'
    BY <2>1, <1>t, <1>i, <2>u, <2>p DEF HandlersExact, TxqExact, RxqExact, FirstUser, LastUser
  <2> QED BY <2>2, <2>3, <2>4 DEF LifeInv
<1>12. CASE FiniKillTasklet
  <2>1. /\ pc = "kill" /\ pc' = "flush" /\ cur' = cur
        /\ UNCHANGED <<configured, useCount, chain, irqs, txq, rxq>>
    BY <1>12 DEF FiniKillTasklet, counts, queues
  <2>u. Users' = Users
    BY <2>1, <1>u
  <2>2. LifeTypes' /\ ConfiguredExact'
    BY <2>1, <1>t, <1>i, <2>u DEF LifeTypes, Pcs, ConfiguredExact
  <2>3. ChainLags' /\ FirstUser' /\ LastUser'
    BY <2>1, <1>t, <1>i, <2>u DEF ChainLags, Unchained, FirstUser, LastUser
  <2>4. HandlersExact' /\ TxqExact' /\ RxqExact'
    BY <2>1, <1>t, <1>i, <2>u DEF HandlersExact, TxqExact, RxqExact, FirstUser, LastUser
  <2> QED BY <2>2, <2>3, <2>4 DEF LifeInv
<1>13. CASE FiniFlushWork
  <2>1. /\ pc = "flush" /\ pc' = "free" /\ cur' = cur
        /\ UNCHANGED <<configured, useCount, chain, irqs, txq, rxq>>
    BY <1>13 DEF FiniFlushWork, counts, queues
  <2>u. Users' = Users
    BY <2>1, <1>u
  <2>2. LifeTypes' /\ ConfiguredExact'
    BY <2>1, <1>t, <1>i, <2>u DEF LifeTypes, Pcs, ConfiguredExact
  <2>3. ChainLags' /\ FirstUser' /\ LastUser'
    BY <2>1, <1>t, <1>i, <2>u DEF ChainLags, Unchained, FirstUser, LastUser
  <2>4. HandlersExact' /\ TxqExact' /\ RxqExact'
    BY <2>1, <1>t, <1>i, <2>u DEF HandlersExact, TxqExact, RxqExact, FirstUser, LastUser
  <2> QED BY <2>2, <2>3, <2>4 DEF LifeInv
<1>14. CASE FiniFreeQueues
  <2>1. /\ pc = "free" /\ pc' = "last" /\ cur' = cur
        /\ txq' = [txq EXCEPT ![cur] = "freed"] /\ rxq' = [rxq EXCEPT ![cur] = "freed"]
        /\ UNCHANGED <<configured, useCount, chain, irqs>>
    BY <1>14 DEF FiniFreeQueues, counts
  <2>u. Users' = Users
    BY <2>1, <1>u
  <2>2. LifeTypes' /\ ConfiguredExact'
    BY <2>1, <1>t, <1>i, <2>u DEF LifeTypes, Pcs, ConfiguredExact
  <2>3. ChainLags' /\ FirstUser' /\ LastUser'
    BY <2>1, <1>t, <1>i, <2>u DEF ChainLags, Unchained, FirstUser, LastUser
  <2>4. HandlersExact' /\ TxqExact' /\ RxqExact'
    BY <2>1, <1>t, <1>i, <2>u DEF HandlersExact, TxqExact, RxqExact, FirstUser, LastUser
  <2> QED BY <2>2, <2>3, <2>4 DEF LifeInv
<1>15. CASE FiniShutdown
  <2>1. /\ pc = "last" /\ pc' = "idle" /\ cur' = cur /\ configured' = configured - 1
        /\ UNCHANGED <<useCount, chain, irqs, txq, rxq>>
    BY <1>15 DEF FiniShutdown, queues
  <2>u. Users' = Users
    BY <2>1, <1>u
  <2>2. LifeTypes' /\ ConfiguredExact'
    BY <2>1, <1>t, <1>i, <2>u DEF LifeTypes, Pcs, ConfiguredExact
  <2>3. ChainLags' /\ FirstUser' /\ LastUser'
    BY <2>1, <1>t, <1>i, <2>u DEF ChainLags, Unchained, FirstUser, LastUser
  <2>4. HandlersExact' /\ TxqExact' /\ RxqExact'
    BY <2>1, <1>t, <1>i, <2>u DEF HandlersExact, TxqExact, RxqExact, FirstUser, LastUser
  <2> QED BY <2>2, <2>3, <2>4 DEF LifeInv
<1> QED BY <1>1, <1>2, <1>3, <1>4, <1>5, <1>6, <1>7, <1>8, <1>9, <1>10, <1>11, <1>12, <1>13, <1>14, <1>15
        DEF Control, omap_mbox_get, omap_mbox_put

LEMMA LifeInvHolds == Spec => []LifeInv
<1>1. Init => LifeInv
  <2> SUFFICES ASSUME Init PROVE LifeInv
    OBVIOUS
  <2>1. Users = {}
    BY DEF Init, Users
  <2>2. IsFiniteSet(Users) /\ Cardinality(Users) = 0
    BY <2>1, FS_EmptySet
  <2>3. LifeTypes /\ ConfiguredExact
    BY <2>2 DEF Init, LifeTypes, ConfiguredExact, Pcs, Pointers
  <2>4. ChainLags /\ FirstUser /\ LastUser /\ HandlersExact /\ TxqExact /\ RxqExact
    BY DEF Init, ChainLags, Unchained, FirstUser, LastUser, HandlersExact, TxqExact, RxqExact
  <2> QED BY <2>3, <2>4 DEF LifeInv
<1>2. LifeInv /\ [Next]_vars => LifeInv'
  <2> SUFFICES ASSUME LifeInv, [Next]_vars PROVE LifeInv'
    OBVIOUS
  <2>1. CASE Control
    BY <2>1, ControlKeepsLife
  <2>2. CASE ~Control
    <3>1. UNCHANGED <<pc, cur, configured, useCount, chain, irqs, txq, rxq>>
      BY <2>2, OthersLeaveCounts
    <3> QED BY <3>1 DEF LifeInv, LifeTypes, ConfiguredExact, ChainLags, Unchained,
                    FirstUser, LastUser, HandlersExact, TxqExact, RxqExact, Users
  <2> QED BY <2>1, <2>2
<1> QED BY <1>1, <1>2, PTL DEF Spec

\* Between calls, whatever failed in earlier ones, mbox_configured counts the
\* users of all mailboxes, and each mailbox has its handler, its queues and a
\* notifier block for each user exactly while it has users.
THEOREM CountsAreExact == Spec => []CountsExact
<1>1. LifeInv => CountsExact
  <2> SUFFICES ASSUME LifeInv, pc = "idle"
               PROVE  /\ configured = Cardinality(Users)
                      /\ \A m \in Mboxes :
                           /\ chain[m] = useCount[m]
                           /\ useCount[m] > 0 <=> m \in irqs
                           /\ useCount[m] > 0 <=> txq[m] = "live"
                           /\ useCount[m] > 0 <=> rxq[m] = "live"
    BY DEF CountsExact
  <2>1. configured = Cardinality(Users)
    BY FS_CardinalityType DEF LifeInv, LifeTypes, ConfiguredExact
  <2>2. \A m \in Mboxes : chain[m] = useCount[m]
    BY DEF LifeInv, LifeTypes, ChainLags, Unchained
  <2>3. \A m \in Mboxes : /\ useCount[m] > 0 <=> m \in irqs
                          /\ useCount[m] > 0 <=> txq[m] = "live"
                          /\ useCount[m] > 0 <=> rxq[m] = "live"
    BY DEF LifeInv, HandlersExact, TxqExact, RxqExact
  <2> QED BY <2>1, <2>2, <2>3
<1> QED BY <1>1, LifeInvHolds, PTL

-----------------------------------------------------------------------------
\* Types of the bottom half and of the bounds.
LEMMA BottomHalfTypesStep ==
  ASSUME BottomHalfTypes, LifeInv, [Next]_vars
  PROVE  BottomHalfTypes'
<1>t. MaxGets \in Nat /\ MaxFails \in Nat
  BY LifeBounds
<1>c. pc # "idle" => cur \in Mboxes
  BY DEF LifeInv, LifeTypes
<1> USE <1>t DEF BottomHalfTypes
<1>1. ASSUME NEW m \in Mboxes, GetFirst(m) PROVE BottomHalfTypes'
  BY <1>1 DEF GetFirst, HwStartup, HwStartupFails, MayFail, bh
<1>2. ASSUME NEW m \in Mboxes, GetNext(m) PROVE BottomHalfTypes'
  BY <1>2 DEF GetNext, mask, bh
<1>3. CASE RequestIrq
  BY <1>3 DEF RequestIrq, MayFail, mask, bh
<1>4. CASE AllocTxq
  BY <1>4 DEF AllocTxq, MayFail, counts, mask, bh
<1>5. CASE AllocRxq
  BY <1>5 DEF AllocRxq, MayFail, counts, mask
<1>6. CASE ChainRegister \/ FailRxq \/ FailTxq
  BY <1>6 DEF ChainRegister, FailRxq, FailTxq, counts, mask, bh
<1>7. CASE FailIrq \/ FiniShutdown
  BY <1>7 DEF FailIrq, FiniShutdown, mask, bh
<1>8. ASSUME NEW m \in Mboxes, PutUnregister(m) PROVE BottomHalfTypes'
  BY <1>8 DEF PutUnregister, mask, bh
<1>9. CASE FiniFreeIrq \/ FiniFlushWork \/ FiniFreeQueues
  BY <1>9 DEF FiniFreeIrq, FiniFlushWork, FiniFreeQueues, counts, mask, bh
<1>10. CASE FiniKillTasklet
  BY <1>10 DEF FiniKillTasklet, counts, mask, bh
<1>11. ASSUME NEW m \in Mboxes,
              notify_shm_drv_create(m) \/ notify_shm_drv_delete(m) \/ omap_mbox_msg_send(m)
       PROVE  BottomHalfTypes'
  BY <1>11 DEF notify_shm_drv_create, notify_shm_drv_delete, omap_mbox_msg_send,
               ctrl, counts, mask, bh
<1>12. ASSUME NEW m \in Mboxes, __mbox_tx_interrupt(m) \/ mbox_tx_tasklet(m)
       PROVE  BottomHalfTypes'
  BY <1>12 DEF __mbox_tx_interrupt, mbox_tx_tasklet, Use, ctrl, counts
<1>13. ASSUME NEW m \in Mboxes, __mbox_rx_interrupt(m) PROVE BottomHalfTypes'
  BY <1>13 DEF __mbox_rx_interrupt, Use, ctrl, counts
<1>14. ASSUME NEW m \in Mboxes, RxWorkStart(m) PROVE BottomHalfTypes'
  BY <1>14 DEF RxWorkStart, WorkNotifies, Use, ctrl, counts, mask
<1>15. ASSUME NEW m \in Mboxes, RemoteWrite(m) PROVE BottomHalfTypes'
  BY <1>15 DEF RemoteWrite, ctrl, counts, mask, bh
<1>16. CASE RxWorkCallback
  BY <1>16 DEF RxWorkCallback, Use, ctrl, counts, mask
<1>17. CASE RxWorkRefill
  BY <1>17 DEF RxWorkRefill, WorkNotifies, Use, counts
<1>18. CASE UNCHANGED vars
  BY <1>18 DEF vars, ctrl, counts, mask, bh
<1> HIDE DEF BottomHalfTypes
<1> QED BY <1>1, <1>2, <1>3, <1>4, <1>5, <1>6, <1>7, <1>8, <1>9, <1>10, <1>11, <1>12,
           <1>13, <1>14, <1>15, <1>16, <1>17, <1>18
        DEF Next, Control, omap_mbox_get, omap_mbox_put

\* Control steps other than those of omap_mbox_fini leave Quiet nothing to say;
\* in omap_mbox_fini, tasklet_kill and flush_work establish it.
LEMMA ControlKeepsQuiet ==
  ASSUME QuietInv, LifeInv, Control
  PROVE  ClientsGone' /\ CalledChains' /\ Quiet'
<1>t. /\ BottomHalfTypes /\ ClientsGone /\ CalledChains /\ Quiet
      /\ chain \in [Mboxes -> Nat] /\ (pc # "idle" => cur \in Mboxes)
  BY DEF QuietInv, LifeInv, LifeTypes
<1>u. UNCHANGED <<attached, sched, work, wpc, wcur>>
  BY SMT DEF Control, omap_mbox_get, omap_mbox_put, GetFirst, GetNext, RequestIrq,
     AllocTxq, AllocRxq, ChainRegister, FailRxq, FailTxq, FailIrq, PutUnregister,
     FiniFreeIrq, FiniKillTasklet, FiniFlushWork, FiniFreeQueues, FiniShutdown, counts, bh
<1>n. ASSUME chain' = chain, pc' \notin {"flush", "free"},
             pc' \in {"fini", "kill", "flush", "free", "last"} =>
               pc \in {"fini", "kill", "flush", "free", "last"}
      PROVE  ClientsGone' /\ CalledChains' /\ Quiet'
  BY <1>n, <1>t, <1>u DEF ClientsGone, CalledChains, Quiet
<1>1. ASSUME NEW m \in Mboxes, GetFirst(m) PROVE ClientsGone' /\ CalledChains' /\ Quiet'
  BY <1>1, <1>n DEF GetFirst
<1>2. ASSUME NEW m \in Mboxes, GetNext(m) PROVE ClientsGone' /\ CalledChains' /\ Quiet'
  BY <1>2, <1>n DEF GetNext
<1>3. CASE RequestIrq \/ AllocTxq \/ AllocRxq
  BY <1>3, <1>n DEF RequestIrq, AllocTxq, AllocRxq, counts
<1>4. CASE FailRxq \/ FailTxq \/ FailIrq
  BY <1>4, <1>n DEF FailRxq, FailTxq, FailIrq, counts
<1>5. CASE FiniFreeIrq \/ FiniFreeQueues \/ FiniShutdown
  BY <1>5, <1>n DEF FiniFreeIrq, FiniFreeQueues, FiniShutdown, counts
<1>6. CASE ChainRegister
  <2>1. /\ pc' = "idle" /\ chain' = [chain EXCEPT ![cur] = chain[cur] + 1]
        /\ cur \in Mboxes
    BY <1>6, <1>t DEF ChainRegister
  <2>2. CalledChains'
    BY <2>1, <1>t, <1>u DEF CalledChains, BottomHalfTypes
  <2> QED BY <2>1, <2>2 DEF ClientsGone, Quiet
<1>7. ASSUME NEW m \in Mboxes, PutUnregister(m) PROVE ClientsGone' /\ CalledChains' /\ Quiet'
  <2>1. /\ pc' = "fini" /\ chain' = [chain EXCEPT ![m] = chain[m] - 1]
        /\ attached = {} /\ ~(wpc = "call" /\ wcur = m)
    BY <1>7 DEF PutUnregister, InChain
  <2>2. CalledChains'
    BY <2>1, <1>t, <1>u DEF CalledChains, BottomHalfTypes
  <2> QED BY <2>1, <2>2, <1>u DEF ClientsGone, Quiet
<1>8. CASE FiniKillTasklet
  <2>1. /\ pc = "kill" /\ pc' = "flush" /\ cur' = cur /\ chain' = chain
        /\ cur \notin sched /\ owed' = Ends
    BY <1>8 DEF FiniKillTasklet, counts, Ends
  <2>2. Ends' = Ends
    BY <2>1, <1>u DEF Ends
  <2> QED BY <2>1, <2>2, <1>t, <1>u DEF ClientsGone, CalledChains, Quiet
<1>9. CASE FiniFlushWork
  <2>1. /\ pc = "flush" /\ pc' = "free" /\ cur' = cur /\ chain' = chain
        /\ owed = 0 /\ irqs' = irqs
    BY <1>9 DEF FiniFlushWork, counts, queues
  <2>2. Ends' = Ends
    BY <2>1, <1>u DEF Ends
  <2> QED BY <2>1, <2>2, <1>t, <1>u DEF ClientsGone, CalledChains, Quiet
<1> QED BY <1>1, <1>2, <1>3, <1>4, <1>5, <1>6, <1>7, <1>8, <1>9
        DEF Control, omap_mbox_get, omap_mbox_put

\* Nobody else can schedule the tasklet or queue the work of a mailbox whose
\* last user is leaving, once no handler is installed.
LEMMA OthersKeepQuiet ==
  ASSUME QuietInv, LifeInv, [Next]_vars, ~Control
  PROVE  ClientsGone' /\ CalledChains' /\ Quiet'
<1>t. /\ BottomHalfTypes /\ ClientsGone /\ CalledChains /\ Quiet
      /\ chain \in [Mboxes -> Nat] /\ (pc # "idle" => cur \in Mboxes)
      /\ owed \in 0..2
  BY DEF QuietInv, LifeInv, LifeTypes, BottomHalfTypes
<1>l. pc \in {"kill", "flush", "free"} => chain[cur] = 0 /\ ~(wpc = "call" /\ wcur = cur)
  <2>1. pc \in {"kill", "flush", "free"} => useCount[cur] = chain[cur] /\ useCount[cur] = 0
    BY <1>t DEF LifeInv, LifeTypes, ChainLags, Unchained, LastUser
  <2> QED BY <2>1, <1>t DEF CalledChains
<1>u. UNCHANGED <<pc, cur, configured, useCount, chain, irqs, txq, rxq>>
  BY OthersLeaveCounts
<1>n. ASSUME UNCHANGED <<attached, sched, work, wpc, wcur, owed>>
      PROVE  ClientsGone' /\ CalledChains' /\ Quiet'
  BY <1>n, <1>t, <1>u DEF ClientsGone, CalledChains, Quiet, Ends
<1>s. ASSUME UNCHANGED <<attached, work, wpc, wcur, owed>>,
             pc \in {"flush", "free"} /\ irqs = {} /\ cur \notin sched => cur \notin sched'
      PROVE  ClientsGone' /\ CalledChains' /\ Quiet'
  <2>1. Ends' = Ends
    BY <1>s, <1>u DEF Ends
  <2> QED BY <1>s, <1>t, <1>u, <2>1 DEF ClientsGone, CalledChains, Quiet
<1>1. ASSUME NEW m \in Mboxes, notify_shm_drv_create(m) \/ notify_shm_drv_delete(m)
      PROVE  ClientsGone' /\ CalledChains' /\ Quiet'
  BY <1>1, <1>u DEF notify_shm_drv_create, notify_shm_drv_delete, ClientsGone,
     CalledChains, Quiet, QuietInv, bh
<1>2. ASSUME NEW m \in Mboxes, omap_mbox_msg_send(m)
      PROVE  ClientsGone' /\ CalledChains' /\ Quiet'
  <2>1. pc \notin {"flush", "free"}
    BY <1>2, <1>t DEF omap_mbox_msg_send, ClientsGone
  <2> QED BY <2>1, <1>2, <1>s DEF omap_mbox_msg_send, ctrl, counts
<1>3. ASSUME NEW m \in Mboxes, __mbox_tx_interrupt(m)
      PROVE  ClientsGone' /\ CalledChains' /\ Quiet'
  BY <1>3, <1>s DEF __mbox_tx_interrupt, ctrl, counts
<1>4. ASSUME NEW m \in Mboxes, __mbox_rx_interrupt(m)
      PROVE  ClientsGone' /\ CalledChains' /\ Quiet'
  <2>1. irqs # {} /\ UNCHANGED <<attached, wpc, wcur>>
    BY <1>4 DEF __mbox_rx_interrupt, counts
  <2> QED BY <2>1, <1>t, <1>u DEF ClientsGone, CalledChains, Quiet
<1>5. ASSUME NEW m \in Mboxes, mbox_tx_tasklet(m)
      PROVE  ClientsGone' /\ CalledChains' /\ Quiet'
  BY <1>5, <1>s DEF mbox_tx_tasklet, ctrl, counts
<1>6. ASSUME NEW m \in Mboxes, RxWorkStart(m)
      PROVE  ClientsGone' /\ CalledChains' /\ Quiet'
  <2>1. /\ wpc = "idle" /\ m \in work /\ work' = work \ {m} /\ wcur' = m
        /\ wpc' = (IF chain[m] > 0 THEN "call" ELSE "refill")
        /\ UNCHANGED <<attached, sched, owed>>
    BY <1>6 DEF RxWorkStart, WorkNotifies, ctrl, counts
  <2>2. Ends' = Ends
    BY <2>1, <1>u DEF Ends
  <2>3. CalledChains'
    BY <2>1, <1>u DEF CalledChains
  <2> QED BY <2>1, <2>2, <2>3, <1>t, <1>u DEF ClientsGone, Quiet
<1>7. ASSUME NEW m \in Mboxes, RemoteWrite(m)
      PROVE  ClientsGone' /\ CalledChains' /\ Quiet'
  BY <1>7, <1>n DEF RemoteWrite, ctrl, counts, bh
<1>8. CASE RxWorkCallback
  <2>1. /\ wpc = "call" /\ wpc' = "refill" /\ sched' \subseteq sched \cup {wcur}
        /\ UNCHANGED <<attached, work, wcur, owed>>
    BY <1>8 DEF RxWorkCallback, ctrl, counts
  <2>2. Ends' = Ends
    BY <2>1, <1>u DEF Ends
  <2>3. pc \in {"flush", "free"} => wcur # cur
    BY <2>1, <1>l
  <2> QED BY <2>1, <2>2, <2>3, <1>t, <1>u DEF ClientsGone, CalledChains, Quiet
<1>9. CASE RxWorkRefill
  <2>1. wpc = "refill" /\ UNCHANGED <<attached, sched, work>>
    BY <1>9 DEF RxWorkRefill, counts
  <2>2. CASE WorkNotifies(wcur) /\ UNCHANGED <<wcur, owed>>
    <3>1. wpc' = (IF chain[wcur] > 0 THEN "call" ELSE "refill")
      BY <2>2 DEF WorkNotifies
    <3>2. Ends' = Ends
      BY <2>1, <2>2, <3>1, <1>u DEF Ends
    <3> QED BY <2>1, <2>2, <3>1, <3>2, <1>t, <1>u DEF ClientsGone, CalledChains, Quiet
  <2>3. CASE /\ wpc' = "idle" /\ wcur' = NoMbox
             /\ owed' = IF pc = "flush" /\ wcur = cur /\ owed > 0 THEN owed - 1 ELSE owed
    <3>1. Ends' = IF wcur = cur THEN Ends - 1 ELSE Ends
      BY <2>1, <2>3, <1>u DEF Ends
    <3>2. Ends \in Nat /\ (wcur = cur => Ends > 0)
      BY <2>1 DEF Ends
    <3>3. pc = "flush" /\ irqs = {} => owed' = Ends'
      BY <2>3, <3>1, <3>2, <1>t DEF Quiet
    <3>4. pc = "free" /\ irqs = {} => Ends' = 0
      BY <3>1, <3>2, <1>t DEF Quiet
    <3> QED BY <2>1, <2>3, <3>3, <3>4, <1>t, <1>u DEF ClientsGone, CalledChains, Quiet
  <2> QED BY <1>9, <2>2, <2>3 DEF RxWorkRefill
<1>10. CASE UNCHANGED vars
  BY <1>10, <1>n DEF vars, ctrl, counts, bh
<1> QED BY <1>1, <1>2, <1>3, <1>4, <1>5, <1>6, <1>7, <1>8, <1>9, <1>10 DEF Next

LEMMA QuietInvHolds == Spec => []QuietInv
<1>1. Init => QuietInv
  <2> SUFFICES ASSUME Init PROVE QuietInv
    OBVIOUS
  <2>1. gets \in 0..MaxGets /\ fails \in 0..MaxFails /\ owed \in 0..2
    BY LifeBounds DEF Init
  <2>2. BottomHalfTypes
    BY <2>1 DEF Init, BottomHalfTypes
  <2>3. ClientsGone /\ CalledChains /\ Quiet
    BY DEF Init, ClientsGone, CalledChains, Quiet
  <2> QED BY <2>2, <2>3 DEF QuietInv
<1>2. QuietInv /\ LifeInv /\ [Next]_vars => QuietInv'
  BY BottomHalfTypesStep, ControlKeepsQuiet, OthersKeepQuiet DEF QuietInv
<1> QED BY <1>1, <1>2, LifeInvHolds, PTL DEF Spec

\* When omap_mbox_fini frees the queues of the last mailbox that has a handler,
\* its tasklet is not scheduled and its work neither queued nor running, and
\* flush_work has not been outrun by a work queued again.
THEOREM FreedWhenQuiet == Spec => []QuiescedWhenFreed
<1>1. QuietInv => QuiescedWhenFreed
  BY DEF QuietInv, Quiet, QuiescedWhenFreed, Ends
<1> QED BY <1>1, QuietInvHolds, PTL

\* Types; in particular no count becomes negative on any error path.
THEOREM TypeCorrect == Spec => []TypeOK
<1>1. QuietInv /\ LifeInv /\ ClockInv => TypeOK
  <2> SUFFICES ASSUME QuietInv, LifeInv, ClockInv PROVE TypeOK
    OBVIOUS
  <2>1. configured \in Nat /\ clk \in Nat /\ ick \in BOOLEAN /\ spoiled \in BOOLEAN
    <3>1. Cardinality(Users) \in Nat
      BY FS_CardinalityType DEF LifeInv, LifeTypes
    <3>2. configured \in Nat
      BY <3>1 DEF LifeInv, ConfiguredExact
    <3> QED BY <3>2 DEF ClockInv
  <2>2. LifeTypes /\ BottomHalfTypes
    BY DEF LifeInv, QuietInv
  <2> QED BY <2>1, <2>2 DEF TypeOK, LifeTypes, BottomHalfTypes
<1> QED BY <1>1, ClockInvHolds, QuietInvHolds, LifeInvHolds, PTL
=============================================================================
