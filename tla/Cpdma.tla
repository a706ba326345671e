------------------------------- MODULE Cpdma -------------------------------
(***************************************************************************)
(* One channel of the CPDMA engine behind the CPSW and EMAC Ethernet       *)
(* drivers: drivers/net/davinci_cpdma.c, with its callers in               *)
(* drivers/net/cpsw.c.                                                     *)
(*                                                                         *)
(* Software keeps a chain of descriptors from head to tail and gives it to *)
(* the DMA engine by writing the head descriptor pointer (hdp).  The       *)
(* engine follows the chain; at a descriptor without a successor it sets   *)
(* EOQ and stops.  Software appends to a chain the engine may be about to  *)
(* leave, and has to find out, from EOQ, whether it must write hdp again.  *)
(*                                                                         *)
(* On this uniprocessor every function runs as one step with respect to    *)
(* the others (the channel lock disables interrupts; the stop is called    *)
(* with them disabled or from the transmit watchdog).  The engine acts     *)
(* between any two accesses to a descriptor it owns.                       *)
(***************************************************************************)
EXTENDS Integers, Sequences, FiniteSets, Functions

CONSTANTS NumDesc,    \* descriptors of the pool this channel can get
          MaxSubmit,  \* bound: buffers submitted
          MaxStop,    \* bound: times the channel is stopped
          Quota,      \* descriptors one poll may take back
          AckInTime   \* the engine acknowledges a teardown within 100 ms

ASSUME NumDescAssumption == NumDesc \in Nat \ {0}
ASSUME BoundsAssumption  == MaxSubmit \in Nat /\ MaxStop \in Nat
ASSUME PollAssumption    == Quota \in Nat \ {0} /\ AckInTime \in BOOLEAN

Descs == 1..NumDesc   \* 0 is the null pointer

VARIABLES
  \* the channel
  state,      \* chan->state
  head, tail, \* chan->head, chan->tail
  used,       \* descriptors marked in the pool's bitmap
  \* descriptor memory
  next,       \* hw_next and sw_next, which are always written together
  owner,      \* CPDMA_DESC_OWNER: the engine has the descriptor
  eoq,        \* CPDMA_DESC_EOQ
  td,         \* CPDMA_DESC_TD_COMPLETE
  token,      \* sw_token: the n-th buffer submitted is the number n
  \* the engine
  hcur,       \* the descriptor it is at; 0 when it is idle
  hph,        \* how far it is: "start", "busy", "fetched"
  hnext,      \* the successor it has read
  tdreq,      \* a teardown is requested
  tddone,     \* its completion pointer holds CPDMA_TEARDOWN_VALUE
  cp,         \* the last descriptor it has completed
  irq,        \* its interrupt is raised
  \* the processor
  pc,         \* what it is doing
  prev,       \* the local variable of __cpdma_chan_submit
  polling,    \* NAPI polls the channel
  left,       \* what is left of the poll's quota
  nsub, nstop,
  sent,       \* history: buffers the engine has transferred
  done        \* history: buffers given back to the handler

chan == <<state, head, tail, used>>
desc == <<next, owner, eoq, td, token>>
dma  == <<hcur, hph, hnext, tdreq, tddone, cp, irq, sent>>
cpu  == <<pc, prev, polling, left, nsub, nstop, done>>
vars == <<chan, desc, dma, cpu>>

Init ==
  /\ state = "idle" /\ head = 0 /\ tail = 0 /\ used = {}
  /\ next = [d \in Descs |-> 0] /\ owner = [d \in Descs |-> FALSE]
  /\ eoq = [d \in Descs |-> FALSE] /\ td = [d \in Descs |-> FALSE]
  /\ token = [d \in Descs |-> 0]
  /\ hcur = 0 /\ hph = "start" /\ hnext = 0
  /\ tdreq = FALSE /\ tddone = FALSE /\ cp = 0 /\ irq = FALSE
  /\ pc = "idle" /\ prev = 0 /\ polling = FALSE /\ left = 0
  /\ nsub = 0 /\ nstop = 0
  /\ sent = <<>> /\ done = <<>>

\* chan_write(chan, hdp, d)
WriteHdp(d) == hcur' = d /\ hph' = "start"

-----------------------------------------------------------------------------
(* Submitting a buffer.                                                    *)

\* cpdma_chan_submit up to the write of hw_next in __cpdma_chan_submit.
cpdma_chan_submit(d) ==
  /\ pc = "idle" /\ state # "teardown" /\ nsub < MaxSubmit
  /\ d \notin used
  /\ used' = used \cup {d}
  /\ owner' = [owner EXCEPT ![d] = TRUE]
  /\ eoq' = [eoq EXCEPT ![d] = FALSE]
  /\ td' = [td EXCEPT ![d] = FALSE]
  /\ token' = [token EXCEPT ![d] = nsub + 1]
  /\ nsub' = nsub + 1
  /\ tail' = d
  /\ IF head = 0
     THEN /\ head' = d
          /\ next' = [next EXCEPT ![d] = 0]
          /\ IF state = "active" THEN WriteHdp(d) ELSE UNCHANGED <<hcur, hph>>
          /\ UNCHANGED <<pc, prev>>
     ELSE /\ next' = [next EXCEPT ![d] = 0, ![tail] = d]
          /\ pc' = "chained" /\ prev' = tail
          /\ UNCHANGED <<head, hcur, hph>>
  /\ UNCHANGED <<state, hnext, tdreq, tddone, cp, irq, sent, polling, left,
                 nstop, done>>

\* Wrong variant: EOQ stays set, so that process will find it again.
SubmitCheckEoq_KeepsEoq ==
  /\ pc = "chained"
  /\ pc' = "idle"
  /\ IF eoq[prev] /\ ~owner[prev] /\ state = "active"
     THEN WriteHdp(tail) ELSE UNCHANGED <<hcur, hph>>
  /\ UNCHANGED <<chan, desc, hnext, tdreq, tddone, cp, irq, sent, prev, polling,
                 left, nsub, nstop, done>>

\* Wrong variant: takes a completed predecessor for the end of the queue.
SubmitCheckEoq_IgnoresEoq ==
  /\ pc = "chained"
  /\ pc' = "idle"
  /\ IF ~owner[prev] /\ state = "active"
     THEN eoq' = [eoq EXCEPT ![prev] = FALSE] /\ WriteHdp(tail)
     ELSE UNCHANGED <<eoq, hcur, hph>>
  /\ UNCHANGED <<chan, next, owner, td, token, hnext, tdreq, tddone, cp, irq,
                 sent, prev, polling, left, nsub, nstop, done>>

\* Its end: has the engine left the chain before it saw the new descriptor?
SubmitCheckEoq ==
  /\ pc = "chained"
  /\ pc' = "idle"
  /\ IF eoq[prev] /\ ~owner[prev] /\ state = "active"
     THEN eoq' = [eoq EXCEPT ![prev] = FALSE] /\ WriteHdp(tail)
     ELSE UNCHANGED <<eoq, hcur, hph>>
  /\ UNCHANGED <<chan, next, owner, td, token, hnext, tdreq, tddone, cp, irq,
                 sent, prev, polling, left, nsub, nstop, done>>

-----------------------------------------------------------------------------
(* Taking back completed buffers.                                          *)

\* Wrong variant: does not look at OWNER.
HeadComplete_IgnoresOwner == head # 0

\* There is a head and the engine has handed it back.
HeadComplete == head \in {d \in Descs : ~owner[d]}

\* Wrong variant: leaves it to submit to restart the engine.
Dequeue_NoRequeue ==
  /\ HeadComplete
  /\ head' = next[head]
  /\ used' = used \ {head}
  /\ irq' = (irq /\ cp # head)
  /\ done' = Append(done, token[head])
  /\ UNCHANGED <<hcur, hph>>

\* Wrong variant: gives the buffer back and leaves it on the chain.
Dequeue_KeepsHead ==
  /\ HeadComplete
  /\ irq' = (irq /\ cp # head)
  /\ done' = Append(done, token[head])
  /\ UNCHANGED <<head, used, hcur, hph>>

\* The head is taken off the chain and given back; the write of its address
\* to the completion pointer ends the interrupt if no later one is complete.
\* If the engine stopped here although there is more, it is started again.
Dequeue ==
  /\ HeadComplete
  /\ head' = next[head]
  /\ used' = used \ {head}
  /\ irq' = (irq /\ cp # head)
  /\ IF eoq[head] /\ next[head] # 0 /\ ~td[head]
     THEN WriteHdp(next[head]) ELSE UNCHANGED <<hcur, hph>>
  /\ done' = Append(done, token[head])

\* cpsw_interrupt: the interrupt is off until the poll ends.
cpsw_interrupt ==
  /\ irq /\ state = "active" /\ ~polling /\ pc = "idle"
  /\ polling' = TRUE /\ left' = Quota
  /\ UNCHANGED <<chan, desc, dma, pc, prev, nsub, nstop, done>>

\* cpdma_chan_process, called by cpsw_poll, dequeues up to its quota.
PollDequeues ==
  /\ polling /\ state = "active" /\ pc = "idle" /\ left > 0
  /\ Dequeue
  /\ left' = left - 1
  /\ UNCHANGED <<state, tail, desc, hnext, tdreq, tddone, cp, sent, pc, prev,
                 polling, nsub, nstop>>

\* The poll ends, and the interrupt comes again if it is still raised: also,
\* on the transmit channel, when the quota was used up.
PollEnds ==
  /\ polling /\ pc = "idle"
  /\ state # "active" \/ ~HeadComplete \/ left = 0
  /\ polling' = FALSE
  /\ UNCHANGED <<chan, desc, dma, pc, prev, left, nsub, nstop, done>>

\* A poll that used up the budget of the receive channel is repeated.
PollAgain ==
  /\ polling /\ pc = "idle" /\ left = 0
  /\ left' = Quota
  /\ UNCHANGED <<chan, desc, dma, pc, prev, polling, nsub, nstop, done>>

-----------------------------------------------------------------------------
(* Starting and stopping the channel.                                      *)

cpdma_chan_start ==
  /\ pc = "idle" /\ state = "idle"
  /\ state' = "active"
  /\ IF head # 0 THEN WriteHdp(head) ELSE UNCHANGED <<hcur, hph>>
  /\ UNCHANGED <<head, tail, used, desc, hnext, tdreq, tddone, cp, irq, sent,
                 cpu>>

\* cpdma_chan_stop: request the teardown ...
StopBegins ==
  /\ pc = "idle" /\ state = "active" /\ nstop < MaxStop
  /\ state' = "teardown"
  /\ tdreq' = TRUE
  /\ nstop' = nstop + 1
  /\ pc' = "tdwait"
  /\ UNCHANGED <<head, tail, used, desc, hcur, hph, hnext, tddone, cp, irq, sent,
                 prev, polling, left, nsub, done>>

\* ... wait until the engine acknowledges it, and acknowledge that ...
StopAcknowledged ==
  /\ pc = "tdwait" /\ tddone
  /\ tddone' = FALSE /\ irq' = FALSE
  /\ pc' = "drain"
  /\ UNCHANGED <<chan, desc, hcur, hph, hnext, tdreq, cp, sent, prev, polling,
                 left, nsub, nstop, done>>

\* ... or until 100 ms have passed: a warning, and on as if it had ...
StopTimesOut ==
  /\ pc = "tdwait" /\ ~tddone /\ ~AckInTime
  /\ pc' = "drain"
  /\ UNCHANGED <<chan, desc, dma, prev, polling, left, nsub, nstop, done>>

\* ... handle completed packets, up to the one the teardown marked ...
StopDrains ==
  /\ pc = "drain"
  /\ IF HeadComplete
     THEN /\ Dequeue
          /\ pc' = IF td[head] THEN "clean" ELSE "drain"
     ELSE /\ pc' = "clean"
          /\ UNCHANGED <<head, used, irq, hcur, hph, done>>
  /\ UNCHANGED <<state, tail, desc, hnext, tdreq, tddone, cp, sent, prev,
                 polling, left, nsub, nstop>>

\* Wrong variant: does not return the descriptors to the pool.
StopCleans_Leaks ==
  /\ pc = "clean"
  /\ IF head # 0
     THEN /\ head' = next[head]
          /\ done' = Append(done, token[head])
          /\ UNCHANGED <<state, pc>>
     ELSE /\ state' = "idle" /\ pc' = "idle"
          /\ UNCHANGED <<head, done>>
  /\ UNCHANGED <<used, tail, desc, dma, prev, polling, left, nsub, nstop>>

\* Wrong variant: gives back only the first of the rest.
StopCleans_OnlyFirst ==
  /\ pc = "clean"
  /\ IF head # 0
     THEN done' = Append(done, token[head]) ELSE UNCHANGED done
  /\ head' = 0 /\ used' = {}
  /\ state' = "idle" /\ pc' = "idle"
  /\ UNCHANGED <<tail, desc, dma, prev, polling, left, nsub, nstop>>

\* ... and give back the rest untransferred.
StopCleans ==
  /\ pc = "clean"
  /\ IF head # 0
     THEN /\ head' = next[head]
          /\ used' = used \ {head}
          /\ done' = Append(done, token[head])
          /\ UNCHANGED <<state, pc>>
     ELSE /\ state' = "idle" /\ pc' = "idle"
          /\ UNCHANGED <<head, used, done>>
  /\ UNCHANGED <<tail, desc, dma, prev, polling, left, nsub, nstop>>

cpdma_chan_stop ==
  \/ StopBegins \/ StopAcknowledged \/ StopTimesOut
  \/ StopDrains \/ StopCleans

-----------------------------------------------------------------------------
(* External: the DMA engine.                                               *)

\* It transfers the buffer and reads the pointer to the successor ...
EngineStarts ==
  /\ hcur # 0 /\ hph = "start"
  /\ hph' = "busy"
  /\ UNCHANGED <<chan, desc, hcur, hnext, tdreq, tddone, cp, irq, sent, cpu>>

EngineTransfers ==
  /\ hcur # 0 /\ hph = "busy"
  /\ sent' = Append(sent, token[hcur])
  /\ hnext' = next[hcur]
  /\ hph' = "fetched"
  /\ UNCHANGED <<chan, desc, hcur, tdreq, tddone, cp, irq, cpu>>

\* ... then hands the descriptor back, with EOQ if there was no successor.
EngineCompletes ==
  /\ hcur # 0 /\ hph = "fetched"
  /\ owner' = [owner EXCEPT ![hcur] = FALSE]
  /\ eoq' = [eoq EXCEPT ![hcur] = (hnext = 0)]
  /\ cp' = hcur /\ irq' = TRUE
  /\ hcur' = hnext /\ hph' = "start"
  /\ UNCHANGED <<chan, next, td, token, hnext, tdreq, tddone, sent, cpu>>

\* A teardown takes effect between two packets; the next one is marked.
EngineTearsDown ==
  /\ tdreq /\ (hcur = 0 \/ hph = "start")
  /\ IF hcur # 0
     THEN /\ owner' = [owner EXCEPT ![hcur] = FALSE]
          /\ td' = [td EXCEPT ![hcur] = TRUE]
     ELSE UNCHANGED <<owner, td>>
  /\ hcur' = 0 /\ hph' = "start"
  /\ tdreq' = FALSE /\ tddone' = TRUE /\ irq' = TRUE /\ cp' = 0
  /\ UNCHANGED <<chan, next, eoq, token, hnext, sent, cpu>>

Engine == EngineStarts \/ EngineTransfers \/ EngineCompletes \/ EngineTearsDown

-----------------------------------------------------------------------------
Next ==
  \/ \E d \in Descs : cpdma_chan_submit(d)
  \/ SubmitCheckEoq
  \/ cpsw_interrupt \/ PollDequeues \/ PollEnds \/ PollAgain
  \/ cpdma_chan_start \/ cpdma_chan_stop
  \/ Engine

\* The engine works on while it is started; the processor takes interrupts,
\* polls and finishes what it has begun.
Fairness ==
  /\ WF_vars(Engine)
  /\ WF_vars(SubmitCheckEoq)
  /\ WF_vars(cpsw_interrupt)
  /\ WF_vars(PollDequeues \/ PollEnds \/ PollAgain)

Spec == Init /\ [][Next]_vars /\ Fairness

-----------------------------------------------------------------------------
(* Properties.                                                             *)

\* The n-th descriptor after head; 0 beyond the end of the chain.
After[n \in Nat] ==
  IF n = 0 THEN head ELSE IF After[n - 1] = 0 THEN 0 ELSE next[After[n - 1]]

\* The descriptors from head to tail.
Queue ==
  [i \in 1..Cardinality({n \in 0..NumDesc - 1 : After[n] # 0}) |-> After[i - 1]]

Tokens == [i \in DOMAIN Queue |-> token[Queue[i]]]

\* Type invariant; no buffer can be given back that was not submitted.
TypeOK ==
  /\ state \in {"idle", "active", "teardown"}
  /\ {head, tail, hcur, hnext, cp, prev} \subseteq Descs \cup {0}
  /\ used \subseteq Descs
  /\ next \in [Descs -> Descs \cup {0}]
  /\ {owner, eoq, td} \subseteq [Descs -> BOOLEAN]
  /\ token \in [Descs -> 0..MaxSubmit]
  /\ hph \in {"start", "busy", "fetched"}
  /\ {tdreq, tddone, irq, polling} \subseteq BOOLEAN
  /\ pc \in {"idle", "chained", "tdwait", "drain", "clean"}
  /\ left \in 0..Quota /\ nsub \in 0..MaxSubmit /\ nstop \in 0..MaxStop
  /\ {sent, done} \subseteq Seq(1..MaxSubmit)
  /\ Len(done) <= nsub

\* Software writes hdp only when the engine is idle: a running engine moves
\* only to the successor it has read, or stops for a teardown.  Writing hdp
\* at the wrong moment, from submit or from process, would make it skip or
\* repeat packets.
HdpWrittenWhenIdle ==
  [][hcur # 0 /\ hcur' # hcur =>
        (hph = "fetched" /\ hcur' = hnext) \/ (tdreq /\ hcur' = 0)]_vars

\* The engine only works on descriptors that are allocated and handed to it.
EngineOwnsItsDescriptor == hcur # 0 => hcur \in used /\ owner[hcur]

\* Each buffer is transferred once, in the order of submission, however the
\* end of the chain races with new submissions ...
TransferredInOrder == \A i \in DOMAIN sent : sent[i] = i

\* ... and it is given back only after it was transferred.
GivenBackAfterTransfer == Len(done) <= Len(sent)

\* The pool's bitmap holds exactly the chained descriptors: none leaks on any
\* path, and none is free while it is on the chain.
PoolExact == used = Range(Queue)

\* The channel gives each buffer back once, in the order of submission, also
\* across a teardown.
Ring == INSTANCE MsgChannel
          WITH Msgs <- 1..MaxSubmit, Lossy <- FALSE, buf <- Tokens, got <- done
GivesBackInOrder == Ring!Spec

\* Every buffer submitted to a started channel is given back: an undetected
\* end of queue never leaves the engine idle with descriptors on the chain.
AllGivenBack ==
  \A i \in 1..MaxSubmit : nsub >= i /\ state = "active" ~> Len(done) >= i
=============================================================================
