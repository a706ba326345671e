---------------------------- MODULE CpdmaProofs ----------------------------
(***************************************************************************)
(* Proofs about a CPDMA channel, for any number of descriptors and         *)
(* buffers.                                                                *)
(*                                                                         *)
(* The chain is described without following it from head to tail: the      *)
(* descriptors in use carry the numbers of the buffers submitted and not   *)
(* given back, each number once, and the successor of one carries the next *)
(* number.  That the chain found from head on is the same (Queue) follows. *)
(***************************************************************************)
EXTENDS Cpdma, SequenceTheorems, FiniteSetTheorems, WellFoundedInduction, TLAPS

\* The numbers of the buffers on the channel.
Pending == Len(done) + 1 .. nsub

ChainTypes ==
  /\ used \subseteq Descs
  /\ next \in [Descs -> Descs \cup {0}]
  /\ token \in [Descs -> Nat]
  /\ done \in Seq(Nat)
  /\ nsub \in Nat /\ Len(done) <= nsub

\* The descriptors in use and the numbers of the pending buffers correspond.
TokensExact ==
  /\ \A d \in used : token[d] \in Pending
  /\ \A n \in Pending : \E d \in used : token[d] = n
  /\ \A d, e \in used : token[d] = token[e] => d = e

\* Each is chained to the one submitted after it.
Linked ==
  \A d \in used :
     /\ token[d] = nsub => next[d] = 0
     /\ token[d] < nsub => next[d] \in used /\ token[next[d]] = token[d] + 1

EndsExact ==
  /\ Len(done) = nsub => head = 0
  /\ Len(done) < nsub => /\ head \in used /\ token[head] = Len(done) + 1
                         /\ tail \in used /\ token[tail] = nsub

\* Buffers have been given back in the order of submission.
DoneInOrder == \A i \in 1..Len(done) : done[i] = i

\* Inductive for every number of stops, acknowledged in time or not.
ChainInv == ChainTypes /\ TokensExact /\ Linked /\ EndsExact /\ DoneInOrder

chainVars == <<used, next, token, head, tail, done, nsub>>

\* What a step may do to the chain: append a descriptor ...
ChainPut(d) ==
  /\ d \in Descs \ used
  /\ used' = used \cup {d}
  /\ token' = [token EXCEPT ![d] = nsub + 1]
  /\ nsub' = nsub + 1 /\ nsub < MaxSubmit
  /\ tail' = d
  /\ IF head = 0
     THEN head' = d /\ next' = [next EXCEPT ![d] = 0]
     ELSE head' = head /\ next' = [next EXCEPT ![d] = 0, ![tail] = d]
  /\ done' = done

\* ... or take off the first.
ChainGet ==
  /\ head # 0
  /\ head' = next[head]
  /\ used' = used \ {head}
  /\ done' = Append(done, token[head])
  /\ UNCHANGED <<next, token, tail, nsub>>

-----------------------------------------------------------------------------
(* The chain.                                                              *)

\* Every step of the driver appends to the chain, takes its head off, or
\* leaves it alone; the engine always leaves it alone.
LEMMA ChainSteps ==
  ASSUME [Next]_vars
  PROVE  (\E d \in Descs : ChainPut(d)) \/ ChainGet \/ UNCHANGED chainVars
<1> USE DEF chainVars, chan, desc, dma, cpu
<1>1. ASSUME NEW d \in Descs, cpdma_chan_submit(d) PROVE ChainPut(d)
  BY <1>1 DEF cpdma_chan_submit, ChainPut
<1>2. CASE SubmitCheckEoq \/ cpsw_interrupt \/ PollEnds \/ PollAgain
           \/ cpdma_chan_start
  BY <1>2 DEF SubmitCheckEoq, cpsw_interrupt, PollEnds, PollAgain,
              cpdma_chan_start
<1>g. ASSUME Dequeue, UNCHANGED <<next, token, tail, nsub>> PROVE ChainGet
  BY <1>g DEF Dequeue, HeadComplete, ChainGet, Descs
<1>3. CASE PollDequeues
  BY <1>3, <1>g DEF PollDequeues
<1>4. CASE StopBegins \/ StopAcknowledged \/ StopTimesOut
  BY <1>4 DEF StopBegins, StopAcknowledged, StopTimesOut
<1>5. CASE StopDrains
  BY <1>5, <1>g DEF StopDrains
<1>6. CASE StopCleans
  BY <1>6 DEF StopCleans, ChainGet
<1>7. CASE Engine
  BY <1>7 DEF Engine, EngineStarts, EngineTransfers, EngineCompletes,
              EngineTearsDown
<1>8. CASE UNCHANGED vars
  BY <1>8 DEF vars
<1> HIDE DEF chainVars, chan, desc, dma, cpu
<1> QED BY <1>1, <1>2, <1>3, <1>4, <1>5, <1>6, <1>7, <1>8
        DEF Next, cpdma_chan_stop

\* A descriptor that joins the chain at its end keeps it a chain.
LEMMA PutKeepsChain ==
  ASSUME ChainInv, NEW d \in Descs, ChainPut(d)
  PROVE  ChainInv'
<1> USE DEF ChainInv, ChainPut
<1>t. ChainTypes' /\ Len(done) \in Nat
  BY LenProperties DEF ChainTypes
<1>1. TokensExact'
  BY <1>t DEF ChainTypes, TokensExact, Pending
<1>e. CASE Len(done) = nsub
  <2>1. used = {} /\ head = 0
    BY <1>e, <1>t DEF TokensExact, EndsExact, Pending, ChainTypes
  <2>2. Linked'
    BY <1>e, <1>t, <2>1 DEF ChainTypes, Linked, Descs
  <2>3. EndsExact'
    BY <1>e, <1>t, <2>1 DEF ChainTypes, EndsExact
  <2> QED BY <1>t, <1>1, <2>2, <2>3 DEF DoneInOrder
<1>n. CASE Len(done) < nsub
  <2>1. /\ head \in used /\ head # 0 /\ token[head] = Len(done) + 1
        /\ tail \in used /\ token[tail] = nsub
    BY <1>n DEF EndsExact, ChainTypes, Descs
  <2>2. /\ next'[d] = 0 /\ next'[tail] = d
        /\ \A e \in used \ {tail} : next'[e] = next[e]
        /\ \A e \in used : token'[e] = token[e]
        /\ token'[d] = nsub + 1
    BY <1>t, <2>1 DEF ChainTypes
  <2>3. Linked'
    <3> SUFFICES ASSUME NEW e \in used'
                 PROVE  /\ token'[e] = nsub' => next'[e] = 0
                        /\ token'[e] < nsub' => /\ next'[e] \in used'
                                                /\ token'[next'[e]] = token'[e] + 1
      BY DEF Linked
    <3>1. CASE e = d
      BY <3>1, <2>2, <1>t DEF ChainTypes
    <3>2. CASE e = tail
      BY <3>2, <2>1, <2>2, <1>t DEF ChainTypes
    <3>3. CASE e # d /\ e # tail
      <4>1. e \in used /\ token[e] \in Nat /\ token[e] <= nsub /\ token[e] # nsub
        BY <3>3, <2>1, <1>t DEF TokensExact, ChainTypes, Pending
      <4>2. next[e] \in used /\ token[next[e]] = token[e] + 1
        BY <4>1 DEF Linked, ChainTypes
      <4> QED BY <3>3, <4>1, <4>2, <2>2 DEF ChainTypes
    <3> QED BY <3>1, <3>2, <3>3
  <2>4. EndsExact'
    BY <1>n, <1>t, <2>1, <2>2 DEF ChainTypes, EndsExact
  <2> QED BY <1>t, <1>1, <2>3, <2>4 DEF DoneInOrder
<1> QED BY <1>t, <1>e, <1>n DEF ChainTypes

\* Taking the first descriptor off keeps it a chain.
LEMMA GetKeepsChain ==
  ASSUME ChainInv, ChainGet
  PROVE  ChainInv'
<1> USE DEF ChainInv, ChainGet
<1>t. /\ Len(done) \in Nat /\ Len(done) < nsub
      /\ head \in used /\ token[head] = Len(done) + 1
      /\ tail \in used /\ token[tail] = nsub
  BY LenProperties DEF ChainTypes, EndsExact
<1>1. /\ done' \in Seq(Nat) /\ Len(done') = Len(done) + 1
      /\ \A i \in 1..Len(done) : done'[i] = done[i]
      /\ done'[Len(done) + 1] = Len(done) + 1
  BY <1>t, AppendProperties DEF ChainTypes
<1>2. ChainTypes'
  BY <1>t, <1>1 DEF ChainTypes
<1>3. TokensExact'
  <2>1. \A d \in used \ {head} : token[d] \in Len(done) + 2 .. nsub
    BY <1>t DEF ChainTypes, TokensExact, Pending
  <2>2. \A n \in Len(done) + 2 .. nsub : \E d \in used \ {head} : token[d] = n
    BY <1>t DEF ChainTypes, TokensExact, Pending
  <2>3. Pending' = Len(done) + 2 .. nsub
    BY <1>t, <1>1 DEF Pending, ChainTypes
  <2> QED BY <2>1, <2>2, <2>3 DEF TokensExact
<1>4. Linked'
  <2> SUFFICES ASSUME NEW e \in used \ {head}, token[e] < nsub
               PROVE  next[e] # head
    BY DEF Linked
  <2>1. token[e] \in Nat /\ token[e] > Len(done) /\ token[next[e]] = token[e] + 1
    BY <1>t DEF TokensExact, Linked, Pending, ChainTypes
  <2> QED BY <1>t, <2>1
<1>5. EndsExact'
  BY <1>t, <1>1, <1>2 DEF ChainTypes, EndsExact, Linked
<1>6. DoneInOrder'
  BY <1>t, <1>1 DEF DoneInOrder
<1> QED BY <1>2, <1>3, <1>4, <1>5, <1>6

LEMMA ChainInvHolds == Spec => []ChainInv
<1>1. Init => ChainInv
  BY NumDescAssumption DEF Init, ChainInv, ChainTypes, TokensExact, Linked, EndsExact,
     DoneInOrder, Pending, Descs
<1>2. ChainInv /\ [Next]_vars => ChainInv'
  <2> SUFFICES ASSUME ChainInv, [Next]_vars PROVE ChainInv'
    OBVIOUS
  <2>1. CASE \E d \in Descs : ChainPut(d)
    BY <2>1, PutKeepsChain
  <2>2. CASE ChainGet
    BY <2>2, GetKeepsChain
  <2>3. CASE UNCHANGED chainVars
    BY <2>3 DEF chainVars, ChainInv, ChainTypes, TokensExact, Linked, EndsExact,
       DoneInOrder, Pending
  <2> QED BY <2>1, <2>2, <2>3, ChainSteps
<1> QED BY <1>1, <1>2, PTL DEF Spec

-----------------------------------------------------------------------------
(* What is found by following the chain.                                   *)

\* A nonempty set of natural numbers has a least element.
LEMMA LeastNat ==
  ASSUME NEW S \in SUBSET Nat, S # {}
  PROVE  \E n \in S : \A m \in S : n <= m
<1>1. PICK n \in S : \A m \in S : ~(<<m, n>> \in OpToRel(<, Nat))
  BY NatLessThanWellFounded, WFMin
<1>2. \A m \in S : ~(m < n)
  BY <1>1, Zenon DEF OpToRel
<1> QED BY <1>2

\* The n-th descriptor after head is the one that carries the n-th number
\* after that of head, and there is none beyond the last.
Follows(f) ==
  \A n \in Nat :
     IF n < nsub - Len(done)
     THEN f[n] \in used /\ token[f[n]] = Len(done) + 1 + n
     ELSE f[n] = 0

\* After satisfies its recursive equation: the descriptors in the order of
\* their numbers do.
LEMMA AfterEquation ==
  ASSUME ChainInv
  PROVE  After = [n \in Nat |-> IF n = 0 THEN head
                                ELSE IF After[n - 1] = 0 THEN 0
                                     ELSE next[After[n - 1]]]
<1> DEFINE k == nsub - Len(done)
           by(n) == CHOOSE d \in used : token[d] = Len(done) + 1 + n
           f == [n \in Nat |-> IF n < k THEN by(n) ELSE 0]
<1>t. Len(done) \in Nat /\ k \in Nat /\ 0 \notin used
  BY LenProperties DEF ChainInv, ChainTypes, Descs
<1>1. ASSUME NEW n \in Nat, n < k
      PROVE  by(n) \in used /\ token[by(n)] = Len(done) + 1 + n
  <2>1. Len(done) + 1 + n \in Pending
    BY <1>t, <1>1 DEF Pending, ChainInv, ChainTypes
  <2>2. \E d \in used : token[d] = Len(done) + 1 + n
    BY <2>1 DEF ChainInv, TokensExact
  <2> QED BY <2>2
<1>2. ASSUME NEW n \in Nat
      PROVE  f[n] = IF n = 0 THEN head ELSE IF f[n - 1] = 0 THEN 0 ELSE next[f[n - 1]]
  <2> HIDE DEF by
  <2>0. CASE n = 0
    <3>1. CASE k = 0
      BY <1>t, <2>0, <3>1 DEF ChainInv, EndsExact, ChainTypes
    <3>2. CASE k > 0
      <4>1. head \in used /\ token[head] = Len(done) + 1
        BY <1>t, <3>2 DEF ChainInv, EndsExact, ChainTypes
      <4>2. by(0) \in used /\ token[by(0)] = Len(done) + 1
        BY <1>t, <1>1, <3>2
      <4>3. head = by(0)
        BY <4>1, <4>2 DEF ChainInv, TokensExact
      <4>4. 0 \in Nat /\ 0 < k
        BY <1>t, <3>2
      <4>5. f[0] = by(0)
        BY <4>4
      <4> HIDE DEF f
      <4> QED BY <2>0, <4>3, <4>5
    <3> QED BY <1>t, <3>1, <3>2
  <2>1. CASE n # 0 /\ n - 1 >= k
    BY <1>t, <2>1
  <2>2. CASE n # 0 /\ n - 1 < k
    <3>1. n - 1 \in Nat /\ f[n - 1] = by(n - 1)
      BY <1>t, <2>2
    <3>2. by(n - 1) \in used /\ token[by(n - 1)] = Len(done) + n
      BY <1>1, <2>2, <3>1, <1>t
    <3>3. CASE n < k
      <4>1. by(n) \in used /\ token[by(n)] = Len(done) + 1 + n
        BY <1>1, <3>3
      <4>2. next[by(n - 1)] \in used /\ token[next[by(n - 1)]] = Len(done) + 1 + n
        BY <1>t, <3>2, <3>3 DEF ChainInv, Linked, ChainTypes
      <4>3. next[by(n - 1)] = by(n)
        BY <4>1, <4>2 DEF ChainInv, TokensExact
      <4> QED BY <1>t, <2>2, <3>1, <3>2, <3>3, <4>3
    <3>4. CASE n = k
      <4>1. next[by(n - 1)] = 0
        BY <1>t, <3>2, <3>4 DEF ChainInv, Linked, ChainTypes
      <4> QED BY <1>t, <2>2, <3>1, <3>2, <3>4, <4>1
    <3> QED BY <1>t, <2>2, <3>3, <3>4
  <2> QED BY <1>t, <2>0, <2>1, <2>2
<1>3. f = [n \in Nat |-> IF n = 0 THEN head ELSE IF f[n - 1] = 0 THEN 0 ELSE next[f[n - 1]]]
  <2>1. f = [n \in Nat |-> f[n]]
    OBVIOUS
  <2> HIDE DEF f
  <2> QED BY <1>2, <2>1
<1> HIDE DEF f
<1> QED BY <1>3, Zenon DEF After

\* The chain found from head on is that of the numbers.
LEMMA AfterFollows ==
  ASSUME ChainInv
  PROVE  Follows(After)
<1> DEFINE k == nsub - Len(done)
           good(n) == IF n < k
                      THEN After[n] \in used /\ token[After[n]] = Len(done) + 1 + n
                      ELSE After[n] = 0
           bad == {n \in Nat : ~good(n)}
<1>t. Len(done) \in Nat /\ k \in Nat /\ 0 \notin used
  BY LenProperties DEF ChainInv, ChainTypes, Descs
<1>0. /\ After[0] = head
      /\ \A n \in Nat \ {0} :
           After[n] = IF After[n - 1] = 0 THEN 0 ELSE next[After[n - 1]]
  BY AfterEquation
<1>1. good(0)
  <2>1. CASE k = 0
    BY <1>t, <1>0, <2>1 DEF ChainInv, EndsExact, ChainTypes
  <2>2. CASE k > 0
    <3>1. After[0] \in used /\ token[After[0]] = Len(done) + 1
      BY <1>t, <1>0, <2>2 DEF ChainInv, EndsExact, ChainTypes
    <3> QED BY <1>t, <2>2, <3>1
  <2>3. k = 0 \/ k > 0
    BY <1>t
  <2> HIDE DEF good, k
  <2> QED BY <2>1, <2>2, <2>3
<1>2. ASSUME NEW n \in Nat \ {0}, good(n - 1) PROVE good(n)
  <2>1. CASE n - 1 >= k
    BY <1>t, <1>0, <1>2, <2>1
  <2>2. CASE n - 1 < k
    <3>1. /\ After[n - 1] \in used /\ token[After[n - 1]] = Len(done) + n
          /\ After[n] = next[After[n - 1]]
      BY <1>t, <1>0, <1>2, <2>2
    <3>2. CASE n < k
      BY <1>t, <3>1, <3>2 DEF ChainInv, Linked, ChainTypes
    <3>3. CASE n = k
      BY <1>t, <3>1, <3>3 DEF ChainInv, Linked, ChainTypes
    <3> QED BY <1>t, <2>2, <3>2, <3>3
  <2> QED BY <1>t, <2>1, <2>2
<1>3. ASSUME bad # {} PROVE FALSE
  <2> HIDE DEF good
  <2>1. PICK n \in bad : \A m \in bad : n <= m
    BY <1>3, LeastNat
  <2>2. n \in Nat \ {0}
    BY <1>1, <2>1
  <2>3. n - 1 \notin bad /\ n - 1 \in Nat
    BY <2>1, <2>2
  <2> QED BY <1>2, <2>1, <2>2, <2>3
<1>4. \A n \in Nat : good(n)
  <2> HIDE DEF good
  <2> QED BY <1>3
<1> QED BY <1>4 DEF Follows

\* Every number is found within the first NumDesc descriptors.
LEMMA AtMostNumDesc ==
  ASSUME ChainInv
  PROVE  nsub - Len(done) <= NumDesc
<1> DEFINE f == [d \in used |-> token[d]]
<1>t. Len(done) \in Nat /\ nsub \in Nat /\ Len(done) <= nsub
  BY LenProperties DEF ChainInv, ChainTypes
<1>1. f \in Surjection(used, Pending)
  BY DEF ChainInv, TokensExact, Surjection
<1>2. IsFiniteSet(Descs) /\ Cardinality(Descs) = NumDesc
  BY NumDescAssumption, FS_Interval DEF Descs
<1>3. IsFiniteSet(used) /\ Cardinality(used) <= NumDesc /\ Cardinality(used) \in Nat
  <2>1. used \in SUBSET Descs
    BY DEF ChainInv, ChainTypes
  <2> QED BY <1>2, <2>1, FS_Subset, FS_CardinalityType
<1>4. Cardinality(Pending) <= Cardinality(used)
  BY <1>1, <1>3, FS_Surjection
<1>5. Cardinality(Pending) = nsub - Len(done)
  <2>1. Len(done) + 1 \in Int /\ nsub \in Int
    BY <1>t
  <2>2. Cardinality(Pending) = IF Len(done) + 1 > nsub THEN 0
                               ELSE nsub - (Len(done) + 1) + 1
    BY <2>1, FS_Interval DEF Pending
  <2> QED BY <1>t, <2>2
<1> QED BY <1>t, <1>3, <1>4, <1>5, NumDescAssumption

\* The queue from head to tail holds the pending buffers in their order, and
\* its descriptors are those in use.
QueueExact ==
  /\ Tokens = [i \in 1..nsub - Len(done) |-> Len(done) + i]
  /\ Range(Queue) = used

\* What the numbers say about the chain is what following it finds.
LEMMA QueueIsChain ==
  ASSUME ChainInv
  PROVE  QueueExact
<1> DEFINE k == nsub - Len(done)
           S == {n \in 0..NumDesc - 1 : After[n] # 0}
<1>t. Len(done) \in Nat /\ k \in Nat /\ 0 \notin used /\ k <= NumDesc
      /\ NumDesc \in Nat /\ nsub \in Nat
  BY LenProperties, AtMostNumDesc, NumDescAssumption
     DEF ChainInv, ChainTypes, Descs
<1>1. /\ \A n \in Nat : n < k => After[n] \in used /\ token[After[n]] = Len(done) + 1 + n
      /\ \A n \in Nat : ~(n < k) => After[n] = 0
  BY AfterFollows DEF Follows
<1>2. S = 0..k - 1
  BY <1>t, <1>1
<1>3. Cardinality(S) = k
  <2> DEFINE h == k - 1
  <2>1. 0 \in Int /\ h \in Int
    BY <1>t
  <2>2. S = 0..h
    BY <1>2
  <2> HIDE DEF S, h
  <2>3. Cardinality(S) = IF 0 > h THEN 0 ELSE h - 0 + 1
    BY <2>1, <2>2, FS_Interval
  <2> QED BY <1>t, <2>3 DEF h
<1>4. Queue = [i \in 1..k |-> After[i - 1]]
  BY <1>3 DEF Queue
<1>5. Tokens = [i \in 1..k |-> Len(done) + i]
  <2>1. \A i \in 1..k : token[After[i - 1]] = Len(done) + i
    BY <1>t, <1>1
  <2> QED BY <1>4, <2>1 DEF Tokens
<1>6. Range(Queue) = used
  <2>1. Range(Queue) \subseteq used
    BY <1>t, <1>1, <1>4 DEF Range
  <2>2. ASSUME NEW d \in used PROVE d \in Range(Queue)
    <3>1. token[d] \in Pending /\ token[d] \in Nat
      BY DEF ChainInv, TokensExact, ChainTypes
    <3> DEFINE i == token[d] - Len(done)
    <3>2. i \in 1..k /\ i - 1 \in Nat /\ i - 1 < k
      BY <1>t, <3>1 DEF Pending
    <3>3. After[i - 1] \in used /\ token[After[i - 1]] = token[d]
      BY <1>t, <1>1, <3>1, <3>2
    <3>4. After[i - 1] = d
      BY <3>3 DEF ChainInv, TokensExact
    <3>5. i \in DOMAIN Queue /\ Queue[i] = d
      BY <1>4, <3>2, <3>4
    <3> QED BY <3>5 DEF Range
  <2> QED BY <2>1, <2>2
<1> QED BY <1>5, <1>6 DEF QueueExact

LEMMA QueueExactHolds == Spec => []QueueExact
<1>1. ChainInv => QueueExact
  BY QueueIsChain
<1> QED BY <1>1, ChainInvHolds, PTL

\* The pool's bitmap holds exactly the descriptors on the chain, on every
\* path through submit, process and stop, for any number of stops and with
\* or without the engine's acknowledgement: none leaks, none is free while
\* it is chained.
THEOREM PoolIsExact == Spec => []PoolExact
<1>1. QueueExact => PoolExact
  BY DEF QueueExact, PoolExact
<1> QED BY <1>1, QueueExactHolds, PTL

\* The channel implements a reliable first-in first-out channel of buffers:
\* submit puts one in, and process or stop gives the oldest back, exactly
\* once; no other step does either.
THEOREM ImplementsChannel == Spec => GivesBackInOrder
<1>0. Init /\ QueueExact => Ring!Init
  <2> SUFFICES ASSUME Init, QueueExact PROVE Ring!Init
    OBVIOUS
  <2>1. done = <<>> /\ nsub = 0 /\ Len(done) = 0
    BY DEF Init
  <2>2. Tokens = [i \in 1..0 |-> 0 + i]
    BY <2>1 DEF QueueExact
  <2>3. Tokens = <<>>
    BY <2>2
  <2> QED BY <2>1, <2>3 DEF Ring!Init
<1>1. ASSUME ChainInv, QueueExact, QueueExact', [Next]_vars
      PROVE  [Ring!Next]_(Ring!cvars)
  <2> DEFINE j == Len(done)
  <2>t. j \in Nat /\ nsub \in Nat /\ j <= nsub
    BY <1>1, LenProperties DEF ChainInv, ChainTypes
  <2>q. /\ Tokens = [i \in 1..nsub - j |-> j + i]
        /\ Tokens' = [i \in 1..nsub' - Len(done') |-> Len(done') + i]
    BY <1>1 DEF QueueExact
  <2>s. Tokens \in Seq(Int) /\ Len(Tokens) = nsub - j
    BY <2>q, <2>t
  <2>1. ASSUME NEW d \in Descs, ChainPut(d) PROVE Ring!Put
    <3>1. nsub' = nsub + 1 /\ done' = done /\ nsub + 1 \in 1..MaxSubmit
      BY <2>1, <2>t, BoundsAssumption DEF ChainPut
    <3>2. Tokens' = [i \in 1..(nsub - j) + 1 |-> j + i]
      BY <2>q, <2>t, <3>1
    <3>3. Tokens' = Append(Tokens, nsub + 1)
      BY <3>2, <2>q, <2>s, <2>t
    <3> QED BY <3>1, <3>3 DEF Ring!Put
  <2>2. ASSUME ChainGet PROVE Ring!Get
    <3>1. j < nsub /\ token[head] = j + 1
      BY <1>1, <2>2 DEF ChainGet, ChainInv, EndsExact, ChainTypes
    <3>2. /\ nsub' = nsub /\ done' = Append(done, j + 1) /\ Len(done') = j + 1
      BY <1>1, <2>2, <3>1, AppendProperties DEF ChainGet, ChainInv, ChainTypes
    <3>3. Tokens' = [i \in 1..(nsub - j) - 1 |-> j + 1 + i]
      BY <2>q, <2>t, <3>1, <3>2
    <3>4. Tokens # <<>> /\ Head(Tokens) = j + 1
      <4>1. Tokens # <<>>
        BY <2>s, <2>t, <3>1
      <4>2. Head(Tokens) = Tokens[1]
        BY <2>s, <4>1
      <4>3. 1 \in 1..nsub - j
        BY <2>t, <3>1
      <4> QED BY <2>q, <4>1, <4>2, <4>3
    <3>5. /\ Tail(Tokens) \in Seq(Int) /\ Len(Tail(Tokens)) = (nsub - j) - 1
          /\ \A i \in 1..(nsub - j) - 1 : Tail(Tokens)[i] = Tokens[i + 1]
      BY <2>s, <3>4, HeadTailProperties
    <3>6. \A i \in 1..(nsub - j) - 1 : Tokens[i + 1] = j + 1 + i
      BY <2>q, <2>t, <3>1
    <3>7. Tokens' \in Seq(Int) /\ Len(Tokens') = (nsub - j) - 1
      BY <3>3, <2>t, <3>1
    <3>8. \A i \in 1..(nsub - j) - 1 : Tail(Tokens)[i] = Tokens'[i]
      BY <3>3, <3>5, <3>6
    <3>9. Tokens' = Tail(Tokens)
      BY <3>5, <3>7, <3>8, SeqEqual
    <3> QED BY <3>2, <3>4, <3>9 DEF Ring!Get
  <2>3. ASSUME UNCHANGED chainVars PROVE UNCHANGED Ring!cvars
    <3>1. nsub' = nsub /\ done' = done
      BY <2>3 DEF chainVars
    <3> QED BY <2>q, <3>1 DEF Ring!cvars
  <2> QED BY <1>1, <2>1, <2>2, <2>3, ChainSteps DEF Ring!Next
<1> QED BY <1>0, <1>1, ChainInvHolds, QueueExactHolds, PTL
        DEF Spec, GivesBackInOrder, Ring!Spec

-----------------------------------------------------------------------------
(* Type correctness.                                                       *)

ControlTypes ==
  /\ state \in {"idle", "active", "teardown"}
  /\ hph \in {"start", "busy", "fetched"}
  /\ pc \in {"idle", "chained", "tdwait", "drain", "clean"}
  /\ left \in 0..Quota /\ nstop \in 0..MaxStop

FlagTypes ==
  /\ owner \in [Descs -> BOOLEAN] /\ eoq \in [Descs -> BOOLEAN]
  /\ td \in [Descs -> BOOLEAN]
  /\ tdreq \in BOOLEAN /\ tddone \in BOOLEAN
  /\ irq \in BOOLEAN /\ polling \in BOOLEAN

\* The descriptors that carry the number of a buffer.
Numbered == {d \in Descs : token[d] \in 1..MaxSubmit}

\* Every pointer the driver or the engine follows is null or leads to a
\* descriptor that has been given a buffer.
PointerTypes ==
  /\ head \in Numbered \cup {0} /\ tail \in Numbered \cup {0}
  /\ hcur \in Numbered \cup {0} /\ hnext \in Numbered \cup {0}
  /\ cp \in Descs \cup {0} /\ prev \in Descs \cup {0}
  /\ used \subseteq Descs
  /\ next \in [Descs -> Numbered \cup {0}]
  /\ token \in [Descs -> 0..MaxSubmit]
  /\ nsub \in 0..MaxSubmit

HistoryTypes == sent \in Seq(1..MaxSubmit) /\ done \in Seq(1..MaxSubmit)

LEMMA ControlTypesStep == ControlTypes /\ [Next]_vars => ControlTypes'
<1> SUFFICES ASSUME ControlTypes, [Next]_vars PROVE ControlTypes'
  OBVIOUS
<1> USE PollAssumption, BoundsAssumption DEF ControlTypes, chan, desc, dma, cpu
<1>1. ASSUME NEW d \in Descs, cpdma_chan_submit(d) PROVE ControlTypes'
  BY <1>1 DEF cpdma_chan_submit, WriteHdp
<1>2. CASE SubmitCheckEoq
  BY <1>2 DEF SubmitCheckEoq, WriteHdp
<1>3. CASE cpsw_interrupt \/ PollEnds \/ PollAgain
  BY <1>3 DEF cpsw_interrupt, PollEnds, PollAgain
<1>4. CASE PollDequeues
  BY <1>4 DEF PollDequeues, Dequeue, WriteHdp
<1>5. CASE cpdma_chan_start
  BY <1>5 DEF cpdma_chan_start, WriteHdp
<1>6. CASE StopBegins \/ StopAcknowledged \/ StopTimesOut \/ StopCleans
  BY <1>6 DEF StopBegins, StopAcknowledged, StopTimesOut, StopCleans
<1>7. CASE StopDrains
  BY <1>7 DEF StopDrains, Dequeue, WriteHdp
<1>8. CASE Engine
  BY <1>8 DEF Engine, EngineStarts, EngineTransfers, EngineCompletes,
              EngineTearsDown
<1>9. CASE UNCHANGED vars
  BY <1>9 DEF vars
<1> QED BY <1>1, <1>2, <1>3, <1>4, <1>5, <1>6, <1>7, <1>8, <1>9
        DEF Next, cpdma_chan_stop

LEMMA FlagTypesStep == FlagTypes /\ [Next]_vars => FlagTypes'
<1> SUFFICES ASSUME FlagTypes, [Next]_vars PROVE FlagTypes'
  OBVIOUS
<1> USE DEF FlagTypes, chan, desc, dma, cpu
<1>1. ASSUME NEW d \in Descs, cpdma_chan_submit(d) PROVE FlagTypes'
  BY <1>1 DEF cpdma_chan_submit
<1>2. CASE SubmitCheckEoq
  BY <1>2 DEF SubmitCheckEoq
<1>3. CASE cpsw_interrupt \/ PollEnds \/ PollAgain \/ cpdma_chan_start
  BY <1>3 DEF cpsw_interrupt, PollEnds, PollAgain, cpdma_chan_start
<1>4. CASE PollDequeues
  BY <1>4 DEF PollDequeues, Dequeue
<1>6. CASE StopBegins \/ StopAcknowledged \/ StopTimesOut \/ StopCleans
  BY <1>6 DEF StopBegins, StopAcknowledged, StopTimesOut, StopCleans
<1>7. CASE StopDrains
  BY <1>7 DEF StopDrains, Dequeue
<1>8. CASE EngineStarts \/ EngineTransfers
  BY <1>8 DEF EngineStarts, EngineTransfers
<1>9. CASE EngineCompletes
  BY <1>9 DEF EngineCompletes
<1>10. CASE EngineTearsDown
  BY <1>10 DEF EngineTearsDown
<1>11. CASE UNCHANGED vars
  BY <1>11 DEF vars
<1> QED BY <1>1, <1>2, <1>3, <1>4, <1>6, <1>7, <1>8, <1>9, <1>10, <1>11
        DEF Next, cpdma_chan_stop, Engine

LEMMA PointerTypesStep ==
  PointerTypes /\ [Next]_vars => PointerTypes'
<1> SUFFICES ASSUME PointerTypes, [Next]_vars PROVE PointerTypes'
  OBVIOUS
<1> USE BoundsAssumption DEF PointerTypes, chan, desc, dma, cpu
<1>z. 0 \notin Descs
  BY DEF Descs
<1>1. ASSUME NEW d \in Descs, cpdma_chan_submit(d) PROVE PointerTypes'
  <2> USE DEF cpdma_chan_submit
  <2>1. nsub' \in 0..MaxSubmit /\ nsub + 1 \in 1..MaxSubmit
    BY <1>1
  <2>2. token' \in [Descs -> 0..MaxSubmit] /\ used' \subseteq Descs
    BY <1>1, <2>1
  <2>3. Numbered' = Numbered \cup {d}
    BY <1>1, <2>1, <2>2 DEF Numbered
  <2>4. d \in Numbered' /\ Numbered \subseteq Numbered'
    BY <2>3
  <2>5. next' \in [Descs -> Numbered' \cup {0}]
    BY <1>1, <2>4
  <2>6. /\ head' \in Numbered' \cup {0} /\ tail' \in Numbered' \cup {0}
        /\ hcur' \in Numbered' \cup {0} /\ hnext' \in Numbered' \cup {0}
        /\ cp' \in Descs \cup {0} /\ prev' \in Descs \cup {0}
    BY <1>1, <2>4 DEF WriteHdp, Numbered
  <2> QED BY <2>1, <2>2, <2>5, <2>6
<1>n. ASSUME token' = token PROVE Numbered' = Numbered
  BY <1>n DEF Numbered
<1>2. CASE SubmitCheckEoq
  BY <1>2, <1>n DEF SubmitCheckEoq, WriteHdp
<1>3. CASE cpsw_interrupt \/ PollEnds \/ PollAgain
  BY <1>3, <1>n DEF cpsw_interrupt, PollEnds, PollAgain
<1>d. ASSUME Dequeue PROVE /\ head' \in Numbered \cup {0} /\ used' \subseteq Descs
                           /\ hcur' \in Numbered \cup {0}
  BY <1>d DEF Dequeue, WriteHdp, HeadComplete
<1>4. CASE PollDequeues
  BY <1>4, <1>d, <1>n DEF PollDequeues
<1>5. CASE cpdma_chan_start
  BY <1>5, <1>n DEF cpdma_chan_start, WriteHdp
<1>6. CASE StopBegins \/ StopAcknowledged \/ StopTimesOut
  BY <1>6, <1>n DEF StopBegins, StopAcknowledged, StopTimesOut
<1>7. CASE StopDrains
  BY <1>7, <1>d, <1>n DEF StopDrains
<1>8. CASE StopCleans
  <2>1. head # 0 => head \in Descs
    BY DEF Numbered
  <2> QED BY <1>8, <1>n, <2>1 DEF StopCleans
<1>9. CASE Engine
  <2>1. hcur # 0 => hcur \in Descs
    BY DEF Numbered
  <2> QED BY <1>9, <1>n, <2>1 DEF Engine, EngineStarts, EngineTransfers,
                                  EngineCompletes, EngineTearsDown
<1>10. CASE UNCHANGED vars
  BY <1>10, <1>n DEF vars
<1> QED BY <1>1, <1>2, <1>3, <1>4, <1>5, <1>6, <1>7, <1>8, <1>9, <1>10
        DEF Next, cpdma_chan_stop

LEMMA HistoryTypesStep ==
  PointerTypes /\ HistoryTypes /\ [Next]_vars => HistoryTypes'
<1> SUFFICES ASSUME PointerTypes, HistoryTypes, [Next]_vars PROVE HistoryTypes'
  OBVIOUS
<1>h. /\ head # 0 => token[head] \in 1..MaxSubmit
      /\ hcur # 0 => token[hcur] \in 1..MaxSubmit
  BY DEF PointerTypes, Numbered
<1>d. done' \in Seq(1..MaxSubmit)
  <2>1. CASE done' = done
    BY <2>1 DEF HistoryTypes
  <2>2. CASE ChainGet
    BY <1>h, <2>2, AppendProperties DEF HistoryTypes, ChainGet
  <2> QED BY <2>1, <2>2, ChainSteps DEF ChainPut, chainVars
<1>1. CASE EngineTransfers
  BY <1>1, <1>h, <1>d, AppendProperties DEF HistoryTypes, EngineTransfers
<1>2. CASE sent' = sent
  BY <1>2, <1>d DEF HistoryTypes
<1>3. CASE \E d \in Descs : cpdma_chan_submit(d)
  BY <1>2, <1>3 DEF cpdma_chan_submit
<1>4. CASE SubmitCheckEoq \/ cpsw_interrupt \/ PollDequeues \/ PollEnds
           \/ PollAgain \/ cpdma_chan_start
  BY <1>2, <1>4 DEF SubmitCheckEoq, cpsw_interrupt, PollDequeues, PollEnds,
     PollAgain, cpdma_chan_start, dma
<1>5. CASE cpdma_chan_stop
  BY <1>2, <1>5 DEF cpdma_chan_stop, StopBegins, StopAcknowledged, StopTimesOut,
     StopDrains, StopCleans, dma
<1>6. CASE EngineStarts \/ EngineCompletes \/ EngineTearsDown
  BY <1>2, <1>6 DEF EngineStarts, EngineCompletes, EngineTearsDown
<1>7. CASE UNCHANGED vars
  BY <1>2, <1>7 DEF vars, dma
<1> QED BY <1>1, <1>3, <1>4, <1>5, <1>6, <1>7 DEF Next, Engine

TypeInv == ControlTypes /\ FlagTypes /\ PointerTypes /\ HistoryTypes

LEMMA TypeInvHolds == Spec => []TypeInv
<1>1. Init => TypeInv
  <2> SUFFICES ASSUME Init PROVE TypeInv
    OBVIOUS
  <2>1. ControlTypes
    BY PollAssumption, BoundsAssumption DEF Init, ControlTypes
  <2>2. FlagTypes
    BY DEF Init, FlagTypes
  <2>3. PointerTypes
    BY BoundsAssumption DEF Init, PointerTypes
  <2>4. HistoryTypes
    BY DEF Init, HistoryTypes
  <2> QED BY <2>1, <2>2, <2>3, <2>4 DEF TypeInv
<1>2. TypeInv /\ [Next]_vars => TypeInv'
  BY ControlTypesStep, FlagTypesStep, PointerTypesStep, HistoryTypesStep
     DEF TypeInv
<1> QED BY <1>1, <1>2, PTL DEF Spec

\* Every variable keeps its type, and no more buffers are given back than
\* were submitted, whatever the engine does and however often the channel
\* is stopped.
THEOREM TypeCorrect == Spec => []TypeOK
<1>1. TypeInv /\ ChainInv => TypeOK
  <2> SUFFICES ASSUME TypeInv, ChainInv PROVE TypeOK
    OBVIOUS
  <2>1. /\ state \in {"idle", "active", "teardown"}
        /\ hph \in {"start", "busy", "fetched"}
        /\ pc \in {"idle", "chained", "tdwait", "drain", "clean"}
        /\ left \in 0..Quota /\ nstop \in 0..MaxStop
    BY DEF TypeInv, ControlTypes
  <2>2. /\ {owner, eoq, td} \subseteq [Descs -> BOOLEAN]
        /\ {tdreq, tddone, irq, polling} \subseteq BOOLEAN
    BY Zenon DEF TypeInv, FlagTypes
  <2>3. /\ {head, tail, hcur, hnext, cp, prev} \subseteq Descs \cup {0}
        /\ used \subseteq Descs
        /\ next \in [Descs -> Descs \cup {0}]
        /\ token \in [Descs -> 0..MaxSubmit]
        /\ nsub \in 0..MaxSubmit
    BY DEF TypeInv, PointerTypes, Numbered
  <2>4. {sent, done} \subseteq Seq(1..MaxSubmit)
    BY DEF TypeInv, HistoryTypes
  <2>5. Len(done) <= nsub
    BY DEF ChainInv, ChainTypes
  <2> QED BY <2>1, <2>2, <2>3, <2>4, <2>5 DEF TypeOK
<1> QED BY <1>1, TypeInvHolds, ChainInvHolds, PTL

-----------------------------------------------------------------------------
(* The engine and the driver, until the channel is first stopped.          *)

\* No teardown is under way, and the driver is at most between the two parts
\* of a submit.
Undisturbed ==
  /\ state # "teardown" /\ ~tdreq
  /\ \A d \in Descs : ~td[d]
  /\ pc \in {"idle", "chained"}

\* Buffers are given back after they are transferred and transferred after
\* they are submitted; none before the channel is started.
Progress ==
  /\ Len(done) <= Len(sent) /\ Len(sent) <= nsub
  /\ state = "idle" => Len(sent) = 0

\* The engine is at the next buffer to transfer, or at the one it has just
\* transferred; then the successor it has read is the next one.
EngineAt ==
  /\ hcur # 0 => hcur \in used /\ state = "active"
  /\ hcur # 0 /\ hph # "fetched" => token[hcur] = Len(sent) + 1
  /\ hcur # 0 /\ hph = "fetched" =>
       /\ token[hcur] = Len(sent)
       /\ hnext = 0 \/ (hnext \in used /\ token[hnext] = Len(sent) + 1)

\* The engine owns what it has not transferred and what it is at.
OwnerExact == \A d \in used : owner[d] <=> (token[d] > Len(sent) \/ d = hcur)

\* Only the buffer transferred last can bear EOQ, and then the engine is idle.
EoqExact == \A d \in used : eoq[d] => token[d] = Len(sent) /\ ~owner[d] /\ hcur = 0

\* Between the two parts of a submit, prev is the last descriptor but one.
PrevExact == pc = "chained" => prev \in used /\ token[prev] = nsub - 1

\* Inductive together with ChainInv and the types.
EngineInv ==
  /\ Undisturbed /\ Progress /\ EngineAt /\ OwnerExact /\ EoqExact /\ PrevExact
  /\ TransferredInOrder

\* What the cases below share.
EngineTypes ==
  /\ Len(sent) \in Nat /\ Len(done) \in Nat /\ nsub \in 0..MaxSubmit
  /\ sent \in Seq(1..MaxSubmit)
  /\ 0 \notin Descs /\ used \subseteq Descs
  /\ token \in [Descs -> Nat]
  /\ next \in [Descs -> Descs \cup {0}]
  /\ owner \in [Descs -> BOOLEAN] /\ eoq \in [Descs -> BOOLEAN]
  /\ hcur \in Descs \cup {0} /\ hnext \in Descs \cup {0}
  /\ hph \in {"start", "busy", "fetched"}

LEMMA EngineTypesHold == ChainInv /\ TypeInv => EngineTypes
<1> SUFFICES ASSUME ChainInv, TypeInv PROVE EngineTypes
  OBVIOUS
<1>1. Len(sent) \in Nat /\ Len(done) \in Nat
  BY LenProperties DEF TypeInv, HistoryTypes
<1>2. 0 \notin Descs
  BY DEF Descs
<1>3. hcur \in Descs \cup {0} /\ hnext \in Descs \cup {0}
  BY DEF TypeInv, PointerTypes, Numbered
<1> QED BY <1>1, <1>2, <1>3
        DEF EngineTypes, ChainInv, ChainTypes, TypeInv, FlagTypes, HistoryTypes,
            ControlTypes, PointerTypes

\* The first descriptor of an empty chain.
LEMMA SubmitFirst ==
  ASSUME EngineTypes, ChainInv, EngineInv, NEW d \in Descs,
         cpdma_chan_submit(d), head = 0
  PROVE  EngineInv'
<1> USE DEF EngineTypes
<1>1. Len(done) = nsub /\ Len(sent) = nsub /\ used = {} /\ hcur = 0
  <2>1. Len(done) = nsub
    BY DEF ChainInv, EndsExact, ChainTypes
  <2>2. used = {}
    BY <2>1 DEF ChainInv, TokensExact, Pending
  <2> QED BY <2>1, <2>2 DEF EngineInv, Progress, EngineAt
<1>2. /\ used' = {d} /\ token'[d] = nsub + 1 /\ owner'[d] /\ ~eoq'[d]
      /\ nsub' = nsub + 1 /\ sent' = sent /\ done' = done /\ pc' = "idle"
      /\ state' = state /\ state # "teardown" /\ tdreq' = tdreq
      /\ td' = [td EXCEPT ![d] = FALSE]
      /\ pc' = pc
      /\ hcur' = (IF state = "active" THEN d ELSE 0)
      /\ hcur' # 0 => hph' = "start"
  BY <1>1 DEF cpdma_chan_submit, WriteHdp
<1>3. Undisturbed'
  BY <1>2 DEF EngineInv, Undisturbed
<1>4. Progress'
  BY <1>1, <1>2 DEF EngineInv, Progress
<1>5. EngineAt'
  BY <1>1, <1>2 DEF EngineAt
<1>6. OwnerExact'
  BY <1>1, <1>2 DEF OwnerExact
<1>7. EoqExact' /\ PrevExact'
  BY <1>1, <1>2 DEF EoqExact, PrevExact
<1>8. TransferredInOrder'
  BY <1>2 DEF EngineInv, TransferredInOrder
<1> QED BY <1>3, <1>4, <1>5, <1>6, <1>7, <1>8 DEF EngineInv

\* Chained to a predecessor the engine may be about to leave.
LEMMA SubmitChained ==
  ASSUME EngineTypes, ChainInv, EngineInv, NEW d \in Descs,
         cpdma_chan_submit(d), head # 0
  PROVE  EngineInv'
<1> USE DEF EngineTypes
<1>1. Len(done) < nsub /\ tail \in used /\ token[tail] = nsub
  BY DEF ChainInv, EndsExact, ChainTypes
<1>2. /\ used' = used \cup {d} /\ d \notin used
      /\ token'[d] = nsub + 1 /\ owner'[d] /\ ~eoq'[d]
      /\ \A e \in used : /\ token'[e] = token[e]
                         /\ owner'[e] <=> owner[e]
                         /\ eoq'[e] <=> eoq[e]
      /\ nsub' = nsub + 1 /\ sent' = sent /\ done' = done
      /\ pc' = "chained" /\ prev' = tail
      /\ state' = state /\ tdreq' = tdreq
      /\ td' = [td EXCEPT ![d] = FALSE]
      /\ UNCHANGED <<hcur, hph, hnext>>
  BY <1>1 DEF cpdma_chan_submit
<1>3. Undisturbed'
  BY <1>2 DEF EngineInv, Undisturbed
<1>4. Progress'
  BY <1>2 DEF EngineInv, Progress
<1>5. EngineAt'
  BY <1>2 DEF EngineInv, EngineAt
<1>6. OwnerExact'
  BY <1>2 DEF EngineInv, OwnerExact, Progress, EngineAt
<1>7. EoqExact'
  BY <1>2 DEF EngineInv, EoqExact
<1>8. PrevExact'
  BY <1>1, <1>2 DEF PrevExact
<1>9. TransferredInOrder'
  BY <1>2 DEF EngineInv, TransferredInOrder
<1> QED BY <1>3, <1>4, <1>5, <1>6, <1>7, <1>8, <1>9 DEF EngineInv

\* The end of the queue found by submit: the engine stopped at prev, before
\* it saw the new descriptor, and is started there.
LEMMA EoqInSubmit ==
  ASSUME EngineTypes, ChainInv, EngineInv, SubmitCheckEoq
  PROVE  EngineInv'
<1> USE DEF EngineTypes, chan
<1>1. /\ pc = "chained" /\ prev \in used /\ token[prev] = nsub - 1
      /\ pc' = "idle"
      /\ UNCHANGED <<state, used, token, owner, td, nsub, sent, done, hnext, tdreq>>
  BY DEF SubmitCheckEoq, EngineInv, PrevExact
<1>2. Undisturbed' /\ Progress' /\ PrevExact' /\ TransferredInOrder'
  BY <1>1 DEF EngineInv, Undisturbed, Progress, PrevExact, TransferredInOrder
<1>3. CASE eoq[prev] /\ ~owner[prev] /\ state = "active"
  <2>1. /\ hcur' = tail /\ hph' = "start" /\ eoq' = [eoq EXCEPT ![prev] = FALSE]
    BY <1>3 DEF SubmitCheckEoq, WriteHdp
  <2>2. Len(sent) = nsub - 1 /\ hcur = 0
    BY <1>1, <1>3 DEF EngineInv, EoqExact
  <2>3. tail \in used /\ token[tail] = nsub
    <3>1. Len(done) < nsub
      BY <2>2 DEF EngineInv, Progress
    <3> QED BY <3>1 DEF ChainInv, EndsExact
  <2>4. EngineAt'
    BY <1>1, <1>3, <2>1, <2>2, <2>3 DEF EngineAt
  <2>5. OwnerExact'
    BY <1>1, <2>1, <2>2, <2>3 DEF EngineInv, OwnerExact
  <2>6. \A e \in used : ~eoq'[e]
    BY <1>1, <2>1, <2>2 DEF EngineInv, EoqExact, ChainInv, TokensExact
  <2>7. EoqExact'
    BY <1>1, <2>6 DEF EoqExact
  <2> QED BY <1>2, <2>4, <2>5, <2>7 DEF EngineInv
<1>4. CASE ~(eoq[prev] /\ ~owner[prev] /\ state = "active")
  <2>1. UNCHANGED <<eoq, hcur, hph>>
    BY <1>4 DEF SubmitCheckEoq
  <2>2. EngineAt' /\ OwnerExact' /\ EoqExact'
    BY <1>1, <2>1 DEF EngineInv, EngineAt, OwnerExact, EoqExact
  <2> QED BY <1>2, <2>2 DEF EngineInv
<1> QED BY <1>3, <1>4

\* The end of the queue found by process: the engine stopped at the head
\* before it saw its successor, and is started there.
LEMMA EoqInProcess ==
  ASSUME EngineTypes, ChainInv, EngineInv, PollDequeues
  PROVE  EngineInv'
<1> USE DEF EngineTypes, desc
<1>1. /\ state = "active" /\ pc = "idle"
      /\ head \in Descs /\ ~owner[head]
      /\ used' = used \ {head} /\ done' = Append(done, token[head])
      /\ UNCHANGED <<state, next, owner, eoq, td, token, hnext, tdreq, sent, pc,
                     prev, nsub>>
  BY DEF PollDequeues, Dequeue, HeadComplete
<1>2. head \in used /\ token[head] = Len(done) + 1
  BY <1>1 DEF ChainInv, EndsExact, ChainTypes
<1>3. Len(done') = Len(done) + 1
  BY <1>1, <1>2, AppendProperties DEF ChainInv, ChainTypes
<1>4. Len(done) + 1 <= Len(sent) /\ head # hcur
  BY <1>1, <1>2 DEF EngineInv, OwnerExact
<1>5. Undisturbed' /\ Progress' /\ PrevExact' /\ TransferredInOrder'
  BY <1>1, <1>3, <1>4
     DEF EngineInv, Undisturbed, Progress, PrevExact, TransferredInOrder
<1>6. CASE eoq[head] /\ next[head] # 0 /\ ~td[head]
  <2>1. hcur' = next[head] /\ hph' = "start"
    BY <1>6 DEF PollDequeues, Dequeue, WriteHdp
  <2>2. token[head] = Len(sent) /\ hcur = 0
    BY <1>2, <1>6 DEF EngineInv, EoqExact
  <2>3. next[head] \in used /\ token[next[head]] = Len(sent) + 1
    BY <1>2, <1>6, <2>2 DEF ChainInv, Linked, EngineInv, Progress
  <2>4. EngineAt'
    BY <1>1, <2>1, <2>2, <2>3 DEF EngineAt
  <2>5. OwnerExact'
    BY <1>1, <2>1, <2>2, <2>3 DEF EngineInv, OwnerExact
  <2>6. \A e \in used' : ~eoq'[e]
    BY <1>1, <1>2, <2>2 DEF EngineInv, EoqExact, ChainInv, TokensExact
  <2>7. EoqExact'
    BY <1>1, <2>6 DEF EoqExact
  <2> QED BY <1>5, <2>4, <2>5, <2>7 DEF EngineInv
<1>7. CASE ~(eoq[head] /\ next[head] # 0 /\ ~td[head])
  <2>1. UNCHANGED <<hcur, hph>>
    BY <1>7 DEF PollDequeues, Dequeue
  <2>2. EngineAt'
    BY <1>1, <1>2, <1>4, <2>1 DEF EngineInv, EngineAt
  <2>3. OwnerExact' /\ EoqExact'
    BY <1>1, <2>1 DEF EngineInv, OwnerExact, EoqExact
  <2> QED BY <1>5, <2>2, <2>3 DEF EngineInv
<1> QED BY <1>6, <1>7

\* Starting the channel, with what was submitted to it before.
LEMMA StartKeepsEngineInv ==
  ASSUME EngineTypes, ChainInv, EngineInv, cpdma_chan_start
  PROVE  EngineInv'
<1> USE DEF EngineTypes, desc, cpu
<1>1. /\ state = "idle" /\ state' = "active" /\ pc = "idle"
      /\ UNCHANGED <<used, next, owner, eoq, td, token, hnext, tdreq, sent, pc,
                     prev, nsub, done>>
      /\ IF head # 0 THEN hcur' = head /\ hph' = "start"
         ELSE UNCHANGED <<hcur, hph>>
  BY DEF cpdma_chan_start, WriteHdp
<1>2. Len(sent) = 0 /\ Len(done) = 0 /\ hcur = 0
  BY <1>1 DEF EngineInv, Progress, EngineAt
<1>3. head # 0 => head \in used /\ token[head] = 1
  BY <1>2 DEF ChainInv, EndsExact, ChainTypes
<1>4. Undisturbed' /\ Progress' /\ PrevExact' /\ TransferredInOrder'
  BY <1>1, <1>2
     DEF EngineInv, Undisturbed, Progress, PrevExact, TransferredInOrder
<1>5. EngineAt'
  BY <1>1, <1>2, <1>3 DEF EngineAt
<1>6. \A e \in used : token[e] > 0
  BY <1>2 DEF ChainInv, TokensExact, Pending
<1>7. OwnerExact' /\ EoqExact'
  BY <1>1, <1>2, <1>6 DEF EngineInv, OwnerExact, EoqExact
<1> QED BY <1>4, <1>5, <1>7 DEF EngineInv

\* The engine transfers the buffer that is next, and reads its successor.
LEMMA TransferKeepsEngineInv ==
  ASSUME EngineTypes, ChainInv, EngineInv, EngineTransfers
  PROVE  EngineInv'
<1> USE DEF EngineTypes, chan, desc, cpu
<1>1. /\ hcur # 0 /\ hph = "busy" /\ hph' = "fetched"
      /\ sent' = Append(sent, token[hcur]) /\ hnext' = next[hcur]
      /\ UNCHANGED <<state, used, next, owner, eoq, td, token, hcur, tdreq, pc,
                     prev, nsub, done>>
  BY DEF EngineTransfers
<1>2. hcur \in used /\ token[hcur] = Len(sent) + 1 /\ state = "active"
  BY <1>1 DEF EngineInv, EngineAt
<1>3. token[hcur] <= nsub /\ token[hcur] \in 1..MaxSubmit
  BY <1>2, BoundsAssumption DEF ChainInv, TokensExact, Pending, ChainTypes
<1>4. /\ Len(sent') = Len(sent) + 1
      /\ \A i \in 1..Len(sent) : sent'[i] = sent[i]
      /\ sent'[Len(sent) + 1] = Len(sent) + 1
  BY <1>1, <1>2, <1>3, AppendProperties
<1>5. Undisturbed' /\ Progress' /\ PrevExact'
  BY <1>1, <1>2, <1>3, <1>4 DEF EngineInv, Undisturbed, Progress, PrevExact
<1>6. EngineAt'
  BY <1>1, <1>2, <1>3, <1>4 DEF EngineAt, ChainInv, Linked
<1>7. OwnerExact'
  BY <1>1, <1>2, <1>4 DEF EngineInv, OwnerExact, ChainInv, TokensExact
<1>8. EoqExact'
  BY <1>1 DEF EngineInv, EoqExact
<1>9. TransferredInOrder'
  BY <1>1, <1>2, <1>3, <1>4, AppendProperties DEF EngineInv, TransferredInOrder
<1> QED BY <1>5, <1>6, <1>7, <1>8, <1>9 DEF EngineInv

\* It hands the descriptor back and goes to the successor it has read.
LEMMA CompleteKeepsEngineInv ==
  ASSUME EngineTypes, ChainInv, EngineInv, EngineCompletes
  PROVE  EngineInv'
<1> USE DEF EngineTypes, chan, cpu
<1>1. /\ hcur # 0 /\ hph = "fetched" /\ hph' = "start"
      /\ hcur' = hnext
      /\ owner' = [owner EXCEPT ![hcur] = FALSE]
      /\ eoq' = [eoq EXCEPT ![hcur] = (hnext = 0)]
      /\ UNCHANGED <<state, used, next, td, token, hnext, tdreq, pc, prev, nsub,
                     sent, done>>
  BY DEF EngineCompletes
<1>2. /\ hcur \in used /\ token[hcur] = Len(sent) /\ state = "active"
      /\ hnext # 0 => hnext \in used /\ token[hnext] = Len(sent) + 1
  BY <1>1 DEF EngineInv, EngineAt
<1>3. Undisturbed' /\ Progress' /\ PrevExact' /\ TransferredInOrder'
  BY <1>1 DEF EngineInv, Undisturbed, Progress, PrevExact, TransferredInOrder
<1>4. EngineAt'
  BY <1>1, <1>2 DEF EngineAt
<1>5. OwnerExact'
  BY <1>1, <1>2 DEF EngineInv, OwnerExact
<1>6. \A e \in used : e # hcur => ~eoq'[e]
  BY <1>1 DEF EngineInv, EoqExact
<1>7. hnext # 0 => ~eoq'[hcur]
  BY <1>1, <1>2
<1>8. ~owner'[hcur]
  BY <1>1, <1>2
<1>9. EoqExact'
  BY <1>1, <1>2, <1>6, <1>7, <1>8 DEF EoqExact
<1> QED BY <1>3, <1>4, <1>5, <1>9 DEF EngineInv

LEMMA EngineInvHolds == Spec => [](nstop = 0 => EngineInv)
<1>1. Init => EngineInv
  <2> SUFFICES ASSUME Init PROVE EngineInv
    OBVIOUS
  <2>1. Undisturbed
    BY DEF Init, Undisturbed
  <2>2. Progress /\ TransferredInOrder
    BY DEF Init, Progress, TransferredInOrder
  <2>3. EngineAt /\ OwnerExact /\ EoqExact /\ PrevExact
    BY DEF Init, EngineAt, OwnerExact, EoqExact, PrevExact
  <2> QED BY <2>1, <2>2, <2>3 DEF EngineInv
<1>2. ASSUME ChainInv, TypeInv, nstop = 0 => EngineInv, [Next]_vars
      PROVE  (nstop = 0 => EngineInv)'
  <2> SUFFICES ASSUME nstop' = 0 PROVE EngineInv'
    OBVIOUS
  <2>t. EngineTypes
    BY <1>2, EngineTypesHold
  <2>n. nstop = 0
    <3>1. nstop \in Nat
      BY <1>2, BoundsAssumption DEF TypeInv, ControlTypes
    <3>2. CASE StopBegins
      BY <3>1, <3>2 DEF StopBegins
    <3>3. CASE UNCHANGED nstop
      BY <3>3
    <3>4. CASE \E d \in Descs : cpdma_chan_submit(d)
      BY <3>3, <3>4 DEF cpdma_chan_submit
    <3>5. CASE SubmitCheckEoq \/ cpsw_interrupt \/ PollDequeues \/ PollEnds
               \/ PollAgain \/ cpdma_chan_start
      BY <3>3, <3>5 DEF SubmitCheckEoq, cpsw_interrupt, PollDequeues, PollEnds,
         PollAgain, cpdma_chan_start, cpu
    <3>6. CASE StopAcknowledged \/ StopTimesOut \/ StopDrains \/ StopCleans
      BY <3>3, <3>6 DEF StopAcknowledged, StopTimesOut, StopDrains, StopCleans
    <3>7. CASE Engine
      BY <3>3, <3>7 DEF Engine, EngineStarts, EngineTransfers, EngineCompletes,
         EngineTearsDown, cpu
    <3>8. CASE UNCHANGED vars
      BY <3>3, <3>8 DEF vars, cpu
    <3> QED BY <1>2, <3>2, <3>4, <3>5, <3>6, <3>7, <3>8 DEF Next, cpdma_chan_stop
  <2>i. EngineInv
    BY <1>2, <2>n
  <2>u. pc \in {"idle", "chained"} /\ ~tdreq
    BY <2>i DEF EngineInv, Undisturbed
  <2>1. CASE \E d \in Descs : cpdma_chan_submit(d)
    BY <1>2, <2>t, <2>i, <2>1, SubmitFirst, SubmitChained
  <2>2. CASE SubmitCheckEoq
    BY <1>2, <2>t, <2>i, <2>2, EoqInSubmit
  <2>3. CASE PollDequeues
    BY <1>2, <2>t, <2>i, <2>3, EoqInProcess
  <2>4. CASE cpdma_chan_start
    BY <1>2, <2>t, <2>i, <2>4, StartKeepsEngineInv
  <2>5. CASE cpdma_chan_stop
    <3>1. StopBegins
      BY <2>5, <2>u DEF cpdma_chan_stop, StopAcknowledged, StopTimesOut,
         StopDrains, StopCleans
    <3> QED BY <2>n, <3>1 DEF StopBegins
  <2>6. CASE EngineTransfers
    BY <1>2, <2>t, <2>i, <2>6, TransferKeepsEngineInv
  <2>7. CASE EngineCompletes
    BY <1>2, <2>t, <2>i, <2>7, CompleteKeepsEngineInv
  <2>8. CASE EngineTearsDown
    BY <2>8, <2>u DEF EngineTearsDown
  <2>9. CASE cpsw_interrupt \/ PollEnds \/ PollAgain \/ EngineStarts
             \/ UNCHANGED vars
    <3>1. /\ UNCHANGED <<state, used, next, owner, eoq, td, token, hcur, hnext,
                         tdreq, pc, prev, nsub, sent, done>>
          /\ hph' = hph \/ (hph = "start" /\ hph' = "busy")
      BY <2>9 DEF cpsw_interrupt, PollEnds, PollAgain, EngineStarts, vars, chan,
         desc, dma, cpu
    <3>2. Undisturbed' /\ Progress' /\ PrevExact' /\ TransferredInOrder'
      BY <2>i, <3>1
         DEF EngineInv, Undisturbed, Progress, PrevExact, TransferredInOrder
    <3>3. EngineAt' /\ OwnerExact' /\ EoqExact'
      BY <2>i, <3>1 DEF EngineInv, EngineAt, OwnerExact, EoqExact
    <3> QED BY <3>2, <3>3 DEF EngineInv
  <2> QED BY <1>2, <2>1, <2>2, <2>3, <2>4, <2>5, <2>6, <2>7, <2>8, <2>9
          DEF Next, Engine
<1> QED BY <1>1, <1>2, ChainInvHolds, TypeInvHolds, PTL DEF Spec

\* Until the channel is first stopped, the engine works only on descriptors
\* that are allocated and handed to it.  (A stop takes them back from under
\* it when the teardown is not acknowledged in time.)
THEOREM EngineOwnsItsDescriptorUntilStop ==
  Spec => [](nstop = 0 => EngineOwnsItsDescriptor)
<1>1. EngineInv => EngineOwnsItsDescriptor
  BY DEF EngineInv, EngineAt, OwnerExact, EngineOwnsItsDescriptor
<1> QED BY <1>1, EngineInvHolds, PTL

\* Until then each buffer is transferred once, in the order of submission:
\* neither submit nor process writes hdp so that the engine skips or repeats
\* one, however the end of the queue races with new submissions.
THEOREM TransferredInOrderUntilStop ==
  Spec => [](nstop = 0 => TransferredInOrder)
<1>1. EngineInv => TransferredInOrder
  BY DEF EngineInv
<1> QED BY <1>1, EngineInvHolds, PTL

\* Until then no buffer is given back before it was transferred.
THEOREM GivenBackAfterTransferUntilStop ==
  Spec => [](nstop = 0 => GivenBackAfterTransfer)
<1>1. EngineInv => GivenBackAfterTransfer
  BY DEF EngineInv, Progress, GivenBackAfterTransfer
<1> QED BY <1>1, EngineInvHolds, PTL

\* On a channel that is never stopped, software writes hdp only while the
\* engine is idle.
THEOREM HdpIsWrittenWhenIdle ==
  ASSUME MaxStop = 0
  PROVE  Spec => HdpWrittenWhenIdle
<1>1. TypeInv => nstop = 0
  BY BoundsAssumption DEF TypeInv, ControlTypes
<1>2. ASSUME ChainInv, TypeInv, EngineInv, [Next]_vars
      PROVE  [hcur # 0 /\ hcur' # hcur =>
                (hph = "fetched" /\ hcur' = hnext) \/ (tdreq /\ hcur' = 0)]_vars
  <2> SUFFICES ASSUME Next, hcur # 0, hcur' # hcur
               PROVE  hph = "fetched" /\ hcur' = hnext
    BY <1>2
  <2>i. /\ hcur \in used /\ state = "active" /\ pc \in {"idle", "chained"}
        /\ ~tdreq /\ \A d \in used : ~eoq[d]
        /\ head # 0
        /\ head \in used /\ prev \in Descs \cup {0}
    <3>1. hcur \in used /\ state = "active" /\ \A d \in used : ~eoq[d]
      BY <1>2 DEF EngineInv, EngineAt, EoqExact
    <3>2. pc \in {"idle", "chained"} /\ ~tdreq
      BY <1>2 DEF EngineInv, Undisturbed
    <3>3. head # 0 /\ head \in used
      <4>1. token[hcur] \in Pending
        BY <1>2, <3>1 DEF ChainInv, TokensExact
      <4>2. Len(done) < nsub
        BY <1>2, <4>1, LenProperties DEF Pending, ChainInv, ChainTypes
      <4> QED BY <1>2, <4>2 DEF ChainInv, EndsExact, ChainTypes, Descs
    <3> QED BY <1>2, <3>1, <3>2, <3>3 DEF TypeInv, PointerTypes
  <2>1. CASE \E d \in Descs : cpdma_chan_submit(d)
    BY <2>1, <2>i DEF cpdma_chan_submit
  <2>2. CASE SubmitCheckEoq
    BY <1>2, <2>2, <2>i DEF SubmitCheckEoq, EngineInv, PrevExact
  <2>3. CASE PollDequeues
    BY <2>3, <2>i DEF PollDequeues, Dequeue
  <2>4. CASE cpsw_interrupt \/ PollEnds \/ PollAgain
    BY <2>4 DEF cpsw_interrupt, PollEnds, PollAgain, dma
  <2>5. CASE cpdma_chan_start
    BY <2>5, <2>i DEF cpdma_chan_start
  <2>6. CASE cpdma_chan_stop
    BY <2>6, <2>i DEF cpdma_chan_stop, StopBegins, StopAcknowledged,
       StopTimesOut, StopDrains, StopCleans
  <2>7. CASE Engine
    BY <2>7, <2>i DEF Engine, EngineStarts, EngineTransfers, EngineCompletes,
       EngineTearsDown
  <2> QED BY <2>1, <2>2, <2>3, <2>4, <2>5, <2>6, <2>7 DEF Next
<1> QED BY <1>1, <1>2, ChainInvHolds, TypeInvHolds, EngineInvHolds, PTL
        DEF Spec, HdpWrittenWhenIdle
=============================================================================
