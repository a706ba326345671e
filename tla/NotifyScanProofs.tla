-------------------------- MODULE NotifyScanProofs --------------------------
(***************************************************************************)
(* Proofs about the receiver of NotifyShm: the registration chart, the     *)
(* scan of the mailbox work, and what both guarantee for a flagged event,  *)
(* for any number of senders and events and any sequence of control calls. *)
(***************************************************************************)
EXTENDS NotifyShmProofs, SequenceTheorems, WellFoundedInduction

-----------------------------------------------------------------------------
(* Operators of the library.                                               *)

LEMMA MinOfTwo ==
  ASSUME NEW a \in Int, NEW b \in Int
  PROVE  Min({a, b}) = (IF a <= b THEN a ELSE b)
<1>1. \A x \in {a, b} : (\A y \in {a, b} : x <= y) <=> x = (IF a <= b THEN a ELSE b)
  OBVIOUS
<1> QED BY <1>1 DEF Min

LEMMA MaxOfTwo ==
  ASSUME NEW a \in Int, NEW b \in Int
  PROVE  Max({a, b}) = (IF a >= b THEN a ELSE b)
<1>1. \A x \in {a, b} : (\A y \in {a, b} : x >= y) <=> x = (IF a >= b THEN a ELSE b)
  OBVIOUS
<1> QED BY <1>1 DEF Max

\* Inserting an element shifts the later ones up ...
LEMMA InsertAtProperties ==
  ASSUME NEW S, NEW s \in Seq(S), NEW p \in 1..Len(s) + 1, NEW e \in S
  PROVE  /\ InsertAt(s, p, e) \in Seq(S)
         /\ Len(InsertAt(s, p, e)) = Len(s) + 1
         /\ \A i \in 1..Len(s) + 1 :
              InsertAt(s, p, e)[i] = IF i < p THEN s[i]
                                     ELSE IF i = p THEN e ELSE s[i - 1]
<1> DEFINE a == SubSeq(s, 1, p - 1)
           b == SubSeq(s, p, Len(s))
<1>t. Len(s) \in Nat
  BY LenProperties
<1>1. /\ a \in Seq(S) /\ Len(a) = p - 1
      /\ \A i \in 1..p - 1 : a[i] = s[i]
  BY <1>t
<1>2. /\ b \in Seq(S) /\ Len(b) = Len(s) - p + 1
      /\ \A i \in 1..Len(s) - p + 1 : b[i] = s[p + i - 1]
  BY <1>t
<1> HIDE DEF a, b
<1>3. /\ a \o <<e>> \in Seq(S) /\ Len(a \o <<e>>) = p
      /\ \A i \in 1..p - 1 : (a \o <<e>>)[i] = s[i]
      /\ (a \o <<e>>)[p] = e
  BY <1>1
<1> DEFINE c == a \o <<e>>
<1> HIDE DEF c
<1>4. /\ c \o b \in Seq(S) /\ Len(c \o b) = Len(s) + 1
      /\ \A i \in 1..p : (c \o b)[i] = c[i]
      /\ \A i \in p + 1..Len(s) + 1 : (c \o b)[i] = b[i - p]
  <2>1. c \in Seq(S) /\ Len(c) = p /\ b \in Seq(S) /\ Len(c) + Len(b) = Len(s) + 1
    BY <1>2, <1>3, <1>t DEF c
  <2>2. /\ c \o b \in Seq(S) /\ Len(c \o b) = Len(c) + Len(b)
        /\ \A i \in 1..Len(c) + Len(b) :
             (c \o b)[i] = IF i <= Len(c) THEN c[i] ELSE b[i - Len(c)]
    BY <2>1, ConcatProperties, Zenon
  <2>3. /\ \A i \in 1..p : i \in 1..Len(s) + 1 /\ i <= p
        /\ \A i \in p + 1..Len(s) + 1 : i \in 1..Len(s) + 1 /\ ~(i <= p)
    BY <1>t
  <2> QED BY <2>1, <2>2, <2>3
<1>5. \A i \in p + 1..Len(s) + 1 : b[i - p] = s[i - 1]
  BY <1>2, <1>t
<1>6. InsertAt(s, p, e) = c \o b
  BY DEF InsertAt, a, b, c
<1>7. \A i \in 1..p - 1 : (c \o b)[i] = s[i]
  BY <1>3, <1>4, <1>t DEF c
<1>8. (c \o b)[p] = e
  BY <1>3, <1>4, <1>t DEF c
<1>9. \A i \in p + 1..Len(s) + 1 : (c \o b)[i] = s[i - 1]
  BY <1>4, <1>5
<1> DEFINE r == c \o b
<1> HIDE DEF r
<1>10. ASSUME NEW i \in 1..Len(s) + 1
       PROVE  r[i] = IF i < p THEN s[i] ELSE IF i = p THEN e ELSE s[i - 1]
  <2>1. CASE i < p
    <3>1. i \in 1..p - 1 BY <2>1, <1>t
    <3> QED BY <2>1, <3>1, <1>7 DEF r
  <2>2. CASE i = p
    BY <2>2, <1>8 DEF r
  <2>3. CASE i > p
    <3>1. i \in p + 1..Len(s) + 1 /\ ~(i < p) /\ i # p BY <2>3, <1>t
    <3> QED BY <3>1, <1>9 DEF r
  <2> QED BY <2>1, <2>2, <2>3, <1>t
<1> QED BY <1>4, <1>6, <1>10 DEF r

\* ... and removing one shifts them down.
LEMMA RemoveAtProperties ==
  ASSUME NEW S, NEW s \in Seq(S), NEW p \in 1..Len(s)
  PROVE  /\ RemoveAt(s, p) \in Seq(S)
         /\ Len(RemoveAt(s, p)) = Len(s) - 1
         /\ \A i \in 1..Len(s) - 1 :
              RemoveAt(s, p)[i] = IF i < p THEN s[i] ELSE s[i + 1]
<1> DEFINE a == SubSeq(s, 1, p - 1)
           b == SubSeq(s, p + 1, Len(s))
<1>t. Len(s) \in Nat
  BY LenProperties
<1>1. /\ a \in Seq(S) /\ Len(a) = p - 1
      /\ \A i \in 1..p - 1 : a[i] = s[i]
  BY <1>t
<1>2. /\ b \in Seq(S) /\ Len(b) = Len(s) - p
      /\ \A i \in 1..Len(s) - p : b[i] = s[p + i]
  BY <1>t
<1> HIDE DEF a, b
<1>3. /\ a \o b \in Seq(S) /\ Len(a \o b) = Len(s) - 1
      /\ \A i \in 1..p - 1 : (a \o b)[i] = a[i]
      /\ \A i \in p..Len(s) - 1 : (a \o b)[i] = b[i - p + 1]
  <2>1. /\ a \o b \in Seq(S) /\ Len(a \o b) = Len(a) + Len(b)
        /\ \A i \in 1..Len(a) + Len(b) :
             (a \o b)[i] = IF i <= Len(a) THEN a[i] ELSE b[i - Len(a)]
    BY <1>1, <1>2, ConcatProperties
  <2> DEFINE r == a \o b
  <2> HIDE DEF r
  <2>2. \A i \in 1..Len(s) - 1 :
          r[i] = IF i <= p - 1 THEN a[i] ELSE b[i - (p - 1)]
    BY <2>1, <1>1, <1>2, <1>t DEF r
  <2>3. \A i \in p..Len(s) - 1 : r[i] = b[i - p + 1]
    <3> SUFFICES ASSUME NEW i \in p..Len(s) - 1 PROVE r[i] = b[i - p + 1]
      OBVIOUS
    <3>1. i \in 1..Len(s) - 1 /\ ~(i <= p - 1) /\ i - (p - 1) = i - p + 1
      BY <1>t
    <3> QED BY <2>2, <3>1
  <2> QED BY <2>1, <2>2, <2>3, <1>1, <1>2, <1>t DEF r
<1>4. \A i \in p..Len(s) - 1 : b[i - p + 1] = s[i + 1]
  BY <1>2, <1>t
<1>5. RemoveAt(s, p) = a \o b
  BY DEF RemoveAt, a, b
<1> QED BY <1>1, <1>3, <1>4, <1>5, <1>t

\* A nonempty set of natural numbers contains its Min ...
LEMMA MinIsLeast ==
  ASSUME NEW S \in SUBSET Nat, S # {}
  PROVE  Min(S) \in S /\ \A y \in S : Min(S) <= y
<1>1. PICK x \in S : \A y \in S : ~(<<y, x>> \in OpToRel(<, Nat))
  BY NatLessThanWellFounded, WFMin
<1>2. \A y \in S : ~(y < x)
  BY <1>1, Zenon DEF OpToRel
<1>3. \A y \in S : x <= y
  BY <1>2
<1> QED BY <1>3 DEF Min

\* ... and one with an upper bound contains its Max: the least upper bound.
LEMMA MaxIsGreatest ==
  ASSUME NEW S \in SUBSET Nat, S # {}, NEW b \in Nat, \A y \in S : y <= b
  PROVE  Max(S) \in S /\ \A y \in S : y <= Max(S)
<1> DEFINE U == {u \in Nat : \A y \in S : y <= u}
<1>1. PICK m \in U : \A u \in U : m <= u
  <2>1. U \in SUBSET Nat /\ U # {}
    OBVIOUS
  <2> HIDE DEF U
  <2> QED BY <2>1, MinIsLeast
<1>2. m \in S
  <2> SUFFICES ASSUME m \notin S PROVE FALSE
    OBVIOUS
  <2>0. PICK z \in S : TRUE
    OBVIOUS
  <2>1. m - 1 \in Nat
    BY <1>1, <2>0
  <2>2. m - 1 \in U
    BY <1>1, <2>1
  <2> QED BY <1>1, <2>2
<1>3. \A y \in S : m >= y
  BY <1>1
<1> QED BY <1>2, <1>3 DEF Max

-----------------------------------------------------------------------------
(* The chart.                                                              *)

\* Event numbers ascend at least as fast as the positions.  This says that the
\* chart ascends strictly, in the form that insertion and removal preserve and
\* that bounds its length.
Ascending(c) == \A i, j \in 1..Len(c) : i < j => c[j] - c[i] >= j - i

Charted(c) == {c[i] : i \in 1..Len(c)}

\* A chart that lacks an event has room for it.
LEMMA ChartHasRoom ==
  ASSUME NEW c \in Seq(Events), Ascending(c)
  PROVE  /\ Len(c) <= NumEvents
         /\ \A e \in Events : e \notin Charted(c) => Len(c) < NumEvents
<1> USE NumEventsAssumption DEF Events
<1>t. Len(c) \in Nat /\ \A i \in 1..Len(c) : c[i] \in Int /\ 0 <= c[i] /\ c[i] <= NumEvents - 1
  OBVIOUS
<1>1. Len(c) <= NumEvents
  <2> SUFFICES ASSUME Len(c) > 1 PROVE Len(c) <= NumEvents
    BY <1>t
  <2>1. c[Len(c)] - c[1] >= Len(c) - 1
    BY <1>t DEF Ascending
  <2> QED BY <1>t, <2>1
<1>2. ASSUME NEW e \in Events, Len(c) = NumEvents
      PROVE  e \in Charted(c)
  <2>1. e + 1 \in 1..Len(c)
    BY <1>2
  <2>2. c[e + 1] >= e
    <3>1. CASE e = 0 BY <3>1, <2>1, <1>t
    <3>2. CASE e > 0
      <4>1. c[e + 1] - c[1] >= e + 1 - 1
        BY <3>2, <2>1, <1>t DEF Ascending
      <4> QED BY <4>1, <2>1, <1>t
    <3> QED BY <3>1, <3>2
  <2>3. c[e + 1] <= e
    <3>1. CASE e + 1 = Len(c) BY <3>1, <2>1, <1>t, <1>2
    <3>2. CASE e + 1 < Len(c)
      <4>1. c[Len(c)] - c[e + 1] >= Len(c) - (e + 1)
        BY <3>2, <2>1, <1>t DEF Ascending
      <4> QED BY <4>1, <2>1, <1>t, <1>2
    <3> QED BY <3>1, <3>2, <2>1, <1>t
  <2>4. c[e + 1] = e
    BY <2>1, <2>2, <2>3, <1>t
  <2> QED BY <2>1, <2>4 DEF Charted
<1> QED BY <1>1, <1>2, <1>t

\* The insertion puts a new event before the first larger one ...
LEMMA ChartInserted ==
  ASSUME chart \in Seq(Events), Ascending(chart),
         NEW e \in Events, e \notin Charted(chart)
  PROVE  /\ ChartInsert(e) \in Seq(Events)
         /\ Ascending(ChartInsert(e))
         /\ Charted(ChartInsert(e)) = Charted(chart) \cup {e}
<1> USE NumEventsAssumption
<1> DEFINE below == {j \in DOMAIN chart : chart[j] <= e}
           m == Max({0} \cup below)
           r == InsertAt(chart, 1 + m, e)
<1>t. Len(chart) \in Nat /\ DOMAIN chart = 1..Len(chart)
  OBVIOUS
<1>i. e \in Int /\ \A i \in 1..Len(chart) : chart[i] \in Int
  BY <1>t DEF Events
<1>a. \A i, j \in 1..Len(chart) : i < j => chart[j] - chart[i] >= j - i
  BY DEF Ascending
<1>1. m \in {0} \cup below /\ \A y \in {0} \cup below : y <= m
  <2>1. /\ {0} \cup below \in SUBSET Nat /\ {0} \cup below # {}
        /\ \A y \in {0} \cup below : y <= Len(chart)
    BY <1>t
  <2> HIDE DEF below
  <2> QED BY <2>1, <1>t, MaxIsGreatest
<1>2. /\ m \in 0..Len(chart)
      /\ m > 0 => chart[m] < e
      /\ \A j \in 1..Len(chart) : j > m => chart[j] > e
  <2>1. m \in 0..Len(chart)
    BY <1>1, <1>t
  <2>2. \A j \in 1..Len(chart) : chart[j] # e
    BY DEF Charted
  <2>3. m > 0 => m \in 1..Len(chart) /\ chart[m] <= e
    BY <1>1, <2>1
  <2>4. ASSUME NEW j \in 1..Len(chart), j > m PROVE chart[j] > e
    <3>1. j \notin below
      BY <1>1, <2>1, <2>4
    <3> QED BY <3>1, <2>2, <1>i, <1>t
  <2> HIDE DEF m, below
  <2> QED BY <2>1, <2>2, <2>3, <2>4, <1>i
<1> HIDE DEF m, below
<1>3. ChartInsert(e) = r
  <2>1. Len(chart) < NumEvents
    BY ChartHasRoom
  <2> QED BY <2>1 DEF ChartInsert, m, below
<1>4. /\ r \in Seq(Events) /\ Len(r) = Len(chart) + 1
      /\ \A i \in 1..Len(chart) + 1 :
           r[i] = IF i < 1 + m THEN chart[i] ELSE IF i = 1 + m THEN e ELSE chart[i - 1]
  <2>1. 1 + m \in 1..Len(chart) + 1
    BY <1>2, <1>t
  <2> DEFINE p == 1 + m
  <2>2. p \in 1..Len(chart) + 1
    BY <2>1
  <2>3. r = InsertAt(chart, p, e)
    OBVIOUS
  <2> HIDE DEF p, r
  <2>4. /\ r \in Seq(Events) /\ Len(r) = Len(chart) + 1
        /\ \A i \in 1..Len(chart) + 1 :
             r[i] = IF i < p THEN chart[i] ELSE IF i = p THEN e ELSE chart[i - 1]
    BY <2>2, <2>3, InsertAtProperties, SMTT(30)
  <2> QED BY <2>4 DEF p
<1> HIDE DEF r
<1>5. /\ \A i \in 1..m : r[i] = chart[i]
      /\ r[m + 1] = e
      /\ \A i \in m + 2..Len(chart) + 1 : r[i] = chart[i - 1]
  BY <1>2, <1>4, <1>t
<1>6. /\ \A i \in 1..m : e - r[i] >= m + 1 - i
      /\ \A j \in m + 2..Len(chart) + 1 : r[j] - e >= j - (m + 1)
  <2>1. ASSUME NEW i \in 1..m PROVE e - r[i] >= m + 1 - i
    <3>1. chart[m] < e /\ i \in 1..Len(chart) /\ m \in 1..Len(chart)
      BY <1>2, <1>t
    <3>2. i < m => chart[m] - chart[i] >= m - i
      BY <1>a, <3>1
    <3>3. r[i] = chart[i]
      BY <1>5
    <3> QED BY <3>1, <3>2, <3>3, <1>i, <1>2
  <2>2. ASSUME NEW j \in m + 2..Len(chart) + 1 PROVE r[j] - e >= j - (m + 1)
    <3>1. m + 1 \in 1..Len(chart) /\ j - 1 \in 1..Len(chart) /\ chart[m + 1] > e
      BY <1>2, <1>t
    <3>2. m + 1 < j - 1 => chart[j - 1] - chart[m + 1] >= (j - 1) - (m + 1)
      BY <1>a, <3>1
    <3>3. r[j] = chart[j - 1]
      BY <1>5
    <3>4. CASE m + 1 < j - 1
      BY <3>1, <3>2, <3>3, <3>4, <1>i, <1>2
    <3>5. CASE m + 1 = j - 1
      BY <3>1, <3>3, <3>5, <1>i, <1>2
    <3> QED BY <3>1, <3>4, <3>5, <1>2
  <2> QED BY <2>1, <2>2
<1>7. Ascending(r)
  <2> SUFFICES ASSUME NEW i \in 1..Len(chart) + 1, NEW j \in 1..Len(chart) + 1, i < j
               PROVE  r[j] - r[i] >= j - i
    BY <1>4 DEF Ascending
  <2>1. CASE j <= m
    BY <2>1, <1>5, <1>a, <1>2, <1>t
  <2>2. CASE j = m + 1
    BY <2>2, <1>5, <1>6, <1>2, <1>t
  <2>3. CASE i = m + 1
    BY <2>3, <1>5, <1>6, <1>2, <1>t
  <2>4. CASE i <= m /\ j > m + 1
    <3>1. i \in 1..m /\ j \in m + 2..Len(chart) + 1
      BY <2>4, <1>2, <1>t
    <3>2. e - r[i] >= m + 1 - i /\ r[j] - e >= j - (m + 1)
      BY <3>1, <1>6
    <3>3. r[i] \in Int /\ r[j] \in Int
      BY <1>4, <1>t DEF Events
    <3> QED BY <3>2, <3>3, <1>i, <1>2
  <2>5. CASE i > m + 1
    <3>1. i \in m + 2..Len(chart) + 1 /\ j \in m + 2..Len(chart) + 1
          /\ i - 1 \in 1..Len(chart) /\ j - 1 \in 1..Len(chart)
      BY <2>5, <1>2, <1>t
    <3>2. chart[j - 1] - chart[i - 1] >= (j - 1) - (i - 1)
      BY <3>1, <1>a
    <3> QED BY <3>1, <3>2, <1>5, <1>i
  <2> QED BY <2>1, <2>2, <2>3, <2>4, <2>5, <1>2
<1>8. Charted(r) = Charted(chart) \cup {e}
  <2>1. ASSUME NEW x \in Charted(r) PROVE x \in Charted(chart) \cup {e}
    <3>1. PICK i \in 1..Len(chart) + 1 : x = r[i]
      BY <1>4 DEF Charted
    <3>2. CASE i <= m BY <3>1, <3>2, <1>5, <1>2, <1>t DEF Charted
    <3>3. CASE i = m + 1 BY <3>1, <3>3, <1>5
    <3>4. CASE i > m + 1
      <4>1. i \in m + 2..Len(chart) + 1 /\ i - 1 \in 1..Len(chart)
        BY <3>4, <1>2, <1>t
      <4> QED BY <3>1, <4>1, <1>5 DEF Charted
    <3> QED BY <3>2, <3>3, <3>4, <1>2
  <2>2. e \in Charted(r)
    <3>1. m + 1 \in 1..Len(r) BY <1>2, <1>4, <1>t
    <3> QED BY <3>1, <1>5 DEF Charted
  <2>3. ASSUME NEW i \in 1..Len(chart) PROVE chart[i] \in Charted(r)
    <3>1. CASE i <= m
      <4>1. i \in 1..m /\ i \in 1..Len(r) BY <3>1, <1>2, <1>4, <1>t
      <4> QED BY <4>1, <1>5 DEF Charted
    <3>2. CASE i > m
      <4>1. i + 1 \in m + 2..Len(chart) + 1 /\ i + 1 \in 1..Len(r) /\ (i + 1) - 1 = i
        BY <3>2, <1>2, <1>4, <1>t
      <4>2. r[i + 1] = chart[i]
        BY <4>1, <1>5
      <4> QED BY <4>1, <4>2 DEF Charted
    <3> QED BY <3>1, <3>2, <1>2
  <2> QED BY <2>1, <2>2, <2>3 DEF Charted
<1> QED BY <1>3, <1>4, <1>7, <1>8

\* ... and the removal takes out the event and nothing else.
LEMMA ChartRemoved ==
  ASSUME chart \in Seq(Events), Ascending(chart),
         NEW e \in Events, e \in Charted(chart)
  PROVE  /\ ChartRemove(e) \in Seq(Events)
         /\ Ascending(ChartRemove(e))
         /\ Charted(ChartRemove(e)) = Charted(chart) \ {e}
<1> DEFINE found == {j \in DOMAIN chart : chart[j] = e}
           p == Min(found)
           r == RemoveAt(chart, p)
<1>t. Len(chart) \in Nat /\ DOMAIN chart = 1..Len(chart)
  OBVIOUS
<1>i. e \in Int /\ \A i \in 1..Len(chart) : chart[i] \in Int
  BY <1>t, NumEventsAssumption DEF Events
<1>a. \A i, j \in 1..Len(chart) : i < j => chart[j] - chart[i] >= j - i
  BY DEF Ascending
<1>1. found # {} /\ found \in SUBSET Nat
  BY <1>t DEF Charted
<1>2. p \in found
  <2> HIDE DEF found
  <2> QED BY <1>1, MinIsLeast
<1>3. p \in 1..Len(chart) /\ chart[p] = e
  BY <1>2, <1>t
<1>4. ChartRemove(e) = r
  BY <1>1 DEF ChartRemove
<1> HIDE DEF found, p
<1>5. /\ r \in Seq(Events) /\ Len(r) = Len(chart) - 1
      /\ \A i \in 1..Len(chart) - 1 : r[i] = IF i < p THEN chart[i] ELSE chart[i + 1]
  BY <1>3, RemoveAtProperties
<1> HIDE DEF r
<1>6. /\ \A i \in 1..p - 1 : r[i] = chart[i]
      /\ \A i \in p..Len(chart) - 1 : r[i] = chart[i + 1]
  BY <1>3, <1>5, <1>t, SMTT(30)
<1>7. Ascending(r)
  <2> SUFFICES ASSUME NEW i \in 1..Len(chart) - 1, NEW j \in 1..Len(chart) - 1, i < j
               PROVE  r[j] - r[i] >= j - i
    BY <1>5 DEF Ascending
  <2>1. CASE j < p
    BY <2>1, <1>6, <1>a, <1>3, <1>t
  <2>2. CASE i < p /\ j >= p
    <3>1. i \in 1..p - 1 /\ j \in p..Len(chart) - 1
          /\ i \in 1..Len(chart) /\ j + 1 \in 1..Len(chart) /\ i < j + 1
      BY <2>2, <1>3, <1>t
    <3>2. chart[j + 1] - chart[i] >= (j + 1) - i
      BY <3>1, <1>a
    <3> QED BY <3>1, <3>2, <1>6, <1>i
  <2>3. CASE i >= p
    <3>1. i \in p..Len(chart) - 1 /\ j \in p..Len(chart) - 1
          /\ i + 1 \in 1..Len(chart) /\ j + 1 \in 1..Len(chart) /\ i + 1 < j + 1
      BY <2>3, <1>3, <1>t
    <3>2. chart[j + 1] - chart[i + 1] >= (j + 1) - (i + 1)
      BY <3>1, <1>a
    <3> QED BY <3>1, <3>2, <1>6, <1>i
  <2> QED BY <2>1, <2>2, <2>3, <1>3
<1>8. Charted(r) = Charted(chart) \ {e}
  <2>1. ASSUME NEW i \in 1..Len(r) PROVE r[i] \in Charted(chart) /\ r[i] # e
    <3>1. CASE i < p
      <4>1. i \in 1..p - 1 /\ i \in 1..Len(chart)
        BY <3>1, <1>3, <1>5, <1>t
      <4>2. chart[p] - chart[i] >= p - i
        BY <4>1, <3>1, <1>3, <1>a
      <4>3. r[i] = chart[i]
        BY <4>1, <1>6
      <4> QED BY <4>1, <4>2, <4>3, <3>1, <1>3, <1>i DEF Charted
    <3>2. CASE i >= p
      <4>1. i \in p..Len(chart) - 1 /\ i + 1 \in 1..Len(chart)
        BY <3>2, <1>3, <1>5, <1>t
      <4>2. chart[i + 1] - chart[p] >= i + 1 - p
        BY <4>1, <3>2, <1>3, <1>a
      <4>3. r[i] = chart[i + 1]
        BY <4>1, <1>6
      <4> QED BY <4>1, <4>2, <4>3, <3>2, <1>3, <1>i DEF Charted
    <3> QED BY <3>1, <3>2, <1>3, <1>5, <1>t
  <2>2. ASSUME NEW i \in 1..Len(chart), chart[i] # e PROVE chart[i] \in Charted(r)
    <3>1. CASE i < p
      <4>1. i \in 1..p - 1 /\ i \in 1..Len(r)
        BY <3>1, <1>3, <1>5, <1>t
      <4> QED BY <4>1, <1>6 DEF Charted
    <3>2. CASE i > p
      <4>1. i - 1 \in p..Len(chart) - 1 /\ i - 1 \in 1..Len(r) /\ (i - 1) + 1 = i
        BY <3>2, <1>3, <1>5, <1>t
      <4>2. r[i - 1] = chart[i]
        BY <4>1, <1>6
      <4> QED BY <4>1, <4>2 DEF Charted
    <3>3. i # p
      BY <1>3, <2>2
    <3> QED BY <3>1, <3>2, <3>3, <1>3
  <2> QED BY <2>1, <2>2 DEF Charted
<1> QED BY <1>4, <1>5, <1>7, <1>8

-----------------------------------------------------------------------------
(* The scan and the control thread.                                        *)

ReceiverTypes ==
  /\ chart \in Seq(Events)
  /\ callbacks \in [Events -> Kinds \cup {"none"}]
  /\ regMask \subseteq Events /\ cev \in Events
  /\ ipc \in {"idle", "scan", "take", "ack", "lock", "call", "refill"}
  /\ cpc \in {"idle", "reg", "unreg", "dtest", "dexec", "dlock", "dcall",
              "dend", "oops"}

\* The chart, the callbacks and the announced mask agree up to the event that a
\* control call is about to announce or has just withdrawn.
ChartAgrees ==
  /\ Ascending(chart)
  /\ Charted(chart) = regMask \cup (IF cpc \in {"reg", "unreg"} THEN {cev} ELSE {})
  /\ {e \in Events : callbacks[e] # "none"}
       = regMask \cup (IF cpc = "reg" THEN {cev} ELSE {})
  /\ cpc \in {"reg", "unreg"} => cev \notin regMask

\* One of the two threads of the receiver runs at a time.
OneRuns == CtrlSleeps \/ WorkSleeps

\* The index of the scan is a position of the chart when it is used.
ScanInChart ==
  /\ idx \in Nat \ {0}
  /\ ipc = "scan" => idx <= Len(chart) + 1
  /\ ipc \in {"take", "ack"} => idx <= Len(chart)

\* Inductive: while the scan runs no control call is half done, so every event
\* it looks at has a callback.
ReceiverInv == ReceiverTypes /\ ChartAgrees /\ OneRuns /\ ScanInChart

ReceiverState == <<chart, callbacks, regMask, cev, ipc, cpc, idx>>

\* Senders leave the receiver's threads alone.
LEMMA SendersLeaveReceiver ==
  ASSUME NEW s \in Senders, notify_shm_drv_send_event(s)
  PROVE  UNCHANGED ReceiverState
<1> USE DEF ReceiverState, shm, ivars, rvars
<1>1. CASE SendStart(s) BY <1>1 DEF SendStart
<1>2. CASE SendInterrupted(s) BY <1>2 DEF SendInterrupted
<1>3. CASE SendCheckEnabled(s) BY <1>3 DEF SendCheckEnabled
<1>4. CASE SendLock(s) BY <1>4 DEF SendLock
<1>5. CASE SendPoll(s) BY <1>5 DEF SendPoll
<1>6. CASE SendWrite(s) BY <1>6 DEF SendWrite
<1>7. CASE SendRaise(s) BY <1>7 DEF SendRaise
<1>8. CASE SendRing(s) BY <1>8 DEF SendRing
<1> QED BY <1>1, <1>2, <1>3, <1>4, <1>5, <1>6, <1>7, <1>8
        DEF notify_shm_drv_send_event, SendGoesOn

\* The mailbox work: it changes neither the chart nor the control thread.
LEMMA WorkKeepsReceiver ==
  ASSUME ReceiverInv, notify_shmdrv_isr_callback \/ MailboxRefill
  PROVE  ReceiverInv'
<1>t. Len(chart) \in Nat
  BY DEF ReceiverInv, ReceiverTypes
<1>u. UNCHANGED <<chart, callbacks, regMask, cev, cpc>>
  BY DEF notify_shmdrv_isr_callback, IsrStart, IsrScan, IsrTake, IsrAck, IsrLock,
         IsrReturn, MailboxRefill, shm, rvars
<1>c. ChartAgrees'
  BY <1>u DEF ReceiverInv, ChartAgrees, Ascending, Charted
<1> SUFFICES ReceiverTypes' /\ OneRuns' /\ ScanInChart'
  BY <1>c DEF ReceiverInv
<1> USE <1>t, <1>u DEF ReceiverInv, ReceiverTypes, OneRuns, ScanInChart, CtrlSleeps,
        WorkSleeps
<1>1. CASE IsrStart BY <1>1 DEF IsrStart
<1>2. CASE IsrScan BY <1>2 DEF IsrScan
<1>3. CASE IsrTake BY <1>3 DEF IsrTake
<1>4. CASE IsrAck
  <2>1. chart[idx] \in Charted(chart) /\ chart[idx] \in Events
    BY <1>4 DEF IsrAck, Charted
  <2>2. cpc \in {"idle", "dlock", "dcall"}
    BY <1>4 DEF IsrAck
  <2>3. callbacks[chart[idx]] # "none"
    BY <2>1, <2>2 DEF ChartAgrees
  <2>4. callbacks[chart[idx]] \in {"single", "many"}
    BY <2>1, <2>3, ModesAssumption
  <2>5. ipc' \in {"lock", "call"} /\ idx' = idx
    BY <1>4, <2>4 DEF IsrAck
  <2> QED BY <2>5, <2>2
<1>5. CASE IsrLock BY <1>5 DEF IsrLock
<1>6. CASE IsrReturn BY <1>6 DEF IsrReturn
<1>7. CASE MailboxRefill BY <1>7 DEF MailboxRefill
<1> QED BY <1>1, <1>2, <1>3, <1>4, <1>5, <1>6, <1>7 DEF notify_shmdrv_isr_callback

\* The control thread: it runs while the scan is not between two events.
LEMMA CtrlKeepsReceiver ==
  ASSUME ReceiverInv, CtrlGoesOn \/ CtrlCalls
  PROVE  ReceiverInv'
<1>t. Len(chart) \in Nat
  BY DEF ReceiverInv, ReceiverTypes
<1>w. ipc' = ipc /\ idx' = idx
  BY DEF CtrlGoesOn, CtrlCalls, RegisterAnnounce, UnregisterClear, DisableTest,
         DisableExec, DisableReturn, DisableEnd, RegisterEvent, UnregisterEvent,
         DisableBegin, notify_shm_drv_enable_event, notify_disable, notify_restore,
         ivars
<1>s. WorkSleeps
  <2>1. CASE CtrlCalls
    BY <2>1 DEF CtrlCalls, RegisterEvent, UnregisterEvent, DisableBegin,
         notify_shm_drv_enable_event, notify_disable, notify_restore, CtrlStarts
  <2>2. CASE CtrlGoesOn
    BY <2>2 DEF CtrlGoesOn, RegisterAnnounce, UnregisterClear, DisableTest,
         DisableExec, DisableReturn, DisableEnd, ReceiverInv, OneRuns, CtrlSleeps
  <2> QED BY <2>1, <2>2
<1>o. OneRuns' /\ ScanInChart'
  BY <1>w, <1>s DEF ReceiverInv, OneRuns, ScanInChart, WorkSleeps
<1> SUFFICES ReceiverTypes' /\ ChartAgrees'
  BY <1>o DEF ReceiverInv
<1>i. ipc' \in {"idle", "scan", "take", "ack", "lock", "call", "refill"}
  BY <1>w DEF ReceiverInv, ReceiverTypes
<1>1. ASSUME NEW e \in Events, NEW kind \in Kinds, RegisterEvent(e, kind)
      PROVE  ReceiverTypes' /\ ChartAgrees'
  <2>1. /\ callbacks[e] = "none" /\ cpc = "idle"
        /\ callbacks' = [callbacks EXCEPT ![e] = kind]
        /\ chart' = ChartInsert(e) /\ cpc' = "reg" /\ cev' = e /\ regMask' = regMask
    BY <1>1 DEF RegisterEvent, CtrlStarts
  <2>2. /\ chart \in Seq(Events) /\ Ascending(chart)
        /\ Charted(chart) = regMask
        /\ regMask = {x \in Events : callbacks[x] # "none"}
        /\ regMask \subseteq Events /\ callbacks \in [Events -> Kinds \cup {"none"}]
    BY <2>1 DEF ReceiverInv, ReceiverTypes, ChartAgrees
  <2>3. e \notin regMask
    BY <2>1, <2>2
  <2>4. /\ chart' \in Seq(Events) /\ Ascending(chart')
        /\ Charted(chart') = regMask \cup {e}
    BY <2>1, <2>2, <2>3, ChartInserted
  <2>5. ReceiverTypes'
    BY <1>i, <2>1, <2>2, <2>4 DEF ReceiverTypes
  <2>6. {x \in Events : callbacks'[x] # "none"} = regMask \cup {e}
    BY <2>1, <2>2, ModesAssumption
  <2> QED BY <2>1, <2>3, <2>4, <2>5, <2>6 DEF ChartAgrees
<1>2. ASSUME NEW e \in Events, UnregisterEvent(e)
      PROVE  ReceiverTypes' /\ ChartAgrees'
  <2>1. /\ callbacks[e] # "none" /\ cpc = "idle"
        /\ callbacks' = [callbacks EXCEPT ![e] = "none"]
        /\ chart' = chart /\ cpc' = "unreg" /\ cev' = e /\ regMask' = regMask \ {e}
    BY <1>2 DEF UnregisterEvent, CtrlStarts
  <2>2. /\ chart \in Seq(Events) /\ Ascending(chart)
        /\ Charted(chart) = regMask
        /\ regMask = {x \in Events : callbacks[x] # "none"}
        /\ regMask \subseteq Events /\ callbacks \in [Events -> Kinds \cup {"none"}]
    BY <2>1 DEF ReceiverInv, ReceiverTypes, ChartAgrees
  <2>3. ReceiverTypes'
    BY <1>i, <2>1, <2>2 DEF ReceiverTypes
  <2>4. {x \in Events : callbacks'[x] # "none"} = regMask \ {e}
    BY <2>1, <2>2
  <2>5. Ascending(chart') /\ Charted(chart') = (regMask \ {e}) \cup {e}
    BY <2>1, <2>2
  <2> QED BY <2>1, <2>3, <2>4, <2>5 DEF ChartAgrees
<1>3. CASE RegisterAnnounce
  <2>1. /\ cpc = "reg" /\ cpc' = "idle" /\ regMask' = regMask \cup {cev}
        /\ UNCHANGED <<chart, callbacks, cev>>
    BY <1>3 DEF RegisterAnnounce, rvars
  <2>2. ReceiverTypes'
    BY <1>i, <2>1 DEF ReceiverInv, ReceiverTypes
  <2> QED BY <2>1, <2>2 DEF ReceiverInv, ChartAgrees, Ascending, Charted
<1>4. CASE UnregisterClear
  <2>1. /\ cpc = "unreg" /\ cpc' = "idle" /\ chart' = ChartRemove(cev)
        /\ UNCHANGED <<regMask, callbacks, cev>>
    BY <1>4 DEF UnregisterClear
  <2>2. /\ chart \in Seq(Events) /\ Ascending(chart) /\ cev \in Events
        /\ Charted(chart) = regMask \cup {cev} /\ cev \notin regMask
        /\ regMask = {x \in Events : callbacks[x] # "none"}
    BY <2>1 DEF ReceiverInv, ReceiverTypes, ChartAgrees
  <2>3. /\ chart' \in Seq(Events) /\ Ascending(chart')
        /\ Charted(chart') = (regMask \cup {cev}) \ {cev}
    BY <2>1, <2>2, ChartRemoved
  <2>4. ReceiverTypes'
    BY <1>i, <2>1, <2>3 DEF ReceiverInv, ReceiverTypes
  <2>5. Charted(chart') = regMask
    BY <2>2, <2>3
  <2> QED BY <2>1, <2>2, <2>3, <2>4, <2>5 DEF ChartAgrees
<1>5. ASSUME /\ UNCHANGED <<chart, callbacks, regMask>>
             /\ cpc \notin {"reg", "unreg"} /\ cpc' \notin {"reg", "unreg"}
             /\ cev' \in Events
             /\ cpc' \in {"idle", "dtest", "dexec", "dlock", "dcall", "dend", "oops"}
      PROVE  ReceiverTypes' /\ ChartAgrees'
  <2>1. ReceiverTypes'
    BY <1>5, <1>i DEF ReceiverInv, ReceiverTypes
  <2> QED BY <1>5, <2>1 DEF ReceiverInv, ChartAgrees, Ascending, Charted
<1>6. CASE DisableTest
  BY <1>5, <1>6 DEF DisableTest, rvars, ReceiverInv, ReceiverTypes
<1>7. CASE DisableExec
  <2>1. cpc' \in {"oops", "dlock", "dcall"}
    <3>1. callbacks[cev] \in {"none", "many", "single"}
      BY ModesAssumption DEF ReceiverInv, ReceiverTypes
    <3> QED BY <3>1, <1>7 DEF DisableExec
  <2> QED BY <2>1, <1>5, <1>7 DEF DisableExec, rvars, shm, ReceiverInv, ReceiverTypes
<1>8. CASE DisableReturn \/ DisableEnd
  BY <1>5, <1>8 DEF DisableReturn, DisableEnd, rvars, shm, ReceiverInv, ReceiverTypes
<1>9. ASSUME NEW e \in Events, DisableBegin(e) \/ notify_shm_drv_enable_event(e)
      PROVE  ReceiverTypes' /\ ChartAgrees'
  BY <1>5, <1>9 DEF DisableBegin, notify_shm_drv_enable_event, rvars, ReceiverInv,
                    ReceiverTypes
<1>10. CASE notify_disable \/ notify_restore
  BY <1>5, <1>10 DEF notify_disable, notify_restore, CtrlStarts, shm, ReceiverInv,
                     ReceiverTypes
<1> QED BY <1>1, <1>2, <1>3, <1>4, <1>6, <1>7, <1>8, <1>9, <1>10
        DEF CtrlGoesOn, CtrlCalls

\* The receiver's invariant holds throughout.
LEMMA ReceiverInvHolds == Spec => []ReceiverInv
<1>1. Init => ReceiverInv
  <2> SUFFICES ASSUME Init PROVE ReceiverInv
    OBVIOUS
  <2>1. chart = <<>> /\ Len(chart) = 0 /\ cpc = "idle" /\ ipc = "idle" /\ idx = 1
    BY DEF Init
  <2>2. ReceiverTypes
    BY <2>1, NumEventsAssumption DEF Init, ReceiverTypes, Events
  <2>3. ChartAgrees
    BY <2>1 DEF Init, ChartAgrees, Ascending, Charted
  <2> QED BY <2>1, <2>2, <2>3 DEF ReceiverInv, OneRuns, CtrlSleeps, ScanInChart
<1>2. ReceiverInv /\ [Next]_vars => ReceiverInv'
  <2> SUFFICES ASSUME ReceiverInv, [Next]_vars PROVE ReceiverInv'
    OBVIOUS
  <2>1. CASE UNCHANGED ReceiverState
    BY <2>1 DEF ReceiverState, ReceiverInv, ReceiverTypes, ChartAgrees, OneRuns,
                ScanInChart, Ascending, Charted, CtrlSleeps, WorkSleeps
  <2>2. CASE \E s \in Senders : notify_shm_drv_send_event(s)
    BY <2>1, <2>2, SendersLeaveReceiver
  <2>3. CASE MailboxInterrupt
    BY <2>1, <2>3 DEF MailboxInterrupt, ReceiverState, shm, ivars, rvars
  <2>4. CASE notify_shmdrv_isr_callback \/ MailboxRefill
    BY <2>4, WorkKeepsReceiver
  <2>5. CASE CtrlGoesOn \/ CtrlCalls
    BY <2>5, CtrlKeepsReceiver
  <2>6. CASE UNCHANGED vars
    BY <2>1, <2>6 DEF vars, ReceiverState, shm, ivars, rvars
  <2> QED BY <2>2, <2>3, <2>4, <2>5, <2>6 DEF Next
<1> QED BY <1>1, <1>2, PTL DEF Spec

\* Between control calls reg_chart lists exactly the events with a callback,
\* which are the ones announced to the other processor, by ascending number:
\* insertion and removal in notify_shm_drv_register_event and
\* notify_shm_drv_unregister_event neither lose nor duplicate an entry.
THEOREM ChartIsExact == Spec => []ChartExact
<1>1. ReceiverInv => ChartExact
  <2> SUFFICES ASSUME ReceiverInv, cpc = "idle"
               PROVE  /\ \A i, j \in DOMAIN chart : i < j => chart[i] < chart[j]
                      /\ Range(chart) = regMask
                      /\ regMask = {e \in Events : callbacks[e] # "none"}
    BY DEF ChartExact
  <2>1. /\ chart \in Seq(Events) /\ Ascending(chart) /\ Charted(chart) = regMask
        /\ regMask = {e \in Events : callbacks[e] # "none"}
        /\ DOMAIN chart = 1..Len(chart)
    BY DEF ReceiverInv, ReceiverTypes, ChartAgrees
  <2>2. ASSUME NEW i \in 1..Len(chart), NEW j \in 1..Len(chart), i < j
        PROVE  chart[i] < chart[j]
    <3>1. chart[i] \in Int /\ chart[j] \in Int
      BY <2>1, NumEventsAssumption DEF Events
    <3>2. chart[j] - chart[i] >= j - i
      BY <2>1, <2>2 DEF Ascending
    <3> QED BY <3>1, <3>2, <2>2
  <2>3. Range(chart) = regMask
    BY <2>1 DEF Range, Charted
  <2> QED BY <2>1, <2>2, <2>3
<1> QED BY <1>1, ReceiverInvHolds, PTL

\* notify_shmdrv_isr_callback never calls through a missing callback, although
\* control calls unregister events while an earlier callback of the same scan
\* sleeps: the scan starts over after every callback.
THEOREM ScanAlwaysFindsCallback == Spec => []ScanFindsCallback
<1>1. ReceiverInv => ScanFindsCallback
  BY DEF ReceiverInv, ReceiverTypes, ScanFindsCallback
<1> QED BY <1>1, ReceiverInvHolds, PTL

-----------------------------------------------------------------------------
(* Types.                                                                  *)

SendTypes ==
  /\ spc \in [Senders -> {"idle", "enabled", "lock", "poll", "write", "raise",
                          "ring"}]
  /\ sgate \in Senders \cup {NoThread}
  /\ swait \in [Senders -> BOOLEAN]
  /\ spolls \in [Senders -> 0..MaxPoll] /\ spay \in [Senders -> 0..MaxSends]
  /\ nsent \in 0..MaxSends

\* Before the last poll the counter is below its limit.
PollsBelow ==
  \A s \in Senders :
     spc[s] \in {"enabled", "lock", "poll"} => MaxPoll = 0 \/ spolls[s] < MaxPoll

BellTypes ==
  /\ inDev \in 0..BellCap /\ inQueue \in 0..KfifoLen
  /\ rxFull \in BOOLEAN /\ irqOn \in BOOLEAN

ShmTypes ==
  /\ enMask \subseteq Events
  /\ flag \in [Events -> BOOLEAN] /\ payload \in [Events -> 0..MaxSends]

WorkTypes ==
  /\ idx \in 1..NumEvents + 1 /\ ipay \in 0..MaxSends /\ imany \in BOOLEAN
  /\ handed \in Events \X (0..MaxSends)

CtrlTypes == nesting \in 0..nctrl /\ nctrl \in 0..MaxCtrl /\ nmask \in 0..MaxMask

TypeInv ==
  SendTypes /\ PollsBelow /\ BellTypes /\ ShmTypes /\ WorkTypes /\ CtrlTypes

\* A step of a sender keeps the types.
LEMMA SenderKeepsTypes ==
  ASSUME TypeInv, SenderInv, NEW s \in Senders, notify_shm_drv_send_event(s)
  PROVE  TypeInv'
<1>w. WorkTypes' /\ CtrlTypes' /\ enMask' = enMask /\ rxFull' = rxFull /\ irqOn' = irqOn
      /\ inQueue' = inQueue
  <2>1. UNCHANGED <<ivars, rvars, handed, enMask, rxFull, irqOn, inQueue>>
    BY DEF notify_shm_drv_send_event, SendGoesOn, SendStart, SendInterrupted,
       SendCheckEnabled, SendLock, SendPoll, SendWrite, SendRaise, SendRing, shm, bells
  <2> QED BY <2>1 DEF TypeInv, WorkTypes, CtrlTypes, ivars, rvars
<1>b. sev[s] \in Events
  BY DEF SenderInv, SenderTypes
<1> SUFFICES SendTypes' /\ PollsBelow' /\ BellTypes' /\ ShmTypes'
  BY <1>w DEF TypeInv
<1>1. CASE SendStart(s)
  <2>1. nsent + 1 \in 0..MaxSends /\ BellTypes' /\ ShmTypes'
    BY <1>1, BoundsAssumption DEF SendStart, TypeInv, SendTypes, BellTypes, ShmTypes, shm, bells
  <2>2. SendTypes' /\ PollsBelow'
    BY <1>1, <2>1, BoundsAssumption, ModesAssumption
       DEF SendStart, TypeInv, SendTypes, PollsBelow
  <2> QED BY <2>1, <2>2
<1>2. CASE SendInterrupted(s) \/ SendCheckEnabled(s)
  BY <1>2 DEF SendInterrupted, SendCheckEnabled, TypeInv, SendTypes, PollsBelow,
              BellTypes, ShmTypes, shm, bells
<1>3. CASE SendLock(s)
  BY <1>3 DEF SendLock, TypeInv, SendTypes, PollsBelow, BellTypes, ShmTypes, shm, bells
<1>4. CASE SendPoll(s)
  <2>1. BellTypes' /\ ShmTypes' /\ UNCHANGED <<swait, spay, nsent>>
    BY <1>4 DEF SendPoll, TypeInv, BellTypes, ShmTypes, shm, bells
  <2>2. CASE swait[s] /\ flag[sev[s]]
    <3> DEFINE i == IF MaxPoll = 0 THEN 0 ELSE spolls[s] + 1
    <3>1. i \in 0..MaxPoll /\ (MaxPoll = 0 \/ i # MaxPoll => MaxPoll = 0 \/ i < MaxPoll)
      BY <1>4, BoundsAssumption DEF SendPoll, TypeInv, SendTypes, PollsBelow
    <3>2. /\ sgate' = NoThread /\ spolls' = [spolls EXCEPT ![s] = i]
          /\ spc' = [spc EXCEPT ![s] = IF MaxPoll # 0 /\ i = MaxPoll
                                       THEN "idle" ELSE "lock"]
      BY <1>4, <2>2 DEF SendPoll
    <3> HIDE DEF i
    <3>3. SendTypes'
      BY <2>1, <3>1, <3>2 DEF TypeInv, SendTypes
    <3>4. PollsBelow'
      BY <3>1, <3>2 DEF TypeInv, SendTypes, PollsBelow
    <3> QED BY <2>1, <3>3, <3>4
  <2>3. CASE ~(swait[s] /\ flag[sev[s]])
    BY <1>4, <2>1, <2>3 DEF SendPoll, TypeInv, SendTypes, PollsBelow
  <2> QED BY <2>2, <2>3
<1>5. CASE SendWrite(s)
  <2>1. BellTypes' /\ SendTypes' /\ PollsBelow'
    BY <1>5 DEF SendWrite, TypeInv, SendTypes, PollsBelow, BellTypes, bells
  <2>2. ShmTypes'
    BY <1>5, <1>b DEF SendWrite, TypeInv, SendTypes, ShmTypes
  <2> QED BY <2>1, <2>2
<1>6. CASE SendRaise(s)
  <2>1. BellTypes' /\ SendTypes' /\ PollsBelow'
    BY <1>6 DEF SendRaise, TypeInv, SendTypes, PollsBelow, BellTypes, bells
  <2>2. ShmTypes'
    BY <1>6, <1>b DEF SendRaise, TypeInv, SendTypes, ShmTypes
  <2> QED BY <2>1, <2>2
<1>7. CASE SendRing(s)
  <2>1. ShmTypes' /\ SendTypes' /\ PollsBelow'
    BY <1>7 DEF SendRing, TypeInv, SendTypes, PollsBelow, ShmTypes, shm
  <2>2. BellTypes'
    BY <1>7, BoundsAssumption DEF SendRing, TypeInv, BellTypes
  <2> QED BY <2>1, <2>2
<1> QED BY <1>1, <1>2, <1>3, <1>4, <1>5, <1>6, <1>7
        DEF notify_shm_drv_send_event, SendGoesOn

\* A step of the mailbox or of its work keeps the types, and moves messages
\* without losing the last one.
LEMMA WorkKeepsTypes ==
  ASSUME TypeInv, ReceiverInv,
         MailboxInterrupt \/ MailboxRefill \/ notify_shmdrv_isr_callback
  PROVE  /\ TypeInv'
         /\ ipc # "idle" \/ ipc' = "idle" => (inDev + inQueue > 0 => inDev' + inQueue' > 0)
<1> DEFINE Goal ==
      /\ BellTypes' /\ ShmTypes' /\ WorkTypes'
      /\ ipc # "idle" \/ ipc' = "idle" => (inDev + inQueue > 0 => inDev' + inQueue' > 0)
<1>u. UNCHANGED <<svars, nesting, nctrl, nmask, enMask, payload>>
  BY DEF MailboxInterrupt, MailboxRefill, notify_shmdrv_isr_callback, IsrStart, IsrScan,
         IsrTake, IsrAck, IsrLock, IsrReturn, shm, rvars
<1>s. SendTypes' /\ PollsBelow' /\ CtrlTypes'
  BY <1>u DEF TypeInv, SendTypes, PollsBelow, CtrlTypes, svars
<1> SUFFICES Goal
  BY <1>s DEF TypeInv
<1>t. /\ BellTypes /\ ShmTypes /\ WorkTypes /\ Len(chart) \in Nat
      /\ Len(chart) <= NumEvents /\ NumEvents \in Nat
      /\ BellCap \in Nat \ {0} /\ KfifoLen \in Nat \ {0} /\ MaxSends \in Nat
  BY ChartHasRoom, NumEventsAssumption, BoundsAssumption
     DEF TypeInv, ReceiverInv, ReceiverTypes, ChartAgrees
<1>1. CASE MailboxInterrupt
  <2> DEFINE n == Min({inDev, KfifoLen - inQueue})
  <2>1. n = IF inDev <= KfifoLen - inQueue THEN inDev ELSE KfifoLen - inQueue
    BY <1>t, MinOfTwo DEF BellTypes
  <2>2. /\ inQueue' = inQueue + n /\ inDev' = inDev - n
        /\ IF n < inDev THEN irqOn' = FALSE /\ rxFull' = TRUE
                        ELSE UNCHANGED <<irqOn, rxFull>>
    BY <1>1 DEF MailboxInterrupt
  <2> HIDE DEF n
  <2>3. /\ inDev' \in 0..BellCap /\ inQueue' \in 0..KfifoLen
        /\ inDev' + inQueue' = inDev + inQueue
    BY <1>t, <2>1, <2>2 DEF BellTypes
  <2>4. rxFull' \in BOOLEAN /\ irqOn' \in BOOLEAN
    BY <1>t, <2>2 DEF BellTypes
  <2>5. ShmTypes' /\ WorkTypes'
    BY <1>1, <1>t DEF MailboxInterrupt, ShmTypes, WorkTypes, shm, ivars
  <2> QED BY <2>3, <2>4, <2>5 DEF BellTypes
<1>2. CASE MailboxRefill
  <2>1. ShmTypes' /\ WorkTypes'
    BY <1>2, <1>t DEF MailboxRefill, ShmTypes, WorkTypes, shm
  <2>2. CASE rxFull
    <3>1. Max({inDev - 1, 0}) = IF inDev - 1 >= 0 THEN inDev - 1 ELSE 0
      BY <1>t, MaxOfTwo DEF BellTypes
    <3>2. Min({inQueue + 1, KfifoLen}) = IF inQueue + 1 <= KfifoLen THEN inQueue + 1 ELSE KfifoLen
      BY <1>t, MinOfTwo DEF BellTypes
    <3>3. /\ rxFull' = FALSE /\ irqOn' = TRUE
          /\ inDev' = IF inDev - 1 >= 0 THEN inDev - 1 ELSE 0
          /\ inQueue' = IF inDev > 0 THEN IF inQueue + 1 <= KfifoLen THEN inQueue + 1 ELSE KfifoLen
                                     ELSE inQueue
      BY <1>2, <2>2, <3>1, <3>2 DEF MailboxRefill
    <3>4. /\ inDev' \in 0..BellCap /\ inQueue' \in 0..KfifoLen
          /\ inDev + inQueue > 0 => inDev' + inQueue' > 0
      BY <1>t, <3>3 DEF BellTypes
    <3> QED BY <2>1, <3>3, <3>4 DEF BellTypes
  <2>3. CASE ~rxFull
    BY <1>2, <1>t, <2>1, <2>3 DEF MailboxRefill, BellTypes, bells
  <2> QED BY <2>2, <2>3
<1>3. CASE IsrStart
  <2>1. BellTypes'
    BY <1>3, <1>t DEF IsrStart, BellTypes
  <2>2. ShmTypes' /\ WorkTypes'
    BY <1>3, <1>t DEF IsrStart, ShmTypes, WorkTypes, shm
  <2> QED BY <1>3, <2>1, <2>2 DEF IsrStart
<1>4. CASE IsrScan
  <2>1. ShmTypes' /\ WorkTypes'
    BY <1>4, <1>t DEF IsrScan, ShmTypes, WorkTypes, shm
  <2>2. UNCHANGED <<bells, irqOn>>
    BY <1>4 DEF IsrScan
  <2> QED BY <1>t, <2>1, <2>2 DEF bells, BellTypes
<1>5. CASE IsrTake
  <2>1. chart[idx] \in Events
    BY <1>5 DEF IsrTake, ReceiverInv, ReceiverTypes, ScanInChart
  <2>2. ShmTypes' /\ WorkTypes'
    BY <1>5, <1>t, <2>1 DEF IsrTake, ShmTypes, WorkTypes, shm
  <2>3. UNCHANGED <<bells, irqOn>>
    BY <1>5 DEF IsrTake
  <2> QED BY <1>t, <2>2, <2>3 DEF bells, BellTypes
<1>6. CASE IsrAck
  <2>1. chart[idx] \in Events
    BY <1>6 DEF IsrAck, ReceiverInv, ReceiverTypes, ScanInChart
  <2>2. ShmTypes' /\ WorkTypes'
    BY <1>6, <1>t, <2>1 DEF IsrAck, ShmTypes, WorkTypes
  <2>3. UNCHANGED <<bells, irqOn>>
    BY <1>6 DEF IsrAck
  <2> QED BY <1>t, <2>2, <2>3 DEF bells, BellTypes
<1>7. CASE IsrLock
  BY <1>7, <1>t DEF IsrLock, bells, shm, BellTypes, ShmTypes, WorkTypes
<1>8. CASE IsrReturn
  BY <1>8, <1>t DEF IsrReturn, bells, shm, BellTypes, ShmTypes, WorkTypes
<1> HIDE DEF Goal
<1> QED BY <1>1, <1>2, <1>3, <1>4, <1>5, <1>6, <1>7, <1>8 DEF notify_shmdrv_isr_callback

\* A step of the control thread keeps the types.
LEMMA CtrlKeepsTypes ==
  ASSUME TypeInv, ReceiverInv, CtrlGoesOn \/ CtrlCalls
  PROVE  TypeInv'
<1>t. /\ BellTypes /\ ShmTypes /\ WorkTypes /\ CtrlTypes /\ cev \in Events
      /\ MaxSends \in Nat /\ MaxCtrl \in Nat /\ MaxMask \in Nat
  BY BoundsAssumption DEF TypeInv, ReceiverInv, ReceiverTypes
<1>u. UNCHANGED <<svars, ivars, bells, payload>>
  BY DEF CtrlGoesOn, CtrlCalls, RegisterAnnounce, UnregisterClear, DisableTest,
         DisableExec, DisableReturn, DisableEnd, RegisterEvent, UnregisterEvent,
         DisableBegin, notify_shm_drv_enable_event, notify_disable, notify_restore, shm
<1>s. SendTypes' /\ PollsBelow'
  BY <1>u DEF TypeInv, SendTypes, PollsBelow, svars
<1>b. irqOn' \in BOOLEAN => BellTypes'
  BY <1>u, <1>t DEF BellTypes, bells
<1>w. handed' \in Events \X (0..MaxSends) => WorkTypes'
  BY <1>u, <1>t DEF WorkTypes, ivars
<1> DEFINE Goal == BellTypes' /\ ShmTypes' /\ WorkTypes' /\ CtrlTypes'
<1> SUFFICES Goal
  BY <1>s DEF TypeInv
<1>h. handed' = handed => WorkTypes'
  BY <1>w, <1>t DEF WorkTypes
<1>q. irqOn' = irqOn => BellTypes'
  BY <1>b, <1>t DEF BellTypes
<1>1. ASSUME NEW e \in Events, NEW kind \in Kinds, RegisterEvent(e, kind)
      PROVE  Goal
  BY <1>1, <1>t, <1>h, <1>q DEF RegisterEvent, CtrlStarts, ShmTypes, CtrlTypes
<1>2. ASSUME NEW e \in Events, UnregisterEvent(e)
      PROVE  Goal
  BY <1>2, <1>t, <1>h, <1>q DEF UnregisterEvent, CtrlStarts, ShmTypes, CtrlTypes
<1>3. CASE RegisterAnnounce \/ UnregisterClear
  BY <1>3, <1>t, <1>h, <1>q DEF RegisterAnnounce, UnregisterClear, rvars, ShmTypes, CtrlTypes
<1>4. CASE DisableTest
  BY <1>4, <1>t, <1>h, <1>q DEF DisableTest, rvars, ShmTypes, CtrlTypes
<1>5. CASE DisableExec
  <2>1. handed' \in Events \X (0..MaxSends)
    BY <1>5, <1>t DEF DisableExec, ShmTypes
  <2> QED BY <2>1, <1>5, <1>t, <1>w, <1>q DEF DisableExec, rvars, shm, ShmTypes, CtrlTypes
<1>6. CASE DisableReturn
  BY <1>6, <1>t, <1>h, <1>q DEF DisableReturn, rvars, shm, ShmTypes, CtrlTypes
<1>7. CASE DisableEnd
  BY <1>7, <1>t, <1>h, <1>b DEF DisableEnd, rvars, shm, ShmTypes, CtrlTypes
<1>8. ASSUME NEW e \in Events, DisableBegin(e)
      PROVE  Goal
  <2>1. irqOn' \in BOOLEAN /\ handed' = handed
    BY <1>8 DEF DisableBegin
  <2>2. ShmTypes'
    BY <1>8, <1>t DEF DisableBegin, ShmTypes
  <2>3. CtrlTypes'
    BY <1>8, <1>t DEF DisableBegin, CtrlTypes
  <2> QED BY <2>1, <2>2, <2>3, <1>h, <1>b
<1>9. ASSUME NEW e \in Events, notify_shm_drv_enable_event(e)
      PROVE  Goal
  BY <1>9, <1>t, <1>h, <1>q DEF notify_shm_drv_enable_event, rvars, ShmTypes, CtrlTypes
<1>10. CASE notify_disable
  <2>1. irqOn' \in BOOLEAN
    BY <1>10 DEF notify_disable
  <2> QED BY <2>1, <1>10, <1>t, <1>h, <1>b
          DEF notify_disable, CtrlStarts, shm, ShmTypes, CtrlTypes
<1>11. CASE notify_restore
  <2>1. irqOn' \in BOOLEAN
    BY <1>11 DEF notify_restore
  <2> QED BY <2>1, <1>11, <1>t, <1>h, <1>b DEF notify_restore, shm, ShmTypes, CtrlTypes
<1> HIDE DEF Goal
<1> QED BY <1>1, <1>2, <1>3, <1>4, <1>5, <1>6, <1>7, <1>8, <1>9, <1>10, <1>11
        DEF CtrlGoesOn, CtrlCalls

LEMMA TypeInvHolds == Spec => []TypeInv
<1>1. Init => TypeInv
  <2> SUFFICES ASSUME Init PROVE TypeInv
    OBVIOUS
  <2>1. SendTypes /\ PollsBelow
    BY BoundsAssumption DEF Init, SendTypes, PollsBelow
  <2>2. BellTypes /\ CtrlTypes
    <3>1. /\ inDev = 0 /\ inQueue = 0 /\ nesting = 0 /\ nctrl = 0 /\ nmask = 0
          /\ rxFull = FALSE /\ irqOn = TRUE
      BY DEF Init
    <3>2. CtrlTypes
      BY <3>1, BoundsAssumption DEF CtrlTypes
    <3>3. inDev \in 0..BellCap /\ inQueue \in 0..KfifoLen
      BY <3>1, BoundsAssumption
    <3>4. rxFull \in BOOLEAN /\ irqOn \in BOOLEAN
      BY <3>1
    <3> QED BY <3>2, <3>3, <3>4 DEF BellTypes
  <2>3. ShmTypes /\ WorkTypes
    <3>1. 0 \in Events /\ 0 \in 0..MaxSends /\ 1 \in 1..NumEvents + 1
      BY BoundsAssumption, NumEventsAssumption DEF Events
    <3>2. ShmTypes
      BY <3>1 DEF Init, ShmTypes
    <3>3. handed = <<0, 0>> /\ idx = 1 /\ ipay = 0 /\ imany = FALSE
      BY DEF Init
    <3> QED BY <3>1, <3>2, <3>3 DEF WorkTypes
  <2> QED BY <2>1, <2>2, <2>3 DEF TypeInv
<1>2. TypeInv /\ SenderInv /\ ReceiverInv /\ [Next]_vars => TypeInv'
  <2> SUFFICES ASSUME TypeInv, SenderInv, ReceiverInv, [Next]_vars PROVE TypeInv'
    OBVIOUS
  <2>1. CASE \E s \in Senders : notify_shm_drv_send_event(s)
    BY <2>1, SenderKeepsTypes
  <2>2. CASE MailboxInterrupt \/ MailboxRefill \/ notify_shmdrv_isr_callback
    BY <2>2, WorkKeepsTypes
  <2>3. CASE CtrlGoesOn \/ CtrlCalls
    BY <2>3, CtrlKeepsTypes
  <2>4. CASE UNCHANGED vars
    <3> USE <2>4 DEF vars, shm, bells, svars, ivars, rvars, TypeInv
    <3>1. SendTypes' /\ PollsBelow' BY DEF SendTypes, PollsBelow
    <3>2. BellTypes' /\ CtrlTypes' BY DEF BellTypes, CtrlTypes
    <3>3. ShmTypes' /\ WorkTypes' BY DEF ShmTypes, WorkTypes
    <3> QED BY <3>1, <3>2, <3>3
  <2> QED BY <2>1, <2>2, <2>3, <2>4 DEF Next
<1> QED BY <1>1, <1>2, SendersSafe, ReceiverInvHolds, PTL DEF Spec

\* Every variable of the Notify protocol keeps its type: the poll counter stays
\* within send_event_poll_count, the scan's index within the chart's bounds,
\* the mailbox within its queues, and nested notify_disable calls are matched.
THEOREM TypeCorrect == Spec => []TypeOK
<1>1. TypeInv /\ SenderInv /\ ReceiverInv => TypeOK
  <2> SUFFICES ASSUME TypeInv, SenderInv, ReceiverInv PROVE TypeOK
    OBVIOUS
  <2>1. nesting \in 0..MaxCtrl /\ nctrl \in 0..MaxCtrl /\ nmask \in 0..MaxMask
    BY BoundsAssumption DEF TypeInv, CtrlTypes
  <2>2. sev \in [Senders -> Events]
    BY DEF SenderInv, SenderTypes
  <2>3. /\ ipc \in {"idle", "scan", "take", "ack", "lock", "call", "refill", "oops"}
        /\ regMask \subseteq Events /\ cev \in Events /\ chart \in Seq(Events)
        /\ callbacks \in [Events -> Kinds \cup {"none"}]
        /\ cpc \in {"idle", "reg", "unreg", "dtest", "dexec", "dlock", "dcall",
                    "dend", "oops"}
    BY DEF ReceiverInv, ReceiverTypes
  <2>4. SendTypes /\ BellTypes /\ ShmTypes /\ WorkTypes
    BY DEF TypeInv
  <2> QED BY <2>1, <2>2, <2>3, <2>4 DEF TypeOK, SendTypes, BellTypes, ShmTypes, WorkTypes
<1> QED BY <1>1, TypeInvHolds, SendersSafe, ReceiverInvHolds, PTL

-----------------------------------------------------------------------------
(* No flagged event is forgotten.                                          *)

\* Something will make the receiver look at event e.
Woken(e) ==
  \/ inDev + inQueue > 0
  \/ \E s \in Senders : spc[s] = "ring"
  \/ ScanReaches(e)

WakeInv ==
  /\ nmask = 0 => enMask = Events
  /\ nmask = 0 => \A e \in Charted(chart) : flag[e] => Woken(e)

\* Raising a flag comes with the intent to ring; a bell is refused only by a
\* mailbox that holds others.
LEMMA SenderKeepsWake ==
  ASSUME WakeInv, TypeInv, SenderInv, ReceiverInv,
         NEW s \in Senders, notify_shm_drv_send_event(s)
  PROVE  WakeInv'
<1>t. /\ inDev \in Nat /\ inQueue \in Nat /\ BellCap \in Nat \ {0}
      /\ flag \in [Events -> BOOLEAN] /\ sev[s] \in Events /\ DOMAIN spc = Senders
      /\ Charted(chart) \subseteq Events
  BY BoundsAssumption DEF TypeInv, BellTypes, ShmTypes, SenderInv, SenderTypes,
     ReceiverInv, ReceiverTypes, Charted
<1>u. UNCHANGED <<nmask, enMask, chart, ipc, idx, inQueue>>
  BY DEF notify_shm_drv_send_event, SendGoesOn, SendStart, SendInterrupted,
     SendCheckEnabled, SendLock, SendPoll, SendWrite, SendRaise, SendRing, shm, bells,
     ivars, rvars
<1>c. Charted(chart') = Charted(chart) /\ \A e : ScanReaches(e)' = ScanReaches(e)
  BY <1>u DEF Charted, ScanReaches
<1> SUFFICES ASSUME nmask = 0, NEW e \in Charted(chart), flag'[e] PROVE Woken(e)'
  BY <1>u, <1>c DEF WakeInv, Charted
<1>w. flag[e] => Woken(e)
  BY DEF WakeInv
<1>1. CASE SendRaise(s)
  <2>1. spc'[s] = "ring"
    BY <1>1, <1>t DEF SendRaise
  <2> QED BY <2>1 DEF Woken
<1>2. CASE SendRing(s)
  <2>1. inDev' + inQueue' > 0
    BY <1>2, <1>t, <1>u DEF SendRing
  <2> QED BY <2>1 DEF Woken
<1>3. ASSUME flag' = flag, inDev' = inDev, spc[s] # "ring",
             \E x : spc' = [spc EXCEPT ![s] = x]
      PROVE  Woken(e)'
  <2>1. Woken(e)
    BY <1>3, <1>w
  <2>2. CASE inDev + inQueue > 0
    BY <2>2, <1>3, <1>u DEF Woken
  <2>3. ASSUME NEW r \in Senders, spc[r] = "ring" PROVE Woken(e)'
    <3>1. spc'[r] = "ring"
      BY <2>3, <1>3, <1>t
    <3> QED BY <3>1 DEF Woken
  <2>4. CASE ScanReaches(e)
    BY <2>4, <1>c DEF Woken
  <2> QED BY <2>1, <2>2, <2>3, <2>4 DEF Woken
<1>4. CASE SendStart(s) \/ SendInterrupted(s) \/ SendCheckEnabled(s)
  BY <1>3, <1>4 DEF SendStart, SendInterrupted, SendCheckEnabled, shm, bells
<1>5. CASE SendLock(s) \/ SendWrite(s)
  BY <1>3, <1>5 DEF SendLock, SendWrite, shm, bells
<1>6. CASE SendPoll(s)
  BY <1>3, <1>6 DEF SendPoll, shm, bells
<1> QED BY <1>1, <1>2, <1>4, <1>5, <1>6 DEF notify_shm_drv_send_event, SendGoesOn

\* A message is consumed by starting a scan, and the scan leaves behind only
\* events that are not flagged.
LEMMA WorkKeepsWake ==
  ASSUME WakeInv, TypeInv, ReceiverInv,
         MailboxInterrupt \/ MailboxRefill \/ notify_shmdrv_isr_callback
  PROVE  WakeInv'
<1>t. /\ Len(chart) \in Nat /\ idx \in Nat \ {0} /\ flag \in [Events -> BOOLEAN]
      /\ DOMAIN chart = 1..Len(chart) /\ Charted(chart) \subseteq Events
  BY DEF ReceiverInv, ReceiverTypes, ScanInChart, TypeInv, ShmTypes, Charted
<1>u. UNCHANGED <<nmask, enMask, chart, spc>>
  BY DEF MailboxInterrupt, MailboxRefill, notify_shmdrv_isr_callback, IsrStart, IsrScan,
         IsrTake, IsrAck, IsrLock, IsrReturn, shm, svars, rvars
<1>c. Charted(chart') = Charted(chart)
  BY <1>u DEF Charted
<1>e. nmask = 0 => enMask = Events
  BY DEF WakeInv
<1> SUFFICES ASSUME nmask = 0, NEW e \in Charted(chart), flag'[e] PROVE Woken(e)'
  BY <1>u, <1>c DEF WakeInv, Charted
<1>f. flag[e]
  BY <1>t DEF MailboxInterrupt, MailboxRefill, notify_shmdrv_isr_callback, IsrStart, IsrScan,
         IsrTake, IsrAck, IsrLock, IsrReturn, shm
<1>w. Woken(e)
  BY <1>f DEF WakeInv
<1>r. (\E s \in Senders : spc[s] = "ring") => Woken(e)'
  BY <1>u DEF Woken
<1>m. ipc # "idle" \/ ipc' = "idle" => (inDev + inQueue > 0 => inDev' + inQueue' > 0)
  BY WorkKeepsTypes
<1>n. ASSUME ipc # "idle" \/ ipc' = "idle", ScanReaches(e) => ScanReaches(e)'
      PROVE  Woken(e)'
  BY <1>n, <1>m, <1>w, <1>r DEF Woken
<1>j. \E j \in 1..Len(chart) : chart[j] = e
  BY DEF Charted
<1>a. ASSUME ipc' = "scan", idx' = 1 PROVE Woken(e)'
  <2>1. \E j \in idx'..Len(chart') : chart'[j] = e
    BY <1>a, <1>j, <1>u
  <2> QED BY <1>a, <2>1 DEF Woken, ScanReaches
<1>b. ASSUME ipc' \in {"take", "ack", "lock", "call"} PROVE Woken(e)'
  BY <1>b DEF Woken, ScanReaches
<1>1. CASE MailboxInterrupt
  <2>1. ipc' = ipc /\ idx' = idx /\ chart' = chart
    BY <1>1 DEF MailboxInterrupt, ivars, rvars
  <2>2. ScanReaches(e) => ScanReaches(e)'
    BY <2>1 DEF ScanReaches
  <2> QED BY <2>1, <2>2, <1>n
<1>2. CASE MailboxRefill
  <2>1. ipc = "refill"
    BY <1>2 DEF MailboxRefill
  <2>2. ~ScanReaches(e)
    BY <2>1 DEF ScanReaches
  <2> QED BY <2>1, <2>2, <1>n
<1>3. CASE IsrStart
  BY <1>3, <1>a DEF IsrStart
<1>4. CASE IsrScan
  <2>1. CASE idx > Len(chart)
    <3>1. ipc = "scan"
      BY <1>4 DEF IsrScan
    <3>2. ~ScanReaches(e)
      BY <3>1, <2>1, <1>t DEF ScanReaches
    <3> QED BY <3>1, <3>2, <1>n
  <2>2. CASE idx <= Len(chart) /\ Asserted(chart[idx])
    <3>1. ipc' = "take"
      BY <1>4, <2>2, <1>t DEF IsrScan
    <3> QED BY <3>1, <1>b
  <2>3. CASE idx <= Len(chart) /\ ~Asserted(chart[idx])
    <3>1. ipc = "scan" /\ ipc' = "scan" /\ idx' = idx + 1
      BY <1>4, <2>3, <1>t DEF IsrScan
    <3>2. Asserted(e)
      BY <1>e, <1>f, <1>t DEF Asserted
    <3>3. ASSUME NEW j \in idx..Len(chart), chart[j] = e
          PROVE  j \in idx'..Len(chart') /\ chart'[j] = e
      <4>1. j # idx
        BY <2>3, <3>2, <3>3
      <4> QED BY <4>1, <3>1, <3>3, <1>u, <1>t
    <3>4. ScanReaches(e) => ScanReaches(e)'
      BY <3>1, <3>3 DEF ScanReaches
    <3> QED BY <3>1, <3>4, <1>n
  <2> QED BY <2>1, <2>2, <2>3, <1>t
<1>5. CASE IsrTake
  BY <1>5, <1>b DEF IsrTake
<1>6. CASE IsrAck
  <2>1. ReceiverInv' /\ ipc' \in {"oops", "lock", "call"}
    <3>1. callbacks[chart[idx]] \in {"none", "many", "single"}
      BY <1>6, ModesAssumption DEF IsrAck, ReceiverInv, ReceiverTypes, ScanInChart
    <3>2. ipc' \in {"oops", "lock", "call"}
      BY <3>1, <1>6 DEF IsrAck
    <3> QED BY <3>2, <1>6, WorkKeepsReceiver DEF notify_shmdrv_isr_callback
  <2> QED BY <2>1, <1>b DEF ReceiverInv, ReceiverTypes
<1>7. CASE IsrLock
  BY <1>7, <1>b DEF IsrLock
<1>8. CASE IsrReturn
  BY <1>8, <1>a DEF IsrReturn
<1> QED BY <1>1, <1>2, <1>3, <1>4, <1>5, <1>6, <1>7, <1>8 DEF notify_shmdrv_isr_callback

\* Control calls run between scans or while a callback sleeps; the scan then
\* starts over, so a new chart is scanned from its first entry.
LEMMA CtrlKeepsWake ==
  ASSUME WakeInv, TypeInv, ReceiverInv, CtrlGoesOn \/ CtrlCalls
  PROVE  WakeInv'
<1>t. /\ flag \in [Events -> BOOLEAN] /\ nmask \in Nat
      /\ chart \in Seq(Events) /\ Ascending(chart) /\ cev \in Events
      /\ Charted(chart) \subseteq Events
  BY BoundsAssumption
     DEF ReceiverInv, ReceiverTypes, ChartAgrees, TypeInv, ShmTypes, CtrlTypes, Charted
<1>u. UNCHANGED <<ipc, idx, spc, inDev, inQueue>>
  BY DEF CtrlGoesOn, CtrlCalls, RegisterAnnounce, UnregisterClear, DisableTest,
         DisableExec, DisableReturn, DisableEnd, RegisterEvent, UnregisterEvent,
         DisableBegin, notify_shm_drv_enable_event, notify_disable, notify_restore,
         ivars, svars, bells
<1>s. WorkSleeps
  <2>1. CASE CtrlCalls
    BY <2>1 DEF CtrlCalls, RegisterEvent, UnregisterEvent, DisableBegin,
         notify_shm_drv_enable_event, notify_disable, notify_restore, CtrlStarts
  <2>2. CASE CtrlGoesOn
    BY <2>2 DEF CtrlGoesOn, RegisterAnnounce, UnregisterClear, DisableTest,
         DisableExec, DisableReturn, DisableEnd, ReceiverInv, OneRuns, CtrlSleeps
  <2> QED BY <2>1, <2>2
<1>w. \A e : Woken(e) => Woken(e)'
  BY <1>u, <1>s DEF Woken, ScanReaches, WorkSleeps
<1>g. ASSUME nmask' = 0 => nmask = 0 /\ enMask' = enMask,
             nmask' = 0 => \A e \in Charted(chart') : flag'[e] => e \in Charted(chart) /\ flag[e]
      PROVE  WakeInv'
  <2>1. nmask' = 0 => enMask' = Events
    BY <1>g DEF WakeInv
  <2>2. ASSUME nmask' = 0, NEW e \in Charted(chart'), flag'[e] PROVE Woken(e)'
    <3>1. nmask = 0 /\ e \in Charted(chart) /\ flag[e]
      BY <1>g, <2>2
    <3>2. Woken(e)
      BY <3>1 DEF WakeInv
    <3> QED BY <3>2, <1>w
  <2> QED BY <2>1, <2>2 DEF WakeInv, Charted
<1>c. chart' = chart => Charted(chart') = Charted(chart)
  OBVIOUS
<1>1. ASSUME NEW e \in Events, NEW kind \in Kinds, RegisterEvent(e, kind)
      PROVE  WakeInv'
  <2>1. /\ callbacks[e] = "none" /\ cpc = "idle" /\ chart' = ChartInsert(e)
        /\ flag' = [flag EXCEPT ![e] = FALSE] /\ nmask' = nmask /\ enMask' = enMask
    BY <1>1 DEF RegisterEvent, CtrlStarts
  <2>2. e \notin Charted(chart)
    BY <2>1 DEF ReceiverInv, ChartAgrees
  <2>3. Charted(chart') = Charted(chart) \cup {e}
    BY <2>1, <2>2, <1>t, ChartInserted
  <2>4. \A x \in Charted(chart') : flag'[x] => x \in Charted(chart) /\ flag[x]
    BY <2>1, <2>3, <1>t
  <2> QED BY <2>1, <2>4, <1>g
<1>2. CASE UnregisterClear
  <2>1. /\ cpc = "unreg" /\ chart' = ChartRemove(cev)
        /\ flag' = [flag EXCEPT ![cev] = FALSE] /\ nmask' = nmask /\ enMask' = enMask
    BY <1>2 DEF UnregisterClear
  <2>2. cev \in Charted(chart)
    BY <2>1 DEF ReceiverInv, ChartAgrees
  <2>3. Charted(chart') = Charted(chart) \ {cev}
    BY <2>1, <2>2, <1>t, ChartRemoved
  <2>4. \A x \in Charted(chart') : flag'[x] => x \in Charted(chart) /\ flag[x]
    BY <2>1, <2>3, <1>t
  <2> QED BY <2>1, <2>4, <1>g
<1>3. ASSUME chart' = chart, nmask' = nmask, enMask' = enMask,
             \A x \in Events : flag'[x] => flag[x]
      PROVE  WakeInv'
  BY <1>3, <1>g, <1>c, <1>t
<1>4. CASE RegisterAnnounce
  BY <1>4, <1>3 DEF RegisterAnnounce, rvars
<1>5. CASE DisableTest
  <2>1. \A x \in Events : flag'[x] => flag[x]
    BY <1>5, <1>t DEF DisableTest
  <2> QED BY <2>1, <1>5, <1>3 DEF DisableTest, rvars
<1>6. CASE DisableExec \/ DisableReturn \/ DisableEnd
  BY <1>6, <1>3 DEF DisableExec, DisableReturn, DisableEnd, shm, rvars
<1>7. ASSUME NEW e \in Events, UnregisterEvent(e) PROVE WakeInv'
  BY <1>7, <1>3 DEF UnregisterEvent
<1>8. ASSUME NEW e \in Events, DisableBegin(e) PROVE WakeInv'
  <2>1. nmask' # 0
    BY <1>8, <1>t DEF DisableBegin
  <2> QED BY <2>1 DEF WakeInv
<1>9. ASSUME NEW e \in Events, notify_shm_drv_enable_event(e) PROVE WakeInv'
  <2>1. nmask # 0 /\ nmask' = nmask
    BY <1>9 DEF notify_shm_drv_enable_event, rvars, WakeInv
  <2> QED BY <2>1 DEF WakeInv
<1>10. CASE notify_disable \/ notify_restore
  BY <1>10, <1>3 DEF notify_disable, notify_restore, shm
<1> QED BY <1>1, <1>2, <1>4, <1>5, <1>6, <1>7, <1>8, <1>9, <1>10 DEF CtrlGoesOn, CtrlCalls

LEMMA WakeInvHolds == Spec => []WakeInv
<1>1. Init => WakeInv
  BY DEF Init, WakeInv, Charted
<1>2. WakeInv /\ TypeInv /\ SenderInv /\ ReceiverInv /\ [Next]_vars => WakeInv'
  <2> SUFFICES ASSUME WakeInv, TypeInv, SenderInv, ReceiverInv, [Next]_vars PROVE WakeInv'
    OBVIOUS
  <2>1. CASE \E s \in Senders : notify_shm_drv_send_event(s)
    BY <2>1, SenderKeepsWake
  <2>2. CASE MailboxInterrupt \/ MailboxRefill \/ notify_shmdrv_isr_callback
    BY <2>2, WorkKeepsWake
  <2>3. CASE CtrlGoesOn \/ CtrlCalls
    BY <2>3, CtrlKeepsWake
  <2>4. CASE UNCHANGED vars
    BY <2>4 DEF vars, shm, bells, svars, ivars, rvars, WakeInv, Woken, ScanReaches, Charted
  <2> QED BY <2>1, <2>2, <2>3, <2>4 DEF Next
<1> QED BY <1>1, <1>2, TypeInvHolds, SendersSafe, ReceiverInvHolds, PTL DEF Spec

\* As long as no event has been masked by notify_shm_drv_disable_event, a
\* flagged event in the chart is never forgotten: a bell is on its way, its
\* sender is about to ring, or the scan under way will come to it.  It holds
\* for every size of the mailbox and of the kfifo, although both drop bells.
\* Masking breaks it: an event raised while it is masked is not looked at
\* again when notify_shm_drv_enable_event unmasks it.
THEOREM NoWakeupIsLost == Spec => [](nmask = 0 => NoLostWakeup)
<1>1. WakeInv /\ ReceiverInv => (nmask = 0 => NoLostWakeup)
  <2> SUFFICES ASSUME WakeInv, ReceiverInv, nmask = 0, NEW j \in DOMAIN chart,
                      Asserted(chart[j])
               PROVE  Woken(chart[j])
    BY DEF NoLostWakeup, Woken
  <2>1. chart[j] \in Charted(chart)
    BY DEF Charted, ReceiverInv, ReceiverTypes
  <2> QED BY <2>1 DEF WakeInv, Asserted
<1> QED BY <1>1, WakeInvHolds, ReceiverInvHolds, PTL

-----------------------------------------------------------------------------
(* Each event is a one-place box for senders that wait.                    *)

\* The entry as the box holds it.
Content == [e \in Events |-> IF flag[e] THEN payload[e] ELSE 0]

\* Inductive, if all senders wait and no event is masked: what a sender has
\* written stays until it is raised, since it holds the gate, and what is
\* raised stays until it is taken, since the other senders wait.
BoxInv ==
  /\ cpc \in {"idle", "reg", "unreg"}
  /\ \A s \in Senders : spc[s] # "idle" => swait[s] /\ spay[s] \in 1..MaxSends
  /\ \A s \in Senders : spc[s] = "raise" => payload[sev[s]] = spay[s]
  /\ \A e \in Events : flag[e] => payload[e] \in 1..MaxSends
  /\ ipc \in {"take", "ack"} => flag[chart[idx]]
  /\ ipc = "ack" => ipay = payload[chart[idx]]

\* The mapping, spelled out.
LEMMA ContentIsBox ==
  /\ Content' = Content /\ regMask' = regMask /\ handed' = handed
       => UNCHANGED Box!bvars
  /\ \A e \in Events :
       Content[e] = 0 /\ UNCHANGED <<regMask, handed>>
       /\ (\E p \in 1..MaxSends : Content' = [Content EXCEPT ![e] = p])
       => Box!Post(e)
  /\ \A e \in Events :
       e \in regMask /\ Content[e] # 0 /\ Content' = [Content EXCEPT ![e] = 0]
       /\ handed' = <<e, Content[e]>> /\ UNCHANGED regMask
       => Box!Take(e)
  /\ \A e \in Events :
       e \notin regMask /\ UNCHANGED <<regMask, handed>>
       /\ Content' = [Content EXCEPT ![e] = 0]
       => Box!Discard(e)
  /\ \A e \in Events :
       regMask' = regMask \cup {e} /\ Content' = Content /\ UNCHANGED handed
       => Box!Announce(e)
  /\ \A e \in Events :
       regMask' = regMask \ {e} /\ Content' = Content /\ UNCHANGED handed
       => Box!Withdraw(e)
<1> USE DEF Content
<1>1. ASSUME Content' = Content, regMask' = regMask, handed' = handed
      PROVE  UNCHANGED Box!bvars
  BY <1>1 DEF Box!bvars
<1>2. ASSUME NEW e \in Events, Content[e] = 0, UNCHANGED <<regMask, handed>>,
             \E p \in 1..MaxSends : Content' = [Content EXCEPT ![e] = p]
      PROVE  Box!Post(e)
  BY <1>2 DEF Box!Post
<1>3. ASSUME NEW e \in Events, e \in regMask, Content[e] # 0,
             Content' = [Content EXCEPT ![e] = 0],
             handed' = <<e, Content[e]>>, UNCHANGED regMask
      PROVE  Box!Take(e)
  BY <1>3 DEF Box!Take
<1>4. ASSUME NEW e \in Events, e \notin regMask, UNCHANGED <<regMask, handed>>,
             Content' = [Content EXCEPT ![e] = 0]
      PROVE  Box!Discard(e)
  BY <1>4 DEF Box!Discard
<1>5. ASSUME NEW e \in Events, regMask' = regMask \cup {e}, Content' = Content,
             UNCHANGED handed
      PROVE  Box!Announce(e)
  BY <1>5 DEF Box!Announce
<1>6. ASSUME NEW e \in Events, regMask' = regMask \ {e}, Content' = Content,
             UNCHANGED handed
      PROVE  Box!Withdraw(e)
  BY <1>6 DEF Box!Withdraw
<1> HIDE DEF Content
<1> QED BY <1>1, <1>2, <1>3, <1>4, <1>5, <1>6

\* A sender fills an empty box, or changes nothing in it.
LEMMA SenderKeepsBox ==
  ASSUME WaitModes \subseteq {TRUE}, BoxInv, TypeInv, SenderInv, ReceiverInv,
         NEW s \in Senders, notify_shm_drv_send_event(s)
  PROVE  BoxInv' /\ [Box!Next]_(Box!bvars)
<1>t. /\ flag \in [Events -> BOOLEAN] /\ payload \in [Events -> 0..MaxSends]
      /\ sev \in [Senders -> Events] /\ DOMAIN spc = Senders /\ DOMAIN swait = Senders
      /\ spay \in [Senders -> 0..MaxSends] /\ nsent \in 0..MaxSends /\ MaxSends \in Nat
  BY BoundsAssumption DEF TypeInv, SendTypes, ShmTypes, SenderInv, SenderTypes
<1>u. UNCHANGED <<cpc, chart, ipc, idx, ipay, regMask, handed>>
  BY DEF notify_shm_drv_send_event, SendGoesOn, SendStart, SendInterrupted,
     SendCheckEnabled, SendLock, SendPoll, SendWrite, SendRaise, SendRing, shm, ivars, rvars
<1>p. ipc \in {"take", "ack"} => chart[idx] \in Events
  BY DEF ReceiverInv, ReceiverTypes, ScanInChart
<1>n. ASSUME flag' = flag, payload' = payload, sev' = sev, swait' = swait, spay' = spay,
             spc[s] # "idle", spc'[s] # "raise",
             \A r \in Senders : r # s => spc'[r] = spc[r]
      PROVE  BoxInv' /\ [Box!Next]_(Box!bvars)
  <2>1. BoxInv'
    BY <1>n, <1>t, <1>u DEF BoxInv
  <2>2. Content' = Content
    BY <1>n DEF Content
  <2> QED BY <2>1, <2>2, <1>u, ContentIsBox
<1>1. CASE SendStart(s)
  <2>1. Content' = Content
    BY <1>1 DEF SendStart, Content, shm
  <2>2. /\ nsent + 1 \in 1..MaxSends /\ spay' = [spay EXCEPT ![s] = nsent + 1]
        /\ UNCHANGED <<flag, payload>>
        /\ spc' = [spc EXCEPT ![s] = "enabled"] /\ swait'[s]
        /\ \A r \in Senders : r # s => swait'[r] = swait[r] /\ sev'[r] = sev[r]
    <3>1. PICK e \in regMask, w \in WaitModes :
            sev' = [sev EXCEPT ![s] = e] /\ swait' = [swait EXCEPT ![s] = w]
      BY <1>1 DEF SendStart
    <3>2. w = TRUE
      OBVIOUS
    <3> QED BY <3>1, <3>2, <1>1, <1>t DEF SendStart, shm
  <2>3. \A r \in Senders : spc'[r] # "idle" => swait'[r] /\ spay'[r] \in 1..MaxSends
    BY <2>2, <1>t DEF BoxInv
  <2>4. \A r \in Senders : spc'[r] = "raise" => payload'[sev'[r]] = spay'[r]
    BY <2>2, <1>t DEF BoxInv
  <2>5. BoxInv'
    BY <2>2, <2>3, <2>4, <1>u DEF BoxInv
  <2> QED BY <2>1, <2>5, <1>u, ContentIsBox
<1>2. CASE SendInterrupted(s)
  BY <1>2, <1>n, <1>t DEF SendInterrupted, shm
<1>3. CASE SendCheckEnabled(s)
  BY <1>3, <1>n, <1>t DEF SendCheckEnabled, shm
<1>4. CASE SendLock(s)
  BY <1>4, <1>n, <1>t DEF SendLock, shm
<1>5. CASE SendPoll(s)
  BY <1>5, <1>n, <1>t DEF SendPoll, shm
<1>6. CASE SendRing(s)
  BY <1>6, <1>n, <1>t DEF SendRing, shm
<1>g. ASSUME spc[s] \in {"write", "raise"}
      PROVE  /\ ~flag[sev[s]]
             /\ \A r \in Senders : spc[r] = "raise" => r = s
             /\ spay[s] \in 1..MaxSends
  BY <1>g DEF BoxInv, SenderInv, WaitersNeverOverwrite, GateExact, Critical
<1>7. CASE SendWrite(s)
  <2>1. /\ spc[s] = "write" /\ payload' = [payload EXCEPT ![sev[s]] = spay[s]]
        /\ spc' = [spc EXCEPT ![s] = "raise"] /\ UNCHANGED <<flag, sev, swait, spay>>
    BY <1>7 DEF SendWrite
  <2>2. ~flag[sev[s]] /\ spay[s] \in 1..MaxSends
        /\ \A r \in Senders : spc[r] = "raise" => r = s
    BY <2>1, <1>g
  <2>3. Content' = Content
    BY <2>1, <2>2, <1>t DEF Content
  <2>4. \A r \in Senders : spc'[r] = "raise" => payload'[sev'[r]] = spay'[r]
    BY <2>1, <2>2, <1>t
  <2>5. \A r \in Senders : spc'[r] # "idle" => swait'[r] /\ spay'[r] \in 1..MaxSends
    BY <2>1, <1>t DEF BoxInv
  <2>6. \A e \in Events : flag'[e] => payload'[e] \in 1..MaxSends
    BY <2>1, <2>2, <1>t DEF BoxInv
  <2>7. ipc \in {"take", "ack"} => payload'[chart[idx]] = payload[chart[idx]]
    BY <2>1, <2>2, <1>t, <1>p DEF BoxInv
  <2>8. BoxInv'
    BY <2>1, <2>4, <2>5, <2>6, <2>7, <1>u DEF BoxInv
  <2> QED BY <2>3, <2>8, <1>u, ContentIsBox
<1>8. CASE SendRaise(s)
  <2>1. /\ spc[s] = "raise" /\ flag' = [flag EXCEPT ![sev[s]] = TRUE]
        /\ spc' = [spc EXCEPT ![s] = "ring"] /\ UNCHANGED <<payload, sev, swait, spay>>
    BY <1>8 DEF SendRaise
  <2>2. ~flag[sev[s]] /\ spay[s] \in 1..MaxSends /\ payload[sev[s]] = spay[s]
        /\ sev[s] \in Events
    BY <2>1, <1>g, <1>t DEF BoxInv
  <2>3. Content[sev[s]] = 0 /\ Content' = [Content EXCEPT ![sev[s]] = spay[s]]
    BY <2>1, <2>2, <1>t DEF Content
  <2>4. PICK e \in Events : e = sev[s]
    BY <2>2
  <2>5. \A r \in Senders : spc'[r] = "raise" => payload'[sev'[r]] = spay'[r]
    BY <2>1, <1>t DEF BoxInv
  <2>6. \A r \in Senders : spc'[r] # "idle" => swait'[r] /\ spay'[r] \in 1..MaxSends
    BY <2>1, <1>t DEF BoxInv
  <2>7. \A x \in Events : flag'[x] => payload'[x] \in 1..MaxSends
    BY <2>1, <2>2, <1>t DEF BoxInv
  <2>8. ipc \in {"take", "ack"} => flag'[chart[idx]]
    BY <2>1, <1>t, <1>p DEF BoxInv
  <2>9. BoxInv'
    BY <2>1, <2>5, <2>6, <2>7, <2>8, <1>u DEF BoxInv
  <2>10. Box!Next
    <3>1. Content[e] = 0 /\ \E p \in 1..MaxSends : Content' = [Content EXCEPT ![e] = p]
      BY <2>2, <2>3, <2>4
    <3>2. Box!Post(e)
      BY <3>1, <1>u, ContentIsBox
    <3> QED BY <3>2 DEF Box!Next
  <2> QED BY <2>9, <2>10
<1> QED BY <1>1, <1>2, <1>3, <1>4, <1>5, <1>6, <1>7, <1>8
        DEF notify_shm_drv_send_event, SendGoesOn

\* The scan takes exactly what the box holds; the mailbox leaves it alone.
LEMMA WorkKeepsBox ==
  ASSUME BoxInv, TypeInv, SenderInv, ReceiverInv,
         MailboxInterrupt \/ MailboxRefill \/ notify_shmdrv_isr_callback
  PROVE  BoxInv' /\ [Box!Next]_(Box!bvars)
<1>t. /\ flag \in [Events -> BOOLEAN] /\ payload \in [Events -> 0..MaxSends]
      /\ ipc \in {"take", "ack"} => chart[idx] \in Events /\ chart[idx] \in Charted(chart)
      /\ 0 \notin 1..MaxSends
  BY DEF TypeInv, ShmTypes, ReceiverInv, ReceiverTypes, ScanInChart, Charted
<1>u. UNCHANGED <<cpc, chart, regMask, payload, spc, sev, swait, spay>>
  BY DEF MailboxInterrupt, MailboxRefill, notify_shmdrv_isr_callback, IsrStart, IsrScan,
         IsrTake, IsrAck, IsrLock, IsrReturn, shm, svars, rvars
<1>n. ASSUME flag' = flag, handed' = handed,
             ipc' \in {"take", "ack"} => flag[chart[idx']],
             ipc' = "ack" => ipay' = payload[chart[idx']]
      PROVE  BoxInv' /\ [Box!Next]_(Box!bvars)
  <2>1. BoxInv'
    BY <1>n, <1>u DEF BoxInv
  <2>2. Content' = Content
    BY <1>n, <1>u DEF Content
  <2> QED BY <2>1, <2>2, <1>n, <1>u, ContentIsBox
<1>1. CASE MailboxInterrupt
  BY <1>1, <1>n DEF MailboxInterrupt, BoxInv, shm, ivars
<1>2. CASE MailboxRefill
  BY <1>2, <1>n DEF MailboxRefill, shm
<1>3. CASE IsrStart
  BY <1>3, <1>n DEF IsrStart, shm
<1>4. CASE IsrScan
  <2>1. ipc' \in {"take", "ack"} => flag[chart[idx']]
    BY <1>4 DEF IsrScan, Asserted
  <2>2. ipc' # "ack" /\ flag' = flag /\ handed' = handed
    BY <1>4 DEF IsrScan, shm
  <2> QED BY <2>1, <2>2, <1>n
<1>5. CASE IsrTake
  BY <1>5, <1>n DEF IsrTake, BoxInv, shm
<1>6. CASE IsrLock
  BY <1>6, <1>n DEF IsrLock, shm
<1>7. CASE IsrReturn
  BY <1>7, <1>n DEF IsrReturn, shm
<1>8. CASE IsrAck
  <2>1. PICK e \in Events : e = chart[idx]
    BY <1>8, <1>t DEF IsrAck
  <2>2. /\ ipc = "ack" /\ flag' = [flag EXCEPT ![e] = FALSE] /\ handed' = <<e, ipay>>
        /\ ipc' \notin {"take", "ack"}
    <3>1. callbacks[chart[idx]] \in {"none", "many", "single"}
      BY <2>1, ModesAssumption DEF ReceiverInv, ReceiverTypes
    <3>2. ipc' \in {"oops", "lock", "call"}
      BY <1>8, <3>1 DEF IsrAck
    <3> QED BY <1>8, <2>1, <3>2 DEF IsrAck
  <2>3. flag[e] /\ ipay = payload[e] /\ payload[e] \in 1..MaxSends
    BY <2>1, <2>2 DEF BoxInv
  <2>4. e \in regMask
    BY <1>t, <2>1, <2>2 DEF ReceiverInv, OneRuns, WorkSleeps, CtrlSleeps, ChartAgrees
  <2>5. /\ Content[e] = payload[e] /\ Content[e] # 0
        /\ Content' = [Content EXCEPT ![e] = 0]
    BY <1>t, <1>u, <2>2, <2>3 DEF Content
  <2>6. Box!Take(e)
    <3>1. handed' = <<e, Content[e]>>
      BY <2>2, <2>3, <2>5
    <3> QED BY <1>u, <2>4, <2>5, <3>1, ContentIsBox
  <2>7. Box!Next
    BY <2>6 DEF Box!Next
  <2>8. \A x \in Events : flag'[x] => payload'[x] \in 1..MaxSends
    BY <1>t, <1>u, <2>2 DEF BoxInv
  <2>9. BoxInv'
    BY <1>u, <2>2, <2>8 DEF BoxInv
  <2> QED BY <2>7, <2>9
<1> QED BY <1>1, <1>2, <1>3, <1>4, <1>5, <1>6, <1>7, <1>8 DEF notify_shmdrv_isr_callback

\* A box is emptied by the control thread only while its event is closed.
LEMMA CtrlKeepsBox ==
  ASSUME MaxMask = 0, BoxInv, TypeInv, SenderInv, ReceiverInv, CtrlGoesOn \/ CtrlCalls
  PROVE  BoxInv' /\ [Box!Next]_(Box!bvars)
<1>t. /\ flag \in [Events -> BOOLEAN] /\ payload \in [Events -> 0..MaxSends]
      /\ cev \in Events /\ nmask = 0
  BY DEF TypeInv, ShmTypes, CtrlTypes, ReceiverInv, ReceiverTypes
<1>u. UNCHANGED <<ipc, idx, ipay, payload, spc, sev, swait, spay>>
  BY DEF CtrlGoesOn, CtrlCalls, RegisterAnnounce, UnregisterClear, DisableTest,
         DisableExec, DisableReturn, DisableEnd, RegisterEvent, UnregisterEvent,
         DisableBegin, notify_shm_drv_enable_event, notify_disable, notify_restore,
         shm, ivars, svars
<1>s. ipc \notin {"take", "ack"}
  <2>1. WorkSleeps
    <3>1. CASE CtrlCalls
      BY <3>1 DEF CtrlCalls, RegisterEvent, UnregisterEvent, DisableBegin,
           notify_shm_drv_enable_event, notify_disable, notify_restore, CtrlStarts
    <3>2. CASE CtrlGoesOn
      BY <3>2 DEF CtrlGoesOn, RegisterAnnounce, UnregisterClear, DisableTest,
           DisableExec, DisableReturn, DisableEnd, ReceiverInv, OneRuns, CtrlSleeps
    <3> QED BY <3>1, <3>2
  <2> QED BY <2>1 DEF WorkSleeps
<1>b. ASSUME cpc' \in {"idle", "reg", "unreg"}, \A e \in Events : flag'[e] => flag[e]
      PROVE  BoxInv'
  BY <1>b, <1>u, <1>s DEF BoxInv
<1>c. ASSUME NEW e \in Events, flag' = [flag EXCEPT ![e] = FALSE]
      PROVE  Content' = [Content EXCEPT ![e] = 0] /\ \A x \in Events : flag'[x] => flag[x]
  BY <1>c, <1>t, <1>u DEF Content
<1>k. flag' = flag => Content' = Content
  BY <1>u DEF Content
<1>1. ASSUME NEW e \in Events, NEW kind \in Kinds, RegisterEvent(e, kind)
      PROVE  BoxInv' /\ [Box!Next]_(Box!bvars)
  <2>1. /\ callbacks[e] = "none" /\ cpc = "idle" /\ cpc' = "reg"
        /\ flag' = [flag EXCEPT ![e] = FALSE] /\ UNCHANGED <<regMask, handed>>
    BY <1>1 DEF RegisterEvent, CtrlStarts
  <2>2. e \notin regMask
    BY <2>1 DEF ReceiverInv, ChartAgrees
  <2>3. Box!Discard(e)
    BY <1>c, <2>1, <2>2, ContentIsBox
  <2>4. Box!Next
    BY <2>3 DEF Box!Next
  <2>5. BoxInv'
    BY <1>b, <1>c, <2>1
  <2> QED BY <2>4, <2>5
<1>2. CASE RegisterAnnounce
  <2>1. /\ cpc' = "idle" /\ regMask' = regMask \cup {cev} /\ UNCHANGED <<flag, handed>>
    BY <1>2 DEF RegisterAnnounce
  <2>2. PICK e \in Events : e = cev
    BY <1>t
  <2>3. Box!Announce(e)
    BY <1>k, <2>1, <2>2, ContentIsBox
  <2>4. Box!Next
    BY <2>3 DEF Box!Next
  <2>5. BoxInv'
    BY <1>b, <2>1
  <2> QED BY <2>4, <2>5
<1>3. ASSUME NEW e \in Events, UnregisterEvent(e)
      PROVE  BoxInv' /\ [Box!Next]_(Box!bvars)
  <2>1. /\ cpc' = "unreg" /\ regMask' = regMask \ {e} /\ UNCHANGED <<flag, handed>>
    BY <1>3 DEF UnregisterEvent
  <2>2. Box!Withdraw(e)
    BY <1>k, <2>1, ContentIsBox
  <2>3. Box!Next
    BY <2>2 DEF Box!Next
  <2>4. BoxInv'
    BY <1>b, <2>1
  <2> QED BY <2>3, <2>4
<1>4. CASE UnregisterClear
  <2>1. PICK e \in Events : e = cev
    BY <1>t
  <2>2. /\ cpc = "unreg" /\ cpc' = "idle" /\ flag' = [flag EXCEPT ![e] = FALSE]
        /\ UNCHANGED <<regMask, handed>>
    BY <1>4, <2>1 DEF UnregisterClear
  <2>3. e \notin regMask
    BY <2>1, <2>2 DEF ReceiverInv, ChartAgrees
  <2>4. Box!Discard(e)
    BY <1>c, <2>2, <2>3, ContentIsBox
  <2>5. Box!Next
    BY <2>4 DEF Box!Next
  <2>6. BoxInv'
    BY <1>b, <1>c, <2>2
  <2> QED BY <2>5, <2>6
<1>5. ASSUME cpc' = cpc, UNCHANGED <<flag, regMask, handed>>
      PROVE  BoxInv' /\ [Box!Next]_(Box!bvars)
  <2>1. BoxInv'
    BY <1>5, <1>b DEF BoxInv
  <2> QED BY <2>1, <1>5, <1>k, ContentIsBox
<1>6. ASSUME NEW e \in Events, notify_shm_drv_enable_event(e)
      PROVE  BoxInv' /\ [Box!Next]_(Box!bvars)
  BY <1>6, <1>5 DEF notify_shm_drv_enable_event
<1>7. CASE notify_disable \/ notify_restore
  BY <1>7, <1>5 DEF notify_disable, notify_restore, shm
<1>8. ASSUME NEW e \in Events, DisableBegin(e) PROVE FALSE
  BY <1>8, <1>t DEF DisableBegin
<1>9. CASE DisableTest \/ DisableExec \/ DisableReturn \/ DisableEnd
  BY <1>9 DEF DisableTest, DisableExec, DisableReturn, DisableEnd, BoxInv
<1> HIDE DEF BoxInv
<1> QED BY <1>1, <1>2, <1>3, <1>4, <1>6, <1>7, <1>8, <1>9 DEF CtrlGoesOn, CtrlCalls

\* If every caller of notify_shm_drv_send_event waits and no event is masked,
\* each event implements a one-place box: it is filled only when empty, its
\* content is handed to the callback unchanged and once, and it is dropped only
\* while the event is not announced.
THEOREM ImplementsBox ==
  ASSUME MaxMask = 0, WaitModes \subseteq {TRUE}
  PROVE  Spec => IsBox
<1>0. Init => Box!Init
  <2> SUFFICES ASSUME Init PROVE Box!Init
    OBVIOUS
  <2>1. 0 \in Events
    BY NumEventsAssumption DEF Events
  <2>2. handed \in Events \X {0}
    BY <2>1 DEF Init
  <2> QED BY <2>2 DEF Init, Box!Init
<1>1. Init => BoxInv
  BY DEF Init, BoxInv
<1>2. BoxInv /\ TypeInv /\ SenderInv /\ ReceiverInv /\ [Next]_vars
        => BoxInv' /\ [Box!Next]_(Box!bvars)
  <2> SUFFICES ASSUME BoxInv, TypeInv, SenderInv, ReceiverInv, [Next]_vars
               PROVE  BoxInv' /\ [Box!Next]_(Box!bvars)
    OBVIOUS
  <2>1. CASE \E s \in Senders : notify_shm_drv_send_event(s)
    BY <2>1, SenderKeepsBox
  <2>2. CASE MailboxInterrupt \/ MailboxRefill \/ notify_shmdrv_isr_callback
    BY <2>2, WorkKeepsBox
  <2>3. CASE CtrlGoesOn \/ CtrlCalls
    BY <2>3, CtrlKeepsBox
  <2>4. CASE UNCHANGED vars
    <3>1. UNCHANGED <<cpc, spc, swait, spay, payload, flag, sev, ipc, idx, chart, ipay,
                      regMask, handed>>
      BY <2>4 DEF vars, shm, svars, ivars, rvars
    <3>2. BoxInv'
      BY <3>1 DEF BoxInv
    <3>3. Content' = Content
      BY <3>1 DEF Content
    <3> QED BY <3>1, <3>2, <3>3, ContentIsBox
  <2> QED BY <2>1, <2>2, <2>3, <2>4 DEF Next
<1> QED BY <1>0, <1>1, <1>2, TypeInvHolds, SendersSafe, ReceiverInvHolds, PTL
        DEF Spec, IsBox, Box!Spec
=============================================================================
