------------------------------ MODULE EventBox ------------------------------
(***************************************************************************)
(* What Notify promises for wait_clear events: each event is a one-place   *)
(* box.  A sender fills it only when it is empty, the receiver hands over  *)
(* exactly what was put in last, once, and a message leaves the box        *)
(* without being handed over only while the event is closed.               *)
(***************************************************************************)
EXTENDS Integers

CONSTANTS Events, Payloads, Empty

VARIABLES box,     \* per event: the payload in the box, or Empty
          open,    \* events the receiver has announced
          handed   \* the last <<event, payload>> given to a callback

bvars == <<box, open, handed>>

Init == /\ box = [e \in Events |-> Empty]
        /\ open = {}
        /\ handed \in Events \X {Empty}

Post(e) == /\ box[e] = Empty
           /\ \E p \in Payloads : box' = [box EXCEPT ![e] = p]
           /\ UNCHANGED <<open, handed>>

Take(e) == /\ e \in open
           /\ box[e] # Empty
           /\ box' = [box EXCEPT ![e] = Empty]
           /\ handed' = <<e, box[e]>>
           /\ UNCHANGED open

Discard(e) == /\ e \notin open
              /\ box' = [box EXCEPT ![e] = Empty]
              /\ UNCHANGED <<open, handed>>

Announce(e) == /\ open' = open \cup {e}
               /\ UNCHANGED <<box, handed>>

Withdraw(e) == /\ open' = open \ {e}
               /\ UNCHANGED <<box, handed>>

Next == \E e \in Events :
           Post(e) \/ Take(e) \/ Discard(e) \/ Announce(e) \/ Withdraw(e)

Spec == Init /\ [][Next]_bvars
=============================================================================
