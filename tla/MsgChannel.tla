----------------------------- MODULE MsgChannel -----------------------------
(***************************************************************************)
(* What one direction of a mailbox promises: messages come out in the      *)
(* order they went in, each at most once.  With Lossy = FALSE every        *)
(* message that went in also comes out; with Lossy = TRUE one may vanish,  *)
(* but those that remain keep their order.                                 *)
(***************************************************************************)
EXTENDS Integers, Sequences

CONSTANTS Msgs,    \* the messages that may be put in
          Lossy    \* TRUE iff the channel may drop a message

VARIABLES buf,     \* the messages in flight, oldest first
          got      \* the messages that have come out, oldest first

cvars == <<buf, got>>

Init == buf = <<>> /\ got = <<>>

Put == /\ \E m \in Msgs : buf' = Append(buf, m)
       /\ UNCHANGED got

Get == /\ buf # <<>>
       /\ buf' = Tail(buf)
       /\ got' = Append(got, Head(buf))

Drop == /\ Lossy
        /\ \E i \in 1..Len(buf) :
              buf' = SubSeq(buf, 1, i - 1) \o SubSeq(buf, i + 1, Len(buf))
        /\ UNCHANGED got

Next == Put \/ Get \/ Drop

Spec == Init /\ [][Next]_cvars
=============================================================================
