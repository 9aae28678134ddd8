----------------------------- MODULE LogService -----------------------------
(***************************************************************************)
(* What the logger promises its callers: messages are accepted one after   *)
(* the other, and the log files hold a growing prefix of what was          *)
(* accepted, each message once and in order.  Messages are numbered in the *)
(* order they are accepted.                                                *)
(***************************************************************************)
EXTENDS Integers, Sequences

VARIABLES
  accepted,   \* how many messages were accepted
  log         \* the messages in the files

Init == accepted = 0 /\ log = <<>>

Accept ==
  /\ accepted' \in Nat /\ accepted' > accepted
  /\ UNCHANGED log

Write ==
  /\ \E n \in (Len(log) + 1)..accepted : log' = [i \in 1..n |-> i]
  /\ UNCHANGED accepted

Next == Accept \/ Write

Spec == Init /\ [][Next]_<<accepted, log>>
=============================================================================
