---------------------------- MODULE ControlChannel ----------------------------
(***************************************************************************)
(* What the control stream of a peering session promises, and what         *)
(* PeerSessions takes for granted: the messages of a connection are        *)
(* handled in the order they were written, each at most once.  A message   *)
(* whose handler throws may take messages after it along, or leave the     *)
(* receiver out of step with the sender, who is then promised nothing.     *)
(***************************************************************************)
EXTENDS Naturals, Sequences

CONSTANTS
    Kind,    \* the kinds of messages
    Bad      \* those whose handler throws

VARIABLES
    written,    \* the messages written on the connection
    next,       \* the number of the message to be handled next
    handled,    \* the messages handled on the connection
    lost        \* the receiver is out of step

vars == <<written, next, handled, lost>>

Init == written = <<>> /\ next = 1 /\ handled = <<>> /\ lost = FALSE

Write ==
    /\ \E k \in Kind : written' = Append(written, k)
    /\ UNCHANGED <<next, handled, lost>>

Handle ==
    /\ ~lost /\ next <= Len(written)
    /\ handled' = Append(handled, written[next])
    /\ next' = next + 1
    /\ UNCHANGED <<written, lost>>

\* The handler of the next message throws.
Throw ==
    /\ ~lost /\ next <= Len(written) /\ written[next] \in Bad
    /\ handled' = Append(handled, written[next])
    /\ next' \in (next + 1)..(Len(written) + 1)
    /\ lost' \in BOOLEAN
    /\ UNCHANGED written

OutOfStep == lost /\ lost' /\ UNCHANGED written

NewConnection ==
    /\ written' = <<>> /\ next' = 1 /\ handled' = <<>> /\ lost' = FALSE

Next == Write \/ Handle \/ Throw \/ OutOfStep \/ NewConnection

Spec == Init /\ [][Next]_vars
=============================================================================
