---------------------------- MODULE MCControlStream ----------------------------
(* ControlStream with three kinds of messages.                               *)
EXTENDS ControlStream

SmallSizes == [k \in Kind |-> IF k \in Bad THEN 2 ELSE k]
=============================================================================
