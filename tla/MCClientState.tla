--------------------------- MODULE MCClientState ---------------------------
(* Instances of ClientState for TLC. *)
EXTENDS ClientState

\* Tracks live in namespace a/b; it is announced and subscribed to as a.
InNamespace == [t \in Track |-> <<"a", "b">>]
Announced   == {<<"a">>}

\* One client can hold two requests at a time, the other one.
Requests == [c \in Client |-> IF c = 1 THEN 2 ELSE 1]

\* States are told apart by all but own_subs, which no handler and no property
\* looks at.
AllButOwnSubs == <<[st EXCEPT !.own_subs = {}], conns, announced>>
=============================================================================
