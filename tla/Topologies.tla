------------------------------ MODULE Topologies ------------------------------
(* Small networks of relays for the model-checking modules.  Session i is    *)
(* opened by relay C[i] to relay S[i]; P[i] is the session it replaces.      *)

TwoRelays == {1, 2}

ThreeRelays == {1, 2, 3}

\* 1 -- 2: relay 1 opens a session to relay 2, and another when it has lost it.
PairClient == <<1, 1>>
PairServer == <<2, 2>>
PairPrev == <<0, 1>>

\* 1 -- 2 -- 3: relays 1 and 3 open sessions to relay 2.
LineClient == <<1, 3>>
LineServer == <<2, 2>>
LinePrev == <<0, 0>>
LineSrtt == <<1, 2>>

\* The line, with a third session that replaces the first when relay 1 has
\* lost it.
RelineClient == <<1, 3, 1>>
RelineServer == <<2, 2, 2>>
RelinePrev == <<0, 0, 1>>
RelineSrtt == <<1, 2, 1>>

\* The way of the line from each relay to each: LineUp[n][r] is the session that
\* relay r would take to relay n, LineDist[n][r] the number of sessions between
\* them (of a relay to itself, LineUp is any).
LineDist == <<<<0, 1, 2>>, <<1, 0, 1>>, <<2, 1, 0>>>>
LineUp == <<<<1, 1, 2>>, <<1, 1, 2>>, <<1, 2, 2>>>>

\* Three relays, each connected to the two others.
RingClient == <<1, 2, 3>>
RingServer == <<2, 3, 1>>
RingPrev == <<0, 0, 0>>
RingSrtt == <<1, 3, 1>>

\* The ring, with a fourth session that replaces the first.
RejoinClient == <<1, 2, 3, 1>>
RejoinServer == <<2, 3, 1, 2>>
RejoinPrev == <<0, 0, 0, 1>>
RejoinSrtt == <<1, 3, 1, 1>>
=============================================================================
