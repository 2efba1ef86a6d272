----------------------------- MODULE MCNodeTable -----------------------------
(* Small instances of NodeTable: two nodes, informations that disagree on   *)
(* hops and sRTT in every way.                                              *)
EXTENDS NodeTable

MCNode == {1, 2}

\* Near and slow, far and fast, far and slow.
MCNodeInfo ==
    { [path |-> <<1>>, srtt |-> 2],
      [path |-> <<1, 2>>, srtt |-> 1],
      [path |-> <<1, 2>>, srtt |-> 2] }
=============================================================================
