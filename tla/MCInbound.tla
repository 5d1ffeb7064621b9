----------------------------- MODULE MCInbound ------------------------------
(***************************************************************************)
(* A small instance of Inbound for TLC: a peer d1 with a second            *)
(* destination d2, so that messages of both come over its links.           *)
(***************************************************************************)
EXTENDS Inbound

CONSTANTS d1, d2, o1, i1, m1, m2

LinksOfD1 == [l \in Link |-> d1]
ByEach    == [m \in Msg |-> IF m = m1 THEN d1 ELSE d2]
=============================================================================
