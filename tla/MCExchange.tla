----------------------------- MODULE MCExchange -----------------------------
(***************************************************************************)
(* A small instance of Exchange for TLC: a asks for stamps and hands out   *)
(* tickets, b does neither.  a sends b two messages, b sends a one.        *)
(***************************************************************************)
EXTENDS ExchangeClaims, TLC

CONSTANTS a, b, a1, a2, b1

ByName      == [m \in Msg |-> IF m = b1 THEN b ELSE a]
ToTheOther  == [m \in Msg |-> IF m = b1 THEN a ELSE b]
NoAppCost   == [m \in Msg |-> 0]
AppFieldsOf == [m \in Msg |-> IF m = b1 THEN 2 ELSE 0]
OnlyAAsks   == [r \in Router |-> IF r = a THEN 1 ELSE 0]
Once        == [m \in Msg |-> 1]

FromASymmetry == Permutations({a1, a2})
=============================================================================
