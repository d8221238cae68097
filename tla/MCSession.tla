----------------------------- MODULE MCSession -----------------------------
(***************************************************************************)
(* An instance of Session: a browser with two tabs.                        *)
(***************************************************************************)
EXTENDS Session

CONSTANTS t1, t2

MCOpens == [t \in Tabs |-> IF t = t1 THEN {"home"} ELSE {"register"}]
=============================================================================
