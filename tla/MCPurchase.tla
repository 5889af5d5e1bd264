----------------------------- MODULE MCPurchase -----------------------------
(***************************************************************************)
(* Instances of Purchase for TLC: buyers spread over two API nodes.        *)
(***************************************************************************)
EXTENDS Purchase, TLC

CONSTANTS r1, r2, r3, n1, n2

\* Two requests share a node, so a crash takes both.
ThreeBuyers == (r1 :> n1) @@ (r2 :> n2) @@ (r3 :> n1)
Orders == {-1, 0, 2}

TwoBuyers == (r1 :> n1) @@ (r2 :> n2)
=============================================================================
