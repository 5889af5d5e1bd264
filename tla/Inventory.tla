----------------------------- MODULE Inventory -----------------------------
(***************************************************************************)
(* What the inventory of case 1 promises its callers: every purchase takes *)
(* effect at one instant, either taking the quantity it asked for out of a *)
(* stock that covers it, or finding that the stock does not.  A purchase   *)
(* that writes back less or more than that is no sale of this inventory,   *)
(* and so a lost update is refused.  The purchases of Purchase implement   *)
(* this when nobody bypasses the lock.                                     *)
(***************************************************************************)
EXTENDS Integers

CONSTANTS Requests,    \* the purchase requests
          Quantities,  \* the quantities they may ask for
          Stocks       \* the stocks the item may be given

VARIABLES left,        \* units left of the item
          asked,       \* the units each request asks for, 0 until it arrives
          verdict      \* what became of each request: open, sold or sold_out

vars == <<left, asked, verdict>>

Init == /\ left \in Int
        /\ asked = [r \in Requests |-> 0]
        /\ verdict = [r \in Requests |-> "open"]

\* A request arrives with its quantity, which it keeps.
Ask(r, q) == /\ q # 0
             /\ asked[r] = 0
             /\ verdict[r] = "open"
             /\ asked' = [asked EXCEPT ![r] = q]
             /\ UNCHANGED <<left, verdict>>

Open(r) == asked[r] # 0 /\ verdict[r] = "open"

Sell(r) == /\ Open(r)
           /\ left >= asked[r]
           /\ left' = left - asked[r]
           /\ verdict' = [verdict EXCEPT ![r] = "sold"]
           /\ UNCHANGED asked

Refuse(r) == /\ Open(r)
             /\ left < asked[r]
             /\ verdict' = [verdict EXCEPT ![r] = "sold_out"]
             /\ UNCHANGED <<left, asked>>

Setup(s) == /\ left' = s
            /\ UNCHANGED <<asked, verdict>>

Next == \/ \E r \in Requests : Sell(r) \/ Refuse(r) \/ \E q \in Quantities : Ask(r, q)
        \/ \E s \in Stocks : Setup(s)

Spec == Init /\ [][Next]_vars
=============================================================================
