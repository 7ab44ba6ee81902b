------------------------------ MODULE PlanSale ------------------------------
(***************************************************************************)
(* What a plan change promises about money, whatever the nodes, handlers   *)
(* and loops do: the price of the target plan is held once, and leaves the *)
(* hold exactly once, into orders of the instance or back to the wallet.   *)
(* Nothing else creates or destroys value.                                 *)
(***************************************************************************)
EXTENDS Integers

CONSTANTS Changes

VARIABLES
    phase,    \* of each change: "none", "held", "charged" or "returned"
    escrow,   \* the amount held for each change
    purse,    \* the wallet of the owner
    assets    \* the value of the instance's active orders

vars == <<phase, escrow, purse, assets>>

Init ==
    /\ phase = [c \in Changes |-> "none"]
    /\ escrow = [c \in Changes |-> 0]
    /\ purse \in Nat /\ assets \in Nat

\* c moves from one phase to the next; the other changes stay where they are.
Move(c, from, to) ==
    /\ phase[c] = from
    /\ phase' = [phase EXCEPT ![c] = to]
    /\ \A d \in Changes \ {c} : escrow'[d] = escrow[d]

Hold(c) ==
    /\ Move(c, "none", "held")
    /\ escrow'[c] >= 0
    /\ purse' = purse - escrow'[c] /\ purse' >= 0
    /\ assets' = assets

\* The hold pays for the new orders; the replaced orders return to the wallet.
Charge(c) ==
    /\ Move(c, "held", "charged")
    /\ escrow'[c] = 0
    /\ purse' + assets' = purse + assets + escrow[c] /\ purse' >= 0

Return(c) ==
    /\ Move(c, "held", "returned")
    /\ escrow'[c] = 0
    /\ purse' = purse + escrow[c]
    /\ assets' = assets

\* Renewals and refunds move value between the wallet and the orders.
Trade ==
    /\ UNCHANGED <<phase, escrow>>
    /\ purse' + assets' = purse + assets /\ purse' >= 0

Next == Trade \/ \E c \in Changes : Hold(c) \/ Charge(c) \/ Return(c)

Spec == Init /\ [][Next]_vars
=============================================================================
