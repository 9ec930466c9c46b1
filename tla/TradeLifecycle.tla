--------------------------- MODULE TradeLifecycle ----------------------------
(***************************************************************************)
(* What the auto paper trader promises about a signal: it is traded at     *)
(* most once, its status and its position change in the same transaction,  *)
(* and a position that was closed is not opened again.                     *)
(***************************************************************************)
EXTENDS Naturals

CONSTANT Signals

VARIABLES
    status,     \* signal_status of each signal
    holding     \* how many open positions each signal has

Init ==
    /\ status = [s \in Signals |-> "candidate"]
    /\ holding = [s \in Signals |-> 0]

Enter(s) ==
    /\ status[s] = "candidate"
    /\ status' = [status EXCEPT ![s] = "paper_submitted"]
    /\ holding' = [holding EXCEPT ![s] = 1]

Exit(S) ==
    /\ \A s \in S : status[s] = "paper_submitted"
    /\ status' = [s \in Signals |-> IF s \in S THEN "closed" ELSE status[s]]
    /\ holding' = [s \in Signals |-> IF s \in S THEN 0 ELSE holding[s]]

Next ==
    \/ \E s \in Signals : Enter(s)
    \/ \E S \in (SUBSET Signals) \ {{}} : Exit(S)

Spec == Init /\ [][Next]_<<status, holding>>

=============================================================================
