--------------------------- MODULE PaperLifecycle ----------------------------
(***************************************************************************)
(* What the approval and paper execution routes promise, one step per      *)
(* accepted request: an approval request is answered once, only approved   *)
(* signals are executed, an order is filled and then closed, and a filled  *)
(* order leaves its signal with a position until an order of the signal is *)
(* closed.                                                                 *)
(***************************************************************************)
CONSTANTS Signals, Orders, NoSignal

VARIABLES
    request,    \* each signal's approval
    order,      \* each order's status and signal
    held        \* the signals with an open position

vars == <<request, order, held>>

Init ==
    /\ request = [s \in Signals |-> "unused"]
    /\ order = [o \in Orders |-> [status |-> "none", signal |-> NoSignal]]
    /\ held = {}

Submit(s, o) ==
    /\ order[o].status = "none"
    /\ \E status \in {"accepted", "rejected"} :
          order' = [order EXCEPT ![o] = [status |-> status, signal |-> s]]
    /\ UNCHANGED held

Direct(s, o) ==
    /\ request[s] = "unused"
    /\ request' = [request EXCEPT ![s] = "direct"]
    /\ Submit(s, o)

Ask(s) ==
    /\ request[s] = "unused"
    /\ request' = [request EXCEPT ![s] = "pending"]
    /\ UNCHANGED <<order, held>>

Answer(s) ==
    /\ request[s] = "pending"
    /\ \E answer \in {"approved", "rejected", "expired"} :
          request' = [request EXCEPT ![s] = answer]
    /\ UNCHANGED <<order, held>>

Execute(s, o) ==
    /\ request[s] = "approved"
    /\ Submit(s, o)
    /\ UNCHANGED request

Fill(o) ==
    /\ order[o].status = "accepted"
    /\ order' = [order EXCEPT ![o].status = "filled"]
    /\ held' = held \union {order[o].signal}
    /\ UNCHANGED request

Close(o) ==
    /\ order[o].status = "filled"
    /\ order' = [order EXCEPT ![o].status = "closed"]
    /\ held' = held \ {order[o].signal}
    /\ UNCHANGED request

Next ==
    \/ \E s \in Signals : Ask(s) \/ Answer(s)
    \/ \E s \in Signals, o \in Orders : Direct(s, o) \/ Execute(s, o)
    \/ \E o \in Orders : Fill(o) \/ Close(o)

Spec == Init /\ [][Next]_vars

=============================================================================
