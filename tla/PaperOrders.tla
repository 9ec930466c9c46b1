----------------------------- MODULE PaperOrders -----------------------------
(***************************************************************************)
(* From an approval request to a closed paper position: the handlers under *)
(* /approvals and /execution, each a READ COMMITTED transaction of its own *)
(* session.  A handler loads a row, checks the status it loaded, and       *)
(* writes what it decided whatever the row has become since.               *)
(*                                                                         *)
(* Only one thing orders them: persist_paper_execution flushes the new     *)
(* status, so from there to its commit a handler holds the lock of the     *)
(* order's row.  A request that is refused changes nothing and is no step. *)
(***************************************************************************)
EXTENDS Integers, FiniteSets

CONSTANTS
    Signals,        \* signal rows, each with at most one approval request
    Orders,         \* paper order rows
    Calls,          \* bound: the HTTP requests of a behaviour
    MaxOverlap,     \* bound: how many of them are in progress at once
    NoSignal, NoOrder, NoPosition

ASSUME PaperAssumption ==
    /\ NoSignal \notin Signals /\ NoOrder \notin Orders /\ NoPosition \notin Calls
    /\ IsFiniteSet(Calls)
    /\ MaxOverlap \in Nat \ {0}

VARIABLES
    request,    \* each signal's approval request
    overdue,    \* the signals whose request is past expires_at
    order,      \* each order's status and signal
    position,   \* the position that each fill inserted
    call        \* what each HTTP request has read and where it is

vars == <<request, overdue, order, position, call>>

Answers == {"approved", "rejected", "expired"}

OrderRows ==
    [status : {"none", "accepted", "rejected", "filled", "closed"},
     signal : Signals \union {NoSignal}]

(* marked: unrealized_pnl is not zero.  closer: the order whose close      *)
(* recorded realized_pnl.                                                  *)
PositionRows ==
    [status : {"none", "open", "closed"}, signal : Signals \union {NoSignal},
     opener : Orders \union {NoOrder}, closer : Orders \union {NoOrder}, marked : BOOLEAN]

Kinds == Answers \union {"execute", "fill", "close", "mark"}

HttpCalls ==
    [stage : {"idle", "loaded", "flushed", "ready", "done"}, kind : Kinds \union {"none"},
     signal : Signals \union {NoSignal}, order : Orders \union {NoOrder},
     found : Calls \union {NoPosition}, marked : BOOLEAN]

NoRow == [status |-> "none", signal |-> NoSignal, opener |-> NoOrder,
          closer |-> NoOrder, marked |-> FALSE]

Idle == [stage |-> "idle", kind |-> "none", signal |-> NoSignal,
         order |-> NoOrder, found |-> NoPosition, marked |-> FALSE]

InProgress(c) == call[c].stage \in {"loaded", "flushed", "ready"}

Init ==
    /\ request = [s \in Signals |-> "unused"]
    /\ overdue = {}
    /\ order = [o \in Orders |-> [status |-> "none", signal |-> NoSignal]]
    /\ position = [c \in Calls |-> NoRow]
    /\ call = [c \in Calls |-> Idle]

-----------------------------------------------------------------------------

(* The status that fill and close require of the order they loaded. *)
Required(kind) == IF kind = "fill" THEN "accepted" ELSE "filled"

NothingOpen(s) == {}
OpenAnywhere(s) == {p \in Calls : position[p].status = "open"}

OpenOf(s) == {p \in Calls : position[p].status = "open" /\ position[p].signal = s}

(* mark_to_market refuses a position that is not open. *)
MarkableRow(p) == position[p].status # "none"

Markable(p) == position[p].status = "open"

(* The row lock that the flush takes is free. *)
UnlockedAlways(c) == call[c].stage = "loaded"

Unlocked(c) ==
    \A d \in Calls \ {c} :
        call[d].stage \in {"flushed", "ready"} => call[d].order # call[c].order

FilledPosition(o) == [NoRow EXCEPT !.status = "filled", !.signal = order[o].signal, !.opener = o]

NewPosition(o) == [NoRow EXCEPT !.status = "open", !.signal = order[o].signal, !.opener = o]

Load(c, loaded) ==
    /\ call[c].stage = "idle"
    /\ Cardinality({d \in Calls : InProgress(d)}) < MaxOverlap
    /\ call' = [call EXCEPT ![c] = loaded]

Return(c) == call' = [call EXCEPT ![c] = [Idle EXCEPT !.stage = "done"]]

(* An order row under a new id; blocked_result when no quantity results.   *)
Insert(s, o) ==
    /\ order[o].status = "none"
    /\ \E status \in {"accepted", "rejected"} :
          order' = [order EXCEPT ![o] = [status |-> status, signal |-> s]]

-----------------------------------------------------------------------------

(* /approvals/create, or a workflow run routed to confirm_live: a new      *)
(* signal and its request in one commit.                                   *)
Ask(s) ==
    /\ request[s] = "unused"
    /\ request' = [request EXCEPT ![s] = "pending"]
    /\ UNCHANGED <<overdue, order, position, call>>

(* A workflow run routed to paper: a new signal and its order. *)
Direct(s, o) ==
    /\ request[s] = "unused"
    /\ request' = [request EXCEPT ![s] = "direct"]
    /\ Insert(s, o)
    /\ UNCHANGED <<overdue, position, call>>

(* Time passes expires_at. *)
Elapse(s) ==
    /\ request[s] = "pending"
    /\ overdue' = overdue \union {s}
    /\ UNCHANGED <<request, order, position, call>>

LoadRequest(c) ==
    /\ \E s \in Signals, kind \in Answers \union {"execute"} :
          /\ request[s] = IF kind = "execute" THEN "approved" ELSE "pending"
          /\ kind = "expired" => s \in overdue
          /\ Load(c, [Idle EXCEPT !.stage = "loaded", !.kind = kind, !.signal = s])
    /\ UNCHANGED <<request, overdue, order, position>>

(* approve, reject and expire write the status they decided. *)
Respond(c) ==
    /\ call[c].stage = "loaded" /\ call[c].kind \in Answers
    /\ request' = [request EXCEPT ![call[c].signal] = call[c].kind]
    /\ Return(c)
    /\ UNCHANGED <<overdue, order, position>>

Execute(c) ==
    /\ call[c].stage = "loaded" /\ call[c].kind = "execute"
    /\ \E o \in Orders : Insert(call[c].signal, o)
    /\ Return(c)
    /\ UNCHANGED <<request, overdue, position>>

-----------------------------------------------------------------------------

LoadOrder(c) ==
    /\ \E o \in Orders, kind \in {"fill", "close"} :
          /\ order[o].status = Required(kind)
          /\ Load(c, [Idle EXCEPT !.stage = "loaded", !.kind = kind, !.order = o])
    /\ UNCHANGED <<request, overdue, order, position>>

(* persist_paper_execution: UPDATE the order, and keep its lock. *)
Flush(c) ==
    /\ call[c].stage = "loaded" /\ call[c].kind \in {"fill", "close"}
    /\ Unlocked(c)
    /\ call' = [call EXCEPT ![c].stage = "flushed"]
    /\ UNCHANGED <<request, overdue, order, position>>

(* SELECT the open position of the signal: the first one, if there is one. *)
Look(c) ==
    /\ call[c].stage = "flushed"
    /\ LET open == OpenOf(order[call[c].order].signal)
       IN  \E p \in IF open = {} THEN {NoPosition} ELSE open :
              call' = [call EXCEPT ![c].stage = "ready", ![c].found = p,
                          ![c].marked = p \in Calls /\ position[p].marked]
    /\ UNCHANGED <<request, overdue, order, position>>

CommitFill(c) ==
    /\ call[c].stage = "ready" /\ call[c].kind = "fill"
    /\ order' = [order EXCEPT ![call[c].order].status = "filled"]
    /\ position' = IF call[c].found # NoPosition THEN position
                   ELSE [position EXCEPT ![c] = NewPosition(call[c].order)]
    /\ Return(c)
    /\ UNCHANGED <<request, overdue>>

(* close_position checks the status the session has loaded, and its flush  *)
(* writes only what differs from it: a zero unrealized_pnl that was zero   *)
(* when it was loaded is not written.                                      *)
CommitClose(c) ==
    /\ call[c].stage = "ready" /\ call[c].kind = "close"
    /\ order' = [order EXCEPT ![call[c].order].status = "closed"]
    /\ position' = IF call[c].found = NoPosition THEN position
                   ELSE [position EXCEPT ![call[c].found].status = "closed",
                            ![call[c].found].closer = call[c].order,
                            ![call[c].found].marked = @ /\ ~call[c].marked]
    /\ Return(c)
    /\ UNCHANGED <<request, overdue>>

(* /execution/positions/{id}/snapshot: mark_to_market writes unrealized_pnl *)
(* of a position it loaded open, at a price that changes it.               *)
LoadPosition(c) ==
    /\ \E p \in Calls :
          /\ Markable(p)
          /\ Load(c, [Idle EXCEPT !.stage = "loaded", !.kind = "mark", !.found = p])
    /\ UNCHANGED <<request, overdue, order, position>>

Mark(c) ==
    /\ call[c].stage = "loaded" /\ call[c].kind = "mark"
    /\ position' = [position EXCEPT ![call[c].found].marked = TRUE]
    /\ Return(c)
    /\ UNCHANGED <<request, overdue, order>>

(* An exception, or the death of the process, before the commit. *)
Abort(c) ==
    /\ InProgress(c)
    /\ Return(c)
    /\ UNCHANGED <<request, overdue, order, position>>

Next ==
    \/ \E s \in Signals : Ask(s) \/ Elapse(s)
    \/ \E s \in Signals, o \in Orders : Direct(s, o)
    \/ \E c \in Calls :
          \/ LoadRequest(c) \/ Respond(c) \/ Execute(c)
          \/ LoadOrder(c) \/ Flush(c) \/ Look(c) \/ CommitFill(c) \/ CommitClose(c)
          \/ LoadPosition(c) \/ Mark(c) \/ Abort(c)

Spec == Init /\ [][Next]_vars

-----------------------------------------------------------------------------

(* Every variable keeps its shape. *)
TypeOK ==
    /\ request \in [Signals -> Answers \union {"unused", "direct", "pending"}]
    /\ overdue \subseteq Signals
    /\ order \in [Orders -> OrderRows]
    /\ position \in [Calls -> PositionRows]
    /\ call \in [Calls -> HttpCalls]

(* A signal has one open position however many orders of it are filled     *)
(* (fill_paper_order looks for an open one first), and a filled order is   *)
(* behind it, although any order of the signal may close it.               *)
OnePositionPerSignal ==
    \A p \in Calls : position[p].status = "open" =>
        /\ order[position[p].opener].status = "filled"
        /\ order[position[p].opener].signal = position[p].signal
        /\ \A q \in Calls :
              position[q].status = "open" /\ position[q].signal = position[p].signal => p = q

(* However the handlers interleave, an order has one open position: two    *)
(* fills of it that both loaded it unfilled queue at the flush, and the    *)
(* second sees the position of the first.                                  *)
OneOpenPerOrder ==
    \A p, q \in Calls :
        position[p].status = "open" /\ position[q].status = "open"
            /\ position[p].opener = position[q].opener => p = q

(* A closed position keeps its realized P&L and carries no open P&L:       *)
(* mark_to_market and close_position refuse one that is not open.          *)
ClosedIsFinal ==
    [][\A p \in Calls : position[p].status = "closed" => position'[p] = position[p]]_vars

(* What is executed is approved when the order is written. *)
ExecutesApproved ==
    [][\A o \in Orders :
          order[o].status = "none" /\ order'[o].status # "none"
              => request'[order'[o].signal] \in {"approved", "direct"}]_vars

(* Requests one at a time keep the promises of PaperLifecycle. *)
Lifecycle == INSTANCE PaperLifecycle WITH
    held <- {position[p].signal : p \in {q \in Calls : position[q].status = "open"}}

ImplementsLifecycle == Lifecycle!Spec

=============================================================================
