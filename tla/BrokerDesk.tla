----------------------------- MODULE BrokerDesk -----------------------------
(***************************************************************************)
(* Manual orders: POST /broker/orders runs BrokerService.submit_order as a *)
(* coroutine.  It awaits the account and the positions, decides in one     *)
(* synchronous stretch from the halts, the risk limits and what it read,   *)
(* hands the order to the adapter, and writes a decision row and a line of *)
(* the audit file when the adapter answers.  Halts and limits are changed  *)
(* meanwhile by handlers that run in threads of their own.                 *)
(*                                                                         *)
(* Every order is for one unit of notional.  An order without a limit      *)
(* price has no notional to evaluate.                                      *)
(***************************************************************************)
EXTENDS Integers, FiniteSets

CONSTANTS
    Tickets,        \* bound: the orders requested in a behaviour
    HaltRows,       \* bound: the TradingHalt rows, numbered as they are created
    NoLimit,
    Exposures       \* values that max_total_exposure is given

ASSUME DeskAssumption ==
    /\ IsFiniteSet(Tickets)
    /\ HaltRows \in Nat
    /\ Exposures \subseteq Nat
    /\ NoLimit \notin Nat

VARIABLES
    ticket,     \* where the handler of each order is
    placed,     \* the orders the broker was given
    filled,     \* those of them that are positions
    halt,       \* the status of each halt row
    exposureLimit,  \* max_total_exposure of the active configuration
    decisions,  \* BrokerSubmitDecision rows: <<order, source, submit_gate>>
    audited,    \* the orders with a line in the audit file
    shadowed    \* history: requested under a halt that has not been lifted since

deskVars == <<ticket, placed, filled, halt, exposureLimit, decisions, audited, shadowed>>
deskRows == <<halt, exposureLimit, shadowed>>

(* seen is what the handler read of the positions.                         *)
Handlers ==
    [stage : {"idle", "account", "positions", "preflight", "ready", "sent", "taken", "done"},
     priced : BOOLEAN, seen : SUBSET Tickets]

DeskInit ==
    /\ ticket = [o \in Tickets |-> [stage |-> "idle", priced |-> FALSE, seen |-> {}]]
    /\ placed = {}
    /\ filled = {}
    /\ halt = [h \in 1..HaltRows |-> "absent"]
    /\ exposureLimit = NoLimit
    /\ decisions = {}
    /\ audited = {}
    /\ shadowed = {}

-----------------------------------------------------------------------------

ActiveHalts == {h \in 1..HaltRows : halt[h] = "active"}

(* Asks the newest row alone instead of any active row. *)
HaltInForceByNewest ==
    \E h \in 1..HaltRows :
        /\ halt[h] = "active"
        /\ \A g \in 1..HaltRows : g > h => halt[g] = "absent"

HaltInForce == ActiveHalts # {}

(* evaluate_order_against_limits: nothing is compared without a notional,  *)
(* and the orders that have not filled count for nothing.                  *)
OverExposed(o) ==
    /\ ticket[o].priced
    /\ exposureLimit # NoLimit
    /\ Cardinality(ticket[o].seen) + 1 > exposureLimit

PreflightBlocks(o) == HaltInForce \/ OverExposed(o)

GoTo(o, stage) == ticket' = [ticket EXCEPT ![o].stage = stage]

(* Forgets the line when the order may have been placed. *)
FinishUnaudited(o) ==
    /\ GoTo(o, "done")
    /\ audited' = IF ticket[o].stage = "taken" THEN audited ELSE audited \union {o}

(* The handler ends and its route writes the audit line. *)
Finish(o) == GoTo(o, "done") /\ audited' = audited \union {o}

(* Rows of the decision log, each in a transaction of its own: when the    *)
(* database refuses one, the service logs the failure and goes on.         *)
Persist(rows) == \E kept \in SUBSET rows : decisions' = decisions \union kept

-----------------------------------------------------------------------------

(* An invalid request ends here, before any decision. *)
RequestOrder(o) ==
    /\ ticket[o].stage = "idle"
    /\ \/ Finish(o)
       \/ /\ \E p \in BOOLEAN :
                ticket' = [ticket EXCEPT ![o].stage = "account", ![o].priced = p]
          /\ UNCHANGED audited
    /\ shadowed' = IF HaltInForce THEN shadowed \union {o} ELSE shadowed
    /\ UNCHANGED <<placed, filled, halt, exposureLimit, decisions>>

(* The portfolio context: the account, then the positions.  An exception   *)
(* of either blocks the order.                                             *)
ReadPortfolio(o) ==
    /\ \/ /\ ticket[o].stage = "account"
          /\ GoTo(o, "positions")
       \/ /\ ticket[o].stage = "positions"
          /\ ticket' = [ticket EXCEPT ![o].stage = "preflight", ![o].seen = filled]
    /\ UNCHANGED <<placed, filled, decisions, audited, deskRows>>

PortfolioUnavailable(o) ==
    /\ ticket[o].stage \in {"account", "positions"}
    /\ Persist({<<o, "submit_preflight", "blocked">>, <<o, "submit_attempt", "blocked">>})
    /\ Finish(o)
    /\ UNCHANGED <<placed, filled, deskRows>>

DeskPreflight(o) ==
    /\ ticket[o].stage = "preflight"
    /\ IF PreflightBlocks(o)
       THEN /\ Persist({<<o, "submit_preflight", "not_applied">>,
                        <<o, "submit_attempt", "blocked">>})
            /\ Finish(o)
       ELSE /\ Persist({<<o, "submit_preflight", "not_applied">>})
            /\ GoTo(o, "ready")
            /\ UNCHANGED audited
    /\ UNCHANGED <<placed, filled, deskRows>>

(* The adapter has a thread (TWS) or a request (Client Portal) under way,  *)
(* unless it cannot connect.                                               *)
HandOver(o) ==
    /\ ticket[o].stage = "ready"
    /\ \/ GoTo(o, "sent") /\ UNCHANGED audited
       \/ Finish(o)
    /\ UNCHANGED <<placed, filled, decisions, deskRows>>

BrokerTakes(o) ==
    /\ ticket[o].stage = "sent"
    /\ placed' = placed \union {o}
    /\ GoTo(o, "taken")
    /\ UNCHANGED <<filled, decisions, audited, deskRows>>

(* The answer, REJECTED included, is recorded as an allowed attempt.       *)
AdapterResult(o) ==
    /\ ticket[o].stage \in {"sent", "taken"}
    /\ Persist({<<o, "submit_attempt", "allowed">>})
    /\ Finish(o)
    /\ UNCHANGED <<placed, filled, deskRows>>

(* An exception of the adapter, before or after the order was placed: no   *)
(* decision row says that an attempt was made.                             *)
AdapterRaises(o) ==
    /\ ticket[o].stage \in {"sent", "taken"}
    /\ Finish(o)
    /\ UNCHANGED <<placed, filled, decisions, deskRows>>

OrderFills(o) ==
    /\ o \in placed \ filled
    /\ filled' = filled \union {o}
    /\ UNCHANGED <<ticket, placed, decisions, audited, deskRows>>

-----------------------------------------------------------------------------

(* Any number of halts may be active at once. *)
RaiseHalt ==
    /\ \E h \in 1..HaltRows :
          /\ halt[h] = "absent"
          /\ \A g \in 1..(h - 1) : halt[g] # "absent"
          /\ halt' = [halt EXCEPT ![h] = "active"]
    /\ UNCHANGED <<ticket, placed, filled, exposureLimit, decisions, audited, shadowed>>

LiftHalt ==
    /\ \E h \in 1..HaltRows :
          /\ halt[h] # "absent"
          /\ halt' = [halt EXCEPT ![h] = "resolved"]
          /\ shadowed' = IF ActiveHalts \subseteq {h} THEN {} ELSE shadowed
    /\ UNCHANGED <<ticket, placed, filled, exposureLimit, decisions, audited>>

ConfigureLimit ==
    /\ \E x \in Exposures \union {NoLimit} :
          x # exposureLimit /\ exposureLimit' = x
    /\ UNCHANGED <<ticket, placed, filled, halt, decisions, audited, shadowed>>

DeskNext ==
    \/ \E o \in Tickets :
          \/ RequestOrder(o) \/ ReadPortfolio(o) \/ PortfolioUnavailable(o)
          \/ DeskPreflight(o) \/ HandOver(o) \/ BrokerTakes(o)
          \/ AdapterResult(o) \/ AdapterRaises(o) \/ OrderFills(o)
    \/ RaiseHalt \/ LiftHalt \/ ConfigureLimit

DeskSpec == DeskInit /\ [][DeskNext]_deskVars

-----------------------------------------------------------------------------

DeskTypeOK ==
    /\ ticket \in [Tickets -> Handlers]
    /\ placed \subseteq Tickets
    /\ filled \subseteq placed
    /\ halt \in [1..HaltRows -> {"absent", "active", "resolved"}]
    /\ exposureLimit \in Exposures \union {NoLimit}
    /\ decisions \subseteq Tickets \X {"submit_preflight", "submit_attempt"}
                                   \X {"not_applied", "blocked", "allowed"}
    /\ audited \subseteq Tickets
    /\ shadowed \subseteq Tickets

(* An order requested while a halt is active does not reach the broker     *)
(* until every halt has been lifted, however many halts are raised and     *)
(* lifted while its handler waits (build-ledger MH-79).                    *)
DeskHaltStops == shadowed \intersect placed = {}

(* While the process lives, an order at the broker is either being handled *)
(* or has a line in the audit file, whatever the adapter answered and      *)
(* whichever decision rows the database refused.                           *)
PlacedAreAudited ==
    \A o \in placed : o \in audited \/ ticket[o].stage = "taken"

(* The desk obeys the halts and leaves a trace of all that it placed.      *)
DeskAnswersForOrders == DeskHaltStops /\ PlacedAreAudited

=============================================================================
