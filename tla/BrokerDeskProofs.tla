--------------------------- MODULE BrokerDeskProofs ---------------------------
(***************************************************************************)
(* Halts stop manual orders, and what the broker was given is audited, for *)
(* any number of orders and halts and any exposure limits.                 *)
(***************************************************************************)
EXTENDS BrokerDesk, TLAPS

(* An order at the broker is still in the hands of its handler, which has  *)
(* the answer before it, or its handler is over and wrote the line.        *)
Handled ==
    \A o \in Tickets :
        /\ o \in placed => ticket[o].stage \in {"taken", "done"}
        /\ ticket[o].stage = "done" => o \in audited

(* While a halt is in force, what was requested under it has not passed    *)
(* the preflight.                                                          *)
HeldBack ==
    \A o \in shadowed :
        /\ HaltInForce
        /\ ticket[o].stage \in {"account", "positions", "preflight", "done"}
        /\ o \notin placed

DeskInv == DeskTypeOK /\ Handled /\ HeldBack

LEMMA DeskStart == DeskInit => DeskInv
BY DEF DeskInit, DeskInv, DeskTypeOK, Handled, HeldBack, Handlers

LEMMA StageStep ==
  ASSUME DeskTypeOK, NEW o \in Tickets, NEW stage, GoTo(o, stage),
         stage \in {"positions", "ready", "sent", "taken", "done"}
  PROVE  /\ ticket' \in [Tickets -> Handlers]
         /\ ticket'[o].stage = stage
         /\ \A p \in Tickets \ {o} : ticket'[p] = ticket[p]
<1>1. [ticket[o] EXCEPT !.stage = stage] \in Handlers
  BY DEF DeskTypeOK, Handlers
<1> QED
  BY <1>1 DEF DeskTypeOK, GoTo, Handlers

LEMMA FinishStep ==
  ASSUME DeskTypeOK, NEW o \in Tickets, Finish(o)
  PROVE  /\ ticket' \in [Tickets -> Handlers]
         /\ ticket'[o].stage = "done"
         /\ \A p \in Tickets \ {o} : ticket'[p] = ticket[p]
         /\ audited' = audited \union {o}
BY StageStep DEF Finish

LEMMA PersistStep ==
  ASSUME DeskTypeOK, NEW rows, Persist(rows),
         rows \subseteq Tickets \X {"submit_preflight", "submit_attempt"}
                                \X {"not_applied", "blocked", "allowed"}
  PROVE  decisions' \subseteq Tickets \X {"submit_preflight", "submit_attempt"}
                                      \X {"not_applied", "blocked", "allowed"}
BY DEF DeskTypeOK, Persist

LEMMA RequestKeeps ==
  ASSUME DeskInv, NEW o \in Tickets, RequestOrder(o)
  PROVE  DeskInv'
<1>1. ticket' \in [Tickets -> Handlers] /\ \A p \in Tickets \ {o} : ticket'[p] = ticket[p]
  <2>1. CASE Finish(o)
    BY <2>1, FinishStep DEF DeskInv
  <2>2. CASE ~ Finish(o)
    <3>1. PICK b \in BOOLEAN :
              ticket' = [ticket EXCEPT ![o].stage = "account", ![o].priced = b]
      BY <2>2 DEF RequestOrder
    <3>2. ticket[o] \in Handlers
      BY DEF DeskInv, DeskTypeOK
    <3>3. [ticket[o] EXCEPT !.stage = "account", !.priced = b] \in Handlers
      BY <3>2 DEF Handlers
    <3> QED
      BY <3>1, <3>3 DEF DeskInv, DeskTypeOK
  <2> QED
    BY <2>1, <2>2
<1>2. \/ ticket'[o].stage = "done" /\ audited' = audited \union {o}
      \/ ticket'[o].stage = "account" /\ audited' = audited
  BY FinishStep DEF RequestOrder, DeskInv, DeskTypeOK, Handlers
<1>3. DeskTypeOK'
  BY <1>1, <1>2 DEF RequestOrder, DeskInv, DeskTypeOK
<1>4. o \notin placed
  BY DEF RequestOrder, DeskInv, Handled
<1>5. Handled'
  BY <1>1, <1>2, <1>4 DEF RequestOrder, DeskInv, Handled
<1>6. HeldBack'
  BY <1>1, <1>2, <1>4
     DEF RequestOrder, DeskInv, HeldBack, HaltInForce, ActiveHalts, DeskTypeOK
<1> QED
  BY <1>3, <1>5, <1>6 DEF DeskInv

(* A step of a handler that neither ends nor places the order, and takes   *)
(* it past the preflight only if no halt was in force.                     *)
LEMMA AdvanceKeeps ==
  ASSUME DeskInv, NEW o \in Tickets, UNCHANGED <<placed, filled, audited, deskRows>>,
         ticket' \in [Tickets -> Handlers],
         \A p \in Tickets \ {o} : ticket'[p] = ticket[p],
         decisions' \subseteq Tickets \X {"submit_preflight", "submit_attempt"}
                                      \X {"not_applied", "blocked", "allowed"},
         ticket[o].stage \notin {"taken", "done"},
         ticket'[o].stage # "done",
         \/ ticket'[o].stage \in {"positions", "preflight"}
         \/ ticket[o].stage \in {"ready", "sent"}
         \/ ~ HaltInForce
  PROVE  DeskInv'
<1>1. DeskTypeOK'
  BY DEF DeskInv, DeskTypeOK, deskRows
<1>2. Handled'
  BY DEF DeskInv, Handled
<1>3. HeldBack'
  BY DEF DeskInv, HeldBack, HaltInForce, ActiveHalts, deskRows, DeskTypeOK
<1> QED
  BY <1>1, <1>2, <1>3 DEF DeskInv

(* A handler that ends has its line written.                               *)
LEMMA EndKeeps ==
  ASSUME DeskInv, NEW o \in Tickets, Finish(o), UNCHANGED <<placed, filled, deskRows>>,
         decisions' \subseteq Tickets \X {"submit_preflight", "submit_attempt"}
                                      \X {"not_applied", "blocked", "allowed"}
  PROVE  DeskInv'
<1>1. DeskTypeOK'
  BY FinishStep DEF DeskInv, DeskTypeOK, deskRows
<1>2. Handled'
  BY FinishStep DEF DeskInv, Handled
<1>3. HeldBack'
  BY FinishStep DEF DeskInv, HeldBack, HaltInForce, ActiveHalts, deskRows, DeskTypeOK
<1> QED
  BY <1>1, <1>2, <1>3 DEF DeskInv

LEMMA HandlerKeeps ==
  ASSUME DeskInv, NEW o \in Tickets,
         \/ ReadPortfolio(o) \/ PortfolioUnavailable(o) \/ DeskPreflight(o)
         \/ HandOver(o) \/ AdapterResult(o) \/ AdapterRaises(o)
  PROVE  DeskInv'
<1>1. CASE ReadPortfolio(o)
  <2>1. /\ ticket' \in [Tickets -> Handlers]
        /\ \A p \in Tickets \ {o} : ticket'[p] = ticket[p]
        /\ ticket'[o].stage \in {"positions", "preflight"}
    <3>1. CASE GoTo(o, "positions")
      BY <3>1, StageStep DEF DeskInv
    <3>2. CASE ticket' = [ticket EXCEPT ![o].stage = "preflight", ![o].seen = filled]
      <4>1. ticket[o] \in Handlers /\ filled \subseteq Tickets
        BY DEF DeskInv, DeskTypeOK
      <4>2. [ticket[o] EXCEPT !.stage = "preflight", !.seen = filled] \in Handlers
        BY <4>1 DEF Handlers
      <4>3. ticket'[o].stage = "preflight"
        BY <3>2, <4>1 DEF DeskInv, DeskTypeOK, Handlers
      <4> QED
        BY <3>2, <4>2, <4>3 DEF DeskInv, DeskTypeOK
    <3> QED
      BY <1>1, <3>1, <3>2 DEF ReadPortfolio
  <2> QED
    BY <1>1, <2>1, AdvanceKeeps DEF ReadPortfolio, DeskInv, DeskTypeOK
<1>2. CASE PortfolioUnavailable(o)
  BY <1>2, PersistStep, EndKeeps DEF PortfolioUnavailable, DeskInv
<1>3. CASE DeskPreflight(o)
  <2>1. CASE PreflightBlocks(o)
    BY <1>3, <2>1, PersistStep, EndKeeps DEF DeskPreflight, DeskInv
  <2>2. CASE ~ PreflightBlocks(o)
    BY <1>3, <2>2, PersistStep, StageStep, AdvanceKeeps
       DEF DeskPreflight, PreflightBlocks, DeskInv
  <2> QED
    BY <2>1, <2>2
<1>4. CASE HandOver(o)
  <2>1. CASE Finish(o)
    BY <1>4, <2>1, EndKeeps DEF HandOver, DeskInv, DeskTypeOK
  <2>2. CASE ~ Finish(o)
    BY <1>4, <2>2, StageStep, AdvanceKeeps DEF HandOver, DeskInv, DeskTypeOK
  <2> QED
    BY <2>1, <2>2
<1>5. CASE AdapterResult(o)
  BY <1>5, PersistStep, EndKeeps DEF AdapterResult, DeskInv
<1>6. CASE AdapterRaises(o)
  BY <1>6, EndKeeps DEF AdapterRaises, DeskInv, DeskTypeOK
<1> QED
  BY <1>1, <1>2, <1>3, <1>4, <1>5, <1>6

LEMMA PlacementKeeps ==
  ASSUME DeskInv, NEW o \in Tickets, BrokerTakes(o)
  PROVE  DeskInv'
<1>1. DeskTypeOK'
  BY StageStep DEF BrokerTakes, DeskInv, DeskTypeOK, deskRows
<1>2. Handled'
  BY StageStep DEF BrokerTakes, DeskInv, Handled
<1>3. o \notin shadowed
  BY DEF BrokerTakes, DeskInv, HeldBack
<1>4. HeldBack'
  BY <1>3, StageStep
     DEF BrokerTakes, DeskInv, HeldBack, HaltInForce, ActiveHalts, deskRows, DeskTypeOK
<1> QED
  BY <1>1, <1>2, <1>4 DEF DeskInv

LEMMA RowsKeep ==
  ASSUME DeskInv,
         (\E o \in Tickets : OrderFills(o)) \/ RaiseHalt \/ LiftHalt \/ ConfigureLimit
  PROVE  DeskInv'
<1>1. CASE \E o \in Tickets : OrderFills(o)
  BY <1>1 DEF OrderFills, DeskInv, DeskTypeOK, Handled, HeldBack, HaltInForce, ActiveHalts,
              deskRows
<1>2. CASE RaiseHalt
  <2>1. PICK h \in 1..HaltRows : halt[h] = "absent" /\ halt' = [halt EXCEPT ![h] = "active"]
    BY <1>2 DEF RaiseHalt
  <2>2. DeskTypeOK'
    BY <1>2, <2>1 DEF RaiseHalt, DeskInv, DeskTypeOK
  <2>3. ActiveHalts \subseteq ActiveHalts'
    BY <2>1 DEF ActiveHalts, DeskInv, DeskTypeOK
  <2> QED
    BY <1>2, <2>2, <2>3 DEF RaiseHalt, DeskInv, Handled, HeldBack, HaltInForce
<1>3. CASE LiftHalt
  <2>1. PICK h \in 1..HaltRows :
            /\ halt' = [halt EXCEPT ![h] = "resolved"]
            /\ shadowed' = IF ActiveHalts \subseteq {h} THEN {} ELSE shadowed
    BY <1>3 DEF LiftHalt
  <2>2. DeskTypeOK'
    BY <1>3, <2>1 DEF LiftHalt, DeskInv, DeskTypeOK
  <2>3. ActiveHalts' = ActiveHalts \ {h}
    BY <2>1 DEF ActiveHalts, DeskInv, DeskTypeOK
  <2> QED
    BY <1>3, <2>1, <2>2, <2>3 DEF LiftHalt, DeskInv, Handled, HeldBack, HaltInForce
<1>4. CASE ConfigureLimit
  BY <1>4 DEF ConfigureLimit, DeskInv, DeskTypeOK, Handled, HeldBack, HaltInForce, ActiveHalts
<1> QED
  BY <1>1, <1>2, <1>3, <1>4

LEMMA DeskInductive == DeskInv /\ [DeskNext]_deskVars => DeskInv'
<1> SUFFICES ASSUME DeskInv, [DeskNext]_deskVars PROVE DeskInv'
  OBVIOUS
<1>1. CASE DeskNext
  BY <1>1, RequestKeeps, HandlerKeeps, PlacementKeeps, RowsKeep DEF DeskNext
<1>2. CASE UNCHANGED deskVars
  BY <1>2 DEF deskVars, DeskInv, DeskTypeOK, Handled, HeldBack, HaltInForce, ActiveHalts
<1> QED
  BY <1>1, <1>2

(* Every variable of the order desk keeps its shape. *)
THEOREM DeskTypeCorrect == DeskSpec => []DeskTypeOK
<1>1. DeskInv => DeskTypeOK
  BY DEF DeskInv
<1> QED
  BY <1>1, DeskStart, DeskInductive, PTL DEF DeskSpec

(* What is requested under a halt does not reach the broker until every    *)
(* halt has been lifted (submit_order and TradingHaltService).             *)
THEOREM HaltStopsTheDesk == DeskSpec => []DeskHaltStops
<1>1. DeskInv => DeskHaltStops
  BY DEF DeskInv, HeldBack, DeskHaltStops
<1> QED
  BY <1>1, DeskStart, DeskInductive, PTL DEF DeskSpec

(* What the broker was given is in the audit file, or about to be.         *)
THEOREM PlacedOrdersAreAudited == DeskSpec => []PlacedAreAudited
<1>1. DeskInv => PlacedAreAudited
  BY DEF DeskInv, Handled, PlacedAreAudited, DeskTypeOK
<1> QED
  BY <1>1, DeskStart, DeskInductive, PTL DEF DeskSpec

(* The desk holds back what was requested under a halt, and leaves an      *)
(* audit line for all that it placed.                                      *)
THEOREM DeskAnswers == DeskSpec => []DeskAnswersForOrders
<1>1. DeskHaltStops /\ PlacedAreAudited => DeskAnswersForOrders
  BY DEF DeskAnswersForOrders
<1> QED
  BY <1>1, HaltStopsTheDesk, PlacedOrdersAreAudited, PTL

=============================================================================
