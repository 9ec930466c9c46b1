----------------------------- MODULE DayReports -----------------------------
(***************************************************************************)
(* The pages that sum a day of paper trading up: the end-of-day report,    *)
(* the daily scoreboard and the explanations of closed trades, over the    *)
(* position rows that the fill and close requests, marks to market and the *)
(* two auto-paper workers write.  Amounts are in units of 1 / Notional of  *)
(* money: a gain of g is Notional * g as money and g as a fraction of the  *)
(* Notional that the position cost.                                        *)
(***************************************************************************)
EXTENDS Integers, FiniteSets, Sequences, FiniteSetsExt

CONSTANTS
    Trades,
    SignalOf,       \* the signal of each trade
    MaxRows,        \* closed trades on the page that explains them; 150
    Moves,          \* what a trade may gain or lose, in money
    Marks,          \* what a mark to market may find
    Notional,
    DayLength,      \* clock ticks in a day
    MaxClock,       \* bound
    Unknown         \* NULL

ASSUME DayAssumption ==
    /\ IsFiniteSet(Trades) /\ DOMAIN SignalOf = Trades
    /\ MaxRows \in Nat
    /\ Moves \subseteq Int /\ Marks \subseteq Int /\ Unknown \notin Int
    /\ Notional \in Nat \ {0} /\ DayLength \in Nat \ {0} /\ MaxClock \in Nat

VARIABLES
    clock,
    trade,      \* the order row and the position row of each trade
    outcome,    \* signal_outcomes: the row of each trade, or Unknown
    filed       \* the report that each day ended with

dayVars == <<clock, trade, outcome, filed>>

NoTrade == [stage |-> "none", worker |-> FALSE, ordered |-> Unknown, closed |-> Unknown,
            gain |-> 0, realized |-> Unknown, unrealized |-> Unknown, reason |-> "none"]

DayInit ==
    /\ clock = 0
    /\ trade = [t \in Trades |-> NoTrade]
    /\ outcome = [t \in Trades |-> Unknown]
    /\ filed = <<>>

-----------------------------------------------------------------------------

Positions == {t \in Trades : trade[t].stage \in {"open", "closed"}}
Money(g) == Notional * g

(* _day_bounds: from midnight on, up to the next one.                      *)
TodayAfterMidnight ==
    LET start == DayLength * (clock \div DayLength)
    IN  start + 1 .. start + DayLength - 1

Today == LET start == DayLength * (clock \div DayLength)
         IN  start .. start + DayLength - 1

OpenedToday == {t \in Trades : trade[t].ordered \in Today}
ClosedToday == {t \in Positions : trade[t].closed \in Today}
OpenNow == {t \in Positions : trade[t].closed = Unknown}
ActiveOrOrdered == {t \in Trades : trade[t].closed = Unknown /\ trade[t].stage # "none"}
Active == {t \in Positions : trade[t].closed = Unknown /\ trade[t].stage = "open"}

(* Unknown as soon as one of the amounts is.                               *)
SumOf(rows, Amount(_)) ==
    IF \E t \in rows : Amount(t) = Unknown THEN Unknown
    ELSE MapThenSumSet(Amount, rows)

Realized(t) == trade[t].realized
Unrealized(t) == trade[t].unrealized

Known(rows) == {t \in rows : Realized(t) # Unknown}
Winning(rows) == {t \in Known(rows) : Realized(t) > 0}
Losing(rows) == {t \in Known(rows) : Realized(t) < 0}
Flat(rows) == {t \in Known(rows) : Realized(t) = 0}

(* The counts are given only when every closed position has its P&L.       *)
CountIfKnown(rows, Kind(_)) ==
    IF Known(rows) = rows THEN Cardinality(Kind(rows)) ELSE Unknown

(* get_cockpit_eod_report *)
EodReport ==
    [opened |-> Cardinality(OpenedToday),
     open |-> Cardinality(OpenNow),
     closed |-> Cardinality(ClosedToday),
     realized |-> SumOf(ClosedToday, Realized),
     unrealized |-> SumOf(OpenNow, Unrealized),
     wins |-> CountIfKnown(ClosedToday, Winning),
     losses |-> CountIfKnown(ClosedToday, Losing),
     flat |-> CountIfKnown(ClosedToday, Flat),
     unknown |-> Cardinality(ClosedToday \ Known(ClosedToday))]

(* get_cockpit_daily_scoreboard *)
Scoreboard ==
    LET realized == SumOf(ClosedToday, Realized)
        unrealized == SumOf(Active, Unrealized)
        known == Cardinality(Known(ClosedToday))
        complete == known = Cardinality(ClosedToday)
    IN  [opened |-> Cardinality(OpenedToday),
         open |-> Cardinality(Active),
         closed |-> Cardinality(ClosedToday),
         realized |-> realized,
         unrealized |-> unrealized,
         wins |-> IF complete THEN Cardinality(Winning(ClosedToday)) ELSE Unknown,
         losses |-> IF complete THEN Cardinality(Losing(ClosedToday)) ELSE Unknown,
         flat |-> IF complete THEN Cardinality(Flat(ClosedToday)) ELSE Unknown,
         unknown |-> Cardinality(ClosedToday) - known]

(* What is known of a signal is looked up by the signal: its outcome row   *)
(* with the latest close.  Which one of a tick comes first, created_at and *)
(* the id decide.                                                          *)
OfSignal(t) == {u \in Trades : SignalOf[u] = SignalOf[t]}

OutcomesOfAny(t) ==
    LET rows == {u \in Trades : outcome[u] # Unknown}
    IN  {u \in rows : \A v \in rows : outcome[v].closed <= outcome[u].closed}

OutcomesOf(t) ==
    LET rows == {u \in OfSignal(t) : outcome[u] # Unknown}
    IN  {u \in rows : \A v \in rows : outcome[v].closed <= outcome[u].closed}

(* The outcome row decides, the sign of the P&L where there is none.       *)
OutcomeMatch(t) ==
    IF OutcomesOf(t) # {}
    THEN IF outcome[CHOOSE u \in OutcomesOf(t) : TRUE].correct THEN "matched" ELSE "mismatched"
    ELSE IF Realized(t) = Unknown \/ Realized(t) = 0 THEN "unknown"
         ELSE IF Realized(t) > 0 THEN "matched" ELSE "mismatched"

(* _load_closed_positions *)
ClosedRows == {t \in Positions : trade[t].closed # Unknown \/ trade[t].stage = "closed"}

(* The first MaxRows by closed_at DESC, in which NULLs come first; those   *)
(* of one tick are in any order (created_at and the id decide).            *)
NotOlder(t, u) ==
    \/ trade[t].closed = Unknown
    \/ trade[u].closed # Unknown /\ trade[u].closed <= trade[t].closed

FirstRows(rows) ==
    {cut \in SUBSET rows :
        /\ Cardinality(cut) = Min({MaxRows, Cardinality(rows)})
        /\ \A t \in cut, u \in rows \ cut : NotOlder(t, u)}

ExplainedCutFirst == {cut \intersect ClosedRows : cut \in FirstRows(Positions)}

(* positions[:_MAX_ROWS]: what the page may explain. *)
Explained == FirstRows(ClosedRows)

(* The reasons that the code writes say how the position was closed; the   *)
(* close price and the risk decision of the signal are only asked where    *)
(* the reason does not.                                                    *)
CloseLabel(t) ==
    CASE trade[t].reason = "horizon_expired" -> "timeout_or_stale"
      [] trade[t].reason = "paper_order_closed" -> "manual_close"
      [] OTHER -> "unknown"

(* get_cockpit_trade_close_explanations, of the rows left by the cut. *)
Explanations(rows) ==
    [trades |-> [t \in rows |-> [label |-> CloseLabel(t), match |-> OutcomeMatch(t),
                                 realized |-> Realized(t)]],
     total |-> Cardinality(rows), profitable |-> Cardinality(Winning(rows)),
     losing |-> Cardinality(Losing(rows)), flat |-> Cardinality(Flat(rows))]

-----------------------------------------------------------------------------

(* An order row; nothing is bought yet, and it may never be. *)
SubmitOrder(t) ==
    /\ trade[t].stage = "none"
    /\ trade' = [trade EXCEPT ![t].stage = "ordered", ![t].ordered = clock]
    /\ UNCHANGED <<clock, outcome, filed>>

(* The fill of the order; it opens a position where its signal has none    *)
(* that is open.                                                           *)
FillOrder(t) ==
    /\ trade[t].stage = "ordered"
    /\ trade' = IF \E u \in OfSignal(t) : trade[u].stage = "open"
                THEN [trade EXCEPT ![t].stage = "filled"]
                ELSE [trade EXCEPT ![t].stage = "open", ![t].unrealized = 0]
    /\ UNCHANGED <<clock, outcome, filed>>

(* The trader writes the order and the position, which it never marks. *)
OpenByTrader(t) ==
    /\ trade[t].stage = "none"
    /\ trade' = [trade EXCEPT ![t].stage = "open", ![t].worker = TRUE,
                              ![t].ordered = clock, ![t].reason = "auto_paper"]
    /\ UNCHANGED <<clock, outcome, filed>>

MarkToMarket(t, g) ==
    /\ trade[t].stage = "open"
    /\ trade' = [trade EXCEPT ![t].unrealized = Money(g)]
    /\ UNCHANGED <<clock, outcome, filed>>

(* close_position: realized_pnl is money.  The trader's orders are filled  *)
(* and closed through the same requests.                                   *)
ClosePosition(t, g) ==
    /\ trade[t].stage = "open"
    /\ trade' = [trade EXCEPT ![t].stage = "closed", ![t].closed = clock, ![t].gain = g,
                              ![t].reason = "paper_order_closed",
                              ![t].realized = Money(g), ![t].unrealized = 0]
    /\ UNCHANGED <<clock, outcome, filed>>

DirectionNotWrong(g) == g >= 0
DirectionCorrect(g) == g > 0

(* The close worker: realized_pnl is a fraction, and the outcome is kept.  *)
CloseExpired(t, g) ==
    /\ trade[t].stage = "open" /\ trade[t].worker
    /\ trade' = [trade EXCEPT ![t].stage = "closed", ![t].closed = clock, ![t].gain = g,
                              ![t].reason = "horizon_expired", ![t].realized = g]
    /\ outcome' = [outcome EXCEPT ![t] = [correct |-> DirectionCorrect(g), pnl |-> g,
                                          closed |-> clock]]
    /\ UNCHANGED <<clock, filed>>

(* The figures of a day's last report. *)
Figures(report) ==
    [closed |-> report.closed, realized |-> report.realized,
     wins |-> report.wins, losses |-> report.losses, flat |-> report.flat]

TimePasses ==
    /\ clock < MaxClock
    /\ clock' = clock + 1
    /\ filed' = IF clock' \in Today THEN filed ELSE Append(filed, Figures(EodReport))
    /\ UNCHANGED <<trade, outcome>>

DayNext ==
    \/ \E t \in Trades : SubmitOrder(t) \/ FillOrder(t) \/ OpenByTrader(t)
    \/ \E t \in Trades, g \in Marks : MarkToMarket(t, g)
    \/ \E t \in Trades, g \in Moves : ClosePosition(t, g) \/ CloseExpired(t, g)
    \/ TimePasses

DaySpec == DayInit /\ [][DayNext]_dayVars

-----------------------------------------------------------------------------

Amounts == Int \union {Unknown}

DayTypeOK ==
    /\ clock \in 0..MaxClock
    /\ \A t \in Trades :
          /\ trade[t].stage \in {"none", "ordered", "filled", "open", "closed"}
          /\ trade[t].realized \in Amounts /\ trade[t].unrealized \in Amounts
          /\ (trade[t].stage = "closed") = (trade[t].closed # Unknown)
          /\ outcome[t] # Unknown => trade[t].stage = "closed" /\ trade[t].worker
    /\ Len(filed) = clock \div DayLength

(* The end-of-day report and the scoreboard, computed by two services from *)
(* two readings of the rows, never show different figures of one moment.   *)
PagesAgree == EodReport = Scoreboard

(* The reports filed and today's, and what reports say in all. *)
Reports == Append(filed, Figures(EodReport))
InAll(reports, Figure(_)) == MapThenSumSet(LAMBDA d : Figure(reports[d]), 1..Len(reports))

(* Every closed trade is on the report of exactly one day, so that the     *)
(* reports add up to all there is: the trades and their P&L, and the       *)
(* winning, losing and flat ones (cockpit_eod_report_service).             *)
ClosesFiledOnce ==
    LET reports == Reports
    IN  /\ InAll(reports, LAMBDA r : r.closed) = Cardinality(ClosedRows)
        /\ InAll(reports, LAMBDA r : r.realized) = SumOf(ClosedRows, Realized)
        /\ InAll(reports, LAMBDA r : r.wins) = Cardinality(Winning(ClosedRows))
        /\ InAll(reports, LAMBDA r : r.losses) = Cardinality(Losing(ClosedRows))
        /\ InAll(reports, LAMBDA r : r.flat) = Cardinality(Flat(ClosedRows))

(* The page that explains the closes is cut after MaxRows, its counts with *)
(* it.  Until then they are those of all the reports together; after it    *)
(* they count no more than those, and the closes of today are all there as *)
(* long as today alone has no more than MaxRows.                           *)
ExplainedReachBack ==
    LET reports == Reports
        closed == InAll(reports, LAMBDA r : r.closed)
        wins == InAll(reports, LAMBDA r : r.wins)
        losses == InAll(reports, LAMBDA r : r.losses)
        flat == InAll(reports, LAMBDA r : r.flat)
    IN  \A rows \in Explained :
            LET page == Explanations(rows)
            IN  /\ closed <= MaxRows =>
                      /\ page.total = closed /\ page.profitable = wins
                      /\ page.losing = losses /\ page.flat = flat
                /\ page.profitable <= wins /\ page.losing <= losses /\ page.flat <= flat
                /\ Cardinality(ClosedToday) <= MaxRows => ClosedToday \subseteq DOMAIN page.trades

(* Another trade of its signal has an outcome, and as late a one.          *)
ToldAnothers(t) ==
    \E u \in Trades \ {t} :
        /\ SignalOf[u] = SignalOf[t] /\ outcome[u] # Unknown
        /\ outcome[t] # Unknown => outcome[t].closed <= outcome[u].closed

(* An explanation that says the setup was right is of a trade that gained, *)
(* and one that says it was wrong of a trade that did not, whichever       *)
(* worker or request closed it and wherever the verdict was read.  The     *)
(* exception: the outcome is looked up by the signal, and a trade may be   *)
(* told another one's.                                                     *)
VerdictsMatchGains ==
    \A rows \in Explained :
        LET page == Explanations(rows)
        IN  \A t \in rows :
                /\ page.trades[t].label # "unknown"
                /\ ~ ToldAnothers(t) =>
                      /\ (page.trades[t].match = "matched") = (trade[t].gain > 0)
                      /\ page.trades[t].match = "mismatched" => trade[t].gain <= 0

(* The pages of a day tell the truth about it and agree with one another.  *)
DayPagesTrue ==
    PagesAgree /\ ClosesFiledOnce /\ ExplainedReachBack /\ VerdictsMatchGains

=============================================================================
