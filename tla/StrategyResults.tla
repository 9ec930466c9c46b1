----------------------------- MODULE StrategyResults -----------------------------
(***************************************************************************)
(* What the simulator of the strategy lab keeps of its trades: their costs *)
(* (execution_cost_model), the equity curve, the drawdown periods and the  *)
(* figures of each strategy config (mock_trade_simulator_service), and the *)
(* page of the run they belong to (strategy_lab_service).  The configs of  *)
(* a run are simulated one after another.                                  *)
(*                                                                         *)
(* Amounts are in 80ths of a unit.  A trade turns over 1000 units, in and  *)
(* out, so that a basis point costs 8 of them.                             *)
(***************************************************************************)
EXTENDS Integers, Sequences, FiniteSets, FiniteSetsExt, SequencesExt

CONSTANTS
    Markets,     \* of a run: the class of its asset, its profile and preset
    Gains,       \* what a trade may make, gross
    Capital,
    CloseTimes,
    Configs,     \* how many strategy configs the run has
    Missing

ASSUME ResultsAssumption ==
    /\ Capital \in Nat \ {0} /\ Configs \in Nat \ {0} /\ CloseTimes \subseteq Nat
    /\ \A g \in Gains : g \in Int /\ g > -Capital
    /\ Missing \notin Int \union (Int \X Int)

VARIABLES
    market,
    ledger,      \* the config in progress: its MockTrade rows
    curve,       \* and its EquityCurvePoint rows, with the peak so far
    outputs      \* what is stored of the configs before it

resultVars == <<market, ledger, curve, outputs>>

-----------------------------------------------------------------------------
(* Costs *)

AssetClasses == {"equities_etfs", "forex", "crypto", "commodities", "unknown"}

(* _DEFAULT_ASSUMPTIONS, in basis points; no class has a fixed fee. *)
Assumptions ==
    [equities_etfs |-> [spread |-> 2, slippage |-> 2, commission |-> 0],
     forex         |-> [spread |-> 1, slippage |-> 1, commission |-> 0],
     crypto        |-> [spread |-> 8, slippage |-> 8, commission |-> 10],
     commodities   |-> [spread |-> 4, slippage |-> 4, commission |-> 0],
     unknown       |-> [spread |-> 5, slippage |-> 5, commission |-> 0]]

(* In quarters, and the scenarios in halves. *)
Profiles4 == [optimistic |-> 3, standard |-> 4, conservative |-> 6, stress |-> 12]
Scenarios2 == [low |-> 1, base |-> 2, high |-> 4]

StressPresets ==
    [normal_liquidity  |-> [spread |-> 1, slippage |-> 1, commission |-> 1],
     wide_spread       |-> [spread |-> 3, slippage |-> 1, commission |-> 1],
     high_slippage     |-> [spread |-> 1, slippage |-> 3, commission |-> 1],
     volatile_session  |-> [spread |-> 2, slippage |-> 2, commission |-> 1],
     news_event_stress |-> [spread |-> 4, slippage |-> 4, commission |-> 1]]

(* What of a symbol its class depends on, and classify_asset_class: the    *)
(* class of the asset if there is one, then the first rule that applies.   *)
Symbols ==
    [given : {Missing, "equity", "etf", "index_proxy", "fx", "crypto", "commodity_proxy"},
     table : {"crypto", "forex", "commodities", "etfs", "none"},
     dollar : BOOLEAN, letters : {4, 6, 9}]

ClassOf(s) ==
    CASE s.given \in {"equity", "etf", "index_proxy"} -> "equities_etfs"
      [] s.given = "fx" -> "forex"
      [] s.given = "crypto" -> "crypto"
      [] s.given = "commodity_proxy" -> "commodities"
      [] s.given = Missing ->
            IF s.table = "crypto" THEN "crypto"
            ELSE IF s.table = "forex" \/ (s.letters = 6 /\ s.dollar) THEN "forex"
            ELSE IF s.table = "commodities" THEN "commodities"
            ELSE IF s.table = "etfs" \/ s.letters <= 5 THEN "equities_etfs"
            ELSE "unknown"

CostOf(m, scenario) ==
    LET a == Assumptions[m.class]
        p == StressPresets[m.preset]
    IN  (a.spread * p.spread + a.slippage * p.slippage + a.commission * p.commission)
            * Profiles4[m.profile] * Scenarios2[scenario]

ASSUME MarketsAssumption ==
    /\ Markets \subseteq [class : AssetClasses, profile : DOMAIN Profiles4,
                          preset : DOMAIN StressPresets]
    /\ Missing \notin {"equity", "etf", "index_proxy", "fx", "crypto", "commodity_proxy"}

(* Mutant: a loss is compared by its size. *)
SensitivityLevelOfSize(gain, cost) ==
    LET size == IF gain < 0 THEN -gain ELSE gain
    IN  IF 100 * cost < 10 * size THEN "low"
        ELSE IF 100 * cost <= 30 * size THEN "medium"
        ELSE "high"

(* calculate_sensitivity_band *)
SensitivityLevel(gain, cost) ==
    IF gain <= 0 THEN "high"
    ELSE IF 100 * cost < 10 * gain THEN "low"
    ELSE IF 100 * cost <= 30 * gain THEN "medium"
    ELSE "high"

-----------------------------------------------------------------------------
(* Trades and figures *)

StartPoint == [at |-> 0, equity |-> Capital, peak |-> Capital]

ResultsInit ==
    /\ market \in Markets
    /\ ledger = <<>> /\ curve = <<StartPoint>> /\ outputs = <<>>

(* _close_trade, and the point that follows it. *)
CloseTrade(gain, at) ==
    /\ Len(outputs) < Configs /\ Last(curve).at < at
    /\ ledger' = Append(ledger,
          [gain |-> gain,
           result |-> IF gain > 0 THEN "win" ELSE IF gain < 0 THEN "loss" ELSE "breakeven",
           cost |-> [s \in DOMAIN Scenarios2 |-> CostOf(market, s)],
           level |-> SensitivityLevel(gain, CostOf(market, "base"))])
    /\ LET equity == Last(curve).equity + gain
       IN  curve' = Append(curve, [at |-> at, equity |-> equity,
                                   peak |-> Max({Last(curve).peak, equity})])
    /\ UNCHANGED <<market, outputs>>

(* _detect_drawdown_periods: one ends above its peak, not at it. *)
Period(s, end) ==
    [start |-> s.peakAt, end |-> end, peak |-> s.peak, trough |-> s.trough,
     recovered |-> end # Missing]

ReadPoint(s, p) ==
    IF p.equity > s.peak THEN
        [peak |-> p.equity, peakAt |-> p.at, trough |-> Missing,
         closed |-> IF s.trough = Missing THEN s.closed ELSE Append(s.closed, Period(s, p.at))]
    ELSE IF p.equity < s.peak /\ (s.trough = Missing \/ p.equity < s.trough) THEN
        [s EXCEPT !.trough = p.equity]
    ELSE s

DrawdownPeriods(points) ==
    LET seen[n \in 0..(Len(points) - 1)] ==
            IF n = 0 THEN [peak |-> points[1].equity, peakAt |-> points[1].at,
                           trough |-> Missing, closed |-> <<>>]
            ELSE ReadPoint(seen[n - 1], points[n + 1])
        end == seen[Len(points) - 1]
    IN  IF end.trough = Missing THEN end.closed ELSE Append(end.closed, Period(end, Missing))

SumOf(trades, Amount(_)) == SumFunction([n \in DOMAIN trades |-> Amount(trades[n])])

(* Mutant: costs are added. *)
NetOfAdded(scenario, t) == t.gain + t.cost[scenario]

Net(scenario, t) == t.gain - t.cost[scenario]

(* A profit factor is a pair, or Missing when nothing was lost. *)
ProfitFactor(trades, Amount(_)) ==
    LET lost == SumOf(trades, LAMBDA t : IF Amount(t) < 0 THEN -Amount(t) ELSE 0)
    IN  IF lost = 0 THEN Missing
        ELSE <<SumOf(trades, LAMBDA t : IF Amount(t) > 0 THEN Amount(t) ELSE 0), lost>>

WorstLevel(trades) ==
    CHOOSE level \in {"low", "medium", "high"} :
        LET levels == {trades[n].level : n \in DOMAIN trades}
        IN  /\ level \in levels
            /\ level = "low" => levels = {"low"}
            /\ level = "medium" => "high" \notin levels

(* A drawdown is a pair too: what was lost, of the peak. *)
NoDeeper(d, e) == d[1] * e[2] <= e[1] * d[2]
Deepest(S) == CHOOSE d \in S : \A e \in S : NoDeeper(e, d)

(* _compute_metrics.  The expectancy is times the trades and the losses.   *)
FiguresOf(trades, points) ==
    LET wins == Cardinality({n \in DOMAIN trades : trades[n].result = "win"})
        losses == Cardinality({n \in DOMAIN trades : trades[n].result = "loss"})
        Won(t) == IF t.result = "win" THEN t.gain ELSE 0
        Lost(t) == IF t.result = "loss" THEN -t.gain ELSE 0
    IN  [total |-> Len(trades), wins |-> wins, losses |-> losses,
         pf |-> ProfitFactor(trades, LAMBDA t : t.gain),
         nets |-> [s \in DOMAIN Scenarios2 |-> SumOf(trades, LAMBDA t : Net(s, t))],
         netPf |-> [s \in DOMAIN Scenarios2 |-> ProfitFactor(trades, LAMBDA t : Net(s, t))],
         expectancy |-> IF wins = 0 \/ losses = 0 THEN Missing
                        ELSE SumOf(trades, Won) * losses
                                - (Len(trades) - wins) * SumOf(trades, Lost),
         final |-> Last(points).equity,
         drawdown |-> Deepest({<<points[n].peak - points[n].equity, points[n].peak>> :
                                 n \in DOMAIN points}),
         level |-> WorstLevel(trades)]

(* Mutant: the next config goes on from where this one ended. *)
FinishConfigGoingOn ==
    /\ Len(outputs) < Configs
    /\ outputs' = Append(outputs,
          IF ledger = <<>> THEN Missing
          ELSE [trades |-> ledger, points |-> curve, periods |-> DrawdownPeriods(curve),
                result |-> FiguresOf(ledger, curve)])
    /\ ledger' = <<>>
    /\ UNCHANGED <<market, curve>>

(* The end of a config; one without trades stores nothing. *)
FinishConfig ==
    /\ Len(outputs) < Configs
    /\ outputs' = Append(outputs,
          IF ledger = <<>> THEN Missing
          ELSE [trades |-> ledger, points |-> curve, periods |-> DrawdownPeriods(curve),
                result |-> FiguresOf(ledger, curve)])
    /\ ledger' = <<>> /\ curve' = <<StartPoint>>
    /\ UNCHANGED market

ResultsNext ==
    \/ \E gain \in Gains, at \in CloseTimes : CloseTrade(gain, at)
    \/ FinishConfig

ResultsSpec == ResultsInit /\ [][ResultsNext]_resultVars

-----------------------------------------------------------------------------
(* The page of a run (get_comparison_detail): the curves of all its        *)
(* configs are one, by time, and so are their drawdown periods.            *)

Stored == {n \in DOMAIN outputs : outputs[n] # Missing}
PointsOfRun == UNION {ToSet(outputs[n].points) : n \in Stored}
PeriodsOfRun == UNION {{n} \X DOMAIN outputs[n].periods : n \in Stored}
PeriodOf(i) == outputs[i[1]].periods[i[2]]

(* Of points at one time any may come last. *)
EndEquities == {p.equity : p \in {q \in PointsOfRun : \A r \in PointsOfRun : r.at <= q.at}}

DetailPage ==
    [peak |-> Max({p.equity : p \in PointsOfRun}),
     worst |-> IF PeriodsOfRun = {} THEN <<0, 1>>
               ELSE Deepest({<<PeriodOf(i).peak - PeriodOf(i).trough, PeriodOf(i).peak>> :
                               i \in PeriodsOfRun}),
     open |-> Cardinality({i \in PeriodsOfRun : ~ PeriodOf(i).recovered})]

-----------------------------------------------------------------------------

ResultsTypeOK ==
    /\ Len(curve) = Len(ledger) + 1 /\ Len(outputs) <= Configs
    /\ \A n \in DOMAIN ledger : ledger[n].gain \in Gains /\ ledger[n].level \in {"low", "medium", "high"}

SameDepth(d, e) == NoDeeper(d, e) /\ NoDeeper(e, d)

(* The periods of a curve, found in one pass, and the drawdown of its      *)
(* result, taken from the points, tell the same: the worst is as deep,     *)
(* none begins before the one before it has ended, and only the last can   *)
(* be open, which it is when the curve fell and never again exceeded what  *)
(* it fell from, if only by having come back to it.                        *)
PeriodsTellCurve ==
    \A n \in Stored :
        LET points == outputs[n].points
            periods == outputs[n].periods
            Open(i) == ~ periods[i].recovered
        IN  /\ IF periods = <<>> THEN outputs[n].result.drawdown[1] = 0
               ELSE SameDepth(outputs[n].result.drawdown,
                        Deepest({<<p.peak - p.trough, p.peak>> : p \in ToSet(periods)}))
            /\ \A i, j \in DOMAIN periods :
                  i < j => ~ Open(i) /\ periods[i].end <= periods[j].start
            /\ (periods # <<>> /\ Open(Len(periods))) =
                  \E i, j \in DOMAIN points :
                      /\ i < j /\ points[j].equity < points[i].equity
                      /\ \A k \in DOMAIN points : points[k].equity <= points[i].equity

(* The figures of a result agree: costs take off more from scenario to     *)
(* scenario; no net loss means no gross one, so that the gross factor the  *)
(* comparison falls back to is missing as well; the expectancy is below    *)
(* the mean by what it takes break-even trades to lose.  A level that is   *)
(* not high is that of a config that lost in no trade and in no scenario,  *)
(* which therefore has no profit factor.                                   *)
FiguresAgree ==
    \A n \in Stored :
        LET r == outputs[n].result
            mean == (r.final - Capital) * r.losses
        IN  /\ r.nets["high"] <= r.nets["base"] /\ r.nets["base"] <= r.nets["low"]
            /\ r.nets["low"] < r.final - Capital
            /\ r.netPf["low"] = Missing => r.pf = Missing
            /\ \A s \in DOMAIN Scenarios2 : r.netPf[s] # Missing /\ r.pf # Missing =>
                  r.netPf[s][1] * r.pf[2] <= r.pf[1] * r.netPf[s][2]
            /\ r.expectancy # Missing =>
                  /\ r.expectancy <= mean
                  /\ (r.expectancy = mean) = (r.total = r.wins + r.losses)
            /\ r.level # "high" =>
                  r.wins = r.total /\ r.pf = Missing /\ \A s \in DOMAIN Scenarios2 : r.netPf[s] = Missing

(* Under every profile and preset an asset costs no less than under the    *)
(* milder one; every class is reached, and a symbol that a table names is  *)
(* of the class of the table, but for a commodity with six letters and a   *)
(* dollar, which is taken for a currency.                                  *)
CostsOrdered ==
    /\ \A c \in AssetClasses, s \in DOMAIN Scenarios2, p, q \in DOMAIN Profiles4,
          x \in DOMAIN StressPresets :
          LET Cost(class, profile, preset) ==
                  CostOf([class |-> class, profile |-> profile, preset |-> preset], s)
          IN  /\ Profiles4[p] <= Profiles4[q] => Cost(c, p, x) <= Cost(c, q, x)
              /\ Cost(c, p, "normal_liquidity") <= Cost(c, p, x)
              /\ Cost(c, p, x) <= Cost(c, p, "news_event_stress")
              /\ Cost("forex", p, x) <= Cost(c, p, x) /\ Cost(c, p, x) <= Cost("crypto", p, x)
    /\ {ClassOf(s) : s \in Symbols} = AssetClasses
    /\ \A s \in Symbols : s.given = Missing /\ s.table \in AssetClasses /\ ClassOf(s) # s.table =>
          s.table = "commodities" /\ s.letters = 6 /\ s.dollar

(* The page of a run shows the worst of its configs and the highest that   *)
(* any of them stood; where the mixed curve ends is the end of one of      *)
(* them, and of the only one if there is one.                              *)
PageTellsRun ==
    Stored # {} =>
        /\ SameDepth(DetailPage.worst, Deepest({outputs[n].result.drawdown : n \in Stored}))
        /\ DetailPage.peak = Max({Last(outputs[n].points).peak : n \in Stored})
        /\ DetailPage.open <= Cardinality(Stored)
        /\ EndEquities \subseteq {outputs[n].result.final : n \in Stored}

(* What the lab tells of a run is what its trades made. *)
ResultsToldTruly == PeriodsTellCurve /\ FiguresAgree /\ CostsOrdered /\ PageTellsRun

=============================================================================
