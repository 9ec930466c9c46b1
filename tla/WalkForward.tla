----------------------------- MODULE WalkForward -----------------------------
(***************************************************************************)
(* The walk-forward validation of a backtest run: the dates are split into *)
(* folds and each fold into three periods, the closed trades are sorted    *)
(* into them by the time they exited, and a fold's out-of-sample period is *)
(* judged against its in-sample period.  Times are candles since           *)
(* date_from; fractions are compared by cross-multiplying.                 *)
(***************************************************************************)
EXTENDS Integers, Sequences, FiniteSetsExt

CONSTANTS
    RunLength,      \* from date_from to date_to
    Percentages,    \* the splits: triples that sum to 100
    MaxFolds,
    Capital,        \* starting_capital
    Pnls,           \* what a trade may gain or lose
    EnoughTrades,   \* an out-of-sample period needs them (30 in the code)
    MaxTrades       \* bound: the closed trades of the run

ASSUME WalkForwardAssumption ==
    /\ RunLength \in Nat \ {0}
    /\ \A p \in Percentages : /\ p \in Seq(Nat \ {0}) /\ Len(p) = 3
                              /\ p[1] + p[2] + p[3] = 100
    /\ MaxFolds \in Nat \ {0}
    /\ Capital \in Nat \ {0}
    /\ Pnls \subseteq Int
    /\ EnoughTrades \in Nat
    /\ MaxTrades \in Nat

VARIABLES
    split,      \* the percentages asked for
    folds,      \* fold_count
    trades      \* the closed trades, by exit_time

walkVars == <<split, folds, trades>>

ClosedTrades == [exit : 0..RunLength, pnl : Pnls]

WalkInit ==
    /\ split \in Percentages
    /\ folds \in 1..MaxFolds
    /\ trades = <<>>

ReadTrade ==
    /\ Len(trades) < MaxTrades
    /\ \E t \in ClosedTrades :
          /\ \A k \in 1..Len(trades) : trades[k].exit <= t.exit
          /\ trades' = Append(trades, t)
    /\ UNCHANGED <<split, folds>>

WalkNext == ReadTrade

WalkSpec == WalkInit /\ [][WalkNext]_walkVars

-----------------------------------------------------------------------------

Periods == <<"in_sample", "validation", "out_of_sample">>

(* _simplify_split_units. *)
CommonDivisor(p) == Max({d \in 1..p[3] : \A k \in 1..3 : p[k] % d = 0})
Units(p) == [k \in 1..3 |-> p[k] \div CommonDivisor(p)]

Total(units) == units[1] + units[2] + units[3]

SegmentsTooMany(units, count) == Total(units) + count

(* The equal segments the run is cut into.                                 *)
Segments(units, count) == Total(units) + count - 1

(* build_date_splits and build_rolling_fold_splits: where each period      *)
(* begins and ends, in segments.                                           *)
FoldFrom(first, units, segments) ==
    [segments |-> segments,
     cuts |-> <<first, first + units[1], first + units[1] + units[2], first + Total(units)>>]

FoldsOf(p, count) ==
    IF count = 1 THEN <<FoldFrom(0, p, 100)>>
    ELSE [k \in 1..count |-> FoldFrom(k - 1, Units(p), Segments(Units(p), count))]

(* How a time stands to the cut: negative when it is before it.            *)
Past(time, fold, cut) == time * fold.segments - fold.cuts[cut] * RunLength

InPeriodHalfOpen(time, fold, k) ==
    /\ Past(time, fold, k) >= 0
    /\ Past(time, fold, k + 1) < 0

(* _split_label_for_timestamp: the last period includes its end.           *)
InPeriod(time, fold, k) ==
    /\ Past(time, fold, k) >= 0
    /\ Past(time, fold, k + 1) < 0 \/ (k = 3 /\ Past(time, fold, k + 1) = 0)

(* The trades are put into their periods one after another.                *)
GainsOf(ts, fold, k) ==
    LET gains[n \in 0..Len(ts)] ==
            IF n = 0 THEN <<>>
            ELSE IF InPeriod(ts[n].exit, fold, k) THEN Append(gains[n - 1], ts[n].pnl)
            ELSE gains[n - 1]
    IN  gains[Len(ts)]

-----------------------------------------------------------------------------

(* calculate_period_metrics, of the gains in a period.                     *)
SumOfGains(gains) == FoldFunction(+, 0, gains)
Profit(gains) == FoldFunction(+, 0, [k \in DOMAIN gains |-> IF gains[k] > 0 THEN gains[k] ELSE 0])
Loss(gains) == Profit([k \in DOMAIN gains |-> 0 - gains[k]])

Equity(gains, n) == Capital + SumOfGains(SubSeq(gains, 1, n))
Peak(gains, n) == Max({Equity(gains, k) : k \in 0..n})

(* The deepest fall from a peak: a numerator and a denominator.            *)
Drawdown(gains) ==
    LET falls == {<<Peak(gains, n) - Equity(gains, n), Peak(gains, n)>> : n \in 0..Len(gains)}
    IN  CHOOSE d \in falls : \A e \in falls : e[1] * d[2] <= d[1] * e[2]

Abs(x) == IF x < 0 THEN 0 - x ELSE x

ReturnMoved(before, after) == Abs(before - after) * 2 > Abs(before) /\ before # 0

(* return_degradation_pct above 50.                                        *)
ReturnDegraded(before, after) == (before - after) * 2 > Abs(before) /\ before # 0

(* Without a loss there is no profit factor, which then counts as zero.    *)
FactorBelowOne(gains) == Loss(gains) = 0 \/ Profit(gains) < Loss(gains)

Penalty(applies, points) == IF applies THEN points ELSE 0

(* calculate_walk_forward_summary, starting_capital being 100 per cent.    *)
StabilityScore(before, after) ==
    LET return == SumOfGains(after)
        fallBefore == Drawdown(before)
        fall == Drawdown(after)
    IN  Max({0, 100
          - Penalty(return < 0, 30)
          - Penalty(FactorBelowOne(after), 20)
          - Penalty(ReturnDegraded(SumOfGains(before), return), 20)
          - Penalty(/\ fallBefore[1] > 0
                    /\ 2 * fall[1] * fallBefore[2] > 3 * fallBefore[1] * fall[2], 15)
          - Penalty(Len(after) < EnoughTrades, 20)
          - Penalty(SumOfGains(before) * 100 > 20 * Capital /\ return <= 0, 15)})

OutOfSamplePass(before, after) ==
    /\ StabilityScore(before, after) >= 75
    /\ SumOfGains(after) > 0
    /\ ~ FactorBelowOne(after)
    /\ Len(after) >= EnoughTrades

-----------------------------------------------------------------------------

WalkTypeOK ==
    /\ split \in Percentages
    /\ folds \in 1..MaxFolds
    /\ trades \in Seq(ClosedTrades) /\ Len(trades) <= MaxTrades

(* Every trade that exits between the start and the end of a fold, both    *)
(* included, is counted in exactly one period of it, and none of the       *)
(* others is counted at all.                                               *)
CountedOncePerFold ==
    \A k \in 1..folds, n \in 1..Len(trades) :
        LET fold == FoldsOf(split, folds)[k]
            within == Past(trades[n].exit, fold, 1) >= 0 /\ Past(trades[n].exit, fold, 4) <= 0
        IN  Cardinality({i \in 1..3 : InPeriod(trades[n].exit, fold, i)})
                = IF within THEN 1 ELSE 0

(* The folds cover the run: the first begins at date_from, the last ends   *)
(* at date_to, and every trade of the run is judged by one of them.        *)
FoldsCoverRun ==
    LET all == FoldsOf(split, folds)
    IN  /\ Past(0, all[1], 1) = 0 /\ Past(RunLength, all[folds], 4) = 0
        /\ \A n \in 1..Len(trades) :
              \E k \in 1..folds, i \in 1..3 : InPeriod(trades[n].exit, all[k], i)

(* A period that did better is not judged worse: let one out-of-sample     *)
(* trade have gained more, another still losing, and the score is no lower *)
(* and a pass is still a pass.                                             *)
BetterIsNotWorse ==
    \A k \in 1..folds :
        LET fold == FoldsOf(split, folds)[k]
            before == GainsOf(trades, fold, 1)
            after == GainsOf(trades, fold, 3)
        IN  \A n \in 1..Len(after) : \A more \in {p \in Pnls : p > after[n]} :
                LET better == [after EXCEPT ![n] = more]
                IN  Loss(better) > 0 =>
                        /\ StabilityScore(before, better) >= StabilityScore(before, after)
                        /\ OutOfSamplePass(before, after) => OutOfSamplePass(before, better)

(* The folds of a validation judge each trade once and what they say goes  *)
(* with what the trades gained (_compute_walk_forward).                    *)
FoldsJudgeFairly == CountedOncePerFold /\ FoldsCoverRun /\ BetterIsNotWorse

=============================================================================
