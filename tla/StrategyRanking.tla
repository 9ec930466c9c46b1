----------------------------- MODULE StrategyRanking -----------------------------
(***************************************************************************)
(* How the strategy lab judges the results of a comparison: the scores and *)
(* the grade of each (strategy_result_quality_service), the ranking of the *)
(* configs (strategy_comparison_service), the pages of the run             *)
(* (strategy_lab_service) and the reports that a language model writes of  *)
(* it (ai_backtest_report_service).  A replay replaces the results while a *)
(* report is awaited.                                                      *)
(*                                                                         *)
(* Factors, scores and confidences are in hundredths, returns, drawdowns   *)
(* and rates in whole percents.                                            *)
(***************************************************************************)
EXTENDS Integers, Sequences, FiniteSets, FiniteSetsExt, SequencesExt

CONSTANTS
    Measures,      \* the figures of a result; factor and highFactor may be NoFigure
    Compared,      \* configs of the comparison
    MaxReplays,
    Reporters,
    RawConfidences,
    NoFigure

(* The columns of a StrategyResult, its sensitivity level, and the figures *)
(* under the high scenario.  There is a factor when a trade lost, and then *)
(* the level is high (FiguresAgree of StrategyResults).                    *)
ASSUME RankingAssumption ==
    /\ \A m \in Measures :
          /\ m.total \in Nat /\ m.drawdown \in Nat
          /\ m.gain \in Int /\ m.rate \in Int /\ m.highGain \in Int
          /\ m.level \in {"low", "medium", "high"}
          /\ {m.factor, m.highFactor} \subseteq Nat \union {NoFigure}
          /\ m.factor # NoFigure => m.level = "high"
    /\ Compared \in Nat \ {0} /\ RawConfidences \subseteq Int

VARIABLES
    rows,          \* StrategyResult by config, NoFigure without trades; in order
    replays,
    response,      \* of the comparison: its configs by rank
    asking,        \* where the handler of each report is
    reports        \* AIBacktestReport rows

rankingVars == <<rows, replays, response, asking, reports>>

NotAsking == [stage |-> "idle", of |-> <<>>, replay |-> 0]

RankingInit ==
    /\ rows = <<>> /\ replays = 0 /\ response = <<>>
    /\ asking = [q \in Reporters |-> NotAsking]
    /\ reports = <<>>

-----------------------------------------------------------------------------
(* The quality of a result *)

Known(x) == IF x = NoFigure THEN 0 ELSE x

(* The score of the first step that applies, or of none. *)
SampleScore(m) ==
    IF m.total >= 500 THEN 100 ELSE IF m.total >= 200 THEN 80 ELSE IF m.total >= 100 THEN 60
    ELSE IF m.total >= 50 THEN 40 ELSE 20

ProfitScore(m) ==
    LET pf == Known(m.factor)
    IN  IF pf >= 150 /\ m.gain > 20 THEN 100
        ELSE IF pf >= 125 /\ m.gain > 10 THEN 80
        ELSE IF pf >= 110 /\ m.gain > 0 THEN 60
        ELSE IF pf >= 100 THEN 40 ELSE 20

DrawdownScore(m) ==
    IF m.drawdown <= 5 THEN 100 ELSE IF m.drawdown <= 10 THEN 80 ELSE IF m.drawdown <= 15 THEN 60
    ELSE IF m.drawdown <= 25 THEN 40 ELSE 20

CostScore(m) == [low |-> 100, medium |-> 70, high |-> 30][m.level]

(* int(round(x)) of a number in hundredths: halves go to the even one. *)
RoundHalfEven(n) ==
    LET q == n \div 100
        r == n % 100
    IN  IF r > 50 \/ (r = 50 /\ q % 2 = 1) THEN q + 1 ELSE q

(* There are no monthly returns, so no consistency score. *)
Robustness(m) == RoundHalfEven(45 * ProfitScore(m) + 30 * DrawdownScore(m) + 25 * CostScore(m))

Confidence(m) ==
    25 * SampleScore(m) + 25 * ProfitScore(m) + 20 * DrawdownScore(m)
        + 15 * CostScore(m) + 15 * Robustness(m)

GradeOf(m) ==
    IF Confidence(m) >= 8500 THEN "A" ELSE IF Confidence(m) >= 7000 THEN "B"
    ELSE IF Confidence(m) >= 5500 THEN "C" ELSE IF Confidence(m) >= 4000 THEN "D" ELSE "F"

(* One asset and one timeframe, and what the high scenario leaves. *)
OverfittingRisk(m) ==
    LET If(condition, points) == IF condition THEN points ELSE 0
    IN  30 + If(m.total < 50, 35) + If(m.total \in 50..99, 20)
           + If(m.gain > 30 /\ m.total < 100, 20)
           + If(Known(m.factor) >= 200 /\ m.total < 100, 15)
           + If(m.gain > 0 /\ m.highGain < 0, 20)
           + If(m.highFactor # NoFigure /\ Known(m.factor) >= 120 /\ Known(m.highFactor) < 100, 10)

-----------------------------------------------------------------------------
(* The comparison *)

Clamp(n) == Max({0, Min({10000, n})})

(* Mutant: a drawdown counts for a result. *)
ScoreOfRisk(m) ==
    IF m = NoFigure THEN 0
    ELSE Clamp(30 * Min({Known(m.factor), 500}) + 200 * m.gain + 20 * m.rate + 300 * m.drawdown)

(* _compute_score; a config without a result has no trades. *)
ScoreOf(m) ==
    IF m = NoFigure THEN 0
    ELSE Clamp(30 * Min({Known(m.factor), 500}) + 200 * m.gain + 20 * m.rate - 300 * m.drawdown
               - (IF m.total < 5 THEN 2500 ELSE IF m.total < 10 THEN 1000 ELSE 0))

(* A stable sort by falling scores: a config comes after those it has      *)
(* before it.                                                              *)
AheadOf(results, n) ==
    {m \in DOMAIN results : \/ ScoreOf(results[m]) > ScoreOf(results[n])
                            \/ ScoreOf(results[m]) = ScoreOf(results[n]) /\ m < n}

Ranked(results) ==
    [i \in DOMAIN results |->
        CHOOSE n \in DOMAIN results : Cardinality(AheadOf(results, n)) = i - 1]

RunConfig ==
    /\ Len(rows) < Compared
    /\ \E m \in Measures \union {NoFigure} : rows' = Append(rows, m)
    /\ UNCHANGED <<replays, response, asking, reports>>

FinishComparison ==
    /\ Len(rows) = Compared /\ replays = 0 /\ response = <<>>
    /\ response' = Ranked(rows)
    /\ UNCHANGED <<rows, replays, asking, reports>>

(* A replay of the run, which clears its results first. *)
Replay ==
    /\ Len(rows) = Compared /\ replays < MaxReplays
    /\ rows' = <<>> /\ replays' = replays + 1
    /\ UNCHANGED <<response, asking, reports>>

-----------------------------------------------------------------------------
(* The pages *)

ResultsOf == {n \in DOMAIN rows : rows[n] # NoFigure}
Lowest(S) == CHOOSE n \in S : \A m \in S : n <= m

(* What list_comparison_runs calls the best and the detail ranks first:    *)
(* they go by the stored score, which is never set.                        *)
HistoryBest == Lowest(ResultsOf)

LowQualityRows == Cardinality({n \in ResultsOf : GradeOf(rows[n]) \in {"D", "F"}})

(* get_quality_summary *)
QualitySummary ==
    [grades |-> [g \in {"A", "B", "C", "D", "F"} |->
                    Cardinality({n \in ResultsOf : GradeOf(rows[n]) = g})],
     confidence |-> MapThenSumSet(LAMBDA n : Confidence(rows[n]), ResultsOf),
     riskiest |-> IF ResultsOf = {} THEN 0 ELSE Max({OverfittingRisk(rows[n]) : n \in ResultsOf})]

(* _sample_preview_points: which points of a curve are shown. *)
PreviewPoints(count) ==
    IF count <= 32 THEN 0..(count - 1)
    ELSE LET step == Max({1, count \div 32})
         IN  {step * i : i \in {j \in 0..31 : step * j < count}}

-----------------------------------------------------------------------------
(* Reports *)

(* _build_input_summary: the first ten, and the last five if there are     *)
(* more than ten.                                                          *)
TopOf(count) == 1..Min({count, 10})
BottomOf(count) == IF count > 10 THEN (count - 4)..count ELSE {}

(* Mutant: every confidence is taken for a fraction. *)
NormalisedFraction(raw) == Max({0, Min({10000, 100 * raw})})

(* A confidence of at most one is taken for a fraction. *)
Normalised(raw) == Max({0, Min({10000, IF raw \in 0..100 THEN 100 * raw ELSE raw})})

RequestReport(q) ==
    /\ asking[q].stage = "idle"
    /\ asking' = [asking EXCEPT ![q] = [stage |-> "asked", of |-> rows, replay |-> replays]]
    /\ UNCHANGED <<rows, replays, response, reports>>

(* The row is stored with its answer or with the error, in one commit. *)
AnswerReport(q) ==
    LET Row(status, json, score) == [by |-> q, replay |-> asking[q].replay, of |-> asking[q].of,
                                     status |-> status, json |-> json, confidence |-> score]
    IN  /\ asking[q].stage = "asked"
        /\ \/ \E raw \in RawConfidences :
                 reports' = Append(reports, Row("completed", Normalised(raw),
                                                Normalised(Normalised(raw))))
           \/ reports' = Append(reports, Row("failed", NoFigure, NoFigure))
        /\ asking' = [asking EXCEPT ![q].stage = "done"]
        /\ UNCHANGED <<rows, replays, response>>

(* The process or the connection dies while the report is awaited. *)
LoseReport(q) ==
    /\ asking[q].stage = "asked"
    /\ asking' = [asking EXCEPT ![q] = NotAsking]
    /\ UNCHANGED <<rows, replays, response, reports>>

RankingNext ==
    \/ RunConfig \/ FinishComparison \/ Replay
    \/ \E q \in Reporters : RequestReport(q) \/ AnswerReport(q) \/ LoseReport(q)

RankingSpec == RankingInit /\ [][RankingNext]_rankingVars

-----------------------------------------------------------------------------

RankingTypeOK ==
    /\ Len(rows) <= Compared /\ \A n \in DOMAIN rows : rows[n] \in Measures \union {NoFigure}
    /\ \A i \in DOMAIN reports : reports[i].status \in {"completed", "failed"}

(* No worse in any figure.  A factor of NoFigure, that of a result that never  *)
(* lost, is no better than any.                                            *)
NoWorse(m, n) ==
    /\ m.total >= n.total /\ m.gain >= n.gain /\ m.rate >= n.rate
    /\ m.drawdown <= n.drawdown /\ CostScore(m) >= CostScore(n)
    /\ Known(m.factor) >= Known(n.factor)

(* The judgements follow the figures: a result that is no worse than       *)
(* another scores no less and deserves no less confidence, and so is not   *)
(* ranked after it, but for a tie at either end of the scale.  The best    *)
(* grade is for results that were good in everything but the costs, and    *)
(* never for one that did not lose; a high overfitting risk is only told   *)
(* of fewer than a hundred trades.                                         *)
JudgedByFigures ==
    /\ \A m, n \in ResultsOf : NoWorse(rows[m], rows[n]) =>
          /\ Confidence(rows[m]) >= Confidence(rows[n])
          /\ ScoreOf(rows[m]) >= ScoreOf(rows[n])
    /\ replays = 0 => \A a, b \in DOMAIN response : LET m == response[a] n == response[b] IN
          m \in ResultsOf /\ n \in ResultsOf /\ NoWorse(rows[m], rows[n]) /\ b < a =>
              \/ NoWorse(rows[n], rows[m])
              \/ ScoreOf(rows[m]) = ScoreOf(rows[n])
    /\ \A n \in ResultsOf :
          /\ GradeOf(rows[n]) = "A" =>
                /\ rows[n].total >= 500 /\ rows[n].drawdown <= 5
                /\ rows[n].factor # NoFigure /\ rows[n].factor >= 150
          /\ OverfittingRisk(rows[n]) >= 70 => rows[n].total < 100

(* A preview begins with the curve and reaches its second half; the two    *)
(* lists of a report leave out no config of fifteen, and repeat one of     *)
(* less than fifteen only.                                                 *)
PreviewsReach ==
    \A count \in 1..200 :
        LET shown == PreviewPoints(count)
        IN  /\ 0 \in shown /\ Cardinality(shown) \in Min({count, 32})..32
            /\ 2 * (Max(shown) + 1) >= count - 1

ListsCover ==
    \A count \in 1..40 :
        /\ TopOf(count) \union BottomOf(count) = 1..count <=> count <= 15
        /\ TopOf(count) \intersect BottomOf(count) # {} <=> count \in 11..14

(* The pages of a run tell the same results: what the history calls best   *)
(* never scores above what the response ranked first, and the response     *)
(* counts the low grades that the summary has.                             *)
PagesAgree ==
    /\ replays = 0 /\ response # <<>> /\ ResultsOf # {} =>
          ScoreOf(rows[HistoryBest]) <= ScoreOf(rows[response[1]])
    /\ LowQualityRows = QualitySummary.grades["D"] + QualitySummary.grades["F"]
    /\ PreviewsReach /\ ListsCover

(* A report is of the results of one replay, as far as it had come when    *)
(* it was asked for, however long the answer took; the page and the stored *)
(* text name one confidence, unless it was at most a hundredth.            *)
ReportsTraced ==
    \A i \in DOMAIN reports :
        LET r == reports[i]
        IN  /\ r.replay = replays =>
                  Len(r.of) <= Len(rows) /\ SubSeq(rows, 1, Len(r.of)) = r.of
            /\ r.status = "completed" => r.json = r.confidence \/ r.json \in 1..100

(* The judgements, the pages and the reports, together. *)
RankingToldTruly == JudgedByFigures /\ PagesAgree /\ ReportsTraced

=============================================================================
