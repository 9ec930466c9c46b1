------------------------------- MODULE MCRecords -------------------------------
(***************************************************************************)
(* The records that the program keeps and shows, for TLC: the schema they  *)
(* are stored in, the bars and their quality, the results of the strategy  *)
(* lab, the recommended orders and the candidates.  They share no rows in  *)
(* these models, so a behaviour watches the steps of one, its focus.       *)
(***************************************************************************)
EXTENDS Migrations, DataQuality, StrategyResults, StrategyRanking,
        Recommendations, BaselineCandidates, SignalPrompts, JobSchedule

VARIABLE focus

recordsVars ==
    <<focus, migrationVars, qualityVars, resultVars, rankingVars, recVars, candVars,
      promptVars, scheduleVars>>

MCFeeds == {(0 :> "plain" @@ 2 :> "plain" @@ 4 :> "wide"), (2 :> "bad" @@ 7 :> "plain")}

MCMarkets ==
    {[class |-> "equities_etfs", profile |-> "standard", preset |-> "normal_liquidity"],
     [class |-> "crypto", profile |-> "stress", preset |-> "volatile_session"]}

MCGains == {-160, 0, 16, 160, 400}

(* Results that lost at times, and some that never did. *)
MCMeasures ==
    {[total |-> t, factor |-> f, gain |-> g, drawdown |-> d, rate |-> 50, level |-> "high",
      highGain |-> g - h, highFactor |-> f] :
        t \in {3, 60, 600}, f \in {80, 160, 700}, g \in {-5, 12, 25}, d \in {3, 30}, h \in {0, 30}}
    \union
    {[total |-> t, factor |-> NoFigure, gain |-> g, drawdown |-> 0, rate |-> 100, level |-> l,
      highGain |-> g, highFactor |-> h] :
        t \in {3, 600}, g \in {12, 25}, l \in {"low", "medium", "high"}, h \in {NoFigure, 90}}

(* Who reviews makes no difference. *)
MCSymmetry == Permutations(Reviewers \union RecReviewers)

Unedited == CHOOSE t \in Texts : TRUE

MCInit ==
    /\ focus \in {"schema", "quality", "results", "ranking", "recommendations", "candidates", "prompts",
                 "schedule"}
    /\ MigrationInit /\ QualityInit /\ ResultsInit /\ RankingInit /\ RecInit /\ CandInit
    /\ ScheduleInit
    /\ PromptsInit /\ (focus # "prompts" => disk = Unedited /\ engine = <<>>)
    /\ focus # "results" => market = [class |-> "crypto", profile |-> "stress",
                                      preset |-> "volatile_session"]
    /\ focus # "recommendations" => brokerMode = "paper"

(* Reviews are of the report on all sources, and not beside dry runs; none *)
(* is loaded while the second import is on its way, which begins after one *)
(* at most, and none is written during an import.                          *)
QualityStep ==
    /\ QualityNext
    /\ batch'.number = 2 => reviewing' = reviewing /\ Len(trail) <= 1
    /\ trail' # trail => batch.left = <<>>
    /\ \A v \in Reviewers : reviewing'[v].key = All
    /\ batch'.dry => \A v \in Reviewers : reviewing'[v].stage # "loaded"

(* The comparison of any two results; reports and replays of one result    *)
(* that stands for them all.                                               *)
Plain(m) == m = NoFigure \/ (m.total = 3 /\ m.gain = 12 /\ m.drawdown = 3 /\ m.factor = 80 /\ m.highGain = 12)

RankingStep ==
    /\ RankingNext
    /\ \/ reports' = <<>> /\ replays' = 0 /\ \A q \in Reporters : asking'[q].stage = "idle"
       \/ /\ \A n \in DOMAIN rows : Plain(rows[n])
          /\ \A n \in DOMAIN rows' : Plain(rows'[n])

(* A sweep runs while no request is in progress, and the files are edited  *)
(* once after each start.                                                  *)
PromptsStep ==
    /\ PromptsNext
    /\ sweeping'.left > 0 =>
          (\A a \in Applies : applying'[a] = 0) /\ (\A q \in Askers : requests'[q] = NoRequest)
    /\ edited /\ edited' => disk' = disk

(* The settings switch the optional jobs on or off together, and one job  *)
(* is watched after each start.                                            *)
ScheduleStep ==
    /\ ScheduleNext
    /\ process' # Down =>
          /\ process'.history = process'.background /\ process'.learning = process'.background
          /\ process'.snapshots = process'.background
    /\ \E j \in Jobs : busy' \subseteq {j} /\ \A i \in Jobs \ {j} : since'[i] = 0

MCNext ==
    /\ UNCHANGED focus
    /\ focus # "schema" => UNCHANGED migrationVars
    /\ focus # "quality" => UNCHANGED qualityVars
    /\ focus # "results" => UNCHANGED resultVars
    /\ focus # "ranking" => UNCHANGED rankingVars
    /\ focus # "recommendations" => UNCHANGED recVars
    /\ focus # "candidates" => UNCHANGED candVars
    /\ focus # "prompts" => UNCHANGED promptVars
    /\ focus # "schedule" => UNCHANGED scheduleVars
    /\ \/ focus = "schema" /\ MigrationNext
       \/ focus = "quality" /\ QualityStep
       \/ focus = "results" /\ ResultsNext
       \/ focus = "ranking" /\ RankingStep
       \/ focus = "recommendations" /\ RecNext
       \/ focus = "candidates" /\ CandNext
       \/ focus = "prompts" /\ PromptsStep
       \/ focus = "schedule" /\ ScheduleStep

MCSpec == MCInit /\ [][MCNext]_recordsVars

(* Every variable keeps its shape. *)
RecordsTypeOK ==
    /\ MigrationTypeOK /\ QualityTypeOK /\ ResultsTypeOK /\ RankingTypeOK
    /\ RecTypeOK /\ CandTypeOK /\ PromptsTypeOK /\ ScheduleTypeOK

(* Deployments leave what the schema, the rows of the prompts and the      *)
(* settings of the background jobs stand for.                              *)
DeploymentsKeepRecords == MigrationsFit /\ PromptsKept /\ SchedulesKept

(* What the lab tells of a comparison: the figures and the judgements. *)
LabTellsTruth == ResultsToldTruly /\ RankingToldTruly

(* What is recommended is guarded: the dry runs of recommended orders and  *)
(* the one active candidate of a run and config.                           *)
RecommendationsGuarded == DryRunsOfApproved /\ DryRunsGuarded /\ OneActiveUnlessRaced

=============================================================================
