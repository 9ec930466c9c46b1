--------------------------- MODULE BacktestReplay ---------------------------
(***************************************************************************)
(* One backtest run of the strategy lab.  HistoricalReplayService replays  *)
(* it part by part (a part is an asset, a timeframe and a configuration)   *)
(* and commits what each part traded; StrategyLabService validates the     *)
(* run walk-forward and labels it.  All three write run.result_summary,    *)
(* one JSON column, from requests that run in threads of their own.        *)
(***************************************************************************)
EXTENDS Integers, FiniteSets

CONSTANTS
    Replays,        \* bound: the replay requests of a behaviour
    Reviews,        \* bound: the validations and labels requested
    NoRequest,
    Parts,          \* bound: how many parts the run has
    MaxReplays      \* bound: the replays in progress at once

ASSUME BacktestAssumption ==
    /\ IsFiniteSet(Replays)
    /\ NoRequest \notin Replays \union Reviews
    /\ Parts \in Nat
    /\ MaxReplays \in Nat

VARIABLES
    backtest,   \* the row: its status and its summary
    outputs,    \* rows of trades, results and curves: <<replay, part>>
    replay,     \* where the handler of each replay is
    review      \* where the handler of each review is

backtestVars == <<backtest, outputs, replay, review>>

(* Who wrote the summary, and the walk-forward validation and the label in *)
(* it; NULL when nobody wrote any of it.                                   *)
NoSummary == [replay |-> NoRequest, validation |-> NoRequest, label |-> NoRequest]
Summaries ==
    [replay : Replays \union {NoRequest}, validation : Reviews \union {NoRequest},
     label : Reviews \union {NoRequest}]

Outputs == Replays \X (1..Parts)

BacktestInit ==
    /\ backtest = [status |-> "queued", summary |-> NoSummary]
    /\ outputs = {}
    /\ replay = [r \in Replays |-> [stage |-> "idle", part |-> 1, loaded |-> FALSE]]
    /\ review = [v \in Reviews |->
                    [stage |-> "idle", label |-> FALSE, summary |-> NoSummary, rows |-> {}]]

-----------------------------------------------------------------------------

ReplaysInProgress == {r \in Replays : replay[r].stage \notin {"idle", "done"}}

To(r, stage) == replay' = [replay EXCEPT ![r].stage = stage]

(* Checks the status and leaves the outputs of the replay before. *)
ClearedNothing == outputs

Cleared == {}

(* A run that is running is refused; one that has run is replayed only     *)
(* when its outputs are cleared.                                           *)
LoadRun(r) ==
    /\ replay[r].stage = "idle"
    /\ Cardinality(ReplaysInProgress) < MaxReplays
    /\ \/ backtest.status # "running" /\ To(r, "clearing")
       \/ backtest.status = "queued" /\ To(r, "starting")
    /\ UNCHANGED <<backtest, outputs, review>>

ClearOutputs(r) ==
    /\ replay[r].stage = "clearing"
    /\ outputs' = Cleared
    /\ To(r, "starting")
    /\ UNCHANGED <<backtest, review>>

MarkRunning(r) ==
    /\ replay[r].stage = "starting"
    /\ backtest' = [backtest EXCEPT !.status = "running"]
    /\ To(r, "replaying")
    /\ UNCHANGED <<outputs, review>>

(* A part without an asset, an approval or candles is skipped; one with    *)
(* candles may still trade nothing.                                        *)
ReplayPart(r) ==
    /\ replay[r].stage = "replaying" /\ replay[r].part <= Parts
    /\ \E candles \in BOOLEAN, trades \in BOOLEAN :
          /\ trades => candles
          /\ outputs' = IF trades THEN outputs \union {<<r, replay[r].part>>} ELSE outputs
          /\ replay' = [replay EXCEPT ![r] =
                [stage |-> "replaying", part |-> replay[r].part + 1,
                 loaded |-> replay[r].loaded \/ candles]]
    /\ UNCHANGED <<backtest, review>>

(* The summary is replaced whole. *)
FinishReplay(r) ==
    /\ replay[r].stage = "replaying" /\ replay[r].part > Parts
    /\ backtest' = [status |-> IF replay[r].loaded THEN "completed" ELSE "failed",
                    summary |-> [NoSummary EXCEPT !.replay = r]]
    /\ To(r, "done")
    /\ UNCHANGED <<outputs, review>>

(* An exception: the commit that says so may take with it rows that the    *)
(* part had flushed.                                                       *)
FailReplay(r) ==
    /\ replay[r].stage = "replaying" /\ replay[r].part <= Parts
    /\ backtest' = [backtest EXCEPT !.status = "failed"]
    /\ outputs' \in {outputs, outputs \union {<<r, replay[r].part>>}}
    /\ To(r, "done")
    /\ UNCHANGED review

(* A crash, or an error of the database, whose session refuses the commit  *)
(* of the failure too.                                                     *)
LoseReplay(r) ==
    /\ replay[r].stage \notin {"idle", "done"}
    /\ To(r, "done")
    /\ UNCHANGED <<backtest, outputs, review>>

-----------------------------------------------------------------------------

LoadReview(v) ==
    /\ review[v].stage = "idle"
    /\ \E isLabel \in BOOLEAN :
          review' = [review EXCEPT ![v] = [stage |-> "loaded", label |-> isLabel,
                                           summary |-> backtest.summary,
                                           rows |-> IF isLabel THEN {} ELSE outputs]]
    /\ UNCHANGED <<backtest, outputs, replay>>

SetStage(v, stage) == review' = [review EXCEPT ![v].stage = stage]

(* Writes a copy of the summary it loaded. *)
CommitLabel(v) ==
    /\ review[v].stage = "loaded" /\ review[v].label
    /\ backtest' = [backtest EXCEPT !.summary = [review[v].summary EXCEPT !.label = v]]
    /\ SetStage(v, "done")
    /\ UNCHANGED <<outputs, replay>>

(* The summary is changed in place and assigned to the attribute it came   *)
(* from, which the session sees as no change: only a NULL summary, for     *)
(* which a new object is made, is written.                                 *)
Validated(v) ==
    IF review[v].summary = NoSummary
    THEN [backtest EXCEPT !.summary = [NoSummary EXCEPT !.validation = v]]
    ELSE backtest

(* The metrics of the result rows are written too, and the commit fails    *)
(* when one of them is gone.                                               *)
CommitValidation(v) ==
    /\ review[v].stage = "loaded" /\ ~ review[v].label
    /\ review[v].rows \subseteq outputs
    /\ backtest' = Validated(v)
    /\ SetStage(v, "done")
    /\ UNCHANGED <<outputs, replay>>

FailReview(v) ==
    /\ review[v].stage = "loaded"
    /\ SetStage(v, "done")
    /\ UNCHANGED <<backtest, outputs, replay>>

BacktestNext ==
    \/ \E r \in Replays :
          \/ LoadRun(r) \/ ClearOutputs(r) \/ MarkRunning(r) \/ ReplayPart(r)
          \/ FinishReplay(r) \/ FailReplay(r) \/ LoseReplay(r)
    \/ \E v \in Reviews :
          LoadReview(v) \/ CommitLabel(v) \/ CommitValidation(v) \/ FailReview(v)

BacktestSpec == BacktestInit /\ [][BacktestNext]_backtestVars

-----------------------------------------------------------------------------

BacktestTypeOK ==
    /\ backtest \in [status : {"queued", "running", "completed", "failed"},
                     summary : Summaries]
    /\ outputs \subseteq Outputs
    /\ replay \in [Replays ->
          [stage : {"idle", "clearing", "starting", "replaying", "done"},
           part : 1..(Parts + 1), loaded : BOOLEAN]]
    /\ review \in [Reviews -> [stage : {"idle", "loaded", "done"}, label : BOOLEAN,
                               summary : Summaries, rows : SUBSET Outputs]]

(* What a completed run traded comes from one replay of it, whatever       *)
(* earlier replays, failed half-way or lost to a crash, had committed.     *)
(* Holds for replays one at a time, beside any reviews.                    *)
CompletedIsOneReplay ==
    backtest.status = "completed" =>
        \A x, y \in outputs : x[1] = y[1]

=============================================================================
