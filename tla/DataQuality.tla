----------------------------- MODULE DataQuality -----------------------------
(***************************************************************************)
(* The bars of one asset in one intraday timeframe, the imports that store *)
(* them (historical_import_service), the engine that judges them           *)
(* (data_quality_engine) and the pages of the data centre.  A handler      *)
(* commits once per provider; an import awaits the provider before that,   *)
(* and reviews load a report and write it later.  Recalculations follow    *)
(* one another, and name a provider once.                                  *)
(***************************************************************************)
EXTENDS Integers, Sequences, FiniteSets, FiniteSetsExt, SequencesExt

CONSTANTS
    Providers,   \* the registered ones; All is the request for every source
    All,
    Times,       \* in half intervals: a provider may be late by one
    Feeds,       \* what a provider may return: [SUBSET Times -> Kinds]
    Lookback,    \* SPIKE_LOOKBACK
    Weekend,     \* the days of a week without daily bars
    MaxBatches,
    Reviewers,
    None

(* The columns of a report and of a coverage row.                          *)
GapRows == [from : Int, to : Int, missing : Int]
MetricsRows == [total : Nat, expected : Int, missing : Int, gaps : SUBSET GapRows,
                spikes : Nat, approved : BOOLEAN]
CoverageRows == [count : Nat, approved : BOOLEAN]

ASSUME QualityAssumption ==
    /\ Times \subseteq Nat /\ IsFiniteSet(Times) /\ IsFiniteSet(Providers)
    /\ All \notin Providers /\ Lookback \in Nat /\ MaxBatches \in Nat
    /\ None \notin MetricsRows /\ None \notin CoverageRows

VARIABLES
    bars,       \* the rows, by time: the constraint allows one
    report,     \* MarketDataQualityReport, by provider or All
    review,     \* its review_status
    openGaps,   \* MarketDataGap rows of status open
    coverage,   \* ProviderAssetCoverage
    runs,       \* MarketDataImportRun rows, in order
    batch,      \* the import in progress: what is left of it, and its answers
    reviewing,  \* where the handler of each review is
    trail       \* QualityReviewAudit rows

qualityVars == <<bars, report, review, openGaps, coverage, runs, batch, reviewing, trail>>

Keys == Providers \union {All}
Statuses == {"unreviewed", "valid_market_move", "bad_data"}
Kinds == {"plain", "wide", "bad"}     \* wide: a range nine times a plain one's

ASSUME FeedsAssumption == \A feed \in Feeds : \A t \in DOMAIN feed : feed[t] \in Kinds

NotFetched == [end |-> "none", bars |-> <<>>]
Step == 2                             \* TIMEFRAME_SECONDS, in half intervals

QualityInit ==
    /\ bars = [t \in Times |-> None]
    /\ report = [k \in Keys |-> None]
    /\ review = [k \in Keys |-> "unreviewed"]
    /\ openGaps = [k \in Keys |-> {}]
    /\ coverage = [p \in Providers |-> None]
    /\ runs = <<>>
    /\ batch = [number |-> 0, left |-> <<>>, dry |-> FALSE, fetched |-> NotFetched, answers |-> <<>>]
    /\ reviewing = [v \in Reviewers |-> [stage |-> "idle", key |-> All, loaded |-> "unreviewed"]]
    /\ trail = <<>>

-----------------------------------------------------------------------------
(* The engine *)

LoadBars(rows, key) ==
    {t \in Times : rows[t] # None /\ (key = All \/ rows[t].source = key)}

Before(S, t) == {s \in S : s < t}
LastBefore(S, t) == CHOOSE s \in Before(S, t) : \A u \in Before(S, t) : u <= s

(* _count_suspicious_spikes: a wide bar after a history whose median range *)
(* is that of a plain one.                                                 *)
SuspiciousSpikes(rows, S) ==
    LET History(t) == {s \in Before(S, t) : Cardinality({u \in Before(S, t) : u >= s}) <= Lookback}
        Wide(T) == Cardinality({s \in T : rows[s].kind = "wide"})
    IN  Cardinality({t \in S : /\ rows[t].kind = "wide" /\ History(t) # {}
                               /\ 2 * Wide(History(t)) < Cardinality(History(t))})

BadPrices(rows, S) == Cardinality({t \in S : rows[t].kind = "bad"})

(* Mutant: a gap reaches up to the bar after it. *)
GapsUpToNext(S) ==
    {[from |-> LastBefore(S, t) + Step, to |-> t,
      missing |-> (t - LastBefore(S, t)) \div Step - 1] :
        t \in {u \in S : Before(S, u) # {} /\ (u - LastBefore(S, u)) \div Step > 1}}

(* Whole intervals between a bar and the next, but for the one they share. *)
GapsOf(S) ==
    {[from |-> LastBefore(S, t) + Step, to |-> t - Step,
      missing |-> (t - LastBefore(S, t)) \div Step - 1] :
        t \in {u \in S : Before(S, u) # {} /\ (u - LastBefore(S, u)) \div Step > 1}}

MissingIn(gaps) == MapThenSumSet(LAMBDA g : g.missing, gaps)

(* Daily bars: the expected dates that have none, in runs of days.         *)
ExpectedDates(first, last) == {d \in first..last : d % 7 \notin Weekend}

DailyGaps(S) ==
    LET absent == ExpectedDates(Min(S), Max(S)) \ S
    IN  {[from |-> p[1], to |-> p[2], missing |-> p[2] - p[1] + 1] : p \in
            {p \in absent \X absent :
                /\ p[1] <= p[2] /\ p[1]..p[2] \subseteq absent
                /\ p[1] - 1 \notin absent /\ p[2] + 1 \notin absent}}

(* quality_score >= 90, each penalty taken off a hundred. *)
ScoreApproves(missing, expected, bad, spikes) ==
    expected * (10 - 3 * bad - 2 * spikes) >= 50 * missing

Metrics(rows, key) ==
    LET S == LoadBars(rows, key)
        gaps == GapsOf(S)
        expected == IF S = {} THEN 0 ELSE (Max(S) - Min(S)) \div Step + 1
        spikes == SuspiciousSpikes(rows, S)
    IN  [total |-> Cardinality(S), expected |-> expected, missing |-> MissingIn(gaps),
         gaps |-> gaps, spikes |-> spikes,
         approved |-> S # {} /\ ScoreApproves(MissingIn(gaps), expected,
                                              BadPrices(rows, S), spikes)]

(* _persist_metrics: what is open is replaced, and the coverage row of a   *)
(* provider takes over the figures.                                        *)
Persist(rows, key) ==
    LET m == Metrics(rows, key)
    IN  /\ report' = [report EXCEPT ![key] = m]
        /\ openGaps' = [openGaps EXCEPT ![key] = m.gaps]
        /\ coverage' = IF key = All THEN coverage
                       ELSE [coverage EXCEPT ![key] =
                                [count |-> m.total, approved |-> m.approved]]

Recalculate(key) ==
    /\ Persist(bars, key)
    /\ UNCHANGED <<bars, review, runs, batch, reviewing, trail>>

-----------------------------------------------------------------------------
(* Imports *)

StartImport ==
    /\ batch.left = <<>> /\ batch.number < MaxBatches
    /\ \E order \in SetToSeqs(Providers), dry \in BOOLEAN :
          batch' = [number |-> batch.number + 1, left |-> order, dry |-> dry,
                    fetched |-> NotFetched, answers |-> <<>>]
    /\ UNCHANGED <<bars, report, review, openGaps, coverage, runs, reviewing, trail>>

(* The provider answers, with bars or none, or fails. *)
Fetch ==
    /\ batch.left # <<>> /\ ~ batch.dry /\ batch.fetched = NotFetched
    /\ \/ \E feed \in Feeds : batch' = [batch EXCEPT !.fetched = [end |-> "bars", bars |-> feed]]
       \/ \E end \in {"empty", "failed"} : batch' = [batch EXCEPT !.fetched.end = end]
    /\ UNCHANGED <<bars, report, review, openGaps, coverage, runs, reviewing, trail>>

Record(status) ==
    /\ runs' = Append(runs, [batch |-> batch.number, status |-> status])
    /\ batch' = [batch EXCEPT !.left = Tail(@), !.fetched = NotFetched,
                              !.answers = Append(@, status)]

(* Mutant: the verdict goes with the bars. *)
CoveredAnew(p, count) == [coverage EXCEPT ![p] = [count |-> count, approved |-> FALSE]]

(* _upsert_provider_asset_coverage: the verdict of the row, if there is    *)
(* one, is kept.                                                           *)
Covered(p, count) ==
    [coverage EXCEPT ![p] =
        [count |-> count, approved |-> coverage[p] # None /\ coverage[p].approved]]

(* A plan: no bars, but the coverage row. *)
DryRun ==
    /\ batch.left # <<>> /\ batch.dry
    /\ coverage' = Covered(Head(batch.left), 0)
    /\ Record("dry_run")
    /\ UNCHANGED <<bars, report, review, openGaps, reviewing, trail>>

(* The asset has no row, or the process no client of the provider: nothing *)
(* is asked, and the coverage stays as it is.                              *)
PassOver ==
    /\ batch.left # <<>> /\ ~ batch.dry /\ batch.fetched = NotFetched
    /\ Record("skipped")
    /\ UNCHANGED <<bars, report, review, openGaps, coverage, reviewing, trail>>

FetchFailed ==
    /\ batch.fetched.end = "failed"
    /\ Record("failed")
    /\ UNCHANGED <<bars, report, review, openGaps, coverage, reviewing, trail>>

NoBars ==
    /\ batch.fetched.end = "empty"
    /\ coverage' = Covered(Head(batch.left), 0)
    /\ Record("skipped")
    /\ UNCHANGED <<bars, report, review, openGaps, reviewing, trail>>

(* _upsert_bars: also the source of a bar that another provider stored. *)
Upserted(p, feed) ==
    [t \in Times |-> IF t \in DOMAIN feed THEN [source |-> p, kind |-> feed[t]] ELSE bars[t]]

StoreBars ==
    /\ batch.fetched.end = "bars"
    /\ bars' = Upserted(Head(batch.left), batch.fetched.bars)
    /\ Persist(bars', Head(batch.left))
    /\ Record("completed")
    /\ UNCHANGED <<review, reviewing, trail>>

(* The status that the request answers, and the one that the page of the   *)
(* imports makes of the rows.                                              *)
AnsweredStatus(answers) ==
    LET statuses == ToSet(answers)
    IN  IF "dry_run" \in statuses THEN "dry_run"
        ELSE IF statuses = {"failed"} THEN "failed"
        ELSE IF statuses \intersect {"failed", "skipped"} # {} THEN "partial"
        ELSE "completed"

(* Mutant: one failure fails the batch. *)
ListedStatusOfWorst(number) ==
    LET statuses == {runs[n].status : n \in {m \in DOMAIN runs : runs[m].batch = number}}
    IN  IF "dry_run" \in statuses THEN "dry_run"
        ELSE IF "failed" \in statuses THEN "failed"
        ELSE "completed"

ListedStatus(number) ==
    LET statuses == {runs[n].status : n \in {m \in DOMAIN runs : runs[m].batch = number}}
    IN  IF "dry_run" \in statuses THEN "dry_run"
        ELSE IF statuses = {"failed"} THEN "failed"
        ELSE IF "failed" \in statuses THEN "partial"
        ELSE "completed"

-----------------------------------------------------------------------------
(* Outliers and their review *)

Outlier(key) == report[key] # None /\ (report[key].spikes > 0 \/ ~ report[key].approved)

(* list_outliers, filtered by a status, and the summary of all of them. *)
OutlierList(status) == {k \in Keys : Outlier(k) /\ review[k] = status}

UnreviewedSummary ==
    LET flagged == {k \in Keys : Outlier(k)}
    IN  [total |-> Cardinality(flagged),
         unreviewed |-> Cardinality({k \in flagged : review[k] = "unreviewed"})]

LoadReport(v) ==
    /\ reviewing[v].stage = "idle"
    /\ \E k \in Keys : /\ report[k] # None
                       /\ reviewing' =
                             [reviewing EXCEPT ![v] = [stage |-> "loaded", key |-> k, loaded |-> review[k]]]
    /\ UNCHANGED <<bars, report, review, openGaps, coverage, runs, batch, trail>>

(* review_outlier: a status that was loaded is not written again. *)
CommitReview(v) ==
    /\ reviewing[v].stage = "loaded"
    /\ \E status \in Statuses :
          /\ review' = [review EXCEPT ![reviewing[v].key] =
                            IF status = reviewing[v].loaded THEN @ ELSE status]
          /\ trail' = Append(trail, [key |-> reviewing[v].key, old |-> reviewing[v].loaded,
                                     new |-> status])
    /\ reviewing' = [reviewing EXCEPT ![v].stage = "done"]
    /\ UNCHANGED <<bars, report, openGaps, coverage, runs, batch>>

QualityNext ==
    \/ \E k \in Keys : Recalculate(k)
    \/ StartImport \/ Fetch \/ DryRun \/ PassOver \/ FetchFailed \/ NoBars \/ StoreBars
    \/ \E v \in Reviewers : LoadReport(v) \/ CommitReview(v)

QualitySpec == QualityInit /\ [][QualityNext]_qualityVars

-----------------------------------------------------------------------------

QualityTypeOK ==
    /\ \A t \in Times : bars[t] # None =>
          bars[t].source \in Providers /\ bars[t].kind \in Kinds
    /\ \A k \in Keys : /\ review[k] \in Statuses
                         /\ report[k] # None => report[k].total \in 0..Cardinality(Times)
    /\ \A p \in Providers : coverage[p] # None => coverage[p].approved \in BOOLEAN
    /\ \A n \in DOMAIN trail : trail[n].key \in Keys

(* What is kept of a provider in three tables agrees, whatever dry runs,   *)
(* empty answers and imports of other providers did to one of them: the    *)
(* open gaps are those of the report and add up to what it misses, and the *)
(* provider is approved for backtests by both or by neither.  A provider   *)
(* without a report is approved by none.                                   *)
QualityRowsAgree ==
    /\ \A k \in Keys : IF report[k] = None THEN openGaps[k] = {}
                        ELSE /\ openGaps[k] = report[k].gaps
                             /\ MissingIn(openGaps[k]) = report[k].missing
    /\ \A p \in Providers :
          /\ (coverage[p] # None /\ coverage[p].approved)
                = (report[p] # None /\ report[p].approved)
          /\ report[p] # None => coverage[p].count \in {0, report[p].total}

(* The stored report of a provider is the live one, unless an import of    *)
(* another provider has taken over bars of it since.                       *)
StaleOnlyWhenTakenOver ==
    \A p \in Providers : report[p] # None /\ report[p] # Metrics(bars, p) =>
        Metrics(bars, p).total < report[p].total

(* No bar lies in a gap, no two gaps meet, and bars and gaps make up what  *)
(* is expected where no bar came late; daily gaps are what is missing of   *)
(* the trading days.                                                       *)
GapsAreHoles ==
    \A k \in Keys :
        LET S == LoadBars(bars, k)
            Apart(gaps) == \A g, h \in gaps : g # h => g.to < h.from \/ h.to < g.from
            Empty(gaps) == \A g \in gaps : g.from..g.to \intersect S = {}
        IN  S # {} =>
                /\ Apart(GapsOf(S)) /\ Empty(GapsOf(S))
                /\ (\A s, t \in S : (s - t) % Step = 0) =>
                        Cardinality(S) + MissingIn(GapsOf(S)) = Metrics(bars, k).expected
                /\ Apart(DailyGaps(S)) /\ Empty(DailyGaps(S))
                /\ MissingIn(DailyGaps(S)) = Cardinality(ExpectedDates(Min(S), Max(S)) \ S)

(* However reviews overlap, the status of a report is one that the trail   *)
(* names, and the list of what is flagged adds up to its summary.          *)
ReviewsTraced ==
    /\ \A k \in Keys : review[k] # "unreviewed" =>
          \E n \in DOMAIN trail : trail[n].key = k /\ trail[n].new = review[k]
    /\ Cardinality(OutlierList("unreviewed")) = UnreviewedSummary.unreviewed
    /\ MapThenSumSet(LAMBDA status : Cardinality(OutlierList(status)),
                     Statuses) = UnreviewedSummary.total

(* The page of the imports shows a finished batch as the request answered  *)
(* it, but that it does not count what was passed over.                    *)
ImportsShown ==
    batch.number > 0 /\ batch.left = <<>> =>
        \/ ListedStatus(batch.number) = AnsweredStatus(batch.answers)
        \/ "skipped" \in ToSet(batch.answers)

(* The data centre tells what bars there are and what is wrong with them.  *)
DataToldTruly ==
    /\ QualityRowsAgree /\ StaleOnlyWhenTakenOver /\ GapsAreHoles
    /\ ReviewsTraced /\ ImportsShown

=============================================================================
