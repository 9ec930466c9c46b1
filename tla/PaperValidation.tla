-------------------------- MODULE PaperValidation --------------------------
(***************************************************************************)
(* Paper validation plans of one baseline candidate.  Evidence is added by *)
(* hand or taken from closed signal outcomes, and every handler ends by    *)
(* recalculating the plan: what it computes from the evidence decides the  *)
(* stored status.  A handler runs in one transaction, and handlers of one  *)
(* plan are taken to follow one another.                                   *)
(*                                                                         *)
(* The sessions do not flush before a query, so a handler that adds        *)
(* evidence and does not flush it recalculates without it.  A manual entry *)
(* won or lost one unit; a signal outcome has a result and no amount.  The *)
(* target profit factor is 1 and the other thresholds are not set.         *)
(***************************************************************************)
EXTENDS Integers, FiniteSets

CONSTANTS
    Plans,
    Wins, Losses,   \* bound: the manual entries of a plan, by result
    Closings,       \* bound: the signal outcomes that close
    Required,       \* values of required_trades
    Metrics,        \* what paper_metrics may be set to
    MinimumDays

ASSUME ValidationAssumption ==
    /\ IsFiniteSet(Wins \union Losses \union Closings)
    /\ Wins \intersect Losses = {}
    /\ (Wins \union Losses) \intersect Closings = {}
    /\ Required # {} /\ Required \subseteq Nat \ {0}
    /\ Metrics \subseteq {"sufficient", "losing"}
    /\ MinimumDays \in Nat \ {0}

VARIABLES
    plan,       \* the PaperValidationPlan rows; reopened is history
    evidence,   \* their evidence: absent, counted or excluded
    closed,     \* the signal outcomes that have closed
    lag         \* history: what has happened to a plan since the computation
                \* that its status reflects

planVars == <<plan, evidence, closed, lag>>

Entries == Wins \union Losses \union Closings

(* days is what days_active comes to; metrics, the paper_metrics document. *)
PlanRows ==
    [status : {"absent", "pending", "active", "passed", "failed", "stopped"},
     started : BOOLEAN, reopened : BOOLEAN, required : Required,
     days : 0..MinimumDays, metrics : {"none", "sufficient", "losing"}]

PlansInit ==
    /\ \E n \in Required :
          plan = [p \in Plans |->
                    [status |-> "absent", started |-> FALSE, reopened |-> FALSE,
                     required |-> n, days |-> 0, metrics |-> "none"]]
    /\ evidence = [p \in Plans |-> [e \in Entries |-> "absent"]]
    /\ closed = {}
    /\ lag = [p \in Plans |-> "none"]

-----------------------------------------------------------------------------

Counted(seen) == {e \in Entries : seen[e] = "counted"}

DaysActive(row) == IF row.metrics = "sufficient" THEN MinimumDays ELSE row.days

(* The entries seen take the place of the paper_metrics, when there are    *)
(* any, excluded ones included.                                            *)
TradesMet(row, seen) ==
    IF \E e \in Entries : seen[e] # "absent"
    THEN Cardinality(Counted(seen)) >= row.required
    ELSE row.metrics = "sufficient"

Breach(row, seen) ==
    IF \E e \in Entries : seen[e] # "absent"
    THEN Cardinality(Counted(seen) \intersect Wins)
            < Cardinality(Counted(seen) \intersect Losses)
    ELSE row.metrics = "losing"

Verdict(row, seen) ==
    CASE row.status = "stopped" -> "stopped"
      [] row.status # "stopped" /\ Breach(row, seen) -> "failed"
      [] OTHER -> IF TradesMet(row, seen) /\ DaysActive(row) >= MinimumDays THEN "passed"
                  ELSE IF row.started THEN "active" ELSE "pending"

(* A plan that failed or passed stays so until it is computed otherwise,   *)
(* or, if it never started, until what it passed or failed on is gone.     *)
ApplyStatus(row, verdict) ==
    CASE verdict \in {"stopped", "failed", "passed"} -> [row EXCEPT !.status = verdict]
      [] verdict = "pending" -> [row EXCEPT !.status = "pending"]
      [] OTHER -> [row EXCEPT !.status = IF @ = "pending" THEN "active" ELSE @]

Exists(p) == plan[p].status # "absent"
IsOpen(p) == plan[p].status \in {"pending", "active"}

(* The end of a handler: the row it changed, and the entries its query     *)
(* returns.                                                                *)
Recalculate(p, row, seen) ==
    LET final == ApplyStatus(row, Verdict(row, seen))
    IN  plan' = [plan EXCEPT ![p] =
            [final EXCEPT !.reopened =
                @ \/ (Exists(p) /\ ~ IsOpen(p) /\ final.status \in {"pending", "active"})]]

UpToDate(p) == lag' = [lag EXCEPT ![p] = "none"]

-----------------------------------------------------------------------------

(* Refuses only while another plan is active. *)
MayCreateBesidePending == \A q \in Plans : plan[q].status # "active"

MayCreate == \A q \in Plans : ~ IsOpen(q)

CreatePlan(p) ==
    /\ ~ Exists(p)
    /\ MayCreate
    /\ \E n \in Required :
          Recalculate(p, [plan[p] EXCEPT !.status = "pending", !.required = n], evidence[p])
    /\ UpToDate(p)
    /\ UNCHANGED <<evidence, closed>>

(* PATCH may set a status other than passed and failed, of a plan in any   *)
(* status, together with the requirements and the metrics.                 *)
UpdatePlan(p) ==
    /\ Exists(p)
    /\ \E s \in {"pending", "active", "stopped", plan[p].status}, n \in Required,
          m \in {plan[p].metrics} \union Metrics :
          LET asked == [plan[p] EXCEPT !.status = s, !.required = n, !.metrics = m]
              row == IF s = "pending" /\ s # plan[p].status
                     THEN [asked EXCEPT !.started = FALSE, !.days = 0] ELSE asked
          IN  Recalculate(p, row, evidence[p])
    /\ UpToDate(p)
    /\ UNCHANGED <<evidence, closed>>

StartPlan(p) ==
    /\ plan[p].status = "pending"
    /\ Recalculate(p, [plan[p] EXCEPT !.status = "active", !.started = TRUE, !.days = 1],
                   evidence[p])
    /\ UpToDate(p)
    /\ UNCHANGED <<evidence, closed>>

StopPlan(p) ==
    /\ IsOpen(p)
    /\ Recalculate(p, [plan[p] EXCEPT !.status = "stopped"], evidence[p])
    /\ UpToDate(p)
    /\ UNCHANGED <<evidence, closed>>

RecalculatePlan(p) ==
    /\ Exists(p)
    /\ Recalculate(p, plan[p], evidence[p])
    /\ UpToDate(p)
    /\ UNCHANGED <<evidence, closed>>

(* Does not flush the entry. *)
AddManualUnflushed(p) ==
    /\ Exists(p)
    /\ \E e \in Wins \union Losses, i \in {"counted", "excluded"} :
          /\ evidence[p][e] = "absent"
          /\ evidence' = [evidence EXCEPT ![p][e] = i]
    /\ Recalculate(p, plan[p], evidence[p])
    /\ UpToDate(p)
    /\ UNCHANGED closed

(* Evidence is accepted whatever the status of the plan. *)
AddManual(p) ==
    /\ Exists(p)
    /\ \E e \in Wins \union Losses, i \in {"counted", "excluded"} :
          /\ evidence[p][e] = "absent"
          /\ evidence' = [evidence EXCEPT ![p][e] = i]
    /\ Recalculate(p, plan[p], evidence'[p])
    /\ UpToDate(p)
    /\ UNCHANGED closed

ExcludeOrInclude(p) ==
    /\ \E e \in Entries, i \in {"counted", "excluded"} :
          /\ evidence[p][e] # "absent"
          /\ evidence' = [evidence EXCEPT ![p][e] = i]
    /\ Recalculate(p, plan[p], evidence'[p])
    /\ UpToDate(p)
    /\ UNCHANGED closed

(* Takes what the filters of the request select of the closed outcomes and *)
(* the plan does not have.  The query of the recalculation does not see    *)
(* the entries just added.                                                 *)
Reconcile(p) ==
    /\ Exists(p)
    /\ \E selected \in SUBSET closed :
          LET new == {e \in selected : evidence[p][e] = "absent"}
          IN  /\ new # {}
              /\ evidence' = [evidence EXCEPT ![p] =
                                [e \in Entries |-> IF e \in new THEN "counted" ELSE @[e]]]
    /\ Recalculate(p, plan[p], evidence[p])
    /\ lag' = [lag EXCEPT ![p] = "reconciled"]
    /\ UNCHANGED closed

-----------------------------------------------------------------------------

OutcomeCloses ==
    /\ \E o \in Closings \ closed : closed' = closed \union {o}
    /\ UNCHANGED <<plan, evidence, lag>>

(* The plans that have started are a day older. *)
DayPasses(p) ==
    /\ plan[p].started /\ plan[p].days < MinimumDays
    /\ plan' = [plan EXCEPT ![p].days = @ + 1]
    /\ lag' = [lag EXCEPT ![p] = "day"]
    /\ UNCHANGED <<evidence, closed>>

PlansNext ==
    \/ \E p \in Plans :
          \/ CreatePlan(p) \/ UpdatePlan(p) \/ StartPlan(p) \/ StopPlan(p)
          \/ RecalculatePlan(p) \/ AddManual(p) \/ ExcludeOrInclude(p) \/ Reconcile(p)
          \/ DayPasses(p)
    \/ OutcomeCloses

PlansSpec == PlansInit /\ [][PlansNext]_planVars

-----------------------------------------------------------------------------

PlansTypeOK ==
    /\ plan \in [Plans -> PlanRows]
    /\ evidence \in [Plans -> [Entries -> {"absent", "counted", "excluded"}]]
    /\ closed \subseteq Closings
    /\ lag \in [Plans -> {"none", "day", "reconciled"}]

StatusAgrees(p) ==
    LET v == Verdict(plan[p], evidence[p])
    IN  \/ v = plan[p].status
        \/ v = "active" /\ plan[p].status \in {"passed", "failed"}

(* The stored status is the verdict on the evidence the plan has now, or a *)
(* verdict of before that nothing contradicts, unless a day has passed or  *)
(* outcomes were reconciled since it was computed.                         *)
StatusFollowsEvidence ==
    \A p \in Plans : Exists(p) /\ lag[p] = "none" => StatusAgrees(p)

(* One plan of the candidate at most is open, but for those that an update *)
(* or a recalculation has reopened: neither looks for other plans.         *)
OneOpenPlan ==
    \A p, q \in Plans : IsOpen(p) /\ IsOpen(q) /\ p # q => plan[p].reopened \/ plan[q].reopened

(* The plans tell which candidate is being validated and how far it is:    *)
(* each verdict goes with its evidence, and one plan at most is open.      *)
PlansTellTruth == StatusFollowsEvidence /\ OneOpenPlan

-----------------------------------------------------------------------------

(* What the operator is shown of the plans: the dashboard of them all and  *)
(* the readiness review of one.  Both compute the progress anew, from the  *)
(* evidence there is, and show it beside the stored status.                *)
(*                                                                         *)
(* The review divides the profit factor, a float, by the target, which a   *)
(* Numeric column returns as a Decimal: it fails when both are known.  The *)
(* target is set in this model, so the parts of the score that the profit  *)
(* factor earns are not reached; no drawdown limit is set; and evidence is *)
(* of confidence low or manual, which earn nothing.                        *)

Held(p) == {e \in Entries : evidence[p][e] # "absent"}
LowConfidence(p) == Held(p) \intersect Closings
ByHand(p) == Held(p) \intersect (Wins \union Losses)

AtLeast(part, quarters, whole) ==
    part # {} /\ 4 * Cardinality(part) >= quarters * Cardinality(whole)

(* An amount lost gives a profit factor, an amount won alone does not. *)
ProfitFactorKnown(p) ==
    IF Held(p) = {} THEN plan[p].metrics = "losing"
    ELSE Counted(evidence[p]) \intersect Losses # {}

TradesDone(p) ==
    IF Held(p) # {} THEN Cardinality(Counted(evidence[p]))
    ELSE IF plan[p].metrics = "sufficient" THEN plan[p].required ELSE 0

(* What of full a part of done / wanted earns, rounded down. *)
ScoreFor(full, done, wanted) == IF done >= wanted THEN full ELSE (full * done) \div wanted

TradesReached(p) == TradesDone(p) >= plan[p].required
DaysReached(p) == DaysActive(plan[p]) >= MinimumDays

-----------------------------------------------------------------------------

ReviewAnswers(p) == ~ ProfitFactorKnown(p)

ReadyByTradesAlone(p) ==
    IF plan[p].status # "active" THEN plan[p].status
    ELSE IF TradesReached(p) THEN "ready_for_review" ELSE "collecting_evidence"

ReadinessStatus(p) ==
    CASE plan[p].status \in {"passed", "failed", "stopped"} -> plan[p].status
      [] plan[p].status = "active" ->
            IF TradesReached(p) /\ DaysReached(p) THEN "ready_for_review" ELSE "collecting_evidence"
      [] OTHER -> "not_started"

ReadinessScore(p) ==
    LET earned == ScoreFor(25, TradesDone(p), plan[p].required)
                  + ScoreFor(20, DaysActive(plan[p]), MinimumDays)
    IN  IF plan[p].status = "failed" /\ earned > 20 THEN 20 ELSE earned

Warnings(p) ==
    {w \in {"trades", "days", "profit factor", "low confidence", "by hand"} :
        CASE w = "trades" -> ~ TradesReached(p)
          [] w = "days" -> ~ DaysReached(p)
          [] w = "profit factor" -> Breach(plan[p], evidence[p])
          [] w = "low confidence" -> AtLeast(LowConfidence(p), 2, Held(p))
          [] w = "by hand" -> AtLeast(ByHand(p), 2, Held(p))}

SuggestedAction(p) ==
    CASE plan[p].status = "passed" -> "review_candidate"
      [] plan[p].status = "failed" -> "reject_candidate"
      [] plan[p].status = "stopped" -> "investigate_data"
      [] ReadinessStatus(p) = "ready_for_review" ->
            IF Cardinality(Warnings(p)) > 3 THEN "investigate_data" ELSE "review_candidate"
      [] ReadinessStatus(p) \in {"collecting_evidence", "not_started"} ->
            IF AtLeast(LowConfidence(p), 3, Held(p)) THEN "investigate_data" ELSE "keep_collecting"

PlansWhere(Test(_)) == Cardinality({p \in Plans : Exists(p) /\ Test(p)})

Active(p) == plan[p].status = "active"

Dashboard ==
    [ready |-> PlansWhere(LAMBDA p : Active(p) /\ TradesReached(p) /\ DaysReached(p)),
     low |-> PlansWhere(LAMBDA p : AtLeast(LowConfidence(p), 2, Held(p))),
     breaching |-> PlansWhere(LAMBDA p : Active(p) /\ Breach(plan[p], evidence[p]))]

-----------------------------------------------------------------------------

(* A plan shows as ready for review, on its page or on the dashboard, only *)
(* until something recalculates it: every handler makes such a plan passed *)
(* or failed, so only a day gone by or a reconciliation leaves one.        *)
ReadyIsTransient ==
    \A p \in Plans :
        Exists(p) /\ ReadinessStatus(p) = "ready_for_review" => lag[p] # "none"

(* The dashboard and the pages tell the same: as many plans are ready and  *)
(* in doubt on it as pages say so, and none that breaches is left active.  *)
DashboardAgrees ==
    /\ Dashboard.ready = PlansWhere(LAMBDA p : ReadinessStatus(p) = "ready_for_review")
    /\ Dashboard.low = PlansWhere(LAMBDA p : "low confidence" \in Warnings(p))
    /\ Dashboard.breaching = 0

(* A review that answers gives the 45 points that can be had to those and  *)
(* only those that it does not warn of trades or days wanting, and a plan  *)
(* that breaches gets no review but its rejection.                         *)
ScoreMeansProgress ==
    \A p \in Plans :
        Exists(p) /\ ReviewAnswers(p) =>
            /\ plan[p].status # "failed" =>
                  (ReadinessScore(p) = 45 <=> Warnings(p) \intersect {"trades", "days"} = {})
            /\ "profit factor" \notin Warnings(p)

(* What is stored of the plans and what is shown of them are true. *)
PlansToldTruly ==
    PlansTellTruth /\ ReadyIsTransient /\ DashboardAgrees /\ ScoreMeansProgress

=============================================================================
