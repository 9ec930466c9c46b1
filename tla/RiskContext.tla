---------------------------- MODULE RiskContext ----------------------------
(***************************************************************************)
(* The risk rules over the day's positions.  RiskService evaluates a       *)
(* signal against the profile, the time of the evaluation and a context    *)
(* that its caller gives it.  The auto-paper trader gives it zeros;        *)
(* MarketContextSnapshotService samples what is to take their place (its   *)
(* docstring: no caller is wired to it yet), and a caller that evaluates   *)
(* some time after it sampled is modelled beside the trader.  RiskEvaluator*)
(* is the rules of the older routes.                                       *)
(***************************************************************************)
EXTENDS DayReports, SequencesExt

CONSTANTS
    Evaluations,    \* bound: the signals evaluated
    Equity,         \* account equity, in money
    LossStreak,     \* the losses that begin a cooldown
    MaxOpenMvp,     \* open positions that the older rules allow
    Profiles,       \* records [drawdown, cooldown, positions]
    Faults          \* what else may be wrong with a signal: rules it breaks

ASSUME RiskContextAssumption ==
    /\ Equity \in Nat \ {0} /\ LossStreak \in Nat \ {0} /\ MaxOpenMvp \in Nat
    /\ \A p \in Profiles : {p.drawdown, p.cooldown, p.positions} \subseteq Nat

VARIABLES
    profile,        \* the active profile
    evaluation      \* where each evaluation is, what it sampled and decided

riskVars == <<profile, evaluation>>

NoContext == [at |-> Unknown, drawdown |-> 0, losses |-> 0, last |-> Unknown, open |-> 0]

NotEvaluated == [stage |-> "idle", fault |-> "none", context |-> NoContext,
                 at |-> Unknown, rule |-> "none", reasons |-> {}]

RiskInit ==
    /\ DayInit
    /\ profile \in Profiles
    /\ evaluation = [e \in Evaluations |-> NotEvaluated]

-----------------------------------------------------------------------------

(* The lookback is one day.                                                *)
LossesToday == {t \in Losing(Positions) : trade[t].closed \in Today}
RecentLosses == {t \in Losing(Positions) : trade[t].closed >= clock - DayLength}

(* The sum of the negative realized_pnl, whatever its unit, in percent of  *)
(* the equity.                                                             *)
Percent(amount) == (100 * amount) \div Money(Equity)
DailyDrawdown == Percent(- MapThenSumSet(Realized, LossesToday))

FirstOf(rows) == IF rows = {} THEN Unknown ELSE Min({trade[t].closed : t \in rows})
LastOf(rows) == IF rows = {} THEN Unknown ELSE Max({trade[t].closed : t \in rows})

(* snapshot, and the count of open positions. *)
Snapshot == [at |-> clock, drawdown |-> DailyDrawdown, losses |-> Cardinality(RecentLosses),
             last |-> LastOf(RecentLosses), open |-> Cardinality(OpenNow)]

(* "limit or 999.0": a limit of zero is none.                              *)
Reaches(value, limit) == limit # 0 /\ value >= limit

(* _check_cooldown, at the time of the evaluation. *)
CoolingDownThrough(c) ==
    /\ c.losses >= LossStreak /\ c.last # Unknown
    /\ clock - c.last <= profile.cooldown

CoolingDown(c) ==
    /\ c.losses >= LossStreak /\ c.last # Unknown
    /\ clock - c.last < profile.cooldown

(* The rules in the order of the code; those of RiskEvaluator carry other  *)
(* names and are given the same ones here.                                 *)
Rules == <<"direction_flat", "confidence_below_threshold", "signal_score_below_threshold",
           "spread_too_wide", "drawdown_exceeded", "cooldown_active",
           "kill_switch_active", "position_limit_exceeded">>

Breaks(rule, fault, c) ==
    CASE rule = "drawdown_exceeded" -> Reaches(c.drawdown, profile.drawdown)
      [] rule = "cooldown_active" -> CoolingDown(c)
      [] rule = "position_limit_exceeded" -> Reaches(c.open, profile.positions)
      [] OTHER -> rule = fault

(* _evaluate_session: the first rule broken blocks.                        *)
BlockingRule(fault, c) ==
    LET broken == {n \in DOMAIN Rules : Breaks(Rules[n], fault, c)}
    IN  IF broken = {} THEN "none" ELSE Rules[Min(broken)]

(* _collect_blocked_reasons, given the same context: a limit of zero is a  *)
(* limit, and losses of an unknown time cool down.                         *)
BlockedReasons(fault, c) ==
    {rule \in ToSet(Rules) :
        CASE rule = "drawdown_exceeded" -> c.drawdown >= profile.drawdown
          [] rule = "cooldown_active" ->
                /\ c.losses >= LossStreak
                /\ c.last = Unknown \/ clock - c.last < profile.cooldown
          [] rule = "position_limit_exceeded" -> c.open >= MaxOpenMvp
          [] OTHER -> rule = fault}

-----------------------------------------------------------------------------

SampleContext(e) ==
    /\ evaluation[e].stage = "idle"
    /\ \E fault \in Faults \union {"none"} :
          evaluation' = [evaluation EXCEPT ![e].stage = "sampled", ![e].fault = fault,
                                           ![e].context = Snapshot]
    /\ UNCHANGED <<profile, dayVars>>

(* _build_risk_input: the trader samples nothing. *)
GiveZeros(e) ==
    /\ evaluation[e].stage = "idle"
    /\ evaluation' = [evaluation EXCEPT ![e].stage = "sampled"]
    /\ UNCHANGED <<profile, dayVars>>

Evaluate(e) ==
    /\ evaluation[e].stage = "sampled"
    /\ LET c == evaluation[e].context
           rule == BlockingRule(evaluation[e].fault, c)
       IN  evaluation' = [evaluation EXCEPT
               ![e].stage = "decided", ![e].at = clock, ![e].rule = rule,
               ![e].reasons = BlockedReasons(evaluation[e].fault, c)]
    /\ UNCHANGED <<profile, dayVars>>

RiskNext ==
    \/ DayNext /\ UNCHANGED riskVars
    \/ \E e \in Evaluations : SampleContext(e) \/ GiveZeros(e) \/ Evaluate(e)

RiskSpec == RiskInit /\ [][RiskNext]_<<dayVars, riskVars>>

-----------------------------------------------------------------------------

RiskTypeOK ==
    /\ DayTypeOK
    /\ profile \in Profiles
    /\ \A e \in Evaluations :
          /\ evaluation[e].stage \in {"idle", "sampled", "decided"}
          /\ evaluation[e].rule \in ToSet(Rules) \union {"none"}
          /\ evaluation[e].reasons \subseteq ToSet(Rules)

Approved(e) == evaluation[e].stage = "decided" /\ evaluation[e].rule = "none"

(* Nothing that was given a sampled context is approved in a cooldown: not *)
(* while the streak of losses that the context was sampled after had its   *)
(* last loss less than the cooldown ago, whichever request or worker       *)
(* closed the trades that lost, and however long after the sampling the    *)
(* evaluation is.                                                          *)
CooldownHolds ==
    \A e \in Evaluations : Approved(e) /\ evaluation[e].context.at # Unknown =>
        LET known == {t \in ClosedRows :
                        /\ trade[t].gain < 0 /\ trade[t].closed < evaluation[e].context.at
                        /\ trade[t].closed >= evaluation[e].context.at - DayLength}
        IN  Cardinality(known) >= LossStreak =>
                \E t \in known : /\ \A u \in known : trade[u].closed <= trade[t].closed
                                 /\ evaluation[e].at - trade[t].closed >= profile.cooldown

(* What RiskService rejects for a drawdown, a cooldown or the positions    *)
(* that are open, RiskEvaluator rejects as well under the same profile, as *)
(* long as that does not set a limit below the built-in one.               *)
OlderRulesNoLaxer ==
    \A e \in Evaluations :
        /\ evaluation[e].rule \in {"drawdown_exceeded", "cooldown_active",
                                   "position_limit_exceeded"}
        /\ profile.positions = 0 \/ profile.positions >= MaxOpenMvp
        => evaluation[e].rule \in evaluation[e].reasons

(* The rules hold a signal back in a cooldown, older and newer ones alike. *)
RulesHold == CooldownHolds /\ OlderRulesNoLaxer

=============================================================================
