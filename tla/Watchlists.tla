----------------------------- MODULE Watchlists -----------------------------
(***************************************************************************)
(* Two read-only pages over the same rows: the paper items in flight, each *)
(* with a label and a level of attention, and the queue of what needs      *)
(* attention, loaded source by source, in one session that a failing       *)
(* statement leaves unusable.                                              *)
(***************************************************************************)
EXTENDS Integers, Sequences, FiniteSets, FiniteSetsExt

CONSTANTS
    Items,          \* positions, orders and recommendations
    NoteLimit,      \* the newest monitor incidents that are looked at
    OrderWindow     \* the newest orders that are looked at for stale ones

ASSUME WatchAssumption == NoteLimit \in Nat \ {0} /\ OrderWindow \in Nat

VARIABLES
    item,       \* each item's row
    newest,     \* the items in the order they were created, newest first
    decision,   \* the newest risk decision on each item's signal
    notes,      \* severities of the monitor incidents, newest first
    haltActive,     \* a global trading halt is active
    limits      \* risk limits: "none", "some" or "all" of them configured

watchVars == <<item, newest, decision, notes, haltActive, limits>>

(* age: 1 is over half an hour, 2 over six hours, 3 over a day.            *)
NoItem == [kind |-> "none", status |-> "none", age |-> 0, pnl |-> "unknown",
           missing |-> FALSE, score |-> "good"]

WatchInit ==
    /\ item = [i \in Items |-> NoItem]
    /\ newest = <<>>
    /\ decision = [i \in Items |-> "none"]
    /\ notes = <<>>
    /\ haltActive = FALSE
    /\ limits = "none"

-----------------------------------------------------------------------------

SettledStatuses ==
    [position |-> {"open"}, order |-> {"pending", "new", "filled"},
     recommendation |-> {"draft", "reviewed", "approved"}, none |-> {}]

ActiveStatuses ==
    [position |-> {"open"}, order |-> {"pending", "new", "accepted", "filled"},
     recommendation |-> {"draft", "reviewed", "approved"}, none |-> {}]

InFlight == {i \in Items : item[i].status \in ActiveStatuses[item[i].kind]}

MonitorAlert == \E n \in 1..Len(notes) : notes[n] = "warn"

(* Later assignments of the label override earlier ones; risk comes last.  *)
Overridden(labels) ==
    LET given == {n \in DOMAIN labels : labels[n] # "none"}
    IN  IF given = {} THEN "watch_only" ELSE labels[Max(given)]

When(condition, label) == IF condition THEN label ELSE "none"

(* What the row lacks; an unknown P&L is lacking, too.                     *)
Lacks(i) ==
    \/ item[i].missing
    \/ item[i].kind = "position" /\ item[i].pnl = "unknown"

(* Missing context is only said of a position or a recommendation that     *)
(* nothing else is said of.                                                *)
OrMissing(label, i) ==
    IF label = "watch_only" /\ Lacks(i) THEN "missing_context" ELSE label

Rejected(i) == decision[i] = "rejected"

PositionLabelMonitorLast(i) ==
    LET own == OrMissing(Overridden(<<When(item[i].age = 3, "stale_data"),
                                      When(item[i].pnl = "loss", "risk_attention")>>), i)
    IN  Overridden(<<own, When(Rejected(i), "risk_attention"),
                     When(MonitorAlert, "review_required")>>)

PositionLabel(i) ==
    LET own == OrMissing(Overridden(<<When(item[i].age = 3, "stale_data"),
                                      When(item[i].pnl = "loss", "risk_attention")>>), i)
    IN  Overridden(<<own, When(MonitorAlert, "monitor_issue"),
                     When(Rejected(i), "risk_attention")>>)

OrderLabel(i) ==
    Overridden(<<When(item[i].age >= 1, "stale_data"),
                 When(Lacks(i), "missing_context"),
                 When(Rejected(i), "risk_attention")>>)

RecommendationLabel(i) ==
    OrMissing(Overridden(<<When(item[i].age >= 2, "stale_data"),
                           When(item[i].score = "unsure", "review_required"),
                           When(item[i].score = "risky", "risk_attention"),
                           When(Rejected(i), "risk_attention")>>), i)

Label(i) ==
    CASE item[i].kind = "position" -> PositionLabel(i)
      [] item[i].kind = "order" -> OrderLabel(i)
      [] OTHER -> RecommendationLabel(i)

AttentionLevel(i) ==
    CASE Label(i) \in {"risk_attention", "monitor_issue"} -> "high"
      [] Label(i) \in {"review_required", "stale_data", "missing_context"} -> "medium"
      [] Label(i) = "watch_only" /\ ~ Lacks(i) -> "low"
      [] OTHER -> "unknown"

StaleStatuses == {"new", "pending", "submitted", "accepted"}

(* Only the newest orders are looked at, whatever became of them.          *)
StaleOrders ==
    LET orders == {n \in DOMAIN newest : item[newest[n]].kind = "order"}
        seen == {n \in orders : Cardinality({m \in orders : m <= n}) <= OrderWindow}
    IN  {newest[n] : n \in {m \in seen : /\ item[newest[m]].status \in StaleStatuses
                                         /\ item[newest[m]].age >= 2}}

-----------------------------------------------------------------------------

(* The order in which the page loads; the probes need no database.         *)
Sources == <<"alerts", "notifications", "incidents", "health", "orders", "limits",
             "halt", "decisions">>

(* A statement that the database refuses aborts the transaction: every     *)
(* load after it is refused, too.                                          *)
UnavailableFrom(n) == {Sources[m] : m \in n..Len(Sources)} \ {"health"}

(* A source that could not be loaded is listed as a limitation.            *)
ListedFirst(unavailable) ==
    {Sources[n] : n \in {m \in 1..Len(Sources) :
        /\ Sources[m] \in unavailable
        /\ \A k \in 1..m - 1 : Sources[k] \notin unavailable}}

Listed(unavailable) == unavailable

(* What there is to show: <<source, subject, priority>>.                   *)
Attention ==
    {<<"incidents", "monitor", IF notes[n] = "warn" THEN "medium" ELSE "low">> :
        n \in 1..Len(notes)}
    \union {<<"orders", i, "medium">> : i \in StaleOrders}
    \union (IF limits = "none" THEN {<<"limits", "limits", "high">>}
            ELSE IF limits = "some" THEN {<<"limits", "limits", "medium">>} ELSE {})
    \union (IF haltActive THEN {<<"halt", "halt", "high">>} ELSE {})

(* approved is a Boolean here: lower() of TRUE raises, and FALSE is none   *)
(* of the texts that mean a rejection.                                     *)
DecisionsRaise == \E i \in Items : decision[i] = "approved"
DecisionsShown == {}

(* get_cockpit_alerts_needing_attention; failing: the load that the        *)
(* database refuses, one past the last if none.                            *)
Loads == 1..Len(Sources) + 1

AttentionPage(failing) ==
    LET unavailable == UnavailableFrom(failing)
    IN  [raised |-> "decisions" \notin unavailable /\ DecisionsRaise,
         shown |-> {entry \in Attention : entry[1] \notin unavailable} \union DecisionsShown,
         limitations |-> Listed(unavailable)]

-----------------------------------------------------------------------------

Create(i, kind, status) ==
    /\ item[i].kind = "none"
    /\ \E missing \in BOOLEAN :
          item' = [item EXCEPT ![i] = [NoItem EXCEPT !.kind = kind, !.status = status,
                                                     !.missing = missing]]
    /\ newest' = <<i>> \o newest
    /\ UNCHANGED <<decision, notes, haltActive, limits>>

Statuses ==
    [position |-> {"open", "closed"},
     order |-> {"accepted", "filled", "closed", "rejected"},
     recommendation |-> {"draft", "approved", "rejected"}, none |-> {}]

Move(i) ==
    /\ \E status \in Statuses[item[i].kind] \ {item[i].status} :
          item' = [item EXCEPT ![i].status = status]
    /\ UNCHANGED <<newest, decision, notes, haltActive, limits>>

Age(i) ==
    /\ item[i].kind # "none" /\ item[i].age < 3
    /\ item' = [item EXCEPT ![i].age = @ + 1]
    /\ UNCHANGED <<newest, decision, notes, haltActive, limits>>

(* A mark to market; the score of a recommendation is given with it.       *)
Assess(i) ==
    /\ \/ /\ item[i].kind = "position"
          /\ \E pnl \in {"gain", "loss"} : item' = [item EXCEPT ![i].pnl = pnl]
       \/ /\ item[i].kind = "recommendation" /\ item[i].age = 0
          /\ \E score \in {"unsure", "risky"} : item' = [item EXCEPT ![i].score = score]
    /\ UNCHANGED <<newest, decision, notes, haltActive, limits>>

DecideRisk(i) ==
    /\ item[i].kind # "none"
    /\ \E verdict \in {"approved", "rejected"} :
          decision' = [decision EXCEPT ![i] = verdict]
    /\ UNCHANGED <<item, newest, notes, haltActive, limits>>

RecordMonitor ==
    /\ \E severity \in {"info", "warn"} :
          notes' = SubSeq(<<severity>> \o notes, 1,
                          IF Len(notes) < NoteLimit THEN Len(notes) + 1 ELSE NoteLimit)
    /\ UNCHANGED <<item, newest, decision, haltActive, limits>>

SwitchHalt ==
    /\ haltActive' = ~ haltActive
    /\ UNCHANGED <<item, newest, decision, notes, limits>>

ConfigureLimits ==
    /\ limits' \in {"some", "all"}
    /\ UNCHANGED <<item, newest, decision, notes, haltActive>>

WatchNext ==
    \/ \E i \in Items :
          \/ Create(i, "position", "open") \/ Create(i, "order", "accepted")
          \/ Create(i, "recommendation", "draft")
          \/ Move(i) \/ Age(i) \/ Assess(i) \/ DecideRisk(i)
    \/ RecordMonitor \/ SwitchHalt \/ ConfigureLimits

WatchSpec == WatchInit /\ [][WatchNext]_watchVars

-----------------------------------------------------------------------------

WatchTypeOK ==
    /\ \A i \in Items :
          /\ item[i].kind \in {"none", "position", "order", "recommendation"}
          /\ item[i].kind # "none" => item[i].status \in Statuses[item[i].kind]
          /\ item[i].age \in 0..3
          /\ decision[i] \in {"none", "approved", "rejected"}
    /\ newest \in Seq(Items) /\ Len(notes) <= NoteLimit

(* An attention page that answers shows an active halt, or says that it    *)
(* could not read the halts: no load that fails before takes it away       *)
(* silently, and the same holds for every other source but the decisions,  *)
(* whose rejections it never shows.                                        *)
NothingHiddenSilently ==
    \A failing \in Loads :
        LET page == AttentionPage(failing)
        IN  ~ page.raised =>
                \A entry \in Attention : entry \in page.shown \/ entry[1] \in page.limitations

(* An order that the attention page reports as stale is in flight on the   *)
(* other page, which does not call it fit to be watched only.              *)
StaleOnBothPages ==
    \A i \in StaleOrders : i \in InFlight /\ AttentionLevel(i) \in {"medium", "high"}

(* Whatever else is said of an item in flight, a risk decision against its *)
(* signal puts it among those of high attention.                           *)
RejectedIsHigh ==
    \A i \in InFlight : Rejected(i) => AttentionLevel(i) = "high"

(* The two pages show the operator what there is trouble with.             *)
TroubleShown == NothingHiddenSilently /\ StaleOnBothPages /\ RejectedIsHigh

=============================================================================
