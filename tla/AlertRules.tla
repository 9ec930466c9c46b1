----------------------------- MODULE AlertRules -----------------------------
(***************************************************************************)
(* PersistenceAlertService and PersistenceNotificationService.  A rule is  *)
(* not a row: it is what its events in the audit log add up to.  Requests  *)
(* append an acknowledgement or a snooze, stamp it with the time of day,   *)
(* and commit it later, in any order; the rule then alerts, or not, about  *)
(* the paper orders.  A notification is read when an event says so.        *)
(***************************************************************************)
EXTENDS Integers, Sequences

CONSTANTS
    Rules,
    Changes,        \* bound: the acknowledgements and snoozes requested
    Conditions,     \* the conditions: records [equal, status]
    OrderStatuses,
    MaxOrders,      \* bound: the paper orders there are
    ScanLimit       \* the orders that one scan for alerts looks at

ASSUME AlertAssumption ==
    /\ \A c \in Conditions : c.equal \in BOOLEAN /\ c.status \in OrderStatuses
    /\ MaxOrders \in Nat
    /\ ScanLimit \in Nat

VARIABLES
    rules,      \* rule_created events: the condition of each rule, if created
    events,     \* acknowledgements and snoozes in the log
    change,     \* where the request of each change is
    time,       \* the time of day: every stamp, and every new order, moves it on
    orders,     \* the paper orders, in the order they were created
    reads       \* notifications read: <<rule, order, status of the order>>

alertVars == <<rules, events, change, time, orders, reads>>

NotCreated == [created |-> FALSE]

(* until: for a snooze, the time it ends; 0 for an acknowledgement. *)
NoEvent == [kind |-> "none", begun |-> 0, stamp |-> 0, until |-> 0]

AlertInit ==
    /\ rules = [r \in Rules |-> NotCreated]
    /\ events = [r \in Rules |-> {}]
    /\ change = [h \in Changes |-> [stage |-> "idle", event |-> NoEvent]]
    /\ time = 1
    /\ orders = <<>>
    /\ reads = {}

-----------------------------------------------------------------------------

(* By when the transaction of the row began: the order the rows are        *)
(* selected in.                                                            *)
LatestByRow(evs) ==
    IF evs = {} THEN NoEvent
    ELSE CHOOSE e \in evs : \A other \in evs : other.begun <= e.begun

(* The event that list_rules applies last: the one stamped last.           *)
Latest(evs) ==
    IF evs = {} THEN NoEvent
    ELSE CHOOSE e \in evs : \A other \in evs : other.stamp <= e.stamp

(* An acknowledged rule is silent, a snoozed one until its snooze is over. *)
Alerting(r) ==
    LET last == Latest(events[r])
    IN  /\ rules[r].created
        /\ \/ last.kind = "none"
           \/ last.kind = "snooze" /\ last.until <= time

Matches(condition, status) == (status = condition.status) = condition.equal

(* list_active_alerts: the orders are paged oldest first. *)
ActiveAlerts ==
    {alert \in Rules \X (1..Len(orders)) \X OrderStatuses :
        /\ alert[2] <= ScanLimit
        /\ alert[3] = orders[alert[2]]
        /\ Alerting(alert[1]) /\ Matches(rules[alert[1]].condition, alert[3])}

-----------------------------------------------------------------------------

CreateRule(r) ==
    /\ ~ rules[r].created
    /\ \E c \in Conditions :
          rules' = [rules EXCEPT ![r] = [created |-> TRUE, condition |-> c]]
    /\ UNCHANGED <<events, change, time, orders, reads>>

(* Looks the rule up, which begins the transaction. *)
BeginChange(h, r) ==
    /\ change[h].stage = "idle" /\ rules[r].created
    /\ change' = [change EXCEPT ![h] = [stage |-> "begun", rule |-> r,
                                        event |-> [NoEvent EXCEPT !.begun = time]]]
    /\ time' = time + 1
    /\ UNCHANGED <<rules, events, orders, reads>>

(* A snooze ends at once, after one more event, or after two. *)
StampChange(h) ==
    /\ change[h].stage = "begun"
    /\ \E kind \in {"acknowledge", "snooze"}, minutes \in 1..3 :
          /\ kind = "acknowledge" => minutes = 1
          /\ change' = [change EXCEPT
                ![h].stage = "stamped",
                ![h].event.kind = kind, ![h].event.stamp = time,
                ![h].event.until = IF kind = "snooze" THEN time + minutes ELSE 0]
    /\ time' = time + 1
    /\ UNCHANGED <<rules, events, orders, reads>>

CommitChange(h) ==
    /\ change[h].stage = "stamped"
    /\ events' = [events EXCEPT ![change[h].rule] = @ \union {change[h].event}]
    /\ change' = [change EXCEPT ![h].stage = "done"]
    /\ UNCHANGED <<rules, time, orders, reads>>

(* Nothing of it is kept. *)
FailChange(h) ==
    /\ change[h].stage \in {"begun", "stamped"}
    /\ change' = [change EXCEPT ![h].stage = "failed"]
    /\ UNCHANGED <<rules, events, time, orders, reads>>

(* External: an order is created, or moves on. *)
PlaceOrder ==
    /\ Len(orders) < MaxOrders
    /\ \E s \in OrderStatuses : orders' = Append(orders, s)
    /\ time' = time + 1
    /\ UNCHANGED <<rules, events, change, reads>>

MoveOrder(n) ==
    /\ orders' \in {[orders EXCEPT ![n] = s] : s \in OrderStatuses \ {orders[n]}}
    /\ UNCHANGED <<rules, events, change, time, reads>>

(* mark_as_read: a notification exists as long as its alert does. *)
MarkAsRead(alert) ==
    /\ alert \in ActiveAlerts /\ alert \notin reads
    /\ reads' = reads \union {alert}
    /\ UNCHANGED <<rules, events, change, time, orders>>

AlertNext ==
    \/ \E r \in Rules :
          CreateRule(r) \/ \E h \in Changes : BeginChange(h, r)
    \/ \E h \in Changes : StampChange(h) \/ CommitChange(h) \/ FailChange(h)
    \/ PlaceOrder
    \/ \E n \in 1..Len(orders) : MoveOrder(n)
    \/ \E alert \in ActiveAlerts : MarkAsRead(alert)

AlertSpec == AlertInit /\ [][AlertNext]_alertVars

-----------------------------------------------------------------------------

LogEvents == [kind : {"none", "acknowledge", "snooze"}, begun : Nat, stamp : Nat, until : Nat]

AlertTypeOK ==
    /\ \A r \in Rules : rules[r].created => rules[r].condition \in Conditions
    /\ \A r \in Rules : \A e \in events[r] : e \in LogEvents
    /\ \A h \in Changes :
          /\ change[h].stage \in {"idle", "begun", "stamped", "done", "failed"}
          /\ change[h].event \in LogEvents
          /\ change[h].stage # "idle" => change[h].rule \in Rules
    /\ orders \in Seq(OrderStatuses) /\ Len(orders) <= MaxOrders
    /\ reads \subseteq Rules \X (1..MaxOrders) \X OrderStatuses

(* The rule follows the request that was made last, however the commits    *)
(* fell: it never alerts while the change stamped last among those         *)
(* committed is an acknowledgement or a snooze that is not over.           *)
LastChangeRules ==
    \A h \in Changes :
        LET made == change[h].event
            later == {k \in Changes : /\ change[k].stage = "done"
                                      /\ change[k].rule = change[h].rule
                                      /\ change[k].event.stamp > made.stamp}
        IN  /\ change[h].stage = "done" /\ later = {}
            /\ made.until = 0 \/ made.until > time
            => ~ Alerting(change[h].rule)

=============================================================================
