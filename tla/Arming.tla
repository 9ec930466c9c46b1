------------------------------- MODULE Arming -------------------------------
(***************************************************************************)
(* The durable row that says whether auto-paper is armed, and the requests *)
(* that arm and disarm it.  An arm request runs on the event loop and a    *)
(* disarm in a thread: each reads the row to decide, loads it again to     *)
(* write, and commits only the columns that it changed on what it loaded.  *)
(***************************************************************************)
EXTENDS OperatorControls

CONSTANTS
    ArmRequests,
    TicksPerDay,      \* clock ticks in a day
    MaxNow,       \* bound
    SnapshotAge,    \* ticks for which what the operator saw is fresh
    Unset           \* NULL

ASSUME ArmingAssumption ==
    /\ TicksPerDay \in Nat \ {0} /\ MaxNow \in Nat /\ SnapshotAge \in Nat /\ Unset \notin Int

VARIABLES
    now,
    row,        \* trading_control_arming_states: [state, at, until]
    request     \* each request: where it is, what it saw, loaded and answered

armVars == <<now, row, request>>

NoRow == [state |-> "none", at |-> Unset, until |-> Unset]
NoRequestYet == [stage |-> "idle", kind |-> "none", seen |-> Unset, at |-> Unset,
                 loaded |-> NoRow, left |-> "none"]

(* The migration inserts the row.                                          *)
ArmInit ==
    /\ ControlsInit
    /\ now = 0
    /\ row = [state |-> "disarmed", at |-> Unset, until |-> Unset]
    /\ request = [r \in ArmRequests |-> NoRequestYet]

-----------------------------------------------------------------------------

(* The columns that the constraints of the table require together.         *)
StateConstraint(r) == r.state \in {"armed", "disarmed"}

RowConstraints(r) ==
    /\ r.state = "armed" => r.at # Unset /\ r.until # Unset
    /\ r.state = "disarmed" => r.until = Unset

(* get_effective_state *)
EffectiveThroughExpiry ==
    IF row.state # "armed" \/ row.at = Unset \/ row.until = Unset THEN "disarmed"
    ELSE IF row.until < now THEN "disarmed" ELSE "armed"

EffectiveState ==
    IF row.state # "armed" \/ row.at = Unset \/ row.until = Unset THEN "disarmed"
    ELSE IF row.until <= now THEN "disarmed" ELSE "armed"

(* get_readback_posture, of the one row there is *)
ReadbackStatus ==
    CASE row.state = "armed" /\ (row.at = Unset \/ row.until = Unset) -> "invalid"
      [] row.state = "armed" /\ row.at # Unset /\ row.until # Unset ->
            IF row.until <= now THEN "expired" ELSE "armed"
      [] OTHER -> "disarmed"

(* _get_auto_paper_arming_expiry: the midnight that ends the day of t.     *)
DayOf(t) == t \div TicksPerDay
SameTimeTomorrow(t) == t + TicksPerDay
Expiry(t) == TicksPerDay * (DayOf(t) + 1)

(* An UPDATE of the columns whose value is not the one that was loaded.    *)
Updated(loaded, wanted) ==
    [column \in DOMAIN row |->
        IF wanted[column] = loaded[column] THEN row[column] ELSE wanted[column]]

Fresh(seen, at) == seen # Unset /\ at - seen <= SnapshotAge

-----------------------------------------------------------------------------

Others == <<now, controlVars, row>>

(* The operator reads the enablement page; what is not ready arms nothing. *)
ReadEnablement(r) ==
    /\ request[r].stage = "idle" /\ EnablementStatus = "ready"
    /\ request' = [request EXCEPT ![r].stage = "looked", ![r].seen = now]
    /\ UNCHANGED Others

(* arm_auto_paper: the time of the request is taken before it awaits the   *)
(* health of the broker.                                                   *)
StartArm(r) ==
    /\ request[r].stage = "looked"
    /\ request' = [request EXCEPT ![r].stage = "awaiting", ![r].kind = "arm", ![r].at = now]
    /\ UNCHANGED Others

(* _build_auto_paper_arming_failure_reasons finds none. *)
Acceptable(r) ==
    /\ EnablementStatus = "ready" /\ EffectiveState = "disarmed"
    /\ Fresh(request[r].seen, request[r].at)

(* arm_auto_paper, after its await: any reason rejects. *)
CheckArm(r) ==
    /\ request[r].stage = "awaiting"
    /\ request' = [request EXCEPT ![r].stage = IF Acceptable(r) THEN "accepted" ELSE "rejected"]
    /\ UNCHANGED Others

(* disarm_auto_paper: an armed row that has expired may be disarmed, too.  *)
StartDisarm(r) ==
    /\ request[r].stage = "idle"
    /\ request' = [request EXCEPT
           ![r].stage = IF ReadbackStatus \in {"armed", "expired"} THEN "accepted"
                        ELSE "rejected",
           ![r].kind = "disarm", ![r].at = now]
    /\ UNCHANGED Others

(* _get_or_create_row_for_write *)
LoadRow(r) ==
    /\ request[r].stage = "accepted"
    /\ request' = [request EXCEPT ![r].stage = "loaded", ![r].loaded = row]
    /\ UNCHANGED Others

(* What arm_state and disarm_state set; armed_at outlives the disarming.   *)
Wanted(r) ==
    IF request[r].kind = "arm"
    THEN [state |-> "armed", at |-> request[r].at, until |-> Expiry(request[r].at)]
    ELSE [request[r].loaded EXCEPT !.state = "disarmed", !.until = Unset]

(* A commit that the constraints refuse is answered as a rejection. *)
CommitRow(r) ==
    /\ request[r].stage = "loaded"
    /\ LET new == Updated(request[r].loaded, Wanted(r))
       IN  IF RowConstraints(new)
           THEN /\ row' = new
                /\ request' = [request EXCEPT ![r].stage = "answered", ![r].left = new.state]
           ELSE /\ request' = [request EXCEPT ![r].stage = "rejected"]
                /\ UNCHANGED row
    /\ UNCHANGED <<now, controlVars>>

ClockTicks ==
    /\ now < MaxNow
    /\ now' = now + 1
    /\ UNCHANGED <<controlVars, row, request>>

ArmNext ==
    \/ \E r \in ArmRequests :
          \/ ReadEnablement(r) \/ StartArm(r) \/ CheckArm(r)
          \/ StartDisarm(r) \/ LoadRow(r) \/ CommitRow(r)
    \/ ClockTicks
    \/ ControlsNext /\ UNCHANGED armVars

ArmSpec == ArmInit /\ [][ArmNext]_<<controlVars, armVars>>

-----------------------------------------------------------------------------

ArmTypeOK ==
    /\ ControlsTypeOK
    /\ now \in 0..MaxNow
    /\ row.state \in {"armed", "disarmed"} /\ RowConstraints(row)
    /\ \A r \in ArmRequests :
          /\ request[r].stage \in {"idle", "looked", "awaiting", "accepted", "loaded",
                                   "answered", "rejected"}
          /\ request[r].kind \in {"none", "arm", "disarm"}
          /\ request[r].stage \in {"loaded", "answered"} => RowConstraints(request[r].loaded)

(* A request that answers says what it left behind, however many arm and   *)
(* disarm requests overlap: after "disarmed" the row is disarmed, unless   *)
(* the request loaded it disarmed already, and after "armed" it is armed,  *)
(* unless the request loaded it armed for the same day already; either may *)
(* have been undone since, and nothing is written then.  It rests on the   *)
(* constraints of the table, which refuse the columns of an arm request on *)
(* a row that a disarm has meanwhile changed.                              *)
AnswersTrue ==
    \A r \in ArmRequests : request[r].stage = "answered" =>
        \/ /\ request[r].kind = "disarm"
           /\ request[r].left = "disarmed" \/ request[r].loaded.state = "disarmed"
        \/ /\ request[r].kind = "arm"
           /\ request[r].left = "armed" \/ request[r].loaded.until = Expiry(request[r].at)

(* Auto-paper is armed only on a day on which a request has armed it, for  *)
(* findings that were ready in the sight of its operator that same day or  *)
(* within the age of a snapshot: no mixture of the columns of overlapping  *)
(* requests, and no slow commit, carries an arming over midnight.          *)
ArmedForItsDay ==
    EffectiveState = "armed" =>
        \E r \in ArmRequests :
            /\ request[r].kind = "arm" /\ request[r].stage = "answered"
            /\ DayOf(request[r].at) = DayOf(now)
            /\ request[r].at - request[r].seen <= SnapshotAge

(* The page, the arm request and the disarm request judge one row alike,   *)
(* the instant of its expiry included.                                     *)
ReadbackAgrees ==
    /\ (ReadbackStatus = "armed") = (EffectiveState = "armed")
    /\ ReadbackStatus # "invalid"

(* Where auto-paper shows as armed it is, and was armed for the day.       *)
ArmedTruly == ArmedForItsDay /\ ReadbackAgrees

=============================================================================
