--------------------------- MODULE ModelGovernance ---------------------------
(***************************************************************************)
(* Promotion, rollback and deactivation of model versions: each request is *)
(* a READ COMMITTED transaction that reads the registry and the audit log, *)
(* decides, and writes what it decided when it commits.  Nothing locks the *)
(* registry and no constraint of the database keeps one row active.        *)
(*                                                                         *)
(* SQLAlchemy writes an attribute only when it differs from the value the  *)
(* session loaded, so what a request writes depends on what it saw.        *)
(***************************************************************************)
EXTENDS Integers, FiniteSets

CONSTANTS
    Models,         \* ModelVersion rows
    NoModel,
    Requests,       \* bound: the governance requests of a behaviour
    MaxOverlap      \* bound: how many of them are in progress at once

ASSUME GovernanceAssumption ==
    /\ NoModel \notin Models
    /\ IsFiniteSet(Requests)
    /\ MaxOverlap \in Nat \ {0}

VARIABLES
    active,     \* the rows with is_active, as committed
    log,        \* the promote events of the audit log
    clock,      \* how many transactions have started
    tx          \* what each request has read and where it is

vars == <<active, log, clock, tx>>

Operations == {"promote", "rollback", "deactivate"}

(* created_at is now() of the database: the start of the transaction.      *)
Events == [at : Nat, model : Models, previous : Models \union {NoModel}]

(* target is the model to activate or deactivate, loaded its is_active as  *)
(* loaded, current the active version found.                               *)
Transactions ==
    [at : Nat, stage : {"idle", "begun", "read", "ready", "done"},
     op : Operations \union {"none"}, target : Models \union {NoModel},
     loaded : BOOLEAN, current : Models \union {NoModel}]

Idle == [at |-> 0, stage |-> "idle", op |-> "none", target |-> NoModel,
         loaded |-> FALSE, current |-> NoModel]

Open(r) == tx[r].stage \in {"begun", "read", "ready"}

Init ==
    /\ active = {}
    /\ log = {}
    /\ clock = 0
    /\ tx = [r \in Requests |-> Idle]

-----------------------------------------------------------------------------

(* The oldest promotion of the model instead of the latest. *)
LatestPromotesReversed(m) ==
    {e \in log : e.model = m /\ \A f \in log : f.model = m => e.at <= f.at}

LatestPromotes(m) ==
    {e \in log : e.model = m /\ \A f \in log : f.model = m => f.at <= e.at}

Displaced(m) == {e.previous : e \in LatestPromotes(m)}

(* A rollback needs the version that the promotion displaced. *)
Restorable(m) == Displaced(m) \ {NoModel}

(* The versions a request deactivates: the one active version it found,    *)
(* unless it is the one to activate.                                       *)
ClearsNothing(t) == IF t.op = "deactivate" THEN {t.target} ELSE {}

Clears(t) ==
    IF t.op = "deactivate" THEN IF t.loaded THEN {t.target} ELSE {}
    ELSE {t.current} \ {t.target, NoModel}

Sets(t) == IF t.op = "deactivate" \/ t.loaded THEN {} ELSE {t.target}

End(r) == tx' = [tx EXCEPT ![r] = [Idle EXCEPT !.stage = "done"]]

-----------------------------------------------------------------------------

(* The transaction starts, and a promotion or a deactivation loads its     *)
(* target.                                                                 *)
Begin(r) ==
    /\ tx[r].stage = "idle"
    /\ Cardinality({q \in Requests : Open(q)}) < MaxOverlap
    /\ clock' = clock + 1
    /\ \E op \in Operations, m \in Models :
          tx' = [tx EXCEPT ![r] =
                    [at |-> clock + 1, op |-> op, current |-> NoModel,
                     stage |-> IF op = "deactivate" THEN "ready" ELSE "begun",
                     target |-> IF op = "rollback" THEN NoModel ELSE m,
                     loaded |-> op # "rollback" /\ m \in active]]
    /\ UNCHANGED <<active, log>>

(* .scalars().first() without an order: any active version, if there is    *)
(* one.  A rollback needs one.                                             *)
ReadActive(r) ==
    /\ tx[r].stage = "begun"
    /\ \/ /\ active = {} /\ tx[r].op = "rollback"
          /\ End(r)
       \/ /\ active = {} /\ tx[r].op = "promote"
          /\ tx' = [tx EXCEPT ![r].stage = "ready"]
       \/ \E m \in active :
             tx' = [tx EXCEPT ![r].current = m,
                       ![r].stage = IF tx[r].op = "rollback" THEN "read" ELSE "ready"]
    /\ UNCHANGED <<active, log, clock>>

(* The rollback reads the latest promote event of the version it found and *)
(* loads the version named there.                                          *)
ReadLog(r) ==
    /\ tx[r].stage = "read"
    /\ \/ Restorable(tx[r].current) = {} /\ End(r)
       \/ \E m \in Restorable(tx[r].current) :
             tx' = [tx EXCEPT ![r].target = m, ![r].stage = "ready",
                       ![r].loaded = m \in active \union {tx[r].current}]
    /\ UNCHANGED <<active, log, clock>>

Commit(r) ==
    /\ tx[r].stage = "ready"
    /\ active' = (active \ Clears(tx[r])) \union Sets(tx[r])
    /\ log' = IF tx[r].op # "promote" THEN log
              ELSE log \union {[at |-> tx[r].at, model |-> tx[r].target,
                                previous |-> tx[r].current]}
    /\ End(r)
    /\ UNCHANGED clock

(* An exception, or the death of the process, before the commit.           *)
Abort(r) ==
    /\ Open(r)
    /\ End(r)
    /\ UNCHANGED <<active, log, clock>>

Next == \E r \in Requests : Begin(r) \/ ReadActive(r) \/ ReadLog(r) \/ Commit(r) \/ Abort(r)

Spec == Init /\ [][Next]_vars

-----------------------------------------------------------------------------

(* Every variable keeps its shape. *)
TypeOK ==
    /\ active \subseteq Models
    /\ log \subseteq Events
    /\ clock \in Nat
    /\ tx \in [Requests -> Transactions]

(* At most one model version is active (ModelPromotionService).  Requests  *)
(* one at a time keep it, although a request sees and writes single rows.  *)
SingleActive == \A m, n \in active : m = n

(* Requests one at a time implement ActiveSlot: a rollback undoes exactly  *)
(* the last promotion of the active model, across deactivations, repeated  *)
(* rollbacks and aborted requests.                                         *)
Slot == INSTANCE ActiveSlot WITH
    slot <- IF active = {} THEN NoModel ELSE CHOOSE m \in active : TRUE,
    displaced <- [m \in Models |->
        IF LatestPromotes(m) = {} THEN NoModel
        ELSE (CHOOSE e \in LatestPromotes(m) : TRUE).previous]

ImplementsSlot == Slot!Spec

=============================================================================
