------------------------ MODULE ModelGovernanceProofs ------------------------
(***************************************************************************)
(* Requests one at a time keep at most one model version active, for any   *)
(* registry and any number of requests, and a rollback restores what the   *)
(* active version displaced.                                               *)
(***************************************************************************)
EXTENDS ModelGovernance, FiniteSetTheorems, TLAPS

(* A request alone in progress has read the registry as it still is.       *)
Fresh(r) ==
    /\ tx[r].stage = "begun" =>
          /\ tx[r].op \in {"promote", "rollback"}
          /\ tx[r].op = "promote" =>
                tx[r].target \in Models /\ tx[r].loaded = (tx[r].target \in active)
    /\ tx[r].stage = "read" =>
          tx[r].op = "rollback" /\ tx[r].current \in active
    /\ tx[r].stage = "ready" =>
          /\ tx[r].target \in Models
          /\ tx[r].loaded = (tx[r].target \in active)
          /\ tx[r].op # "deactivate" => active \subseteq {tx[r].current}

OneOpen == \A p, q \in Requests : Open(p) /\ Open(q) => p = q

Serial == TypeOK /\ OneOpen /\ SingleActive /\ \A r \in Requests : Fresh(r)

LEMMA NoneOpen ==
  ASSUME MaxOverlap = 1, Cardinality({q \in Requests : Open(q)}) < MaxOverlap
  PROVE  \A q \in Requests : ~Open(q)
<1> DEFINE open == {q \in Requests : Open(q)}
<1>1. IsFiniteSet(open)
  BY GovernanceAssumption, FS_Subset
<1>2. Cardinality(open) = 0
  BY <1>1, FS_CardinalityType
<1>3. open = {}
  BY <1>1, <1>2, FS_EmptySet
<1> QED
  BY <1>3

LEMMA EndStage ==
  ASSUME TypeOK, NEW r \in Requests, End(r)
  PROVE  /\ tx' \in [Requests -> Transactions]
         /\ ~Open(r)'
         /\ \A q \in Requests \ {r} : tx'[q] = tx[q]
<1>1. [Idle EXCEPT !.stage = "done"] \in Transactions
  BY DEF Idle, Transactions
<1> QED
  BY <1>1 DEF TypeOK, End, Open, Idle

(* Ending a request that left the registry alone keeps the invariant.      *)
LEMMA EndSerial ==
  ASSUME Serial, NEW r \in Requests, End(r), UNCHANGED <<active, log, clock>>
  PROVE  Serial'
<1>1. TypeOK'
  BY EndStage DEF Serial, TypeOK
<1>2. OneOpen' /\ SingleActive'
  BY EndStage DEF Serial, OneOpen, SingleActive, Open
<1>3. \A q \in Requests : Fresh(q)'
  BY EndStage DEF Serial, Fresh, Open
<1> QED
  BY <1>1, <1>2, <1>3 DEF Serial

(* What the one open request does to itself decides the invariant.         *)
LEMMA StepSerial ==
  ASSUME Serial, NEW r \in Requests, Open(r), NEW t \in Transactions,
         tx' = [tx EXCEPT ![r] = t], UNCHANGED <<active, log, clock>>, Fresh(r)'
  PROVE  Serial'
<1>1. tx' \in [Requests -> Transactions]
  BY DEF Serial, TypeOK
<1>2. \A q \in Requests \ {r} : tx'[q] = tx[q] /\ ~Open(q)
  BY DEF Serial, OneOpen, TypeOK
<1>3. OneOpen'
  BY <1>2 DEF OneOpen, Open
<1>4. \A q \in Requests \ {r} : Fresh(q)'
  BY <1>2 DEF Fresh, Open
<1> QED
  BY <1>1, <1>3, <1>4 DEF Serial, TypeOK, SingleActive

LEMMA BeginSerial ==
  ASSUME MaxOverlap = 1, Serial, NEW r \in Requests, Begin(r)
  PROVE  Serial'
<1>1. \A q \in Requests : ~Open(q)
  BY NoneOpen DEF Begin
<1>2. PICK op \in Operations, m \in Models :
         tx' = [tx EXCEPT ![r] =
                  [at |-> clock + 1, op |-> op, current |-> NoModel,
                   stage |-> IF op = "deactivate" THEN "ready" ELSE "begun",
                   target |-> IF op = "rollback" THEN NoModel ELSE m,
                   loaded |-> op # "rollback" /\ m \in active]]
  BY Zenon DEF Begin
<1>3. clock \in Nat /\ clock' = clock + 1 /\ UNCHANGED <<active, log>>
  BY DEF Begin, Serial, TypeOK
<1>4. \A q \in Requests \ {r} : tx'[q] = tx[q] /\ tx'[q] \in Transactions
  BY <1>2 DEF Serial, TypeOK
<1>5. /\ tx'[r].at = clock + 1 /\ tx'[r].op = op /\ tx'[r].current = NoModel
      /\ tx'[r].stage = IF op = "deactivate" THEN "ready" ELSE "begun"
      /\ tx'[r].target = IF op = "rollback" THEN NoModel ELSE m
      /\ tx'[r].loaded = (op # "rollback" /\ m \in active)
  BY <1>2 DEF Serial, TypeOK
<1>6. tx'[r] \in Transactions
  BY <1>2, <1>3 DEF Transactions, Operations, Serial, TypeOK
<1>7. tx' \in [Requests -> Transactions]
  BY <1>2, <1>4, <1>6 DEF Serial, TypeOK
<1>8. OneOpen'
  BY <1>1, <1>4 DEF OneOpen, Open
<1>9. \A q \in Requests : Fresh(q)'
  BY <1>1, <1>3, <1>4, <1>5 DEF Fresh, Open, Operations
<1> QED
  BY <1>3, <1>7, <1>8, <1>9 DEF Serial, TypeOK, SingleActive

LEMMA ReadActiveSerial ==
  ASSUME Serial, NEW r \in Requests, ReadActive(r)
  PROVE  Serial'
<1>1. tx[r] \in Transactions /\ Open(r) /\ Fresh(r) /\ tx[r].stage = "begun"
  BY DEF ReadActive, Serial, TypeOK, Open
<1>2. CASE End(r)
  BY <1>2, EndSerial DEF ReadActive
<1>3. CASE /\ active = {} /\ tx[r].op = "promote"
           /\ tx' = [tx EXCEPT ![r].stage = "ready"]
  <2> DEFINE t == [tx[r] EXCEPT !.stage = "ready"]
  <2>1. t \in Transactions
    BY <1>1 DEF Transactions
  <2>2. tx' = [tx EXCEPT ![r] = t]
    BY <1>3
  <2>3. Fresh(r)'
    BY <1>1, <1>3 DEF Fresh, ReadActive, Serial, TypeOK, Transactions
  <2> QED
    BY <1>1, <2>1, <2>2, <2>3, StepSerial DEF ReadActive
<1>4. ASSUME NEW m \in active,
             tx' = [tx EXCEPT ![r].current = m,
                       ![r].stage = IF tx[r].op = "rollback" THEN "read" ELSE "ready"]
      PROVE  Serial'
  <2> DEFINE t == [tx[r] EXCEPT !.current = m,
                     !.stage = IF tx[r].op = "rollback" THEN "read" ELSE "ready"]
  <2>1. m \in Models /\ active \subseteq {m}
    BY DEF Serial, TypeOK, SingleActive
  <2>2. t \in Transactions
    BY <1>1, <2>1 DEF Transactions
  <2>3. tx' = [tx EXCEPT ![r] = t]
    BY <1>4
  <2>4. tx'[r] = t
    BY <2>3 DEF Serial, TypeOK
  <2>5. Fresh(r)'
    BY <1>1, <2>1, <2>4 DEF Fresh, ReadActive, Transactions
  <2> QED
    BY <1>1, <2>2, <2>3, <2>5, StepSerial DEF ReadActive
<1> QED
  BY <1>2, <1>3, <1>4 DEF ReadActive

LEMMA ReadLogSerial ==
  ASSUME Serial, NEW r \in Requests, ReadLog(r)
  PROVE  Serial'
<1>1. /\ tx[r] \in Transactions /\ Open(r) /\ Fresh(r)
      /\ tx[r].stage = "read" /\ tx[r].current \in active
  BY DEF ReadLog, Serial, TypeOK, Open, Fresh
<1>2. CASE End(r)
  BY <1>2, EndSerial DEF ReadLog
<1>3. ASSUME NEW m \in Restorable(tx[r].current),
             tx' = [tx EXCEPT ![r].target = m, ![r].stage = "ready",
                       ![r].loaded = m \in active \union {tx[r].current}]
      PROVE  Serial'
  <2> DEFINE t == [tx[r] EXCEPT !.target = m, !.stage = "ready",
                     !.loaded = m \in active \union {tx[r].current}]
  <2>1. m \in Models
    BY <1>3 DEF Restorable, Displaced, LatestPromotes, Serial, TypeOK, Events
  <2>2. active \union {tx[r].current} = active /\ active \subseteq {tx[r].current}
    BY <1>1 DEF Serial, SingleActive
  <2>3. t \in Transactions
    <3> DEFINE seen == m \in active \union {tx[r].current}
    <3>1. seen \in BOOLEAN
      OBVIOUS
    <3> HIDE DEF seen
    <3>2. [tx[r] EXCEPT !.target = m, !.stage = "ready", !.loaded = seen]
             \in Transactions
      BY <1>1, <2>1, <3>1 DEF Transactions
    <3> QED
      BY <3>2 DEF seen
  <2>4. tx' = [tx EXCEPT ![r] = t]
    BY <1>3
  <2>5. tx'[r] = t
    BY <2>4 DEF Serial, TypeOK
  <2>6. Fresh(r)'
    BY <1>1, <2>1, <2>2, <2>5 DEF Fresh, ReadLog, Transactions
  <2> QED
    BY <1>1, <2>3, <2>4, <2>6, StepSerial DEF ReadLog
<1> QED
  BY <1>2, <1>3 DEF ReadLog

LEMMA CommitSerial ==
  ASSUME Serial, NEW r \in Requests, Commit(r)
  PROVE  Serial'
<1>1. /\ tx[r] \in Transactions /\ Open(r) /\ Fresh(r) /\ tx[r].stage = "ready"
  BY DEF Commit, Serial, TypeOK, Open
<1>2. /\ tx[r].target \in Models /\ tx[r].loaded = (tx[r].target \in active)
      /\ tx[r].op # "deactivate" => active \subseteq {tx[r].current}
  BY <1>1 DEF Fresh
<1>3. active' = (active \ Clears(tx[r])) \union Sets(tx[r])
  BY DEF Commit
<1>4. active' \subseteq Models
  BY <1>2, <1>3 DEF Serial, TypeOK, Sets
<1>5. SingleActive'
  <2>1. CASE tx[r].op = "deactivate"
    BY <1>3, <2>1 DEF Serial, SingleActive, Sets
  <2>2. CASE tx[r].op # "deactivate"
    <3>1. active \subseteq {tx[r].current} /\ active \subseteq Models
      BY <1>2, <2>2 DEF Serial, TypeOK
    <3>2. active \ Clears(tx[r]) \subseteq {tx[r].target}
      BY <2>2, <3>1, GovernanceAssumption DEF Clears
    <3> QED
      BY <1>3, <3>2 DEF Sets, SingleActive
  <2> QED
    BY <2>1, <2>2
<1>6. log' \subseteq Events
  BY <1>1, <1>2 DEF Commit, Serial, TypeOK, Events, Transactions
<1>7. \A q \in Requests \ {r} : tx'[q] = tx[q] /\ ~Open(q)
  BY <1>1, EndStage DEF Commit, Serial, OneOpen
<1>8. tx' \in [Requests -> Transactions] /\ ~Open(r)' /\ clock' = clock
  BY EndStage DEF Commit, Serial
<1>9. OneOpen' /\ \A q \in Requests : Fresh(q)'
  BY <1>7, <1>8 DEF OneOpen, Open, Fresh
<1> QED
  BY <1>4, <1>5, <1>6, <1>8, <1>9 DEF Serial, TypeOK

LEMMA InitSerial == Init => Serial
BY DEF Init, Serial, TypeOK, OneOpen, SingleActive, Fresh, Open, Idle,
       Transactions, Operations, Events

LEMMA NextSerial == MaxOverlap = 1 /\ Serial /\ [Next]_vars => Serial'
<1> SUFFICES ASSUME MaxOverlap = 1, Serial, [Next]_vars PROVE Serial'
  OBVIOUS
<1>1. ASSUME NEW r \in Requests, Begin(r) PROVE Serial'
  BY <1>1, BeginSerial
<1>2. ASSUME NEW r \in Requests, ReadActive(r) PROVE Serial'
  BY <1>2, ReadActiveSerial
<1>3. ASSUME NEW r \in Requests, ReadLog(r) PROVE Serial'
  BY <1>3, ReadLogSerial
<1>4. ASSUME NEW r \in Requests, Commit(r) PROVE Serial'
  BY <1>4, CommitSerial
<1>5. ASSUME NEW r \in Requests, Abort(r) PROVE Serial'
  BY <1>5, EndSerial DEF Abort
<1>6. CASE UNCHANGED vars
  BY <1>6 DEF vars, Serial, TypeOK, OneOpen, SingleActive, Fresh, Open
<1> QED
  BY <1>1, <1>2, <1>3, <1>4, <1>5, <1>6 DEF Next

(* Requests one at a time keep at most one version active, although each   *)
(* clears a single row and writes only what it saw to be different.        *)
THEOREM SerialRequestsKeepOneActive ==
  ASSUME MaxOverlap = 1
  PROVE  Spec => []SingleActive
<1>1. Serial /\ [Next]_vars => Serial'
  BY NextSerial
<1>2. Serial => SingleActive
  BY DEF Serial
<1> QED
  BY <1>1, <1>2, InitSerial, PTL DEF Spec

-----------------------------------------------------------------------------
(* The slot that the registry and the audit log stand for.  A promotion is *)
(* later than every promotion in the log (Dated), so it becomes the latest *)
(* of its model, and the version it displaces is the one it saw (Decided). *)

SlotOf == IF active = {} THEN NoModel ELSE CHOOSE m \in active : TRUE

LastDisplaced(m) ==
    IF LatestPromotes(m) = {} THEN NoModel
    ELSE (CHOOSE e \in LatestPromotes(m) : TRUE).previous

DisplacedOf == [m \in Models |-> LastDisplaced(m)]

Dated ==
    /\ \A e \in log : e.at <= clock
    /\ \A e, f \in log : e.at = f.at => e = f
    /\ \A r \in Requests : Open(r) => tx[r].at <= clock /\ \A e \in log : e.at < tx[r].at

Decided(r) ==
    /\ Open(r) => tx[r].op \in Operations
    /\ tx[r].stage = "begun" => tx[r].current = NoModel
    /\ tx[r].stage = "ready" /\ tx[r].op = "promote" => tx[r].current = SlotOf
    /\ tx[r].stage = "ready" /\ tx[r].op = "rollback" =>
          tx[r].current \in active /\ tx[r].target \in Restorable(tx[r].current)

SlotInv == Serial /\ Dated /\ \A r \in Requests : Decided(r)

SlotStep == SlotInv' /\ [Slot!Next]_(<<SlotOf, DisplacedOf>>)

LEMMA SlotOfActive ==
  ASSUME SingleActive, NEW m \in active
  PROVE  SlotOf = m /\ active = {m}
<1>1. (CHOOSE n \in active : TRUE) \in active
  OBVIOUS
<1> QED
  BY <1>1 DEF SlotOf, SingleActive

LEMMA LatestIsOne ==
  ASSUME Dated, TypeOK, NEW m, NEW e \in LatestPromotes(m)
  PROVE  LatestPromotes(m) = {e} /\ LastDisplaced(m) = e.previous
<1>1. \A f \in LatestPromotes(m) : f = e
  <2> SUFFICES ASSUME NEW f \in LatestPromotes(m) PROVE f = e
    OBVIOUS
  <2>1. /\ e \in log /\ f \in log /\ e.at \in Nat /\ f.at \in Nat
        /\ e.at <= f.at /\ f.at <= e.at
    BY DEF LatestPromotes, TypeOK, Events
  <2>2. e.at = f.at
    BY <2>1
  <2> QED
    BY <2>1, <2>2 DEF Dated
<1>2. LatestPromotes(m) = {e}
  BY <1>1
<1> QED
  BY <1>2 DEF LastDisplaced

(* Steps that leave the registry and the log alone change no slot.         *)
LEMMA SameSlot ==
  ASSUME UNCHANGED <<active, log>>
  PROVE  /\ SlotOf' = SlotOf /\ DisplacedOf' = DisplacedOf
         /\ \A m : LatestPromotes(m)' = LatestPromotes(m)
         /\ \A m : Restorable(m)' = Restorable(m)
BY DEF SlotOf, DisplacedOf, LastDisplaced, LatestPromotes, Restorable, Displaced

LEMMA SlotQuiet ==
  ASSUME SlotInv, Serial', NEW r \in Requests, Open(r),
         \A q \in Requests \ {r} : tx'[q] = tx[q],
         Open(r)' => tx'[r].at = tx[r].at,
         Decided(r)',
         UNCHANGED <<active, log, clock>>
  PROVE  SlotStep
<1>1. \A q \in Requests \ {r} : Decided(q)'
  <2> SUFFICES ASSUME NEW q \in Requests \ {r} PROVE Decided(q)'
    OBVIOUS
  <2>1. tx'[q] = tx[q] /\ ~Open(q)
    BY DEF SlotInv, Serial, OneOpen
  <2> QED
    BY <2>1 DEF Decided, Open
<1>2. Dated'
  BY DEF SlotInv, Dated, Open
<1> QED
  BY <1>1, <1>2, SameSlot DEF SlotInv, SlotStep

LEMMA SlotEnd ==
  ASSUME SlotInv, Serial', NEW r \in Requests, Open(r), End(r), UNCHANGED <<active, log, clock>>
  PROVE  SlotStep
<1>1. \A q \in Requests \ {r} : tx'[q] = tx[q]
  BY EndStage DEF SlotInv, Serial
<1>2. ~Open(r)'
  BY EndStage DEF SlotInv, Serial
<1>3. Decided(r)'
  BY <1>2 DEF Decided, Open
<1> QED
  BY <1>1, <1>2, <1>3, SlotQuiet

LEMMA SlotBegin ==
  ASSUME MaxOverlap = 1, SlotInv, Serial', NEW r \in Requests, Begin(r)
  PROVE  SlotStep
<1>1. \A q \in Requests : ~Open(q)
  BY NoneOpen DEF Begin
<1>2. PICK op \in Operations, m \in Models :
         tx' = [tx EXCEPT ![r] =
                  [at |-> clock + 1, op |-> op, current |-> NoModel,
                   stage |-> IF op = "deactivate" THEN "ready" ELSE "begun",
                   target |-> IF op = "rollback" THEN NoModel ELSE m,
                   loaded |-> op # "rollback" /\ m \in active]]
  BY Zenon DEF Begin
<1>3. clock \in Nat /\ clock' = clock + 1 /\ UNCHANGED <<active, log>>
  BY DEF Begin, SlotInv, Serial, TypeOK
<1>4. \A q \in Requests \ {r} : tx'[q] = tx[q]
  BY <1>2 DEF SlotInv, Serial, TypeOK
<1>5. /\ tx'[r].at = clock + 1 /\ tx'[r].op = op /\ tx'[r].current = NoModel
      /\ tx'[r].stage = IF op = "deactivate" THEN "ready" ELSE "begun"
  BY <1>2 DEF SlotInv, Serial, TypeOK
<1>6. \A q \in Requests : Open(q)' => q = r
  BY <1>1, <1>4 DEF Open
<1>7. \A e \in log : e.at \in Nat /\ e.at <= clock
  BY DEF SlotInv, Dated, Serial, TypeOK, Events
<1>8. Dated'
  <2>1. \A e \in log' : e.at <= clock' /\ e.at < clock + 1
    BY <1>3, <1>7
  <2>2. \A e, f \in log' : e.at = f.at => e = f
    BY <1>3 DEF SlotInv, Dated
  <2>3. tx'[r].at <= clock'
    BY <1>3, <1>5
  <2> QED
    BY <1>5, <1>6, <2>1, <2>2, <2>3 DEF Dated
<1>9. \A q \in Requests : Decided(q)'
  <2>1. Decided(r)'
    BY <1>5 DEF Decided, Operations
  <2>2. \A q \in Requests \ {r} : Decided(q)'
    BY <1>6 DEF Decided, Open
  <2> QED
    BY <2>1, <2>2
<1> QED
  BY <1>3, <1>8, <1>9, SameSlot DEF SlotInv, SlotStep

LEMMA SlotReadActive ==
  ASSUME SlotInv, Serial', NEW r \in Requests, ReadActive(r)
  PROVE  SlotStep
<1>1. /\ tx[r] \in Transactions /\ Open(r) /\ Decided(r) /\ tx[r].stage = "begun"
      /\ UNCHANGED <<active, log, clock>>
  BY DEF ReadActive, SlotInv, Serial, TypeOK, Open
<1>2. CASE End(r)
  BY <1>1, <1>2, SlotEnd
<1>3. CASE /\ active = {} /\ tx[r].op = "promote"
           /\ tx' = [tx EXCEPT ![r].stage = "ready"]
  <2>1. /\ \A q \in Requests \ {r} : tx'[q] = tx[q]
        /\ tx'[r].at = tx[r].at /\ tx'[r].op = tx[r].op /\ tx'[r].stage = "ready"
        /\ tx'[r].current = tx[r].current
    BY <1>1, <1>3 DEF SlotInv, Serial, TypeOK, Transactions
  <2>2. tx[r].current = NoModel /\ SlotOf' = NoModel
    BY <1>1, <1>3 DEF Decided, SlotOf
  <2>3. Decided(r)'
    BY <1>3, <2>1, <2>2 DEF Decided, Operations
  <2> QED
    BY <1>1, <2>1, <2>3, SlotQuiet
<1>4. ASSUME NEW m \in active,
             tx' = [tx EXCEPT ![r].current = m,
                       ![r].stage = IF tx[r].op = "rollback" THEN "read" ELSE "ready"]
      PROVE  SlotStep
  <2>1. /\ \A q \in Requests \ {r} : tx'[q] = tx[q]
        /\ tx'[r].at = tx[r].at /\ tx'[r].op = tx[r].op
        /\ tx'[r].stage = IF tx[r].op = "rollback" THEN "read" ELSE "ready"
        /\ tx'[r].current = m
    BY <1>1, <1>4 DEF SlotInv, Serial, TypeOK, Transactions
  <2>2. SlotOf' = m
    BY <1>1, SlotOfActive, SameSlot DEF SlotInv, Serial
  <2>3. Decided(r)'
    BY <1>1, <2>1, <2>2 DEF Decided
  <2> QED
    BY <1>1, <2>1, <2>3, SlotQuiet
<1> QED
  BY <1>2, <1>3, <1>4 DEF ReadActive

LEMMA SlotReadLog ==
  ASSUME SlotInv, Serial', NEW r \in Requests, ReadLog(r)
  PROVE  SlotStep
<1>1. /\ tx[r] \in Transactions /\ Open(r) /\ Decided(r) /\ tx[r].stage = "read"
      /\ tx[r].op = "rollback" /\ tx[r].current \in active
      /\ UNCHANGED <<active, log, clock>>
  BY DEF ReadLog, SlotInv, Serial, TypeOK, Open, Fresh
<1>2. CASE End(r)
  BY <1>1, <1>2, SlotEnd
<1>3. ASSUME NEW m \in Restorable(tx[r].current),
             tx' = [tx EXCEPT ![r].target = m, ![r].stage = "ready",
                       ![r].loaded = m \in active \union {tx[r].current}]
      PROVE  SlotStep
  <2> DEFINE seen == m \in active \union {tx[r].current}
  <2>0. tx' = [tx EXCEPT ![r].target = m, ![r].stage = "ready", ![r].loaded = seen]
    BY <1>3
  <2> HIDE DEF seen
  <2>1. /\ \A q \in Requests \ {r} : tx'[q] = tx[q]
        /\ tx'[r].at = tx[r].at /\ tx'[r].op = tx[r].op /\ tx'[r].stage = "ready"
        /\ tx'[r].current = tx[r].current /\ tx'[r].target = m
    BY <1>1, <2>0 DEF SlotInv, Serial, TypeOK, Transactions
  <2>2. Restorable(tx[r].current)' = Restorable(tx[r].current)
    BY <1>1, <2>1 DEF Restorable, Displaced, LatestPromotes
  <2>3. Decided(r)'
    BY <1>1, <1>3, <2>1, <2>2 DEF Decided, Operations
  <2> QED
    BY <1>1, <2>1, <2>3, SlotQuiet
<1> QED
  BY <1>2, <1>3 DEF ReadLog

-----------------------------------------------------------------------------
(* The commits: a promotion displaces what the slot holds.                 *)

LEMMA CommitPromote ==
  ASSUME SlotInv, Serial', NEW r \in Requests, Commit(r), tx[r].op = "promote",
         NEW target, target = tx[r].target
  PROVE  Slot!Promote(target) /\ Dated'
<1> DEFINE t == tx[r]
           new == [at |-> t.at, model |-> target, previous |-> t.current]
<1>1. /\ t \in Transactions /\ Open(r) /\ t.stage = "ready"
      /\ log' = log \union {new} /\ clock' = clock
      /\ active' = (active \ Clears(t)) \union Sets(t)
  BY DEF Commit, SlotInv, Serial, TypeOK, Open
<1>2. /\ target \in Models /\ t.loaded = (target \in active)
      /\ active \subseteq {t.current} /\ t.current = SlotOf
  BY <1>1 DEF SlotInv, Serial, Fresh, Decided
<1>3. t.at \in Nat /\ t.at <= clock /\ \A e \in log : e.at \in Nat /\ e.at < t.at
  BY <1>1 DEF SlotInv, Dated, Serial, TypeOK, Events, Transactions
<1>4. active' = {target}
  <2>1. active \ Clears(t) \subseteq {target}
    <3>1. NoModel \notin active
      BY GovernanceAssumption DEF SlotInv, Serial, TypeOK
    <3> QED
      BY <1>2, <3>1 DEF Clears
  <2>2. target \in active => target \in active \ Clears(t)
    BY <1>2 DEF Clears
  <2>3. target \notin active => target \in Sets(t)
    BY <1>2 DEF Sets
  <2>4. Sets(t) \subseteq {target}
    BY DEF Sets
  <2> QED
    BY <1>1, <2>1, <2>2, <2>3, <2>4
<1>5. SlotOf' = target
  <2>1. target \in active' /\ \A m \in active' : m = target
    BY <1>4
  <2> QED
    BY <2>1 DEF SlotOf
<1>6. LatestPromotes(target)' = {new}
  <2>1. \A e \in log' : e = new \/ e \in log
    BY <1>1
  <2>2. \A e \in log' : e.at <= new.at
    BY <1>3, <2>1
  <2>3. \A e \in log' \ {new} : ~(new.at <= e.at)
    BY <1>3, <2>1
  <2>4. new \in log' /\ new.model = target
    BY <1>1
  <2>5. LatestPromotes(target)' =
           {e \in log' : e.model = target /\ \A f \in log' : f.model = target => f.at <= e.at}
    BY DEF LatestPromotes
  <2> QED
    BY <2>2, <2>3, <2>4, <2>5
<1>7. \A m \in Models \ {target} : LatestPromotes(m)' = LatestPromotes(m)
  <2> SUFFICES ASSUME NEW m \in Models \ {target}
               PROVE  LatestPromotes(m)' = LatestPromotes(m)
    OBVIOUS
  <2>1. LatestPromotes(m)' =
           {e \in log' : e.model = m /\ \A f \in log' : f.model = m => f.at <= e.at}
    BY DEF LatestPromotes
  <2>2. new.model # m
    OBVIOUS
  <2> HIDE DEF new
  <2> QED
    BY <1>1, <2>1, <2>2 DEF LatestPromotes
<1>8. DisplacedOf' = [DisplacedOf EXCEPT ![target] = SlotOf]
  <2>1. LastDisplaced(target)' = SlotOf
    <3>1. (CHOOSE e \in {new} : TRUE) = new
      OBVIOUS
    <3>2. LastDisplaced(target)' = new.previous
      <4>1. LastDisplaced(target)' =
               IF LatestPromotes(target)' = {} THEN NoModel
               ELSE (CHOOSE e \in LatestPromotes(target)' : TRUE).previous
        BY DEF LastDisplaced
      <4> HIDE DEF new
      <4> QED
        BY <1>6, <3>1, <4>1
    <3> QED
      BY <1>2, <3>2
  <2>2. \A m \in Models \ {target} : LastDisplaced(m)' = LastDisplaced(m)
    <3> SUFFICES ASSUME NEW m \in Models \ {target}
                 PROVE  LastDisplaced(m)' = LastDisplaced(m)
      OBVIOUS
    <3>1. LatestPromotes(m)' = LatestPromotes(m)
      BY <1>7
    <3> QED
      BY <3>1 DEF LastDisplaced
  <2>3. DisplacedOf' = [m \in Models |-> LastDisplaced(m)']
    BY DEF DisplacedOf
  <2> QED
    BY <1>2, <2>1, <2>2, <2>3 DEF DisplacedOf
<1>9. Dated'
  <2>1. \A e \in log' : e.at <= clock'
    BY <1>1, <1>3 DEF SlotInv, Dated
  <2>2. \A e, f \in log' : e.at = f.at => e = f
    <3> SUFFICES ASSUME NEW e \in log', NEW f \in log', e.at = f.at PROVE e = f
      OBVIOUS
    <3>1. CASE e \in log /\ f \in log
      BY <3>1 DEF SlotInv, Dated
    <3>2. CASE e = new \/ f = new
      <4>1. new.at = t.at
        OBVIOUS
      <4> HIDE DEF new
      <4> QED
        BY <1>1, <1>3, <3>2, <4>1
    <3> QED
      BY <1>1, <3>1, <3>2
  <2>3. \A q \in Requests : ~Open(q)'
    <3>1. \A q \in Requests \ {r} : tx'[q] = tx[q] /\ ~Open(q)
      BY <1>1, EndStage DEF Commit, SlotInv, Serial, OneOpen
    <3>2. ~Open(r)'
      BY EndStage DEF Commit, SlotInv, Serial
    <3> QED
      BY <3>1, <3>2 DEF Open
  <2> QED
    BY <2>1, <2>2, <2>3 DEF Dated
<1> QED
  BY <1>5, <1>8, <1>9 DEF Slot!Promote, SlotOf, DisplacedOf, LastDisplaced

(* A rollback restores what the active version displaced when it was last  *)
(* promoted.                                                               *)
LEMMA CommitRollback ==
  ASSUME SlotInv, NEW r \in Requests, Commit(r), tx[r].op = "rollback"
  PROVE  Slot!Rollback
<1> DEFINE t == tx[r]
<1>1. /\ t.stage = "ready" /\ log' = log
      /\ active' = (active \ Clears(t)) \union Sets(t)
  BY DEF Commit
<1>2. /\ t.target \in Models /\ t.loaded = (t.target \in active)
      /\ t.current \in active /\ t.target \in Restorable(t.current)
  BY <1>1 DEF SlotInv, Serial, Fresh, Decided
<1>3. SlotOf = t.current /\ active = {t.current} /\ t.current \in Models
  BY <1>2, SlotOfActive DEF SlotInv, Serial, TypeOK
<1>4. PICK e \in LatestPromotes(t.current) : t.target = e.previous
  BY <1>2 DEF Restorable, Displaced
<1>5. DisplacedOf[SlotOf] = t.target
  <2>1. LastDisplaced(t.current) = t.target
    BY <1>4, LatestIsOne DEF SlotInv, Serial
  <2> QED
    BY <1>3, <2>1 DEF DisplacedOf
<1>6. active' = {t.target}
  BY <1>1, <1>2, <1>3, GovernanceAssumption DEF Clears, Sets
<1>7. SlotOf' = t.target
  <2>1. t.target \in active' /\ \A m \in active' : m = t.target
    BY <1>6
  <2> QED
    BY <2>1 DEF SlotOf
<1>8. DisplacedOf' = DisplacedOf
  BY <1>1 DEF DisplacedOf, LastDisplaced, LatestPromotes
<1>9. SlotOf # NoModel /\ DisplacedOf[SlotOf] # NoModel
  BY <1>2, <1>3, <1>5, GovernanceAssumption
<1> QED
  BY <1>5, <1>7, <1>8, <1>9 DEF Slot!Rollback, SlotOf, DisplacedOf, LastDisplaced

(* A deactivation empties the slot, or finds its target inactive.          *)
LEMMA CommitDeactivate ==
  ASSUME SlotInv, NEW r \in Requests, Commit(r), tx[r].op = "deactivate"
  PROVE  Slot!Deactivate \/ UNCHANGED <<SlotOf, DisplacedOf>>
<1> DEFINE t == tx[r]
<1>1. /\ t.stage = "ready" /\ log' = log
      /\ active' = active \ Clears(t)
  BY DEF Commit, Sets
<1>2. t.loaded = (t.target \in active)
  BY <1>1 DEF SlotInv, Serial, Fresh
<1>3. DisplacedOf' = DisplacedOf
  BY <1>1 DEF DisplacedOf, LastDisplaced, LatestPromotes
<1>4. CASE t.target \in active
  <2>1. active = {t.target}
    BY <1>4, SlotOfActive DEF SlotInv, Serial
  <2>2. SlotOf' = NoModel
    BY <1>1, <1>2, <2>1 DEF Clears, SlotOf
  <2> QED
    BY <1>3, <2>2 DEF Slot!Deactivate, SlotOf, DisplacedOf, LastDisplaced
<1>5. CASE t.target \notin active
  <2>1. active' = active
    BY <1>1, <1>2, <1>5 DEF Clears
  <2> QED
    BY <1>3, <2>1 DEF SlotOf
<1> QED
  BY <1>4, <1>5

LEMMA SlotCommit ==
  ASSUME SlotInv, Serial', NEW r \in Requests, Commit(r)
  PROVE  SlotStep
<1>1. Open(r) /\ tx[r].op \in Operations
  BY DEF Commit, Open, SlotInv, Decided
<1>2. \A q \in Requests : ~Open(q)'
  <2>1. \A q \in Requests \ {r} : tx'[q] = tx[q] /\ ~Open(q)
    BY <1>1, EndStage DEF Commit, SlotInv, Serial, OneOpen
  <2>2. ~Open(r)'
    BY EndStage DEF Commit, SlotInv, Serial
  <2> QED
    BY <2>1, <2>2 DEF Open
<1>3. \A q \in Requests : Decided(q)'
  BY <1>2 DEF Decided, Open
<1>4. CASE tx[r].op = "promote"
  <2>1. tx[r].target \in Models
    BY DEF SlotInv, Serial, Fresh, Commit
  <2>2. \E m \in Models : Slot!Promote(m)
    BY <1>4, <2>1, CommitPromote
  <2>3. Dated'
    BY <1>4, CommitPromote
  <2> QED
    BY <1>3, <2>2, <2>3 DEF SlotInv, SlotStep, Slot!Next
<1>5. CASE tx[r].op # "promote"
  <2>1. log' = log /\ clock' = clock
    BY <1>5 DEF Commit
  <2>2. Dated'
    BY <1>2, <2>1 DEF SlotInv, Dated
  <2>3. Slot!Rollback \/ Slot!Deactivate \/ UNCHANGED <<SlotOf, DisplacedOf>>
    BY <1>1, <1>5, CommitRollback, CommitDeactivate DEF Operations
  <2> QED
    BY <1>3, <2>2, <2>3 DEF SlotInv, SlotStep, Slot!Next
<1> QED
  BY <1>4, <1>5

LEMMA InitSlot == Init => SlotInv /\ Slot!Init
<1> SUFFICES ASSUME Init PROVE SlotInv /\ Slot!Init
  OBVIOUS
<1>1. \A r \in Requests : ~Open(r)
  BY DEF Init, Idle, Open
<1>2. Dated
  BY <1>1 DEF Init, Dated
<1>3. \A r \in Requests : Decided(r)
  BY <1>1 DEF Decided, Open
<1>4. SlotOf = NoModel /\ DisplacedOf = [m \in Models |-> NoModel]
  BY DEF Init, SlotOf, DisplacedOf, LastDisplaced, LatestPromotes
<1>5. Slot!Init
  BY <1>4 DEF Slot!Init, SlotOf, DisplacedOf, LastDisplaced
<1> QED
  BY <1>2, <1>3, <1>5, InitSerial DEF SlotInv

LEMMA NextSlot == MaxOverlap = 1 /\ SlotInv /\ [Next]_vars => SlotStep
<1> SUFFICES ASSUME MaxOverlap = 1, SlotInv, [Next]_vars PROVE SlotStep
  OBVIOUS
<1>0. Serial'
  BY NextSerial DEF SlotInv
<1>1. ASSUME NEW r \in Requests, Begin(r) PROVE SlotStep
  BY <1>0, <1>1, SlotBegin
<1>2. ASSUME NEW r \in Requests, ReadActive(r) PROVE SlotStep
  BY <1>0, <1>2, SlotReadActive
<1>3. ASSUME NEW r \in Requests, ReadLog(r) PROVE SlotStep
  BY <1>0, <1>3, SlotReadLog
<1>4. ASSUME NEW r \in Requests, Commit(r) PROVE SlotStep
  BY <1>0, <1>4, SlotCommit
<1>5. ASSUME NEW r \in Requests, Abort(r) PROVE SlotStep
  BY <1>0, <1>5, SlotEnd DEF Abort
<1>6. CASE UNCHANGED vars
  <2>1. UNCHANGED <<active, log, clock, tx>>
    BY <1>6 DEF vars
  <2>2. Dated' /\ \A q \in Requests : Decided(q)'
    BY <2>1 DEF SlotInv, Dated, Decided, Open, SlotOf, Restorable, Displaced, LatestPromotes
  <2> QED
    BY <1>0, <2>1, <2>2, SameSlot DEF SlotInv, SlotStep
<1> QED
  BY <1>1, <1>2, <1>3, <1>4, <1>5, <1>6 DEF Next

(* Requests one at a time implement the one slot: a promotion displaces    *)
(* what is active, and a rollback puts back what the active version        *)
(* displaced, across deactivations, repeated rollbacks and aborts.         *)
THEOREM SerialRequestsKeepSlot ==
  ASSUME MaxOverlap = 1
  PROVE  Spec => ImplementsSlot
<1>1. SlotInv /\ [Next]_vars => SlotInv'
  BY NextSlot DEF SlotStep
<1>2. SlotInv /\ [Next]_vars =>
         [Slot!Next]_(<<IF active = {} THEN NoModel ELSE CHOOSE m \in active : TRUE,
                        [m \in Models |->
                            IF LatestPromotes(m) = {} THEN NoModel
                            ELSE (CHOOSE e \in LatestPromotes(m) : TRUE).previous]>>)
  BY NextSlot DEF SlotStep, SlotOf, DisplacedOf, LastDisplaced
<1>3. Init => SlotInv /\ Slot!Init
  BY InitSlot
<1> QED
  BY <1>1, <1>2, <1>3, PTL DEF Spec, ImplementsSlot, Slot!Spec

=============================================================================
