---------------------------- MODULE ServicesProofs ----------------------------
(***************************************************************************)
(* The components of MCServices that keep rows, keys, rules and files:     *)
(* each has an inductive invariant for any number of the actors that use   *)
(* it.  Those of the slot of active models, the desk, the jobs and the     *)
(* backtests have proof modules of their own.                              *)
(***************************************************************************)
EXTENDS MCServices, SumTheorems, FiniteSetTheorems, SequenceTheorems, TLAPS

(* The version a run is to follow is in the registry, and is old enough    *)
(* for the time the run began at.                                          *)
Follows ==
    \A r \in Trainings : training[r].stage \in {"loaded", "inserted"} =>
        /\ training[r].latest \in 0..Len(registry)
        /\ training[r].latest # 0 =>
              training[r].now >= registry[training[r].latest].trained + MinHours

(* A run that has inserted its row follows the newest version, and there   *)
(* is one such run: the unique constraint keeps the others waiting.        *)
InsertsNext ==
    /\ \A r \in Trainings :
          training[r].stage = "inserted" => training[r].latest = Len(registry)
    /\ \A q, r \in Trainings :
          training[q].stage = "inserted" /\ training[r].stage = "inserted" => q = r

TrainerInv == TrainerTypeOK /\ VersionsSpaced /\ Follows /\ InsertsNext

LEMMA TrainerStart == TrainerInit => TrainerInv
BY TrainerAssumption
   DEF TrainerInit, TrainerInv, TrainerTypeOK, VersionsSpaced, Follows, InsertsNext,
       Signals, Versions, Runs

(* A run that ends without a version.                                      *)
LEMMA GiveUpKeeps ==
  ASSUME TrainerInv, NEW r \in Trainings, training' = [training EXCEPT ![r] = Over],
         UNCHANGED <<hour, signal, registry>>
  PROVE  TrainerInv'
<1>1. Over \in Runs
  BY TrainerAssumption DEF Over, Runs
<1>2. /\ training' \in [Trainings -> Runs]
      /\ training'[r].stage = "done"
      /\ \A q \in Trainings \ {r} : training'[q] = training[q]
  BY <1>1 DEF TrainerInv, TrainerTypeOK, Over
<1> QED
  BY <1>2 DEF TrainerInv, TrainerTypeOK, VersionsSpaced, Follows, InsertsNext

LEMMA LoadKeeps ==
  ASSUME TrainerInv, NEW r \in Trainings, LoadLatest(r)
  PROVE  TrainerInv'
<1>1. CASE CoolingDown(Len(registry), hour)
  BY <1>1, GiveUpKeeps DEF LoadLatest
<1>2. CASE ~ CoolingDown(Len(registry), hour)
  <2> DEFINE run == [stage |-> "loaded", latest |-> Len(registry), now |-> hour, learned |-> {}]
  <2>1. registry \in Seq(Versions) /\ Len(registry) \in Nat /\ hour \in 0..Horizon
    BY DEF TrainerInv, TrainerTypeOK
  <2>2. run \in Runs
    BY <2>1 DEF Runs
  <2>3. training' = [training EXCEPT ![r] = run] /\ UNCHANGED <<hour, signal, registry>>
    BY <1>2 DEF LoadLatest
  <2> HIDE DEF run
  <2>4. /\ training' \in [Trainings -> Runs]
        /\ training'[r] = run
        /\ \A q \in Trainings \ {r} : training'[q] = training[q]
    BY <2>2, <2>3 DEF TrainerInv, TrainerTypeOK
  <2>5. TrainerTypeOK' /\ VersionsSpaced'
    BY <2>3, <2>4 DEF TrainerInv, TrainerTypeOK, VersionsSpaced
  <2>6. Len(registry) # 0 => hour >= registry[Len(registry)].trained + MinHours
    <3> SUFFICES ASSUME Len(registry) # 0
                 PROVE  hour >= registry[Len(registry)].trained + MinHours
      OBVIOUS
    <3>1. registry[Len(registry)] \in Versions
      BY <2>1
    <3> QED
      BY <1>2, <2>1, <3>1, TrainerAssumption DEF CoolingDown, Versions
  <2>7. Follows'
    BY <2>1, <2>3, <2>4, <2>6 DEF TrainerInv, Follows, run
  <2>8. InsertsNext'
    BY <2>3, <2>4 DEF TrainerInv, InsertsNext, run
  <2> QED
    BY <2>5, <2>7, <2>8 DEF TrainerInv
<1> QED
  BY <1>1, <1>2

LEMMA InsertKeeps ==
  ASSUME TrainerInv, NEW r \in Trainings, InsertVersion(r)
  PROVE  TrainerInv'
<1> DEFINE run == [training[r] EXCEPT !.stage = "inserted",
                                      !.learned = TradedOutcomes \union Counterfactuals]
<1>1. training[r] \in Runs
  BY DEF TrainerInv, TrainerTypeOK
<1>2. run \in Runs
  BY <1>1 DEF Runs, TradedOutcomes, Counterfactuals
<1>3. /\ training' = [training EXCEPT ![r] = run]
      /\ training[r].stage = "loaded"
      /\ UNCHANGED <<hour, signal, registry>>
  BY DEF InsertVersion, TrainerInv, TrainerTypeOK
<1>4. run.stage = "inserted" /\ run.latest = training[r].latest /\ run.now = training[r].now
  BY <1>1 DEF Runs
<1> HIDE DEF run
<1>5. /\ training' \in [Trainings -> Runs]
      /\ training'[r] = run
      /\ \A q \in Trainings \ {r} : training'[q] = training[q]
  BY <1>2, <1>3 DEF TrainerInv, TrainerTypeOK
<1>6. TrainerTypeOK' /\ VersionsSpaced'
  BY <1>3, <1>5 DEF TrainerInv, TrainerTypeOK, VersionsSpaced
<1>7. Follows'
  BY <1>3, <1>4, <1>5 DEF TrainerInv, Follows
<1>8. training[r].latest = Len(registry)
  <2>1. training[r].latest \in 0..Len(registry) /\ Len(registry) \in Nat
    BY <1>3 DEF TrainerInv, TrainerTypeOK, Follows
  <2> QED
    BY <2>1 DEF InsertVersion, NumberFree
<1>9. \A q \in Trainings : training[q].stage # "inserted"
  BY <1>8 DEF InsertVersion, NumberFree, TrainerInv, InsertsNext
<1>10. InsertsNext'
  BY <1>3, <1>4, <1>5, <1>8, <1>9 DEF InsertsNext
<1> QED
  BY <1>6, <1>7, <1>10 DEF TrainerInv

LEMMA CommitKeeps ==
  ASSUME TrainerInv, NEW r \in Trainings, CommitVersion(r)
  PROVE  TrainerInv'
<1> DEFINE version == [trained |-> training[r].now, learned |-> training[r].learned]
           len == Len(registry)
<1>1. training[r] \in Runs /\ registry \in Seq(Versions) /\ len \in Nat
  BY DEF TrainerInv, TrainerTypeOK
<1>2. version \in Versions
  BY <1>1 DEF Runs, Versions
<1>3. /\ registry' = Append(registry, version)
      /\ training[r].stage = "inserted"
      /\ training' = [training EXCEPT ![r] = Over]
      /\ UNCHANGED <<hour, signal>>
  BY DEF CommitVersion
<1>4. version.trained = training[r].now
  OBVIOUS
<1> HIDE DEF version, len
<1>5. /\ registry' \in Seq(Versions)
      /\ Len(registry') = len + 1
      /\ registry'[len + 1] = version
      /\ \A v \in 1..len : registry'[v] = registry[v]
  BY <1>1, <1>2, <1>3 DEF len
<1>6. Over \in Runs
  BY TrainerAssumption DEF Over, Runs
<1>7. /\ training' \in [Trainings -> Runs]
      /\ training'[r].stage = "done"
      /\ \A q \in Trainings \ {r} : training'[q] = training[q] /\ training'[q] \in Runs
  BY <1>3, <1>6 DEF TrainerInv, TrainerTypeOK, Over
<1>8. TrainerTypeOK'
  BY <1>3, <1>5, <1>7 DEF TrainerInv, TrainerTypeOK
<1>9. VersionsSpaced'
  <2> SUFFICES ASSUME NEW v \in 1..len
               PROVE  registry'[v + 1].trained >= registry'[v].trained + MinHours
    BY <1>1, <1>5 DEF VersionsSpaced
  <2>1. CASE v = len
    <3>1. training[r].latest = len
      BY <1>3 DEF TrainerInv, InsertsNext, len
    <3>2. training[r].now >= registry[len].trained + MinHours
      BY <1>1, <1>3, <2>1, <3>1 DEF TrainerInv, Follows
    <3> QED
      BY <1>4, <1>5, <2>1, <3>2
  <2>2. CASE v \in 1..len - 1
    BY <1>1, <1>5, <2>2 DEF TrainerInv, VersionsSpaced, len
  <2> QED
    BY <1>1, <2>1, <2>2
<1>10. Follows'
  BY <1>1, <1>5, <1>7 DEF TrainerInv, Follows, len
<1>11. InsertsNext'
  BY <1>3, <1>7 DEF TrainerInv, InsertsNext
<1> QED
  BY <1>8, <1>9, <1>10, <1>11 DEF TrainerInv

LEMMA WorldKeeps ==
  ASSUME TrainerInv, HourPasses \/ \E s \in Samples : SignalMatures(s) \/ TradeCloses(s)
  PROVE  TrainerInv'
<1>1. UNCHANGED <<registry, training>>
  BY DEF HourPasses, SignalMatures, TradeCloses
<1>2. hour' \in 0..Horizon
  BY TrainerAssumption DEF TrainerInv, TrainerTypeOK, HourPasses, SignalMatures, TradeCloses
<1>3. signal' \in [Samples -> Signals]
  <2>1. hour \in 0..Horizon /\ signal \in [Samples -> Signals] /\ 0 \in 0..Horizon
    BY TrainerAssumption DEF TrainerInv, TrainerTypeOK
  <2>2. CASE HourPasses
    BY <2>1, <2>2 DEF HourPasses
  <2>3. ASSUME NEW s \in Samples, SignalMatures(s) PROVE signal' \in [Samples -> Signals]
    BY <2>1, <2>3 DEF SignalMatures, Signals
  <2>4. ASSUME NEW s \in Samples, TradeCloses(s) PROVE signal' \in [Samples -> Signals]
    <3>1. signal[s] \in Signals
      BY <2>1
    <3>2. [signal[s] EXCEPT !.kind = "outcome"] \in Signals
      BY <3>1 DEF Signals
    <3>3. [kind |-> "closing", since |-> hour] \in Signals
      BY <2>1 DEF Signals
    <3> QED
      BY <2>1, <2>4, <3>2, <3>3 DEF TradeCloses
  <2> QED
    BY <2>2, <2>3, <2>4
<1> QED
  BY <1>1, <1>2, <1>3 DEF TrainerInv, TrainerTypeOK, VersionsSpaced, Follows, InsertsNext

LEMMA TrainerInductive == TrainerInv /\ [TrainerNext]_trainerVars => TrainerInv'
<1> SUFFICES ASSUME TrainerInv, [TrainerNext]_trainerVars PROVE TrainerInv'
  OBVIOUS
<1>1. ASSUME NEW r \in Trainings, Skip(r) \/ TrainingFails(r) PROVE TrainerInv'
  BY <1>1, GiveUpKeeps DEF Skip, TrainingFails
<1>2. CASE TrainerNext
  BY <1>1, <1>2, WorldKeeps, LoadKeeps, InsertKeeps, CommitKeeps DEF TrainerNext
<1>3. CASE UNCHANGED trainerVars
  BY <1>3 DEF trainerVars, TrainerInv, TrainerTypeOK, VersionsSpaced, Follows, InsertsNext
<1> QED
  BY <1>2, <1>3

(* Successive versions of the model are trained at least MinHours apart,   *)
(* whichever trainers overlap (LearningTrainerWorker's cooldown).          *)
THEOREM TrainedVersionsAreSpaced == TrainerSpec => []VersionsSpaced
<1>1. TrainerInv => VersionsSpaced
  BY DEF TrainerInv
<1> QED
  BY <1>1, TrainerStart, TrainerInductive, PTL DEF TrainerSpec

-----------------------------------------------------------------------------

(* As long as its session is clean, the sweep has counted what is in its   *)
(* transaction; a refusal invalidates the session and never just aborts    *)
(* its transaction.                                                        *)
SweepCounts ==
    /\ pass["sweep"].session # "aborted"
    /\ pass["sweep"].running /\ pass["sweep"].session = "clean" =>
           pass["sweep"].counted = pass["sweep"].written

IngestInv == IngestTypeOK /\ SweepCounts /\ SweepTallyTrue

LEMMA IngestStart == IngestInit => IngestInv
BY IngestAssumption
   DEF IngestInit, IngestInv, IngestTypeOK, SweepCounts, SweepTallyTrue, Workers, Passes

(* A step within a pass: the row of the worker changes and nothing else.   *)
LEMMA PassKeeps ==
  ASSUME IngestInv, NEW w \in Workers, NEW row \in Passes, pass[w].running, row.running,
         pass' = [pass EXCEPT ![w] = row], UNCHANGED <<store, tally>>,
         w = "sweep" => /\ row.session # "aborted"
                        /\ row.session = "clean" => row.counted = row.written
  PROVE  IngestInv'
<1>1. /\ pass' \in [Workers -> Passes]
      /\ pass'[w] = row
      /\ \A v \in Workers \ {w} : pass'[v] = pass[v]
  BY DEF IngestInv, IngestTypeOK
<1>2. "sweep" \in Workers
  BY DEF Workers
<1> QED
  BY <1>1, <1>2 DEF IngestInv, IngestTypeOK, SweepCounts, SweepTallyTrue

LEMMA AssetKeeps ==
  ASSUME IngestInv, NEW w \in Workers, NEW a \in Assets,
         AssetStored(w, a) \/ AssetPassedOver(w, a) \/ DatabaseRefusesAsset(w, a)
  PROVE  IngestInv'
<1>1. pass[w] \in Passes /\ pass \in [Workers -> Passes]
  BY DEF IngestInv, IngestTypeOK
<1>2. /\ pass[w].running
      /\ UNCHANGED <<store, tally>>
  BY DEF AssetStored, AssetPassedOver, DatabaseRefusesAsset
<1>3. w = "sweep" => /\ pass[w].session # "aborted"
                     /\ pass[w].session = "clean" => pass[w].counted = pass[w].written
  BY <1>2 DEF IngestInv, SweepCounts
<1>4. CASE AssetStored(w, a)
  <2> DEFINE row == [pass[w] EXCEPT !.left = @ \ {a}, !.written = @ \union {a},
                                    !.counted = @ \union {a}]
  <2>1. pass' = [pass EXCEPT ![w] = row]
    BY <1>1, <1>4 DEF AssetStored
  <2>2. row \in Passes
    BY <1>1 DEF Passes
  <2>3. /\ row.running = pass[w].running
        /\ row.session = pass[w].session
        /\ row.written = pass[w].written \union {a}
        /\ row.counted = pass[w].counted \union {a}
    BY <1>1 DEF Passes
  <2> HIDE DEF row
  <2> QED
    BY <1>2, <1>3, <2>1, <2>2, <2>3, PassKeeps
<1>5. CASE AssetPassedOver(w, a)
  <2> DEFINE row == [pass[w] EXCEPT !.left = @ \ {a}]
  <2>1. pass' = [pass EXCEPT ![w] = row]
    BY <1>1, <1>5 DEF AssetPassedOver
  <2>2. row \in Passes
    BY <1>1 DEF Passes
  <2>3. /\ row.running = pass[w].running
        /\ row.session = pass[w].session
        /\ row.written = pass[w].written
        /\ row.counted = pass[w].counted
    BY <1>1 DEF Passes
  <2> HIDE DEF row
  <2> QED
    BY <1>2, <1>3, <2>1, <2>2, <2>3, PassKeeps
<1>6. CASE DatabaseRefusesAsset(w, a)
  <2> DEFINE left == [pass[w] EXCEPT !.left = @ \ {a}]
             row == [left EXCEPT !.session = IF w = "sync" THEN "aborted" ELSE "invalid"]
  <2>1. pass' = [pass EXCEPT ![w] = row]
    BY <1>6, Zenon DEF DatabaseRefusesAsset, AfterRefusal
  <2>2. left \in Passes /\ left.running = pass[w].running
    BY <1>1 DEF Passes
  <2> HIDE DEF left
  <2>3. row \in Passes
    <3>1. CASE w = "sync"
      BY <2>2, <3>1 DEF Passes
    <3>2. CASE w # "sync"
      BY <2>2, <3>2 DEF Passes
    <3> QED
      BY <3>1, <3>2
  <2>4. /\ row.running = left.running
        /\ row.session = IF w = "sync" THEN "aborted" ELSE "invalid"
    BY <2>2 DEF Passes
  <2> HIDE DEF row
  <2> QED
    BY <1>2, <2>1, <2>2, <2>3, <2>4, PassKeeps
<1> QED
  BY <1>4, <1>5, <1>6

LEMMA BoundaryKeeps ==
  ASSUME IngestInv, NEW w \in Workers, StartPass(w) \/ EndPass(w) \/ PassFails(w)
  PROVE  IngestInv'
<1>1. pass[w] \in Passes /\ pass \in [Workers -> Passes] /\ "sweep" \in Workers
  BY DEF IngestInv, IngestTypeOK, Workers
<1>2. CASE StartPass(w)
  <2>1. PICK chosen \in SUBSET Assets :
           pass' = [pass EXCEPT ![w] =
                     [made |-> pass[w].made + 1, left |-> chosen, running |-> TRUE,
                      written |-> {}, counted |-> {}, session |-> "clean"]]
    BY <1>1, <1>2 DEF StartPass
  <2> DEFINE row == [made |-> pass[w].made + 1, left |-> chosen, running |-> TRUE,
                     written |-> {}, counted |-> {}, session |-> "clean"]
  <2>2. pass[w].made \in 0..MaxPasses /\ pass[w].made < MaxPasses
    BY <1>1, <1>2 DEF StartPass, Passes
  <2>3. row \in Passes
    BY <2>2, IngestAssumption DEF Passes
  <2>4. row.running /\ row.session = "clean" /\ row.counted = row.written
    OBVIOUS
  <2> HIDE DEF row
  <2>5. /\ pass' \in [Workers -> Passes]
        /\ pass'[w] = row
        /\ \A v \in Workers \ {w} : pass'[v] = pass[v]
    BY <1>1, <2>1, <2>3 DEF row
  <2> QED
    BY <1>1, <1>2, <2>4, <2>5
       DEF StartPass, IngestInv, IngestTypeOK, SweepCounts, SweepTallyTrue
<1>3. CASE EndPass(w)
  <2> DEFINE row == [pass[w] EXCEPT !.running = FALSE, !.written = {}, !.counted = {}]
  <2>1. pass' = [pass EXCEPT ![w] = row]
    BY <1>1, <1>3 DEF EndPass
  <2>2. row \in Passes /\ row.running = FALSE /\ row.session = pass[w].session
    BY <1>1 DEF Passes
  <2> HIDE DEF row
  <2>3. /\ pass' \in [Workers -> Passes]
        /\ pass'[w] = row
        /\ \A v \in Workers \ {w} : pass'[v] = pass[v]
    BY <1>1, <2>1, <2>2
  <2>4. /\ store' \in [Workers -> SUBSET Assets]
        /\ tally' \in [Workers -> SUBSET Assets]
        /\ \A v \in Workers \ {w} : store'[v] = store[v] /\ tally'[v] = tally[v]
        /\ store'[w] = IF pass[w].session = "clean" THEN pass[w].written ELSE {}
        /\ tally'[w] = IF pass[w].session = "invalid" THEN {} ELSE pass[w].counted
    BY <1>1, <1>3 DEF EndPass, IngestInv, IngestTypeOK, Passes
  <2>5. CASE w = "sweep"
    <3>1. pass[w].session \in {"clean", "invalid"}
      BY <1>1, <2>5 DEF IngestInv, SweepCounts, Passes
    <3>2. store'[w] = tally'[w]
      BY <1>3, <2>4, <2>5, <3>1 DEF EndPass, IngestInv, SweepCounts
    <3> QED
      BY <2>2, <2>3, <2>4, <2>5, <3>1, <3>2
         DEF IngestInv, IngestTypeOK, SweepCounts, SweepTallyTrue
  <2>6. CASE w # "sweep"
    BY <1>1, <2>3, <2>4, <2>6 DEF IngestInv, IngestTypeOK, SweepCounts, SweepTallyTrue
  <2> QED
    BY <2>5, <2>6
<1>4. CASE PassFails(w)
  <2> DEFINE row == [pass[w] EXCEPT !.running = FALSE, !.left = {}, !.written = {},
                                    !.counted = {}]
  <2>1. pass' = [pass EXCEPT ![w] = row]
    BY <1>1, <1>4 DEF PassFails
  <2>2. row \in Passes /\ row.running = FALSE /\ row.session = pass[w].session
    BY <1>1 DEF Passes
  <2> HIDE DEF row
  <2>3. /\ pass' \in [Workers -> Passes]
        /\ pass'[w] = row
        /\ \A v \in Workers \ {w} : pass'[v] = pass[v]
    BY <1>1, <2>1, <2>2
  <2>4. /\ store' \in [Workers -> SUBSET Assets]
        /\ tally' \in [Workers -> SUBSET Assets]
        /\ \A v \in Workers \ {w} : store'[v] = store[v] /\ tally'[v] = tally[v]
        /\ store'[w] = {} /\ tally'[w] = {}
    BY <1>4 DEF PassFails, IngestInv, IngestTypeOK
  <2> QED
    BY <1>1, <2>2, <2>3, <2>4 DEF IngestInv, IngestTypeOK, SweepCounts, SweepTallyTrue
<1> QED
  BY <1>2, <1>3, <1>4

LEMMA IngestInductive == IngestInv /\ [IngestNext]_ingestVars => IngestInv'
<1> SUFFICES ASSUME IngestInv, [IngestNext]_ingestVars PROVE IngestInv'
  OBVIOUS
<1>1. CASE IngestNext
  BY <1>1, AssetKeeps, BoundaryKeeps DEF IngestNext
<1>2. CASE UNCHANGED ingestVars
  BY <1>2 DEF ingestVars, IngestInv, IngestTypeOK, SweepCounts, SweepTallyTrue
<1> QED
  BY <1>1, <1>2

(* What the signal sweep reports is what it left in the database, for any  *)
(* set of assets and failures (SignalSweepWorker.execute).                 *)
THEOREM SweepReportsTruly == IngestSpec => []SweepTallyTrue
<1>1. IngestInv => SweepTallyTrue
  BY DEF IngestInv
<1> QED
  BY <1>1, IngestStart, IngestInductive, PTL DEF IngestSpec

-----------------------------------------------------------------------------

(* Idempotency keys.  Of the requests with an uncontended key one at most  *)
(* is running (RunsAlone), a live key is on nobody's list of keys to evict *)
(* (LiveStays), and a key that was processed is live (ProcessedIsLive).    *)

RunsAlone ==
    \A s, t \in Submissions :
        Running(s) /\ Running(t) /\ call[s].key = call[t].key /\ call[s].key \notin contended
            => s = t

LiveStays ==
    \A s \in Submissions, k \in Keys \ contended :
        call[s].stage = "evicting" /\ k \in call[s].stale => cached[k] # "live"

ProcessedIsLive ==
    \A k \in Keys \ contended : succeeded[k] # {} => cached[k] = "live"

(* A request that found its key absent, or reserved it, is the first to.   *)
FoundFree ==
    \A s \in Submissions :
        call[s].key \notin contended =>
            /\ call[s].stage = "absent" => cached[call[s].key] = "absent"
            /\ call[s].stage = "reserved" =>
                  cached[call[s].key] = "live" /\ succeeded[call[s].key] = {}

IdemInv ==
    /\ IdemTypeOK /\ RunsAlone /\ LiveStays /\ ProcessedIsLive /\ FoundFree
    /\ ProcessedOncePerKey

LEMMA IdemStart == IdemInit => IdemInv
<1> SUFFICES ASSUME IdemInit PROVE IdemInv
  OBVIOUS
<1>1. PICK k \in Keys : call = [s \in Submissions |-> [stage |-> "idle", key |-> k, stale |-> {}]]
  BY DEF IdemInit
<1>2. call \in [Submissions -> Threads] /\ \A s \in Submissions : call[s].stage = "idle"
  BY <1>1 DEF Threads
<1>3. IdemTypeOK
  BY <1>2 DEF IdemInit, IdemTypeOK
<1> QED
  BY <1>2, <1>3 DEF IdemInit, IdemInv, RunsAlone, LiveStays, ProcessedIsLive, FoundFree,
                    ProcessedOncePerKey, Running

LEMMA ListKeeps ==
  ASSUME IdemInv, NEW s \in Submissions, ListExpired(s)
  PROVE  IdemInv'
<1>1. PICK k \in Keys :
         /\ call' = [call EXCEPT ![s] =
                       [stage |-> "evicting", key |-> k,
                        stale |-> {j \in Keys : cached[j] = "expired"}]]
         /\ contended' = IF \E t \in Submissions : Running(t) /\ call[t].key = k
                         THEN contended \union {k} ELSE contended
  BY DEF ListExpired
<1>2. /\ call[s].stage = "idle" /\ UNCHANGED <<cached, succeeded>>
      /\ contended \subseteq contended' /\ contended' \subseteq Keys
  BY <1>1 DEF ListExpired, IdemInv, IdemTypeOK
<1>3. /\ call' \in [Submissions -> Threads]
      /\ call'[s].stage = "evicting" /\ call'[s].key = k
      /\ call'[s].stale = {j \in Keys : cached[j] = "expired"}
      /\ \A t \in Submissions \ {s} : call'[t] = call[t]
  <2> DEFINE thread == [stage |-> "evicting", key |-> k,
                        stale |-> {j \in Keys : cached[j] = "expired"}]
  <2>1. thread \in Threads
    BY DEF Threads
  <2> QED
    BY <1>1, <2>1 DEF IdemInv, IdemTypeOK
<1>4. IdemTypeOK'
  BY <1>2, <1>3 DEF IdemInv, IdemTypeOK
<1>5. RunsAlone'
  <2> SUFFICES ASSUME NEW t \in Submissions, NEW u \in Submissions,
                      Running(t)', Running(u)', call'[t].key = call'[u].key,
                      call'[t].key \notin contended'
               PROVE  t = u
    BY DEF RunsAlone
  <2>1. CASE t # s /\ u # s
    BY <1>2, <1>3, <2>1 DEF IdemInv, RunsAlone, Running
  <2>2. \A v \in Submissions \ {s} : Running(v)' /\ call'[v].key = k => k \in contended'
    BY <1>1, <1>3 DEF Running
  <2> QED
    BY <1>3, <2>1, <2>2
<1>6. LiveStays' /\ ProcessedIsLive' /\ FoundFree' /\ ProcessedOncePerKey'
  BY <1>2, <1>3
     DEF IdemInv, LiveStays, ProcessedIsLive, FoundFree, ProcessedOncePerKey
<1> QED
  BY <1>4, <1>5, <1>6 DEF IdemInv

(* A thread that moves on with its key and its list.                       *)
LEMMA AdvanceStep ==
  ASSUME IdemTypeOK, NEW s \in Submissions, NEW stage,
         stage \in {"idle", "evicting", "checking", "absent", "reserved", "done"},
         Advance(s, stage)
  PROVE  /\ call' \in [Submissions -> Threads]
         /\ call'[s].stage = stage /\ call'[s].key = call[s].key
         /\ \A t \in Submissions \ {s} : call'[t] = call[t]
BY DEF Advance, IdemTypeOK, Threads

LEMMA EvictKeeps ==
  ASSUME IdemInv, NEW s \in Submissions, EvictOne(s)
  PROVE  IdemInv'
<1>1. call[s].stage = "evicting" /\ Running(s) /\ UNCHANGED <<succeeded, contended>>
  BY DEF EvictOne, Running
<1>2. ASSUME UNCHANGED cached, NEW stage \in {"checking", "done"}, Advance(s, stage)
      PROVE  IdemInv'
  <2>1. /\ call' \in [Submissions -> Threads]
        /\ call'[s].stage = stage /\ call'[s].key = call[s].key
        /\ \A t \in Submissions \ {s} : call'[t] = call[t]
    BY <1>2, AdvanceStep DEF IdemInv
  <2>2. IdemTypeOK' /\ RunsAlone'
    BY <1>1, <1>2, <2>1 DEF IdemInv, IdemTypeOK, RunsAlone, Running
  <2>3. LiveStays' /\ ProcessedIsLive' /\ ProcessedOncePerKey'
    BY <1>1, <1>2, <2>1 DEF IdemInv, LiveStays, ProcessedIsLive, ProcessedOncePerKey
  <2>4. FoundFree'
    BY <1>1, <1>2, <2>1 DEF IdemInv, FoundFree
  <2> QED
    BY <2>2, <2>3, <2>4 DEF IdemInv
<1>3. ASSUME NEW k \in call[s].stale, cached' = [cached EXCEPT ![k] = "absent"],
             call' = [call EXCEPT ![s].stale = @ \ {k}]
      PROVE  IdemInv'
  <2>1. /\ call' \in [Submissions -> Threads] /\ k \in Keys
        /\ call'[s].stage = call[s].stage /\ call'[s].key = call[s].key
        /\ call'[s].stale \subseteq call[s].stale
        /\ \A t \in Submissions \ {s} : call'[t] = call[t]
    BY <1>3 DEF IdemInv, IdemTypeOK, Threads
  <2>2. /\ cached' \in [Keys -> {"absent", "live", "expired"}]
        /\ cached'[k] = "absent" /\ \A j \in Keys \ {k} : cached'[j] = cached[j]
    BY <1>3, <2>1 DEF IdemInv, IdemTypeOK
  <2>3. k \notin contended => cached[k] # "live"
    BY <1>1, <2>1 DEF IdemInv, LiveStays
  <2>4. IdemTypeOK' /\ RunsAlone' /\ ProcessedOncePerKey'
    BY <1>1, <2>1, <2>2 DEF IdemInv, IdemTypeOK, RunsAlone, ProcessedOncePerKey, Running
  <2>5. LiveStays' /\ ProcessedIsLive'
    BY <1>1, <2>1, <2>2, <2>3 DEF IdemInv, LiveStays, ProcessedIsLive
  <2>6. FoundFree'
    <3> SUFFICES ASSUME NEW t \in Submissions, call'[t].key \notin contended'
                 PROVE  /\ call'[t].stage = "absent" => cached'[call'[t].key] = "absent"
                        /\ call'[t].stage = "reserved" =>
                              cached'[call'[t].key] = "live" /\ succeeded'[call'[t].key] = {}
      BY DEF FoundFree
    <3>1. call[t].key \in Keys /\ call'[t].key = call[t].key /\ call'[t].stage = call[t].stage
      BY <2>1 DEF IdemInv, IdemTypeOK, Threads
    <3> QED
      BY <1>1, <2>2, <2>3, <3>1 DEF IdemInv, FoundFree
  <2> QED
    BY <2>4, <2>5, <2>6 DEF IdemInv
<1> QED
  BY <1>2, <1>3 DEF EvictOne

LEMMA CheckKeeps ==
  ASSUME IdemInv, NEW s \in Submissions, CheckKey(s)
  PROVE  IdemInv'
<1> DEFINE stage == IF cached[call[s].key] = "absent" THEN "absent" ELSE "done"
<1>1. /\ call[s].stage = "checking" /\ Running(s) /\ Advance(s, stage)
      /\ UNCHANGED <<cached, succeeded, contended>>
  BY DEF CheckKey, Running
<1>2. stage \in {"absent", "done"} /\ (stage = "absent" => cached[call[s].key] = "absent")
  OBVIOUS
<1> HIDE DEF stage
<1>3. /\ call' \in [Submissions -> Threads]
      /\ call'[s].stage = stage /\ call'[s].key = call[s].key
      /\ \A t \in Submissions \ {s} : call'[t] = call[t]
  BY <1>1, <1>2, AdvanceStep DEF IdemInv
<1>4. IdemTypeOK' /\ RunsAlone'
  BY <1>1, <1>3 DEF IdemInv, IdemTypeOK, RunsAlone, Running
<1>5. LiveStays' /\ ProcessedIsLive' /\ ProcessedOncePerKey'
  BY <1>1, <1>2, <1>3 DEF IdemInv, LiveStays, ProcessedIsLive, ProcessedOncePerKey
<1>6. FoundFree'
  BY <1>1, <1>2, <1>3 DEF IdemInv, FoundFree
<1> QED
  BY <1>4, <1>5, <1>6 DEF IdemInv

LEMMA ReserveKeeps ==
  ASSUME IdemInv, NEW s \in Submissions, ReserveKey(s)
  PROVE  IdemInv'
<1> DEFINE k == call[s].key
<1>1. /\ call[s].stage = "absent" /\ Running(s) /\ k \in Keys
      /\ cached' = [cached EXCEPT ![k] = "live"] /\ Advance(s, "reserved")
      /\ UNCHANGED succeeded
      /\ contended' = IF Meets(s) THEN contended \union {k} ELSE contended
  BY DEF ReserveKey, Running, IdemInv, IdemTypeOK, Threads
<1>2. /\ call' \in [Submissions -> Threads]
      /\ call'[s].stage = "reserved" /\ call'[s].key = k
      /\ \A t \in Submissions \ {s} : call'[t] = call[t]
  BY <1>1, AdvanceStep DEF IdemInv
<1>3. /\ cached' \in [Keys -> {"absent", "live", "expired"}]
      /\ cached'[k] = "live" /\ \A j \in Keys \ {k} : cached'[j] = cached[j]
      /\ contended \subseteq contended' /\ contended' \subseteq Keys
  BY <1>1 DEF IdemInv, IdemTypeOK
<1>4. k \notin contended' =>
         \A t \in Submissions \ {s} : call[t].stage = "evicting" => k \notin call[t].stale
  BY <1>1 DEF Meets
<1>5. k \notin contended' => cached[k] = "absent" /\ succeeded[k] = {}
  BY <1>1, <1>3 DEF IdemInv, FoundFree, ProcessedIsLive
<1>6. IdemTypeOK' /\ RunsAlone' /\ ProcessedOncePerKey'
  BY <1>1, <1>2, <1>3 DEF IdemInv, IdemTypeOK, RunsAlone, ProcessedOncePerKey, Running
<1>7. LiveStays' /\ ProcessedIsLive'
  <2>1. LiveStays'
    BY <1>2, <1>3, <1>4 DEF IdemInv, LiveStays
  <2>2. ProcessedIsLive'
    BY <1>1, <1>3 DEF IdemInv, ProcessedIsLive
  <2> QED
    BY <2>1, <2>2
<1>8. FoundFree'
  <2> SUFFICES ASSUME NEW t \in Submissions, call'[t].key \notin contended'
               PROVE  /\ call'[t].stage = "absent" => cached'[call'[t].key] = "absent"
                      /\ call'[t].stage = "reserved" =>
                            cached'[call'[t].key] = "live" /\ succeeded'[call'[t].key] = {}
    BY DEF FoundFree
  <2>1. CASE t = s
    BY <1>1, <1>2, <1>3, <1>5, <2>1
  <2>2. CASE t # s
    <3>1. call'[t] = call[t] /\ call[t].key \in Keys
      BY <1>2, <2>2 DEF IdemInv, IdemTypeOK, Threads
    <3>2. call[t].stage \in {"absent", "reserved"} => call[t].key # k
      BY <1>1, <1>3, <2>2, <3>1 DEF IdemInv, RunsAlone, Running
    <3> QED
      BY <1>1, <1>3, <3>1, <3>2 DEF IdemInv, FoundFree
  <2> QED
    BY <2>1, <2>2
<1> QED
  BY <1>6, <1>7, <1>8 DEF IdemInv

LEMMA AnswerKeeps ==
  ASSUME IdemInv, NEW s \in Submissions, Answer(s)
  PROVE  IdemInv'
<1> DEFINE k == call[s].key
<1>1. /\ call[s].stage = "reserved" /\ Running(s) /\ k \in Keys
      /\ Advance(s, "done") /\ UNCHANGED contended
  BY DEF Answer, Running, IdemInv, IdemTypeOK, Threads
<1>2. /\ call' \in [Submissions -> Threads]
      /\ call'[s].stage = "done" /\ call'[s].key = k
      /\ \A t \in Submissions \ {s} : call'[t] = call[t]
  BY <1>1, AdvanceStep DEF IdemInv
<1>3. /\ cached' \in [Keys -> {"absent", "live", "expired"}]
      /\ \A j \in Keys \ {k} : cached'[j] = cached[j]
      /\ cached'[k] \in {cached[k], "absent"}
      /\ succeeded' \in [Keys -> SUBSET Submissions]
      /\ \A j \in Keys \ {k} : succeeded'[j] = succeeded[j]
      /\ succeeded'[k] = succeeded[k] \/ succeeded'[k] = succeeded[k] \union {s}
      /\ succeeded'[k] # succeeded[k] => cached'[k] = cached[k]
  BY <1>1 DEF Answer, Releases, IdemInv, IdemTypeOK
<1>4. k \notin contended => cached[k] = "live" /\ succeeded[k] = {}
  BY <1>1 DEF IdemInv, FoundFree
<1>5. IdemTypeOK' /\ RunsAlone'
  BY <1>1, <1>2, <1>3 DEF IdemInv, IdemTypeOK, RunsAlone, Running
<1>6. ProcessedOncePerKey' /\ ProcessedIsLive'
  BY <1>1, <1>3, <1>4 DEF IdemInv, ProcessedOncePerKey, ProcessedIsLive
<1>7. LiveStays'
  BY <1>1, <1>2, <1>3 DEF IdemInv, LiveStays
<1>8. FoundFree'
  <2> SUFFICES ASSUME NEW t \in Submissions, call'[t].key \notin contended',
                      call'[t].stage \in {"absent", "reserved"}
               PROVE  /\ call'[t].stage = "absent" => cached'[call'[t].key] = "absent"
                      /\ call'[t].stage = "reserved" =>
                            cached'[call'[t].key] = "live" /\ succeeded'[call'[t].key] = {}
    BY DEF FoundFree
  <2>1. t # s /\ call'[t] = call[t] /\ call[t].key \in Keys
    BY <1>2 DEF IdemInv, IdemTypeOK, Threads
  <2>2. call[t].key # k
    BY <1>1, <2>1 DEF IdemInv, RunsAlone, Running
  <2> QED
    BY <1>1, <1>3, <2>1, <2>2 DEF IdemInv, FoundFree
<1> QED
  BY <1>5, <1>6, <1>7, <1>8 DEF IdemInv

LEMMA ExpiryKeeps ==
  ASSUME IdemInv, NEW k \in Keys, KeyExpires(k)
  PROVE  IdemInv'
<1>1. /\ cached[k] = "live" /\ contended' = contended \ {k} /\ UNCHANGED call
      /\ \A s \in Submissions : Running(s) => call[s].key # k
  BY DEF KeyExpires
<1>2. /\ cached' \in [Keys -> {"absent", "live", "expired"}]
      /\ cached'[k] = "expired" /\ \A j \in Keys \ {k} : cached'[j] = cached[j]
      /\ succeeded' \in [Keys -> SUBSET Submissions]
      /\ succeeded'[k] = {} /\ \A j \in Keys \ {k} : succeeded'[j] = succeeded[j]
  BY DEF KeyExpires, IdemInv, IdemTypeOK
<1>3. IdemTypeOK' /\ RunsAlone'
  BY <1>1, <1>2 DEF IdemInv, IdemTypeOK, RunsAlone, Running
<1>4. LiveStays' /\ ProcessedIsLive' /\ ProcessedOncePerKey'
  BY <1>1, <1>2 DEF IdemInv, LiveStays, ProcessedIsLive, ProcessedOncePerKey
<1>5. FoundFree'
  <2> SUFFICES ASSUME NEW s \in Submissions, call'[s].key \notin contended',
                      call'[s].stage \in {"absent", "reserved"}
               PROVE  /\ call'[s].stage = "absent" => cached'[call'[s].key] = "absent"
                      /\ call'[s].stage = "reserved" =>
                            cached'[call'[s].key] = "live" /\ succeeded'[call'[s].key] = {}
    BY DEF FoundFree
  <2>1. call[s].key \in Keys \ {k}
    BY <1>1 DEF IdemInv, IdemTypeOK, Threads, Running
  <2> QED
    BY <1>1, <1>2, <2>1 DEF IdemInv, FoundFree
<1> QED
  BY <1>3, <1>4, <1>5 DEF IdemInv

LEMMA RestartKeeps ==
  ASSUME IdemInv, ProcessRestarts
  PROVE  IdemInv'
<1>1. /\ cached' = [k \in Keys |-> "absent"] /\ contended' = {}
      /\ succeeded' = [k \in Keys |-> {}]
      /\ call' = [s \in Submissions |->
                    IF Running(s) THEN [call[s] EXCEPT !.stage = "done"] ELSE call[s]]
  BY DEF ProcessRestarts
<1>2. call' \in [Submissions -> Threads] /\ \A s \in Submissions : ~Running(s)'
  BY <1>1 DEF IdemInv, IdemTypeOK, Threads, Running
<1>3. IdemTypeOK'
  BY <1>1, <1>2 DEF IdemTypeOK
<1> QED
  BY <1>1, <1>2, <1>3
     DEF IdemInv, RunsAlone, LiveStays, ProcessedIsLive, FoundFree, ProcessedOncePerKey, Running

LEMMA IdemInductive == IdemInv /\ [IdemNext]_idemVars => IdemInv'
<1>1. CASE IdemNext
  BY <1>1, ListKeeps, EvictKeeps, CheckKeeps, ReserveKeeps, AnswerKeeps, ExpiryKeeps,
     RestartKeeps DEF IdemNext
<1>2. CASE UNCHANGED idemVars
  BY <1>2 DEF idemVars, IdemInv, IdemTypeOK, RunsAlone, LiveStays, ProcessedIsLive,
              FoundFree, ProcessedOncePerKey, Running
<1> QED
  BY <1>1, <1>2

(* Whatever threads list, evict, fail and retry, and however often the     *)
(* process restarts, a key that no two threads met on is processed once.   *)
THEOREM KeysAreProcessedOnce == IdemSpec => []ProcessedOncePerKey
<1>1. IdemInv => ProcessedOncePerKey
  BY DEF IdemInv
<1> QED
  BY <1>1, IdemStart, IdemInductive, PTL DEF IdemSpec

-----------------------------------------------------------------------------

(* Alert rules.  What the log holds of a rule is what the changes that are *)
(* done made of it (LogIsOfChanges), and no two of them have one stamp     *)
(* (StampsDiffer), so the change stamped last is the one that rules.       *)

RuleStates == {NotCreated} \union [created : {TRUE}, condition : Conditions]

IdleChanges == [stage : {"idle"}, event : {NoEvent}]
MadeChanges ==
    [stage : {"begun", "stamped", "done", "failed"}, rule : Rules, event : LogEvents]

AlertShapes ==
    /\ rules \in [Rules -> RuleStates]
    /\ events \in [Rules -> SUBSET LogEvents]
    /\ change \in [Changes -> IdleChanges \union MadeChanges]
    /\ time \in Nat \ {0}
    /\ orders \in Seq(OrderStatuses) /\ Len(orders) <= MaxOrders
    /\ reads \subseteq Rules \X (1..MaxOrders) \X OrderStatuses

Stamped(h) == change[h].stage \in {"stamped", "done"}

StampsDiffer ==
    /\ \A h \in Changes : Stamped(h) =>
          /\ change[h].event.kind \in {"acknowledge", "snooze"}
          /\ change[h].event.kind = "snooze" => change[h].event.until # 0
          /\ change[h].event.stamp < time
    /\ \A h, k \in Changes :
          Stamped(h) /\ Stamped(k) /\ change[h].event.stamp = change[k].event.stamp => h = k

LogIsOfChanges ==
    /\ \A h \in Changes : change[h].stage = "done" =>
          change[h].event \in events[change[h].rule]
    /\ \A r \in Rules : \A e \in events[r] : \E h \in Changes :
          change[h].stage = "done" /\ change[h].rule = r /\ change[h].event = e

AlertInv == AlertShapes /\ StampsDiffer /\ LogIsOfChanges

LEMMA AlertTyped == AlertShapes => AlertTypeOK
<1> SUFFICES ASSUME AlertShapes PROVE AlertTypeOK
  OBVIOUS
<1>1. \A r \in Rules : rules[r].created => rules[r].condition \in Conditions
  <2> SUFFICES ASSUME NEW r \in Rules, rules[r].created
               PROVE  rules[r].condition \in Conditions
    OBVIOUS
  <2>1. rules[r] # NotCreated
    BY DEF NotCreated
  <2>2. rules[r] \in [created : {TRUE}, condition : Conditions]
    BY <2>1 DEF AlertShapes, RuleStates
  <2> QED
    BY <2>2
<1>2. \A h \in Changes :
         /\ change[h].stage \in {"idle", "begun", "stamped", "done", "failed"}
         /\ change[h].event \in LogEvents
         /\ change[h].stage # "idle" => change[h].rule \in Rules
  <2> SUFFICES ASSUME NEW h \in Changes
               PROVE  /\ change[h].stage \in {"idle", "begun", "stamped", "done", "failed"}
                      /\ change[h].event \in LogEvents
                      /\ change[h].stage # "idle" => change[h].rule \in Rules
    OBVIOUS
  <2>1. CASE change[h] \in IdleChanges
    BY <2>1 DEF IdleChanges, NoEvent, LogEvents
  <2>2. CASE change[h] \in MadeChanges
    BY <2>2 DEF MadeChanges
  <2> QED
    BY <2>1, <2>2 DEF AlertShapes
<1> QED
  BY <1>1, <1>2 DEF AlertShapes, AlertTypeOK

LEMMA AlertStart == AlertInit => AlertInv
<1> SUFFICES ASSUME AlertInit PROVE AlertInv
  OBVIOUS
<1>1. AlertShapes
  BY AlertAssumption DEF AlertInit, AlertShapes, RuleStates, IdleChanges
<1>2. \A h \in Changes : change[h].stage = "idle"
  BY DEF AlertInit
<1> QED
  BY <1>1, <1>2 DEF AlertInit, AlertInv, StampsDiffer, LogIsOfChanges, Stamped

(* Steps that leave the changes and the log alone. *)
LEMMA AlertQuiet ==
  ASSUME AlertInv, AlertShapes', UNCHANGED <<events, change>>, time' >= time
  PROVE  AlertInv'
<1>1. \A h \in Changes : change[h].event.stamp \in Nat
  BY AlertTyped DEF AlertInv, AlertTypeOK, LogEvents
<1>2. StampsDiffer'
  BY <1>1 DEF AlertInv, AlertShapes, StampsDiffer, Stamped
<1>3. LogIsOfChanges'
  BY DEF AlertInv, LogIsOfChanges
<1> QED
  BY <1>2, <1>3 DEF AlertInv

LEMMA CreateKeeps ==
  ASSUME AlertInv, NEW r \in Rules, CreateRule(r)
  PROVE  AlertInv'
<1>1. PICK c \in Conditions : rules' = [rules EXCEPT ![r] = [created |-> TRUE, condition |-> c]]
  BY DEF CreateRule
<1>2. UNCHANGED <<events, change, time, orders, reads>>
  BY DEF CreateRule
<1>3. AlertShapes'
  BY <1>1, <1>2 DEF AlertInv, AlertShapes, RuleStates
<1> QED
  BY <1>2, <1>3, AlertQuiet DEF AlertInv, AlertShapes

LEMMA OrdersKeep ==
  ASSUME AlertInv, PlaceOrder \/ \E n \in 1..Len(orders) : MoveOrder(n)
  PROVE  AlertInv'
<1>1. UNCHANGED <<rules, events, change, reads>> /\ time' \in Nat \ {0} /\ time' >= time
  BY DEF PlaceOrder, MoveOrder, AlertInv, AlertShapes
<1>2. orders' \in Seq(OrderStatuses) /\ Len(orders') <= MaxOrders
  <2>1. CASE PlaceOrder
    <3>1. PICK s \in OrderStatuses : orders' = Append(orders, s)
      BY <2>1 DEF PlaceOrder
    <3>2. orders \in Seq(OrderStatuses) /\ Len(orders) < MaxOrders /\ Len(orders) \in Nat
      BY <2>1 DEF PlaceOrder, AlertInv, AlertShapes
    <3>3. orders' \in Seq(OrderStatuses) /\ Len(orders') = Len(orders) + 1
      BY <3>1, <3>2
    <3> QED
      BY <3>2, <3>3, AlertAssumption
  <2>2. ASSUME NEW n \in 1..Len(orders), MoveOrder(n)
        PROVE  orders' \in Seq(OrderStatuses) /\ Len(orders') <= MaxOrders
    <3>1. PICK s \in OrderStatuses : orders' = [orders EXCEPT ![n] = s]
      BY <2>2 DEF MoveOrder
    <3>2. orders \in Seq(OrderStatuses) /\ Len(orders) <= MaxOrders
      BY DEF AlertInv, AlertShapes
    <3>3. orders' \in Seq(OrderStatuses) /\ Len(orders') = Len(orders)
      BY <3>1, <3>2
    <3> QED
      BY <3>2, <3>3
  <2> QED
    BY <2>1, <2>2
<1>3. AlertShapes'
  BY <1>1, <1>2 DEF AlertInv, AlertShapes
<1> QED
  BY <1>1, <1>3, AlertQuiet

LEMMA ReadingKeeps ==
  ASSUME AlertInv, NEW alert \in ActiveAlerts, MarkAsRead(alert)
  PROVE  AlertInv'
<1>1. UNCHANGED <<rules, events, change, time, orders>> /\ reads' = reads \union {alert}
  BY DEF MarkAsRead
<1>2. alert \in Rules \X (1..MaxOrders) \X OrderStatuses
  <2>1. alert \in Rules \X (1..Len(orders)) \X OrderStatuses
    BY DEF ActiveAlerts
  <2>2. 1..Len(orders) \subseteq 1..MaxOrders
    BY AlertAssumption DEF AlertInv, AlertShapes
  <2> QED
    BY <2>1, <2>2
<1>3. AlertShapes'
  BY <1>1, <1>2 DEF AlertInv, AlertShapes
<1> QED
  BY <1>1, <1>3, AlertQuiet DEF AlertInv, AlertShapes

(* A change that moves on without reaching the log.                        *)
LEMMA ChangeStep ==
  ASSUME AlertInv, NEW h \in Changes, NEW c \in MadeChanges,
         change' = [change EXCEPT ![h] = c],
         change[h].stage # "done", c.stage # "done",
         c.stage = "stamped" =>
             /\ c.event.kind \in {"acknowledge", "snooze"}
             /\ c.event.kind = "snooze" => c.event.until # 0
             /\ c.event.stamp = time /\ time' = time + 1,
         time' \in {time, time + 1},
         UNCHANGED <<rules, events, orders, reads>>
  PROVE  AlertInv'
<1>1. /\ change' \in [Changes -> IdleChanges \union MadeChanges]
      /\ change'[h] = c /\ \A k \in Changes \ {h} : change'[k] = change[k]
  BY DEF AlertInv, AlertShapes
<1>2. time \in Nat /\ time' \in Nat \ {0} /\ time' >= time
  BY DEF AlertInv, AlertShapes
<1>3. AlertShapes'
  BY <1>1, <1>2 DEF AlertInv, AlertShapes
<1>4. \A k \in Changes : change[k].event.stamp \in Nat
  BY AlertTyped DEF AlertInv, AlertTypeOK, LogEvents
<1>5. StampsDiffer'
  <2>1. \A k \in Changes \ {h} : Stamped(k) => change[k].event.stamp < time
    BY DEF AlertInv, StampsDiffer
  <2> QED
    BY <1>1, <1>2, <1>4, <2>1 DEF AlertInv, StampsDiffer, Stamped
<1>6. LogIsOfChanges'
  BY <1>1 DEF AlertInv, LogIsOfChanges
<1> QED
  BY <1>3, <1>5, <1>6 DEF AlertInv

LEMMA BeginKeeps ==
  ASSUME AlertInv, NEW h \in Changes, NEW r \in Rules, BeginChange(h, r)
  PROVE  AlertInv'
<1> DEFINE c == [stage |-> "begun", rule |-> r, event |-> [NoEvent EXCEPT !.begun = time]]
<1>1. c \in MadeChanges /\ c.stage = "begun"
  BY DEF MadeChanges, LogEvents, NoEvent, AlertInv, AlertShapes
<1>2. /\ change' = [change EXCEPT ![h] = c] /\ change[h].stage = "idle"
      /\ time' = time + 1 /\ UNCHANGED <<rules, events, orders, reads>>
  BY DEF BeginChange
<1> HIDE DEF c
<1> QED
  BY <1>1, <1>2, ChangeStep

LEMMA MadeRecord ==
  ASSUME AlertInv, NEW h \in Changes, change[h].stage # "idle"
  PROVE  change[h] \in MadeChanges
BY DEF AlertInv, AlertShapes, IdleChanges

LEMMA StampKeeps ==
  ASSUME AlertInv, NEW h \in Changes, StampChange(h)
  PROVE  AlertInv'
<1>1. PICK kind \in {"acknowledge", "snooze"}, minutes \in 1..3 :
         change' = [change EXCEPT
                ![h].stage = "stamped",
                ![h].event.kind = kind, ![h].event.stamp = time,
                ![h].event.until = IF kind = "snooze" THEN time + minutes ELSE 0]
  BY DEF StampChange
<1> DEFINE until == IF kind = "snooze" THEN time + minutes ELSE 0
           event == [change[h].event EXCEPT !.kind = kind, !.stamp = time, !.until = until]
           c == [change[h] EXCEPT !.stage = "stamped", !.event = event]
<1>2. change[h] \in MadeChanges /\ change[h].stage = "begun"
  BY MadeRecord DEF StampChange
<1>3. time \in Nat /\ until \in Nat /\ (kind = "snooze" => until # 0)
  BY DEF AlertInv, AlertShapes
<1> HIDE DEF until
<1>4. event \in LogEvents /\ event.kind = kind /\ event.stamp = time /\ event.until = until
  BY <1>2, <1>3 DEF MadeChanges, LogEvents
<1>5. change' = [change EXCEPT ![h] = c]
  BY <1>1, <1>2 DEF until, MadeChanges, LogEvents, AlertInv, AlertShapes
<1> HIDE DEF event
<1>6. c \in MadeChanges /\ c.stage = "stamped" /\ c.event = event
  BY <1>2, <1>4 DEF MadeChanges
<1>7. time' = time + 1 /\ UNCHANGED <<rules, events, orders, reads>>
  BY DEF StampChange
<1> HIDE DEF c
<1> QED
  BY <1>2, <1>3, <1>4, <1>5, <1>6, <1>7, ChangeStep

LEMMA FailChangeKeeps ==
  ASSUME AlertInv, NEW h \in Changes, FailChange(h)
  PROVE  AlertInv'
<1> DEFINE c == [change[h] EXCEPT !.stage = "failed"]
<1>1. change[h] \in MadeChanges /\ change[h].stage \in {"begun", "stamped"}
  BY MadeRecord DEF FailChange
<1>2. c \in MadeChanges /\ c.stage = "failed"
  BY <1>1 DEF MadeChanges
<1>3. change' = [change EXCEPT ![h] = c] /\ time' = time /\ UNCHANGED <<rules, events, orders, reads>>
  BY DEF FailChange
<1> HIDE DEF c
<1> QED
  BY <1>1, <1>2, <1>3, ChangeStep

LEMMA CommitChangeKeeps ==
  ASSUME AlertInv, NEW h \in Changes, CommitChange(h)
  PROVE  AlertInv'
<1> DEFINE c == [change[h] EXCEPT !.stage = "done"]
           r == change[h].rule
<1>1. change[h] \in MadeChanges /\ change[h].stage = "stamped"
  BY MadeRecord DEF CommitChange
<1>2. /\ c \in MadeChanges /\ c.stage = "done" /\ c.rule = r /\ c.event = change[h].event
      /\ r \in Rules /\ change[h].event \in LogEvents
  BY <1>1 DEF MadeChanges
<1>3. /\ change' = [change EXCEPT ![h] = c]
      /\ events' = [events EXCEPT ![r] = @ \union {change[h].event}]
      /\ UNCHANGED <<rules, time, orders, reads>>
  BY DEF CommitChange
<1> HIDE DEF c
<1>4. /\ change' \in [Changes -> IdleChanges \union MadeChanges]
      /\ change'[h] = c /\ \A k \in Changes \ {h} : change'[k] = change[k]
  BY <1>2, <1>3 DEF AlertInv, AlertShapes
<1>5. /\ events' \in [Rules -> SUBSET LogEvents]
      /\ events'[r] = events[r] \union {change[h].event}
      /\ \A s \in Rules \ {r} : events'[s] = events[s]
  BY <1>2, <1>3 DEF AlertInv, AlertShapes
<1>6. AlertShapes'
  BY <1>3, <1>4, <1>5 DEF AlertInv, AlertShapes
<1>7. StampsDiffer'
  <2>1. \A k \in Changes : change'[k].event = change[k].event /\ (Stamped(k)' <=> Stamped(k))
    BY <1>1, <1>2, <1>4 DEF Stamped
  <2> QED
    BY <1>3, <2>1 DEF AlertInv, StampsDiffer
<1>8. LogIsOfChanges'
  <2>1. \A k \in Changes : change'[k].stage = "done" =>
           change'[k].event \in events'[change'[k].rule]
    <3> SUFFICES ASSUME NEW k \in Changes, change'[k].stage = "done"
                 PROVE  change'[k].event \in events'[change'[k].rule]
      OBVIOUS
    <3>1. CASE k = h
      BY <1>2, <1>4, <1>5, <3>1
    <3>2. CASE k # h
      <4>1. change'[k] = change[k] /\ change[k].rule \in Rules
        BY <1>4, <3>2, MadeRecord DEF MadeChanges
      <4> QED
        BY <1>2, <1>5, <4>1 DEF AlertInv, LogIsOfChanges
    <3> QED
      BY <3>1, <3>2
  <2>2. \A s \in Rules : \A e \in events'[s] : \E k \in Changes :
           change'[k].stage = "done" /\ change'[k].rule = s /\ change'[k].event = e
    <3> SUFFICES ASSUME NEW s \in Rules, NEW e \in events'[s]
                 PROVE  \E k \in Changes : /\ change'[k].stage = "done"
                                           /\ change'[k].rule = s /\ change'[k].event = e
      OBVIOUS
    <3>1. CASE e \in events[s]
      <4>1. PICK k \in Changes :
               change[k].stage = "done" /\ change[k].rule = s /\ change[k].event = e
        BY <3>1 DEF AlertInv, LogIsOfChanges
      <4>2. k # h
        BY <1>1, <4>1
      <4> QED
        BY <1>4, <4>1, <4>2
    <3>2. CASE e \notin events[s]
      BY <1>2, <1>4, <1>5, <3>2
    <3> QED
      BY <3>1, <3>2
  <2> QED
    BY <2>1, <2>2 DEF LogIsOfChanges
<1> QED
  BY <1>6, <1>7, <1>8 DEF AlertInv

LEMMA AlertInductive == AlertInv /\ [AlertNext]_alertVars => AlertInv'
<1>1. CASE AlertNext
  BY <1>1, CreateKeeps, BeginKeeps, StampKeeps, CommitChangeKeeps, FailChangeKeeps,
     OrdersKeep, ReadingKeeps DEF AlertNext
<1>2. CASE UNCHANGED alertVars
  <2>1. UNCHANGED <<rules, events, change, time, orders, reads>>
    BY <1>2 DEF alertVars
  <2>2. AlertInv => AlertShapes' /\ time' >= time
    BY <2>1 DEF AlertInv, AlertShapes
  <2> QED
    BY <2>1, <2>2, AlertQuiet
<1> QED
  BY <1>1, <1>2

(* The change stamped last is the event that list_rules applies last.      *)
LEMMA LastChangeIsLatest ==
  ASSUME AlertInv, NEW h \in Changes, change[h].stage = "done",
         \A k \in Changes :
             change[k].stage = "done" /\ change[k].rule = change[h].rule
                 => ~ (change[k].event.stamp > change[h].event.stamp)
  PROVE  Latest(events[change[h].rule]) = change[h].event
<1> DEFINE r == change[h].rule
           made == change[h].event
           last == CHOOSE e \in events[r] : \A other \in events[r] : other.stamp <= e.stamp
<1>1. r \in Rules /\ made \in events[r]
  BY MadeRecord DEF AlertInv, LogIsOfChanges, MadeChanges
<1>2. \A e \in events[r] : e.stamp \in Nat
  BY <1>1 DEF AlertInv, AlertShapes, LogEvents
<1>3. \A other \in events[r] : other.stamp <= made.stamp
  <2> SUFFICES ASSUME NEW other \in events[r] PROVE other.stamp <= made.stamp
    OBVIOUS
  <2>1. PICK k \in Changes :
           change[k].stage = "done" /\ change[k].rule = r /\ change[k].event = other
    BY <1>1 DEF AlertInv, LogIsOfChanges
  <2>2. ~ (other.stamp > made.stamp)
    BY <2>1
  <2> QED
    BY <1>1, <1>2, <2>2
<1>4. last \in events[r] /\ \A other \in events[r] : other.stamp <= last.stamp
  BY <1>1, <1>3
<1> HIDE DEF last
<1>5. last.stamp = made.stamp
  BY <1>1, <1>2, <1>3, <1>4
<1>6. PICK k \in Changes : change[k].stage = "done" /\ change[k].event = last
  BY <1>1, <1>4 DEF AlertInv, LogIsOfChanges
<1>7. k = h
  BY <1>5, <1>6 DEF AlertInv, StampsDiffer, Stamped
<1>8. last = made
  BY <1>6, <1>7
<1> QED
  BY <1>1, <1>8 DEF Latest, last

LEMMA AlertRuled == AlertInv => LastChangeRules
<1> SUFFICES ASSUME AlertInv, NEW h \in Changes, change[h].stage = "done",
                    {k \in Changes : /\ change[k].stage = "done"
                                     /\ change[k].rule = change[h].rule
                                     /\ change[k].event.stamp > change[h].event.stamp} = {},
                    change[h].event.until = 0 \/ change[h].event.until > time
             PROVE  ~ Alerting(change[h].rule)
  BY DEF LastChangeRules
<1>1. Latest(events[change[h].rule]) = change[h].event
  BY LastChangeIsLatest
<1>2. /\ change[h].event.kind \in {"acknowledge", "snooze"}
      /\ change[h].event.kind = "snooze" => change[h].event.until # 0
  BY DEF AlertInv, StampsDiffer, Stamped
<1>3. change[h].event.until \in Nat /\ time \in Nat
  BY MadeRecord DEF MadeChanges, LogEvents, AlertInv, AlertShapes
<1> QED
  BY <1>1, <1>2, <1>3 DEF Alerting

(* A rule follows the change stamped last, in whatever order the commits   *)
(* fall and whatever fails.                                                *)
THEOREM LastChangeAlwaysRules == AlertSpec => []LastChangeRules
BY AlertStart, AlertInductive, AlertRuled, PTL DEF AlertSpec

-----------------------------------------------------------------------------

(* The broker's books: what an ingestion has looked up is on record, or is *)
(* about to be (LookedUp), whichever ingestions run beside it.             *)

(* The rows an ingestion is about to insert, by the fills they are of.     *)
PendingRows == UNION {[K -> [fingerprint : OrderRefs \X Prices, pnl : DayPnls]] : K \in SUBSET Nat}

IngestionStates ==
    [stage : {"idle", "fetched", "added", "acknowledged", "failed"},
     fetched : Seq(Fills), pending : PendingRows]

(* Every fill an ingestion has looked up is on record, or is among the     *)
(* rows it is about to insert; once it is acknowledged, it is on record.   *)
LookedUp ==
    \A b \in Ingestions : \A k \in 1..Len(ingestion[b].fetched) :
        LET fingerprint == Fingerprint(ingestion[b].fetched[k])
            pending == ingestion[b].pending
        IN  /\ ingestion[b].stage = "added" =>
                  \/ fingerprint \in Fingerprints(staged)
                  \/ \E n \in DOMAIN pending : pending[n].fingerprint = fingerprint
            /\ ingestion[b].stage = "acknowledged" => fingerprint \in Fingerprints(staged)

BooksInv ==
    /\ fills \in Seq(Fills)
    /\ ingestion \in [Ingestions -> IngestionStates]
    /\ LookedUp

LEMMA BooksStart == BooksInit => BooksInv
<1> SUFFICES ASSUME BooksInit PROVE BooksInv
  OBVIOUS
<1>1. <<>> \in PendingRows
  <2>1. <<>> \in [{} -> [fingerprint : OrderRefs \X Prices, pnl : DayPnls]]
    OBVIOUS
  <2> QED
    BY <2>1 DEF PendingRows
<1>2. [stage |-> "idle", fetched |-> <<>>, pending |-> <<>>] \in IngestionStates
  BY <1>1 DEF IngestionStates
<1> QED
  BY <1>2 DEF BooksInit, BooksInv, LookedUp

(* A step of one ingestion that adds no row to those on record, or adds    *)
(* some, and leaves what the others have looked up as it was.              *)
LEMMA IngestionKeeps ==
  ASSUME BooksInv, NEW b \in Ingestions, NEW run \in IngestionStates,
         ingestion' = [ingestion EXCEPT ![b] = run],
         fills' = fills, staged \subseteq staged',
         \A k \in 1..Len(run.fetched) :
             /\ run.stage = "added" =>
                   \/ Fingerprint(run.fetched[k]) \in Fingerprints(staged')
                   \/ \E n \in DOMAIN run.pending :
                         run.pending[n].fingerprint = Fingerprint(run.fetched[k])
             /\ run.stage = "acknowledged" => Fingerprint(run.fetched[k]) \in Fingerprints(staged')
  PROVE  BooksInv'
<1>1. /\ ingestion' \in [Ingestions -> IngestionStates]
      /\ ingestion'[b] = run
      /\ \A a \in Ingestions \ {b} : ingestion'[a] = ingestion[a]
  BY DEF BooksInv
<1>2. \A f : f \in Fingerprints(staged) => f \in Fingerprints(staged')
  BY DEF Fingerprints
<1>3. LookedUp'
  <2> SUFFICES ASSUME NEW a \in Ingestions, NEW k \in 1..Len(ingestion'[a].fetched)
               PROVE  /\ ingestion'[a].stage = "added" =>
                            \/ Fingerprint(ingestion'[a].fetched[k]) \in Fingerprints(staged')
                            \/ \E n \in DOMAIN ingestion'[a].pending :
                                  ingestion'[a].pending[n].fingerprint
                                      = Fingerprint(ingestion'[a].fetched[k])
                      /\ ingestion'[a].stage = "acknowledged" =>
                            Fingerprint(ingestion'[a].fetched[k]) \in Fingerprints(staged')
    BY DEF LookedUp, Fingerprint, Fingerprints
  <2>1. CASE a = b
    BY <1>1, <2>1
  <2>2. CASE a # b
    BY <1>1, <1>2, <2>2 DEF BooksInv, LookedUp
  <2> QED
    BY <2>1, <2>2
<1> QED
  BY <1>1, <1>3 DEF BooksInv

LEMMA FetchKeeps ==
  ASSUME BooksInv, NEW b \in Ingestions, FetchFills(b) \/ FailIngestion(b)
  PROVE  BooksInv'
<1>1. ingestion[b] \in IngestionStates
  BY DEF BooksInv
<1>2. CASE FetchFills(b)
  <2> DEFINE run == [ingestion[b] EXCEPT !.stage = "fetched", !.fetched = fills]
  <2>1. run \in IngestionStates /\ run.stage = "fetched"
    BY <1>1 DEF IngestionStates, BooksInv
  <2>2. ingestion' = [ingestion EXCEPT ![b] = run] /\ UNCHANGED <<fills, staged>>
    BY <1>2 DEF FetchFills, BooksInv
  <2> HIDE DEF run
  <2> QED
    BY <2>1, <2>2, IngestionKeeps
<1>3. CASE FailIngestion(b)
  <2> DEFINE run == [ingestion[b] EXCEPT !.stage = "failed"]
  <2>1. run \in IngestionStates /\ run.stage = "failed"
    BY <1>1 DEF IngestionStates
  <2>2. ingestion' = [ingestion EXCEPT ![b] = run] /\ UNCHANGED <<fills, staged>>
    BY <1>3 DEF FailIngestion, BooksInv
  <2> HIDE DEF run
  <2> QED
    BY <2>1, <2>2, IngestionKeeps
<1> QED
  BY <1>2, <1>3

LEMMA AddRowsKeeps ==
  ASSUME BooksInv, NEW b \in Ingestions, AddRows(b)
  PROVE  BooksInv'
<1> DEFINE fetched == ingestion[b].fetched
           new == {k \in 1..Len(fetched) : Fingerprint(fetched[k]) \notin Fingerprints(staged)}
           rows == [k \in new |-> RowOf(fetched[k])]
           run == [ingestion[b] EXCEPT !.stage = "added", !.pending = rows]
<1>1. ingestion[b] \in IngestionStates /\ fetched \in Seq(Fills)
  BY DEF BooksInv, IngestionStates
<1>2. \A k \in 1..Len(fetched) :
         /\ RowOf(fetched[k]) \in [fingerprint : OrderRefs \X Prices, pnl : DayPnls]
         /\ RowOf(fetched[k]).fingerprint = Fingerprint(fetched[k])
  <2> SUFFICES ASSUME NEW k \in 1..Len(fetched)
               PROVE  /\ RowOf(fetched[k]) \in [fingerprint : OrderRefs \X Prices, pnl : DayPnls]
                      /\ RowOf(fetched[k]).fingerprint = Fingerprint(fetched[k])
    OBVIOUS
  <2>1. fetched[k] \in Fills
    BY <1>1
  <2>2. Realised(fetched[k]) \in DayPnls
    <3>1. fetched[k].gain \in Int
      BY <2>1, BooksAssumption DEF Fills
    <3> DEFINE gain == fetched[k].gain
    <3> HIDE DEF gain
    <3>2. /\ [known |-> TRUE, value |-> gain] \in DayPnls
          /\ [known |-> FALSE, value |-> 0] \in DayPnls
      BY <3>1 DEF DayPnls, gain
    <3> QED
      BY <3>2 DEF Realised, NoPnl, gain
  <2>3. Fingerprint(fetched[k]) \in OrderRefs \X Prices
    BY <2>1 DEF Fills, Fingerprint
  <2> QED
    BY <2>2, <2>3 DEF RowOf
<1>3. ingestion' = [ingestion EXCEPT ![b] = run] /\ UNCHANGED <<fills, staged>>
  BY DEF AddRows, BooksInv
<1> HIDE DEF new
<1>4. rows \in PendingRows /\ DOMAIN rows = new
  <2>1. new \in SUBSET Nat /\ new \subseteq 1..Len(fetched)
    BY <1>1 DEF new
  <2>2. rows \in [new -> [fingerprint : OrderRefs \X Prices, pnl : DayPnls]]
    BY <1>2, <2>1
  <2> QED
    BY <2>1, <2>2 DEF PendingRows
<1>5. \A k \in 1..Len(fetched) :
         \/ Fingerprint(fetched[k]) \in Fingerprints(staged)
         \/ k \in new /\ rows[k].fingerprint = Fingerprint(fetched[k])
  BY <1>2 DEF new
<1> HIDE DEF rows
<1>6. /\ run \in IngestionStates
      /\ run.stage = "added" /\ run.fetched = fetched /\ run.pending = rows
  BY <1>1, <1>4 DEF IngestionStates
<1> HIDE DEF run, fetched
<1> QED
  BY <1>3, <1>4, <1>5, <1>6, IngestionKeeps

LEMMA CommitRowsKeeps ==
  ASSUME BooksInv, NEW b \in Ingestions, CommitRows(b)
  PROVE  BooksInv'
<1> DEFINE run == [ingestion[b] EXCEPT !.stage = "acknowledged"]
           rows == ingestion[b].pending
<1>1. ingestion[b] \in IngestionStates /\ ingestion[b].stage = "added"
  BY DEF BooksInv, CommitRows
<1>2. /\ run \in IngestionStates /\ run.stage = "acknowledged"
      /\ run.fetched = ingestion[b].fetched
  BY <1>1 DEF IngestionStates
<1>3. /\ ingestion' = [ingestion EXCEPT ![b] = run] /\ fills' = fills
      /\ staged' = staged \union {rows[k] : k \in DOMAIN rows}
  BY DEF CommitRows, BooksInv
<1>4. \A k \in 1..Len(run.fetched) : Fingerprint(run.fetched[k]) \in Fingerprints(staged')
  <2> SUFFICES ASSUME NEW k \in 1..Len(ingestion[b].fetched)
               PROVE  Fingerprint(ingestion[b].fetched[k]) \in Fingerprints(staged')
    BY <1>2
  <2> DEFINE f == Fingerprint(ingestion[b].fetched[k])
  <2>1. f \in Fingerprints(staged) \/ \E n \in DOMAIN rows : rows[n].fingerprint = f
    BY <1>1 DEF BooksInv, LookedUp
  <2>2. staged \subseteq staged' /\ \A n \in DOMAIN rows : rows[n] \in staged'
    BY <1>3
  <2> HIDE DEF rows, f
  <2>3. f \in Fingerprints(staged')
    BY <2>1, <2>2 DEF Fingerprints
  <2> QED
    BY <2>3 DEF f
<1> HIDE DEF run, rows
<1> QED
  BY <1>2, <1>3, <1>4, IngestionKeeps

(* What happens at the broker, and the snapshots.                          *)
LEMMA BrokerKeeps ==
  ASSUME BooksInv, Fill \/ CaptureSnapshot \/ \E k \in 1..Len(fills) : ReportCommission(k)
  PROVE  BooksInv'
<1>1. UNCHANGED <<ingestion, staged>>
  BY DEF Fill, CaptureSnapshot, ReportCommission
<1>2. fills' \in Seq(Fills)
  <2>1. fills \in Seq(Fills)
    BY DEF BooksInv
  <2>2. CASE Fill
    BY <2>1, <2>2 DEF Fill
  <2>3. CASE CaptureSnapshot
    BY <2>1, <2>3 DEF CaptureSnapshot
  <2>4. ASSUME NEW k \in 1..Len(fills), ReportCommission(k) PROVE fills' \in Seq(Fills)
    <3> DEFINE fill == [fills[k] EXCEPT !.reported = TRUE]
    <3>1. fill \in Fills
      <4>1. fills[k] \in Fills
        BY <2>1
      <4> QED
        BY <4>1 DEF Fills
    <3>2. fills' = [fills EXCEPT ![k] = fill]
      BY <2>1, <2>4 DEF ReportCommission
    <3> HIDE DEF fill
    <3> QED
      BY <2>1, <3>1, <3>2
  <2> QED
    BY <2>2, <2>3, <2>4
<1> QED
  BY <1>1, <1>2 DEF BooksInv, LookedUp, Fingerprint, Fingerprints

LEMMA BooksInductive == BooksInv /\ [BooksNext]_booksVars => BooksInv'
<1>1. CASE BooksNext
  BY <1>1, FetchKeeps, AddRowsKeeps, CommitRowsKeeps, BrokerKeeps DEF BooksNext
<1>2. CASE UNCHANGED booksVars
  BY <1>2 DEF booksVars, BooksInv, LookedUp, Fingerprint, Fingerprints
<1> QED
  BY <1>1, <1>2

LEMMA BooksStaged == BooksInv => AcknowledgedIsStaged
BY DEF BooksInv, LookedUp, AcknowledgedIsStaged, Fingerprint

(* No fill that was acknowledged is missing on record.                     *)
THEOREM AcknowledgedFillsAreStaged == BooksSpec => []AcknowledgedIsStaged
BY BooksStart, BooksInductive, BooksStaged, PTL DEF BooksSpec

-----------------------------------------------------------------------------

(* The stores in files.  The lock leaves one upsert at a time in progress  *)
(* (JournalHeld); of the log the same holds until two appends cross        *)
(* (LogHeld).                                                              *)

Resting == [stage : {"idle", "done", "failed"}, file : Files]

Upserting ==
    [stage : {"read", "truncated"}, file : {"journal"}, execution : Executions,
     store : [Executions -> Writers \union {NoWriter}]]

Appending == [stage : {"read", "truncated"}, file : {"log"}, store : Seq(Writers)]

WriterStates == Resting \union Upserting \union Appending

FileShapes ==
    /\ journal \in [torn : BOOLEAN, store : [Executions -> Writers \union {NoWriter}]]
    /\ runLog \in [torn : BOOLEAN, store : Seq(Writers)]
    /\ writer \in [Writers -> WriterStates]
    /\ upserted \in [Executions -> Writers \union {NoWriter}]
    /\ appended \in Seq(Writers)
    /\ cut \subseteq Files
    /\ crossed \in BOOLEAN

Truncated(w, file) == writer[w].stage = "truncated" /\ writer[w].file = file

(* Under the lock: one upsert at a time, and as long as no write was cut   *)
(* short, the file is torn only by the one in progress, which has read     *)
(* what was acknowledged last and adds its own.                            *)
JournalHeld ==
    /\ \A v, w \in Busy("journal") : v = w
    /\ "journal" \notin cut =>
          /\ journal.torn => \E w \in Writers : Truncated(w, "journal")
          /\ journal.store = upserted
          /\ \A w \in Busy("journal") :
                writer[w].store = [upserted EXCEPT ![writer[w].execution] = w]

(* The same of the log, as long as no append began beside another.         *)
LogHeld ==
    crossed \/ "log" \in cut \/
        /\ \A v, w \in Busy("log") : v = w
        /\ runLog.torn => \E w \in Writers : Truncated(w, "log")
        /\ runLog.store = Newest(appended)
        /\ \A w \in Busy("log") : writer[w].store = Newest(Append(appended, w))

FileInv == FileShapes /\ JournalHeld /\ LogHeld

(* The newest entries of a sequence, and of what is left of it once older  *)
(* ones were dropped.                                                      *)
LEMMA NewestKept ==
  ASSUME NEW s \in Seq(Writers), NEW w \in Writers
  PROVE  /\ Newest(s) \in Seq(Writers)
         /\ Newest(Append(Newest(s), w)) = Newest(Append(s, w))
<1> DEFINE M == MaxEntries
           n == Len(s)
           kept == Newest(s)
           a == Append(kept, w)
           b == Append(s, w)
<1>1. M \in Nat \ {0} /\ n \in Nat
  BY FileAssumption
<1>2. b \in Seq(Writers) /\ Len(b) = n + 1 /\ \A i \in 1..n : b[i] = s[i]
  OBVIOUS
<1>3. b[n + 1] = w
  OBVIOUS
<1>4. CASE n <= M
  <2>1. kept = s
    BY <1>1, <1>4 DEF Newest
  <2> QED
    BY <2>1
<1>5. CASE n > M
  <2>1. kept = SubSeq(s, n - M + 1, n)
    BY <1>1, <1>5 DEF Newest
  <2>2. kept \in Seq(Writers) /\ Len(kept) = M
    BY <1>1, <1>5, <2>1
  <2>3. \A i \in 1..M : kept[i] = s[n - M + i]
    BY <1>1, <1>5, <2>1
  <2> HIDE DEF kept
  <2>4. /\ a \in Seq(Writers) /\ Len(a) = M + 1 /\ a[M + 1] = w
        /\ \A i \in 1..M : a[i] = kept[i]
    BY <1>1, <2>2
  <2> HIDE DEF a, b, M, n
  <2>5. Newest(a) = SubSeq(a, 2, M + 1)
    BY <1>1, <2>4 DEF Newest, M
  <2>6. Newest(b) = SubSeq(b, n - M + 2, n + 1)
    <3>1. Len(b) > MaxEntries /\ Len(b) - MaxEntries + 1 = n - M + 2 /\ Len(b) = n + 1
      BY <1>1, <1>2, <1>5 DEF M
    <3>2. Newest(b) = SubSeq(b, Len(b) - MaxEntries + 1, Len(b))
      BY <3>1 DEF Newest
    <3> QED
      BY <3>1, <3>2
  <2>7. /\ SubSeq(a, 2, M + 1) \in Seq(Writers) /\ Len(SubSeq(a, 2, M + 1)) = M
        /\ \A i \in 1..M : SubSeq(a, 2, M + 1)[i] = a[i + 1]
    BY <1>1, <2>4
  <2>8. /\ SubSeq(b, n - M + 2, n + 1) \in Seq(Writers) /\ Len(SubSeq(b, n - M + 2, n + 1)) = M
        /\ \A i \in 1..M : SubSeq(b, n - M + 2, n + 1)[i] = b[n - M + 1 + i]
    BY <1>1, <1>2, <1>5
  <2>9. \A i \in 1..M : a[i + 1] = b[n - M + 1 + i]
    <3> SUFFICES ASSUME NEW i \in 1..M PROVE a[i + 1] = b[n - M + 1 + i]
      OBVIOUS
    <3>1. CASE i = M
      BY <1>1, <1>3, <1>5, <2>4, <3>1
    <3>2. CASE i # M
      <4>1. i + 1 \in 1..M /\ n - M + 1 + i \in 1..n /\ n - M + (i + 1) = n - M + 1 + i
        BY <1>1, <1>5, <3>2
      <4>2. a[i + 1] = s[n - M + (i + 1)]
        BY <2>3, <2>4, <4>1
      <4> QED
        BY <1>2, <4>1, <4>2
    <3> QED
      BY <3>1, <3>2
  <2>10. Newest(a) = Newest(b)
    <3> DEFINE u == SubSeq(a, 2, M + 1)
               v == SubSeq(b, n - M + 2, n + 1)
    <3>1. /\ u \in Seq(Writers) /\ v \in Seq(Writers) /\ Len(u) = Len(v)
          /\ \A i \in 1..Len(u) : u[i] = v[i]
      BY <2>7, <2>8, <2>9
    <3>2. u = v
      <4> HIDE DEF u, v
      <4> QED
        BY <3>1, SeqEqual
    <3> QED
      BY <2>5, <2>6, <3>2
  <2> QED
    BY <2>2, <2>10 DEF a, b, kept
<1> QED
  BY <1>1, <1>4, <1>5

LEMMA FileStart == FileInit => FileInv
<1> SUFFICES ASSUME FileInit PROVE FileInv
  OBVIOUS
<1>1. FileShapes
  <2>1. [stage |-> "idle", file |-> "log"] \in WriterStates
    BY DEF WriterStates, Resting, Files
  <2>2. NoJournals \in [Executions -> Writers \union {NoWriter}]
    BY DEF NoJournals
  <2>3. <<>> \in Seq(Writers)
    OBVIOUS
  <2> QED
    BY <2>1, <2>2, <2>3 DEF FileInit, FileShapes
<1>2. Busy("journal") = {} /\ Busy("log") = {}
  BY DEF FileInit, Busy
<1>3. Newest(<<>>) = <<>>
  BY FileAssumption DEF Newest
<1> QED
  BY <1>1, <1>2, <1>3 DEF FileInit, FileInv, JournalHeld, LogHeld

LEMMA WriterMoves ==
  ASSUME FileShapes, NEW w \in Writers, NEW row \in WriterStates,
         writer' = [writer EXCEPT ![w] = row]
  PROVE  /\ writer' \in [Writers -> WriterStates]
         /\ writer'[w] = row
         /\ \A v \in Writers \ {w} : writer'[v] = writer[v]
BY DEF FileShapes

LEMMA WriterRow ==
  ASSUME FileShapes, NEW w \in Writers
  PROVE  /\ writer[w] \in WriterStates
         /\ writer[w].stage \in {"read", "truncated"} /\ writer[w].file = "journal"
               => writer[w] \in Upserting
         /\ writer[w].stage \in {"read", "truncated"} /\ writer[w].file = "log"
               => writer[w] \in Appending
BY DEF FileShapes, WriterStates, Resting, Upserting, Appending

(* A writer of the one file that moves on leaves the other file as it was. *)
LEMMA OtherJournal ==
  ASSUME FileInv, NEW w \in Writers, NEW row \in WriterStates,
         writer' = [writer EXCEPT ![w] = row], w \notin Busy("journal"),
         row.file = "log" \/ row.stage \notin {"read", "truncated"},
         UNCHANGED <<journal, upserted>>, "journal" \in cut' <=> "journal" \in cut
  PROVE  JournalHeld'
<1>1. /\ writer'[w] = row
      /\ \A v \in Writers \ {w} : writer'[v] = writer[v]
  BY WriterMoves DEF FileInv
<1>2. w \notin Busy("journal")'
  BY <1>1 DEF Busy
<1>3. \A v \in Writers \ {w} : v \in Busy("journal")' <=> v \in Busy("journal")
  BY <1>1 DEF Busy
<1>4. Busy("journal")' = Busy("journal")
  BY <1>2, <1>3 DEF Busy
<1>5. \A v \in Writers : Truncated(v, "journal") => Truncated(v, "journal")'
  BY <1>1 DEF Truncated, Busy
<1> QED
  BY <1>1, <1>4, <1>5 DEF FileInv, JournalHeld

LEMMA OtherLog ==
  ASSUME FileInv, NEW w \in Writers, NEW row \in WriterStates,
         writer' = [writer EXCEPT ![w] = row], w \notin Busy("log"),
         row.file = "journal" \/ row.stage \notin {"read", "truncated"},
         UNCHANGED <<runLog, appended, crossed>>, "log" \in cut' <=> "log" \in cut
  PROVE  LogHeld'
<1>1. /\ writer'[w] = row
      /\ \A v \in Writers \ {w} : writer'[v] = writer[v]
  BY WriterMoves DEF FileInv
<1>2. w \notin Busy("log")'
  BY <1>1 DEF Busy
<1>3. \A v \in Writers \ {w} : v \in Busy("log")' <=> v \in Busy("log")
  BY <1>1 DEF Busy
<1>4. Busy("log")' = Busy("log")
  BY <1>2, <1>3 DEF Busy
<1>5. \A v \in Writers : Truncated(v, "log") => Truncated(v, "log")'
  BY <1>1 DEF Truncated, Busy
<1> QED
  BY <1>1, <1>4, <1>5 DEF FileInv, LogHeld

LEMMA ReadForUpsertKeeps ==
  ASSUME FileInv, NEW w \in Writers, NEW e \in Executions, ReadForUpsert(w, e)
  PROVE  FileInv'
<1> DEFINE row == [stage |-> "read", file |-> "journal", execution |-> e,
                   store |-> [ReadJournal EXCEPT ![e] = w]]
<1>1. row \in Upserting
  <2>1. ReadJournal \in [Executions -> Writers \union {NoWriter}]
    BY DEF FileInv, FileShapes, ReadJournal, NoJournals
  <2> QED
    BY <2>1 DEF Upserting
<1>2. /\ row.stage = "read" /\ row.file = "journal" /\ row.execution = e
      /\ row.store = [ReadJournal EXCEPT ![e] = w]
  OBVIOUS
<1>3. /\ writer' = [writer EXCEPT ![w] = row]
      /\ writer[w].stage = "idle" /\ Busy("journal") = {}
      /\ UNCHANGED <<journal, runLog, upserted, appended, cut, crossed>>
  BY DEF ReadForUpsert, Enters
<1> HIDE DEF row
<1>4. /\ writer' \in [Writers -> WriterStates]
      /\ writer'[w] = row
      /\ \A v \in Writers \ {w} : writer'[v] = writer[v]
  BY <1>1, <1>3, WriterMoves DEF FileInv, WriterStates
<1>5. FileShapes'
  BY <1>3, <1>4 DEF FileInv, FileShapes
<1>6. Busy("journal")' = {w}
  BY <1>2, <1>3, <1>4 DEF Busy
<1>7. "journal" \notin cut => ReadJournal = upserted /\ ~ journal.torn
  BY <1>3 DEF FileInv, FileShapes, JournalHeld, Truncated, Busy, ReadJournal
<1>8. JournalHeld'
  BY <1>2, <1>3, <1>4, <1>6, <1>7 DEF FileInv, JournalHeld
<1>9. LogHeld'
  BY <1>1, <1>2, <1>3, OtherLog DEF Busy, WriterStates
<1> QED
  BY <1>5, <1>8, <1>9 DEF FileInv

LEMMA ReadForAppendKeeps ==
  ASSUME FileInv, NEW w \in Writers, ReadForAppend(w)
  PROVE  FileInv'
<1> DEFINE row == [stage |-> "read", file |-> "log", store |-> Newest(Append(ReadRuns, w))]
<1>1. ReadRuns \in Seq(Writers)
  BY DEF FileInv, FileShapes, ReadRuns
<1>2. row \in Appending
  <2>1. Append(ReadRuns, w) \in Seq(Writers)
    BY <1>1
  <2>2. Newest(Append(ReadRuns, w)) \in Seq(Writers)
    BY <2>1, NewestKept
  <2> QED
    BY <2>2 DEF Appending
<1>3. /\ row.stage = "read" /\ row.file = "log"
      /\ row.store = Newest(Append(ReadRuns, w))
  OBVIOUS
<1>4. /\ writer' = [writer EXCEPT ![w] = row]
      /\ writer[w].stage = "idle"
      /\ crossed' = (crossed \/ Busy("log") # {})
      /\ UNCHANGED <<journal, runLog, upserted, appended, cut>>
  BY DEF ReadForAppend
<1> HIDE DEF row
<1>5. /\ writer' \in [Writers -> WriterStates]
      /\ writer'[w] = row
      /\ \A v \in Writers \ {w} : writer'[v] = writer[v]
  BY <1>2, <1>4, WriterMoves DEF FileInv, WriterStates
<1>6. FileShapes'
  BY <1>4, <1>5 DEF FileInv, FileShapes
<1>7. JournalHeld'
  BY <1>2, <1>3, <1>4, OtherJournal DEF Busy, WriterStates
<1>8. LogHeld'
  <2> SUFFICES ASSUME ~ crossed', "log" \notin cut' PROVE LogHeld'
    BY DEF LogHeld
  <2>1. Busy("log") = {} /\ ~ crossed /\ "log" \notin cut
    BY <1>4
  <2>2. Busy("log")' = {w}
    BY <1>3, <1>4, <1>5, <2>1 DEF Busy
  <2>3. ~ runLog.torn /\ runLog.store = Newest(appended)
    BY <2>1 DEF FileInv, FileShapes, LogHeld, Truncated, Busy
  <2>4. row.store = Newest(Append(appended, w))
    <3>1. ReadRuns = Newest(appended) /\ appended \in Seq(Writers)
      BY <2>3 DEF ReadRuns, FileInv, FileShapes
    <3> QED
      BY <1>3, <3>1, NewestKept
  <2>5. \A v \in Busy("log")' : writer'[v].store = Newest(Append(appended', v))
    BY <1>4, <1>5, <2>2, <2>4
  <2> QED
    BY <1>4, <2>2, <2>3, <2>5 DEF LogHeld, Newest
<1> QED
  BY <1>6, <1>7, <1>8 DEF FileInv

LEMMA TruncateKeeps ==
  ASSUME FileInv, NEW w \in Writers, Truncate(w)
  PROVE  FileInv'
<1> DEFINE row == [writer[w] EXCEPT !.stage = "truncated"]
<1>1. writer' = [writer EXCEPT ![w] = row] /\ writer[w].stage = "read"
  BY DEF Truncate, FileInv, FileShapes
<1>2. UNCHANGED <<upserted, appended, cut, crossed>>
  BY DEF Truncate
<1>3. /\ row \in Upserting \union Appending
      /\ row.stage = "truncated" /\ row.file = writer[w].file /\ row.store = writer[w].store
      /\ writer[w] \in Upserting => row.execution = writer[w].execution
      /\ writer[w] \in Upserting \/ writer[w] \in Appending
  <2>1. CASE writer[w] \in Upserting
    BY <2>1 DEF Upserting
  <2>2. CASE writer[w] \in Appending
    BY <2>2 DEF Upserting, Appending
  <2> QED
    BY <1>1, <2>1, <2>2 DEF FileInv, FileShapes, WriterStates, Resting
<1> HIDE DEF row
<1>4. /\ writer' \in [Writers -> WriterStates]
      /\ writer'[w] = row
      /\ \A v \in Writers \ {w} : writer'[v] = writer[v]
  BY <1>1, <1>3, WriterMoves DEF FileInv, WriterStates
<1>5. Busy("journal")' = Busy("journal") /\ Busy("log")' = Busy("log")
  BY <1>1, <1>3, <1>4 DEF Busy
<1>6. CASE writer[w].file = "journal"
  <2>1. /\ journal' = [journal EXCEPT !.torn = TRUE] /\ runLog' = runLog
        /\ w \in Busy("journal") /\ w \notin Busy("log")
    BY <1>1, <1>6 DEF Truncate, Busy
  <2>2. /\ journal' \in [torn : BOOLEAN, store : [Executions -> Writers \union {NoWriter}]]
        /\ journal'.store = journal.store
    BY <2>1 DEF FileInv, FileShapes
  <2>3. FileShapes'
    BY <1>2, <1>4, <2>1, <2>2 DEF FileInv, FileShapes
  <2>4. writer[w] \in Upserting
    BY <1>3, <1>6 DEF Appending
  <2>5. JournalHeld'
    <3>1. \A v \in Busy("journal")' :
             /\ writer'[v].store = writer[v].store
             /\ writer'[v].execution = writer[v].execution
      BY <1>3, <1>4, <1>5, <2>4 DEF Busy
    <3>2. Truncated(w, "journal")'
      BY <1>3, <1>4, <1>6 DEF Truncated
    <3> QED
      BY <1>2, <1>5, <2>2, <3>1, <3>2 DEF FileInv, JournalHeld
  <2>6. LogHeld'
    BY <1>1, <1>2, <1>3, <1>6, <2>1, OtherLog DEF WriterStates
  <2> QED
    BY <2>3, <2>5, <2>6 DEF FileInv
<1>7. CASE writer[w].file # "journal"
  <2>1. writer[w] \in Appending /\ row.file = "log"
    BY <1>3, <1>7 DEF Upserting, Appending
  <2>2. /\ runLog' = [runLog EXCEPT !.torn = TRUE] /\ journal' = journal
        /\ w \in Busy("log") /\ w \notin Busy("journal")
    BY <1>1, <1>3, <1>7, <2>1 DEF Truncate, Busy
  <2>3. /\ runLog' \in [torn : BOOLEAN, store : Seq(Writers)]
        /\ runLog'.store = runLog.store
    BY <2>2 DEF FileInv, FileShapes
  <2>4. FileShapes'
    BY <1>2, <1>4, <2>2, <2>3 DEF FileInv, FileShapes
  <2>5. LogHeld'
    <3>1. \A v \in Busy("log")' : writer'[v].store = writer[v].store
      BY <1>3, <1>4, <1>5 DEF Busy
    <3>2. Truncated(w, "log")'
      BY <1>3, <1>4, <2>1 DEF Truncated
    <3> QED
      BY <1>2, <1>5, <2>3, <3>1, <3>2 DEF FileInv, LogHeld, Newest
  <2>6. JournalHeld'
    BY <1>1, <1>2, <1>3, <2>1, <2>2, OtherJournal DEF WriterStates
  <2> QED
    BY <2>4, <2>5, <2>6 DEF FileInv
<1> QED
  BY <1>6, <1>7

LEMMA WriteJournalKeeps ==
  ASSUME FileInv, NEW w \in Writers, WriteJournal(w)
  PROVE  FileInv'
<1> DEFINE row == [stage |-> "done", file |-> "journal"]
<1>1. writer[w] \in Upserting /\ w \in Busy("journal") /\ w \notin Busy("log")
  BY WriterRow DEF WriteJournal, FileInv, Busy
<1>2. /\ row \in WriterStates /\ row.stage = "done" /\ row.file = "journal"
      /\ writer' = [writer EXCEPT ![w] = row]
  BY DEF WriteJournal, WriterStates, Resting, Files
<1>3. /\ journal' = [torn |-> FALSE, store |-> writer[w].store]
      /\ upserted' = [upserted EXCEPT ![writer[w].execution] = w]
      /\ UNCHANGED <<runLog, appended, cut, crossed>>
  BY DEF WriteJournal
<1> HIDE DEF row
<1>4. /\ writer' \in [Writers -> WriterStates]
      /\ writer'[w] = row
      /\ \A v \in Writers \ {w} : writer'[v] = writer[v]
  BY <1>2, WriterMoves DEF FileInv
<1>5. /\ journal' \in [torn : BOOLEAN, store : [Executions -> Writers \union {NoWriter}]]
      /\ upserted' \in [Executions -> Writers \union {NoWriter}]
      /\ ~ journal'.torn /\ journal'.store = writer[w].store
  BY <1>1, <1>3 DEF FileInv, FileShapes, Upserting
<1>6. FileShapes'
  BY <1>3, <1>4, <1>5 DEF FileInv, FileShapes
<1>7. Busy("journal")' = {}
  BY <1>1, <1>2, <1>4 DEF Busy, FileInv, JournalHeld
<1>8. JournalHeld'
  <2>1. "journal" \notin cut => writer[w].store = [upserted EXCEPT ![writer[w].execution] = w]
    BY <1>1 DEF FileInv, JournalHeld
  <2> QED
    BY <1>3, <1>5, <1>7, <2>1 DEF JournalHeld
<1>9. LogHeld'
  BY <1>1, <1>2, <1>3, OtherLog
<1> QED
  BY <1>6, <1>8, <1>9 DEF FileInv

LEMMA WriteLogKeeps ==
  ASSUME FileInv, NEW w \in Writers, WriteLog(w)
  PROVE  FileInv'
<1> DEFINE row == [stage |-> "done", file |-> "log"]
<1>1. writer[w] \in Appending /\ w \in Busy("log") /\ w \notin Busy("journal")
  BY WriterRow DEF WriteLog, FileInv, Busy
<1>2. /\ row \in WriterStates /\ row.stage = "done" /\ row.file = "log"
      /\ writer' = [writer EXCEPT ![w] = row]
  BY DEF WriteLog, WriterStates, Resting, Files
<1>3. /\ runLog' = [torn |-> FALSE, store |-> writer[w].store]
      /\ appended' = Append(appended, w)
      /\ UNCHANGED <<journal, upserted, cut, crossed>>
  BY DEF WriteLog
<1> HIDE DEF row
<1>4. /\ writer' \in [Writers -> WriterStates]
      /\ writer'[w] = row
      /\ \A v \in Writers \ {w} : writer'[v] = writer[v]
  BY <1>2, WriterMoves DEF FileInv
<1>5. /\ runLog' \in [torn : BOOLEAN, store : Seq(Writers)]
      /\ appended' \in Seq(Writers)
      /\ ~ runLog'.torn /\ runLog'.store = writer[w].store
  BY <1>1, <1>3 DEF FileInv, FileShapes, Appending
<1>6. FileShapes'
  BY <1>3, <1>4, <1>5 DEF FileInv, FileShapes
<1>7. LogHeld'
  <2> SUFFICES ASSUME ~ crossed', "log" \notin cut' PROVE LogHeld'
    BY DEF LogHeld
  <2>1. /\ \A v \in Busy("log") : v = w
        /\ writer[w].store = Newest(Append(appended, w))
    BY <1>1, <1>3 DEF FileInv, LogHeld
  <2>2. Busy("log")' = {}
    BY <1>2, <1>4, <2>1 DEF Busy
  <2>3. runLog'.store = Newest(Append(appended, w)) /\ appended' = Append(appended, w)
    BY <1>3, <1>5, <2>1
  <2> QED
    BY <1>5, <2>2, <2>3 DEF LogHeld, Newest
<1>8. JournalHeld'
  BY <1>1, <1>2, <1>3, OtherJournal
<1> QED
  BY <1>6, <1>7, <1>8 DEF FileInv

LEMMA CutShortKeeps ==
  ASSUME FileInv, NEW w \in Writers, CutShort(w)
  PROVE  FileInv'
<1> DEFINE row == [stage |-> "failed", file |-> writer[w].file]
<1>1. /\ writer[w].stage \in {"read", "truncated"}
      /\ UNCHANGED <<journal, runLog, upserted, appended, crossed>>
      /\ cut' = IF writer[w].stage = "truncated" THEN cut \union {writer[w].file} ELSE cut
  BY DEF CutShort
<1>2. writer' = [writer EXCEPT ![w] = row]
  BY DEF CutShort, FileInv, FileShapes
<1>3. writer[w].file \in Files
  BY DEF FileInv, FileShapes, WriterStates, Resting, Upserting, Appending, Files
<1>4. row \in WriterStates /\ row.stage = "failed" /\ row.file = writer[w].file
  BY <1>3 DEF WriterStates, Resting
<1> HIDE DEF row
<1>5. /\ writer' \in [Writers -> WriterStates]
      /\ writer'[w] = row
      /\ \A v \in Writers \ {w} : writer'[v] = writer[v]
  BY <1>2, <1>4, WriterMoves DEF FileInv
<1>6. FileShapes'
  BY <1>1, <1>3, <1>5 DEF FileInv, FileShapes
<1>7. \A file \in Files : Busy(file)' = Busy(file) \ {w}
  BY <1>4, <1>5 DEF Busy
<1>8. JournalHeld'
  <2>1. \A v \in Busy("journal") \ {w} : writer'[v] = writer[v] /\ v \in Writers
    BY <1>5 DEF Busy
  <2>2. Busy("journal")' = Busy("journal") \ {w}
    BY <1>7 DEF Files
  <2>3. cut \subseteq cut'
    BY <1>1
  <2>4. "journal" \notin cut' => \A v \in Writers :
           Truncated(v, "journal") => Truncated(v, "journal")'
    BY <1>1, <1>5 DEF Truncated
  <2> QED
    BY <1>1, <2>1, <2>2, <2>3, <2>4 DEF FileInv, JournalHeld
<1>9. LogHeld'
  <2>1. \A v \in Busy("log") \ {w} : writer'[v] = writer[v] /\ v \in Writers
    BY <1>5 DEF Busy
  <2>2. Busy("log")' = Busy("log") \ {w}
    BY <1>7 DEF Files
  <2>3. cut \subseteq cut'
    BY <1>1
  <2>4. "log" \notin cut' => \A v \in Writers : Truncated(v, "log") => Truncated(v, "log")'
    BY <1>1, <1>5 DEF Truncated
  <2> QED
    BY <1>1, <2>1, <2>2, <2>3, <2>4 DEF FileInv, LogHeld, Newest
<1> QED
  BY <1>6, <1>8, <1>9 DEF FileInv

LEMMA FileInductive == FileInv /\ [FileNext]_fileVars => FileInv'
<1>1. CASE FileNext
  BY <1>1, ReadForUpsertKeeps, ReadForAppendKeeps, TruncateKeeps, WriteJournalKeeps,
     WriteLogKeeps, CutShortKeeps DEF FileNext
<1>2. CASE UNCHANGED fileVars
  <2>1. UNCHANGED <<journal, runLog, writer, upserted, appended, cut, crossed>>
    BY <1>2 DEF fileVars
  <2> QED
    BY <2>1 DEF FileInv, FileShapes, JournalHeld, LogHeld, Busy, Truncated, Newest
<1> QED
  BY <1>1, <1>2

LEMMA FilesHeld == FileInv => StoresKept
BY DEF FileInv, JournalHeld, LogHeld, StoresKept

(* The journal file loses no upsert, and the log none of the newest runs. *)
THEOREM StoresAreKept == FileSpec => []StoresKept
BY FileStart, FileInductive, FilesHeld, PTL DEF FileSpec

-----------------------------------------------------------------------------

(* The queue of candidates.  Whatever hygiene has picked to expire, each   *)
(* young and allowed one of them has a younger one of its symbol that is   *)
(* not picked and does not expire (NewestStays).                           *)

(* A set of natural numbers has a least one, a bounded one a greatest.     *)
(* A younger candidate of the symbol stays, for each that is to go though  *)
(* it is allowed and young: it is not to go itself, and whoever trades it  *)
(* does not expire it.                                                     *)
NewestStays(targets, cutoff) ==
    \A n \in targets :
        n > cutoff /\ queue[n].symbol \in Allowed =>
            \E k \in (n + 1)..Len(queue) :
                /\ k \notin targets
                /\ queue[k].symbol = queue[n].symbol
                /\ queue[k].status # "expired"

Hygienes == [stage : {"idle", "loaded", "selected"}, targets : SUBSET (1..Len(queue)), cutoff : Nat]
Refreshes == [on : BOOLEAN, next : Nat \ {0}, added : Seq(CandidateRows)]

QueueInv ==
    /\ queue \in Seq(CandidateRows)
    /\ stale \in Nat
    /\ refresh \in Refreshes
    /\ hygiene \in Hygienes
    /\ picked \subseteq 1..Len(queue)
    /\ NewestStays(hygiene.targets, hygiene.cutoff)

Surplus(keep) == UNION {TestsOf(symbol) \ Kept(TestsOf(symbol), keep) : symbol \in Symbols}

(* Of the candidates of an allowed symbol, hygiene lets the youngest be.   *)
LEMMA NoiseSparesNewest ==
  ASSUME queue \in Seq(CandidateRows), NEW cutoff \in Nat, NEW keep \in 1..2
  PROVE  NewestStays(Noise(cutoff, keep), cutoff)
<1>0. \A n : n \in Surplus(keep) =>
         \E symbol \in Symbols : n \in TestsOf(symbol) \ Kept(TestsOf(symbol), keep)
  BY DEF Surplus
<1>1. Noise(cutoff, keep) =
        {n \in AllowedTests : n <= cutoff} \union Surplus(keep)
            \union (TestCandidates \ AllowedTests)
  BY DEF Noise, Surplus
<1> SUFFICES ASSUME NEW n \in Noise(cutoff, keep), n > cutoff, queue[n].symbol \in Allowed
             PROVE  \E k \in (n + 1)..Len(queue) :
                        /\ k \notin Noise(cutoff, keep)
                        /\ queue[k].symbol = queue[n].symbol
                        /\ queue[k].status # "expired"
  BY DEF NewestStays
<1> DEFINE rows == TestsOf(queue[n].symbol)
<1>2. TestCandidates \subseteq 1..Len(queue) /\ Len(queue) \in Nat
  BY DEF TestCandidates
<1>3. n \in AllowedTests
  <2>1. CASE n \in Surplus(keep)
    BY <1>0, <2>1 DEF TestsOf
  <2>2. CASE n \in TestCandidates \ AllowedTests
    BY <2>2 DEF AllowedTests
  <2> QED
    <3> QED
      BY <1>1, <2>1, <2>2
<1>4. n \in 1..Len(queue) /\ n \in rows /\ ~ (n <= cutoff)
  BY <1>2, <1>3 DEF AllowedTests, TestsOf
<1>5. n \notin Kept(rows, keep)
  <2>1. PICK symbol \in Symbols : n \in TestsOf(symbol) \ Kept(TestsOf(symbol), keep)
    <3>1. n \in Surplus(keep)
      <4> QED
        BY <1>1, <1>3, <1>4
    <3> QED
      BY <1>0, <3>1
  <2>2. symbol = queue[n].symbol
    BY <2>1 DEF TestsOf
  <2> QED
    BY <2>1, <2>2
<1>6. rows \subseteq 0..Len(queue) /\ rows # {}
  <2>1. rows \subseteq TestCandidates
    BY DEF TestsOf, AllowedTests
  <2> HIDE DEF rows
  <2> QED
    BY <1>2, <1>4, <2>1
<1>7. PICK m \in rows : \A k \in rows : k <= m
  <2> HIDE DEF rows
  <2> QED
    BY <1>2, <1>6, GreatestUpTo
<1>8. m \in Kept(rows, keep)
  <2> HIDE DEF rows
  <2>1. {k \in rows : k > m} = {}
    <3>1. \A k \in rows : k \in Int /\ m \in Int /\ k <= m
      BY <1>2, <1>6, <1>7
    <3> QED
      BY <3>1
  <2>2. Cardinality({k \in rows : k > m}) = 0
    BY <2>1, FS_EmptySet
  <2> QED
    BY <1>7, <2>2 DEF Kept
<1>9. m > n /\ m \in 1..Len(queue)
  <2>1. m # n
    BY <1>5, <1>8
  <2>2. m \in TestCandidates
    BY <1>7 DEF TestsOf, AllowedTests
  <2> HIDE DEF rows
  <2> QED
    BY <1>2, <1>4, <1>7, <2>1, <2>2
<1>10. m \in AllowedTests /\ queue[m].symbol = queue[n].symbol /\ queue[m].status = "candidate"
  BY <1>7 DEF TestsOf, AllowedTests, TestCandidates
<1>11. m \notin Noise(cutoff, keep)
  <2>1. ~ (m <= cutoff)
    BY <1>2, <1>4, <1>9
  <2>2. \A symbol \in Symbols : m \in TestsOf(symbol) => symbol = queue[n].symbol
    BY <1>10 DEF TestsOf
  <2>3. \A symbol \in Symbols : m \notin TestsOf(symbol) \ Kept(TestsOf(symbol), keep)
    BY <1>8, <2>2
  <2>4. m \notin Surplus(keep)
    BY <1>0, <2>3
  <2> QED
    BY <1>1, <1>10, <2>1, <2>4
<1>12. m \in (n + 1)..Len(queue)
  BY <1>2, <1>4, <1>9
<1>13. queue[m].status # "expired"
  BY <1>10
<1> QED
  BY <1>10, <1>11, <1>12, <1>13

LEMMA QueueStart == QueueInit => QueueInv
<1> SUFFICES ASSUME QueueInit PROVE QueueInv
  OBVIOUS
<1>1. refresh \in Refreshes
  BY DEF QueueInit, NoRefresh, Refreshes
<1>2. hygiene \in Hygienes /\ hygiene.targets = {}
  BY DEF QueueInit, NoHygiene, Hygienes
<1> QED
  BY <1>1, <1>2 DEF QueueInit, QueueInv, NewestStays

(* Rows may come and change, but no candidate expires.                     *)
LEMMA RowsKeep ==
  ASSUME QueueInv, queue' \in Seq(CandidateRows), Len(queue') >= Len(queue),
         \A n \in 1..Len(queue) :
             /\ queue'[n].symbol = queue[n].symbol
             /\ queue'[n].status = "expired" => queue[n].status = "expired",
         hygiene' = hygiene
  PROVE  /\ hygiene' \in Hygienes'
         /\ NewestStays(hygiene.targets, hygiene.cutoff)'
<1>1. hygiene \in Hygienes /\ Len(queue) \in Nat /\ Len(queue') \in Nat
  BY DEF QueueInv
<1>2. hygiene' \in Hygienes'
  BY <1>1 DEF Hygienes
<1>3. ASSUME NEW n \in hygiene.targets, n > hygiene.cutoff, queue'[n].symbol \in Allowed
      PROVE  \E k \in (n + 1)..Len(queue') :
                /\ k \notin hygiene.targets
                /\ queue'[k].symbol = queue'[n].symbol
                /\ queue'[k].status # "expired"
  <2>1. n \in 1..Len(queue)
    BY <1>1 DEF Hygienes
  <2>2. queue'[n].symbol = queue[n].symbol
    BY <2>1
  <2>3. PICK k \in (n + 1)..Len(queue) :
           /\ k \notin hygiene.targets
           /\ queue[k].symbol = queue[n].symbol
           /\ queue[k].status # "expired"
    BY <1>3, <2>2 DEF QueueInv, NewestStays
  <2>4. k \in 1..Len(queue) /\ k \in (n + 1)..Len(queue')
    BY <1>1, <2>1
  <2> QED
    BY <2>2, <2>3, <2>4
<1> QED
  BY <1>2, <1>3 DEF NewestStays, Allowed

LEMMA RefreshKeeps ==
  ASSUME QueueInv, BeginRefresh \/ RefreshSymbol \/ EndRefresh
  PROVE  QueueInv'
<1>1. /\ queue \in Seq(CandidateRows) /\ refresh \in Refreshes
      /\ UNCHANGED <<stale, hygiene, picked>>
  BY DEF QueueInv, BeginRefresh, RefreshSymbol, EndRefresh
<1>2. refresh' \in Refreshes
  <2>1. CASE BeginRefresh
    <3>1. refresh' = [on |-> TRUE, next |-> 1, added |-> <<>>]
      BY <2>1 DEF BeginRefresh, NoRefresh
    <3> QED
      BY <3>1 DEF Refreshes
  <2>2. CASE RefreshSymbol
    <3>1. PICK added : /\ refresh' = [refresh EXCEPT !.next = @ + 1, !.added = added]
                       /\ \/ added = refresh.added
                          \/ added = Append(refresh.added, RefreshedFor(Allowlist[refresh.next]))
      BY <2>2 DEF RefreshSymbol
    <3>2. refresh.next \in 1..Len(Allowlist)
      <4>1. refresh.next \in Nat \ {0} /\ refresh.next <= Len(Allowlist)
        BY <1>1, <2>2 DEF RefreshSymbol, Refreshes
      <4>2. Len(Allowlist) \in Nat
        BY QueueAssumption
      <4> QED
        BY <4>1, <4>2
    <3>3. RefreshedFor(Allowlist[refresh.next]) \in CandidateRows
      BY <3>2, QueueAssumption DEF RefreshedFor, CandidateRows, Statuses
    <3>4. refresh.added \in Seq(CandidateRows)
      BY <1>1 DEF Refreshes
    <3>5. added \in Seq(CandidateRows)
      BY <3>1, <3>3, <3>4
    <3>6. refresh.next + 1 \in Nat \ {0}
      BY <1>1 DEF Refreshes
    <3>7. [refresh EXCEPT !.next = @ + 1, !.added = added] \in Refreshes
      BY <1>1, <3>5, <3>6 DEF Refreshes
    <3> QED
      BY <3>1, <3>7
  <2>3. CASE EndRefresh
    BY <2>3 DEF EndRefresh, NoRefresh, Refreshes
  <2> QED
    BY <2>1, <2>2, <2>3
<1>3. /\ queue' \in Seq(CandidateRows) /\ Len(queue') >= Len(queue)
      /\ \A n \in 1..Len(queue) : queue'[n] = queue[n]
  <2>1. refresh.added \in Seq(CandidateRows)
    BY <1>1 DEF Refreshes
  <2>2. queue' = queue \/ queue' = queue \o refresh.added
    BY DEF BeginRefresh, RefreshSymbol, EndRefresh
  <2>3. CASE queue' = queue
    BY <1>1, <2>3
  <2>4. CASE queue' = queue \o refresh.added
    <3>1. Len(queue) \in Nat /\ Len(refresh.added) \in Nat
      BY <1>1, <2>1
    <3>2. /\ queue \o refresh.added \in Seq(CandidateRows)
          /\ Len(queue \o refresh.added) = Len(queue) + Len(refresh.added)
          /\ \A n \in 1..Len(queue) : (queue \o refresh.added)[n] = queue[n]
      BY <1>1, <2>1
    <3> QED
      BY <2>4, <3>1, <3>2
  <2> QED
    BY <2>2, <2>3, <2>4
<1>4. picked' \subseteq 1..Len(queue')
  BY <1>1, <1>3 DEF QueueInv
<1> QED
  BY <1>1, <1>2, <1>3, <1>4, RowsKeep DEF QueueInv

LEMMA HygieneKeeps ==
  ASSUME QueueInv, LoadHygiene \/ SelectNoise \/ CommitHygiene \/ DropHygiene
  PROVE  QueueInv'
<1>1. /\ queue \in Seq(CandidateRows) /\ hygiene \in Hygienes
      /\ UNCHANGED <<stale, refresh, picked>>
  BY DEF QueueInv, LoadHygiene, SelectNoise, CommitHygiene, DropHygiene
<1>2. CASE LoadHygiene
  <2>1. PICK cutoff \in 0..Len(queue), keep \in 1..2 :
           hygiene' = [stage |-> "loaded", targets |-> Noise(cutoff, keep), cutoff |-> cutoff]
    BY <1>2 DEF LoadHygiene
  <2>2. cutoff \in Nat /\ queue' = queue
    BY <1>1, <1>2 DEF LoadHygiene
  <2>3. Noise(cutoff, keep) \subseteq 1..Len(queue)
    <3>1. \A n \in Noise(cutoff, keep) : n \in TestCandidates
      BY DEF Noise, TestsOf, AllowedTests
    <3> QED
      BY <1>1, <3>1 DEF TestCandidates
  <2>4. NewestStays(Noise(cutoff, keep), cutoff)
    BY <1>1, <2>2, NoiseSparesNewest
  <2>5. hygiene' \in Hygienes'
    BY <2>1, <2>2, <2>3 DEF Hygienes
  <2>6. NewestStays(hygiene.targets, hygiene.cutoff)'
    BY <2>1, <2>2, <2>4 DEF NewestStays, Allowed
  <2> QED
    BY <1>1, <2>2, <2>5, <2>6 DEF QueueInv
<1>3. CASE SelectNoise
  <2>1. /\ hygiene' = [hygiene EXCEPT !.stage = "selected",
                                      !.targets = @ \intersect TestCandidates]
        /\ queue' = queue
    BY <1>3 DEF SelectNoise
  <2>2. /\ hygiene'.targets \subseteq hygiene.targets
        /\ hygiene'.cutoff = hygiene.cutoff
        /\ hygiene' \in Hygienes'
    BY <1>1, <2>1 DEF Hygienes
  <2>3. NewestStays(hygiene.targets, hygiene.cutoff)'
    BY <2>1, <2>2 DEF QueueInv, NewestStays, Allowed
  <2> QED
    BY <1>1, <2>1, <2>2, <2>3 DEF QueueInv
<1>4. CASE CommitHygiene \/ DropHygiene
  <2>1. hygiene' = NoHygiene
    BY <1>4 DEF CommitHygiene, DropHygiene
  <2>2. hygiene' \in Hygienes' /\ hygiene'.targets = {}
    BY <2>1 DEF NoHygiene, Hygienes
  <2>3. queue' \in Seq(CandidateRows) /\ Len(queue') = Len(queue)
    <3>1. CASE DropHygiene
      BY <1>1, <3>1 DEF DropHygiene
    <3>2. CASE CommitHygiene
      <4>1. queue' = [n \in 1..Len(queue) |->
                         IF n \in hygiene.targets THEN [queue[n] EXCEPT !.status = "expired"]
                                                  ELSE queue[n]]
        BY <1>1, <3>2 DEF CommitHygiene
      <4>2. \A n \in 1..Len(queue) :
               /\ queue[n] \in CandidateRows
               /\ [queue[n] EXCEPT !.status = "expired"] \in CandidateRows
        <5> SUFFICES ASSUME NEW n \in 1..Len(queue)
                     PROVE  /\ queue[n] \in CandidateRows
                            /\ [queue[n] EXCEPT !.status = "expired"] \in CandidateRows
          OBVIOUS
        <5>1. queue[n] \in CandidateRows
          BY <1>1
        <5> QED
          BY <5>1 DEF CandidateRows, Statuses
      <4>3. \A n \in 1..Len(queue) : queue'[n] \in CandidateRows
        BY <4>1, <4>2
      <4>4. Len(queue) \in Nat /\ queue' \in [1..Len(queue) -> CandidateRows]
        BY <1>1, <4>1, <4>3
      <4> QED
        BY <4>4
    <3> QED
      BY <1>4, <3>1, <3>2
  <2> QED
    BY <1>1, <2>2, <2>3 DEF QueueInv, NewestStays
<1> QED
  BY <1>2, <1>3, <1>4

LEMMA TradingKeeps ==
  ASSUME QueueInv, RankQueue \/ (\E n \in picked : SubmitPicked(n)) \/ AddSignal \/ GrowStale
  PROVE  QueueInv'
<1>1. /\ queue \in Seq(CandidateRows) /\ Len(queue) \in Nat /\ stale \in Nat
      /\ refresh' = refresh /\ hygiene' = hygiene /\ refresh \in Refreshes
  BY DEF QueueInv, RankQueue, SubmitPicked, AddSignal, GrowStale
<1>2. /\ queue' \in Seq(CandidateRows) /\ Len(queue') >= Len(queue)
      /\ \A n \in 1..Len(queue) :
            /\ queue'[n].symbol = queue[n].symbol
            /\ queue'[n].status = "expired" => queue[n].status = "expired"
      /\ picked' \subseteq 1..Len(queue')
  <2>1. CASE RankQueue
    <3>1. queue' = queue /\ picked' \subseteq Recent(queue)
      BY <2>1 DEF RankQueue
    <3>2. Recent(queue) \subseteq 1..Len(queue)
      BY <1>1 DEF Recent
    <3> QED
      BY <1>1, <3>1, <3>2
  <2>2. CASE \E n \in picked : SubmitPicked(n)
    <3>1. PICK n \in picked : SubmitPicked(n)
      BY <2>2
    <3>2. n \in 1..Len(queue) /\ picked' \subseteq 1..Len(queue)
      BY <3>1 DEF QueueInv, SubmitPicked
    <3> DEFINE row == [queue[n] EXCEPT !.status = "paper_submitted"]
    <3>3. row \in CandidateRows /\ row.symbol = queue[n].symbol /\ row.status = "paper_submitted"
      <4>1. queue[n] \in CandidateRows
        BY <1>1, <3>2
      <4> QED
        BY <4>1 DEF CandidateRows, Statuses
    <3>4. queue' = queue \/ queue' = [queue EXCEPT ![n] = row]
      BY <1>1, <3>1, <3>2 DEF SubmitPicked
    <3> HIDE DEF row
    <3>5. /\ queue' \in Seq(CandidateRows) /\ Len(queue') = Len(queue)
          /\ \A k \in 1..Len(queue) : queue'[k] = queue[k] \/ (k = n /\ queue'[k] = row)
      BY <1>1, <3>2, <3>3, <3>4
    <3> QED
      BY <3>2, <3>3, <3>5
  <2>3. CASE AddSignal
    <3>1. PICK row \in CandidateRows : queue' = Append(queue, row)
      BY <2>3 DEF AddSignal, CandidateRows, Statuses
    <3> QED
      BY <1>1, <2>3, <3>1 DEF AddSignal, QueueInv
  <2>4. CASE GrowStale
    BY <1>1, <2>4 DEF GrowStale, QueueInv
  <2> QED
    BY <2>1, <2>2, <2>3, <2>4
<1>3. stale' \in Nat
  BY <1>1 DEF RankQueue, SubmitPicked, AddSignal, GrowStale
<1> QED
  BY <1>1, <1>2, <1>3, RowsKeep DEF QueueInv

LEMMA QueueInductive == QueueInv /\ [QueueNext]_queueVars => QueueInv'
<1>1. CASE QueueNext
  BY <1>1, RefreshKeeps, HygieneKeeps, TradingKeeps DEF QueueNext
<1>2. CASE UNCHANGED queueVars
  <2>1. UNCHANGED <<queue, stale, refresh, hygiene, picked>>
    BY <1>2 DEF queueVars
  <2> QED
    BY <2>1 DEF QueueInv, Hygienes, NewestStays, Allowed
<1> QED
  BY <1>1, <1>2

(* A candidate that expires in a step is a target of the hygiene that      *)
(* commits in it.                                                          *)
LEMMA ExpiresByHygiene ==
  ASSUME QueueInv, [QueueNext]_queueVars, NEW n \in DOMAIN queue,
         queue[n].status = "candidate", queue'[n].status = "expired",
         n > hygiene.cutoff, queue[n].symbol \in Allowed
  PROVE  \E k \in (n + 1)..Len(queue) :
            /\ queue[k].symbol = queue[n].symbol
            /\ queue'[k].status # "expired"
<1>1. queue \in Seq(CandidateRows) /\ n \in 1..Len(queue)
  BY DEF QueueInv
<1>2. queue'[n] # queue[n]
  OBVIOUS
<1>3. CASE CommitHygiene
  <2>1. queue' = [k \in DOMAIN queue |->
                     IF k \in hygiene.targets THEN [queue[k] EXCEPT !.status = "expired"]
                                              ELSE queue[k]]
    BY <1>3 DEF CommitHygiene
  <2>2. n \in hygiene.targets
    BY <1>2, <2>1
  <2>3. PICK k \in (n + 1)..Len(queue) :
           /\ k \notin hygiene.targets
           /\ queue[k].symbol = queue[n].symbol
           /\ queue[k].status # "expired"
    BY <2>2 DEF QueueInv, NewestStays
  <2>4. k \in DOMAIN queue
    BY <1>1
  <2> QED
    BY <2>1, <2>3, <2>4
<1>4. CASE EndRefresh
  <2>1. refresh.added \in Seq(CandidateRows)
    BY DEF QueueInv, Refreshes
  <2>2. queue' = queue \/ queue' = queue \o refresh.added
    BY <1>4 DEF EndRefresh
  <2>3. queue'[n] = queue[n]
    BY <1>1, <2>1, <2>2
  <2> QED
    BY <1>2, <2>3
<1>5. CASE AddSignal
  <2>1. PICK row \in CandidateRows : queue' = Append(queue, row)
    BY <1>5 DEF AddSignal, CandidateRows, Statuses
  <2>2. queue'[n] = queue[n]
    BY <1>1, <2>1
  <2> QED
    BY <1>2, <2>2
<1>6. ASSUME NEW m \in picked, SubmitPicked(m) PROVE FALSE
  <2>1. queue' = queue \/ queue' = [queue EXCEPT ![m].status = "paper_submitted"]
    BY <1>6 DEF SubmitPicked
  <2>2. queue[n] \in CandidateRows
    BY <1>1
  <2>3. [queue[n] EXCEPT !.status = "paper_submitted"].status = "paper_submitted"
    BY <2>2 DEF CandidateRows
  <2>4. \/ queue'[n] = queue[n]
        \/ queue'[n] = [queue[n] EXCEPT !.status = "paper_submitted"]
    BY <1>1, <2>1
  <2> QED
    BY <1>2, <2>3, <2>4
<1>7. CASE \/ BeginRefresh \/ RefreshSymbol \/ LoadHygiene \/ SelectNoise \/ DropHygiene
           \/ RankQueue \/ GrowStale \/ UNCHANGED queueVars
  <2>1. queue' = queue
    BY <1>7 DEF BeginRefresh, RefreshSymbol, LoadHygiene, SelectNoise, DropHygiene,
                RankQueue, GrowStale, queueVars
  <2> QED
    BY <1>2, <2>1
<1> QED
  BY <1>3, <1>4, <1>5, <1>6, <1>7 DEF QueueNext

(* Hygiene never empties the queue of an allowed symbol, whatever is       *)
(* added, traded or refreshed while it runs.                               *)
THEOREM HygieneAlwaysKeepsNewest == QueueSpec => HygieneKeepsNewest
<1>1. QueueInv /\ [QueueNext]_queueVars =>
        [\A n \in DOMAIN queue :
            /\ queue[n].status = "candidate" /\ queue'[n].status = "expired"
            /\ n > hygiene.cutoff /\ queue[n].symbol \in Allowed
            => \E k \in (n + 1)..Len(queue) :
                  /\ queue[k].symbol = queue[n].symbol
                  /\ queue'[k].status # "expired"]_queueVars
  BY ExpiresByHygiene
<1> QED
  BY <1>1, QueueStart, QueueInductive, PTL DEF QueueSpec, HygieneKeepsNewest

-----------------------------------------------------------------------------

(* The plans.  A handler applies the verdict on the evidence it has read   *)
(* (AppliedVerdict), which makes the stored status agree with it.          *)

(* A part of a score: the full score for all that is wanted, less for less. *)
LEMMA ScoreOfAPart ==
  ASSUME NEW full \in {20, 25}, NEW done \in Nat, NEW wanted \in Nat \ {0}
  PROVE  /\ ScoreFor(full, done, wanted) \in Int
         /\ ScoreFor(full, done, wanted) <= full
         /\ ScoreFor(full, done, wanted) = full <=> done >= wanted
<1>1. CASE done >= wanted
  BY <1>1 DEF ScoreFor
<1>2. CASE ~ (done >= wanted)
  <2> DEFINE q == (full * done) \div wanted
             n == full * done
  <2>1. n \in Nat /\ n < full * wanted
    BY <1>2
  <2>2. ScoreFor(full, done, wanted) = q
    BY <1>2 DEF ScoreFor
  <2>3. q \in Int /\ q * wanted <= n
    <3> HIDE DEF n
    <3>1. n \div wanted \in Int /\ (n \div wanted) * wanted <= n
      BY <2>1, SMT
    <3> QED
      BY <3>1 DEF n
  <2> HIDE DEF q, n
  <2>4. q < full
    <3>1. q * wanted < full * wanted
      BY <2>1, <2>3
    <3> QED
      BY <2>3, <3>1
  <2> QED
    BY <1>2, <2>2, <2>3, <2>4
<1> QED
  BY <1>1, <1>2

Evidence == [Entries -> {"absent", "counted", "excluded"}]

(* No plan that breaches is left active, whatever has happened to it since *)
(* it was computed.                                                        *)
NoActiveBreach ==
    \A p \in Plans : plan[p].status = "active" => ~ Breach(plan[p], evidence[p])

EvidenceIsOfPlans == \A p \in Plans, e \in Entries : evidence[p][e] # "absent" => Exists(p)

PlansInv ==
    PlansTypeOK /\ StatusFollowsEvidence /\ OneOpenPlan /\ NoActiveBreach /\ EvidenceIsOfPlans

LEMMA PlansStart == PlansInit => PlansInv
<1> SUFFICES ASSUME PlansInit PROVE PlansInv
  OBVIOUS
<1>1. PICK n \in Required :
        plan = [p \in Plans |->
                  [status |-> "absent", started |-> FALSE, reopened |-> FALSE,
                   required |-> n, days |-> 0, metrics |-> "none"]]
  BY DEF PlansInit
<1>2. plan \in [Plans -> PlanRows]
  BY <1>1, ValidationAssumption DEF PlanRows
<1>3. \A p \in Plans : plan[p].status = "absent"
  BY <1>1
<1> QED
  BY <1>2, <1>3
     DEF PlansInit, PlansInv, PlansTypeOK, StatusFollowsEvidence, OneOpenPlan, NoActiveBreach,
         EvidenceIsOfPlans, Exists, IsOpen

(* What a verdict comes to once it is applied.                             *)
LEMMA AppliedVerdict ==
  ASSUME NEW row \in PlanRows, row.status # "absent", NEW seen \in Evidence,
         NEW final, final = ApplyStatus(row, Verdict(row, seen))
  PROVE  /\ final \in PlanRows /\ final.status # "absent"
         /\ final.reopened = row.reopened /\ final.metrics = row.metrics
         /\ \/ Verdict(final, seen) = final.status
            \/ Verdict(final, seen) = "active" /\ final.status \in {"passed", "failed"}
         /\ final.status = "active" => ~ Breach(final, seen)
<1> DEFINE breach == Breach(row, seen)
           met == TradesMet(row, seen) /\ DaysActive(row) >= MinimumDays
           verdict == Verdict(row, seen)
<1>1. verdict = IF row.status = "stopped" THEN "stopped"
                ELSE IF breach THEN "failed"
                ELSE IF met THEN "passed"
                ELSE IF row.started THEN "active" ELSE "pending"
  BY DEF Verdict
<1>2. PICK status \in {"pending", "active", "passed", "failed", "stopped"} :
        /\ final = [row EXCEPT !.status = status]
        /\ verdict \in {"stopped", "failed", "passed", "pending"} => status = verdict
        /\ verdict = "active" =>
              status = IF row.status = "pending" THEN "active" ELSE row.status
  <2> HIDE DEF breach, met
  <2>1. verdict \in {"stopped", "failed", "passed", "pending", "active"}
    BY <1>1
  <2>2. CASE verdict \in {"stopped", "failed", "passed"}
    BY <2>2 DEF ApplyStatus
  <2>3. CASE verdict = "pending"
    BY <2>3 DEF ApplyStatus
  <2>4. CASE verdict = "active"
    BY <2>4 DEF ApplyStatus, PlanRows
  <2> QED
    BY <2>1, <2>2, <2>3, <2>4
<1>3. /\ final \in PlanRows /\ final.status = status /\ final.started = row.started
      /\ final.reopened = row.reopened /\ final.metrics = row.metrics
      /\ final.required = row.required /\ final.days = row.days
  BY <1>2 DEF PlanRows
<1>4. Breach(final, seen) <=> breach
  BY <1>3 DEF Breach
<1>5. (TradesMet(final, seen) /\ DaysActive(final) >= MinimumDays) <=> met
  BY <1>3 DEF TradesMet, DaysActive
<1> HIDE DEF breach, met
<1>6. Verdict(final, seen) =
        IF status = "stopped" THEN "stopped"
        ELSE IF breach THEN "failed"
        ELSE IF met THEN "passed"
        ELSE IF row.started THEN "active" ELSE "pending"
  BY <1>3, <1>4, <1>5 DEF Verdict
<1> HIDE DEF verdict
<1>7. row.status \in {"pending", "active", "passed", "failed", "stopped"}
  BY DEF PlanRows
<1>8. status = "active" => ~ breach
  BY <1>1, <1>2
<1> QED
  BY <1>1, <1>2, <1>3, <1>4, <1>6, <1>7, <1>8

(* A handler that ends by recalculating the plan: now is the evidence it   *)
(* leaves, seen what the recalculation has read.                           *)
LEMMA RecalculateKeeps ==
  ASSUME PlansInv, NEW p \in Plans, NEW row \in PlanRows, row.status # "absent",
         row.reopened = plan[p].reopened, Exists(p) \/ MayCreate,
         NEW seen \in Evidence, NEW now \in Evidence,
         Recalculate(p, row, seen), evidence' = [evidence EXCEPT ![p] = now],
         NEW why \in {"none", "reconciled"}, lag' = [lag EXCEPT ![p] = why],
         \/ now = seen
         \/ /\ why # "none"
            /\ \A r \in PlanRows : ~ Breach(r, seen) => ~ Breach(r, now),
         closed' = closed
  PROVE  PlansInv'
<1> DEFINE final == ApplyStatus(row, Verdict(row, seen))
           again == Exists(p) /\ ~ IsOpen(p) /\ final.status \in {"pending", "active"}
           new == [final EXCEPT !.reopened = @ \/ again]
<1>1. /\ final \in PlanRows /\ final.status # "absent"
      /\ final.reopened = row.reopened /\ final.metrics = row.metrics
      /\ \/ Verdict(final, seen) = final.status
         \/ Verdict(final, seen) = "active" /\ final.status \in {"passed", "failed"}
      /\ final.status = "active" => ~ Breach(final, seen)
  <2> HIDE DEF final
  <2> QED
    BY AppliedVerdict DEF final
<1>2. plan' = [plan EXCEPT ![p] = new]
  BY DEF Recalculate
<1> HIDE DEF final
<1>3. again \in BOOLEAN
  BY DEF Exists, IsOpen
<1>4. /\ new \in PlanRows /\ new.status = final.status /\ new.started = final.started
      /\ new.required = final.required /\ new.days = final.days /\ new.metrics = final.metrics
      /\ new.reopened = (row.reopened \/ again)
  <2> HIDE DEF again
  <2> QED
    BY <1>1, <1>3 DEF PlanRows
<1> HIDE DEF new
<1>5. Breach(new, seen) <=> Breach(final, seen)
  BY <1>4 DEF Breach
<1>6. Verdict(new, seen) = Verdict(final, seen)
  BY <1>4 DEF Verdict, Breach, TradesMet, DaysActive
<1>7. /\ plan \in [Plans -> PlanRows] /\ evidence \in [Plans -> Evidence]
      /\ lag \in [Plans -> {"none", "day", "reconciled"}] /\ closed \subseteq Closings
  BY DEF PlansInv, PlansTypeOK, Evidence
<1>8. /\ plan' \in [Plans -> PlanRows] /\ plan'[p] = new
      /\ evidence' \in [Plans -> Evidence] /\ evidence'[p] = now
      /\ lag' \in [Plans -> {"none", "day", "reconciled"}] /\ lag'[p] = why
      /\ \A q \in Plans \ {p} :
            plan'[q] = plan[q] /\ evidence'[q] = evidence[q] /\ lag'[q] = lag[q]
  BY <1>2, <1>4, <1>7
<1>9. PlansTypeOK'
  BY <1>7, <1>8 DEF PlansTypeOK, Evidence
<1>10. StatusFollowsEvidence'
  <2> SUFFICES ASSUME NEW q \in Plans, plan'[q].status # "absent", lag'[q] = "none"
               PROVE  \/ Verdict(plan'[q], evidence'[q]) = plan'[q].status
                      \/ /\ Verdict(plan'[q], evidence'[q]) = "active"
                         /\ plan'[q].status \in {"passed", "failed"}
    BY DEF StatusFollowsEvidence, Exists, StatusAgrees
  <2>1. CASE q = p
    BY <1>1, <1>4, <1>6, <1>8, <2>1
  <2>2. CASE q # p
    BY <1>8, <2>2 DEF PlansInv, StatusFollowsEvidence, Exists, StatusAgrees
  <2> QED
    BY <2>1, <2>2
<1>11. NoActiveBreach'
  <2> SUFFICES ASSUME NEW q \in Plans, plan'[q].status = "active"
               PROVE  ~ Breach(plan'[q], evidence'[q])
    BY DEF NoActiveBreach
  <2>1. CASE q = p
    BY <1>1, <1>4, <1>5, <1>8, <2>1
  <2>2. CASE q # p
    BY <1>8, <2>2 DEF PlansInv, NoActiveBreach
  <2> QED
    BY <2>1, <2>2
<1>12. OneOpenPlan'
  <2> SUFFICES ASSUME NEW q \in Plans \ {p}, IsOpen(p)', IsOpen(q)'
               PROVE  plan'[p].reopened \/ plan'[q].reopened
    <3>1. ASSUME NEW a \in Plans, NEW b \in Plans, IsOpen(a)', IsOpen(b)', a # b
          PROVE  plan'[a].reopened \/ plan'[b].reopened
      <4>1. CASE a = p \/ b = p
        BY <3>1, <4>1
      <4>2. CASE a # p /\ b # p
        BY <1>8, <3>1, <4>2 DEF PlansInv, OneOpenPlan, IsOpen
      <4> QED
        BY <4>1, <4>2
    <3> QED
      BY <3>1 DEF OneOpenPlan
  <2>1. IsOpen(q) /\ plan'[q].reopened = plan[q].reopened
    BY <1>8 DEF IsOpen
  <2>2. Exists(p)
    BY <2>1 DEF MayCreate
  <2>3. final.status \in {"pending", "active"}
    BY <1>4, <1>8 DEF IsOpen
  <2>4. CASE IsOpen(p)
    BY <1>4, <1>8, <2>1, <2>4 DEF PlansInv, OneOpenPlan
  <2>5. CASE ~ IsOpen(p)
    BY <1>4, <1>8, <2>2, <2>3, <2>5
  <2> QED
    BY <2>4, <2>5
<1>13. EvidenceIsOfPlans'
  BY <1>1, <1>4, <1>8 DEF PlansInv, EvidenceIsOfPlans, Exists
<1> QED
  BY <1>9, <1>10, <1>11, <1>12, <1>13 DEF PlansInv

(* The handlers that leave the evidence as it is. *)
LEMMA HandlerKeeps ==
  ASSUME PlansInv, NEW p \in Plans, NEW row \in PlanRows, row.status # "absent",
         row.reopened = plan[p].reopened, Exists(p) \/ MayCreate,
         Recalculate(p, row, evidence[p]), UpToDate(p), UNCHANGED <<evidence, closed>>
  PROVE  PlansInv'
<1>1. evidence[p] \in Evidence /\ evidence \in [Plans -> Evidence]
  BY DEF PlansInv, PlansTypeOK, Evidence
<1>2. evidence' = [evidence EXCEPT ![p] = evidence[p]]
  BY <1>1
<1> QED
  BY <1>1, <1>2, RecalculateKeeps DEF UpToDate

LEMMA PlanHandlersKeep ==
  ASSUME PlansInv, NEW p \in Plans,
         CreatePlan(p) \/ UpdatePlan(p) \/ StartPlan(p) \/ StopPlan(p) \/ RecalculatePlan(p)
  PROVE  PlansInv'
<1>1. plan[p] \in PlanRows /\ MinimumDays \in Nat \ {0}
  BY ValidationAssumption DEF PlansInv, PlansTypeOK
<1>2. CASE CreatePlan(p)
  <2>1. PICK n \in Required :
           Recalculate(p, [plan[p] EXCEPT !.status = "pending", !.required = n], evidence[p])
    BY <1>2 DEF CreatePlan
  <2> DEFINE row == [plan[p] EXCEPT !.status = "pending", !.required = n]
  <2>2. row \in PlanRows /\ row.status = "pending" /\ row.reopened = plan[p].reopened
    BY <1>1 DEF PlanRows
  <2> HIDE DEF row
  <2> QED
    BY <1>2, <2>1, <2>2, HandlerKeeps DEF CreatePlan, row
<1>3. CASE UpdatePlan(p)
  <2>1. PICK s \in {"pending", "active", "stopped", plan[p].status}, n \in Required,
             m \in {plan[p].metrics} \union Metrics :
           LET asked == [plan[p] EXCEPT !.status = s, !.required = n, !.metrics = m]
               row == IF s = "pending" /\ s # plan[p].status
                      THEN [asked EXCEPT !.started = FALSE, !.days = 0] ELSE asked
           IN  Recalculate(p, row, evidence[p])
    BY <1>3 DEF UpdatePlan
  <2> DEFINE asked == [plan[p] EXCEPT !.status = s, !.required = n, !.metrics = m]
             row == IF s = "pending" /\ s # plan[p].status
                    THEN [asked EXCEPT !.started = FALSE, !.days = 0] ELSE asked
  <2>2. Recalculate(p, row, evidence[p])
    BY <2>1
  <2>3. plan[p].status # "absent" /\ s # "absent"
    BY <1>3 DEF UpdatePlan, Exists
  <2>4. /\ s \in {"absent", "pending", "active", "passed", "failed", "stopped"}
        /\ m \in {"none", "sufficient", "losing"}
    BY <1>1, ValidationAssumption DEF PlanRows
  <2>5. asked \in PlanRows /\ asked.status = s /\ asked.reopened = plan[p].reopened
    BY <1>1, <2>4 DEF PlanRows
  <2> HIDE DEF asked
  <2>6. row \in PlanRows /\ row.status = s /\ row.reopened = plan[p].reopened
    <3>1. 0 \in 0..MinimumDays
      BY <1>1
    <3>2. /\ [asked EXCEPT !.started = FALSE, !.days = 0] \in PlanRows
          /\ [asked EXCEPT !.started = FALSE, !.days = 0].status = s
          /\ [asked EXCEPT !.started = FALSE, !.days = 0].reopened = plan[p].reopened
      BY <2>5, <3>1 DEF PlanRows
    <3> QED
      BY <2>5, <3>2
  <2> HIDE DEF row
  <2> QED
    BY <1>3, <2>2, <2>3, <2>6, HandlerKeeps DEF UpdatePlan
<1>4. CASE StartPlan(p)
  <2> DEFINE row == [plan[p] EXCEPT !.status = "active", !.started = TRUE, !.days = 1]
  <2>1. row \in PlanRows /\ row.status = "active" /\ row.reopened = plan[p].reopened
    <3>1. 1 \in 0..MinimumDays
      BY <1>1
    <3> QED
      BY <1>1, <3>1 DEF PlanRows
  <2>2. Exists(p) /\ Recalculate(p, row, evidence[p])
    BY <1>4 DEF StartPlan, Exists
  <2> HIDE DEF row
  <2> QED
    BY <1>4, <2>1, <2>2, HandlerKeeps DEF StartPlan
<1>5. CASE StopPlan(p)
  <2> DEFINE row == [plan[p] EXCEPT !.status = "stopped"]
  <2>1. row \in PlanRows /\ row.status = "stopped" /\ row.reopened = plan[p].reopened
    BY <1>1 DEF PlanRows
  <2>2. Exists(p) /\ Recalculate(p, row, evidence[p])
    BY <1>5 DEF StopPlan, Exists, IsOpen
  <2> HIDE DEF row
  <2> QED
    BY <1>5, <2>1, <2>2, HandlerKeeps DEF StopPlan
<1>6. CASE RecalculatePlan(p)
  BY <1>1, <1>6, HandlerKeeps DEF RecalculatePlan, Exists
<1> QED
  BY <1>2, <1>3, <1>4, <1>5, <1>6


LEMMA EntryChanges ==
  ASSUME PlansInv, NEW p \in Plans, Exists(p), NEW e \in Entries, NEW i \in {"counted", "excluded"},
         evidence' = [evidence EXCEPT ![p][e] = i],
         Recalculate(p, plan[p], evidence'[p]), UpToDate(p), closed' = closed
  PROVE  PlansInv'
<1> DEFINE now == [evidence[p] EXCEPT ![e] = i]
<1>1. evidence \in [Plans -> Evidence] /\ plan[p] \in PlanRows /\ plan[p].status # "absent"
  BY DEF PlansInv, PlansTypeOK, Evidence, Exists
<1>2. evidence[p] \in Evidence
  BY <1>1
<1>3. now \in Evidence
  BY <1>2 DEF Evidence
<1>4. evidence' = [evidence EXCEPT ![p] = now]
  BY <1>1
<1> HIDE DEF now
<1>5. evidence'[p] = now
  BY <1>1, <1>4
<1>6. lag' = [lag EXCEPT ![p] = "none"] /\ Recalculate(p, plan[p], now)
  BY <1>5 DEF UpToDate
<1> QED
  BY <1>1, <1>3, <1>4, <1>6, RecalculateKeeps

LEMMA EvidenceKeeps ==
  ASSUME PlansInv, NEW p \in Plans, AddManual(p) \/ ExcludeOrInclude(p)
  PROVE  PlansInv'
<1>1. PICK e \in Entries, i \in {"counted", "excluded"} :
         /\ Exists(p) \/ evidence[p][e] # "absent"
         /\ evidence' = [evidence EXCEPT ![p][e] = i]
  BY DEF AddManual, ExcludeOrInclude, Entries
<1>2. Exists(p)
  BY <1>1 DEF PlansInv, EvidenceIsOfPlans
<1> QED
  BY <1>1, <1>2, EntryChanges DEF AddManual, ExcludeOrInclude

LEMMA ReconcileKeeps ==
  ASSUME PlansInv, NEW p \in Plans, Reconcile(p)
  PROVE  PlansInv'
<1>1. PICK selected \in SUBSET closed :
         evidence' = [evidence EXCEPT ![p] =
            [e \in Entries |-> IF e \in {c \in selected : evidence[p][c] = "absent"}
                               THEN "counted" ELSE @[e]]]
  BY DEF Reconcile
<1> DEFINE seen == evidence[p]
           new == {c \in selected : seen[c] = "absent"}
           now == [e \in Entries |-> IF e \in new THEN "counted" ELSE seen[e]]
<1>2. /\ evidence \in [Plans -> Evidence] /\ seen \in Evidence
      /\ plan[p] \in PlanRows /\ plan[p].status # "absent" /\ closed \subseteq Closings
  BY DEF PlansInv, PlansTypeOK, Evidence, Reconcile, Exists
<1>3. new \subseteq Closings /\ \A e \in new : seen[e] = "absent"
  BY <1>2
<1>4. now \in Evidence
  BY <1>2 DEF Evidence
<1>5. evidence' = [evidence EXCEPT ![p] = now]
  BY <1>1, <1>2
<1> HIDE DEF new
<1>6. ASSUME NEW r \in PlanRows, ~ Breach(r, seen) PROVE ~ Breach(r, now)
  <2>1. \A e \in Entries : seen[e] # "absent" => now[e] = seen[e]
    BY <1>3
  <2>2. CASE \E e \in Entries : seen[e] # "absent"
    <3>1. \A e \in Wins \union Losses : now[e] = seen[e]
      BY <1>3, ValidationAssumption DEF Entries
    <3>2. /\ Counted(now) \intersect Wins = Counted(seen) \intersect Wins
          /\ Counted(now) \intersect Losses = Counted(seen) \intersect Losses
      BY <3>1 DEF Counted, Entries
    <3>3. \E e \in Entries : now[e] # "absent"
      BY <2>1, <2>2
    <3> HIDE DEF now, seen
    <3> QED
      BY <1>6, <2>2, <3>2, <3>3 DEF Breach
  <2>3. CASE \A e \in Entries : seen[e] = "absent"
    <3>1. CASE \E e \in Entries : now[e] # "absent"
      <4>1. \A e \in Wins \union Losses : now[e] = "absent"
        BY <1>3, <2>3, ValidationAssumption DEF Entries
      <4>2. Counted(now) \intersect Wins = {} /\ Counted(now) \intersect Losses = {}
        BY <4>1 DEF Counted, Entries
      <4> HIDE DEF now, seen
      <4> QED
        BY <3>1, <4>2, FS_EmptySet DEF Breach
    <3>2. CASE \A e \in Entries : now[e] = "absent"
      <4> HIDE DEF now, seen
      <4> QED
        BY <1>6, <2>3, <3>2 DEF Breach
    <3> QED
      BY <3>1, <3>2
  <2> QED
    BY <2>2, <2>3
<1> HIDE DEF now
<1>7. /\ Recalculate(p, plan[p], seen) /\ lag' = [lag EXCEPT ![p] = "reconciled"]
      /\ closed' = closed /\ Exists(p)
  BY DEF Reconcile
<1> HIDE DEF seen
<1> QED
  BY <1>2, <1>4, <1>5, <1>6, <1>7, RecalculateKeeps

LEMMA DayKeeps ==
  ASSUME PlansInv, NEW p \in Plans, DayPasses(p)
  PROVE  PlansInv'
<1> DEFINE row == [plan[p] EXCEPT !.days = @ + 1]
<1>1. plan[p] \in PlanRows /\ plan \in [Plans -> PlanRows] /\ MinimumDays \in Nat
      /\ lag \in [Plans -> {"none", "day", "reconciled"}]
  BY ValidationAssumption DEF PlansInv, PlansTypeOK
<1>2. plan[p].days + 1 \in 0..MinimumDays
  BY <1>1 DEF DayPasses, PlanRows
<1>3. /\ row \in PlanRows /\ row.status = plan[p].status /\ row.reopened = plan[p].reopened
      /\ row.metrics = plan[p].metrics
  BY <1>1, <1>2 DEF PlanRows
<1>4. /\ plan' = [plan EXCEPT ![p] = row] /\ lag' = [lag EXCEPT ![p] = "day"]
      /\ UNCHANGED <<evidence, closed>>
  BY <1>1 DEF DayPasses
<1> HIDE DEF row
<1>5. /\ plan' \in [Plans -> PlanRows] /\ plan'[p] = row
      /\ lag' \in [Plans -> {"none", "day", "reconciled"}] /\ lag'[p] = "day"
      /\ \A q \in Plans \ {p} : plan'[q] = plan[q] /\ lag'[q] = lag[q]
  BY <1>1, <1>3, <1>4
<1>6. \A q \in Plans : (IsOpen(q)' <=> IsOpen(q)) /\ (Exists(q)' <=> Exists(q))
  BY <1>3, <1>5 DEF IsOpen, Exists
<1>7. \A q \in Plans : plan'[q].reopened = plan[q].reopened
  BY <1>3, <1>5
<1>8. PlansTypeOK'
  BY <1>4, <1>5 DEF PlansInv, PlansTypeOK
<1>9. StatusFollowsEvidence'
  <2> SUFFICES ASSUME NEW q \in Plans, plan'[q].status # "absent", lag'[q] = "none"
               PROVE  \/ Verdict(plan'[q], evidence'[q]) = plan'[q].status
                      \/ /\ Verdict(plan'[q], evidence'[q]) = "active"
                         /\ plan'[q].status \in {"passed", "failed"}
    BY DEF StatusFollowsEvidence, Exists, StatusAgrees
  <2>1. q # p
    BY <1>5
  <2> QED
    BY <1>4, <1>5, <2>1 DEF PlansInv, StatusFollowsEvidence, Exists, StatusAgrees
<1>10. OneOpenPlan'
  BY <1>6, <1>7 DEF PlansInv, OneOpenPlan
<1>11. NoActiveBreach'
  <2> SUFFICES ASSUME NEW q \in Plans, plan'[q].status = "active"
               PROVE  ~ Breach(plan'[q], evidence[q])
    BY <1>4 DEF NoActiveBreach, Breach
  <2>1. ~ Breach(plan[q], evidence[q])
    BY <1>3, <1>5 DEF PlansInv, NoActiveBreach
  <2> QED
    BY <1>3, <1>5, <2>1 DEF Breach
<1>12. EvidenceIsOfPlans'
  BY <1>4, <1>6 DEF PlansInv, EvidenceIsOfPlans
<1> QED
  BY <1>8, <1>9, <1>10, <1>11, <1>12 DEF PlansInv

LEMMA PlansQuiet ==
  ASSUME PlansInv, UNCHANGED <<plan, evidence, lag>>, closed' \subseteq Closings
  PROVE  PlansInv'
BY DEF PlansInv, PlansTypeOK, StatusFollowsEvidence, OneOpenPlan, NoActiveBreach,
       EvidenceIsOfPlans, Exists, IsOpen, StatusAgrees, Verdict, Breach, TradesMet

LEMMA PlansInductive == PlansInv /\ [PlansNext]_planVars => PlansInv'
<1> SUFFICES ASSUME PlansInv, [PlansNext]_planVars PROVE PlansInv'
  OBVIOUS
<1>1. CASE OutcomeCloses
  BY <1>1, PlansQuiet DEF OutcomeCloses, PlansInv, PlansTypeOK
<1>2. CASE UNCHANGED planVars
  BY <1>2, PlansQuiet DEF planVars, PlansInv, PlansTypeOK
<1>3. ASSUME NEW p \in Plans,
             \/ CreatePlan(p) \/ UpdatePlan(p) \/ StartPlan(p) \/ StopPlan(p)
             \/ RecalculatePlan(p) \/ AddManual(p) \/ ExcludeOrInclude(p) \/ Reconcile(p)
             \/ DayPasses(p)
      PROVE  PlansInv'
  BY <1>3, PlanHandlersKeep, EvidenceKeeps, ReconcileKeeps, DayKeeps
<1> QED
  BY <1>1, <1>2, <1>3 DEF PlansNext

-----------------------------------------------------------------------------

LEMMA EntriesFinite == \A S : S \subseteq Entries => IsFiniteSet(S) /\ Cardinality(S) \in Nat
BY ValidationAssumption, FS_Subset, FS_CardinalityType DEF Entries

(* What the page counts as the trades reached is what the computation of   *)
(* the status counts as met.                                               *)
LEMMA ReachedIsMet ==
  ASSUME PlansInv, NEW p \in Plans
  PROVE  /\ TradesDone(p) \in Nat /\ plan[p].required \in Nat \ {0}
         /\ TradesReached(p) <=> TradesMet(plan[p], evidence[p])
<1>1. plan[p] \in PlanRows
  BY DEF PlansInv, PlansTypeOK
<1>2. plan[p].required \in Nat \ {0}
  BY <1>1, ValidationAssumption DEF PlanRows
<1>3. Counted(evidence[p]) \subseteq Entries
  BY DEF Counted
<1>4. Cardinality(Counted(evidence[p])) \in Nat
  BY <1>3, EntriesFinite
<1>5. (\E e \in Entries : evidence[p][e] # "absent") <=> Held(p) # {}
  BY DEF Held
<1>6. TradesDone(p) = IF Held(p) # {} THEN Cardinality(Counted(evidence[p]))
                      ELSE IF plan[p].metrics = "sufficient" THEN plan[p].required ELSE 0
  BY DEF TradesDone
<1> QED
  BY <1>2, <1>4, <1>5, <1>6 DEF TradesReached, TradesMet

LEMMA ReadyTransient == PlansInv => ReadyIsTransient
<1> SUFFICES ASSUME PlansInv, NEW p \in Plans, Exists(p),
                    ReadinessStatus(p) = "ready_for_review", lag[p] = "none"
             PROVE  FALSE
  BY DEF ReadyIsTransient
<1>1. plan[p].status = "active" /\ TradesReached(p) /\ DaysReached(p)
  <2>1. plan[p].status \in {"pending", "active", "passed", "failed", "stopped"}
    BY DEF PlansInv, PlansTypeOK, PlanRows, Exists
  <2> QED
    BY <2>1 DEF ReadinessStatus
<1>2. Verdict(plan[p], evidence[p]) = "active"
  BY <1>1 DEF PlansInv, StatusFollowsEvidence, StatusAgrees
<1>3. TradesMet(plan[p], evidence[p]) /\ DaysActive(plan[p]) >= MinimumDays
  BY <1>1, ReachedIsMet DEF DaysReached
<1> QED
  BY <1>1, <1>2, <1>3 DEF Verdict

LEMMA DashboardTold == PlansInv => DashboardAgrees
<1> SUFFICES ASSUME PlansInv PROVE DashboardAgrees
  OBVIOUS
<1>1. Dashboard.ready = Cardinality({p \in Plans :
         Exists(p) /\ (Active(p) /\ TradesReached(p) /\ DaysReached(p))})
  BY DEF Dashboard, PlansWhere
<1>2. Dashboard.low = Cardinality({p \in Plans :
         Exists(p) /\ AtLeast(LowConfidence(p), 2, Held(p))})
  BY DEF Dashboard, PlansWhere
<1>3. Dashboard.breaching = Cardinality({p \in Plans :
         Exists(p) /\ (Active(p) /\ Breach(plan[p], evidence[p]))})
  BY DEF Dashboard, PlansWhere
<1>4. \A p \in Plans : Exists(p) =>
         ((Active(p) /\ TradesReached(p) /\ DaysReached(p))
             <=> ReadinessStatus(p) = "ready_for_review")
  <2> SUFFICES ASSUME NEW p \in Plans, Exists(p)
               PROVE  (Active(p) /\ TradesReached(p) /\ DaysReached(p))
                          <=> ReadinessStatus(p) = "ready_for_review"
    OBVIOUS
  <2>1. plan[p].status \in {"pending", "active", "passed", "failed", "stopped"}
    BY DEF PlansInv, PlansTypeOK, PlanRows, Exists
  <2> QED
    BY <2>1 DEF ReadinessStatus, Active
<1>5. \A p \in Plans : AtLeast(LowConfidence(p), 2, Held(p)) <=> "low confidence" \in Warnings(p)
  BY DEF Warnings
<1>6. {p \in Plans : Exists(p) /\ (Active(p) /\ Breach(plan[p], evidence[p]))} = {}
  BY DEF PlansInv, NoActiveBreach, Active
<1>7. {p \in Plans : Exists(p) /\ (Active(p) /\ TradesReached(p) /\ DaysReached(p))}
        = {p \in Plans : Exists(p) /\ ReadinessStatus(p) = "ready_for_review"}
  BY <1>4
<1>8. {p \in Plans : Exists(p) /\ AtLeast(LowConfidence(p), 2, Held(p))}
        = {p \in Plans : Exists(p) /\ "low confidence" \in Warnings(p)}
  BY <1>5
<1> QED
  BY <1>1, <1>2, <1>3, <1>6, <1>7, <1>8, FS_EmptySet DEF DashboardAgrees, PlansWhere

LEMMA ScoreTold == PlansInv => ScoreMeansProgress
<1> SUFFICES ASSUME PlansInv, NEW p \in Plans, Exists(p), ReviewAnswers(p)
             PROVE  /\ plan[p].status # "failed" =>
                          (ReadinessScore(p) = 45 <=> Warnings(p) \intersect {"trades", "days"} = {})
                    /\ "profit factor" \notin Warnings(p)
  BY DEF ScoreMeansProgress
<1>1. ~ Breach(plan[p], evidence[p])
  <2>1. CASE Held(p) = {}
    BY <2>1 DEF ReviewAnswers, ProfitFactorKnown, Held, Breach
  <2>2. CASE Held(p) # {}
    <3>1. Counted(evidence[p]) \intersect Losses = {}
      BY <2>2 DEF ReviewAnswers, ProfitFactorKnown
    <3>2. Counted(evidence[p]) \intersect Wins \subseteq Entries
      BY DEF Counted
    <3>3. Cardinality(Counted(evidence[p]) \intersect Wins) \in Nat
      BY <3>2, EntriesFinite
    <3>4. Cardinality(Counted(evidence[p]) \intersect Losses) = 0
      BY <3>1, FS_EmptySet
    <3>5. \E e \in Entries : evidence[p][e] # "absent"
      BY <2>2 DEF Held
    <3> QED
      BY <3>3, <3>4, <3>5 DEF Breach
  <2> QED
    BY <2>1, <2>2
<1>2. "profit factor" \notin Warnings(p)
  BY <1>1 DEF Warnings
<1>3. ASSUME plan[p].status # "failed"
      PROVE  ReadinessScore(p) = 45 <=> Warnings(p) \intersect {"trades", "days"} = {}
  <2> DEFINE ofTrades == ScoreFor(25, TradesDone(p), plan[p].required)
             ofDays == ScoreFor(20, DaysActive(plan[p]), MinimumDays)
  <2>1. TradesDone(p) \in Nat /\ plan[p].required \in Nat \ {0}
    BY ReachedIsMet
  <2>2. DaysActive(plan[p]) \in Nat /\ MinimumDays \in Nat \ {0}
    <3>1. plan[p].days \in 0..MinimumDays
      BY DEF PlansInv, PlansTypeOK, PlanRows
    <3> QED
      BY <3>1, ValidationAssumption DEF DaysActive
  <2>3. ofTrades \in Int /\ ofTrades <= 25 /\ (ofTrades = 25 <=> TradesReached(p))
    BY <2>1, ScoreOfAPart DEF TradesReached
  <2>4. ofDays \in Int /\ ofDays <= 20 /\ (ofDays = 20 <=> DaysReached(p))
    BY <2>2, ScoreOfAPart DEF DaysReached
  <2>5. ReadinessScore(p) = ofTrades + ofDays
    BY <1>3 DEF ReadinessScore
  <2>6. ("trades" \in Warnings(p) <=> ~ TradesReached(p)) /\ ("days" \in Warnings(p) <=> ~ DaysReached(p))
    BY DEF Warnings
  <2> HIDE DEF ofTrades, ofDays
  <2>7. ReadinessScore(p) = 45 <=> TradesReached(p) /\ DaysReached(p)
    BY <2>3, <2>4, <2>5
  <2> QED
    BY <2>6, <2>7
<1> QED
  BY <1>2, <1>3

(* The stored status of every plan goes with its evidence, and the review  *)
(* page and the dashboard tell what it is.                                 *)
THEOREM PlansAreToldTruly == PlansSpec => []PlansToldTruly
<1>1. PlansInv => PlansToldTruly
  BY ReadyTransient, DashboardTold, ScoreTold DEF PlansInv, PlansToldTruly, PlansTellTruth
<1> QED
  BY <1>1, PlansStart, PlansInductive, PTL DEF PlansSpec

-----------------------------------------------------------------------------

(* A finite range of natural numbers has a highest. *)
LEMMA HighestOf ==
  ASSUME NEW n \in Nat \ {0}, NEW f, \A k \in 1..n : f[k] \in Nat
  PROVE  \E m \in 1..n : \A k \in 1..n : f[k] <= f[m]
<1> DEFINE Holds(j) == \E m \in 1..j : \A k \in 1..j : f[k] <= f[m]
           T == {j \in 1..n : ~ Holds(j)}
<1>1. SUFFICES ASSUME T # {} PROVE FALSE
  <2>1. n \in 1..n /\ (n \notin T => Holds(n))
    OBVIOUS
  <2> HIDE DEF T
  <2> QED
    BY <2>1
<1>2. PICK j \in T : \A i \in T : j <= i
  <2>1. T \subseteq Nat
    OBVIOUS
  <2> HIDE DEF T
  <2> QED
    BY <1>1, <2>1, LeastNatural
<1>3. Holds(1)
  OBVIOUS
<1>4. j \in 2..n
  BY <1>2, <1>3
<1>5. Holds(j - 1)
  <2>1. j - 1 \in 1..n /\ ~ (j <= j - 1)
    BY <1>4
  <2> HIDE DEF Holds
  <2> QED
    BY <1>2, <2>1
<1>6. PICK m \in 1..(j - 1) : \A k \in 1..(j - 1) : f[k] <= f[m]
  BY <1>5
<1>7. f[m] \in Nat /\ f[j] \in Nat /\ m \in 1..j /\ j \in 1..j
  BY <1>4
<1>8. Holds(j)
  <2>1. \A k \in 1..j : k \in 1..(j - 1) \/ k = j
    BY <1>4
  <2>2. \A k \in 1..j : f[k] \in Nat
    BY <1>4
  <2>3. CASE f[j] <= f[m]
    BY <1>6, <1>7, <2>1, <2>3
  <2>4. CASE f[m] <= f[j]
    BY <1>6, <1>7, <2>1, <2>2, <2>4
  <2> QED
    BY <1>7, <2>3, <2>4
<1> QED
  BY <1>2, <1>8

OpenTrades == [side : {"long", "short"}, entry : Nat, stop : Nat, target : Int, at : Nat]

(* The target of a trade is on the side of its entry that gains.           *)
Gainful(t) == IF t.side = "long" THEN t.target > t.entry ELSE t.target < t.entry

SimInv ==
    /\ candles \in Seq(Shapes)
    /\ read \in Nat
    /\ trade = NoTrade \/ (trade \in OpenTrades /\ Gainful(trade))
    /\ TargetsAreEarned

LEMMA ShapesAre ==
  \A c \in Shapes : c.low \in Nat /\ c.high \in Nat /\ c.close \in Nat
BY SimulatorAssumption

(* The swing low or high is one of the prices there were.                  *)
LEMMA StopIsPrice ==
  ASSUME NEW cs \in Seq(Shapes), Len(cs) > SlowWindow, NEW side
  PROVE  StopPrice(cs, side) \in Nat
<1> DEFINE past == SubSeq(cs, 1, Len(cs) - 1)
           n == Len(cs) - 1
           lows == {past[k].low : k \in 1..Len(past)}
           highs == {past[k].high : k \in 1..Len(past)}
<1>1. past \in Seq(Shapes) /\ Len(past) = n /\ n \in Nat \ {0}
  <2>1. SlowWindow \in Nat /\ SlowWindow > 1
    <3>1. FastWindow \in Nat \ {0} /\ SlowWindow \in Nat /\ SlowWindow > FastWindow
      BY SimulatorAssumption
    <3> QED
      BY <3>1
  <2>2. Len(cs) \in Nat
    OBVIOUS
  <2>3. n \in Nat \ {0} /\ n <= Len(cs)
    <3> DEFINE len == Len(cs)
    <3>1. len \in Nat /\ len > SlowWindow
      BY <2>2
    <3> HIDE DEF len
    <3>2. len - 1 \in Nat \ {0} /\ len - 1 <= len
      BY <2>1, <3>1
    <3> QED
      BY <3>2 DEF len
  <2> HIDE DEF n
  <2>4. \A k \in 1..n : cs[k] \in Shapes
    BY <2>2, <2>3
  <2>5. /\ SubSeq(cs, 1, n) \in Seq(Shapes)
        /\ Len(SubSeq(cs, 1, n)) = n
    BY <2>2, <2>3, <2>4
  <2> QED
    BY <2>3, <2>5 DEF n
<1>2. \A k \in 1..n : past[k] \in Shapes
  BY <1>1
<1>3. 1 \in 1..n
  BY <1>1
<1> HIDE DEF past, n
<1>4. CASE side = "long"
  <2>1. lows \subseteq Nat /\ lows # {}
    BY <1>1, <1>2, <1>3, ShapesAre
  <2>2. \E m \in lows : \A k \in lows : m <= k
    <3> HIDE DEF lows
    <3> QED
      BY <2>1, LeastNatural
  <2>3. Min(lows) \in lows
    <3> HIDE DEF lows
    <3> QED
      BY <2>2 DEF Min
  <2>4. StopPrice(cs, side) = Min(lows)
    BY <1>4 DEF StopPrice, past
  <2> QED
    BY <2>1, <2>3, <2>4
<1>5. CASE side # "long"
  <2> DEFINE f == [k \in 1..n |-> past[k].high]
  <2>1. \A k \in 1..n : f[k] \in Nat
    BY <1>2, ShapesAre
  <2>2. highs \subseteq Nat /\ highs = {f[k] : k \in 1..n}
    BY <1>1, <1>2, ShapesAre
  <2> HIDE DEF f
  <2>3. PICK m \in 1..n : \A k \in 1..n : f[k] <= f[m]
    BY <1>1, <2>1, HighestOf
  <2>4. f[m] \in highs /\ \A k \in highs : f[m] >= k
    <3> HIDE DEF highs
    <3> QED
      BY <2>1, <2>2, <2>3
  <2>5. Max(highs) \in highs
    <3> HIDE DEF highs
    <3> QED
      BY <2>4 DEF Max
  <2>6. StopPrice(cs, side) = Max(highs)
    BY <1>5 DEF StopPrice, past
  <2> QED
    BY <2>2, <2>5, <2>6
<1> QED
  BY <1>4, <1>5

LEMMA EntryGains ==
  ASSUME NEW cs \in Seq(Shapes), Len(cs) > SlowWindow, NEW n \in Nat,
         NEW t, t = Entry(cs, n)
  PROVE  t = NoTrade \/ (t \in OpenTrades /\ Gainful(t))
<1> DEFINE side == Signal(cs)
           close == cs[Len(cs)].close
           stop == StopPrice(cs, side)
           distance == Distance(close, stop)
           reach == distance * RiskReward
<1>1. side \in {"long", "short", "none"}
  BY DEF Signal
<1>2. stop \in Nat
  BY StopIsPrice
<1>3. close \in Nat
  <2>1. Len(cs) \in 1..Len(cs)
    BY SimulatorAssumption
  <2>2. cs[Len(cs)] \in Shapes
    BY <2>1
  <2> QED
    BY <2>2, ShapesAre
<1>4. CASE side # "none" /\ stop # close
  <2>1. t = [side |-> side, entry |-> close, stop |-> stop, at |-> n,
             target |-> IF side = "long" THEN close + reach ELSE close - reach]
    BY <1>4 DEF Entry
  <2> HIDE DEF side, close, stop
  <2>2. distance \in Nat \ {0}
    BY <1>2, <1>3, <1>4 DEF Distance
  <2> HIDE DEF distance
  <2>3. reach \in Nat \ {0}
    BY <2>2, SimulatorAssumption
  <2> HIDE DEF reach
  <2> QED
    BY <1>1, <1>2, <1>3, <1>4, <2>1, <2>3 DEF OpenTrades, Gainful
<1>5. CASE side = "none" \/ stop = close
  BY <1>5 DEF Entry
<1> QED
  BY <1>4, <1>5

LEMMA SimStart == SimInit => SimInv
BY DEF SimInit, SimInv, TargetsAreEarned, NoExit

LEMMA ReadKeeps ==
  ASSUME SimInv, ReadCandle
  PROVE  SimInv'
<1>1. PICK c \in Shapes :
        LET cs == IF Len(candles) > SlowWindow THEN Append(Tail(candles), c)
                                               ELSE Append(candles, c)
            reason == IF trade = NoTrade THEN "none" ELSE ExitReason(trade, c, read + 1)
            left == IF reason = "none" THEN trade ELSE NoTrade
        IN  /\ candles' = cs
            /\ exit' = IF reason = "none" THEN NoExit ELSE Exited(trade, reason, c, read + 1)
            /\ trade' = IF left = NoTrade /\ Len(cs) > SlowWindow
                        THEN Entry(cs, read + 1) ELSE left
  BY DEF ReadCandle
<1> DEFINE cs == IF Len(candles) > SlowWindow THEN Append(Tail(candles), c)
                                              ELSE Append(candles, c)
           reason == IF trade = NoTrade THEN "none" ELSE ExitReason(trade, c, read + 1)
           left == IF reason = "none" THEN trade ELSE NoTrade
<1>2. candles' = cs /\ read' = read + 1
  BY <1>1 DEF ReadCandle
<1>3. cs \in Seq(Shapes) /\ Len(cs) \in Nat \ {0} /\ cs[Len(cs)] = c
  <2>1. candles \in Seq(Shapes) /\ Len(candles) \in Nat /\ SlowWindow \in Nat
    BY SimulatorAssumption DEF SimInv
  <2>2. CASE Len(candles) > SlowWindow
    <3> DEFINE tail == Tail(candles)
    <3>1. tail \in Seq(Shapes)
      BY <2>1, <2>2
    <3> HIDE DEF tail
    <3>2. Append(tail, c) \in Seq(Shapes) /\ Len(Append(tail, c)) = Len(tail) + 1
          /\ Append(tail, c)[Len(tail) + 1] = c /\ Len(tail) \in Nat
      BY <3>1
    <3> QED
      BY <2>2, <3>2 DEF tail
  <2>3. CASE ~ (Len(candles) > SlowWindow)
    BY <2>1, <2>3
  <2> QED
    BY <2>2, <2>3
<1>4. read + 1 \in Nat /\ (trade = NoTrade \/ (trade \in OpenTrades /\ Gainful(trade)))
  BY DEF SimInv
<1>5. exit' = (IF reason = "none" THEN NoExit ELSE Exited(trade, reason, c, read + 1))
      /\ trade' = IF left = NoTrade /\ Len(cs) > SlowWindow THEN Entry(cs, read + 1) ELSE left
  BY <1>1
<1> HIDE DEF cs
<1>6. trade' = NoTrade \/ (trade' \in OpenTrades /\ Gainful(trade'))
  <2>1. CASE left = NoTrade /\ Len(cs) > SlowWindow
    BY <1>3, <1>4, <1>5, <2>1, EntryGains
  <2>2. CASE ~ (left = NoTrade /\ Len(cs) > SlowWindow)
    BY <1>4, <1>5, <2>2
  <2> QED
    BY <2>1, <2>2
<1>7. TargetsAreEarned'
  <2>1. CASE reason = "none"
    BY <1>5, <2>1 DEF TargetsAreEarned, NoExit
  <2>2. CASE reason # "none"
    <3>1. trade \in OpenTrades /\ Gainful(trade) /\ reason = ExitReason(trade, c, read + 1)
      BY <1>4, <2>2
    <3>2. reason = "target" => ~ StopHit(trade, c)
      <4> HIDE DEF reason
      <4> QED
        BY <3>1 DEF ExitReason
    <3> HIDE DEF reason
    <3>3. SUFFICES ASSUME reason = "target" PROVE TargetsAreEarned'
      BY <1>5, <2>2 DEF TargetsAreEarned, Exited
    <3>4. /\ exit'.side = trade.side /\ exit'.against = trade.stop
          /\ exit'.gain = IF trade.side = "long" THEN trade.target - trade.entry
                                                 ELSE trade.entry - trade.target
      BY <1>5, <3>3 DEF Exited
    <3>5. exit'.gain > 0
      BY <3>1, <3>4 DEF OpenTrades, Gainful
    <3>6. candles'[Len(candles')] = c
      BY <1>2, <1>3
    <3>7. IF exit'.side = "long" THEN c.low > exit'.against ELSE c.high < exit'.against
      BY <3>1, <3>2, <3>3, <3>4, ShapesAre DEF StopHit, OpenTrades
    <3> QED
      BY <3>5, <3>6, <3>7 DEF TargetsAreEarned
  <2> QED
    BY <2>1, <2>2
<1> QED
  BY <1>2, <1>3, <1>4, <1>6, <1>7 DEF SimInv, Gainful

LEMMA SimInductive == SimInv /\ [SimNext]_simVars => SimInv'
<1> SUFFICES ASSUME SimInv, [SimNext]_simVars PROVE SimInv'
  OBVIOUS
<1>1. CASE EndOfData
  BY <1>1 DEF EndOfData, Exited, SimInv, TargetsAreEarned
<1>2. CASE UNCHANGED simVars
  BY <1>2 DEF simVars, SimInv, TargetsAreEarned, Gainful
<1> QED
  BY <1>1, <1>2, ReadKeeps DEF SimNext

(* A trade that took its target gained, and its stop was not touched.      *)
THEOREM TargetsAreAlwaysEarned == SimSpec => []TargetsAreEarned
<1>1. SimInv => TargetsAreEarned
  BY DEF SimInv
<1> QED
  BY <1>1, SimStart, SimInductive, PTL DEF SimSpec

-----------------------------------------------------------------------------

WalkInv ==
    /\ split \in Percentages
    /\ folds \in Nat \ {0}
    /\ trades \in Seq(ClosedTrades)

LEMMA WalkStart == WalkInit => WalkInv
BY WalkForwardAssumption DEF WalkInit, WalkInv

LEMMA WalkInductive == WalkInv /\ [WalkNext]_walkVars => WalkInv'
<1> SUFFICES ASSUME WalkInv, [WalkNext]_walkVars PROVE WalkInv'
  OBVIOUS
<1>1. CASE WalkNext
  <2>1. PICK t \in ClosedTrades : trades' = Append(trades, t)
    BY <1>1 DEF WalkNext, ReadTrade
  <2>2. UNCHANGED <<split, folds>>
    BY <1>1 DEF WalkNext, ReadTrade
  <2> QED
    BY <2>1, <2>2 DEF WalkInv
<1>2. CASE UNCHANGED walkVars
  BY <1>2 DEF walkVars, WalkInv
<1> QED
  BY <1>1, <1>2

LEMMA TimesGrow ==
  ASSUME NEW a \in Int, NEW b \in Int, NEW r \in Nat, a <= b
  PROVE  a * r <= b * r
OBVIOUS

LEMMA AtLeastOnce ==
  ASSUME NEW p \in Nat, NEW d \in Nat \ {0}
  PROVE  /\ p \div d \in Nat
         /\ d <= p => p \div d >= 1
OBVIOUS

(* The split divided by its common divisor has whole parts, none negative, *)
(* and the last is at least one.                                           *)
LEMMA UnitsPositive ==
  ASSUME NEW p \in Percentages
  PROVE  /\ p[1] \in Nat /\ p[2] \in Nat /\ p[3] \in Nat \ {0} /\ Total(p) = 100
         /\ Units(p)[1] \in Nat /\ Units(p)[2] \in Nat /\ Units(p)[3] \in Nat \ {0}
<1> DEFINE ds == {d \in 1..p[3] : \A k \in 1..3 : p[k] % d = 0}
<1>1. /\ p[1] \in Nat \ {0} /\ p[2] \in Nat \ {0} /\ p[3] \in Nat \ {0}
      /\ p[1] + p[2] + p[3] = 100
  <2>1. p \in Seq(Nat \ {0}) /\ Len(p) = 3 /\ p[1] + p[2] + p[3] = 100
    BY WalkForwardAssumption
  <2>2. 1 \in 1..Len(p) /\ 2 \in 1..Len(p) /\ 3 \in 1..Len(p)
    BY <2>1
  <2>3. \A k \in 1..Len(p) : p[k] \in Nat \ {0}
    BY <2>1, ElementOfSeq
  <2> QED
    BY <2>1, <2>2, <2>3
<1>2. 1 \in ds
  <2>1. \A k \in 1..3 : p[k] \in Nat
    BY <1>1
  <2>2. \A k \in 1..3 : p[k] % 1 = 0
    BY <2>1
  <2> QED
    BY <1>1, <2>2
<1>3. PICK m \in ds : \A d \in ds : d <= m
  <2> DEFINE last == p[3]
  <2>1. ds \subseteq 0..last /\ last \in Nat
    BY <1>1
  <2> HIDE DEF ds, last
  <2> QED
    BY <1>2, <2>1, GreatestUpTo
<1>4. CommonDivisor(p) \in ds
  <2>1. \A d \in ds : m >= d
    BY <1>1, <1>3
  <2>2. Max(ds) \in ds
    <3> HIDE DEF ds
    <3> QED
      BY <1>3, <2>1 DEF Max
  <2> QED
    BY <2>2 DEF CommonDivisor
<1>5. CommonDivisor(p) \in Nat \ {0} /\ CommonDivisor(p) <= p[3]
  BY <1>1, <1>4
<1>6. /\ p[1] \div CommonDivisor(p) \in Nat /\ p[2] \div CommonDivisor(p) \in Nat
      /\ p[3] \div CommonDivisor(p) \in Nat \ {0}
  BY <1>1, <1>5, AtLeastOnce
<1> QED
  BY <1>1, <1>6 DEF Units, Total

(* Fold k begins k - 1 segments into the run and its last period ends      *)
(* where the run does, for the last fold.                                  *)
LEMMA FoldShape ==
  ASSUME WalkInv
  PROVE  \E a \in Nat, b \in Nat, c \in Nat \ {0}, s \in Nat :
            /\ s = a + b + c + folds - 1
            /\ \A k \in 1..folds :
                  LET fold == FoldsOf(split, folds)[k]
                  IN  /\ fold.segments = s
                      /\ fold.cuts[1] = k - 1 /\ fold.cuts[2] = k - 1 + a
                      /\ fold.cuts[3] = k - 1 + a + b
                      /\ fold.cuts[4] = k - 1 + (a + b + c)
<1>1. folds \in Nat \ {0} /\ split \in Percentages
  BY DEF WalkInv
<1> DEFINE u == IF folds = 1 THEN split ELSE Units(split)
           s == Total(u) + folds - 1
<1>2. /\ u[1] \in Nat /\ u[2] \in Nat /\ u[3] \in Nat \ {0}
      /\ folds = 1 => Total(u) = 100
  BY <1>1, UnitsPositive
<1>3. \A k \in 1..folds : FoldsOf(split, folds)[k] = FoldFrom(k - 1, u, s)
  <2>1. CASE folds = 1
    BY <1>2, <2>1 DEF FoldsOf
  <2>2. CASE folds # 1
    BY <1>1, <2>2 DEF FoldsOf, Segments
  <2> QED
    BY <2>1, <2>2
<1> HIDE DEF u
<1>4. Total(u) = u[1] + u[2] + u[3]
  BY DEF Total
<1>5. s \in Nat /\ s = u[1] + u[2] + u[3] + folds - 1
  BY <1>1, <1>2, <1>4
<1> HIDE DEF s
<1>6. \A k \in 1..folds :
         LET fold == FoldsOf(split, folds)[k]
         IN  /\ fold.segments = s
             /\ fold.cuts[1] = k - 1 /\ fold.cuts[2] = k - 1 + u[1]
             /\ fold.cuts[3] = k - 1 + u[1] + u[2]
             /\ fold.cuts[4] = k - 1 + (u[1] + u[2] + u[3])
  <2> SUFFICES ASSUME NEW k \in 1..folds
               PROVE  LET fold == FoldsOf(split, folds)[k]
                      IN  /\ fold.segments = s
                          /\ fold.cuts[1] = k - 1 /\ fold.cuts[2] = k - 1 + u[1]
                          /\ fold.cuts[3] = k - 1 + u[1] + u[2]
                          /\ fold.cuts[4] = k - 1 + (u[1] + u[2] + u[3])
    OBVIOUS
  <2> DEFINE first == k - 1
             cuts == <<first, first + u[1], first + u[1] + u[2], first + (u[1] + u[2] + u[3])>>
  <2>1. FoldsOf(split, folds)[k] = [segments |-> s, cuts |-> cuts]
    BY <1>3, <1>4 DEF FoldFrom
  <2>2. /\ cuts[1] = first /\ cuts[2] = first + u[1] /\ cuts[3] = first + u[1] + u[2]
        /\ cuts[4] = first + (u[1] + u[2] + u[3])
    OBVIOUS
  <2> HIDE DEF cuts
  <2> QED
    BY <2>1, <2>2
<1> DEFINE a == u[1]
           b == u[2]
           c == u[3]
<1>7. /\ s = a + b + c + folds - 1
      /\ \A k \in 1..folds :
            LET fold == FoldsOf(split, folds)[k]
            IN  /\ fold.segments = s
                /\ fold.cuts[1] = k - 1 /\ fold.cuts[2] = k - 1 + a
                /\ fold.cuts[3] = k - 1 + a + b
                /\ fold.cuts[4] = k - 1 + (a + b + c)
  BY <1>5, <1>6
<1>8. a \in Nat /\ b \in Nat /\ c \in Nat \ {0} /\ s \in Nat
  BY <1>2, <1>5
<1> HIDE DEF a, b, c
<1> QED
  BY <1>7, <1>8

(* Along the cuts of a fold a time is ever further before the next.        *)
LEMMA PastFalls ==
  ASSUME WalkInv, NEW k \in 1..folds, NEW moment \in Nat
  PROVE  LET fold == FoldsOf(split, folds)[k]
         IN  /\ \A i \in 1..4 : Past(moment, fold, i) \in Int
             /\ Past(moment, fold, 1) >= Past(moment, fold, 2)
             /\ Past(moment, fold, 2) >= Past(moment, fold, 3)
             /\ Past(moment, fold, 3) >= Past(moment, fold, 4)
<1> DEFINE fold == FoldsOf(split, folds)[k]
<1>1. PICK a \in Nat, b \in Nat, c \in Nat \ {0}, s \in Nat :
         /\ fold.segments = s
         /\ fold.cuts[1] = k - 1 /\ fold.cuts[2] = k - 1 + a
         /\ fold.cuts[3] = k - 1 + a + b
         /\ fold.cuts[4] = k - 1 + (a + b + c)
  BY FoldShape
<1>2. k \in Int /\ RunLength \in Nat
  BY WalkForwardAssumption DEF WalkInv
<1> HIDE DEF fold
<1> DEFINE cutAt(i) == fold.cuts[i]
<1>3. /\ cutAt(1) \in Int /\ cutAt(2) \in Int /\ cutAt(3) \in Int /\ cutAt(4) \in Int
      /\ cutAt(1) <= cutAt(2) /\ cutAt(2) <= cutAt(3) /\ cutAt(3) <= cutAt(4)
  BY <1>1, <1>2
<1>4. \A i \in 1..4 : Past(moment, fold, i) = moment * s - cutAt(i) * RunLength
  BY <1>1 DEF Past
<1> HIDE DEF cutAt
<1>5. /\ cutAt(1) * RunLength <= cutAt(2) * RunLength
      /\ cutAt(2) * RunLength <= cutAt(3) * RunLength
      /\ cutAt(3) * RunLength <= cutAt(4) * RunLength
  BY <1>2, <1>3, TimesGrow
<1>6. /\ moment * s \in Int /\ cutAt(1) * RunLength \in Int /\ cutAt(2) * RunLength \in Int
      /\ cutAt(3) * RunLength \in Int /\ cutAt(4) * RunLength \in Int
  BY <1>2, <1>3
<1>7. /\ \A i \in 1..4 : Past(moment, fold, i) \in Int
      /\ Past(moment, fold, 1) >= Past(moment, fold, 2)
      /\ Past(moment, fold, 2) >= Past(moment, fold, 3)
      /\ Past(moment, fold, 3) >= Past(moment, fold, 4)
  BY <1>4, <1>5, <1>6
<1> QED
  BY <1>7 DEF fold

(* A time is in the one period whose cuts it lies between.                 *)
LEMMA OnePeriod ==
  ASSUME NEW moment, NEW fold, \A i \in 1..4 : Past(moment, fold, i) \in Int,
         Past(moment, fold, 1) >= Past(moment, fold, 2),
         Past(moment, fold, 2) >= Past(moment, fold, 3),
         Past(moment, fold, 3) >= Past(moment, fold, 4)
  PROVE  IF Past(moment, fold, 1) >= 0 /\ Past(moment, fold, 4) <= 0
         THEN \E j \in 1..3 : \A i \in 1..3 : InPeriod(moment, fold, i) <=> i = j
         ELSE \A i \in 1..3 : ~ InPeriod(moment, fold, i)
<1> DEFINE past(i) == Past(moment, fold, i)
<1>1. past(1) \in Int /\ past(2) \in Int /\ past(3) \in Int /\ past(4) \in Int
  OBVIOUS
<1>2. /\ InPeriod(moment, fold, 1) <=> past(1) >= 0 /\ past(2) < 0
      /\ InPeriod(moment, fold, 2) <=> past(2) >= 0 /\ past(3) < 0
      /\ InPeriod(moment, fold, 3) <=> past(3) >= 0 /\ past(4) <= 0
  BY <1>1 DEF InPeriod
<1> HIDE DEF past
<1>3. past(1) >= past(2) /\ past(2) >= past(3) /\ past(3) >= past(4)
  BY DEF past
<1>4. \A i \in 1..3 : i = 1 \/ i = 2 \/ i = 3
  OBVIOUS
<1>5. CASE past(1) >= 0 /\ past(4) <= 0
  <2>1. CASE past(3) >= 0
    <3>1. \A i \in 1..3 : InPeriod(moment, fold, i) <=> i = 3
      BY <1>1, <1>2, <1>3, <1>4, <1>5, <2>1
    <3> QED
      BY <1>5, <3>1 DEF past
  <2>2. CASE past(3) < 0 /\ past(2) >= 0
    <3>1. \A i \in 1..3 : InPeriod(moment, fold, i) <=> i = 2
      BY <1>1, <1>2, <1>3, <1>4, <1>5, <2>2
    <3> QED
      BY <1>5, <3>1 DEF past
  <2>3. CASE past(2) < 0
    <3>1. \A i \in 1..3 : InPeriod(moment, fold, i) <=> i = 1
      BY <1>1, <1>2, <1>3, <1>4, <1>5, <2>3
    <3> QED
      BY <1>5, <3>1 DEF past
  <2> QED
    BY <1>1, <2>1, <2>2, <2>3
<1>6. CASE ~ (past(1) >= 0 /\ past(4) <= 0)
  <2>1. \A i \in 1..3 : ~ InPeriod(moment, fold, i)
    BY <1>1, <1>2, <1>3, <1>4, <1>6
  <2> QED
    BY <1>6, <2>1 DEF past
<1> QED
  BY <1>5, <1>6

LEMMA CountedOnce == WalkInv => CountedOncePerFold
<1> SUFFICES ASSUME WalkInv, NEW k \in 1..folds, NEW n \in 1..Len(trades)
             PROVE  LET fold == FoldsOf(split, folds)[k]
                        within == /\ Past(trades[n].exit, fold, 1) >= 0
                                  /\ Past(trades[n].exit, fold, 4) <= 0
                    IN  Cardinality({i \in 1..3 : InPeriod(trades[n].exit, fold, i)})
                            = IF within THEN 1 ELSE 0
  BY DEF CountedOncePerFold
<1> DEFINE fold == FoldsOf(split, folds)[k]
           moment == trades[n].exit
           within == Past(moment, fold, 1) >= 0 /\ Past(moment, fold, 4) <= 0
           periods == {i \in 1..3 : InPeriod(moment, fold, i)}
<1>1. moment \in Nat
  <2>1. trades[n] \in ClosedTrades
    BY DEF WalkInv
  <2> QED
    BY <2>1, WalkForwardAssumption DEF ClosedTrades
<1>2. IF within THEN \E j \in 1..3 : \A i \in 1..3 : InPeriod(moment, fold, i) <=> i = j
                ELSE \A i \in 1..3 : ~ InPeriod(moment, fold, i)
  <2> HIDE DEF moment
  <2>1. /\ \A i \in 1..4 : Past(moment, fold, i) \in Int
        /\ Past(moment, fold, 1) >= Past(moment, fold, 2)
        /\ Past(moment, fold, 2) >= Past(moment, fold, 3)
        /\ Past(moment, fold, 3) >= Past(moment, fold, 4)
    BY <1>1, PastFalls
  <2> HIDE DEF fold
  <2> QED
    BY <2>1, OnePeriod
<1>3. CASE within
  <2>1. PICK j \in 1..3 : \A i \in 1..3 : InPeriod(moment, fold, i) <=> i = j
    BY <1>2, <1>3
  <2>2. periods = {j}
    BY <2>1
  <2>3. Cardinality(periods) = 1
    BY <2>2, FS_Singleton
  <2> QED
    BY <1>3, <2>3
<1>4. CASE ~ within
  <2>1. periods = {}
    BY <1>2, <1>4
  <2>2. Cardinality(periods) = 0
    BY <2>1, FS_EmptySet
  <2> QED
    BY <1>4, <2>2
<1> QED
  BY <1>3, <1>4

LEMMA Covered == WalkInv => FoldsCoverRun
<1> SUFFICES ASSUME WalkInv PROVE FoldsCoverRun
  OBVIOUS
<1> DEFINE all == FoldsOf(split, folds)
           R == RunLength
           K == folds
<1>1. R \in Nat \ {0} /\ K \in Nat \ {0}
  BY WalkForwardAssumption DEF WalkInv
<1>2. PICK a \in Nat, b \in Nat, c \in Nat \ {0}, s \in Nat :
         /\ s = a + b + c + K - 1
         /\ \A k \in 1..K :
               LET fold == all[k]
               IN  /\ fold.segments = s
                   /\ fold.cuts[1] = k - 1 /\ fold.cuts[2] = k - 1 + a
                   /\ fold.cuts[3] = k - 1 + a + b
                   /\ fold.cuts[4] = k - 1 + (a + b + c)
  BY FoldShape
<1> DEFINE w == a + b + c
<1>3. w \in Nat \ {0} /\ s = K - 1 + w
  BY <1>1, <1>2
<1>4. \A k \in 1..K : \A moment \in Nat :
         /\ Past(moment, all[k], 1) = moment * s - (k - 1) * R
         /\ Past(moment, all[k], 4) = moment * s - (k - 1 + w) * R
  BY <1>2 DEF Past
<1>5. \A k \in 1..K : \A moment \in Nat :
         /\ \A i \in 1..4 : Past(moment, all[k], i) \in Int
         /\ Past(moment, all[k], 1) >= Past(moment, all[k], 2)
         /\ Past(moment, all[k], 2) >= Past(moment, all[k], 3)
         /\ Past(moment, all[k], 3) >= Past(moment, all[k], 4)
  BY PastFalls
<1> HIDE DEF all, R, K, w
<1>6. 1 \in 1..K /\ K \in 1..K /\ s \in Nat
  BY <1>1, <1>3
<1>7. Past(0, all[1], 1) = 0
  <2>1. Past(0, all[1], 1) = 0 * s - (1 - 1) * R
    BY <1>4, <1>6
  <2> QED
    BY <1>1, <1>6, <2>1
<1>8. Past(R, all[K], 4) = 0
  <2>1. Past(R, all[K], 4) = R * s - (K - 1 + w) * R
    BY <1>1, <1>4, <1>6
  <2>2. R * s = s * R /\ s * R - s * R = 0
    BY <1>1, <1>6
  <2> QED
    BY <1>3, <2>1, <2>2
<1>9. ASSUME NEW moment \in 0..R
      PROVE  \E k \in 1..K, i \in 1..3 : InPeriod(moment, all[k], i)
  <2> DEFINE reached == {k \in 1..K : Past(moment, all[k], 4) <= 0}
  <2>1. moment \in Nat /\ moment <= R
    BY <1>1, <1>9
  <2>2. K \in reached
    <3>1. moment * s <= R * s
      BY <1>1, <1>6, <2>1, TimesGrow
    <3>2. Past(moment, all[K], 4) = moment * s - s * R
      BY <1>3, <1>4, <1>6, <2>1
    <3>3. R * s = s * R /\ s * R \in Int /\ moment * s \in Int
      BY <1>1, <1>6, <2>1
    <3>4. Past(moment, all[K], 4) <= 0
      BY <3>1, <3>2, <3>3
    <3> QED
      BY <1>6, <3>4
  <2>3. PICK k \in reached : \A j \in reached : k <= j
    <3>1. reached \subseteq Nat /\ reached # {}
      BY <1>1, <2>2
    <3> HIDE DEF reached
    <3> QED
      BY <3>1, LeastNatural
  <2>4. k \in 1..K /\ Past(moment, all[k], 4) <= 0
    BY <2>3
  <2>5. Past(moment, all[k], 1) >= 0
    <3>1. moment * s \in Nat
      BY <1>6, <2>1
    <3>2. CASE k = 1
      <4>1. Past(moment, all[k], 1) = moment * s - (1 - 1) * R
        BY <1>4, <2>1, <2>4, <3>2
      <4> QED
        BY <1>1, <3>1, <4>1
    <3>3. CASE k # 1
      <4>1. k - 1 \in 1..K /\ ~ (k <= k - 1)
        BY <1>1, <2>4, <3>3
      <4>2. ~ (Past(moment, all[k - 1], 4) <= 0)
        BY <2>3, <4>1
      <4>3. Past(moment, all[k - 1], 4) = moment * s - (k - 1 - 1 + w) * R
        BY <1>4, <2>1, <4>1
      <4>4. k - 1 \in Int /\ k - 1 - 1 + w \in Int /\ k - 1 <= k - 1 - 1 + w
        BY <1>3, <4>1
      <4> DEFINE x == k - 1
                 y == k - 1 - 1 + w
      <4>5. x * R <= y * R /\ x * R \in Int /\ y * R \in Int
        <5> HIDE DEF x, y
        <5>1. x \in Int /\ y \in Int /\ x <= y /\ R \in Nat
          BY <1>1, <4>4 DEF x, y
        <5> QED
          BY <5>1, TimesGrow
      <4>6. Past(moment, all[k], 1) = moment * s - x * R
        BY <1>4, <2>1, <2>4
      <4> HIDE DEF x
      <4>7. ~ (moment * s - y * R <= 0)
        BY <4>2, <4>3
      <4> HIDE DEF y
      <4> QED
        BY <3>1, <4>5, <4>6, <4>7
    <3> QED
      BY <3>2, <3>3
  <2>6. \E j \in 1..3 : \A i \in 1..3 : InPeriod(moment, all[k], i) <=> i = j
    <3>1. /\ \A i \in 1..4 : Past(moment, all[k], i) \in Int
          /\ Past(moment, all[k], 1) >= Past(moment, all[k], 2)
          /\ Past(moment, all[k], 2) >= Past(moment, all[k], 3)
          /\ Past(moment, all[k], 3) >= Past(moment, all[k], 4)
      BY <1>5, <2>1, <2>4
    <3> QED
      BY <2>4, <2>5, <3>1, OnePeriod
  <2> QED
    BY <2>4, <2>6
<1>10. \A n \in 1..Len(trades) : trades[n].exit \in 0..R
  <2>1. trades \in Seq(ClosedTrades)
    BY DEF WalkInv
  <2>2. \A n \in 1..Len(trades) : trades[n] \in ClosedTrades
    BY <2>1, ElementOfSeq
  <2> QED
    BY <2>2 DEF ClosedTrades, R
<1>11. \A n \in 1..Len(trades) : \E k \in 1..K, i \in 1..3 : InPeriod(trades[n].exit, all[k], i)
  BY <1>9, <1>10
<1> QED
  BY <1>7, <1>8, <1>11 DEF FoldsCoverRun, all, R, K

(* For any split, number of folds and run: a trade is counted in exactly   *)
(* one period of each fold that spans its exit, and in one fold at least   *)
(* (build_rolling_fold_splits, _split_label_for_timestamp).                *)
THEOREM FoldsCountEveryTrade == WalkSpec => [](CountedOncePerFold /\ FoldsCoverRun)
<1>1. WalkInv => CountedOncePerFold /\ FoldsCoverRun
  BY CountedOnce, Covered
<1> QED
  BY <1>1, WalkStart, WalkInductive, PTL DEF WalkSpec

(* The gains of a period, and those of one that did better: one trade      *)
(* gained more.                                                            *)
Won(g) == [k \in DOMAIN g |-> IF g[k] > 0 THEN g[k] ELSE 0]
Opposite(g) == [k \in DOMAIN g |-> 0 - g[k]]

LEMMA GainsAddUp ==
  ASSUME NEW g \in Seq(Int)
  PROVE  /\ DOMAIN g = 1..Len(g) /\ IsFiniteSet(DOMAIN g) /\ \A k \in DOMAIN g : g[k] \in Int
         /\ SumOfGains(g) = SumFunctionOnSet(g, DOMAIN g) /\ SumOfGains(g) \in Int
         /\ Profit(g) = SumFunctionOnSet(Won(g), DOMAIN g)
         /\ Loss(g) = SumFunctionOnSet(Won(Opposite(g)), DOMAIN g)
         /\ Profit(g) \in Nat /\ Loss(g) \in Nat
<1>1. DOMAIN g = 1..Len(g) /\ Len(g) \in Nat /\ \A k \in DOMAIN g : g[k] \in Int
  OBVIOUS
<1>2. IsFiniteSet(DOMAIN g)
  BY <1>1, FS_Interval
<1>3. SumOfGains(g) = SumFunctionOnSet(g, DOMAIN g)
  BY DEF SumOfGains, FoldFunction, SumFunctionOnSet
<1>4. \A h : Profit(h) = SumFunctionOnSet(Won(h), DOMAIN h)
  <2> SUFFICES ASSUME NEW h PROVE Profit(h) = SumFunctionOnSet(Won(h), DOMAIN h)
    OBVIOUS
  <2>1. Profit(h) = SumFunctionOnSet(Won(h), DOMAIN Won(h))
    BY DEF Profit, FoldFunction, SumFunctionOnSet, Won
  <2>2. DOMAIN Won(h) = DOMAIN h
    BY DEF Won
  <2> QED
    BY <2>1, <2>2
<1>5. Loss(g) = Profit(Opposite(g)) /\ DOMAIN Opposite(g) = DOMAIN g
  BY DEF Loss, Opposite
<1>6. /\ \A k \in DOMAIN g : Won(g)[k] \in Nat
      /\ \A k \in DOMAIN g : Won(Opposite(g))[k] \in Nat
  BY <1>1 DEF Won, Opposite
<1>7. Profit(g) \in Nat /\ Loss(g) \in Nat
  BY <1>2, <1>4, <1>5, <1>6, SumOfNaturals
<1> QED
  BY <1>1, <1>2, <1>3, <1>4, <1>5, <1>7, SumIsInt

(* The gains b are the gains a but for one that is greater. *)
Raised(a, b, n) ==
    /\ a \in Seq(Int) /\ b \in Seq(Int) /\ n \in DOMAIN a /\ Len(a) = Len(b)
    /\ DOMAIN a = DOMAIN b
    /\ \A k \in DOMAIN a \ {n} : b[k] = a[k]
    /\ b[n] > a[n]

LEMMA RaisedSums ==
  ASSUME NEW a, NEW b, NEW n, Raised(a, b, n)
  PROVE  /\ SumOfGains(b) > SumOfGains(a)
         /\ Profit(b) >= Profit(a) /\ Loss(b) <= Loss(a)
<1>0. /\ a \in Seq(Int) /\ b \in Seq(Int) /\ n \in DOMAIN a /\ Len(a) = Len(b)
      /\ DOMAIN a = DOMAIN b
      /\ \A k \in DOMAIN a \ {n} : b[k] = a[k]
      /\ b[n] > a[n]
  BY DEF Raised
<1>1. /\ IsFiniteSet(DOMAIN a) /\ \A k \in DOMAIN a : a[k] \in Int /\ b[k] \in Int
      /\ SumOfGains(a) = SumFunctionOnSet(a, DOMAIN a)
      /\ SumOfGains(b) = SumFunctionOnSet(b, DOMAIN a)
      /\ Profit(a) = SumFunctionOnSet(Won(a), DOMAIN a)
      /\ Profit(b) = SumFunctionOnSet(Won(b), DOMAIN a)
      /\ Loss(a) = SumFunctionOnSet(Won(Opposite(a)), DOMAIN a)
      /\ Loss(b) = SumFunctionOnSet(Won(Opposite(b)), DOMAIN a)
  BY <1>0, GainsAddUp
<1>2. SumFunctionOnSet(b, DOMAIN a) = SumFunctionOnSet(a, DOMAIN a) + b[n] - a[n]
  BY <1>0, <1>1, SumOfOneChanged
<1>3. a[n] \in Int /\ b[n] \in Int /\ SumOfGains(a) \in Int
  BY <1>0, <1>1, GainsAddUp
<1>4. \A k \in DOMAIN a : a[k] <= b[k]
  <2> SUFFICES ASSUME NEW k \in DOMAIN a PROVE a[k] <= b[k]
    OBVIOUS
  <2>1. a[k] \in Int /\ b[k] \in Int
    BY <1>1
  <2>2. CASE k = n
    BY <2>1, <2>2, <1>0
  <2>3. CASE k # n
    BY <2>1, <2>3, <1>0
  <2> QED
    BY <2>2, <2>3
<1>5. \A k \in DOMAIN a : /\ Won(a)[k] \in Int /\ Won(b)[k] \in Int
                          /\ Won(a)[k] <= Won(b)[k]
  BY <1>0, <1>1, <1>4 DEF Won
<1>6. \A k \in DOMAIN a : /\ Won(Opposite(a))[k] \in Int /\ Won(Opposite(b))[k] \in Int
                          /\ Won(Opposite(b))[k] <= Won(Opposite(a))[k]
  <2> SUFFICES ASSUME NEW k \in DOMAIN a
               PROVE  /\ Won(Opposite(a))[k] \in Int /\ Won(Opposite(b))[k] \in Int
                      /\ Won(Opposite(b))[k] <= Won(Opposite(a))[k]
    OBVIOUS
  <2>1. /\ Won(Opposite(a))[k] = IF 0 - a[k] > 0 THEN 0 - a[k] ELSE 0
        /\ Won(Opposite(b))[k] = IF 0 - b[k] > 0 THEN 0 - b[k] ELSE 0
    BY <1>0 DEF Won, Opposite
  <2>2. a[k] \in Int /\ b[k] \in Int /\ a[k] <= b[k]
    BY <1>1, <1>4
  <2> QED
    BY <2>1, <2>2
<1>7. Profit(a) <= Profit(b)
  BY <1>1, <1>5, SumsInOrder
<1>8. Loss(b) <= Loss(a)
  BY <1>1, <1>6, SumsInOrder
<1>9. Profit(a) \in Nat /\ Profit(b) \in Nat /\ Loss(a) \in Nat /\ Loss(b) \in Nat
  BY <1>0, GainsAddUp
<1>10. SumOfGains(b) > SumOfGains(a)
  <2>1. SumOfGains(b) = SumOfGains(a) + b[n] - a[n]
    BY <1>1, <1>2
  <2> QED
    BY <2>1, <1>0, <1>3
<1> QED
  BY <1>7, <1>8, <1>9, <1>10

LEMMA EquityIs ==
  ASSUME NEW g \in Seq(Int), NEW m \in 0..Len(g)
  PROVE  /\ Equity(g, m) = Capital + SumFunctionOnSet(g, 1..m)
         /\ SumFunctionOnSet(g, 1..m) \in Int /\ Equity(g, m) \in Int
<1> DEFINE part == SubSeq(g, 1, m)
<1>1. m \in Nat /\ m <= Len(g)
  OBVIOUS
<1>2. part \in Seq(Int) /\ Len(part) = m /\ \A k \in 1..m : part[k] = g[k]
  BY <1>1
<1> HIDE DEF part
<1>3. SumOfGains(part) = SumFunctionOnSet(part, 1..m) /\ SumOfGains(part) \in Int
  BY <1>2, GainsAddUp
<1>4. \A k \in 1..m : g[k] \in Int
  BY <1>1
<1>5. SumFunctionOnSet(g, 1..m) = SumFunctionOnSet(part, 1..m)
  <2>1. IsFiniteSet(1..m)
    BY <1>1, FS_Interval
  <2>2. \A k \in 1..m : g[k] \in Int /\ part[k] = g[k]
    BY <1>2, <1>4
  <2> QED
    BY <2>1, <2>2, SumOfSame
<1> QED
  BY <1>3, <1>5, WalkForwardAssumption DEF Equity, part

LEMMA PeakIs ==
  ASSUME NEW g \in Seq(Int), NEW m \in 0..Len(g)
  PROVE  /\ Peak(g, m) \in Nat \ {0} /\ Peak(g, m) >= Equity(g, m)
         /\ \A k \in 0..m : Equity(g, k) <= Peak(g, m)
         /\ \E k \in 0..m : Equity(g, k) = Peak(g, m)
<1> DEFINE f == [k \in 0..m |-> Equity(g, k)]
           S == {Equity(g, k) : k \in 0..m}
<1>1. m \in Nat /\ m <= Len(g) /\ IsFiniteSet(0..m) /\ 0 \in 0..m /\ m \in 0..m
  BY FS_Interval
<1>2. \A k \in 0..m : k \in 0..Len(g)
  BY <1>1
<1>3. \A k \in 0..m : Equity(g, k) \in Int /\ f[k] = Equity(g, k)
  BY <1>2, EquityIs
<1>4. \E k \in 0..m : \A j \in 0..m : f[j] <= f[k]
  <2>1. \A k \in 0..m : f[k] \in Int
    BY <1>3
  <2> HIDE DEF f
  <2> QED
    BY <1>1, <2>1, GreatestValue
<1>5. PICK k \in 0..m : \A j \in 0..m : Equity(g, j) <= Equity(g, k)
  BY <1>3, <1>4
<1>6. \E x \in S : \A y \in S : x >= y
  <2>1. \A y \in S : Equity(g, k) >= y
    BY <1>3, <1>5
  <2> QED
    BY <2>1, <1>5
<1>7. Peak(g, m) \in S /\ \A y \in S : Peak(g, m) >= y
  BY <1>6 DEF Peak, Max
<1>8. \A j \in 0..m : Equity(g, j) \in S
  OBVIOUS
<1>9. Equity(g, 0) = Capital
  <2>1. 1..0 = {} /\ Capital \in Nat
    BY WalkForwardAssumption
  <2>2. 0 \in 0..Len(g)
    BY <1>1, <1>2
  <2>3. Equity(g, 0) = Capital + SumFunctionOnSet(g, 1..0)
    BY <2>2, EquityIs
  <2> QED
    BY <2>1, <2>3, SumOfNone
<1>10. \E j \in 0..m : Equity(g, j) = Peak(g, m)
  BY <1>7
<1> HIDE DEF S, f
<1>11. \A j \in 0..m : Equity(g, j) <= Peak(g, m)
  BY <1>3, <1>7, <1>8, <1>10
<1>12. Peak(g, m) \in Int
  BY <1>3, <1>10
<1> QED
  BY <1>1, <1>9, <1>10, <1>11, <1>12, WalkForwardAssumption

LEMMA DrawdownIs ==
  ASSUME NEW g \in Seq(Int)
  PROVE  /\ \E m \in 0..Len(g) : Drawdown(g) = <<Peak(g, m) - Equity(g, m), Peak(g, m)>>
         /\ \A m \in 0..Len(g) :
               (Peak(g, m) - Equity(g, m)) * Drawdown(g)[2] <= Drawdown(g)[1] * Peak(g, m)
<1> DEFINE N == 0..Len(g)
           Fall(m) == Peak(g, m) - Equity(g, m)
           Bound(m) == Peak(g, m)
           R == {p \in N \X N : Fall(p[1]) * Bound(p[2]) <= Fall(p[2]) * Bound(p[1])}
<1>1. IsFiniteSet(N) /\ 0 \in N
  BY FS_Interval
<1>2. \A m \in N : Fall(m) \in Int /\ Bound(m) \in Nat \ {0}
  BY PeakIs, EquityIs
<1>3. \A x, y \in N : <<x, y>> \in R <=> Fall(x) * Bound(y) <= Fall(y) * Bound(x)
  OBVIOUS
<1> HIDE DEF N, Fall, Bound, R
<1>4. \A x, y \in N : <<x, y>> \in R \/ <<y, x>> \in R
  <2> SUFFICES ASSUME NEW x \in N, NEW y \in N
               PROVE  Fall(x) * Bound(y) <= Fall(y) * Bound(x) \/ Fall(y) * Bound(x) <= Fall(x) * Bound(y)
    BY <1>3
  <2>1. Fall(x) * Bound(y) \in Int /\ Fall(y) * Bound(x) \in Int
    BY <1>2
  <2> QED
    BY <2>1
<1>5. \A x, y, z \in N : <<x, y>> \in R /\ <<y, z>> \in R => <<x, z>> \in R
  <2> SUFFICES ASSUME NEW x \in N, NEW y \in N, NEW z \in N,
                      Fall(x) * Bound(y) <= Fall(y) * Bound(x),
                      Fall(y) * Bound(z) <= Fall(z) * Bound(y)
               PROVE  Fall(x) * Bound(z) <= Fall(z) * Bound(x)
    BY <1>3
  <2> QED
    BY <1>2, FractionsOrdered
<1>6. PICK m \in N : \A y \in N : <<y, m>> \in R
  BY <1>1, <1>4, <1>5, GreatestByOrder
<1>7. \A y \in N : Fall(y) * Bound(m) <= Fall(m) * Bound(y)
  BY <1>3, <1>6
<1> DEFINE falls == {<<Fall(n), Bound(n)>> : n \in N}
<1>8. Drawdown(g) = CHOOSE d \in falls : \A e \in falls : e[1] * d[2] <= d[1] * e[2]
  BY DEF Drawdown, falls, Fall, Bound, N
<1>9. \E d \in falls : \A e \in falls : e[1] * d[2] <= d[1] * e[2]
  <2> WITNESS <<Fall(m), Bound(m)>> \in falls
  <2> QED
    BY <1>7
<1>10. Drawdown(g) \in falls /\ \A e \in falls : e[1] * Drawdown(g)[2] <= Drawdown(g)[1] * e[2]
  <2> HIDE DEF falls
  <2> QED
    BY <1>8, <1>9
<1>11. \A n \in N : <<Fall(n), Bound(n)>> \in falls
  OBVIOUS
<1>12. \E n \in N : Drawdown(g) = <<Fall(n), Bound(n)>>
  BY <1>10
<1>13. \A n \in N : Fall(n) * Drawdown(g)[2] <= Drawdown(g)[1] * Bound(n)
  BY <1>10, <1>11
<1> QED
  BY <1>12, <1>13 DEF N, Fall, Bound

(* After the one that is greater the equity is higher by as much; a peak   *)
(* is no lower and no fall from it is deeper.                              *)
LEMMA RaisedEquity ==
  ASSUME NEW a, NEW b, NEW n, Raised(a, b, n), NEW m \in 0..Len(a)
  PROVE  Equity(b, m) = Equity(a, m) + IF n <= m THEN b[n] - a[n] ELSE 0
<1>0. /\ a \in Seq(Int) /\ b \in Seq(Int) /\ n \in 1..Len(a) /\ Len(a) = Len(b)
      /\ \A k \in 1..Len(a) : k # n => b[k] = a[k]
      /\ b[n] > a[n] /\ \A k \in 1..Len(a) : a[k] \in Int /\ b[k] \in Int
  BY DEF Raised
<1>1. m \in Nat /\ m <= Len(a) /\ m \in 0..Len(b) /\ n \in Nat
  BY <1>0
<1>2. /\ Equity(a, m) = Capital + SumFunctionOnSet(a, 1..m)
      /\ Equity(b, m) = Capital + SumFunctionOnSet(b, 1..m)
      /\ SumFunctionOnSet(a, 1..m) \in Int /\ SumFunctionOnSet(b, 1..m) \in Int
  BY <1>0, <1>1, EquityIs
<1>3. IsFiniteSet(1..m) /\ \A k \in 1..m : a[k] \in Int /\ b[k] \in Int
  <2>1. IsFiniteSet(1..m)
    BY <1>1, FS_Interval
  <2>2. \A k \in 1..m : k \in 1..Len(a)
    BY <1>0, <1>1
  <2> QED
    BY <1>0, <2>1, <2>2
<1>4. CASE n <= m
  <2>1. n \in 1..m
    BY <1>0, <1>1, <1>4
  <2>4. \A k \in (1..m) \ {n} : a[k] = b[k]
    BY <1>0, <1>1, <1>4
  <2>2. SumFunctionOnSet(b, 1..m) = SumFunctionOnSet(a, 1..m) + b[n] - a[n]
    <3> DEFINE T == 1..m
    <3>1. /\ IsFiniteSet(T) /\ n \in T /\ \A y \in T \ {n} : a[y] = b[y]
          /\ \A y \in T : a[y] \in Int /\ b[y] \in Int
      BY <2>1, <2>4, <1>3
    <3> HIDE DEF T
    <3>2. SumFunctionOnSet(b, T) = SumFunctionOnSet(a, T) + b[n] - a[n]
      BY <3>1, SumOfOneChanged
    <3> QED
      BY <3>2 DEF T
  <2>3. a[n] \in Int /\ b[n] \in Int
    BY <1>0
  <2> QED
    BY <2>2, <2>3, <1>2, <1>4, WalkForwardAssumption
<1>5. CASE ~ (n <= m)
  <2>1. \A k \in 1..m : a[k] \in Int /\ b[k] = a[k]
    BY <1>0, <1>1, <1>3, <1>5
  <2>2. SumFunctionOnSet(b, 1..m) = SumFunctionOnSet(a, 1..m)
    BY <2>1, <1>3, SumOfSame
  <2> QED
    BY <2>2, <1>2, <1>5, WalkForwardAssumption
<1> QED
  BY <1>4, <1>5

LEMMA RaisedPeak ==
  ASSUME NEW a, NEW b, NEW n, Raised(a, b, n), NEW m \in 0..Len(a)
  PROVE  /\ Peak(a, m) <= Peak(b, m)
         /\ Peak(b, m) - Equity(b, m) <= Peak(a, m) - Equity(a, m)
<1>0. /\ a \in Seq(Int) /\ b \in Seq(Int) /\ n \in 1..Len(a) /\ Len(a) = Len(b)
      /\ a[n] \in Int /\ b[n] \in Int /\ b[n] > a[n]
  BY DEF Raised
<1>1. m \in 0..Len(b) /\ m \in Nat /\ n \in Nat /\ \A k \in 0..m : k \in 0..Len(a) /\ k \in Nat /\ k <= m
  BY <1>0
<1> DEFINE d == b[n] - a[n]
           more(k) == IF n <= k THEN d ELSE 0
<1>2. d \in Nat
  BY <1>0
<1>3. \A k \in 0..m : /\ Equity(b, k) = Equity(a, k) + more(k) /\ Equity(a, k) \in Int
                      /\ more(k) \in 0..d
  <2> SUFFICES ASSUME NEW k \in 0..m
               PROVE  /\ Equity(b, k) = Equity(a, k) + more(k) /\ Equity(a, k) \in Int
                      /\ more(k) \in 0..d
    OBVIOUS
  <2>1. k \in 0..Len(a) /\ k \in Nat
    BY <1>1
  <2>2. Equity(b, k) = Equity(a, k) + IF n <= k THEN b[n] - a[n] ELSE 0
    BY <2>1, RaisedEquity
  <2>3. Equity(a, k) \in Int
    BY <1>0, <2>1, EquityIs
  <2> QED
    BY <2>2, <2>3, <1>2
<1>4. \A k \in 0..m : more(k) <= more(m)
  BY <1>1, <1>2
<1>5. /\ Peak(a, m) \in Nat /\ \A k \in 0..m : Equity(a, k) <= Peak(a, m)
  BY <1>0, PeakIs
<1>6. PICK j \in 0..m : Equity(a, j) = Peak(a, m)
  BY <1>0, PeakIs
<1>7. /\ Peak(b, m) \in Nat /\ \A k \in 0..m : Equity(b, k) <= Peak(b, m)
  BY <1>0, <1>1, PeakIs
<1>8. PICK i \in 0..m : Equity(b, i) = Peak(b, m)
  BY <1>0, <1>1, PeakIs
<1>9. m \in 0..m
  BY <1>1
<1> HIDE DEF more, d
<1>10. Peak(a, m) <= Peak(b, m)
  BY <1>2, <1>3, <1>5, <1>6, <1>7
<1>11. Peak(b, m) <= Peak(a, m) + more(m)
  BY <1>2, <1>3, <1>4, <1>5, <1>7, <1>8, <1>9
<1> QED
  BY <1>2, <1>3, <1>5, <1>7, <1>9, <1>10, <1>11

LEMMA NoDeeperThan ==
  ASSUME NEW a \in Nat, NEW b \in Nat, NEW c \in Nat, NEW d \in Nat,
         NEW fall \in Int, NEW peak \in Nat,
         fall * b <= a * peak, peak <= d, c <= fall
  PROVE  c * b <= a * d
<1>1. c * b <= fall * b
  BY Scales
<1>2. peak * a <= d * a
  BY Scales
<1>3. /\ c * b \in Int /\ fall * b \in Int /\ peak * a \in Int /\ d * a \in Int
      /\ peak * a = a * peak /\ d * a = a * d
  OBVIOUS
<1> QED
  BY <1>1, <1>2, <1>3

LEMMA RaisedDrawdown ==
  ASSUME NEW a, NEW b, NEW n, Raised(a, b, n)
  PROVE  /\ Drawdown(b)[1] * Drawdown(a)[2] <= Drawdown(a)[1] * Drawdown(b)[2]
         /\ Drawdown(a)[1] \in Nat /\ Drawdown(a)[2] \in Nat \ {0}
         /\ Drawdown(b)[1] \in Nat /\ Drawdown(b)[2] \in Nat \ {0}
<1>0. a \in Seq(Int) /\ b \in Seq(Int) /\ Len(a) = Len(b)
  BY DEF Raised
<1>1. PICK k \in 0..Len(a) : Drawdown(a) = <<Peak(a, k) - Equity(a, k), Peak(a, k)>>
  BY <1>0, DrawdownIs
<1>2. PICK m \in 0..Len(a) : Drawdown(b) = <<Peak(b, m) - Equity(b, m), Peak(b, m)>>
  BY <1>0, DrawdownIs
<1>3. /\ Drawdown(a)[1] \in Nat /\ Drawdown(a)[2] \in Nat \ {0}
  <2>1. Peak(a, k) \in Nat \ {0} /\ Peak(a, k) >= Equity(a, k) /\ Equity(a, k) \in Int
    BY <1>0, PeakIs, EquityIs
  <2> QED
    BY <2>1, <1>1
<1>4. /\ Drawdown(b)[1] \in Nat /\ Drawdown(b)[2] \in Nat \ {0}
  <2>1. Peak(b, m) \in Nat \ {0} /\ Peak(b, m) >= Equity(b, m) /\ Equity(b, m) \in Int
    BY <1>0, PeakIs, EquityIs
  <2> QED
    BY <2>1, <1>2
<1>5. (Peak(a, m) - Equity(a, m)) * Drawdown(a)[2] <= Drawdown(a)[1] * Peak(a, m)
  BY <1>0, DrawdownIs
<1>6. /\ Peak(a, m) <= Drawdown(b)[2]
      /\ Drawdown(b)[1] <= Peak(a, m) - Equity(a, m)
  BY <1>2, RaisedPeak
<1>7. Peak(a, m) - Equity(a, m) \in Int /\ Peak(a, m) \in Nat
  <2>1. Peak(a, m) \in Nat \ {0} /\ Equity(a, m) \in Int
    BY <1>0, PeakIs, EquityIs
  <2> QED
    BY <2>1
<1>8. Drawdown(b)[1] * Drawdown(a)[2] <= Drawdown(a)[1] * Drawdown(b)[2]
  BY <1>3, <1>4, <1>5, <1>6, <1>7, NoDeeperThan
<1> QED
  BY <1>3, <1>4, <1>8

(* A period that did better deserves no penalty that the other did not.    *)
LEMMA PenaltiesFall ==
  ASSUME NEW before \in Seq(Int), NEW a, NEW b, NEW n, Raised(a, b, n), Loss(b) > 0
  PROVE  /\ SumOfGains(b) < 0 => SumOfGains(a) < 0
         /\ FactorBelowOne(b) => FactorBelowOne(a)
         /\ ReturnDegraded(SumOfGains(before), SumOfGains(b))
               => ReturnDegraded(SumOfGains(before), SumOfGains(a))
         /\ Drawdown(before)[1] > 0
               /\ 2 * Drawdown(b)[1] * Drawdown(before)[2] > 3 * Drawdown(before)[1] * Drawdown(b)[2]
            => 2 * Drawdown(a)[1] * Drawdown(before)[2] > 3 * Drawdown(before)[1] * Drawdown(a)[2]
         /\ SumOfGains(b) <= 0 => SumOfGains(a) <= 0
         /\ SumOfGains(a) > 0 => SumOfGains(b) > 0
         /\ Len(a) = Len(b)
<1>0. a \in Seq(Int) /\ b \in Seq(Int) /\ Len(a) = Len(b)
  BY DEF Raised
<1>1. /\ SumOfGains(b) > SumOfGains(a) /\ Profit(b) >= Profit(a) /\ Loss(b) <= Loss(a)
  BY RaisedSums
<1>2. /\ SumOfGains(a) \in Int /\ SumOfGains(b) \in Int /\ SumOfGains(before) \in Int
      /\ Profit(a) \in Nat /\ Profit(b) \in Nat /\ Loss(a) \in Nat /\ Loss(b) \in Nat
  BY <1>0, GainsAddUp
<1>3. FactorBelowOne(b) => FactorBelowOne(a)
  BY <1>1, <1>2 DEF FactorBelowOne
<1>4. ReturnDegraded(SumOfGains(before), SumOfGains(b))
         => ReturnDegraded(SumOfGains(before), SumOfGains(a))
  <2>1. \A x, y, z \in Int : y < z /\ ReturnDegraded(x, z) => ReturnDegraded(x, y)
    BY DEF ReturnDegraded, Abs
  <2> QED
    BY <2>1, <1>1, <1>2
<1>5. ASSUME Drawdown(before)[1] > 0,
             2 * Drawdown(b)[1] * Drawdown(before)[2] > 3 * Drawdown(before)[1] * Drawdown(b)[2]
      PROVE  2 * Drawdown(a)[1] * Drawdown(before)[2] > 3 * Drawdown(before)[1] * Drawdown(a)[2]
  <2>1. PICK m \in 0..Len(before) :
           Drawdown(before) = <<Peak(before, m) - Equity(before, m), Peak(before, m)>>
    BY DrawdownIs
  <2>2. Drawdown(before)[1] \in Nat /\ Drawdown(before)[2] \in Nat \ {0}
    <3>1. /\ Peak(before, m) \in Nat \ {0} /\ Peak(before, m) >= Equity(before, m)
          /\ Equity(before, m) \in Int
      BY PeakIs, EquityIs
    <3> QED
      BY <3>1, <2>1
  <2>3. PICK p \in Nat, q \in Nat \ {0} : Drawdown(before)[1] = p /\ Drawdown(before)[2] = q
    BY <2>2
  <2>4. PICK a1 \in Nat, a2 \in Nat \ {0} : Drawdown(a)[1] = a1 /\ Drawdown(a)[2] = a2
    BY RaisedDrawdown
  <2>5. PICK b1 \in Nat, b2 \in Nat \ {0} : Drawdown(b)[1] = b1 /\ Drawdown(b)[2] = b2
    BY RaisedDrawdown
  <2>6. b1 * a2 <= a1 * b2
    BY <2>4, <2>5, RaisedDrawdown
  <2>7. 2 * b1 * q > 3 * p * b2
    BY <1>5, <2>3, <2>5
  <2>8. SUFFICES ASSUME 2 * a1 * q <= 3 * p * a2 PROVE FALSE
    <3>1. 2 * a1 * q \in Int /\ 3 * p * a2 \in Int
      OBVIOUS
    <3> QED
      BY <3>1, <2>3, <2>4
  <2>9. (2 * q) * b1 * a2 <= (2 * q) * a1 * b2
    <3>1. (b1 * a2) * (2 * q) <= (a1 * b2) * (2 * q)
      BY <2>6, Scales
    <3> QED
      BY <3>1
  <2>10. (2 * a1 * q) * b2 <= (3 * p * a2) * b2
    <3>1. 2 * a1 * q \in Int /\ 3 * p * a2 \in Int
      OBVIOUS
    <3> QED
      BY <3>1, <2>8, Scales
  <2>11. (2 * b1 * q) * a2 <= (3 * p * b2) * a2
    BY <2>9, <2>10
  <2> QED
    <3>1. 2 * b1 * q \in Int /\ 3 * p * b2 \in Int
      OBVIOUS
    <3>2. 2 * b1 * q <= 3 * p * b2
      BY <3>1, <2>11, CancelsOut
    <3> QED
      BY <3>1, <3>2, <2>7
<1> QED
  BY <1>0, <1>1, <1>2, <1>3, <1>4, <1>5

LEMMA MaxOfTwo ==
  ASSUME NEW x \in Int, NEW y \in Int
  PROVE  Max({x, y}) = IF x >= y THEN x ELSE y
<1>1. CASE x >= y
  BY <1>1 DEF Max
<1>2. CASE ~ (x >= y)
  BY <1>2 DEF Max
<1> QED
  BY <1>1, <1>2

LEMMA RaisedJudgement ==
  ASSUME NEW before \in Seq(Int), NEW a, NEW b, NEW n, Raised(a, b, n), Loss(b) > 0
  PROVE  /\ StabilityScore(before, b) >= StabilityScore(before, a)
         /\ OutOfSamplePass(before, a) => OutOfSamplePass(before, b)
<1> DEFINE P1(g) == Penalty(SumOfGains(g) < 0, 30)
           P2(g) == Penalty(FactorBelowOne(g), 20)
           P3(g) == Penalty(ReturnDegraded(SumOfGains(before), SumOfGains(g)), 20)
           P4(g) == Penalty(/\ Drawdown(before)[1] > 0
                            /\ 2 * Drawdown(g)[1] * Drawdown(before)[2]
                                 > 3 * Drawdown(before)[1] * Drawdown(g)[2], 15)
           P5(g) == Penalty(Len(g) < EnoughTrades, 20)
           P6(g) == Penalty(SumOfGains(before) * 100 > 20 * Capital /\ SumOfGains(g) <= 0, 15)
<1>1. \A g : P1(g) \in Nat /\ P2(g) \in Nat /\ P3(g) \in Nat /\ P4(g) \in Nat
             /\ P5(g) \in Nat /\ P6(g) \in Nat
  BY DEF Penalty
<1>2. /\ P1(b) <= P1(a) /\ P2(b) <= P2(a) /\ P3(b) <= P3(a) /\ P4(b) <= P4(a)
      /\ P5(b) <= P5(a) /\ P6(b) <= P6(a)
  BY PenaltiesFall DEF Penalty
<1>3. \A g : StabilityScore(before, g)
                = Max({0, 100 - P1(g) - P2(g) - P3(g) - P4(g) - P5(g) - P6(g)})
  BY DEF StabilityScore
<1> HIDE DEF P1, P2, P3, P4, P5, P6
<1>4. PICK x \in Int : x = 100 - P1(a) - P2(a) - P3(a) - P4(a) - P5(a) - P6(a)
  BY <1>1
<1>5. PICK y \in Int : y = 100 - P1(b) - P2(b) - P3(b) - P4(b) - P5(b) - P6(b)
  BY <1>1
<1>6. x <= y
  <2>1. PICK a1 \in Nat, a2 \in Nat, a3 \in Nat, a4 \in Nat, a5 \in Nat, a6 \in Nat :
           /\ P1(a) = a1 /\ P2(a) = a2 /\ P3(a) = a3 /\ P4(a) = a4 /\ P5(a) = a5 /\ P6(a) = a6
    BY <1>1
  <2>2. PICK b1 \in Nat, b2 \in Nat, b3 \in Nat, b4 \in Nat, b5 \in Nat, b6 \in Nat :
           /\ P1(b) = b1 /\ P2(b) = b2 /\ P3(b) = b3 /\ P4(b) = b4 /\ P5(b) = b5 /\ P6(b) = b6
    BY <1>1
  <2>3. b1 <= a1 /\ b2 <= a2 /\ b3 <= a3 /\ b4 <= a4 /\ b5 <= a5 /\ b6 <= a6
    BY <1>2, <2>1, <2>2
  <2>4. x = 100 - a1 - a2 - a3 - a4 - a5 - a6 /\ y = 100 - b1 - b2 - b3 - b4 - b5 - b6
    BY <1>4, <1>5, <2>1, <2>2
  <2> QED
    BY <2>3, <2>4
<1>7. /\ StabilityScore(before, a) = IF 0 >= x THEN 0 ELSE x
      /\ StabilityScore(before, b) = IF 0 >= y THEN 0 ELSE y
  <2>1. StabilityScore(before, a) = Max({0, x})
    BY <1>3, <1>4
  <2>2. StabilityScore(before, b) = Max({0, y})
    BY <1>3, <1>5
  <2> QED
    BY <2>1, <2>2, MaxOfTwo
<1>8. StabilityScore(before, b) >= StabilityScore(before, a)
      /\ StabilityScore(before, a) \in Int /\ StabilityScore(before, b) \in Int
  BY <1>6, <1>7
<1>9. /\ FactorBelowOne(b) => FactorBelowOne(a)
      /\ SumOfGains(a) > 0 => SumOfGains(b) > 0
      /\ Len(a) = Len(b)
  BY PenaltiesFall
<1> QED
  BY <1>8, <1>9 DEF OutOfSamplePass

LEMMA GainsAreInts ==
  ASSUME NEW ts \in Seq(ClosedTrades), NEW fold, NEW k
  PROVE  GainsOf(ts, fold, k) \in Seq(Int)
<1> DEFINE N == Len(ts)
           S == Seq(Int)
           none == <<>>
           step == [n \in 1..N |-> [g \in S |->
                      IF InPeriod(ts[n].exit, fold, k) THEN Append(g, ts[n].pnl) ELSE g]]
           Filtered(F) == F = [n \in 0..N |->
                              IF n = 0 THEN <<>>
                              ELSE IF InPeriod(ts[n].exit, fold, k) THEN Append(F[n - 1], ts[n].pnl)
                              ELSE F[n - 1]]
<1>1. N \in Nat /\ none \in S /\ \A n \in 1..N : ts[n].pnl \in Int
  <2>1. N \in Nat /\ <<>> \in Seq(Int)
    OBVIOUS
  <2>2. \A n \in 1..N : ts[n] \in ClosedTrades
    OBVIOUS
  <2> QED
    BY <2>1, <2>2, WalkForwardAssumption DEF ClosedTrades
<1>2. \A g \in S, n \in 1..N :
         /\ step[n][g] \in S
         /\ step[n][g] = IF InPeriod(ts[n].exit, fold, k) THEN Append(g, ts[n].pnl) ELSE g
  BY <1>1
<1>3. GainsOf(ts, fold, k) = (CHOOSE F : Filtered(F))[N]
  BY DEF GainsOf
<1> HIDE DEF step, N, S
<1>4. StaysIn(S, step, N)
  BY <1>2 DEF StaysIn
<1>5. \A n \in 0..N : n # 0 => n \in 1..N /\ n - 1 \in 0..N
  BY <1>1
<1>6. \E G : Filtered(G)
  <2>1. PICK G \in [0..N -> S] : MadeBy(G, none, step, N)
    <3> HIDE DEF none, Filtered
    <3> QED
      BY <1>1, <1>4, StepByStep
  <2>2. \A n \in 0..N : G[n] = IF n = 0 THEN <<>> ELSE step[n][G[n - 1]]
    BY <2>1 DEF MadeBy
  <2>3. \A n \in 0..N : G[n] = IF n = 0 THEN <<>>
                              ELSE IF InPeriod(ts[n].exit, fold, k) THEN Append(G[n - 1], ts[n].pnl)
                              ELSE G[n - 1]
    BY <2>1, <2>2, <1>2, <1>5
  <2>4. Filtered(G)
    BY <2>1, <2>3
  <2> QED
    BY <2>4
<1> DEFINE F == CHOOSE H : Filtered(H)
<1>7. Filtered(F)
  BY <1>6
<1> HIDE DEF F
<1>8. \A n \in 0..N : F[n] \in S
  <2> DEFINE done == {n \in Nat : n <= N => F[n] \in S}
  <2>1. 0 \in done
    BY <1>1, <1>7
  <2>2. ASSUME NEW n \in Nat, n \in done
        PROVE  n + 1 \in done
    <3> SUFFICES ASSUME n + 1 <= N PROVE F[n + 1] \in S
      OBVIOUS
    <3>1. F[n] \in S /\ n + 1 \in 0..N /\ n + 1 # 0 /\ (n + 1) - 1 = n /\ n + 1 \in 1..N
      BY <2>2, <1>1
    <3>2. F[n + 1] = IF InPeriod(ts[n + 1].exit, fold, k) THEN Append(F[n], ts[n + 1].pnl) ELSE F[n]
      BY <3>1, <1>7
    <3>3. step[n + 1][F[n]] \in S
      BY <3>1, <1>2
    <3> QED
      BY <3>1, <3>2, <3>3, <1>2
  <2>3. Nat \subseteq done
    <3> HIDE DEF done
    <3> QED
      BY <2>1, <2>2, AllNaturals
  <2> QED
    BY <2>3, <1>1
<1>9. F[N] \in S
  <2>1. N \in 0..N
    BY <1>1
  <2> QED
    BY <2>1, <1>8
<1> QED
  BY <1>3, <1>9 DEF F, S

(* Every period is judged so, since what is put into it are gains.         *)
LEMMA JudgedFairly ==
  ASSUME trades \in Seq(ClosedTrades)
  PROVE  BetterIsNotWorse
<1> SUFFICES ASSUME NEW k \in 1..folds
             PROVE LET fold == FoldsOf(split, folds)[k]
                       before == GainsOf(trades, fold, 1)
                       after == GainsOf(trades, fold, 3)
                   IN  \A n \in 1..Len(after) : \A more \in {p \in Pnls : p > after[n]} :
                          LET better == [after EXCEPT ![n] = more]
                          IN  Loss(better) > 0 =>
                                /\ StabilityScore(before, better) >= StabilityScore(before, after)
                                /\ OutOfSamplePass(before, after) => OutOfSamplePass(before, better)
  BY DEF BetterIsNotWorse
<1> DEFINE before == GainsOf(trades, FoldsOf(split, folds)[k], 1)
           after == GainsOf(trades, FoldsOf(split, folds)[k], 3)
<1>1. before \in Seq(Int) /\ after \in Seq(Int)
  BY GainsAreInts
<1> HIDE DEF before, after
<1>2. ASSUME NEW n \in 1..Len(after), NEW more \in Pnls, more > after[n],
             Loss([after EXCEPT ![n] = more]) > 0
      PROVE  LET better == [after EXCEPT ![n] = more]
             IN  /\ StabilityScore(before, better) >= StabilityScore(before, after)
                 /\ OutOfSamplePass(before, after) => OutOfSamplePass(before, better)
  <2> DEFINE better == [after EXCEPT ![n] = more]
  <2>1. more \in Int
    BY WalkForwardAssumption
  <2>2. Raised(after, better, n)
    <3>1. better \in Seq(Int) /\ Len(better) = Len(after)
      BY <1>1, <2>1
    <3>2. DOMAIN after = DOMAIN better /\ n \in DOMAIN after /\ better[n] = more
      BY <1>1
    <3>3. \A j \in DOMAIN after \ {n} : better[j] = after[j]
      BY <1>1
    <3> QED
      BY <1>1, <1>2, <3>1, <3>2, <3>3 DEF Raised
  <2> HIDE DEF better
  <2>3. Loss(better) > 0
    BY <1>2 DEF better
  <2>4. /\ StabilityScore(before, better) >= StabilityScore(before, after)
        /\ OutOfSamplePass(before, after) => OutOfSamplePass(before, better)
    BY <1>1, <2>2, <2>3, RaisedJudgement
  <2> QED
    BY <2>4 DEF better
<1> QED
  BY <1>2 DEF before, after

(* What the simulator and the validation make of the past is what trading  *)
(* it would have made: targets are hit only if no stop may have been,      *)
(* every trade counts in one period of a fold, and a period that did       *)
(* better is not judged worse (calculate_walk_forward_summary).            *)
THEOREM SimulationsAlwaysJudgeFairly == MCSpec => []SimulationsJudgeFairly
<1>1. MCInit => SimInv /\ WalkInv
  BY SimStart, WalkStart DEF MCInit
<1>2. [MCNext]_servicesVars => [SimNext]_simVars /\ [WalkNext]_walkVars
  <2> SUFFICES ASSUME [MCNext]_servicesVars
               PROVE  [SimNext]_simVars /\ [WalkNext]_walkVars
    OBVIOUS
  <2>1. CASE MCNext
    <3>1. focus = "simulator" => SimNext
      BY <2>1 DEF MCNext
    <3>2. focus = "walk" => WalkNext
      BY <2>1 DEF MCNext
    <3>3. (focus # "simulator" => UNCHANGED simVars) /\ (focus # "walk" => UNCHANGED walkVars)
      BY <2>1 DEF MCNext
    <3> QED
      BY <3>1, <3>2, <3>3
  <2>2. CASE UNCHANGED servicesVars
    BY <2>2 DEF servicesVars
  <2> QED
    BY <2>1, <2>2
<1>3. SimInv /\ WalkInv /\ [MCNext]_servicesVars => SimInv' /\ WalkInv'
  BY <1>2, SimInductive, WalkInductive
<1>4. SimInv /\ WalkInv => SimulationsJudgeFairly
  <2>1. SimInv => TargetsAreEarned
    BY DEF SimInv
  <2>2. WalkInv => FoldsJudgeFairly
    BY CountedOnce, Covered, JudgedFairly DEF FoldsJudgeFairly, WalkInv
  <2> QED
    BY <2>1, <2>2 DEF SimulationsJudgeFairly
<1> QED
  BY <1>1, <1>3, <1>4, PTL DEF MCSpec

-----------------------------------------------------------------------------

(* A step of MCNext is a step of the component it watches and leaves the   *)
(* others alone.                                                           *)
LEMMA EventsStart == MCInit => AlertInv /\ BooksInv /\ FileInv
BY AlertStart, BooksStart, FileStart DEF MCInit

LEMMA EventSteps ==
  ASSUME [MCNext]_servicesVars
  PROVE  [AlertNext]_alertVars /\ [BooksNext]_booksVars /\ [FileNext]_fileVars
<1>1. CASE MCNext
  <2>1. focus = "alerts" => AlertNext
    BY <1>1 DEF MCNext
  <2>2. focus = "books" => BooksNext
    BY <1>1 DEF MCNext
  <2>3. focus = "files" => FileNext
    BY <1>1 DEF MCNext
  <2>4. /\ focus # "alerts" => UNCHANGED alertVars
        /\ focus # "books" => UNCHANGED booksVars
        /\ focus # "files" => UNCHANGED fileVars
    BY <1>1 DEF MCNext
  <2> QED
    BY <2>1, <2>2, <2>3, <2>4
<1>2. CASE UNCHANGED servicesVars
  BY <1>2 DEF servicesVars
<1> QED
  BY <1>1, <1>2

LEMMA EventsInductive ==
  AlertInv /\ BooksInv /\ FileInv /\ [MCNext]_servicesVars
      => AlertInv' /\ BooksInv' /\ FileInv'
BY EventSteps, AlertInductive, BooksInductive, FileInductive

(* What happened is told by what is kept of it. *)
THEOREM EventsAreKept == MCSpec => []EventsKept
<1>1. AlertInv /\ BooksInv /\ FileInv => EventsKept
  BY AlertRuled, BooksStaged, FilesHeld DEF EventsKept
<1> QED
  BY <1>1, EventsStart, EventsInductive, PTL DEF MCSpec

-----------------------------------------------------------------------------

(* A job whose run is on has no result, and has not been cut short.        *)
RunsAreOpen ==
    \A j \in Jobs : InProgress(j) => jobRow[j] \in {"absent", "running"} /\ j \notin cutShort

(* A job that was queued when it was loaded for a cancel still is.         *)
CancelIsFresh ==
    cancel # NoCancel =>
        /\ cancel.job \in Jobs
        /\ cancel.loaded = "queued" => jobRow[cancel.job] = "queued"

JobsInv == JobsTypeOK /\ RunsAreOpen /\ CancelIsFresh /\ RunningIsAlive

JobRuns == [active : BOOLEAN, left : 0..MaxCombinations, ends : SUBSET Outcomes]

LEMMA JobsStart == JobsInit => JobsInv
<1>1. NoRun \in JobRuns /\ NoRun.active = FALSE
  BY JobsAssumption DEF NoRun, JobRuns
<1>2. [kind |-> "import", size |-> 1] \in JobRequests
  BY JobsAssumption DEF JobRequests
<1>3. NoCancel \in [job : Jobs \union {NoJob}, loaded : JobStatus]
  BY DEF NoCancel, JobStatus
<1> QED
  BY <1>1, <1>2, <1>3
     DEF JobsInit, JobsInv, JobsTypeOK, RunsAreOpen, CancelIsFresh, RunningIsAlive, InProgress,
         JobRuns, JobStatus

(* A step of the run of a job: its row becomes running, keeps its value    *)
(* while the run goes on, or takes a result with which the run ends.       *)
LEMMA RunKeeps ==
  ASSUME JobsInv, NEW j \in Jobs, InProgress(j), NEW run \in JobRuns, NEW status \in JobStatus,
         jobRun' = [jobRun EXCEPT ![j] = run],
         jobRow' = [jobRow EXCEPT ![j] = status],
         UNCHANGED <<request, retryOf, cancel, cutShort>>,
         \/ run.active /\ (status = "running" \/ status = jobRow[j])
         \/ ~ run.active /\ status \in Settled
  PROVE  JobsInv' /\ jobRow[j] \notin Settled
<1>1. /\ jobRow[j] \in {"absent", "running"} /\ j \notin cutShort
      /\ jobRow \in [Jobs -> JobStatus]
      /\ jobRun \in [Jobs -> JobRuns]
  BY DEF JobsInv, RunsAreOpen, JobsTypeOK, JobRuns
<1>2. /\ jobRun' \in [Jobs -> JobRuns] /\ jobRow' \in [Jobs -> JobStatus]
      /\ jobRun'[j] = run /\ jobRow'[j] = status
      /\ \A i \in Jobs \ {j} : jobRun'[i] = jobRun[i] /\ jobRow'[i] = jobRow[i]
  BY <1>1
<1>3. JobsTypeOK'
  BY <1>2 DEF JobsInv, JobsTypeOK, JobRuns
<1>4. RunsAreOpen'
  BY <1>1, <1>2 DEF JobsInv, RunsAreOpen, InProgress
<1>5. CancelIsFresh'
  BY <1>1, <1>2 DEF JobsInv, CancelIsFresh
<1>6. RunningIsAlive'
  BY <1>1, <1>2 DEF JobsInv, RunningIsAlive, InProgress, Settled
<1> QED
  BY <1>1, <1>3, <1>4, <1>5, <1>6 DEF JobsInv, Settled

LEMMA StartKeeps ==
  ASSUME JobsInv, NEW j \in Jobs, StartJob(j)
  PROVE  JobsInv' /\ UNCHANGED jobRow
<1>1. PICK p \in {NoJob} \union Jobs, r \in JobRequests :
         /\ retryOf' = [retryOf EXCEPT ![j] = p]
         /\ request' = [request EXCEPT ![j] = r]
         /\ jobRun' = [jobRun EXCEPT ![j] = [active |-> TRUE, left |-> r.size, ends |-> {}]]
  <2>1. PICK p \in {NoJob} \union Jobs : 
           /\ retryOf' = [retryOf EXCEPT ![j] = p]
           /\ \E r \in IF p = NoJob THEN JobRequests ELSE {request[p]} :
                 /\ request' = [request EXCEPT ![j] = r]
                 /\ jobRun' = [jobRun EXCEPT ![j] = [active |-> TRUE, left |-> r.size, ends |-> {}]]
    BY Zenon DEF StartJob
  <2>2. p # NoJob => request[p] \in JobRequests
    BY <2>1 DEF JobsInv, JobsTypeOK
  <2>3. (IF p = NoJob THEN JobRequests ELSE {request[p]}) \subseteq JobRequests
    BY <2>2
  <2> QED
    BY <2>1, <2>3, Zenon
<1>2. [active |-> TRUE, left |-> r.size, ends |-> {}] \in JobRuns
  BY JobsAssumption DEF JobRuns, JobRequests
<1>3. /\ jobRow[j] = "absent" /\ j \notin cutShort
      /\ UNCHANGED <<jobRow, cancel, cutShort>>
  BY DEF StartJob, Unused
<1>4. /\ jobRun' \in [Jobs -> JobRuns]
      /\ \A i \in Jobs \ {j} : jobRun'[i] = jobRun[i]
      /\ jobRun'[j].active
  BY <1>1, <1>2 DEF JobsInv, JobsTypeOK, JobRuns
<1>5. JobsTypeOK'
  BY <1>1, <1>3, <1>4 DEF JobsInv, JobsTypeOK, JobRuns
<1>6. RunsAreOpen' /\ CancelIsFresh' /\ RunningIsAlive'
  BY <1>3, <1>4 DEF JobsInv, RunsAreOpen, CancelIsFresh, RunningIsAlive, InProgress
<1> QED
  BY <1>3, <1>5, <1>6 DEF JobsInv

LEMMA QueuedKeeps ==
  ASSUME JobsInv, NEW j \in Jobs, CreateQueued(j)
  PROVE  JobsInv' /\ \A i \in Jobs : jobRow[i] \in Settled => jobRow'[i] = jobRow[i]
<1>1. /\ jobRow[j] = "absent" /\ ~ InProgress(j)
      /\ jobRow' = [jobRow EXCEPT ![j] = "queued"]
      /\ UNCHANGED <<jobRun, retryOf, cancel, cutShort>>
  BY DEF CreateQueued, Unused, CommitJob
<1>2. request' \in [Jobs -> JobRequests]
  BY DEF CreateQueued, JobsInv, JobsTypeOK
<1>3. jobRow' \in [Jobs -> JobStatus]
  BY <1>1 DEF JobsInv, JobsTypeOK, JobStatus
<1>4. JobsTypeOK'
  BY <1>1, <1>2, <1>3 DEF JobsInv, JobsTypeOK
<1>5. RunsAreOpen' /\ CancelIsFresh' /\ RunningIsAlive'
  BY <1>1 DEF JobsInv, JobsTypeOK, RunsAreOpen, CancelIsFresh, RunningIsAlive, InProgress
<1> QED
  BY <1>1, <1>4, <1>5 DEF JobsInv, JobsTypeOK, Settled

(* The steps of a run, each as one of RunKeeps.                            *)
LEMMA RunStepKeeps ==
  ASSUME JobsInv, NEW j \in Jobs,
         \/ CombinationEnds(j) \/ FinishImport(j) \/ QualityRecalculated(j)
         \/ FinishQuality(j) \/ JobRaises(j)
  PROVE  JobsInv' /\ \A i \in Jobs : jobRow[i] \in Settled => jobRow'[i] = jobRow[i]
<1>1. /\ jobRun[j] \in JobRuns /\ InProgress(j) /\ jobRow[j] \in JobStatus
      /\ jobRow \in [Jobs -> JobStatus]
      /\ NoRun \in JobRuns /\ ~ NoRun.active
  BY JobsAssumption
     DEF JobsInv, JobsTypeOK, JobRuns, NoRun, CombinationEnds, FinishImport,
         QualityRecalculated, FinishQuality, JobRaises
<1>2. UNCHANGED <<request, retryOf, cancel, cutShort>>
  BY DEF CombinationEnds, FinishImport, QualityRecalculated, FinishQuality, JobRaises
<1>3. \E run \in JobRuns, status \in JobStatus :
         /\ jobRun' = [jobRun EXCEPT ![j] = run]
         /\ jobRow' = [jobRow EXCEPT ![j] = status]
         /\ \/ run.active /\ (status = "running" \/ status = jobRow[j])
            \/ ~ run.active /\ status \in Settled
  <2>1. CASE CombinationEnds(j)
    <3>1. PICK o \in Outcomes :
             jobRun' = [jobRun EXCEPT ![j] =
                           [active |-> TRUE, left |-> jobRun[j].left - 1,
                            ends |-> jobRun[j].ends \union {o}]]
      BY <2>1 DEF CombinationEnds, Outcomes
    <3> DEFINE run == [active |-> TRUE, left |-> jobRun[j].left - 1,
                       ends |-> jobRun[j].ends \union {o}]
    <3>2. jobRun[j].left \in 0..MaxCombinations /\ jobRun[j].left > 0
      BY <1>1, <2>1 DEF CombinationEnds, JobRuns
    <3>3. run \in JobRuns /\ run.active
      <4>1. jobRun[j].left - 1 \in 0..MaxCombinations
        BY <3>2, JobsAssumption
      <4>2. jobRun[j].ends \union {o} \in SUBSET Outcomes
        BY <1>1 DEF JobRuns
      <4> QED
        BY <4>1, <4>2 DEF JobRuns
    <3>4. jobRun' = [jobRun EXCEPT ![j] = run]
      BY <3>1
    <3>5. jobRow' = [jobRow EXCEPT ![j] = "running"]
      BY <2>1 DEF CombinationEnds, CommitJob
    <3> HIDE DEF run
    <3> QED
      BY <3>3, <3>4, <3>5 DEF JobStatus
  <2>2. CASE FinishImport(j)
    <3>1. BatchStatus(jobRun[j].ends) \in Settled \intersect JobStatus
      BY DEF BatchStatus, Settled, JobStatus
    <3>2. /\ jobRun' = [jobRun EXCEPT ![j] = NoRun]
          /\ jobRow' = [jobRow EXCEPT ![j] = BatchStatus(jobRun[j].ends)]
      BY <2>2 DEF FinishImport, EndRun, CommitJob
    <3> QED
      BY <1>1, <3>1, <3>2
  <2>3. CASE QualityRecalculated(j)
    <3>1. PICK o \in Outcomes :
             /\ jobRun' = [jobRun EXCEPT ![j].ends = {o}]
             /\ jobRow' = [jobRow EXCEPT ![j] = "running"] \/ jobRow' = jobRow
      BY <2>3 DEF QualityRecalculated, CommitJob, Outcomes
    <3> DEFINE run == [jobRun[j] EXCEPT !.ends = {o}]
    <3>2. run \in JobRuns /\ run.active
      BY <1>1 DEF JobRuns, InProgress
    <3>3. jobRun' = [jobRun EXCEPT ![j] = run]
      BY <1>1, <3>1 DEF JobsInv, JobsTypeOK
    <3> HIDE DEF run
    <3>4. CASE jobRow' = jobRow
      <4>1. jobRow' = [jobRow EXCEPT ![j] = jobRow[j]]
        BY <1>1, <3>4
      <4> QED
        BY <1>1, <3>2, <3>3, <4>1
    <3>5. CASE jobRow' = [jobRow EXCEPT ![j] = "running"]
      BY <3>2, <3>3, <3>5 DEF JobStatus
    <3> QED
      BY <3>1, <3>4, <3>5
  <2>4. CASE FinishQuality(j)
    BY <1>1, <2>4 DEF FinishQuality, EndRun, CommitJob, Settled, JobStatus
  <2>5. CASE JobRaises(j)
    BY <1>1, <2>5 DEF JobRaises, EndRun, CommitJob, Settled, JobStatus
  <2> QED
    BY <2>1, <2>2, <2>3, <2>4, <2>5
<1>4. JobsInv' /\ jobRow[j] \notin Settled
  BY <1>1, <1>2, <1>3, RunKeeps
<1> QED
  BY <1>1, <1>3, <1>4

(* A run that is cut short leaves the row as it is.                        *)
LEMMA CutKeeps ==
  ASSUME JobsInv, ProcessDies \/ \E j \in Jobs : DatabaseRefuses(j)
  PROVE  JobsInv' /\ UNCHANGED jobRow
<1>1. NoRun \in JobRuns /\ ~ NoRun.active
  BY JobsAssumption DEF NoRun, JobRuns
<1>2. NoCancel \in [job : Jobs \union {NoJob}, loaded : JobStatus]
  BY DEF NoCancel, JobStatus
<1>3. CASE ProcessDies
  BY <1>1, <1>2, <1>3
     DEF ProcessDies, JobsInv, JobsTypeOK, JobRuns, RunsAreOpen, CancelIsFresh, RunningIsAlive,
         InProgress
<1>4. ASSUME NEW j \in Jobs, DatabaseRefuses(j) PROVE JobsInv' /\ UNCHANGED jobRow
  BY <1>1, <1>4
     DEF DatabaseRefuses, EndRun, JobsInv, JobsTypeOK, JobRuns, RunsAreOpen, CancelIsFresh,
         RunningIsAlive, InProgress
<1> QED
  BY <1>3, <1>4

LEMMA CancelKeeps ==
  ASSUME JobsInv, CommitCancel \/ \E j \in Jobs : LoadForCancel(j)
  PROVE  JobsInv' /\ \A i \in Jobs : jobRow[i] \in Settled => jobRow'[i] = jobRow[i]
<1>1. NoCancel \in [job : Jobs \union {NoJob}, loaded : JobStatus]
  BY DEF NoCancel, JobStatus
<1>2. ASSUME NEW j \in Jobs, LoadForCancel(j)
      PROVE  JobsInv' /\ UNCHANGED jobRow
  <2>1. jobRow[j] \in JobStatus
    BY DEF JobsInv, JobsTypeOK
  <2> QED
    BY <1>2, <2>1
       DEF LoadForCancel, JobsInv, JobsTypeOK, RunsAreOpen, CancelIsFresh, RunningIsAlive,
           InProgress
<1>3. CASE CommitCancel /\ Cancels(cancel.loaded)
  <2>1. /\ cancel.job \in Jobs /\ jobRow[cancel.job] = "queued"
        /\ jobRow' = [jobRow EXCEPT ![cancel.job] = "cancelled"]
        /\ cancel' = NoCancel
        /\ UNCHANGED <<request, jobRun, retryOf, cutShort>>
    BY <1>3 DEF CommitCancel, Cancels, CommitJob, JobsInv, CancelIsFresh
  <2>2. jobRow' \in [Jobs -> JobStatus]
    BY <2>1 DEF JobsInv, JobsTypeOK, JobStatus
  <2> QED
    BY <1>1, <2>1, <2>2
       DEF JobsInv, JobsTypeOK, RunsAreOpen, CancelIsFresh, RunningIsAlive, InProgress, Settled
<1>4. CASE CommitCancel /\ ~ Cancels(cancel.loaded)
  BY <1>1, <1>4
     DEF CommitCancel, JobsInv, JobsTypeOK, RunsAreOpen, CancelIsFresh, RunningIsAlive, InProgress
<1> QED
  BY <1>2, <1>3, <1>4

LEMMA JobsInductive ==
  ASSUME JobsInv, [JobsNext]_jobVars
  PROVE  JobsInv' /\ \A j \in Jobs : jobRow[j] \in Settled => jobRow'[j] = jobRow[j]
<1>1. CASE JobsNext
  BY <1>1, StartKeeps, QueuedKeeps, RunStepKeeps, CutKeeps, CancelKeeps DEF JobsNext
<1>2. CASE UNCHANGED jobVars
  BY <1>2
     DEF jobVars, JobsInv, JobsTypeOK, RunsAreOpen, CancelIsFresh, RunningIsAlive, InProgress
<1> QED
  BY <1>1, <1>2

(* A research job that shows as running is being run, unless the process   *)
(* or the database cut its run short (create_and_run_import).              *)
THEOREM RunningJobsAreRun == JobsSpec => []RunningIsAlive
<1>1. JobsInv => RunningIsAlive
  BY DEF JobsInv
<1>2. JobsInv /\ [JobsNext]_jobVars => JobsInv'
  BY JobsInductive
<1> QED
  BY <1>1, <1>2, JobsStart, PTL DEF JobsSpec

(* What a job ended as never changes, whichever cancels and retries race   *)
(* with it (ResearchJobService.cancel_job).                                *)
THEOREM JobsSettleOnce == JobsSpec => JobsSettle
<1>1. JobsInv /\ [JobsNext]_jobVars
        => [\A j \in Jobs : jobRow[j] \in Settled => jobRow'[j] = jobRow[j]]_jobVars
  BY JobsInductive
<1>2. JobsInv /\ [JobsNext]_jobVars => JobsInv'
  BY JobsInductive
<1> QED
  BY <1>1, <1>2, JobsStart, PTL DEF JobsSpec, JobsSettle

-----------------------------------------------------------------------------

InReplay(r) == replay[r].stage \notin {"idle", "done"}

OneReplay == \A r, q \in Replays : InReplay(r) /\ InReplay(q) => r = q

(* Only what a replay commits after it found the run empty is in its       *)
(* outputs, and the run shows as running from then on.                     *)
StartsEmpty ==
    /\ backtest.status = "queued" => outputs = {}
    /\ \A r \in Replays : replay[r].stage = "starting" => outputs = {}

OutputsAreOwn ==
    \A r \in Replays : replay[r].stage = "replaying" =>
        backtest.status = "running" /\ \A x \in outputs : x[1] = r

BacktestInv ==
    BacktestTypeOK /\ OneReplay /\ StartsEmpty /\ OutputsAreOwn /\ CompletedIsOneReplay

Stages == {"idle", "clearing", "starting", "replaying", "done"}
ReplayStates == [stage : Stages, part : 1..(Parts + 1), loaded : BOOLEAN]
RunStatuses == {"queued", "running", "completed", "failed"}

LEMMA NoneReplaying ==
  ASSUME MaxReplays = 1, Cardinality(ReplaysInProgress) < MaxReplays
  PROVE  \A r \in Replays : ~ InReplay(r)
<1>1. IsFiniteSet(ReplaysInProgress)
  BY BacktestAssumption, FS_Subset DEF ReplaysInProgress
<1>2. Cardinality(ReplaysInProgress) = 0
  BY <1>1, FS_CardinalityType
<1>3. ReplaysInProgress = {}
  BY <1>1, <1>2, FS_EmptySet
<1> QED
  BY <1>3 DEF ReplaysInProgress, InReplay

LEMMA BacktestStart == BacktestInit => BacktestInv
<1> SUFFICES ASSUME BacktestInit PROVE BacktestInv
  OBVIOUS
<1>1. [stage |-> "idle", part |-> 1, loaded |-> FALSE] \in ReplayStates
  BY BacktestAssumption DEF ReplayStates, Stages
<1>2. NoSummary \in Summaries
  BY DEF NoSummary, Summaries
<1>3. BacktestTypeOK
  BY <1>1, <1>2 DEF BacktestInit, BacktestTypeOK, ReplayStates, Stages
<1> QED
  BY <1>3
     DEF BacktestInit, BacktestInv, OneReplay, InReplay, StartsEmpty, OutputsAreOwn,
         CompletedIsOneReplay

(* The one replay in progress decides the invariant.                       *)
LEMMA ReplayKeeps ==
  ASSUME BacktestInv, NEW r \in Replays, NEW s \in ReplayStates,
         replay' = [replay EXCEPT ![r] = s],
         \A q \in Replays \ {r} : ~ InReplay(q),
         BacktestTypeOK', UNCHANGED review,
         backtest.status = "queued" \/ backtest'.status # "queued",
         backtest'.status = "queued" => outputs' = {},
         s.stage = "starting" => outputs' = {},
         s.stage = "replaying" =>
            backtest'.status = "running" /\ \A x \in outputs' : x[1] = r,
         CompletedIsOneReplay'
  PROVE  BacktestInv'
<1>1. replay \in [Replays -> ReplayStates]
  BY DEF BacktestInv, BacktestTypeOK, ReplayStates, Stages
<1>2. replay'[r] = s /\ \A q \in Replays \ {r} : replay'[q] = replay[q] /\ ~ InReplay(q)'
  BY <1>1 DEF InReplay
<1>3. OneReplay'
  BY <1>2 DEF OneReplay
<1>4. StartsEmpty' /\ OutputsAreOwn'
  BY <1>2 DEF StartsEmpty, OutputsAreOwn, InReplay
<1> QED
  BY <1>3, <1>4 DEF BacktestInv

LEMMA ReplayTyped ==
  ASSUME BacktestInv, NEW r \in Replays, NEW s \in ReplayStates,
         replay' = [replay EXCEPT ![r] = s],
         backtest' \in [status : RunStatuses, summary : Summaries],
         outputs' \subseteq Outputs, UNCHANGED review
  PROVE  BacktestTypeOK'
BY DEF BacktestInv, BacktestTypeOK, ReplayStates, Stages, RunStatuses

LEMMA ReplayStepKeeps ==
  ASSUME MaxReplays = 1, BacktestInv, NEW r \in Replays,
         \/ LoadRun(r) \/ ClearOutputs(r) \/ MarkRunning(r) \/ ReplayPart(r)
         \/ FinishReplay(r) \/ FailReplay(r) \/ LoseReplay(r)
  PROVE  BacktestInv'
<1>1. /\ replay[r] \in ReplayStates /\ replay \in [Replays -> ReplayStates]
      /\ backtest \in [status : RunStatuses, summary : Summaries]
      /\ outputs \subseteq Outputs
  BY DEF BacktestInv, BacktestTypeOK, ReplayStates, Stages, RunStatuses
<1>2. ASSUME InReplay(r) PROVE \A q \in Replays \ {r} : ~ InReplay(q)
  BY <1>2 DEF BacktestInv, OneReplay
<1>3. ASSUME NEW stage \in Stages, To(r, stage)
      PROVE  /\ [replay[r] EXCEPT !.stage = stage] \in ReplayStates
             /\ [replay[r] EXCEPT !.stage = stage].stage = stage
             /\ replay' = [replay EXCEPT ![r] = [replay[r] EXCEPT !.stage = stage]]
  BY <1>1, <1>3 DEF To, ReplayStates
<1>4. CASE LoadRun(r)
  <2>1. \A q \in Replays : ~ InReplay(q)
    BY <1>4, NoneReplaying DEF LoadRun
  <2>2. PICK stage \in {"clearing", "starting"} :
           To(r, stage) /\ (stage = "starting" => backtest.status = "queued")
    BY <1>4 DEF LoadRun
  <2>3. UNCHANGED <<backtest, outputs, review>>
    BY <1>4 DEF LoadRun
  <2> DEFINE s == [replay[r] EXCEPT !.stage = stage]
  <2>4. s \in ReplayStates /\ s.stage = stage /\ replay' = [replay EXCEPT ![r] = s]
    BY <1>3, <2>2 DEF Stages
  <2> HIDE DEF s
  <2>5. BacktestTypeOK'
    BY <1>1, <2>3, <2>4, ReplayTyped
  <2> QED
    BY <2>1, <2>2, <2>3, <2>4, <2>5, ReplayKeeps
       DEF BacktestInv, StartsEmpty, CompletedIsOneReplay
<1>5. CASE ClearOutputs(r)
  <2>1. /\ InReplay(r) /\ outputs' = {} /\ To(r, "starting")
        /\ UNCHANGED <<backtest, review>>
    BY <1>5 DEF ClearOutputs, InReplay, Cleared
  <2> DEFINE s == [replay[r] EXCEPT !.stage = "starting"]
  <2>2. s \in ReplayStates /\ s.stage = "starting" /\ replay' = [replay EXCEPT ![r] = s]
    BY <1>3, <2>1 DEF Stages
  <2> HIDE DEF s
  <2>3. BacktestTypeOK'
    BY <1>1, <2>1, <2>2, ReplayTyped
  <2> QED
    BY <1>2, <2>1, <2>2, <2>3, ReplayKeeps DEF CompletedIsOneReplay
<1>6. CASE MarkRunning(r)
  <2>1. /\ InReplay(r) /\ replay[r].stage = "starting" /\ To(r, "replaying")
        /\ backtest' = [backtest EXCEPT !.status = "running"]
        /\ UNCHANGED <<outputs, review>>
    BY <1>6 DEF MarkRunning, InReplay
  <2>2. outputs = {}
    BY <2>1 DEF BacktestInv, StartsEmpty
  <2> DEFINE s == [replay[r] EXCEPT !.stage = "replaying"]
  <2>3. s \in ReplayStates /\ s.stage = "replaying" /\ replay' = [replay EXCEPT ![r] = s]
    BY <1>3, <2>1 DEF Stages
  <2> HIDE DEF s
  <2>4. backtest' \in [status : RunStatuses, summary : Summaries] /\ backtest'.status = "running"
    BY <1>1, <2>1 DEF RunStatuses
  <2>5. BacktestTypeOK'
    BY <1>1, <2>1, <2>3, <2>4, ReplayTyped
  <2> QED
    BY <1>2, <2>1, <2>2, <2>3, <2>4, <2>5, ReplayKeeps DEF CompletedIsOneReplay
<1>7. CASE ReplayPart(r)
  <2>1. PICK fetched \in BOOLEAN, traded \in BOOLEAN :
           /\ outputs' = IF traded THEN outputs \union {<<r, replay[r].part>>} ELSE outputs
           /\ replay' = [replay EXCEPT ![r] =
                 [stage |-> "replaying", part |-> replay[r].part + 1,
                  loaded |-> replay[r].loaded \/ fetched]]
    BY <1>7, Zenon DEF ReplayPart
  <2>2. /\ InReplay(r) /\ replay[r].stage = "replaying" /\ replay[r].part <= Parts
        /\ UNCHANGED <<backtest, review>>
    BY <1>7 DEF ReplayPart, InReplay
  <2> DEFINE s == [stage |-> "replaying", part |-> replay[r].part + 1,
                   loaded |-> replay[r].loaded \/ fetched]
  <2>3. replay[r].part \in 1..(Parts + 1) /\ replay[r].part + 1 \in 1..(Parts + 1)
        /\ replay[r].part \in 1..Parts
    BY <1>1, <2>2, BacktestAssumption DEF ReplayStates
  <2>4. s \in ReplayStates /\ s.stage = "replaying"
    BY <2>3 DEF ReplayStates, Stages
  <2>5. replay' = [replay EXCEPT ![r] = s]
    BY <2>1
  <2> HIDE DEF s
  <2>6. <<r, replay[r].part>> \in Outputs /\ <<r, replay[r].part>>[1] = r
    BY <2>3 DEF Outputs
  <2>7. backtest.status = "running" /\ \A x \in outputs : x[1] = r
    BY <2>2 DEF BacktestInv, OutputsAreOwn
  <2>8. outputs' \subseteq Outputs /\ \A x \in outputs' : x[1] = r
    BY <1>1, <2>1, <2>6, <2>7
  <2>9. BacktestTypeOK'
    BY <1>1, <2>2, <2>4, <2>5, <2>8, ReplayTyped
  <2> QED
    BY <1>2, <2>2, <2>4, <2>5, <2>7, <2>8, <2>9, ReplayKeeps DEF CompletedIsOneReplay
<1>8. CASE FinishReplay(r)
  <2>1. /\ InReplay(r) /\ replay[r].stage = "replaying" /\ To(r, "done")
        /\ UNCHANGED <<outputs, review>>
        /\ backtest'.status \in {"completed", "failed"}
        /\ backtest' \in [status : RunStatuses, summary : Summaries]
    BY <1>8 DEF FinishReplay, InReplay, RunStatuses, Summaries, NoSummary
  <2>2. \A x \in outputs : x[1] = r
    BY <2>1 DEF BacktestInv, OutputsAreOwn
  <2> DEFINE s == [replay[r] EXCEPT !.stage = "done"]
  <2>3. s \in ReplayStates /\ s.stage = "done" /\ replay' = [replay EXCEPT ![r] = s]
    BY <1>3, <2>1 DEF Stages
  <2> HIDE DEF s
  <2>4. BacktestTypeOK'
    BY <1>1, <2>1, <2>3, ReplayTyped
  <2> QED
    BY <1>2, <2>1, <2>2, <2>3, <2>4, ReplayKeeps DEF CompletedIsOneReplay
<1>9. CASE FailReplay(r)
  <2>1. /\ InReplay(r) /\ replay[r].stage = "replaying" /\ To(r, "done")
        /\ outputs' \in {outputs, outputs \union {<<r, replay[r].part>>}}
        /\ backtest' = [backtest EXCEPT !.status = "failed"]
        /\ UNCHANGED <<review>> /\ replay[r].part <= Parts
    BY <1>9 DEF FailReplay, InReplay
  <2>2. <<r, replay[r].part>> \in Outputs
    BY <1>1, <2>1, BacktestAssumption DEF ReplayStates, Outputs
  <2>3. outputs' \subseteq Outputs
    BY <1>1, <2>1, <2>2
  <2>4. backtest' \in [status : RunStatuses, summary : Summaries] /\ backtest'.status = "failed"
    BY <1>1, <2>1 DEF RunStatuses
  <2> DEFINE s == [replay[r] EXCEPT !.stage = "done"]
  <2>5. s \in ReplayStates /\ s.stage = "done" /\ replay' = [replay EXCEPT ![r] = s]
    BY <1>3, <2>1 DEF Stages
  <2> HIDE DEF s
  <2>6. BacktestTypeOK'
    BY <1>1, <2>1, <2>3, <2>4, <2>5, ReplayTyped
  <2> QED
    BY <1>2, <2>1, <2>4, <2>5, <2>6, ReplayKeeps DEF CompletedIsOneReplay
<1>10. CASE LoseReplay(r)
  <2>1. InReplay(r) /\ To(r, "done") /\ UNCHANGED <<backtest, outputs, review>>
    BY <1>10 DEF LoseReplay, InReplay
  <2> DEFINE s == [replay[r] EXCEPT !.stage = "done"]
  <2>2. s \in ReplayStates /\ s.stage = "done" /\ replay' = [replay EXCEPT ![r] = s]
    BY <1>3, <2>1 DEF Stages
  <2> HIDE DEF s
  <2>3. BacktestTypeOK'
    BY <1>1, <2>1, <2>2, ReplayTyped
  <2> QED
    BY <1>2, <2>1, <2>2, <2>3, ReplayKeeps
       DEF BacktestInv, StartsEmpty, CompletedIsOneReplay
<1> QED
  BY <1>4, <1>5, <1>6, <1>7, <1>8, <1>9, <1>10

(* A review writes the summary and nothing else of the run.                *)
LEMMA ReviewStepKeeps ==
  ASSUME BacktestInv, NEW v \in Reviews,
         LoadReview(v) \/ CommitLabel(v) \/ CommitValidation(v) \/ FailReview(v)
  PROVE  BacktestInv'
<1> DEFINE ReviewStates == [stage : {"idle", "loaded", "done"}, label : BOOLEAN,
                            summary : Summaries, rows : SUBSET Outputs]
<1>1. /\ review \in [Reviews -> ReviewStates]
      /\ backtest \in [status : RunStatuses, summary : Summaries]
      /\ outputs \subseteq Outputs
  BY DEF BacktestInv, BacktestTypeOK, RunStatuses
<1>2. UNCHANGED <<outputs, replay>>
  BY DEF LoadReview, CommitLabel, CommitValidation, FailReview
<1>3. review' \in [Reviews -> ReviewStates]
  <2>1. CASE LoadReview(v)
    BY <1>1, <2>1 DEF LoadReview
  <2>2. CASE SetStage(v, "done")
    BY <1>1, <2>2 DEF SetStage
  <2> QED
    BY <2>1, <2>2 DEF CommitLabel, CommitValidation, FailReview
<1>4. [NoSummary EXCEPT !.validation = v] \in Summaries
  BY DEF NoSummary, Summaries
<1>5. [review[v].summary EXCEPT !.label = v] \in Summaries
  BY <1>1 DEF Summaries
<1>6. /\ backtest' \in [status : RunStatuses, summary : Summaries]
      /\ backtest'.status = backtest.status
  BY <1>1, <1>4, <1>5 DEF LoadReview, CommitLabel, CommitValidation, FailReview, Validated
<1>7. BacktestTypeOK'
  BY <1>2, <1>3, <1>6 DEF BacktestInv, BacktestTypeOK, RunStatuses
<1> QED
  BY <1>2, <1>6, <1>7
     DEF BacktestInv, OneReplay, InReplay, StartsEmpty, OutputsAreOwn, CompletedIsOneReplay

(* A completed backtest run is what one replay of it traded, for replays   *)
(* one at a time beside any reviews (HistoricalReplayService.replay_run).  *)
THEOREM CompletedRunIsOneReplay ==
  ASSUME MaxReplays = 1
  PROVE  BacktestSpec => []CompletedIsOneReplay
<1>1. ASSUME BacktestInv, [BacktestNext]_backtestVars PROVE BacktestInv'
  <2>1. CASE BacktestNext
    <3>1. ASSUME NEW r \in Replays,
                 \/ LoadRun(r) \/ ClearOutputs(r) \/ MarkRunning(r) \/ ReplayPart(r)
                 \/ FinishReplay(r) \/ FailReplay(r) \/ LoseReplay(r)
          PROVE  BacktestInv'
      BY <1>1, <3>1, ReplayStepKeeps
    <3>2. ASSUME NEW v \in Reviews,
                 LoadReview(v) \/ CommitLabel(v) \/ CommitValidation(v) \/ FailReview(v)
          PROVE  BacktestInv'
      BY <1>1, <3>2, ReviewStepKeeps
    <3> QED
      BY <2>1, <3>1, <3>2 DEF BacktestNext
  <2>2. CASE UNCHANGED backtestVars
    BY <1>1, <2>2
       DEF backtestVars, BacktestInv, BacktestTypeOK, OneReplay, InReplay, StartsEmpty,
           OutputsAreOwn, CompletedIsOneReplay
  <2> QED
    BY <1>1, <2>1, <2>2
<1>2. BacktestInv => CompletedIsOneReplay
  BY DEF BacktestInv
<1> QED
  BY <1>1, <1>2, BacktestStart, PTL DEF BacktestSpec

-----------------------------------------------------------------------------

(* The shapes of the components, with the bounds that their invariants     *)
(* above leave out.                                                        *)

(* Governance: only a rollback that has not read the log has no target.    *)
Targeted ==
    {t \in Transactions :
        t.stage = "ready" \/ (t.stage \in {"begun", "read"} /\ t.op # "rollback")
            => t.target \in Models}

GovernanceInv ==
    /\ active \subseteq Models
    /\ log \subseteq Events
    /\ clock \in Nat
    /\ tx \in [Requests -> Targeted]

LEMMA GovernanceTyped == GovernanceInv => TypeOK
BY DEF GovernanceInv, Targeted, TypeOK

LEMMA GovernanceStart == Init => GovernanceInv
BY DEF Init, GovernanceInv, Targeted, Transactions, Idle

LEMMA GovernanceInductive == GovernanceInv /\ [Next]_vars => GovernanceInv'
<1> SUFFICES ASSUME GovernanceInv, [Next]_vars PROVE GovernanceInv'
  OBVIOUS
<1>1. /\ active \subseteq Models /\ log \subseteq Events /\ clock \in Nat
      /\ tx \in [Requests -> Targeted]
  BY DEF GovernanceInv
<1>2. CASE UNCHANGED vars
  BY <1>1, <1>2 DEF vars, GovernanceInv
<1>3. ASSUME NEW r \in Requests, NEW row \in Targeted, tx' = [tx EXCEPT ![r] = row]
      PROVE  tx' \in [Requests -> Targeted]
  BY <1>1, <1>3
<1>4. ASSUME NEW r \in Requests, End(r) PROVE tx' \in [Requests -> Targeted]
  <2> DEFINE row == [Idle EXCEPT !.stage = "done"]
  <2>1. row \in Targeted
    BY DEF Idle, Targeted, Transactions
  <2>2. tx' = [tx EXCEPT ![r] = row]
    BY <1>4 DEF End
  <2> HIDE DEF row
  <2> QED
    BY <1>3, <2>1, <2>2
<1>5. ASSUME NEW r \in Requests, Begin(r) PROVE GovernanceInv'
  <2>1. PICK op \in Operations, m \in Models :
          tx' = [tx EXCEPT ![r] =
                    [at |-> clock + 1, op |-> op, current |-> NoModel,
                     stage |-> IF op = "deactivate" THEN "ready" ELSE "begun",
                     target |-> IF op = "rollback" THEN NoModel ELSE m,
                     loaded |-> op # "rollback" /\ m \in active]]
    BY <1>5 DEF Begin
  <2> DEFINE row == [at |-> clock + 1, op |-> op, current |-> NoModel,
                     stage |-> IF op = "deactivate" THEN "ready" ELSE "begun",
                     target |-> IF op = "rollback" THEN NoModel ELSE m,
                     loaded |-> op # "rollback" /\ m \in active]
  <2>2. row \in Targeted
    BY <1>1 DEF Targeted, Transactions
  <2>3. tx' = [tx EXCEPT ![r] = row]
    BY <2>1
  <2> HIDE DEF row
  <2>4. tx' \in [Requests -> Targeted]
    BY <1>3, <2>2, <2>3
  <2>5. clock' = clock + 1 /\ UNCHANGED <<active, log>>
    BY <1>5 DEF Begin
  <2> QED
    BY <1>1, <2>4, <2>5 DEF GovernanceInv, Events
<1>6. ASSUME NEW r \in Requests, ReadActive(r) PROVE GovernanceInv'
  <2>1. UNCHANGED <<active, log, clock>> /\ tx[r] \in Targeted /\ tx[r].stage = "begun"
    BY <1>1, <1>6 DEF ReadActive
  <2>2. CASE End(r)
    BY <1>1, <1>4, <2>1, <2>2 DEF GovernanceInv, Events
  <2>3. CASE tx[r].op = "promote" /\ tx' = [tx EXCEPT ![r].stage = "ready"]
    <3> DEFINE row == [tx[r] EXCEPT !.stage = "ready"]
    <3>1. row \in Targeted
      BY <2>1, <2>3 DEF Targeted, Transactions
    <3>2. tx' = [tx EXCEPT ![r] = row]
      BY <2>3
    <3> HIDE DEF row
    <3> QED
      BY <1>1, <1>3, <2>1, <3>1, <3>2 DEF GovernanceInv, Events
  <2>4. ASSUME NEW m \in active,
               tx' = [tx EXCEPT ![r].current = m,
                       ![r].stage = IF tx[r].op = "rollback" THEN "read" ELSE "ready"]
        PROVE  GovernanceInv'
    <3> DEFINE row == [tx[r] EXCEPT !.current = m,
                          !.stage = IF tx[r].op = "rollback" THEN "read" ELSE "ready"]
    <3>1. row \in Targeted
      BY <1>1, <2>1 DEF Targeted, Transactions
    <3>2. tx' = [tx EXCEPT ![r] = row]
      BY <1>1, <2>4
    <3> HIDE DEF row
    <3> QED
      BY <1>1, <1>3, <2>1, <3>1, <3>2 DEF GovernanceInv, Events
  <2> QED
    BY <1>6, <2>2, <2>3, <2>4 DEF ReadActive
<1>7. ASSUME NEW r \in Requests, ReadLog(r) PROVE GovernanceInv'
  <2>1. UNCHANGED <<active, log, clock>> /\ tx[r] \in Targeted
    BY <1>1, <1>7 DEF ReadLog
  <2>2. CASE End(r)
    BY <1>1, <1>4, <2>1, <2>2 DEF GovernanceInv, Events
  <2>3. ASSUME NEW m \in Restorable(tx[r].current),
               tx' = [tx EXCEPT ![r].target = m, ![r].stage = "ready",
                       ![r].loaded = m \in active \union {tx[r].current}]
        PROVE  GovernanceInv'
    <3>1. m \in Models
      BY <1>1 DEF Restorable, Displaced, LatestPromotes, Events
    <3> DEFINE known == m \in active \union {tx[r].current}
               row == [tx[r] EXCEPT !.target = m, !.stage = "ready", !.loaded = known]
    <3>2. known \in BOOLEAN
      OBVIOUS
    <3>3. tx' = [tx EXCEPT ![r] = row]
      BY <1>1, <2>3
    <3> HIDE DEF known
    <3>4. row \in Targeted
      BY <2>1, <3>1, <3>2 DEF Targeted, Transactions
    <3> HIDE DEF row
    <3> QED
      BY <1>1, <1>3, <2>1, <3>3, <3>4 DEF GovernanceInv, Events
  <2> QED
    BY <1>7, <2>2, <2>3 DEF ReadLog
<1>8. ASSUME NEW r \in Requests, Commit(r) PROVE GovernanceInv'
  <2> DEFINE t == tx[r]
  <2>1. /\ t \in Targeted /\ t.stage = "ready" /\ End(r) /\ UNCHANGED clock
        /\ active' = (active \ Clears(t)) \union Sets(t)
        /\ log' = IF t.op # "promote" THEN log
                  ELSE log \union {[at |-> t.at, model |-> t.target, previous |-> t.current]}
    BY <1>1, <1>8 DEF Commit
  <2>2. /\ t.target \in Models /\ t.current \in Models \union {NoModel} /\ t.at \in Nat
        /\ tx' \in [Requests -> Targeted]
    BY <1>4, <2>1 DEF Targeted, Transactions
  <2>3. Sets(t) \subseteq Models
    BY <2>2 DEF Sets
  <2> HIDE DEF t
  <2>4. active' \subseteq Models
    BY <1>1, <2>1, <2>3
  <2>5. [at |-> t.at, model |-> t.target, previous |-> t.current] \in Events
    BY <2>2 DEF Events
  <2> QED
    BY <1>1, <2>1, <2>2, <2>4, <2>5 DEF GovernanceInv, Events
<1>9. ASSUME NEW r \in Requests, Abort(r) PROVE GovernanceInv'
  BY <1>1, <1>4, <1>9 DEF Abort, GovernanceInv, Events
<1> QED
  BY <1>2, <1>5, <1>6, <1>7, <1>8, <1>9 DEF Next

(* The desk.                                                               *)
DecisionRows ==
    Tickets \X {"submit_preflight", "submit_attempt"} \X {"not_applied", "blocked", "allowed"}

LEMMA TicketGoes ==
  ASSUME DeskTypeOK, NEW o \in Tickets,
         NEW stage \in {"idle", "account", "positions", "preflight", "ready", "sent",
                        "taken", "done"},
         GoTo(o, stage)
  PROVE  ticket' \in [Tickets -> Handlers]
BY DEF DeskTypeOK, GoTo, Handlers

LEMMA DeskShapes == DeskTypeOK /\ [DeskNext]_deskVars => DeskTypeOK'
<1> SUFFICES ASSUME DeskTypeOK, [DeskNext]_deskVars PROVE DeskTypeOK'
  OBVIOUS
<1>1. /\ ticket \in [Tickets -> Handlers] /\ placed \subseteq Tickets /\ filled \subseteq placed
      /\ halt \in [1..HaltRows -> {"absent", "active", "resolved"}]
      /\ exposureLimit \in Exposures \union {NoLimit}
      /\ decisions \subseteq DecisionRows
      /\ audited \subseteq Tickets /\ shadowed \subseteq Tickets
  BY DEF DeskTypeOK, DecisionRows
<1>2. ASSUME NEW rows \in SUBSET DecisionRows, Persist(rows)
      PROVE  decisions' \subseteq DecisionRows
  BY <1>1, <1>2 DEF Persist
<1>3. ASSUME NEW o \in Tickets, Finish(o)
      PROVE  ticket' \in [Tickets -> Handlers] /\ audited' \subseteq Tickets
  BY <1>1, <1>3, TicketGoes DEF Finish
<1>4. ASSUME NEW o \in Tickets, RequestOrder(o) PROVE DeskTypeOK'
  <2>1. CASE Finish(o)
    BY <1>1, <1>3, <1>4, <2>1 DEF RequestOrder, DeskTypeOK
  <2>2. ASSUME NEW p \in BOOLEAN,
               ticket' = [ticket EXCEPT ![o].stage = "account", ![o].priced = p],
               UNCHANGED audited
        PROVE  DeskTypeOK'
    <3> DEFINE row == [ticket[o] EXCEPT !.stage = "account", !.priced = p]
    <3>1. row \in Handlers
      <4>1. ticket[o] \in Handlers
        BY <1>1
      <4> QED
        BY <4>1 DEF Handlers
    <3>2. ticket' = [ticket EXCEPT ![o] = row]
      BY <1>1, <2>2
    <3> HIDE DEF row
    <3>3. ticket' \in [Tickets -> Handlers]
      BY <1>1, <3>1, <3>2
    <3> QED
      BY <1>1, <1>4, <2>2, <3>3 DEF RequestOrder, DeskTypeOK
  <2> QED
    BY <1>4, <2>1, <2>2 DEF RequestOrder
<1>5. ASSUME NEW o \in Tickets, ReadPortfolio(o) PROVE DeskTypeOK'
  <2>1. ticket' \in [Tickets -> Handlers]
    <3>1. CASE GoTo(o, "positions")
      BY <3>1, TicketGoes
    <3>2. CASE ticket' = [ticket EXCEPT ![o].stage = "preflight", ![o].seen = filled]
      <4> DEFINE row == [ticket[o] EXCEPT !.stage = "preflight", !.seen = filled]
      <4>1. row \in Handlers
        <5>1. ticket[o] \in Handlers /\ filled \in SUBSET Tickets
          BY <1>1
        <5> QED
          BY <5>1 DEF Handlers
      <4>2. ticket' = [ticket EXCEPT ![o] = row]
        BY <1>1, <3>2
      <4> HIDE DEF row
      <4> QED
        BY <1>1, <4>1, <4>2
    <3> QED
      BY <1>5, <3>1, <3>2 DEF ReadPortfolio
  <2>2. UNCHANGED <<placed, filled, decisions, audited, halt, exposureLimit, shadowed>>
    BY <1>5 DEF ReadPortfolio, deskRows
  <2> QED
    BY <1>1, <2>1, <2>2 DEF DeskTypeOK
<1>6. ASSUME NEW o \in Tickets, PortfolioUnavailable(o) PROVE DeskTypeOK'
  <2>1. {<<o, "submit_preflight", "blocked">>, <<o, "submit_attempt", "blocked">>}
           \subseteq DecisionRows
    BY DEF DecisionRows
  <2>2. /\ decisions' \subseteq DecisionRows /\ Finish(o)
        /\ UNCHANGED <<placed, filled, halt, exposureLimit, shadowed>>
    BY <1>2, <1>6, <2>1 DEF PortfolioUnavailable, deskRows
  <2> QED
    BY <1>1, <1>3, <2>2 DEF DeskTypeOK, DecisionRows
<1>7. ASSUME NEW o \in Tickets, DeskPreflight(o) PROVE DeskTypeOK'
  <2>1. /\ {<<o, "submit_preflight", "not_applied">>, <<o, "submit_attempt", "blocked">>}
              \subseteq DecisionRows
        /\ {<<o, "submit_preflight", "not_applied">>} \subseteq DecisionRows
    BY DEF DecisionRows
  <2>2. /\ decisions' \subseteq DecisionRows
        /\ UNCHANGED <<placed, filled, halt, exposureLimit, shadowed>>
    BY <1>2, <1>7, <2>1 DEF DeskPreflight, deskRows
  <2>3. Finish(o) \/ (GoTo(o, "ready") /\ UNCHANGED audited)
    BY <1>7 DEF DeskPreflight
  <2>4. ticket' \in [Tickets -> Handlers] /\ audited' \subseteq Tickets
    BY <1>1, <1>3, <2>3, TicketGoes
  <2> QED
    BY <1>1, <2>2, <2>4 DEF DeskTypeOK, DecisionRows
<1>8. ASSUME NEW o \in Tickets, HandOver(o) \/ BrokerTakes(o) PROVE DeskTypeOK'
  <2>1. /\ UNCHANGED <<filled, decisions, halt, exposureLimit, shadowed>>
        /\ placed' = placed \/ placed' = placed \union {o}
        /\ \/ Finish(o)
           \/ (GoTo(o, "sent") \/ GoTo(o, "taken")) /\ UNCHANGED audited
    BY <1>8 DEF HandOver, BrokerTakes, deskRows
  <2>2. ticket' \in [Tickets -> Handlers] /\ audited' \subseteq Tickets
    BY <1>1, <1>3, <2>1, TicketGoes
  <2> QED
    BY <1>1, <2>1, <2>2 DEF DeskTypeOK
<1>9. ASSUME NEW o \in Tickets, AdapterResult(o) \/ AdapterRaises(o) PROVE DeskTypeOK'
  <2>1. {<<o, "submit_attempt", "allowed">>} \subseteq DecisionRows
    BY DEF DecisionRows
  <2>2. /\ decisions' \subseteq DecisionRows /\ Finish(o)
        /\ UNCHANGED <<placed, filled, halt, exposureLimit, shadowed>>
    BY <1>1, <1>2, <1>9, <2>1 DEF AdapterResult, AdapterRaises, deskRows
  <2> QED
    BY <1>1, <1>3, <2>2 DEF DeskTypeOK, DecisionRows
<1>10. ASSUME NEW o \in Tickets, OrderFills(o) PROVE DeskTypeOK'
  BY <1>1, <1>10 DEF OrderFills, deskRows, DeskTypeOK
<1>11. CASE RaiseHalt
  BY <1>1, <1>11 DEF RaiseHalt, DeskTypeOK
<1>12. CASE LiftHalt
  <2>1. PICK h \in 1..HaltRows :
           /\ halt' = [halt EXCEPT ![h] = "resolved"]
           /\ shadowed' = IF ActiveHalts \subseteq {h} THEN {} ELSE shadowed
    BY <1>12 DEF LiftHalt
  <2>2. UNCHANGED <<ticket, placed, filled, exposureLimit, decisions, audited>>
    BY <1>12 DEF LiftHalt
  <2>3. shadowed' \subseteq Tickets
    BY <1>1, <2>1
  <2>4. halt' \in [1..HaltRows -> {"absent", "active", "resolved"}]
    BY <1>1, <2>1
  <2> QED
    BY <1>1, <2>2, <2>3, <2>4 DEF DeskTypeOK
<1>13. CASE ConfigureLimit
  BY <1>1, <1>13 DEF ConfigureLimit, DeskTypeOK
<1>14. CASE UNCHANGED deskVars
  BY <1>1, <1>14 DEF deskVars, DeskTypeOK
<1> QED
  BY <1>4, <1>5, <1>6, <1>7, <1>8, <1>9, <1>10, <1>11, <1>12, <1>13, <1>14 DEF DeskNext

LEMMA DeskStarts == DeskInit => DeskTypeOK
BY DEF DeskInit, DeskTypeOK, Handlers

(* The connection: a hold is never longer than the one of contention.      *)
LEMMA ConnShapes == ConnTypeOK /\ [ConnNext]_connVars => ConnTypeOK'
<1> SUFFICES ASSUME ConnTypeOK, [ConnNext]_connVars PROVE ConnTypeOK'
  OBVIOUS
<1>1. /\ ContentionHold \in Nat \ {0} /\ ShortHold \in 0..ContentionHold
      /\ ContentionHold \in 0..ContentionHold /\ 0 \in 0..ContentionHold
  BY ConnectionAssumption
<1>2. ASSUME NEW kind, RecordFailure(kind)
      PROVE  report' \in Reports /\ errorKept' \in BOOLEAN /\ hold' \in 0..ContentionHold
  <2>1. CooldownAfter(kind) \in 0..ContentionHold
    BY <1>1 DEF CooldownAfter
  <2> QED
    BY <1>2, <2>1 DEF RecordFailure, Reports, ConnTypeOK
<1>3. CASE ReadSucceeds
  BY <1>1, <1>3 DEF ReadSucceeds, ConnTypeOK, Reports
<1>4. CASE ReadFails
  <2>1. /\ socket' = "none" /\ tws' = tws
        /\ \E kind \in {"busy", "other"} : RecordFailure(kind)
    BY <1>4 DEF ReadFails
  <2> QED
    BY <1>2, <2>1 DEF ConnTypeOK
<1>5. CASE ConnectFails
  BY <1>2, <1>5 DEF ConnectFails, ConnTypeOK
<1>6. CASE ReadRefused
  BY <1>6 DEF ReadRefused, RecordRefusal, ConnTypeOK, Reports
<1>7. CASE OrderFails \/ Disconnect
  BY <1>7 DEF OrderFails, Disconnect, ConnTypeOK, Reports
<1>8. CASE TwsChanges
  BY <1>8 DEF TwsChanges, ConnTypeOK
<1>9. CASE Tick
  BY <1>1, <1>9 DEF Tick, ConnTypeOK
<1>10. CASE UNCHANGED connVars
  BY <1>10 DEF connVars, ConnTypeOK
<1> QED
  BY <1>3, <1>4, <1>5, <1>6, <1>7, <1>8, <1>9, <1>10 DEF ConnNext, Reads

LEMMA ConnStart == ConnInit => ConnTypeOK
<1>1. 0 \in 0..ContentionHold
  BY ConnectionAssumption
<1> QED
  BY <1>1 DEF ConnInit, ConnTypeOK, Reports

(* The books.                                                              *)
BooksShapes ==
    /\ BooksInv
    /\ Len(fills) <= MaxFills
    /\ \A row \in staged : row.pnl \in DayPnls
    /\ snapshots \in Seq(DayPnls) /\ Len(snapshots) <= MaxSnapshots

LEMMA SumOfPnls ==
  ASSUME NEW pnls \in Seq(DayPnls)
  PROVE  SumOfKnown(pnls) \in DayPnls
<1> DEFINE K == Values(pnls)
           f == [k \in K |-> pnls[k].value]
           W(g) == g = [s \in SUBSET K |->
                          IF s = {} THEN 0 ELSE pnls[Picked(s)].value + g[s \ {Picked(s)}]]
           h == CHOOSE g : W(g)
<1>1. IsFiniteSet(K) /\ K \subseteq 1..Len(pnls)
  <2>1. 1 \in Int /\ Len(pnls) \in Int
    OBVIOUS
  <2>2. IsFiniteSet(1..Len(pnls))
    BY <2>1, FS_Interval
  <2> QED
    BY <2>2, FS_Subset DEF Values
<1>2. \A k \in K : f[k] \in Int /\ f[k] = pnls[k].value
  <2> SUFFICES ASSUME NEW k \in K PROVE f[k] \in Int /\ f[k] = pnls[k].value
    OBVIOUS
  <2>1. pnls[k] \in DayPnls
    BY <1>1
  <2> QED
    BY <2>1 DEF DayPnls
<1> HIDE DEF f, K
<1>3. \A s \in SUBSET K : s # {} => f[Picked(s)] = pnls[Picked(s)].value
  BY <1>2, PickedIsIn
<1>4. PICK g : Adds(f, g, K)
  BY <1>1, <1>2, AddsExists
<1>5. W(g)
  BY <1>3, <1>4 DEF Adds
<1>6. W(h)
  BY <1>5
<1>7. MapThenSumSet(LAMBDA k : pnls[k].value, K) = h[K]
  BY DEF MapThenSumSet, MapThenFoldSet, Picked
<1> HIDE DEF h
<1>8. Adds(f, h, K)
  BY <1>3, <1>6 DEF Adds
<1>9. SumFunctionOnSet(f, K) = h[K]
  <2>1. (\A k \in K : f[k] \in Int) /\ K \in SUBSET K
    BY <1>2
  <2> QED
    BY <1>1, <1>8, <2>1, SumOfSubset
<1>10. SumFunctionOnSet(f, K) \in Int
  BY <1>1, <1>2, SumIsInt
<1>11. SumOfKnown(pnls) = NoPnl \/ SumOfKnown(pnls) = [known |-> TRUE, value |-> h[K]]
  BY <1>7 DEF SumOfKnown, K
<1>12. h[K] \in Int
  BY <1>9, <1>10
<1>13. NoPnl \in DayPnls /\ [known |-> TRUE, value |-> h[K]] \in DayPnls
  BY <1>12 DEF NoPnl, DayPnls
<1> QED
  BY <1>11, <1>13

LEMMA RealisedPnl ==
  ASSUME NEW fill \in Fills
  PROVE  Realised(fill) \in DayPnls
<1>1. fill.gain \in Int
  BY BooksAssumption DEF Fills
<1>2. NoPnl \in DayPnls /\ [known |-> TRUE, value |-> fill.gain] \in DayPnls
  BY <1>1 DEF NoPnl, DayPnls
<1> QED
  BY <1>2 DEF Realised

LEMMA ClosedPnl == BooksInv => ClosedSoFar \in DayPnls
<1> SUFFICES ASSUME BooksInv PROVE ClosedSoFar \in DayPnls
  OBVIOUS
<1> DEFINE pnls == [k \in 1..Len(fills) |-> Realised(fills[k])]
<1>1. fills \in Seq(Fills) /\ Len(fills) \in Nat
  BY DEF BooksInv
<1>2. \A k \in 1..Len(fills) : Realised(fills[k]) \in DayPnls
  <2> SUFFICES ASSUME NEW k \in 1..Len(fills) PROVE Realised(fills[k]) \in DayPnls
    OBVIOUS
  <2>1. fills[k] \in Fills
    BY <1>1
  <2> QED
    BY <2>1, RealisedPnl
<1>3. pnls \in [1..Len(fills) -> DayPnls]
  BY <1>2
<1>4. pnls \in Seq(DayPnls)
  <2> HIDE DEF pnls
  <2> QED
    BY <1>1, <1>3
<1> HIDE DEF pnls
<1>5. SumOfKnown(pnls) \in DayPnls
  BY <1>4, SumOfPnls
<1> QED
  BY <1>5 DEF ClosedSoFar, pnls

LEMMA BooksShaped == BooksShapes => BooksTypeOK
<1> SUFFICES ASSUME BooksShapes PROVE BooksTypeOK
  OBVIOUS
<1>1. \A b \in Ingestions :
         /\ ingestion[b].stage \in {"idle", "fetched", "added", "acknowledged", "failed"}
         /\ ingestion[b].fetched \in Seq(Fills)
  BY DEF BooksShapes, BooksInv, IngestionStates
<1> QED
  BY <1>1 DEF BooksShapes, BooksInv, BooksTypeOK

LEMMA BooksStarts == BooksInit => BooksShapes
<1> SUFFICES ASSUME BooksInit PROVE BooksShapes
  OBVIOUS
<1>1. BooksInv
  BY BooksStart
<1>2. fills = <<>> /\ staged = {} /\ snapshots = <<>>
  BY DEF BooksInit
<1> QED
  BY <1>1, <1>2, BooksAssumption DEF BooksShapes

LEMMA BooksBound ==
  ASSUME BooksShapes, [BooksNext]_booksVars
  PROVE  BooksShapes'
<1>1. /\ BooksInv /\ fills \in Seq(Fills) /\ Len(fills) <= MaxFills
      /\ ingestion \in [Ingestions -> IngestionStates]
      /\ \A row \in staged : row.pnl \in DayPnls
      /\ snapshots \in Seq(DayPnls) /\ Len(snapshots) <= MaxSnapshots
      /\ MaxFills \in Nat /\ MaxSnapshots \in Nat
  BY BooksAssumption DEF BooksShapes, BooksInv
<1>2. BooksInv'
  BY <1>1, BooksInductive
<1>3. CASE UNCHANGED <<fills, staged, snapshots>>
  BY <1>1, <1>2, <1>3 DEF BooksShapes
<1>4. ASSUME NEW b \in Ingestions, CommitRows(b) PROVE BooksShapes'
  <2> DEFINE rows == ingestion[b].pending
  <2>1. rows \in PendingRows
    BY <1>1 DEF IngestionStates
  <2>2. \A k \in DOMAIN rows : rows[k].pnl \in DayPnls
    BY <2>1 DEF PendingRows
  <2>3. staged' = staged \union {rows[k] : k \in DOMAIN rows} /\ UNCHANGED <<fills, snapshots>>
    BY <1>4 DEF CommitRows
  <2> HIDE DEF rows
  <2>4. \A row \in staged' : row.pnl \in DayPnls
    BY <1>1, <2>2, <2>3
  <2> QED
    BY <1>1, <1>2, <2>3, <2>4 DEF BooksShapes
<1>5. CASE CaptureSnapshot
  <2>1. PICK pnl \in {ClosedSoFar, NoPnl} : snapshots' = Append(snapshots, pnl)
    BY <1>5 DEF CaptureSnapshot
  <2>2. pnl \in DayPnls
    <3>1. NoPnl \in DayPnls
      BY DEF NoPnl, DayPnls
    <3> QED
      BY <1>1, <3>1, ClosedPnl
  <2>3. Len(snapshots) < MaxSnapshots /\ UNCHANGED <<fills, staged>>
    BY <1>5 DEF CaptureSnapshot
  <2>4. snapshots' \in Seq(DayPnls) /\ Len(snapshots') = Len(snapshots) + 1
        /\ Len(snapshots) \in Nat
    BY <1>1, <2>1, <2>2
  <2>5. Len(snapshots') <= MaxSnapshots
    BY <1>1, <2>3, <2>4
  <2> QED
    BY <1>1, <1>2, <2>3, <2>4, <2>5 DEF BooksShapes
<1>6. CASE Fill
  <2>1. PICK fill \in Fills : fills' = Append(fills, fill)
    BY <1>6 DEF Fill
  <2>2. Len(fills) < MaxFills /\ UNCHANGED <<snapshots, staged>>
    BY <1>6 DEF Fill
  <2>3. Len(fills') = Len(fills) + 1 /\ Len(fills) \in Nat
    BY <1>1, <2>1
  <2>4. Len(fills') <= MaxFills
    BY <1>1, <2>2, <2>3
  <2> QED
    BY <1>1, <1>2, <2>2, <2>4 DEF BooksShapes
<1>7. ASSUME NEW k \in 1..Len(fills), ReportCommission(k) PROVE BooksShapes'
  <2>1. Len(fills') = Len(fills) /\ UNCHANGED <<snapshots, staged>>
    BY <1>1, <1>7 DEF ReportCommission
  <2> QED
    BY <1>1, <1>2, <2>1 DEF BooksShapes
<1>8. ASSUME NEW b \in Ingestions, FetchFills(b) \/ AddRows(b) \/ FailIngestion(b)
      PROVE  UNCHANGED <<fills, staged, snapshots>>
  BY <1>8 DEF FetchFills, AddRows, FailIngestion
<1>9. CASE UNCHANGED booksVars
  BY <1>3, <1>9 DEF booksVars
<1> QED
  BY <1>3, <1>4, <1>5, <1>6, <1>7, <1>8, <1>9 DEF BooksNext

(* The files: the log is never longer than the entries it keeps.           *)
LogBound ==
    /\ FileInv
    /\ Len(runLog.store) <= MaxEntries
    /\ \A w \in Writers : writer[w] \in Appending => Len(writer[w].store) <= MaxEntries

LEMMA NewestBound ==
  ASSUME NEW entries \in Seq(Writers)
  PROVE  Len(Newest(entries)) <= MaxEntries
<1>1. MaxEntries \in Nat \ {0} /\ Len(entries) \in Nat
  BY FileAssumption
<1>2. CASE Len(entries) > MaxEntries
  <2> DEFINE a == Len(entries) - MaxEntries + 1
             b == Len(entries)
  <2>1. a \in 1..b /\ b \in Nat /\ b - a + 1 = MaxEntries
    BY <1>1, <1>2
  <2>2. Len(SubSeq(entries, a, b)) = b - a + 1
    <3> HIDE DEF a
    <3>1. Len(SubSeq(entries, a, b)) = IF a <= b THEN b - a + 1 ELSE 0
      BY <2>1
    <3> QED
      BY <2>1, <3>1
  <2>3. Newest(entries) = SubSeq(entries, a, b)
    BY <1>2 DEF Newest
  <2> HIDE DEF a, b
  <2> QED
    BY <1>1, <2>1, <2>2, <2>3
<1>3. CASE ~ (Len(entries) > MaxEntries)
  BY <1>1, <1>3 DEF Newest
<1> QED
  BY <1>2, <1>3

LEMMA LogShaped == LogBound => FileTypeOK
<1> SUFFICES ASSUME LogBound PROVE FileTypeOK
  OBVIOUS
<1>1. FileShapes
  BY DEF LogBound, FileInv
<1>2. \A w \in Writers :
         /\ writer[w].stage \in {"idle", "read", "truncated", "done", "failed"}
         /\ writer[w].file \in Files
  BY <1>1 DEF FileShapes, WriterStates, Resting, Upserting, Appending, Files
<1> QED
  BY <1>1, <1>2 DEF LogBound, FileShapes, FileTypeOK

LEMMA LogStarts == FileInit => LogBound
<1> SUFFICES ASSUME FileInit PROVE LogBound
  OBVIOUS
<1>1. FileInv
  BY FileStart
<1>2. \A w \in Writers : writer[w].stage = "idle"
  BY DEF FileInit
<1>3. runLog.store = <<>>
  BY DEF FileInit
<1> QED
  BY <1>1, <1>2, <1>3, FileAssumption DEF LogBound, Appending

LEMMA LogBounded ==
  ASSUME LogBound, [FileNext]_fileVars
  PROVE  LogBound'
<1>1. /\ FileInv /\ FileShapes /\ writer \in [Writers -> WriterStates]
      /\ Len(runLog.store) <= MaxEntries
      /\ \A w \in Writers : writer[w] \in Appending => Len(writer[w].store) <= MaxEntries
  BY DEF LogBound, FileInv, FileShapes
<1>2. FileInv' /\ FileShapes'
  BY <1>1, FileInductive DEF FileInv
<1>3. CASE UNCHANGED fileVars
  BY <1>1, <1>2, <1>3 DEF LogBound, fileVars
<1>4. ASSUME NEW w \in Writers, NEW row, writer' = [writer EXCEPT ![w] = row],
             row \in Appending => Len(row.store) <= MaxEntries,
             Len(runLog'.store) <= MaxEntries
      PROVE  LogBound'
  <2>1. writer'[w] = row /\ \A v \in Writers \ {w} : writer'[v] = writer[v]
    BY <1>1, <1>4
  <2> QED
    BY <1>1, <1>2, <1>4, <2>1 DEF LogBound
<1>5. ASSUME NEW w \in Writers, NEW e \in Executions, ReadForUpsert(w, e) PROVE LogBound'
  <2> DEFINE row == [stage |-> "read", file |-> "journal", execution |-> e,
                     store |-> [ReadJournal EXCEPT ![e] = w]]
  <2>1. writer' = [writer EXCEPT ![w] = row] /\ runLog' = runLog
    BY <1>5 DEF ReadForUpsert
  <2>2. row \notin Appending
    BY DEF Appending
  <2> HIDE DEF row
  <2> QED
    BY <1>1, <1>4, <2>1, <2>2
<1>6. ASSUME NEW w \in Writers, ReadForAppend(w) PROVE LogBound'
  <2> DEFINE row == [stage |-> "read", file |-> "log", store |-> Newest(Append(ReadRuns, w))]
  <2>1. writer' = [writer EXCEPT ![w] = row] /\ runLog' = runLog
    BY <1>6 DEF ReadForAppend
  <2>2. ReadRuns \in Seq(Writers)
    BY <1>1 DEF FileShapes, ReadRuns
  <2>3. Append(ReadRuns, w) \in Seq(Writers)
    BY <2>2
  <2>4. Len(row.store) <= MaxEntries
    BY <2>3, NewestBound
  <2> HIDE DEF row
  <2> QED
    BY <1>1, <1>4, <2>1, <2>4
<1>7. ASSUME NEW w \in Writers, Truncate(w) PROVE LogBound'
  <2> DEFINE row == [writer[w] EXCEPT !.stage = "truncated"]
  <2>1. writer' = [writer EXCEPT ![w] = row] /\ writer[w].stage = "read"
    BY <1>1, <1>7 DEF Truncate
  <2>2. runLog'.store = runLog.store
    BY <1>1, <1>7 DEF Truncate, FileShapes
  <2>3. writer[w] \in Upserting \/ writer[w] \in Appending
    BY <1>1, <2>1 DEF WriterStates, Resting
  <2>4. CASE writer[w] \in Upserting
    <3>1. row.file = "journal"
      BY <2>4 DEF Upserting
    <3>2. row \notin Appending
      BY <3>1 DEF Appending
    <3> HIDE DEF row
    <3> QED
      BY <1>1, <1>4, <2>1, <2>2, <3>2
  <2>5. CASE writer[w] \in Appending
    <3>1. row.store = writer[w].store /\ Len(writer[w].store) <= MaxEntries
      BY <1>1, <2>5 DEF Appending
    <3> HIDE DEF row
    <3> QED
      BY <1>1, <1>4, <2>1, <2>2, <3>1
  <2> QED
    BY <2>3, <2>4, <2>5
<1>8. ASSUME NEW w \in Writers, WriteJournal(w) PROVE LogBound'
  <2> DEFINE row == [stage |-> "done", file |-> "journal"]
  <2>1. writer' = [writer EXCEPT ![w] = row] /\ runLog' = runLog
    BY <1>8 DEF WriteJournal
  <2>2. row.stage = "done"
    OBVIOUS
  <2> HIDE DEF row
  <2>3. row \notin Appending
    BY <2>2 DEF Appending
  <2> QED
    BY <1>1, <1>4, <2>1, <2>3
<1>9. ASSUME NEW w \in Writers, WriteLog(w) PROVE LogBound'
  <2> DEFINE row == [stage |-> "done", file |-> "log"]
  <2>1. /\ writer' = [writer EXCEPT ![w] = row] /\ runLog'.store = writer[w].store
        /\ writer[w].stage = "truncated" /\ writer[w].file = "log"
    BY <1>9 DEF WriteLog
  <2>2. writer[w] \in Appending
    BY <1>1, <2>1, WriterRow
  <2>3. row.stage = "done"
    OBVIOUS
  <2> HIDE DEF row
  <2>4. row \notin Appending
    BY <2>3 DEF Appending
  <2> QED
    BY <1>1, <1>4, <2>1, <2>2, <2>4
<1>10. ASSUME NEW w \in Writers, CutShort(w) PROVE LogBound'
  <2> DEFINE row == [stage |-> "failed", file |-> writer[w].file]
  <2>1. writer' = [writer EXCEPT ![w] = row] /\ runLog' = runLog
    BY <1>1, <1>10 DEF CutShort
  <2>2. row.stage = "failed"
    OBVIOUS
  <2> HIDE DEF row
  <2>3. row \notin Appending
    BY <2>2 DEF Appending
  <2> QED
    BY <1>1, <1>4, <2>1, <2>3
<1> QED
  BY <1>3, <1>5, <1>6, <1>7, <1>8, <1>9, <1>10 DEF FileNext

(* The queue: a refresh flushes no more rows than there may be.            *)
QueueBound ==
    /\ QueueInv
    /\ Len(queue) + Len(refresh.added) <= MaxRows
    /\ stale <= Len(queue)

LEMMA QueueShaped == QueueBound => QueueTypeOK
<1> SUFFICES ASSUME QueueBound PROVE QueueTypeOK
  OBVIOUS
<1>1. /\ queue \in Seq(CandidateRows) /\ stale \in Nat
      /\ refresh \in Refreshes /\ hygiene \in Hygienes /\ picked \subseteq 1..Len(queue)
      /\ Len(queue) + Len(refresh.added) <= MaxRows /\ stale <= Len(queue)
  BY DEF QueueBound, QueueInv
<1>2. /\ Len(queue) \in Nat /\ DOMAIN queue = 1..Len(queue) /\ MaxRows \in Nat
  BY <1>1, QueueAssumption
<1>3. refresh.added \in Seq(CandidateRows) /\ refresh.on \in BOOLEAN
  BY <1>1 DEF Refreshes
<1>4. Len(refresh.added) \in Nat
  BY <1>3
<1>5. Len(queue) <= MaxRows /\ stale \in 0..Len(queue)
  BY <1>1, <1>2, <1>4
<1>6. hygiene.stage \in {"idle", "loaded", "selected"} /\ hygiene.targets \subseteq 1..Len(queue)
  BY <1>1 DEF Hygienes
<1> QED
  BY <1>1, <1>2, <1>3, <1>5, <1>6 DEF QueueTypeOK

LEMMA QueueStarts == QueueInit => QueueBound
<1> SUFFICES ASSUME QueueInit PROVE QueueBound
  OBVIOUS
<1>1. QueueInv
  BY QueueStart
<1>2. queue = <<>> /\ stale = 0 /\ refresh.added = <<>>
  BY DEF QueueInit, NoRefresh
<1> QED
  BY <1>1, <1>2, QueueAssumption DEF QueueBound

LEMMA QueueBounded ==
  ASSUME QueueBound, [QueueNext]_queueVars
  PROVE  QueueBound'
<1>1. /\ QueueInv /\ queue \in Seq(CandidateRows) /\ stale \in Nat /\ refresh \in Refreshes
      /\ picked \subseteq 1..Len(queue) /\ MaxRows \in Nat
      /\ Len(queue) + Len(refresh.added) <= MaxRows /\ stale <= Len(queue)
  BY QueueAssumption DEF QueueBound, QueueInv
<1>2. QueueInv'
  BY <1>1, QueueInductive
<1>3. refresh.added \in Seq(CandidateRows)
  BY <1>1 DEF Refreshes
<1>4. Len(queue) \in Nat /\ Len(refresh.added) \in Nat
  BY <1>1, <1>3
<1>5. ASSUME Len(queue') = Len(queue), refresh' = refresh, stale' = stale
      PROVE  QueueBound'
  BY <1>1, <1>2, <1>5 DEF QueueBound
<1>6. CASE BeginRefresh
  <2>1. refresh'.added = <<>> /\ UNCHANGED <<queue, stale>>
    BY <1>6 DEF BeginRefresh, NoRefresh
  <2> QED
    BY <1>1, <1>2, <1>4, <2>1 DEF QueueBound
<1>7. CASE RefreshSymbol
  <2>1. PICK added : /\ refresh' = [refresh EXCEPT !.next = @ + 1, !.added = added]
                     /\ \/ added = refresh.added
                        \/ /\ added = Append(refresh.added, RefreshedFor(Allowlist[refresh.next]))
                           /\ ~ (Len(queue) + Len(refresh.added) >= MaxRows)
    BY <1>7 DEF RefreshSymbol
  <2>2. UNCHANGED <<queue, stale>>
    BY <1>7 DEF RefreshSymbol
  <2>3. refresh'.added = added
    BY <1>1, <2>1 DEF Refreshes
  <2>4. CASE added = refresh.added
    BY <1>1, <1>2, <2>2, <2>3, <2>4 DEF QueueBound
  <2>5. CASE /\ added = Append(refresh.added, RefreshedFor(Allowlist[refresh.next]))
             /\ ~ (Len(queue) + Len(refresh.added) >= MaxRows)
    <3> DEFINE row == RefreshedFor(Allowlist[refresh.next])
               n == Len(refresh.added)
    <3>1. added = Append(refresh.added, row)
      BY <2>5
    <3> HIDE DEF row
    <3>2. Len(added) = n + 1
      BY <1>3, <3>1
    <3>3. ~ (Len(queue) + n >= MaxRows) /\ n \in Nat
      BY <1>4, <2>5
    <3> HIDE DEF n
    <3>4. Len(queue) + Len(added) <= MaxRows
      BY <1>1, <1>4, <3>2, <3>3
    <3> QED
      BY <1>1, <1>2, <2>2, <2>3, <3>4 DEF QueueBound
  <2> QED
    BY <2>1, <2>4, <2>5
<1>8. CASE EndRefresh
  <2>1. /\ queue' = queue \/ queue' = queue \o refresh.added
        /\ refresh'.added = <<>> /\ stale' = stale
    BY <1>8 DEF EndRefresh, NoRefresh
  <2>2. /\ Len(queue') <= Len(queue) + Len(refresh.added)
        /\ Len(queue') >= Len(queue) /\ Len(queue') \in Nat
    <3>1. Len(queue \o refresh.added) = Len(queue) + Len(refresh.added)
      BY <1>1, <1>3
    <3> QED
      BY <1>4, <2>1, <3>1
  <2>3. Len(queue') + Len(refresh'.added) <= MaxRows /\ stale' <= Len(queue')
    <3>1. Len(refresh'.added) = 0
      BY <2>1
    <3> QED
      BY <1>1, <1>4, <2>1, <2>2, <3>1
  <2> QED
    BY <1>2, <2>3 DEF QueueBound
<1>9. CASE LoadHygiene \/ SelectNoise \/ DropHygiene \/ RankQueue
  BY <1>5, <1>9 DEF LoadHygiene, SelectNoise, DropHygiene, RankQueue
<1>10. CASE CommitHygiene
  <2>1. /\ queue' = [n \in DOMAIN queue |->
                       IF n \in hygiene.targets THEN [queue[n] EXCEPT !.status = "expired"]
                                                ELSE queue[n]]
        /\ UNCHANGED <<refresh, stale>>
    BY <1>10 DEF CommitHygiene
  <2>2. DOMAIN queue' = 1..Len(queue) /\ queue' \in Seq(CandidateRows)
    BY <1>1, <1>2, <2>1 DEF QueueInv
  <2>3. Len(queue') = Len(queue)
    BY <1>4, <2>2
  <2> QED
    BY <1>5, <2>1, <2>3
<1>11. ASSUME NEW n \in picked, SubmitPicked(n) PROVE QueueBound'
  <2>1. /\ queue' = queue \/ queue' = [queue EXCEPT ![n].status = "paper_submitted"]
        /\ UNCHANGED <<refresh, stale>>
    BY <1>11 DEF SubmitPicked
  <2>2. Len(queue') = Len(queue)
    BY <1>1, <2>1
  <2> QED
    BY <1>5, <2>1, <2>2
<1>12. CASE AddSignal
  <2>1. PICK row : queue' = Append(queue, row)
    BY <1>12 DEF AddSignal
  <2>2. Len(queue) + Len(refresh.added) < MaxRows /\ UNCHANGED <<refresh, stale>>
    BY <1>12 DEF AddSignal
  <2>3. Len(queue') = Len(queue) + 1
    BY <1>1, <2>1
  <2>4. Len(queue') + Len(refresh'.added) <= MaxRows /\ stale' <= Len(queue')
    <3> DEFINE n == Len(refresh.added)
    <3>1. n \in Nat /\ Len(queue) + n < MaxRows /\ Len(refresh'.added) = n
      BY <1>4, <2>2
    <3> HIDE DEF n
    <3> QED
      BY <1>1, <1>4, <2>2, <2>3, <3>1
  <2> QED
    BY <1>2, <2>4 DEF QueueBound
<1>13. CASE GrowStale
  <2>1. stale < Len(queue) /\ stale' = stale + 1 /\ UNCHANGED <<queue, refresh>>
    BY <1>13 DEF GrowStale
  <2>2. stale' <= Len(queue')
    BY <1>1, <1>4, <2>1
  <2> QED
    BY <1>1, <1>2, <2>1, <2>2 DEF QueueBound
<1>14. CASE UNCHANGED queueVars
  BY <1>5, <1>14 DEF queueVars
<1> QED
  BY <1>6, <1>7, <1>8, <1>9, <1>10, <1>11, <1>12, <1>13, <1>14 DEF QueueNext

(* The walk-forward validation.                                            *)
WalkBound == WalkInv /\ folds \in 1..MaxFolds /\ Len(trades) <= MaxTrades

LEMMA WalkStarts == WalkInit => WalkBound
<1> SUFFICES ASSUME WalkInit PROVE WalkBound
  OBVIOUS
<1>1. WalkInv
  BY WalkStart
<1>2. folds \in 1..MaxFolds /\ trades = <<>>
  BY DEF WalkInit
<1> QED
  BY <1>1, <1>2, WalkForwardAssumption DEF WalkBound

LEMMA WalkBounded ==
  ASSUME WalkBound, [WalkNext]_walkVars
  PROVE  WalkBound'
<1>1. /\ WalkInv /\ trades \in Seq(ClosedTrades) /\ folds \in 1..MaxFolds
      /\ Len(trades) <= MaxTrades /\ MaxTrades \in Nat
  BY WalkForwardAssumption DEF WalkBound, WalkInv
<1>2. WalkInv'
  BY <1>1, WalkInductive
<1>3. CASE WalkNext
  <2>1. PICK t \in ClosedTrades : trades' = Append(trades, t)
    BY <1>3 DEF WalkNext, ReadTrade
  <2>2. Len(trades) < MaxTrades /\ folds' = folds
    BY <1>3 DEF WalkNext, ReadTrade
  <2>3. Len(trades') = Len(trades) + 1 /\ Len(trades) \in Nat
    BY <1>1, <2>1
  <2>4. Len(trades') <= MaxTrades
    BY <1>1, <2>2, <2>3
  <2> QED
    BY <1>1, <1>2, <2>2, <2>4 DEF WalkBound
<1>4. CASE UNCHANGED walkVars
  BY <1>1, <1>2, <1>4 DEF walkVars, WalkBound
<1> QED
  BY <1>3, <1>4

(* A backtest: any number of replays keep the shapes.                      *)
Fetching == [stage : {"idle", "loaded", "done"}, label : BOOLEAN,
             summary : Summaries, rows : SUBSET Outputs]

LEMMA ReplayShapes ==
  ASSUME BacktestTypeOK, NEW r \in Replays,
         \/ LoadRun(r) \/ ClearOutputs(r) \/ MarkRunning(r) \/ ReplayPart(r)
         \/ FinishReplay(r) \/ FailReplay(r) \/ LoseReplay(r)
  PROVE  BacktestTypeOK'
<1>1. /\ replay[r] \in ReplayStates /\ replay \in [Replays -> ReplayStates]
      /\ backtest \in [status : RunStatuses, summary : Summaries]
      /\ outputs \subseteq Outputs /\ review \in [Reviews -> Fetching]
  BY DEF BacktestTypeOK, ReplayStates, Stages, RunStatuses, Fetching
<1>2. ASSUME NEW s \in ReplayStates, replay' = [replay EXCEPT ![r] = s],
             backtest' \in [status : RunStatuses, summary : Summaries],
             outputs' \subseteq Outputs, UNCHANGED review
      PROVE  BacktestTypeOK'
  BY <1>1, <1>2 DEF BacktestTypeOK, ReplayStates, Stages, RunStatuses, Fetching
<1>3. ASSUME NEW stage \in Stages, To(r, stage),
             backtest' \in [status : RunStatuses, summary : Summaries],
             outputs' \subseteq Outputs, UNCHANGED review
      PROVE  BacktestTypeOK'
  <2> DEFINE s == [replay[r] EXCEPT !.stage = stage]
  <2>1. s \in ReplayStates
    BY <1>1 DEF ReplayStates
  <2>2. replay' = [replay EXCEPT ![r] = s]
    BY <1>3 DEF To
  <2> HIDE DEF s
  <2> QED
    BY <1>2, <1>3, <2>1, <2>2
<1>4. ASSUME replay[r].part <= Parts PROVE <<r, replay[r].part>> \in Outputs
  BY <1>1, <1>4, BacktestAssumption DEF ReplayStates, Outputs
<1>5. CASE LoadRun(r)
  BY <1>1, <1>3, <1>5 DEF LoadRun, Stages
<1>6. CASE ClearOutputs(r)
  BY <1>1, <1>3, <1>6 DEF ClearOutputs, Cleared, Stages
<1>7. CASE MarkRunning(r)
  <2>1. backtest' \in [status : RunStatuses, summary : Summaries]
    BY <1>1, <1>7 DEF MarkRunning, RunStatuses
  <2> QED
    BY <1>1, <1>3, <1>7, <2>1 DEF MarkRunning, Stages
<1>8. CASE ReplayPart(r)
  <2>1. PICK fetched \in BOOLEAN, traded \in BOOLEAN :
           /\ outputs' = IF traded THEN outputs \union {<<r, replay[r].part>>} ELSE outputs
           /\ replay' = [replay EXCEPT ![r] =
                 [stage |-> "replaying", part |-> replay[r].part + 1,
                  loaded |-> replay[r].loaded \/ fetched]]
    BY <1>8, Zenon DEF ReplayPart
  <2>2. replay[r].part <= Parts /\ UNCHANGED <<backtest, review>>
    BY <1>8 DEF ReplayPart
  <2> DEFINE s == [stage |-> "replaying", part |-> replay[r].part + 1,
                   loaded |-> replay[r].loaded \/ fetched]
  <2>3. replay[r].part + 1 \in 1..(Parts + 1)
    BY <1>1, <2>2, BacktestAssumption DEF ReplayStates
  <2>4. s \in ReplayStates
    BY <2>3 DEF ReplayStates, Stages
  <2>5. replay' = [replay EXCEPT ![r] = s]
    BY <2>1
  <2> HIDE DEF s
  <2>6. outputs' \subseteq Outputs
    BY <1>1, <1>4, <2>1, <2>2
  <2> QED
    BY <1>1, <1>2, <2>2, <2>4, <2>5, <2>6
<1>9. CASE FinishReplay(r)
  <2>1. backtest' \in [status : RunStatuses, summary : Summaries]
    BY <1>9 DEF FinishReplay, RunStatuses, Summaries, NoSummary
  <2> QED
    BY <1>1, <1>3, <1>9, <2>1 DEF FinishReplay, Stages
<1>10. CASE FailReplay(r)
  <2>1. backtest' \in [status : RunStatuses, summary : Summaries]
    BY <1>1, <1>10 DEF FailReplay, RunStatuses
  <2>2. outputs' \subseteq Outputs
    BY <1>1, <1>4, <1>10 DEF FailReplay
  <2> QED
    BY <1>3, <1>10, <2>1, <2>2 DEF FailReplay, Stages
<1>11. CASE LoseReplay(r)
  BY <1>1, <1>3, <1>11 DEF LoseReplay, Stages
<1> QED
  BY <1>5, <1>6, <1>7, <1>8, <1>9, <1>10, <1>11

LEMMA ReviewShapes ==
  ASSUME BacktestTypeOK, NEW v \in Reviews,
         LoadReview(v) \/ CommitLabel(v) \/ CommitValidation(v) \/ FailReview(v)
  PROVE  BacktestTypeOK'
<1>1. /\ review \in [Reviews -> Fetching]
      /\ backtest \in [status : RunStatuses, summary : Summaries]
      /\ outputs \subseteq Outputs
  BY DEF BacktestTypeOK, RunStatuses, Fetching
<1>2. UNCHANGED <<outputs, replay>>
  BY DEF LoadReview, CommitLabel, CommitValidation, FailReview
<1>3. review' \in [Reviews -> Fetching]
  <2>1. CASE LoadReview(v)
    BY <1>1, <2>1 DEF LoadReview, Fetching
  <2>2. CASE SetStage(v, "done")
    BY <1>1, <2>2 DEF SetStage, Fetching
  <2> QED
    BY <2>1, <2>2 DEF CommitLabel, CommitValidation, FailReview
<1>4. [NoSummary EXCEPT !.validation = v] \in Summaries
  BY DEF NoSummary, Summaries
<1>5. [review[v].summary EXCEPT !.label = v] \in Summaries
  BY <1>1 DEF Summaries, Fetching
<1>6. backtest' \in [status : RunStatuses, summary : Summaries]
  BY <1>1, <1>4, <1>5 DEF LoadReview, CommitLabel, CommitValidation, FailReview, Validated
<1> QED
  BY <1>2, <1>3, <1>6 DEF BacktestTypeOK, RunStatuses, Fetching

LEMMA BacktestShapes == BacktestTypeOK /\ [BacktestNext]_backtestVars => BacktestTypeOK'
<1> SUFFICES ASSUME BacktestTypeOK, [BacktestNext]_backtestVars PROVE BacktestTypeOK'
  OBVIOUS
<1>1. CASE BacktestNext
  BY <1>1, ReplayShapes, ReviewShapes DEF BacktestNext
<1>2. CASE UNCHANGED backtestVars
  BY <1>2 DEF backtestVars, BacktestTypeOK
<1> QED
  BY <1>1, <1>2

(* The simulator: a trade was entered at a candle that was read.           *)
Exits ==
    [reason : {"none", "stop", "target", "hold", "end_of_data"},
     side : {"none", "long", "short"}, gain : Int, against : Nat, held : 0..MaxCandles]

SimBound ==
    /\ SimInv
    /\ Len(candles) <= SlowWindow + 1
    /\ read \in 0..MaxCandles
    /\ trade.at \in 0..read
    /\ trade # NoTrade => Len(candles) > 0
    /\ exit \in Exits

LEMMA SimShaped == SimBound => SimTypeOK
<1> SUFFICES ASSUME SimBound PROVE SimTypeOK
  OBVIOUS
<1>1. /\ trade = NoTrade \/ trade \in OpenTrades
      /\ read \in 0..MaxCandles /\ trade.at \in 0..read /\ MaxCandles \in Nat
  BY SimulatorAssumption DEF SimBound, SimInv
<1>2. trade.at \in 0..MaxCandles
  BY <1>1
<1>3. trade \in [side : {"none", "long", "short"}, entry : Nat, stop : Nat,
                 target : Int, at : 0..MaxCandles]
  BY <1>1, <1>2 DEF NoTrade, OpenTrades
<1> QED
  BY <1>3 DEF SimBound, SimInv, SimTypeOK, Exits

LEMMA SimStarts == SimInit => SimBound
<1> SUFFICES ASSUME SimInit PROVE SimBound
  OBVIOUS
<1>1. SimInv
  BY SimStart
<1>2. candles = <<>> /\ read = 0 /\ trade = NoTrade /\ exit = NoExit
  BY DEF SimInit
<1>3. MaxCandles \in Nat /\ SlowWindow \in Nat
  BY SimulatorAssumption
<1>4. NoExit \in Exits
  BY <1>3 DEF NoExit, Exits
<1> QED
  BY <1>1, <1>2, <1>3, <1>4 DEF SimBound, NoTrade

LEMMA ExitTyped ==
  ASSUME NEW t \in OpenTrades, NEW c \in Shapes, NEW n \in 0..MaxCandles, t.at <= n,
         NEW reason \in {"stop", "target", "hold", "end_of_data"}
  PROVE  Exited(t, reason, c, n) \in Exits
<1>1. /\ t.entry \in Nat /\ t.stop \in Nat /\ t.target \in Int /\ t.at \in Nat
      /\ t.side \in {"long", "short"} /\ c.close \in Nat /\ MaxCandles \in Nat
  BY ShapesAre, SimulatorAssumption DEF OpenTrades
<1> DEFINE price == CASE reason = "stop" -> t.stop
                      [] reason = "target" -> t.target
                      [] OTHER -> c.close
           gain == IF t.side = "long" THEN price - t.entry ELSE t.entry - price
<1>2. price \in Int
  <2>1. CASE reason = "stop"
    BY <1>1, <2>1
  <2>2. CASE reason = "target"
    BY <1>1, <2>2
  <2>3. CASE reason \notin {"stop", "target"}
    BY <1>1, <2>3
  <2> QED
    BY <2>1, <2>2, <2>3
<1>3. Exited(t, reason, c, n) =
        [reason |-> reason, side |-> t.side, against |-> t.stop, held |-> n - t.at,
         gain |-> gain]
  BY DEF Exited
<1> HIDE DEF price
<1>4. gain \in Int
  BY <1>1, <1>2
<1>5. n - t.at \in 0..MaxCandles
  BY <1>1
<1> HIDE DEF gain
<1> QED
  BY <1>1, <1>3, <1>4, <1>5 DEF Exits

LEMMA ReadBounded ==
  ASSUME SimBound, ReadCandle
  PROVE  SimBound'
<1>1. /\ SimInv /\ candles \in Seq(Shapes) /\ Len(candles) <= SlowWindow + 1
      /\ read \in 0..MaxCandles /\ trade.at \in 0..read /\ MaxCandles \in Nat
      /\ trade = NoTrade \/ trade \in OpenTrades
      /\ SlowWindow \in Nat /\ Len(candles) \in Nat /\ exit \in Exits
  BY SimulatorAssumption DEF SimBound, SimInv
<1>2. SimInv'
  BY <1>1, ReadKeeps
<1>3. PICK c \in Shapes :
        LET cs == IF Len(candles) > SlowWindow THEN Append(Tail(candles), c)
                                               ELSE Append(candles, c)
            reason == IF trade = NoTrade THEN "none" ELSE ExitReason(trade, c, read + 1)
            left == IF reason = "none" THEN trade ELSE NoTrade
        IN  /\ candles' = cs
            /\ exit' = IF reason = "none" THEN NoExit ELSE Exited(trade, reason, c, read + 1)
            /\ trade' = IF left = NoTrade /\ Len(cs) > SlowWindow
                        THEN Entry(cs, read + 1) ELSE left
  BY DEF ReadCandle
<1> DEFINE cs == IF Len(candles) > SlowWindow THEN Append(Tail(candles), c)
                                              ELSE Append(candles, c)
           reason == IF trade = NoTrade THEN "none" ELSE ExitReason(trade, c, read + 1)
           left == IF reason = "none" THEN trade ELSE NoTrade
<1>4. read < MaxCandles /\ read' = read + 1 /\ candles' = cs
  BY <1>3 DEF ReadCandle
<1>5. Len(cs) <= SlowWindow + 1 /\ Len(cs) > 0
  <2>1. CASE Len(candles) > SlowWindow
    <3> DEFINE tail == Tail(candles)
    <3>1. tail \in Seq(Shapes) /\ Len(tail) = Len(candles) - 1
      BY <1>1, <2>1
    <3> HIDE DEF tail
    <3>2. Len(Append(tail, c)) = Len(tail) + 1
      BY <3>1
    <3>3. cs = Append(tail, c)
      BY <2>1 DEF tail
    <3> HIDE DEF cs
    <3> QED
      BY <1>1, <2>1, <3>1, <3>2, <3>3
  <2>2. CASE ~ (Len(candles) > SlowWindow)
    <3>1. cs = Append(candles, c)
      BY <2>2
    <3> HIDE DEF cs
    <3>2. Len(cs) = Len(candles) + 1
      BY <1>1, <3>1
    <3> QED
      BY <1>1, <2>2, <3>2
  <2> QED
    BY <2>1, <2>2
<1>6. /\ exit' = IF reason = "none" THEN NoExit ELSE Exited(trade, reason, c, read + 1)
      /\ trade' = IF left = NoTrade /\ Len(cs) > SlowWindow THEN Entry(cs, read + 1) ELSE left
  BY <1>3
<1> HIDE DEF cs
<1>7. read' \in 0..MaxCandles /\ read + 1 \in 0..MaxCandles /\ read' \in Nat
  BY <1>1, <1>4
<1>8. exit' \in Exits
  <2>1. CASE reason = "none"
    BY <1>1, <1>6, <2>1 DEF NoExit, Exits
  <2>2. CASE reason # "none"
    <3>1. trade \in OpenTrades /\ reason = ExitReason(trade, c, read + 1)
      BY <1>1, <2>2
    <3>2. reason \in {"stop", "target", "hold"}
      <4>1. ExitReason(trade, c, read + 1) \in {"stop", "target", "hold", "none"}
        BY DEF ExitReason
      <4> HIDE DEF reason
      <4> QED
        BY <2>2, <3>1, <4>1
    <3> HIDE DEF reason
    <3>3. trade.at <= read + 1
      BY <1>1
    <3> QED
      BY <1>6, <1>7, <2>2, <3>1, <3>2, <3>3, ExitTyped
  <2> QED
    BY <2>1, <2>2
<1>9. trade'.at \in 0..read'
  <2>1. CASE left = NoTrade /\ Len(cs) > SlowWindow
    <3>1. trade' = Entry(cs, read + 1)
      BY <1>6, <2>1
    <3>2. trade'.at = 0 \/ trade'.at = read + 1
      BY <3>1 DEF Entry, NoTrade
    <3> QED
      BY <1>4, <1>7, <3>2
  <2>2. CASE ~ (left = NoTrade /\ Len(cs) > SlowWindow)
    <3>1. trade' = NoTrade \/ trade' = trade
      BY <1>6, <2>2
    <3> QED
      BY <1>1, <1>4, <1>7, <3>1 DEF NoTrade
  <2> QED
    BY <2>1, <2>2
<1> QED
  BY <1>2, <1>4, <1>5, <1>7, <1>8, <1>9 DEF SimBound

LEMMA SimBounded ==
  ASSUME SimBound, [SimNext]_simVars
  PROVE  SimBound'
<1>1. /\ SimInv /\ candles \in Seq(Shapes) /\ read \in 0..MaxCandles /\ trade.at \in 0..read
      /\ trade = NoTrade \/ trade \in OpenTrades
  BY DEF SimBound, SimInv
<1>2. SimInv'
  BY <1>1, SimInductive
<1>3. CASE EndOfData
  <2>1. /\ exit' = Exited(trade, "end_of_data", candles[Len(candles)], read)
        /\ trade' = NoTrade /\ trade # NoTrade /\ UNCHANGED <<candles, read>>
    BY <1>3 DEF EndOfData
  <2>2. Len(candles) \in 1..Len(candles)
    <3>1. Len(candles) > 0 /\ Len(candles) \in Nat
      BY <1>1, <2>1 DEF SimBound
    <3> QED
      BY <3>1
  <2> DEFINE c == candles[Len(candles)]
  <2>3. c \in Shapes
    BY <1>1, <2>2
  <2>4. trade \in OpenTrades /\ trade.at <= read
    BY <1>1, <2>1
  <2> HIDE DEF c
  <2>5. Exited(trade, "end_of_data", c, read) \in Exits
    BY <1>1, <2>3, <2>4, ExitTyped
  <2>6. exit' \in Exits
    BY <2>1, <2>5 DEF c
  <2>7. trade'.at \in 0..read'
    BY <1>1, <2>1 DEF NoTrade
  <2> QED
    BY <1>2, <2>1, <2>6, <2>7 DEF SimBound
<1>4. CASE UNCHANGED simVars
  BY <1>2, <1>4 DEF simVars, SimBound
<1> QED
  BY <1>3, <1>4, ReadBounded DEF SimNext

(* Each component has its shapes, and the strengthening they rest on.      *)
RegistryShapes == GovernanceInv /\ DeskTypeOK /\ ConnTypeOK /\ BooksShapes /\ IdemInv
WorkShapes == JobsInv /\ PlansInv /\ QueueBound /\ TrainerInv /\ IngestInv
ReplayedShapes == SimBound /\ BacktestTypeOK /\ WalkBound
KeptShapes == AlertInv /\ LogBound
ServicesInv ==
    RegistryShapes /\ WorkShapes /\ ReplayedShapes /\ KeptShapes /\ focus \in Services

LEMMA ServicesStart == MCInit => ServicesInv
<1> SUFFICES ASSUME MCInit PROVE ServicesInv
  OBVIOUS
<1>1. /\ Init /\ DeskInit /\ ConnInit /\ BooksInit /\ IdemInit /\ JobsInit /\ PlansInit
      /\ QueueInit /\ TrainerInit /\ IngestInit /\ SimInit /\ BacktestInit /\ WalkInit
      /\ AlertInit /\ FileInit /\ focus \in Services
  BY DEF MCInit
<1>2. RegistryShapes
  BY <1>1, GovernanceStart, DeskStarts, ConnStart, BooksStarts, IdemStart DEF RegistryShapes
<1>3. WorkShapes
  BY <1>1, JobsStart, PlansStart, QueueStarts, TrainerStart, IngestStart DEF WorkShapes
<1>4. ReplayedShapes
  BY <1>1, SimStarts, BacktestStart, WalkStarts DEF ReplayedShapes, BacktestInv
<1>5. KeptShapes
  BY <1>1, AlertStart, LogStarts DEF KeptShapes
<1> QED
  BY <1>1, <1>2, <1>3, <1>4, <1>5 DEF ServicesInv

(* A step of MCNext is a step of each component, or leaves it alone.       *)
LEMMA ServiceSteps ==
  ASSUME [MCNext]_servicesVars
  PROVE  /\ [Next]_vars /\ [DeskNext]_deskVars /\ [ConnNext]_connVars
         /\ [BooksNext]_booksVars /\ [IdemNext]_idemVars /\ [JobsNext]_jobVars
         /\ [PlansNext]_planVars /\ [QueueNext]_queueVars /\ [TrainerNext]_trainerVars
         /\ [IngestNext]_ingestVars /\ [SimNext]_simVars /\ [BacktestNext]_backtestVars
         /\ [WalkNext]_walkVars /\ [AlertNext]_alertVars /\ [FileNext]_fileVars
         /\ UNCHANGED focus
<1>1. CASE MCNext
  <2>1. /\ [Next]_vars /\ [DeskNext]_deskVars /\ [ConnNext]_connVars
        /\ [BooksNext]_booksVars /\ [IdemNext]_idemVars
    BY <1>1 DEF MCNext
  <2>2. /\ [JobsNext]_jobVars /\ [PlansNext]_planVars /\ [QueueNext]_queueVars
        /\ [TrainerNext]_trainerVars /\ [IngestNext]_ingestVars
    BY <1>1 DEF MCNext, PlansStep
  <2>3. /\ [SimNext]_simVars /\ [BacktestNext]_backtestVars /\ [WalkNext]_walkVars
        /\ [AlertNext]_alertVars /\ [FileNext]_fileVars /\ UNCHANGED focus
    BY <1>1 DEF MCNext
  <2> QED
    BY <2>1, <2>2, <2>3
<1>2. CASE UNCHANGED servicesVars
  BY <1>2 DEF servicesVars
<1> QED
  BY <1>1, <1>2

LEMMA ServicesInductive == ServicesInv /\ [MCNext]_servicesVars => ServicesInv'
<1> SUFFICES ASSUME ServicesInv, [MCNext]_servicesVars PROVE ServicesInv'
  OBVIOUS
<1>1. RegistryShapes'
  BY ServiceSteps, GovernanceInductive, DeskShapes, ConnShapes, BooksBound, IdemInductive
     DEF ServicesInv, RegistryShapes
<1>2. WorkShapes'
  BY ServiceSteps, JobsInductive, PlansInductive, QueueBounded, TrainerInductive,
     IngestInductive DEF ServicesInv, WorkShapes
<1>3. ReplayedShapes'
  BY ServiceSteps, SimBounded, BacktestShapes, WalkBounded DEF ServicesInv, ReplayedShapes
<1>4. KeptShapes'
  BY ServiceSteps, AlertInductive, LogBounded DEF ServicesInv, KeptShapes
<1>5. focus' \in Services
  BY ServiceSteps DEF ServicesInv, Services
<1> QED
  BY <1>1, <1>2, <1>3, <1>4, <1>5 DEF ServicesInv

(* Every variable of every component keeps its shape, for any number of    *)
(* requests, replays and orders in progress: no handler is at a stage that *)
(* its code does not have, the worker log is never longer than the entries *)
(* it keeps (WorkerRunLogService) and no hold of the broker's connection   *)
(* longer than that of a client id in use (TwsBroker).                     *)
THEOREM ServicesKeepShapes == MCSpec => []ServicesTypeOK
<1>1. ServicesInv => ServicesTypeOK
  <2> SUFFICES ASSUME ServicesInv PROVE ServicesTypeOK
    OBVIOUS
  <2>1. TypeOK /\ DeskTypeOK /\ ConnTypeOK /\ BooksTypeOK /\ IdemTypeOK
    BY GovernanceTyped, BooksShaped DEF ServicesInv, RegistryShapes, IdemInv
  <2>2. JobsTypeOK /\ PlansTypeOK /\ QueueTypeOK /\ TrainerTypeOK /\ IngestTypeOK
    BY QueueShaped DEF ServicesInv, WorkShapes, JobsInv, PlansInv, TrainerInv, IngestInv
  <2>3. SimTypeOK /\ BacktestTypeOK /\ WalkTypeOK
    BY SimShaped DEF ServicesInv, ReplayedShapes, WalkBound, WalkInv, WalkTypeOK
  <2>4. AlertTypeOK /\ FileTypeOK
    BY AlertTyped, LogShaped DEF ServicesInv, KeptShapes, AlertInv
  <2> QED
    BY <2>1, <2>2, <2>3, <2>4 DEF ServicesInv, ServicesTypeOK
<1> QED
  BY <1>1, ServicesStart, ServicesInductive, PTL DEF MCSpec

=============================================================================
