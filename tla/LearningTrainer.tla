-------------------------- MODULE LearningTrainer --------------------------
(***************************************************************************)
(* The learning trainer: a scheduled worker that registers a new candidate *)
(* version of the scoring model when enough samples have come in.  Samples *)
(* are the outcomes of traded signals and, as counterfactuals, the signals *)
(* that were never traded and whose horizon has passed.  Each API process  *)
(* schedules a trainer of its own.  A trainer is one transaction; under    *)
(* READ COMMITTED each of its queries sees what is committed by then.      *)
(***************************************************************************)
EXTENDS Integers, Sequences, FiniteSets

CONSTANTS
    Trainings,  \* bound: the runs of the worker in a behaviour
    Samples,    \* bound: the signals of a behaviour
    MinHours,   \* auto_learning_min_hours_between_versions
    MinTotal,   \* auto_learning_min_total_outcomes
    MinNew,     \* auto_learning_min_new_outcomes
    Horizon     \* bound: hours of a behaviour

ASSUME TrainerAssumption ==
    /\ IsFiniteSet(Samples)
    /\ MinHours \in Nat \ {0}
    /\ MinTotal \in Nat \ {0}
    /\ MinNew \in Nat \ {0}
    /\ Horizon \in Nat

VARIABLES
    hour,       \* the clock of the processes
    signal,     \* what each signal is as a sample, and since when
    registry,   \* the ScoreModelRegistry rows of the bucket, by version number
    training    \* where each run is, and what it has read

trainerVars == <<hour, signal, registry, training>>

(* since is the start of the transaction that closed the trade, which is   *)
(* the created_at of its outcome.                                          *)
Signals ==
    [kind : {"waiting", "missed", "closing", "outcome"}, since : 0..Horizon]

(* learned is history: the samples that had come in when it was trained.   *)
Versions == [trained : 0..Horizon, learned : SUBSET Samples]

Runs == [stage : {"idle", "loaded", "inserted", "done"},
         latest : Nat, now : 0..Horizon, learned : SUBSET Samples]

TrainerInit ==
    /\ hour = 0
    /\ signal = [s \in Samples |-> [kind |-> "waiting", since |-> 0]]
    /\ registry = <<>>
    /\ training = [r \in Trainings |->
                     [stage |-> "idle", latest |-> 0, now |-> 0, learned |-> {}]]

-----------------------------------------------------------------------------

HourPasses ==
    /\ hour < Horizon
    /\ hour' = hour + 1
    /\ UNCHANGED <<signal, registry, training>>

(* The horizon of a signal that was not traded passes. *)
SignalMatures(s) ==
    /\ signal[s].kind = "waiting"
    /\ signal' = [signal EXCEPT ![s] = [kind |-> "missed", since |-> 0]]
    /\ UNCHANGED <<hour, registry, training>>

(* A trade closes: its transaction begins, then commits. *)
TradeCloses(s) ==
    /\ \/ /\ signal[s].kind = "waiting"
          /\ signal' = [signal EXCEPT ![s] = [kind |-> "closing", since |-> hour]]
       \/ /\ signal[s].kind = "closing"
          /\ signal' = [signal EXCEPT ![s].kind = "outcome"]
    /\ UNCHANGED <<hour, registry, training>>

-----------------------------------------------------------------------------

TradedOutcomes == {s \in Samples : signal[s].kind = "outcome"}
Counterfactuals == {s \in Samples : signal[s].kind = "missed"}

(* Every counterfactual of the lookback counts as new.                     *)
NewSamples(latest) ==
    (IF latest = 0 THEN TradedOutcomes
     ELSE {s \in TradedOutcomes : signal[s].since > registry[latest].trained})
    \union Counterfactuals

EnoughSamples(latest) ==
    /\ Cardinality(TradedOutcomes \union Counterfactuals) >= MinTotal
    /\ Cardinality(NewSamples(latest)) >= MinNew

CoolingDown(latest, now) == latest # 0 /\ now - registry[latest].trained < MinHours

Over == [stage |-> "done", latest |-> 0, now |-> 0, learned |-> {}]

(* Reads the latest version, or finds that it is too recent. *)
LoadLatest(r) ==
    /\ training[r].stage = "idle"
    /\ training' = [training EXCEPT ![r] =
            IF CoolingDown(Len(registry), hour) THEN Over
            ELSE [stage |-> "loaded", latest |-> Len(registry), now |-> hour, learned |-> {}]]
    /\ UNCHANGED <<hour, signal, registry>>

Skip(r) ==
    /\ training[r].stage = "loaded"
    /\ ~ EnoughSamples(training[r].latest)
    /\ training' = [training EXCEPT ![r] = Over]
    /\ UNCHANGED <<hour, signal, registry>>

(* Lets a second row take the number. *)
NumberFreeAlways(v) == TRUE

(* uq_smr_bucket_asset_version: an insert waits for a transaction that has *)
(* inserted the same number, and fails if that commits.                    *)
NumberFree(v) ==
    /\ v > Len(registry)
    /\ \A q \in Trainings :
          ~ (training[q].stage = "inserted" /\ training[q].latest + 1 = v)

InsertVersion(r) ==
    /\ training[r].stage = "loaded"
    /\ EnoughSamples(training[r].latest)
    /\ NumberFree(training[r].latest + 1)
    /\ training' = [training EXCEPT
            ![r].stage = "inserted",
            ![r].learned = TradedOutcomes \union Counterfactuals]
    /\ UNCHANGED <<hour, signal, registry>>

(* The unique constraint, or any other error, rolls everything back. *)
TrainingFails(r) ==
    /\ training[r].stage \in {"loaded", "inserted"}
    /\ training' = [training EXCEPT ![r] = Over]
    /\ UNCHANGED <<hour, signal, registry>>

(* The version and its evaluations are committed together. *)
CommitVersion(r) ==
    /\ training[r].stage = "inserted"
    /\ registry' = Append(registry, [trained |-> training[r].now,
                                     learned |-> training[r].learned])
    /\ training' = [training EXCEPT ![r] = Over]
    /\ UNCHANGED <<hour, signal>>

TrainerNext ==
    \/ HourPasses
    \/ \E s \in Samples : SignalMatures(s) \/ TradeCloses(s)
    \/ \E r \in Trainings : LoadLatest(r) \/ Skip(r) \/ InsertVersion(r)
                            \/ TrainingFails(r) \/ CommitVersion(r)

TrainerSpec == TrainerInit /\ [][TrainerNext]_trainerVars

-----------------------------------------------------------------------------

TrainerTypeOK ==
    /\ hour \in 0..Horizon
    /\ signal \in [Samples -> Signals]
    /\ registry \in Seq(Versions)
    /\ training \in [Trainings -> Runs]

(* Successive versions are trained MinHours apart, although the version a  *)
(* run is to follow may be committed while it computes, by the trainer of  *)
(* another process.                                                        *)
VersionsSpaced ==
    \A v \in 1..Len(registry) - 1 : registry[v + 1].trained >= registry[v].trained + MinHours

=============================================================================
