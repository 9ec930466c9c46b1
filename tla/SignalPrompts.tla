--------------------------- MODULE SignalPrompts ---------------------------
(***************************************************************************)
(* The prompts that signals are asked with and the rows that tell of them. *)
(* A request sends the text of the files on disk; the PromptVersion row it *)
(* names afterwards is the newest of the signal engine's.  Each start of   *)
(* the process seeds the rows from the files, and an operator may apply an *)
(* adaptation, which adds a row and changes no file.                       *)
(*                                                                         *)
(* The files are edited together, so one text stands for the system prompt *)
(* and the user template.  Both are version v1 of the signal engine.  The  *)
(* k-th row is the one of k - 1 "-adapted" after the v1: the versions sort *)
(* as they are made.                                                       *)
(***************************************************************************)
EXTENDS Integers, Sequences, FiniteSets

CONSTANTS
    Texts,          \* what the prompt files may say
    Proposed,       \* the text of an adaptation
    Unseeded,       \* what a row inserted by hand says
    Applies,        \* requests that apply an adaptation
    Askers,         \* requests for a signal
    Prices,         \* bound: the prices of an answer
    VersionRoom,    \* adaptations whose name fits the column: 6 in the code
    MaxModels,      \* bound: model rows
    SweptAssets     \* bound: the assets of a sweep

ASSUME PromptAssumption ==
    /\ IsFiniteSet(Texts) /\ Texts # {}
    /\ Proposed \notin Texts /\ Unseeded \notin Texts \union {Proposed}
    /\ Prices \subseteq Nat
    /\ VersionRoom \in Nat /\ MaxModels \in Nat /\ SweptAssets \in Nat \ {0}

VARIABLES
    disk,       \* the text of the prompt files
    edited,     \* history: since the process started
    running,
    engine,     \* the PromptVersion rows of the signal engine, oldest first
    catalyst,   \* whether there is one of the catalyst classifier
    applying,   \* the rows an applying request saw, 0 if there is none
    requests,     \* the requests that await an answer
    sweeping,   \* the sweep in progress and what its session has flushed
    models,     \* the ModelVersion rows: the prompt each names, or 0
    signals     \* the signals, with history of how they were asked for

promptVars ==
    <<disk, edited, running, engine, catalyst, applying, requests, sweeping, models, signals>>

NoRequest == [stage |-> "idle", used |-> Unseeded, edited |-> FALSE]

NoSweep == [left |-> 0, request |-> NoRequest, models |-> <<>>, signals |-> {}]

PromptRow(text, hash, by) == [system |-> text, user |-> text, hash |-> hash, by |-> by]

PromptsInit ==
    /\ disk \in Texts
    /\ edited = FALSE /\ running = FALSE /\ catalyst = FALSE
    /\ engine \in {<<>>, <<PromptRow(Unseeded, <<"hand", Unseeded>>, "hand")>>}
    /\ applying = [a \in Applies |-> 0]
    /\ requests = [q \in Askers |-> NoRequest]
    /\ sweeping = NoSweep
    /\ models = <<>> /\ signals = {}

-----------------------------------------------------------------------------
(* Starting.                                                               *)

(* The row remembers the file seen last, so each of the two files finds    *)
(* the other's hash and is written again.                                  *)
SeedSystem(row) ==
    IF row.hash = <<"system", disk>> THEN row
    ELSE [row EXCEPT !.system = disk, !.hash = <<"system", disk>>]

SeedUser(row) ==
    IF row.hash = <<"user", disk>> THEN row
    ELSE [row EXCEPT !.user = disk, !.hash = <<"user", disk>>]

SeedNewest == [engine EXCEPT ![Len(engine)] = SeedUser(SeedSystem(@))]

(* Updates v1, whatever other versions there are. *)
SeededRows == [engine EXCEPT ![1] = SeedUser(SeedSystem(@))]

(* Without a v1 both files add one, as the second does not find the first  *)
(* before it is flushed: the flush is refused and nothing is seeded.       *)
Start ==
    /\ running' = TRUE /\ edited' = FALSE
    /\ IF engine = <<>> THEN UNCHANGED <<engine, catalyst>>
       ELSE engine' = SeededRows /\ catalyst' = TRUE
    /\ applying' = [a \in Applies |-> 0]
    /\ requests' = [q \in Askers |-> NoRequest]
    /\ sweeping' = NoSweep
    /\ UNCHANGED <<disk, models, signals>>

EditFiles ==
    /\ disk' \in Texts \ {disk}
    /\ edited' = TRUE
    /\ UNCHANGED <<running, engine, catalyst, applying, requests, sweeping, models, signals>>

-----------------------------------------------------------------------------
(* Applying an adaptation.                                                 *)

LoadHighest(a) ==
    /\ running /\ engine # <<>> /\ applying[a] = 0
    /\ applying' = [applying EXCEPT ![a] = Len(engine)]
    /\ UNCHANGED <<disk, edited, running, engine, catalyst, requests, sweeping, models, signals>>

(* The new row is refused if another took its version or the name is too   *)
(* long.  It has the template and the hash of the row it was made from.    *)
AddAdapted(a) ==
    /\ applying[a] # 0
    /\ IF applying[a] = Len(engine) /\ applying[a] <= VersionRoom
       THEN engine' = Append(engine, [engine[applying[a]] EXCEPT
                                         !.system = Proposed, !.by = "apply"])
       ELSE UNCHANGED engine
    /\ applying' = [applying EXCEPT ![a] = 0]
    /\ UNCHANGED <<disk, edited, running, catalyst, requests, sweeping, models, signals>>

-----------------------------------------------------------------------------
(* Asking for signals.                                                     *)

AnswerShapes ==
    [direction : {"long", "short", "flat"}, low : Prices, high : Prices,
     stop : Prices, target : Prices]

SoundByStop(a) ==
    \/ a.direction = "flat"
    \/ /\ 0 \notin {a.low, a.high, a.stop, a.target} /\ a.low <= a.high
       /\ IF a.direction = "long" THEN a.stop < a.low ELSE a.stop > a.high

(* An answer to trade puts the entry zone between the stop and the target. *)
Sound(a) ==
    \/ a.direction = "flat"
    \/ /\ 0 \notin {a.low, a.high, a.stop, a.target}
       /\ a.low <= a.high
       /\ IF a.direction = "long" THEN a.stop < a.low /\ a.target > a.high
          ELSE a.stop > a.high /\ a.target < a.low

(* Reference: wherever in the zone one enters, there is something to win   *)
(* and something to lose, in the direction of the answer.                  *)
TradableWherever(a) ==
    a.direction = "flat" \/
        /\ \E p \in Prices : a.low <= p /\ p <= a.high
        /\ \A p \in Prices : a.low <= p /\ p <= a.high =>
              /\ (p - a.stop) * (a.target - p) > 0
              /\ a.target > a.stop <=> a.direction = "long"

SoundAnswers == {TradableWherever(a) : a \in {b \in AnswerShapes : Sound(b)}}

Newest == Len(engine)

(* The page of the file lists its role's rows, the newest first. *)
History == [n \in DOMAIN engine |-> engine[Len(engine) + 1 - n]]

(* The text of the files goes to the provider, and the answer is awaited. *)
Request == [stage |-> "waiting", used |-> disk, edited |-> edited]

Told(n) == IF n = 0 THEN Unseeded
           ELSE IF engine[n].system = engine[n].user THEN engine[n].system ELSE Proposed

SignalRow(prompt, model, request, tradable) ==
    [prompt |-> prompt, model |-> model, used |-> request.used, told |-> Told(prompt),
     edited |-> request.edited, adapted |-> prompt # 0 /\ engine[prompt].by = "apply",
     tradable |-> tradable]

Ask(q) ==
    /\ running /\ requests[q] = NoRequest
    /\ requests' = [requests EXCEPT ![q] = Request]
    /\ UNCHANGED <<disk, edited, running, engine, catalyst, applying, sweeping, models, signals>>

(* The provider fails, or what it returns is no JSON object of the schema  *)
(* or is unsound: the session is closed with the model row not committed.  *)
AnswerRefused(q) ==
    /\ requests[q] # NoRequest
    /\ requests' = [requests EXCEPT ![q] = NoRequest]
    /\ UNCHANGED <<disk, edited, running, engine, catalyst, applying, sweeping, models, signals>>

(* One commit of the model row and the signal; it fails for both, and the  *)
(* answer is returned without an id then, which is AnswerRefused here.     *)
AnswerKept(q) ==
    /\ requests[q] # NoRequest /\ Len(models) < MaxModels
    /\ models' = Append(models, Newest)
    /\ \E t \in SoundAnswers :
          signals' = signals \union {SignalRow(Newest, Len(models'), requests[q], t)}
    /\ requests' = [requests EXCEPT ![q] = NoRequest]
    /\ UNCHANGED <<disk, edited, running, engine, catalyst, applying, sweeping>>

StartSweep ==
    /\ running /\ sweeping.left = 0
    /\ sweeping' = [NoSweep EXCEPT !.left = SweptAssets, !.request = Request]
    /\ UNCHANGED <<disk, edited, running, engine, catalyst, applying, requests, models, signals>>

(* One asset of the sweep: passed over, refused with the model row flushed *)
(* before the answer was judged, or kept, naming neither row.  The next    *)
(* asset's request follows at once, and the commit the last asset.         *)
SweepAsset ==
    LET more == sweeping.left > 1
        GoOn(ms, ss) ==
            IF more
            THEN /\ sweeping' = [left |-> sweeping.left - 1, request |-> Request,
                                 models |-> ms, signals |-> ss]
                 /\ UNCHANGED <<models, signals>>
            ELSE /\ sweeping' = NoSweep
                 /\ models' = models \o ms
                 /\ signals' = signals \union ss
        kept == sweeping.models
    IN  /\ sweeping.left > 0
        /\ \/ GoOn(kept, sweeping.signals)
           \/ /\ Len(models) + Len(kept) < MaxModels
              /\ \/ GoOn(Append(kept, Newest), sweeping.signals)
                 \/ \E t \in SoundAnswers :
                       GoOn(Append(kept, Newest),
                            sweeping.signals \union {SignalRow(0, 0, sweeping.request, t)})
        /\ UNCHANGED <<disk, edited, running, engine, catalyst, applying, requests>>

-----------------------------------------------------------------------------

PromptsNext ==
    \/ Start \/ EditFiles \/ StartSweep \/ SweepAsset
    \/ \E a \in Applies : LoadHighest(a) \/ AddAdapted(a)
    \/ \E q \in Askers : Ask(q) \/ AnswerRefused(q) \/ AnswerKept(q)

PromptsSpec == PromptsInit /\ [][PromptsNext]_promptVars

-----------------------------------------------------------------------------

PromptsTypeOK ==
    /\ disk \in Texts /\ edited \in BOOLEAN /\ running \in BOOLEAN /\ catalyst \in BOOLEAN
    /\ \A n \in DOMAIN engine :
          /\ engine[n].system \in Texts \union {Proposed, Unseeded}
          /\ engine[n].user \in Texts \union {Unseeded}
    /\ applying \in [Applies -> 0..VersionRoom + 1]
    /\ \A q \in Askers : requests[q].stage \in {"idle", "waiting"}
    /\ sweeping.left \in 0..SweptAssets
    /\ \A n \in DOMAIN models : models[n] \in 0..VersionRoom + 1
    /\ \A s \in signals : s.prompt \in 0..VersionRoom + 1

(* A signal that names a prompt was asked with that text, unless the files *)
(* were edited after the process started or an adaptation had been applied *)
(* by then: a request sends the file whatever rows there are.              *)
RecordedAsUsed ==
    \A s \in signals : s.prompt # 0 => s.told = s.used \/ s.edited \/ s.adapted

(* A seeding is whole or left out, and changes no adaptation: while the    *)
(* files are as at the start, v1 says what they say.  The history ends     *)
(* with v1 and shows of it the hash of the template it has.                *)
SeedingKeepsRows ==
    /\ catalyst => engine # <<>>
    /\ running /\ ~ edited /\ engine # <<>> => engine[1].system = disk /\ engine[1].user = disk
    /\ \A n \in DOMAIN engine : n > 1 => engine[n].system = Proposed /\ engine[n].by = "apply"
    /\ running /\ engine # <<>> =>
          LET oldest == History[Len(History)] IN oldest.hash = <<"user", oldest.user>>

(* Every signal of an answer can be traded wherever it is entered, and one *)
(* that names a prompt names a model row that names the same prompt.       *)
SignalsSoundAndTraced ==
    \A s \in signals :
        /\ s.tradable
        /\ s.prompt # 0 => s.model \in DOMAIN models /\ models[s.model] = s.prompt

(* What is kept of the prompts is true of the signals. *)
PromptsKept == RecordedAsUsed /\ SeedingKeepsRows /\ SignalsSoundAndTraced

=============================================================================
