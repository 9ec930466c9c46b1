--------------------------- MODULE AutoPaperTrader ---------------------------
(***************************************************************************)
(* The auto paper trader of apps/api: the worker that ranks candidate      *)
(* signals, asks the run gate, the order gate and the risk service,        *)
(* submits a LIMIT order through the broker service, and records what the  *)
(* broker answered as a PaperOrder row and a Position row.                 *)
(*                                                                         *)
(* Several runs of AutoPaperTraderWorker.execute may be active at once:    *)
(* the scheduler allows one instance of its job, and the route             *)
(* POST /auto-paper/run constructs a worker of its own.  A run             *)
(* interleaves with the operator (kill switch, trading halt), with the     *)
(* daily close worker, and with the adapter's threads: a submission that   *)
(* asyncio.wait_for gave up on is still running in its thread and may      *)
(* reach the broker later.                                                 *)
(*                                                                         *)
(* The horizon is one UTC day, so the day's order count only grows.        *)
(***************************************************************************)
EXTENDS Integers, FiniteSets

CONSTANTS
    Runs,               \* executions of the worker within the day
    Signals,
    NoSignal,           \* no opportunity is being processed
    MaxOpen,            \* auto_paper_max_open_positions
    MaxPerRun,          \* auto_paper_max_orders_per_run
    MaxPerDay,          \* auto_paper_max_orders_per_day
    KillOnErrorCount,   \* auto_paper_kill_on_error_count
    RejectNum,          \* auto_paper_kill_on_reject_rate is RejectNum/RejectDen
    RejectDen,
    Refused,            \* the signals whose order the order gate refuses
    MaxOverlap,         \* bound: how many runs may be active at once
    Environment         \* which of the events below the instance includes

Events == {"kill", "halt", "close", "crash", "fatal"}

ASSUME ParametersAssumption ==
    /\ IsFiniteSet(Runs)
    /\ IsFiniteSet(Signals)
    /\ NoSignal \notin Signals
    /\ MaxOpen \in Nat
    /\ MaxPerRun \in Nat \ {0}
    /\ MaxPerDay \in Nat \ {0}
    /\ KillOnErrorCount \in Nat \ {0}
    /\ RejectNum \in Nat
    /\ RejectDen \in Nat \ {0}
    /\ Refused \subseteq Signals
    /\ MaxOverlap \in Nat \ {0}
    /\ Environment \subseteq Events

VARIABLES
    (* the database, as committed *)
    signal,         \* signal_status of each Signal row
    orders,         \* PaperOrder rows with order_type = "auto_paper"
    position,       \* the Position row, if any, each submission led to
    approved,       \* RiskDecision rows with approved = "approved"
    killSwitch,     \* kill_switch_enabled of the active RiskProfile
    halted,         \* is a global TradingHalt active
    (* the broker side *)
    inflight,       \* submissions an adapter thread is still working on
    placed,         \* submissions whose placeOrder reached the broker
    (* the runs *)
    pc,             \* where each run is
    run,            \* the local variables of its loop
    session,        \* what its SQLAlchemy session has not committed
    (* history, read by no action *)
    sinceKill,      \* submissions of each run under the present kill switch
    sinceHalt       \* and under the present halt

database == <<signal, orders, position, approved>>
operator == <<killSwitch, halted>>
broker   == <<inflight, placed>>
history  == <<sinceKill, sinceHalt>>
vars == <<database, operator, broker, pc, run, session, history>>

-----------------------------------------------------------------------------
(***************************************************************************)
(* Data.  A run ranks a signal at most once, so the run and the signal     *)
(* identify a submission.                                                  *)
(***************************************************************************)

Calls == [run : Runs, sig : Signals]

SignalStatus   == {"candidate", "paper_submitted", "closed"}
PositionStatus == {"none", "open", "closed"}
BrokerStatus   == {"accepted", "rejected", "cancelled", "unsupported"}

Orders == [call : Calls, status : BrokerStatus \ {"unsupported"}]

Submitting == {"submit", "preflight", "send", "wait"}
Looping    == {"loop", "risk"} \union Submitting
Places     == {"idle", "rank", "commit", "done"} \union Looping

Locals == [queue : SUBSET Signals, current : Signals \union {NoSignal},
           attempts : Nat, errors : Nat, rejects : Nat,
           answer : BrokerStatus \union {"none"}]

NewRun == [queue |-> {}, current |-> NoSignal, attempts |-> 0,
           errors |-> 0, rejects |-> 0, answer |-> "none"]

(* The rows the session holds, which of them it has flushed, and the       *)
(* signals it has modified.                                                *)
Sessions == [orders : SUBSET Orders, flushed : SUBSET Orders,
             signals : SUBSET Signals]

NewSession == [orders |-> {}, flushed |-> {}, signals |-> {}]

Active(r) == pc[r] \notin {"idle", "done"}

CurrentCall(r) == [run |-> r, sig |-> run[r].current]

(* Any outcome opens a position. *)
PositionRowsOfAnyStatus(O) == {o.call : o \in O}

(* The position rows that go with a set of order rows. *)
PositionRows(O) == {o.call : o \in {p \in O : p.status = "accepted"}}

(* An answer outside the known statuses is recorded like a refusal. *)
RefusedOrUnknown == {"rejected", "cancelled", "unsupported"}

RefusedStatuses == {"rejected", "cancelled"}

Init ==
    /\ signal = [s \in Signals |-> "candidate"]
    /\ orders = {}
    /\ position = [c \in Calls |-> "none"]
    /\ approved = {}
    /\ killSwitch = FALSE
    /\ halted = FALSE
    /\ inflight = {}
    /\ placed = {}
    /\ pc = [r \in Runs |-> "idle"]
    /\ run = [r \in Runs |-> NewRun]
    /\ session = [r \in Runs |-> NewSession]
    /\ sinceKill = [r \in Runs |-> 0]
    /\ sinceHalt = [r \in Runs |-> 0]

-----------------------------------------------------------------------------
(***************************************************************************)
(* What the code computes from the state.                                  *)
(***************************************************************************)

OpenPositions == {c \in Calls : position[c] = "open"}

(* rank() considers every signal, whatever became of it. *)
CandidatesOfAnyStatus == Signals

Candidates == {s \in Signals : signal[s] = "candidate"}

(* The count misses the committed rows. *)
OpenCountOfOwn(r) == Cardinality(PositionRows(session[r].flushed))

(* SELECT count of the open positions in the run's own transaction: the    *)
(* session has autoflush=False, so a position it has added but not flushed *)
(* is not counted.                                                         *)
OpenCount(r) == Cardinality(OpenPositions \union PositionRows(session[r].flushed))

(* The cap admits one order too many. *)
DailyCapReachedLate == Cardinality(orders) > MaxPerDay

DailyCapReached == Cardinality(orders) >= MaxPerDay

(* The cap admits one attempt too many. *)
PerRunCapReachedLate(r) == run[r].attempts > MaxPerRun

PerRunCapReached(r) == run[r].attempts >= MaxPerRun

(* The trip is compared with the attempts instead of the errors. *)
WatchdogErrorTripLate(errors) == errors > KillOnErrorCount

WatchdogErrorTrip(errors) == errors >= KillOnErrorCount

WatchdogRejectTrip(rejects, attempts) ==
    rejects * RejectDen >= RejectNum * attempts

(* The kill switch read when the run started is trusted for the whole run. *)
SubmissionAllowedOnceStarted == TRUE

SubmissionAllowed == ~killSwitch

(* The verdict is computed and stored, and not consulted. *)
ProceedsAnyway(verdict) == TRUE

Proceeds(verdict) == verdict = "approved"

(* A halt is reported as an advisory and does not block. *)
HaltBlocksNever == FALSE

HaltBlocks == halted

-----------------------------------------------------------------------------
(***************************************************************************)
(* Leaving execute(), committing, rolling back.                            *)
(***************************************************************************)

(* Every pending row reaches the database; a signal the session modified   *)
(* becomes paper_submitted.                                                *)
ApplyWrites(r) ==
    /\ orders' = orders \union session[r].orders
    /\ position' = [c \in Calls |-> IF c \in PositionRows(session[r].orders)
                                    THEN "open" ELSE position[c]]
    /\ signal' = [s \in Signals |-> IF s \in session[r].signals
                                    THEN "paper_submitted" ELSE signal[s]]
    /\ session' = [session EXCEPT ![r] = NewSession]

(* The run's locals and its session are gone. *)
Return(r) ==
    /\ pc' = [pc EXCEPT ![r] = "done"]
    /\ run' = [run EXCEPT ![r] = NewRun]

Continue(r, where) == pc' = [pc EXCEPT ![r] = where]

-----------------------------------------------------------------------------
(***************************************************************************)
(* The run up to the loop.                                                 *)
(***************************************************************************)

(* evaluate_run: the kill switch and the day's cap. *)
RunGate(r) ==
    /\ pc[r] = "idle"
    /\ Cardinality({q \in Runs : Active(q)}) < MaxOverlap
    /\ Continue(r, IF killSwitch \/ DailyCapReached THEN "done" ELSE "rank")
    /\ UNCHANGED <<database, operator, broker, run, session, history>>

(* rank(limit=max_open), then the hard kill-switch check.  Scores, recency *)
(* and eligibility pick the opportunities among the candidates.            *)
Rank(r) ==
    /\ pc[r] = "rank"
    /\ \E Q \in SUBSET Candidates :
          /\ Cardinality(Q) <= MaxOpen
          /\ \/ /\ Q = {} \/ killSwitch
                /\ Return(r)
             \/ /\ Q # {} /\ ~killSwitch
                /\ run' = [run EXCEPT ![r].queue = Q]
                /\ Continue(r, "loop")
    /\ UNCHANGED <<database, operator, broker, session, history>>

-----------------------------------------------------------------------------
(***************************************************************************)
(* The loop over the ranked opportunities.                                 *)
(***************************************************************************)

StopLoop(r) ==
    /\ pc[r] = "loop"
    /\ run[r].queue = {} \/ PerRunCapReached(r)
    /\ Continue(r, "commit")
    /\ UNCHANGED <<database, operator, broker, run, session, history>>

SkipAtCap(r) ==
    /\ pc[r] = "loop"
    /\ ~PerRunCapReached(r)
    /\ OpenCount(r) >= MaxOpen
    /\ \E s \in run[r].queue : run' = [run EXCEPT ![r].queue = @ \ {s}]
    /\ UNCHANGED <<database, operator, broker, pc, session, history>>

(* evaluate_order: the allowlist, the order type and the notional. *)
GateOrder(r) ==
    /\ pc[r] = "loop"
    /\ ~PerRunCapReached(r)
    /\ OpenCount(r) < MaxOpen
    /\ \E s \in run[r].queue :
          \/ /\ s \in Refused
             /\ run' = [run EXCEPT ![r].queue = @ \ {s}]
             /\ UNCHANGED pc
          \/ /\ s \notin Refused
             /\ run' = [run EXCEPT ![r].queue = @ \ {s}, ![r].current = s]
             /\ Continue(r, "risk")
    /\ UNCHANGED <<database, operator, broker, session, history>>

NextOpportunity(r) ==
    /\ run' = [run EXCEPT ![r].current = NoSignal]
    /\ Continue(r, "loop")

(* RiskService.evaluate commits its decision, and with it every row the    *)
(* session still holds from the opportunities before.                      *)
EvaluateRisk(r) ==
    /\ pc[r] = "risk"
    /\ ApplyWrites(r)
    /\ \E verdict \in {"approved", "rejected"} :
          /\ approved' = IF verdict = "approved"
                         THEN approved \union {CurrentCall(r)} ELSE approved
          /\ \/ /\ Proceeds(verdict)
                /\ run' = [run EXCEPT ![r].attempts = @ + 1]
                /\ Continue(r, "submit")
             \/ ~Proceeds(verdict) /\ NextOpportunity(r)
    /\ UNCHANGED <<operator, broker, history>>

-----------------------------------------------------------------------------
(***************************************************************************)
(* One submission: BrokerService.submit_auto_order and the adapter.        *)
(***************************************************************************)

(* assert_order_submission_allowed reads the kill switch afresh. *)
AssertSubmissionAllowed(r) ==
    /\ pc[r] = "submit"
    /\ \/ ~SubmissionAllowed /\ NextOpportunity(r)
       \/ SubmissionAllowed /\ Continue(r, "preflight") /\ UNCHANGED run
    /\ UNCHANGED <<database, operator, broker, session, history>>

(* The preflight blocks on a halt, and also on limits, broker state or an  *)
(* exception of its own.                                                   *)
Preflight(r) ==
    /\ pc[r] = "preflight"
    /\ \/ NextOpportunity(r)
       \/ ~HaltBlocks /\ Continue(r, "send") /\ UNCHANGED run
    /\ UNCHANGED <<database, operator, broker, session, history>>

(* The adapter starts a thread for the submission. *)
SendOrder(r) ==
    /\ pc[r] = "send"
    /\ inflight' = inflight \union {CurrentCall(r)}
    /\ sinceKill' = [sinceKill EXCEPT ![r] = IF killSwitch THEN @ + 1 ELSE @]
    /\ sinceHalt' = [sinceHalt EXCEPT ![r] = IF halted THEN @ + 1 ELSE @]
    /\ Continue(r, "wait")
    /\ UNCHANGED <<database, operator, placed, run, session>>

(* The thread ends.  An exception before or after placeOrder is reported   *)
(* as REJECTED; the answer of a submission the run gave up on is lost.     *)
AdapterAnswers(c) ==
    /\ c \in inflight
    /\ inflight' = inflight \ {c}
    /\ \E reached \in BOOLEAN, status \in BrokerStatus :
          /\ ~reached => status = "rejected"
          /\ placed' = IF reached THEN placed \union {c} ELSE placed
          /\ run' = IF pc[c.run] = "wait" /\ CurrentCall(c.run) = c
                    THEN [run EXCEPT ![c.run].answer = status] ELSE run
    /\ UNCHANGED <<database, operator, pc, session, history>>

-----------------------------------------------------------------------------
(***************************************************************************)
(* The outcome of a submission.                                            *)
(***************************************************************************)

(* A run that fails keeps its session's rows; the decision row it persists *)
(* flushes them.                                                           *)
CountError(r) ==
    /\ run' = [run EXCEPT ![r].errors = @ + 1, ![r].current = NoSignal,
                          ![r].answer = "none"]
    /\ session' = [session EXCEPT ![r].flushed = session[r].orders]
    /\ Continue(r, IF WatchdogErrorTrip(run[r].errors + 1)
                   THEN "commit" ELSE "loop")

(* wait_for does not cover the adapter's thread. *)
MayFailButWait(r) == pc[r] \in Submitting \ {"wait"}

MayFail(r) == pc[r] \in Submitting

(* An exception of the submission, or the timeout of wait_for. *)
SubmitError(r) ==
    /\ MayFail(r)
    /\ run[r].answer = "none"
    /\ CountError(r)
    /\ UNCHANGED <<database, operator, broker, history>>

RecordAccepted(r) ==
    /\ pc[r] = "wait"
    /\ run[r].answer = "accepted"
    /\ session' = [session EXCEPT
          ![r].orders = @ \union {[call |-> CurrentCall(r), status |-> "accepted"]},
          ![r].signals = IF signal[run[r].current] = "paper_submitted" THEN @
                         ELSE @ \union {run[r].current}]
    /\ run' = [run EXCEPT ![r].current = NoSignal, ![r].answer = "none"]
    /\ Continue(r, "loop")
    /\ UNCHANGED <<database, operator, broker, history>>

(* Only a REJECTED outcome counts for the watchdog, but a CANCELLED one    *)
(* evaluates it too.                                                       *)
RecordRefused(r) ==
    /\ pc[r] = "wait"
    /\ run[r].answer \in RefusedStatuses
    /\ session' = [session EXCEPT
          ![r].orders = @ \union {[call |-> CurrentCall(r),
                                   status |-> run[r].answer]}]
    /\ LET rejects == run[r].rejects + (IF run[r].answer = "rejected" THEN 1 ELSE 0)
       IN  /\ run' = [run EXCEPT ![r].rejects = rejects, ![r].answer = "none",
                                 ![r].current = NoSignal]
           /\ Continue(r, IF WatchdogRejectTrip(rejects, run[r].attempts)
                          THEN "commit" ELSE "loop")
    /\ UNCHANGED <<database, operator, broker, history>>

(* An answer that is neither accepted nor refused leaves no order row. *)
RecordUnsupported(r) ==
    /\ pc[r] = "wait"
    /\ run[r].answer = "unsupported"
    /\ CountError(r)
    /\ UNCHANGED <<database, operator, broker, history>>

-----------------------------------------------------------------------------
(***************************************************************************)
(* The end of a run.                                                       *)
(***************************************************************************)

Commit(r) ==
    /\ pc[r] = "commit"
    /\ ApplyWrites(r)
    /\ Return(r)
    /\ UNCHANGED <<approved, operator, broker, history>>

(* An exception outside the guarded submission: session.rollback(). *)
Fatal(r) ==
    /\ "fatal" \in Environment
    /\ Active(r)
    /\ session' = [session EXCEPT ![r] = NewSession]
    /\ Return(r)
    /\ UNCHANGED <<database, operator, broker, history>>

-----------------------------------------------------------------------------
(***************************************************************************)
(* The rest of the system.                                                 *)
(***************************************************************************)

(* The API process dies: sessions roll back and adapter threads end. *)
Crash ==
    /\ "crash" \in Environment
    /\ \E r \in Runs : Active(r)
    /\ pc' = [r \in Runs |-> IF Active(r) THEN "done" ELSE pc[r]]
    /\ run' = [r \in Runs |-> NewRun]
    /\ session' = [r \in Runs |-> NewSession]
    /\ inflight' = {}
    /\ UNCHANGED <<database, operator, placed, history>>

(* The close worker closes the positions past their horizon, and their     *)
(* signals, in one transaction.                                            *)
CloseExpired ==
    /\ "close" \in Environment
    /\ \E C \in (SUBSET OpenPositions) \ {{}} :
          /\ position' = [c \in Calls |-> IF c \in C THEN "closed" ELSE position[c]]
          /\ signal' = [s \in Signals |-> IF \E c \in C : c.sig = s
                                          THEN "closed" ELSE signal[s]]
    /\ UNCHANGED <<orders, approved, operator, broker, pc, run, session, history>>

ActivateKillSwitch ==
    /\ "kill" \in Environment
    /\ ~killSwitch
    /\ killSwitch' = TRUE
    /\ sinceKill' = [r \in Runs |-> 0]
    /\ UNCHANGED <<database, halted, broker, pc, run, session, sinceHalt>>

DeactivateKillSwitch ==
    /\ killSwitch
    /\ killSwitch' = FALSE
    /\ sinceKill' = [r \in Runs |-> 0]
    /\ UNCHANGED <<database, halted, broker, pc, run, session, sinceHalt>>

CreateHalt ==
    /\ "halt" \in Environment
    /\ ~halted
    /\ halted' = TRUE
    /\ sinceHalt' = [r \in Runs |-> 0]
    /\ UNCHANGED <<database, killSwitch, broker, pc, run, session, sinceKill>>

ResolveHalt ==
    /\ halted
    /\ halted' = FALSE
    /\ sinceHalt' = [r \in Runs |-> 0]
    /\ UNCHANGED <<database, killSwitch, broker, pc, run, session, sinceKill>>

-----------------------------------------------------------------------------

RunStep(r) ==
    \/ RunGate(r) \/ Rank(r)
    \/ StopLoop(r) \/ SkipAtCap(r) \/ GateOrder(r) \/ EvaluateRisk(r)
    \/ AssertSubmissionAllowed(r) \/ Preflight(r) \/ SendOrder(r)
    \/ SubmitError(r)
    \/ RecordAccepted(r) \/ RecordRefused(r) \/ RecordUnsupported(r)
    \/ Commit(r)

Operator ==
    \/ ActivateKillSwitch \/ DeactivateKillSwitch
    \/ CreateHalt \/ ResolveHalt

Next ==
    \/ \E r \in Runs : RunStep(r) \/ Fatal(r)
    \/ \E c \in Calls : AdapterAnswers(c)
    \/ CloseExpired
    \/ Crash
    \/ Operator

Spec == Init /\ [][Next]_vars

(* A started run keeps executing; wait_for bounds the time it waits.  The  *)
(* adapter's threads, the operator and the close worker owe nothing.       *)
FairSpec == Spec /\ \A r \in Runs : WF_vars(pc[r] # "idle" /\ RunStep(r))

-----------------------------------------------------------------------------
(***************************************************************************)
(* Correctness.                                                            *)
(***************************************************************************)

(* Every variable keeps its shape. *)
TypeOK ==
    /\ signal \in [Signals -> SignalStatus]
    /\ orders \subseteq Orders
    /\ position \in [Calls -> PositionStatus]
    /\ approved \subseteq Calls
    /\ killSwitch \in BOOLEAN
    /\ halted \in BOOLEAN
    /\ inflight \subseteq Calls
    /\ placed \subseteq Calls
    /\ pc \in [Runs -> Places]
    /\ run \in [Runs -> Locals]
    /\ session \in [Runs -> Sessions]
    /\ sinceKill \in [Runs -> Nat]
    /\ sinceHalt \in [Runs -> Nat]

(* Whatever reaches the adapter or the broker, however late, carries a     *)
(* committed risk approval: the risk decision survives the rollback or the *)
(* crash of the run that asked for it.                                     *)
RiskBeforeBroker == inflight \union placed \subseteq approved

(* No phantom position: a Position row, open or closed, stands for an      *)
(* order the broker was really given and for an accepted PaperOrder row,   *)
(* through timeouts, late answers, rollbacks and crashes.                  *)
PositionsBacked ==
    \A c \in Calls : position[c] # "none" =>
        c \in placed /\ [call |-> c, status |-> "accepted"] \in orders

(* The per-run cap holds at the broker and not only in the counter: a      *)
(* retry after a timeout is a new attempt, and a late thread places an     *)
(* order of an attempt already counted.                                    *)
RunCap ==
    \A r \in Runs :
        Cardinality({c \in inflight \union placed : c.run = r}) <= MaxPerRun

(* The day's cap is read once, when a run starts, and a run may then use   *)
(* its whole per-run cap: this is how far the rows may pass the cap.       *)
DailyOvershootBounded ==
    Cardinality(orders) <= MaxPerDay - 1 + MaxPerRun * MaxOverlap

(* A run counts neither the position it holds unflushed nor those of the   *)
(* other runs in progress: two positions a run is how far the open         *)
(* positions may pass their cap.                                           *)
PositionOvershootBounded ==
    Cardinality(OpenPositions) <= (IF MaxOpen = 0 THEN 0
                                   ELSE MaxOpen - 1 + 2 * MaxOverlap)

(* The kill switch stops a run in the middle of its loop: once it is on,   *)
(* a run sends at most the one order that was past the check.              *)
KillStops == \A r \in Runs : sinceKill[r] <= 1

(* So does a trading halt, which is read later, in the preflight.          *)
HaltStops == \A r \in Runs : sinceHalt[r] <= 1

(* The operator stops a run in the middle of its loop, by either switch.   *)
OperatorStops == KillStops /\ HaltStops

(* A run that goes on has tripped neither watchdog, counting timeouts,     *)
(* exceptions, unsupported answers and rejections together.                *)
WatchdogHolds ==
    \A r \in Runs : pc[r] \in Looping =>
        /\ run[r].errors < KillOnErrorCount
        /\ run[r].rejects > 0 =>
               run[r].rejects * RejectDen < RejectNum * run[r].attempts

(* Every run ends, whatever the adapter does with its submissions.         *)
RunsTerminate == \A r \in Runs : pc[r] # "idle" ~> pc[r] = "done"

(* The position cap: never more open positions than configured.            *)
PositionCap == Cardinality(OpenPositions) <= MaxOpen

(* One worker at a time trades a signal at most once: see TradeLifecycle.  *)
Trade == INSTANCE TradeLifecycle WITH
    status <- signal,
    holding <- [s \in Signals |-> Cardinality({c \in OpenPositions : c.sig = s})]

TradesSignalsOnce == Trade!Spec

=============================================================================
