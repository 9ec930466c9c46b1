------------------------------ MODULE JobSchedule ------------------------------
(***************************************************************************)
(* When the background jobs run: main.py registers the jobs that           *)
(* DataSyncScheduler lists on an interval or a crontab, as the settings    *)
(* that the process read at its start say, and two jobs of its own, the    *)
(* keep-alive of the broker and the capture of P&L snapshots.  The library *)
(* (APScheduler) keeps one run of a job at a time: a run that falls due    *)
(* while the previous one is in progress is skipped.                       *)
(***************************************************************************)
EXTENDS Integers

CONSTANTS
    Paces,  \* the intervals that the settings name, each in the unit of its job
    Down    \* there is no process

VARIABLES
    process,  \* the settings that the running process read, or Down
    since,    \* by job, the time since its trigger fired, in the job's unit
    busy,     \* the jobs with a run in progress
    begun     \* the last run begun and the time its job waited for it, none on a crontab

scheduleVars == <<process, since, busy, begun>>

Listed == {"data_sync", "news_ingest", "signal_sweep", "auto_paper_trader", "auto_paper_close",
           "historical_import", "learning_trainer"}
Jobs == Listed \union {"broker_tickle", "pnl_snapshot_capture"}

Settings ==
    [mode : {"paper", "live"}, live : BOOLEAN, background : BOOLEAN, history : BOOLEAN,
     learning : BOOLEAN, snapshots : BOOLEAN, pace : Paces]

ASSUME ScheduleAssumption ==
    /\ Paces \subseteq Int
    /\ Down \notin Settings \union [job : Jobs, after : Nat]

(* The shortest interval of a job: seconds, and minutes of the trader, the *)
(* import and the trainer.                                                 *)
Shortest ==
    [signal_sweep |-> 30, auto_paper_trader |-> 1, historical_import |-> 30,
     learning_trainer |-> 60, broker_tickle |-> 55, pnl_snapshot_capture |-> 15]

(* What the settings make of a job: none, one on a crontab or one on an    *)
(* interval.                                                               *)
Registered(s) ==
    Jobs \ ({j \in {"historical_import"} : ~s.history}
            \union {j \in {"learning_trainer"} : ~s.learning}
            \union {j \in {"pnl_snapshot_capture"} : ~s.snapshots})

(* Another mistake it could make: the trader in background as asked.      *)
InBackgroundAsAsked(s) == s.background

InBackground(s) == s.background /\ ~s.live /\ s.mode = "paper"

OnInterval(s) ==
    Registered(s) \ ({"data_sync", "news_ingest", "auto_paper_close"}
                     \union {j \in {"auto_paper_trader"} : ~InBackground(s)})

(* A mistake the code could make: the interval of the settings as it is.  *)
UnflooredEvery(s, j) == IF j = "broker_tickle" THEN Shortest[j] ELSE s.pace

Every(s, j) ==
    IF j = "broker_tickle" \/ s.pace < Shortest[j] THEN Shortest[j] ELSE s.pace

ScheduleInit == process = Down /\ since = [j \in Jobs |-> 0] /\ busy = {} /\ begun = Down

(* The lifespan of a process: it reads the settings once, as the           *)
(* environment has them at its start, and ends the scheduler without       *)
(* waiting for the runs.                                                   *)
Boot(s) ==
    /\ process = Down
    /\ process' = s
    /\ UNCHANGED <<since, busy, begun>>

Shutdown ==
    /\ process # Down
    /\ process' = Down
    /\ since' = [j \in Jobs |-> 0]
    /\ busy' = {}
    /\ begun' = Down

Wait(j) ==
    /\ process # Down
    /\ j \in OnInterval(process) /\ since[j] < Every(process, j)
    /\ since' = [since EXCEPT ![j] = @ + 1]
    /\ UNCHANGED <<process, busy, begun>>

(* An interval has passed: the job is run, unless it is running still.     *)
Fire(j) ==
    /\ process # Down
    /\ j \in OnInterval(process) /\ since[j] = Every(process, j)
    /\ since' = [since EXCEPT ![j] = 0]
    /\ busy' = busy \union {j}
    /\ begun' = IF j \in busy THEN begun ELSE [job |-> j, after |-> since[j]]
    /\ UNCHANGED process

(* The hour of a crontab may be any.                                       *)
FireAtHour(j) ==
    /\ process # Down
    /\ j \in Registered(process) \ OnInterval(process) /\ j \notin busy
    /\ busy' = busy \union {j}
    /\ begun' = [job |-> j, after |-> 0]
    /\ UNCHANGED <<process, since>>

(* A run ends, with its failure caught and logged when it failed.          *)
Finish(j) ==
    /\ j \in busy
    /\ busy' = busy \ {j}
    /\ UNCHANGED <<process, since, begun>>

ScheduleNext ==
    \/ \E s \in Settings : Boot(s)
    \/ Shutdown
    \/ \E j \in Jobs : Wait(j) \/ Fire(j) \/ FireAtHour(j) \/ Finish(j)

ScheduleSpec == ScheduleInit /\ [][ScheduleNext]_scheduleVars

ScheduleTypeOK ==
    /\ process \in Settings \union {Down}
    /\ since \in [Jobs -> Nat]
    /\ busy \subseteq Jobs
    /\ begun \in [job : Jobs, after : Nat] \union {Down}

--------------------------------------------------------------------------------

(* Whatever the environment of the process says: a job that is switched    *)
(* off is not run, none on an interval is run sooner after its trigger     *)
(* fired than main.py's least interval for it, whatever was skipped in     *)
(* between, and a process that is not wholly on paper runs the trader by   *)
(* its crontab only (main.py, _lifespan: "Hard safety: never run the       *)
(* background interval scheduler if live execution is enabled or broker    *)
(* mode is not paper").                                                    *)
SchedulesKept ==
    /\ process = Down => busy = {}
    /\ "historical_import" \in busy => process.history
    /\ "learning_trainer" \in busy => process.learning
    /\ "pnl_snapshot_capture" \in busy => process.snapshots
    /\ begun # Down =>
          LET j == begun.job
          IN  IF begun.after = 0
              THEN j \in Listed \ {"signal_sweep", "historical_import", "learning_trainer"}
              ELSE /\ j \in DOMAIN Shortest /\ begun.after >= Shortest[j]
                   /\ j = "auto_paper_trader" => process.mode = "paper" /\ ~process.live

================================================================================
