---------------------------- MODULE ResearchJobs ----------------------------
(***************************************************************************)
(* Research jobs.  ResearchJobService creates a job, runs it and finishes  *)
(* it inside the request that started it, in one session.  The import      *)
(* service commits that session after every combination of asset,          *)
(* timeframe and provider, and the quality engine after its recalculation, *)
(* so the job's row becomes visible as "running" in the middle; other      *)
(* requests may try to cancel or retry it meanwhile.                       *)
(***************************************************************************)
EXTENDS Integers, FiniteSets

CONSTANTS
    Jobs,               \* bound: the jobs of a behaviour
    NoJob,
    MaxCombinations     \* bound: assets x timeframes x providers of a request

ASSUME JobsAssumption ==
    /\ NoJob \notin Jobs
    /\ MaxCombinations \in Nat \ {0}

VARIABLES
    jobRow,     \* the committed status of each job
    request,    \* job_type and request_payload
    jobRun,     \* the HTTP request that runs it
    retryOf,    \* retry_of_job_id
    cancel,     \* the cancel request: the job and the status it loaded
    cutShort    \* history: jobs whose run the process or the database cut short

jobVars == <<jobRow, request, jobRun, retryOf, cancel, cutShort>>

JobStatus == {"absent", "queued", "running", "completed", "partial", "failed", "cancelled"}
Settled == {"completed", "partial", "failed", "cancelled"}

(* What each combination may end as; a dry run only plans.                 *)
Outcomes == {"imported", "skipped", "failed", "planned"}

JobRequests == [kind : {"import", "dry_run", "quality"}, size : 1..MaxCombinations]
NoRun == [active |-> FALSE, left |-> 0, ends |-> {}]
NoCancel == [job |-> NoJob, loaded |-> "absent"]

JobsInit ==
    /\ jobRow = [j \in Jobs |-> "absent"]
    /\ request = [j \in Jobs |-> [kind |-> "import", size |-> 1]]
    /\ jobRun = [j \in Jobs |-> NoRun]
    /\ retryOf = [j \in Jobs |-> NoJob]
    /\ cancel = NoCancel
    /\ cutShort = {}

-----------------------------------------------------------------------------

InProgress(j) == jobRun[j].active

Unused(j) == jobRow[j] = "absent" /\ ~ InProgress(j) /\ j \notin cutShort

EndRun(j) == jobRun' = [jobRun EXCEPT ![j] = NoRun]

CommitJob(j, status) == jobRow' = [jobRow EXCEPT ![j] = status]

(* The status of a batch, as the job reports it. *)
BatchStatus(ends) ==
    IF ends = {"failed"} THEN "failed"
    ELSE IF ends \intersect {"failed", "skipped"} # {} THEN "partial"
    ELSE "completed"

Retryable(status) == status \in {"failed", "partial", "cancelled"}

(* Cancels what still runs. *)
CancelsAnyOpen(loaded) == loaded \in {"queued", "running"}

(* A running job only gets a message. *)
Cancels(loaded) == loaded = "queued"

-----------------------------------------------------------------------------

(* The row is inserted and flushed; nobody else sees it yet.  A retry      *)
(* copies the request of a job it has loaded, which may be retried again.  *)
StartJob(j) ==
    /\ Unused(j)
    /\ \E p \in {NoJob} \union {q \in Jobs : Retryable(jobRow[q])} :
          /\ retryOf' = [retryOf EXCEPT ![j] = p]
          /\ \E r \in IF p = NoJob THEN JobRequests ELSE {request[p]} :
                /\ request' = [request EXCEPT ![j] = r]
                /\ jobRun' = [jobRun EXCEPT ![j] = [active |-> TRUE, left |-> r.size, ends |-> {}]]
    /\ UNCHANGED <<jobRow, cancel, cutShort>>

(* A job that nothing in the program will run. *)
CreateQueued(j) ==
    /\ Unused(j)
    /\ CommitJob(j, "queued")
    /\ \E r \in JobRequests : request' = [request EXCEPT ![j] = r]
    /\ UNCHANGED <<jobRun, retryOf, cancel, cutShort>>

(* A combination is imported, skipped (no such asset, provider or bars),   *)
(* failed by its provider, or planned, and the session is committed.       *)
CombinationEnds(j) ==
    /\ InProgress(j) /\ request[j].kind # "quality"
    /\ jobRun[j].left > 0
    /\ \E o \in IF request[j].kind = "dry_run" THEN {"planned"} ELSE Outcomes \ {"planned"} :
          jobRun' = [jobRun EXCEPT ![j] =
                        [active |-> TRUE, left |-> jobRun[j].left - 1,
                         ends |-> jobRun[j].ends \union {o}]]
    /\ CommitJob(j, "running")
    /\ UNCHANGED <<request, retryOf, cancel, cutShort>>

FinishImport(j) ==
    /\ InProgress(j) /\ request[j].kind # "quality"
    /\ jobRun[j].left = 0
    /\ CommitJob(j, BatchStatus(jobRun[j].ends))
    /\ EndRun(j)
    /\ UNCHANGED <<request, retryOf, cancel, cutShort>>

(* The quality engine commits its reports, and with them the job; what it  *)
(* raises makes the job partial.                                           *)
QualityRecalculated(j) ==
    /\ InProgress(j) /\ request[j].kind = "quality"
    /\ jobRun[j].ends = {}
    /\ \/ /\ jobRun' = [jobRun EXCEPT ![j].ends = {"imported"}]
          /\ CommitJob(j, "running")
       \/ /\ jobRun' = [jobRun EXCEPT ![j].ends = {"failed"}]
          /\ UNCHANGED jobRow
    /\ UNCHANGED <<request, retryOf, cancel, cutShort>>

FinishQuality(j) ==
    /\ InProgress(j) /\ request[j].kind = "quality"
    /\ jobRun[j].ends # {}
    /\ CommitJob(j, IF jobRun[j].ends = {"imported"} THEN "completed" ELSE "partial")
    /\ EndRun(j)
    /\ UNCHANGED <<request, retryOf, cancel, cutShort>>

(* Leaves the failed row for somebody else to commit. *)
JobRaisesUncommitted(j) ==
    /\ InProgress(j)
    /\ EndRun(j)
    /\ UNCHANGED <<request, jobRow, retryOf, cancel, cutShort>>

(* An exception that leaves the session usable, a date that does not exist *)
(* in the year asked for, say, fails the job.                              *)
JobRaises(j) ==
    /\ InProgress(j)
    /\ CommitJob(j, "failed")
    /\ EndRun(j)
    /\ UNCHANGED <<request, retryOf, cancel, cutShort>>

(* After an error of the database the session refuses the update that      *)
(* would mark the job failed: the request ends with what was committed.    *)
DatabaseRefuses(j) ==
    /\ InProgress(j)
    /\ EndRun(j)
    /\ cutShort' = cutShort \union {j}
    /\ UNCHANGED <<request, jobRow, retryOf, cancel>>

ProcessDies ==
    /\ \E j \in Jobs : InProgress(j)
    /\ cutShort' = cutShort \union {j \in Jobs : InProgress(j)}
    /\ jobRun' = [j \in Jobs |-> NoRun]
    /\ cancel' = NoCancel
    /\ UNCHANGED <<request, jobRow, retryOf>>

-----------------------------------------------------------------------------

(* Cancelling loads the row and commits later, without a lock. *)
LoadForCancel(j) ==
    /\ cancel = NoCancel
    /\ jobRow[j] # "absent"
    /\ cancel' = [job |-> j, loaded |-> jobRow[j]]
    /\ UNCHANGED <<request, jobRow, jobRun, retryOf, cutShort>>

CommitCancel ==
    /\ cancel # NoCancel
    /\ IF Cancels(cancel.loaded) THEN CommitJob(cancel.job, "cancelled") ELSE UNCHANGED jobRow
    /\ cancel' = NoCancel
    /\ UNCHANGED <<request, jobRun, retryOf, cutShort>>

JobsNext ==
    \/ \E j \in Jobs :
          \/ StartJob(j) \/ CreateQueued(j)
          \/ CombinationEnds(j) \/ FinishImport(j)
          \/ QualityRecalculated(j) \/ FinishQuality(j)
          \/ JobRaises(j) \/ DatabaseRefuses(j)
          \/ LoadForCancel(j)
    \/ CommitCancel
    \/ ProcessDies

JobsSpec == JobsInit /\ [][JobsNext]_jobVars

-----------------------------------------------------------------------------

JobsTypeOK ==
    /\ jobRow \in [Jobs -> JobStatus]
    /\ request \in [Jobs -> JobRequests]
    /\ jobRun \in [Jobs -> [active : BOOLEAN, left : 0..MaxCombinations,
                            ends : SUBSET Outcomes]]
    /\ retryOf \in [Jobs -> Jobs \union {NoJob}]
    /\ cancel \in [job : Jobs \union {NoJob}, loaded : JobStatus]
    /\ cutShort \subseteq Jobs

(* What a job ended as is never changed, although a cancel request may     *)
(* have loaded the row before the run committed its result.                *)
JobsSettle ==
    [][\A j \in Jobs : jobRow[j] \in Settled => jobRow'[j] = jobRow[j]]_jobVars

(* A job that shows as running is being run, unless the process died or    *)
(* the database refused in the middle: nothing resumes, cancels or retries *)
(* such a job.                                                             *)
RunningIsAlive ==
    \A j \in Jobs : jobRow[j] = "running" => InProgress(j) \/ j \in cutShort

=============================================================================
