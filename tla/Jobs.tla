-------------------------------- MODULE Jobs --------------------------------
(***************************************************************************)
(* The job table of TapeHoard and the threads that move its rows.          *)
(*                                                                         *)
(* A row is created by an API handler, by the retry endpoint or by the     *)
(* scheduler; a worker thread then runs a scan, a backup or a restore and  *)
(* reports to the row through JobManager; the user may cancel the row at   *)
(* any time.  A JobManager call reads the row and then writes it, and the  *)
(* driver opens a transaction for the write only: a call is one action here*)
(* where the gap between the two cannot be told, and two where it can      *)
(* (complete_job and cancel_job).  The interleavings are those of the      *)
(* handlers' thread pool, the background tasks and the cron thread.        *)
(*                                                                         *)
(* What a run reads and writes on disk is left to the other modules: here  *)
(* a run may fail at any point, and a medium may turn out to be missing or *)
(* full at any visit.                                                      *)
(***************************************************************************)
EXTENDS Naturals, FiniteSets

CONSTANTS
  Job,          \* row identifiers of the jobs table; a bound on live rows
  Request,      \* request-handler threads that may be inside a trigger endpoint
  MaxMedia,     \* most media an auto backup visits
  CronEnabled,  \* schedule_scan and schedule_archival are set
  CanRestart    \* the process may be killed and started again

ASSUME ConstantsOK ==
  /\ MaxMedia \in Nat \ {0}
  /\ CronEnabled \in BOOLEAN
  /\ CanRestart \in BOOLEAN

VARIABLES
  status,     \* Job.status, or "absent" where there is no row
  cancelled,  \* Job.is_cancelled
  kind,       \* Job.job_type
  origin,     \* which code runs the worker: one medium, all media, cron, nobody
  worker,     \* where the worker thread of the row is
  left,       \* media the worker has still to visit
  cancelling, \* rows that cancel_job has read as active and not yet written
  request,    \* the kind of job a handler has found free and is about to create
  scanning    \* scanner_manager.is_running

vars == <<status, cancelled, kind, origin, worker, left, cancelling, request, scanning>>

\* HASH rows, which run_hashing makes for itself, are in module Scanner.
Kind     == {"SCAN", "BACKUP", "RESTORE"}
Active   == {"PENDING", "RUNNING"}
Terminal == {"COMPLETED", "FAILED"}
Inside   == {"working", "finishing", "completing"}
Ended    == {"done", "raised", "killed"}
Live     == {"queued", "admitted", "returned", "retracting"} \union Inside

TypeOK ==
  /\ status    \in [Job -> {"absent"} \union Active \union Terminal]
  /\ cancelled \in [Job -> BOOLEAN]
  /\ kind      \in [Job -> {"none"} \union Kind]
  /\ origin    \in [Job -> {"none", "single", "auto", "cron"}]
  /\ worker    \in [Job -> {"none"} \union Ended \union Live]
  /\ left      \in [Job -> 0 .. MaxMedia]
  /\ cancelling \subseteq Job
  /\ request   \in [Request -> {"idle"} \union Kind]
  /\ scanning  \in BOOLEAN

Init ==
  /\ status    = [j \in Job |-> "absent"]
  /\ cancelled = [j \in Job |-> FALSE]
  /\ kind      = [j \in Job |-> "none"]
  /\ origin    = [j \in Job |-> "none"]
  /\ worker    = [j \in Job |-> "none"]
  /\ left      = [j \in Job |-> 0]
  /\ cancelling = {}
  /\ request   = [r \in Request |-> "idle"]
  /\ scanning  = FALSE

-----------------------------------------------------------------------------
(* JobManager: what each call does to the row.                              *)

SetStatus(j, s) == status' = [status EXCEPT ![j] = s]

CreateJob(j, k, o, n, w) ==
  /\ status[j] = "absent"
  /\ SetStatus(j, "PENDING")
  /\ kind'   = [kind EXCEPT ![j] = k]
  /\ origin' = [origin EXCEPT ![j] = o]
  /\ left'   = [left EXCEPT ![j] = n]
  /\ worker' = [worker EXCEPT ![j] = w]
  /\ UNCHANGED <<cancelling, cancelled, scanning>>

\* start_job does not look at the status it overwrites.  A cancellation that
\* falls between its read and its write is as good as one before it; and one
\* that falls inside fail_job is as good as one after it.
StartJob(j) == SetStatus(j, "RUNNING")

FailNothing(j) == UNCHANGED status

FailJob(j) ==
  IF status[j] \in Active THEN SetStatus(j, "FAILED") ELSE UNCHANGED status

\* cancel_job: the row is read, and written if it was active; in between the
\* worker may settle it, and its status is then overwritten.
CancelRead(j) ==
  /\ status[j] \in Active /\ j \notin cancelling
  /\ cancelling' = cancelling \union {j}
  /\ UNCHANGED <<status, cancelled, kind, origin, worker, left, request, scanning>>

CancelJob(j) ==
  /\ j \in cancelling
  /\ cancelling' = cancelling \ {j}
  /\ IF status[j] = "absent" THEN UNCHANGED <<status, cancelled>>
     ELSE SetStatus(j, "FAILED") /\ cancelled' = [cancelled EXCEPT ![j] = TRUE]
  /\ UNCHANGED <<kind, origin, worker, left, request, scanning>>

\* _active_backup_exists, _active_restore_exists and _active_job_exists.
ActiveAnything(k) == FALSE

ActiveJobExists(k) ==
  \E j \in Job : kind[j] = k /\ status[j] \in Active /\ ~cancelled[j]

-----------------------------------------------------------------------------
(* The handlers: the guard and the creation are separate transactions.      *)

TriggerCheck(r, k) ==
  /\ request[r] = "idle"
  /\ ~ActiveJobExists(k)
  /\ request' = [request EXCEPT ![r] = k]
  /\ UNCHANGED <<cancelling, status, cancelled, kind, origin, worker, left, scanning>>

TriggerCreate(r, j) ==
  /\ request[r] # "idle"
  /\ \/ CreateJob(j, request[r], "single", 1, "queued")
     \/ /\ request[r] = "BACKUP"
        /\ \E n \in 1 .. MaxMedia : CreateJob(j, "BACKUP", "auto", n, "queued")
  /\ request' = [request EXCEPT ![r] = "idle"]

\* The handler refuses after the guard: no medium, an empty recovery queue.
TriggerRefuse(r) ==
  /\ request[r] \in {"BACKUP", "RESTORE"}
  /\ request' = [request EXCEPT ![r] = "idle"]
  /\ UNCHANGED <<cancelling, status, cancelled, kind, origin, worker, left, scanning>>

\* retry_job: only a SCAN is run again; for any other kind the new row has
\* been committed before the handler deletes it (Retract).
RetryJob(old, j) ==
  /\ status[old] = "FAILED"
  /\ IF kind[old] = "SCAN"
     THEN CreateJob(j, "SCAN", "single", 1, "queued")
     ELSE CreateJob(j, kind[old], "none", 0, "retracting")
  /\ UNCHANGED request

Retract(j) ==
  /\ worker[j] = "retracting"
  /\ SetStatus(j, "absent")
  /\ cancelled' = [cancelled EXCEPT ![j] = FALSE]
  /\ kind'      = [kind EXCEPT ![j] = "none"]
  /\ worker'    = [worker EXCEPT ![j] = "none"]
  /\ UNCHANGED <<cancelling, origin, left, request, scanning>>

\* The scheduler runs each schedule in one thread (max_instances is 1).
\* run_system_archival looks for no active job; run_system_scan only at the
\* scanner's flag.
CronIdle(k) ==
  ~\E j \in Job : origin[j] = "cron" /\ kind[j] = k /\ worker[j] \in Live

RunSystemArchival(j) ==
  /\ CronEnabled /\ CronIdle("BACKUP")
  /\ CreateJob(j, "BACKUP", "cron", 1, "queued")
  /\ UNCHANGED request

RunSystemScan(j) ==
  /\ CronEnabled /\ CronIdle("SCAN")
  /\ ~scanning
  /\ CreateJob(j, "SCAN", "cron", 1, "queued")
  /\ UNCHANGED request

-----------------------------------------------------------------------------
(* The worker of row j.                                                     *)

Goto(j, pc) == worker' = [worker EXCEPT ![j] = pc]

\* The loop of run_auto_archival_task passes over a medium that is at least
\* 98% full.
SkipMedium(j) ==
  /\ worker[j] = "queued" /\ origin[j] = "auto" /\ left[j] > 0
  /\ left' = [left EXCEPT ![j] = @ - 1]
  /\ UNCHANGED <<cancelling, status, cancelled, kind, origin, worker, request, scanning>>

\* ... and ends when no medium is left.
AutoExhausted(j) ==
  /\ worker[j] = "queued" /\ origin[j] = "auto" /\ left[j] = 0
  /\ Goto(j, "done")
  /\ UNCHANGED <<cancelling, status, cancelled, kind, origin, left, request, scanning>>

\* The auto loop, the handler that answers with the name of its medium and the
\* scheduler all look at the medium once more through an object that the commit
\* of create_job has expired.  If the medium was deleted that raises: the
\* thread is gone, or was never started, and the row stays as it is.
MediumExpired(j) ==
  /\ worker[j] = "queued" /\ kind[j] = "BACKUP" /\ left[j] > 0
  /\ Goto(j, "raised")
  /\ UNCHANGED <<cancelling, status, cancelled, kind, origin, left, request, scanning>>

\* run_backup, in a session of its own, on a medium deleted since the handler
\* answered: failed without a start.
MediumGone(j) ==
  /\ worker[j] = "queued" /\ kind[j] = "BACKUP" /\ origin[j] = "single"
  /\ FailJob(j)
  /\ Goto(j, "returned")
  /\ UNCHANGED <<cancelling, cancelled, kind, origin, left, request, scanning>>

StartRunAgain(j) ==
  /\ worker[j] = "queued" /\ kind[j] # "SCAN"
  /\ StartJob(j)
  /\ left' = [left EXCEPT ![j] = @ - 1]
  /\ Goto(j, "working")
  /\ UNCHANGED <<cancelling, cancelled, kind, origin, request, scanning>>

StartRun(j) ==
  /\ worker[j] = "queued" /\ kind[j] # "SCAN" /\ left[j] > 0
  /\ StartJob(j)
  /\ left' = [left EXCEPT ![j] = @ - 1]
  /\ Goto(j, "working")
  /\ UNCHANGED <<cancelling, cancelled, kind, origin, request, scanning>>

\* Between start_job and the "try" of run_backup the provider is built, and
\* before that of run_restore the destination is made: an exception there is
\* caught by nobody that knows the row, and ends an auto backup too.
StartRaises(j) ==
  /\ worker[j] = "queued" /\ kind[j] # "SCAN" /\ left[j] > 0
  /\ StartJob(j)
  /\ left' = [left EXCEPT ![j] = @ - 1]
  /\ Goto(j, "raised")
  /\ UNCHANGED <<cancelling, cancelled, kind, origin, request, scanning>>

\* scan_sources returns at once when the flag is up, and the row stays
\* PENDING; the test and the set of the flag are two steps.
ScanBounced(j) ==
  /\ worker[j] = "queued" /\ kind[j] = "SCAN" /\ scanning
  /\ Goto(j, "done")
  /\ UNCHANGED <<cancelling, status, cancelled, kind, origin, left, request, scanning>>

ScanAdmitted(j) ==
  /\ worker[j] = "queued" /\ kind[j] = "SCAN" /\ ~scanning
  /\ Goto(j, "admitted")
  /\ UNCHANGED <<cancelling, status, cancelled, kind, origin, left, request, scanning>>

StartScan(j) ==
  /\ worker[j] = "admitted"
  /\ scanning' = TRUE
  /\ StartJob(j)
  /\ Goto(j, "working")
  /\ UNCHANGED <<cancelling, cancelled, kind, origin, left, request>>

\* An exception, a hardware mismatch, a drive that refuses the write...
RunFails(j) ==
  /\ worker[j] = "working"
  /\ FailJob(j)
  /\ Goto(j, "returned")
  /\ UNCHANGED <<cancelling, cancelled, kind, origin, left, request, scanning>>

\* run_restore on a queue emptied since the trigger completes the job without
\* asking whether it was cancelled.
RestoreNothing(j) ==
  /\ worker[j] = "working" /\ kind[j] = "RESTORE"
  /\ Goto(j, "finishing")
  /\ UNCHANGED <<cancelling, status, cancelled, kind, origin, left, request, scanning>>

ObserveCancelNever(j) == FALSE

\* Every run polls is_cancelled between its steps and abandons its work.
ObserveCancel(j) ==
  /\ worker[j] = "working" /\ cancelled[j]
  /\ Goto(j, "returned")
  /\ UNCHANGED <<cancelling, status, cancelled, kind, origin, left, request, scanning>>

FinishUnchecked(j) ==
  /\ worker[j] = "working"
  /\ Goto(j, "finishing")
  /\ UNCHANGED <<cancelling, status, cancelled, kind, origin, left, request, scanning>>

\* The last is_cancelled check, the read of complete_job and its write are
\* three steps.
FinishCheck(j) ==
  /\ worker[j] = "working" /\ ~cancelled[j]
  /\ Goto(j, "finishing")
  /\ UNCHANGED <<cancelling, status, cancelled, kind, origin, left, request, scanning>>

CompleteRead(j) ==
  /\ worker[j] = "finishing"
  /\ Goto(j, IF status[j] \in Active THEN "completing" ELSE "returned")
  /\ UNCHANGED <<cancelling, status, cancelled, kind, origin, left, request, scanning>>

CompleteJob(j) ==
  /\ worker[j] = "completing"
  /\ SetStatus(j, "COMPLETED")
  /\ Goto(j, "returned")
  /\ UNCHANGED <<cancelling, cancelled, kind, origin, left, request, scanning>>

RunReturnedAnyOrigin(j) ==
  /\ worker[j] = "returned"
  /\ Goto(j, IF ~cancelled[j] /\ left[j] > 0 THEN "queued" ELSE "done")
  /\ scanning' = (scanning /\ kind[j] # "SCAN")
  /\ UNCHANGED <<cancelling, status, cancelled, kind, origin, left, request>>

\* After a run the auto loop goes on to the next medium under the same row,
\* unless the row was cancelled; a scan lowers the flag.
RunReturned(j) ==
  /\ worker[j] = "returned"
  /\ Goto(j, IF origin[j] = "auto" /\ ~cancelled[j] /\ left[j] > 0
             THEN "queued" ELSE "done")
  /\ scanning' = (scanning /\ kind[j] # "SCAN")
  /\ UNCHANGED <<cancelling, status, cancelled, kind, origin, left, request>>

WorkerStep(j) ==
  \/ Retract(j)
  \/ SkipMedium(j)
  \/ AutoExhausted(j)
  \/ MediumExpired(j)
  \/ MediumGone(j)
  \/ StartRun(j)
  \/ StartRaises(j)
  \/ ScanBounced(j)
  \/ ScanAdmitted(j)
  \/ StartScan(j)
  \/ RunFails(j)
  \/ RestoreNothing(j)
  \/ ObserveCancel(j)
  \/ FinishCheck(j)
  \/ CompleteRead(j)
  \/ CompleteJob(j)
  \/ RunReturned(j)

\* A restart loses every thread and every flag; nothing looks at the rows.
Restart ==
  /\ CanRestart
  /\ worker'   = [j \in Job |-> IF worker[j] \in Live THEN "killed" ELSE worker[j]]
  /\ request'  = [r \in Request |-> "idle"]
  /\ scanning' = FALSE
  /\ cancelling' = {}
  /\ UNCHANGED <<status, cancelled, kind, origin, left>>

UserStep ==
  \/ \E r \in Request : \/ \E k \in Kind : TriggerCheck(r, k)
                        \/ \E j \in Job : TriggerCreate(r, j)
                        \/ TriggerRefuse(r)
  \/ \E old, j \in Job : RetryJob(old, j)
  \/ \E j \in Job : \/ CancelRead(j)
                    \/ CancelJob(j)
                    \/ RunSystemArchival(j)
                    \/ RunSystemScan(j)

Next ==
  \/ UserStep
  \/ \E j \in Job : WorkerStep(j)
  \/ Restart

\* A restore waits for its medium as long as the operator likes, so nothing
\* but a cancellation is sure to move it; every other worker runs on.
Waiting(j) == kind[j] = "RESTORE" /\ worker[j] = "working"

Fairness ==
  \A j \in Job : /\ WF_vars(~Waiting(j) /\ WorkerStep(j))
                 /\ WF_vars(ObserveCancel(j))

Spec     == Init /\ [][Next]_vars
FairSpec == Spec /\ Fairness

-----------------------------------------------------------------------------
(* Properties                                                               *)

\* A cancellation that is written before the worker's last check of
\* is_cancelled is final: the row of a backup or a scan that is still queued or
\* at work is never reported as completed afterwards, whatever an auto backup
\* does on its next medium and however start_job revives the row.  (A restore
\* whose queue was emptied skips the check.)
InTime(j) ==
  cancelled[j] /\ kind[j] # "RESTORE" /\ worker[j] \in {"queued", "admitted", "working"}

CancelInTime ==
  \A j \in Job : [](InTime(j) => [](status[j] # "COMPLETED"))

\* A row that still says PENDING or RUNNING when its worker has returned is
\* there for one of four reasons: it was cancelled before start_job overwrote
\* the cancellation, its scan found another one running, its auto backup
\* passed over every medium, or its thread ended in an exception outside the
\* "try" of the run.  Every other way out of a run settles the row.
OrphanCauses ==
  \A j \in Job :
    status[j] \in Active /\ worker[j] \in {"done", "raised"} =>
      \/ cancelled[j]
      \/ status[j] = "PENDING" /\ kind[j] = "SCAN"
      \/ status[j] = "PENDING" /\ origin[j] = "auto"
      \/ worker[j] = "raised"

\* A settled row becomes RUNNING again only when an auto backup goes on to its
\* next medium, or, once, when the cancellation came before the start.
Revival ==
  \A j \in Job :
    status[j] \in Terminal /\ status'[j] \in Active =>
      worker[j] \in {"queued", "admitted"} /\ (origin[j] = "auto" \/ cancelled[j])

OnlyAutoRevives == [][Revival]_vars

\* A row that one run is made under: not the row that retry_job creates and
\* deletes again, nor one that an auto backup revives for its next medium.
RunsOnce(j) == origin[j] # "none" /\ (origin[j] = "auto" => MaxMedia = 1)

\* With one handler at a time and no schedule, the guard of the trigger
\* endpoints does what it is for: at most one backup and one restore that runs
\* once is active and not cancelled, restarts or not.
OneActivePerKind ==
  \A k \in {"BACKUP", "RESTORE"} :
    \A i, j \in Job :
      /\ kind[i] = k /\ status[i] \in Active /\ ~cancelled[i] /\ RunsOnce(i)
      /\ kind[j] = k /\ status[j] \in Active /\ ~cancelled[j] /\ RunsOnce(j)
      => i = j

\* A cancelled job's worker stops: no run goes on for ever without polling.
CancelStopsWorker ==
  \A j \in Job : cancelled[j] ~> worker[j] \notin Live

\* A running backup or scan settles, unless it was cancelled, the process was
\* killed under it, or an exception ended it before it was at work.
RunSettles ==
  \A j \in Job :
    (status[j] = "RUNNING" /\ kind[j] # "RESTORE") ~>
      (status[j] # "RUNNING" \/ cancelled[j] \/ worker[j] \in {"raised", "killed"})
=============================================================================
