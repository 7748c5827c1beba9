----------------------------- MODULE JobsProofs -----------------------------
(* Machine-checked proofs about Jobs, for any number of rows, handlers and  *)
(* media.                                                                   *)
EXTENDS Jobs, TLAPS

\* What start_job, complete_job, fail_job and cancel_job rely on without
\* saying it.  The conjuncts are invariant together, not one by one.
Consistent(j) ==
  /\ status[j] = "absent" => ~cancelled[j]
  /\ InTime(j) => status[j] # "COMPLETED"
  /\ worker[j] = "returned" /\ status[j] \in Active => cancelled[j]
  /\ worker[j] = "queued" /\ status[j] = "RUNNING" => cancelled[j]
  /\ worker[j] \in {"queued", "admitted"} /\ status[j] \in Terminal =>
       origin[j] = "auto" \/ cancelled[j]

IInv ==
  /\ TypeOK
  /\ \A j \in Job : Consistent(j)
  /\ OrphanCauses

LEMMA InitTypeOK == Init => TypeOK
<1> SUFFICES ASSUME Init PROVE TypeOK
  OBVIOUS
<1>1. 0 \in 0 .. MaxMedia
  BY ConstantsOK DEF ConstantsOK
<1> QED
  BY <1>1 DEF Init, TypeOK, Live, Ended, Inside, Kind, Active, Terminal

\* Every variable keeps its type.
THEOREM TypeCorrect == Spec => []TypeOK
<1>1. Init => TypeOK
  BY InitTypeOK
<1>2. TypeOK /\ [Next]_vars => TypeOK'
  <2> SUFFICES ASSUME TypeOK, [Next]_vars PROVE TypeOK'
    OBVIOUS
  <2> USE ConstantsOK DEF ConstantsOK, TypeOK, Kind, Active, Terminal, Live, Ended, Inside
  <2>1. CASE \E r \in Request, k \in Kind : TriggerCheck(r, k)
    BY <2>1 DEF TriggerCheck
  <2>2. CASE \E r \in Request, j \in Job : TriggerCreate(r, j)
    BY <2>2 DEF TriggerCreate, CreateJob, SetStatus
  <2>3. CASE \E r \in Request : TriggerRefuse(r)
    BY <2>3 DEF TriggerRefuse
  <2>4. CASE \E old, j \in Job : RetryJob(old, j)
    BY <2>4 DEF RetryJob, CreateJob, SetStatus
  <2>5. CASE \E j \in Job : CancelRead(j) \/ CancelJob(j)
    BY <2>5 DEF CancelRead, CancelJob, SetStatus
  <2>6. CASE \E j \in Job : RunSystemArchival(j) \/ RunSystemScan(j)
    BY <2>6 DEF RunSystemArchival, RunSystemScan, CreateJob, SetStatus
  <2>7. ASSUME NEW j \in Job, WorkerStep(j) PROVE TypeOK'
    <3>1. CASE Retract(j) \/ AutoExhausted(j) \/ MediumExpired(j) \/ ScanBounced(j) \/ ScanAdmitted(j)
      BY <3>1 DEF Retract, AutoExhausted, MediumExpired, ScanBounced, ScanAdmitted, SetStatus, Goto
    <3>2. CASE SkipMedium(j) \/ StartRun(j) \/ StartRaises(j)
      BY <3>2 DEF SkipMedium, StartRun, StartRaises, StartJob, SetStatus, Goto
    <3>3. CASE MediumGone(j) \/ RunFails(j)
      BY <3>3 DEF MediumGone, RunFails, FailJob, SetStatus, Goto
    <3>4. CASE RestoreNothing(j) \/ CompleteRead(j) \/ CompleteJob(j)
      BY <3>4 DEF RestoreNothing, CompleteRead, CompleteJob, SetStatus, Goto
    <3>5. CASE StartScan(j) \/ ObserveCancel(j) \/ FinishCheck(j) \/ RunReturned(j)
      BY <3>5 DEF StartScan, ObserveCancel, FinishCheck, RunReturned, StartJob, SetStatus, Goto
    <3> QED
      BY <2>7, <3>1, <3>2, <3>3, <3>4, <3>5 DEF WorkerStep
  <2>8. CASE Restart
    BY <2>8 DEF Restart
  <2>9. CASE UNCHANGED vars
    BY <2>9 DEF vars
  <2> QED
    BY <2>1, <2>2, <2>3, <2>4, <2>5, <2>6, <2>7, <2>8, <2>9 DEF Next, UserStep
<1> QED
  BY <1>1, <1>2, PTL DEF Spec

-----------------------------------------------------------------------------
(* The inductive invariant.                                                 *)

LEMMA InitIInv == Init => IInv
  BY InitTypeOK DEF Init, IInv, Consistent, InTime, OrphanCauses, Active, Terminal

LEMMA NextIInv == IInv /\ TypeOK' /\ [Next]_vars => IInv'
<1> SUFFICES ASSUME IInv, TypeOK', [Next]_vars
             PROVE  /\ \A j \in Job : Consistent(j)'
                    /\ OrphanCauses'
  BY DEF IInv
<1> USE DEF IInv, TypeOK, Consistent, InTime, OrphanCauses,
            Active, Terminal
\* A handler touches no existing row; a new row is PENDING and not cancelled.
<1>1. CASE \E r \in Request : TriggerRefuse(r) \/ \E k \in Kind : TriggerCheck(r, k)
  BY <1>1 DEF TriggerCheck, TriggerRefuse
<1>2. ASSUME NEW j \in Job, NEW k, NEW o, NEW n,
             NEW w \in {"queued", "retracting"}, CreateJob(j, k, o, n, w)
      PROVE  /\ \A i \in Job : Consistent(i)'
             /\ OrphanCauses'
  BY <1>2 DEF CreateJob, SetStatus
<1>3. CASE \E r \in Request, j \in Job : TriggerCreate(r, j)
  BY <1>2, <1>3 DEF TriggerCreate
<1>4. CASE \E old, j \in Job : RetryJob(old, j)
  BY <1>2, <1>4 DEF RetryJob
<1>5. CASE \E j \in Job : RunSystemArchival(j) \/ RunSystemScan(j)
  BY <1>2, <1>5 DEF RunSystemArchival, RunSystemScan
<1>6. CASE \E j \in Job : CancelRead(j) \/ CancelJob(j)
  BY <1>6 DEF CancelRead, CancelJob, SetStatus
<1>7. ASSUME NEW j \in Job, WorkerStep(j)
      PROVE  /\ \A i \in Job : Consistent(i)'
             /\ OrphanCauses'
  <2> USE DEF Goto, SetStatus
  <2>1. CASE Retract(j)
    BY <2>1 DEF Retract
  <2>2. CASE SkipMedium(j) \/ AutoExhausted(j) \/ MediumExpired(j)
    BY <2>2 DEF SkipMedium, AutoExhausted, MediumExpired
  <2>3. CASE MediumGone(j)
    BY <2>3 DEF MediumGone, FailJob
  <2>4. CASE StartRun(j) \/ StartRaises(j)
    BY <2>4 DEF StartRun, StartRaises, StartJob
  <2>5. CASE ScanBounced(j) \/ ScanAdmitted(j)
    BY <2>5 DEF ScanBounced, ScanAdmitted
  <2>6. CASE StartScan(j)
    BY <2>6 DEF StartScan, StartJob
  <2>7. CASE RunFails(j)
    BY <2>7 DEF RunFails, FailJob
  <2>8. CASE RestoreNothing(j)
    BY <2>8 DEF RestoreNothing
  <2>9. CASE ObserveCancel(j) \/ FinishCheck(j)
    BY <2>9 DEF ObserveCancel, FinishCheck
  <2>10. CASE CompleteRead(j) \/ CompleteJob(j)
    BY <2>10 DEF CompleteRead, CompleteJob
  <2>11. CASE RunReturned(j)
    BY <2>11 DEF RunReturned
  <2> QED
    BY <1>7, <2>1, <2>2, <2>3, <2>4, <2>5, <2>6, <2>7, <2>8, <2>9, <2>10, <2>11
       DEF WorkerStep
<1>8. CASE Restart
  BY <1>8 DEF Restart, Live, Inside
<1>9. CASE UNCHANGED vars
  BY <1>9 DEF vars
<1> QED
  BY <1>1, <1>3, <1>4, <1>5, <1>6, <1>7, <1>8, <1>9 DEF Next, UserStep

THEOREM Invariance == Spec => []IInv
<1>1. Spec => []TypeOK
  BY TypeCorrect
<1> QED
  BY <1>1, InitIInv, NextIInv, PTL DEF Spec

\* A row abandoned by its worker in an active state has one of three causes.
THEOREM OrphanCausesHolds == Spec => []OrphanCauses
<1>1. IInv => OrphanCauses
  BY DEF IInv
<1> QED
  BY <1>1, Invariance, PTL

-----------------------------------------------------------------------------
(* Cancellation.                                                            *)

\* The states from which a cancelled row cannot be completed any more.
Doomed(j) ==
  /\ cancelled[j] /\ kind[j] # "RESTORE" /\ status[j] # "COMPLETED"
  /\ worker[j] \in {"queued", "admitted", "working", "returned"} \union Ended

LEMMA StillDoomed == ASSUME NEW j \in Job PROVE IInv /\ Doomed(j) /\ [Next]_vars => Doomed(j)'
<1> SUFFICES ASSUME IInv, Doomed(j), [Next]_vars PROVE Doomed(j)'
  OBVIOUS
<1> USE DEF IInv, TypeOK, Consistent, Doomed, Ended, SetStatus, Goto
<1>1. CASE \E r \in Request : TriggerRefuse(r) \/ \E k \in Kind : TriggerCheck(r, k)
  BY <1>1 DEF TriggerCheck, TriggerRefuse
<1>2. CASE \/ \E r \in Request, i \in Job : TriggerCreate(r, i)
           \/ \E old, i \in Job : RetryJob(old, i)
           \/ \E i \in Job : RunSystemArchival(i) \/ RunSystemScan(i)
  BY <1>2 DEF TriggerCreate, RetryJob, RunSystemArchival, RunSystemScan, CreateJob
<1>3. CASE \E i \in Job : CancelRead(i) \/ CancelJob(i)
  BY <1>3 DEF CancelRead, CancelJob
<1>4. ASSUME NEW i \in Job, WorkerStep(i) PROVE Doomed(j)'
  <2>1. CASE \/ Retract(i) \/ SkipMedium(i) \/ AutoExhausted(i) \/ MediumExpired(i)
             \/ ScanBounced(i) \/ ScanAdmitted(i)
    BY <2>1 DEF Retract, SkipMedium, AutoExhausted, MediumExpired, ScanBounced, ScanAdmitted
  <2>2. CASE MediumGone(i) \/ RunFails(i)
    BY <2>2 DEF MediumGone, RunFails, FailJob
  <2>3. CASE StartRun(i) \/ StartRaises(i) \/ StartScan(i)
    BY <2>3 DEF StartRun, StartRaises, StartScan, StartJob
  <2>4. CASE RestoreNothing(i) \/ ObserveCancel(i) \/ FinishCheck(i) \/ RunReturned(i)
    BY <2>4 DEF RestoreNothing, ObserveCancel, FinishCheck, RunReturned
  <2>5. CASE CompleteRead(i) \/ CompleteJob(i)
    BY <2>5 DEF CompleteRead, CompleteJob
  <2> QED
    BY <1>4, <2>1, <2>2, <2>3, <2>4, <2>5 DEF WorkerStep
<1>5. CASE Restart
  BY <1>5 DEF Restart, Live, Inside
<1>6. CASE UNCHANGED vars
  BY <1>6 DEF vars
<1> QED
  BY <1>1, <1>2, <1>3, <1>4, <1>5, <1>6 DEF Next, UserStep

\* A cancellation written before the worker's last check is final.
THEOREM CancelInTimeHolds == Spec => CancelInTime
<1> SUFFICES ASSUME NEW j \in Job PROVE Spec => [](InTime(j) => [](status[j] # "COMPLETED"))
  BY DEF CancelInTime
<1>1. IInv /\ InTime(j) => Doomed(j)
  BY DEF IInv, TypeOK, Consistent, InTime, Doomed, Ended
<1>2. Doomed(j) => status[j] # "COMPLETED"
  BY DEF Doomed
<1> QED
  BY <1>1, <1>2, StillDoomed, Invariance, PTL DEF Spec

-----------------------------------------------------------------------------
(* Which settled rows run again.                                            *)

\* A settled row becomes active again only through an auto backup, or when its
\* cancellation preceded its start.
THEOREM OnlyAutoRevivesHolds == Spec => OnlyAutoRevives
<1>1. IInv /\ [Next]_vars => [Revival]_vars
  <2> SUFFICES ASSUME IInv, [Next]_vars, NEW j \in Job,
                      status[j] \in Terminal, status'[j] \in Active
               PROVE  /\ worker[j] \in {"queued", "admitted"}
                      /\ origin[j] = "auto" \/ cancelled[j]
    BY DEF Revival
  <2> USE DEF IInv, TypeOK, Consistent, Active, Terminal, SetStatus
  <2>1. status' # status
    OBVIOUS
  <2>2. ~UserStep
    BY DEF UserStep, TriggerCheck, TriggerCreate, TriggerRefuse, RetryJob,
           CancelRead, CancelJob, RunSystemArchival, RunSystemScan, CreateJob
  <2>3. PICK i \in Job : WorkerStep(i)
    BY <2>1, <2>2 DEF Next, Restart, vars
  <2>4. CASE StartRun(i) \/ StartRaises(i) \/ StartScan(i)
    BY <2>4 DEF StartRun, StartRaises, StartScan, StartJob
  <2>5. CASE ~(StartRun(i) \/ StartRaises(i) \/ StartScan(i))
    BY <2>1, <2>3, <2>5 DEF WorkerStep, Retract, SkipMedium, AutoExhausted,
       MediumExpired, MediumGone, ScanBounced, ScanAdmitted, RunFails, RestoreNothing,
       ObserveCancel, FinishCheck, CompleteRead, CompleteJob, RunReturned, FailJob
  <2> QED
    BY <2>4, <2>5
<1> QED
  BY <1>1, Invariance, PTL DEF Spec, OnlyAutoRevives

-----------------------------------------------------------------------------
(* The guard of the trigger endpoints is enough when nothing runs beside it. *)

Serial ==
  /\ CronEnabled = FALSE
  /\ \A r, s \in Request : r = s

\* A row that counts against the guard and runs once.
Counts(j, k) ==
  kind[j] = k /\ status[j] \in Active /\ ~cancelled[j] /\ RunsOnce(j)

SerialRow(j) ==
  /\ status[j] = "absent" => worker[j] = "none"
  /\ worker[j] = "retracting" => origin[j] = "none"
  /\ worker[j] = "admitted" => kind[j] = "SCAN"
  /\ origin[j] = "auto" => kind[j] = "BACKUP"
  /\ MaxMedia = 1 /\ origin[j] = "auto" /\ worker[j] \in Inside \union {"returned"}
       => left[j] = 0
  /\ worker[j] = "queued" /\ kind[j] # "SCAN" /\ status[j] \in Terminal
       => cancelled[j] \/ ~RunsOnce(j)

SInv ==
  /\ \A j \in Job : SerialRow(j)
  /\ \A r \in Request, j \in Job :
       request[r] \in {"BACKUP", "RESTORE"} => ~Counts(j, request[r])
  /\ OneActivePerKind

LEMMA NextSInv == ASSUME Serial PROVE IInv /\ SInv /\ TypeOK' /\ [Next]_vars => SInv'
<1> SUFFICES ASSUME IInv, SInv, TypeOK', [Next]_vars PROVE SInv'
  OBVIOUS
<1> USE DEF SInv, IInv, TypeOK, SerialRow, Counts, RunsOnce, OneActivePerKind, Active, Terminal,
            SetStatus, Inside
<1>1. CASE \E r \in Request : TriggerRefuse(r)
  BY <1>1 DEF TriggerRefuse
<1>2. CASE \E r \in Request, k \in Kind : TriggerCheck(r, k)
  BY <1>2, Serial DEF Serial, TriggerCheck, ActiveJobExists
<1>3. CASE \E r \in Request, j \in Job : TriggerCreate(r, j)
  <2> PICK r \in Request, j \in Job : TriggerCreate(r, j)
    BY <1>3
  <2>1. /\ status[j] = "absent" /\ status' = [status EXCEPT ![j] = "PENDING"]
        /\ kind' = [kind EXCEPT ![j] = request[r]]
        /\ worker' = [worker EXCEPT ![j] = "queued"]
        /\ \E n : left' = [left EXCEPT ![j] = n]
        /\ cancelled' = cancelled
        /\ \/ origin' = [origin EXCEPT ![j] = "single"]
           \/ origin' = [origin EXCEPT ![j] = "auto"] /\ request[r] = "BACKUP"
        /\ request' = [request EXCEPT ![r] = "idle"]
    BY DEF TriggerCreate, CreateJob
  <2>2. \A s \in Request : request'[s] = "idle"
    BY <2>1, Serial DEF Serial
  <2>3. \A i \in Job : SerialRow(i)'
    BY <2>1
  <2>4. \A i \in Job \ {j}, k \in Kind : Counts(i, k)' <=> Counts(i, k)
    BY <2>1
  <2>5. \A i \in Job \ {j} : request[r] # "SCAN" => ~Counts(i, request[r])
    BY <2>1 DEF TriggerCreate, Kind
  <2>6. OneActivePerKind'
    BY <2>1, <2>4, <2>5 DEF Kind
  <2> QED
    BY <2>2, <2>3, <2>6
<1>4. CASE \E old, j \in Job : RetryJob(old, j)
  <2> PICK old \in Job, j \in Job : RetryJob(old, j)
    BY <1>4
  <2>1. /\ status[j] = "absent" /\ status' = [status EXCEPT ![j] = "PENDING"]
        /\ kind' = [kind EXCEPT ![j] = kind[old]]
        /\ \/ /\ kind[old] = "SCAN"
              /\ worker' = [worker EXCEPT ![j] = "queued"]
              /\ origin' = [origin EXCEPT ![j] = "single"]
           \/ /\ worker' = [worker EXCEPT ![j] = "retracting"]
              /\ origin' = [origin EXCEPT ![j] = "none"]
        /\ \E n : left' = [left EXCEPT ![j] = n]
        /\ cancelled' = cancelled /\ request' = request
    BY DEF RetryJob, CreateJob
  <2>2. \A i \in Job : SerialRow(i)'
    BY <2>1
  <2>3. \A k \in {"BACKUP", "RESTORE"} : ~Counts(j, k)'
    BY <2>1
  <2>4. \A i \in Job \ {j}, k \in Kind : Counts(i, k)' <=> Counts(i, k)
    BY <2>1
  <2>5. \A r \in Request, i \in Job :
          request'[r] \in {"BACKUP", "RESTORE"} => ~Counts(i, request[r])'
    BY <2>1, <2>3, <2>4 DEF Kind
  <2>6. OneActivePerKind'
    BY <2>1, <2>3, <2>4 DEF Kind
  <2> QED
    BY <2>1, <2>2, <2>5, <2>6
<1>5. CASE \E j \in Job : CancelRead(j) \/ CancelJob(j)
  BY <1>5 DEF CancelRead, CancelJob
<1>6. ASSUME NEW j \in Job, WorkerStep(j) PROVE SInv'
  <2> USE DEF Goto
  <2>1. CASE Retract(j) \/ SkipMedium(j) \/ AutoExhausted(j) \/ MediumExpired(j)
    BY <2>1 DEF Retract, SkipMedium, AutoExhausted, MediumExpired
  <2>2. CASE MediumGone(j) \/ RunFails(j)
    BY <2>2 DEF MediumGone, RunFails, FailJob
  <2>3. CASE StartRun(j) \/ StartRaises(j)
    <3>1. MaxMedia = 1 => left[j] = 1 /\ left'[j] = 0
      BY <2>3 DEF StartRun, StartRaises
    <3>2. status[j] \in Active \/ cancelled[j] \/ ~RunsOnce(j)
      BY <2>3 DEF StartRun, StartRaises
    <3> QED
      BY <2>3, <3>1, <3>2 DEF StartRun, StartRaises, StartJob
  <2>4. CASE ScanBounced(j) \/ ScanAdmitted(j)
    BY <2>4 DEF ScanBounced, ScanAdmitted
  <2>5. CASE StartScan(j)
    BY <2>5 DEF StartScan, StartJob
  <2>6. CASE RestoreNothing(j) \/ CompleteRead(j) \/ CompleteJob(j)
    BY <2>6 DEF RestoreNothing, CompleteRead, CompleteJob
  <2>7. CASE ObserveCancel(j) \/ FinishCheck(j)
    BY <2>7 DEF ObserveCancel, FinishCheck
  <2>8. CASE RunReturned(j)
    BY <2>8 DEF RunReturned
  <2> QED
    BY <1>6, <2>1, <2>2, <2>3, <2>4, <2>5, <2>6, <2>7, <2>8 DEF WorkerStep
<1>7. CASE Restart
  BY <1>7 DEF Restart, Live
<1>8. CASE UNCHANGED vars
  BY <1>8 DEF vars
<1>9. ~\E j \in Job : RunSystemArchival(j) \/ RunSystemScan(j)
  BY Serial DEF Serial, RunSystemArchival, RunSystemScan
<1> QED
  BY <1>1, <1>2, <1>3, <1>4, <1>5, <1>6, <1>7, <1>8, <1>9 DEF Next, UserStep

\* With one handler and no schedule, at most one backup and one restore that runs
\* once is active and not cancelled: the guard and the creation
\* being two transactions does no harm, nor do restarts, nor does the
\* resurrection of cancelled rows.
THEOREM OneActivePerKindHolds == ASSUME Serial PROVE Spec => []OneActivePerKind
<1>1. Init => SInv
  BY DEF Init, SInv, SerialRow, Counts, RunsOnce, OneActivePerKind, Active, Terminal, Inside
<1>2. IInv => TypeOK
  BY DEF IInv
<1>3. SInv => OneActivePerKind
  BY DEF SInv
<1> QED
  BY <1>1, <1>2, <1>3, NextSInv, Invariance, PTL DEF Spec

=============================================================================
