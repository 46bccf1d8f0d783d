------------------------ MODULE OperationLockProofs ------------------------
(***************************************************************************)
(* Theorems about OperationLock, for any set of requests and any number of *)
(* faults.                                                                 *)
(***************************************************************************)
EXTENDS OperationLock, TLAPS

(***************************************************************************)
(* Types                                                                   *)
(***************************************************************************)
(* Moving a request to another place of its handler keeps its type. *)
LEMMA GotoType ==
  ASSUME TypeOK, NEW r \in Req, NEW pc \in Pc, Goto(r, pc)
  PROVE  req' \in [Req -> Request]
PROOF
<1>1. req \in [Req -> Request] /\ req[r] \in Request
  BY DEF TypeOK
<1>2. [req[r] EXCEPT !.pc = pc] \in Request
  BY <1>1 DEF Request
<1> QED
  BY <1>1, <1>2 DEF Goto

(* The steps of a request's checks keep the types. *)
LEMMA CheckType ==
  ASSUME TypeOK, NEW r \in Req, CheckStep(r)
  PROVE  TypeOK'
PROOF
<1>0. req[r] \in Request /\ req \in [Req -> Request]
  BY DEF TypeOK
<1> USE NoReqAssumption, KindAssumption
<1>1. ASSUME NEW kind \in Kind, NEW given \in Token, Begin(r, kind, given) PROVE TypeOK'
  <2> DEFINE new == [NewRequest EXCEPT
               !.pc = IF kind = "RELEASE" THEN "findPrep" ELSE "read",
               !.kind = kind, !.given = given,
               !.pass = IF kind = "AUTO_BACKUP" THEN "orphaned" ELSE "stale"]
  <2>1. new \in Request
    BY DEF NewRequest, Request, Standby, Token, Pc, Kind
  <2>2. req' = [req EXCEPT ![r] = new]
    BY <1>1 DEF Begin
  <2> QED BY <1>0, <1>1, <2>1, <2>2 DEF TypeOK, Begin, row, jobs
<1>2. ASSUME NEW pc \in Pc, Read(r, pc) PROVE TypeOK'
  BY <1>0, <1>2 DEF TypeOK, Read, Seen, Request, row, jobs
<1>3. CASE ReadForLater(r)
  BY <1>3, <1>2 DEF ReadForLater, Pc
<1>4. CASE ReadIdle(r)
  BY <1>4, <1>2 DEF ReadIdle, NextCheck, Pc
<1>5. CASE ReadExpired(r)
  BY <1>5, <1>2 DEF ReadExpired, Pc
<1>6. CASE ReadActive(r)
  BY <1>6, <1>2 DEF ReadActive, Pc
<1>7. CASE ClearExpired(r)
  <2>1. req' \in [Req -> Request]
    BY <1>7, GotoType DEF ClearExpired, NextCheck, Pc
  <2> QED BY <1>7, <2>1 DEF TypeOK, ClearExpired, Acts, IdleOp, Operation, Token, jobs
<1>8. CASE ReadCurrent(r)
  BY <1>0, <1>8 DEF TypeOK, ReadCurrent, Request, row, jobs, Pc
<1>9. CASE ClaimPrepared(r)
  <2>1. op' \in Operation
    BY <1>9 DEF TypeOK, ClaimPrepared, Operation
  <2>2. req' \in [Req -> Request]
    BY <1>0, <1>9 DEF TypeOK, ClaimPrepared, Request, Pc
  <2> QED BY <1>9, <2>1, <2>2 DEF TypeOK, ClaimPrepared, jobs
<1>10. CASE ClaimRefused(r)
  <2>1. req' \in [Req -> Request]
    BY <1>10, GotoType DEF ClaimRefused, Pc
  <2> QED BY <1>10, <2>1 DEF TypeOK, ClaimRefused, row, jobs
<1>11. ASSUME EndPass(r) PROVE req' \in [Req -> Request]
  BY <1>0, <1>11 DEF EndPass, Request, Pc
<1>12. CASE ReadOldJobs(r)
  <2>1. req' \in [Req -> Request]
    <3>1. OldJobs(req[r].pass) \in SUBSET Req
      BY DEF OldJobs
    <3>2. [req[r] EXCEPT !.old = OldJobs(req[r].pass), !.pc = "ps"] \in Request
      BY <1>0, <3>1 DEF Request, Pc
    <3> QED BY <1>0, <1>11, <1>12, <3>2 DEF ReadOldJobs
  <2> QED BY <1>12, <2>1 DEF TypeOK, ReadOldJobs, row, jobs
<1>13. CASE PsFindsTool(r)
  BY <1>11, <1>13 DEF TypeOK, PsFindsTool, row, jobs
<1>14. CASE PsFindsNone(r)
  <2>1. req' \in [Req -> Request]
    BY <1>14, GotoType DEF PsFindsNone, Pc
  <2> QED BY <1>14, <2>1 DEF TypeOK, PsFindsNone, row, jobs
<1>15. CASE PsFails(r)
  <2>1. req' \in [Req -> Request]
    BY <1>15, GotoType DEF PsFails, Pc
  <2> QED BY <1>15, <2>1 DEF TypeOK, PsFails, UseFault, row, jobs
<1>16. ASSUME NEW j \in Req, MarkFailed(r, j) PROVE TypeOK'
  <2>1. req' \in [Req -> Request]
    <3>1. [req[r] EXCEPT !.old = req[r].old \ {j}] \in Request
      BY <1>0 DEF Request
    <3> QED BY <1>0, <1>11, <1>16, <3>1 DEF MarkFailed
  <2>2. job' \in [Req -> JobStatus] /\ file' \in [Req -> {"none", "kept", "quarantined"}]
    BY <1>16 DEF TypeOK, MarkFailed, JobStatus
  <2> QED BY <1>16, <2>1, <2>2 DEF TypeOK, MarkFailed, Acts, row
<1>17. CASE FindsRunningBackup(r)
  <2>1. req' \in [Req -> Request]
    BY <1>17, GotoType DEF FindsRunningBackup, Pc
  <2> QED BY <1>17, <2>1 DEF TypeOK, FindsRunningBackup, row, jobs
<1>18. CASE FindsNoBackup(r)
  <2>1. req' \in [Req -> Request]
    BY <1>0, <1>18 DEF FindsNoBackup, Goto, Request, Pc
  <2> QED BY <1>18, <2>1 DEF TypeOK, FindsNoBackup, row, jobs
<1>19. CASE TakeLock(r)
  <2>1. req' \in [Req -> Request]
    BY <1>0, <1>19 DEF TakeLock, Request, Token, Pc
  <2> QED BY <1>19, <2>1 DEF TypeOK, TakeLock, Acts, Operation, Standby, Token, jobs
<1> QED
  BY <1>1, <1>3, <1>4, <1>5, <1>6, <1>7, <1>8, <1>9, <1>10, <1>12, <1>13, <1>14, <1>15,
     <1>16, <1>17, <1>18, <1>19 DEF CheckStep

(* The steps of a request's work keep the types. *)
LEMMA WorkType ==
  ASSUME TypeOK, NEW r \in Req, WorkStep(r)
  PROVE  TypeOK'
PROOF
<1>0. req[r] \in Request /\ req \in [Req -> Request]
  BY DEF TypeOK
<1>1. CASE CreateJob(r)
  <2>1. req' \in [Req -> Request]
    BY <1>1, GotoType DEF CreateJob, Pc
  <2> QED BY <1>1, <2>1 DEF TypeOK, CreateJob, Acts, row, JobStatus, Phase
<1>2. CASE BackupDeferred(r)
  <2>1. req' \in [Req -> Request]
    BY <1>2, GotoType DEF BackupDeferred, Pc
  <2> QED BY <1>2, <2>1 DEF TypeOK, BackupDeferred, row, jobs
<1>3. CASE StartRestore(r)
  <2>1. req' \in [Req -> Request]
    BY <1>3, GotoType DEF StartRestore, Pc
  <2> QED BY <1>3, <2>1 DEF TypeOK, StartRestore, row, jobs, Phase
<1>4. CASE BackupWritten(r)
  BY <1>4 DEF TypeOK, BackupWritten, row, Phase
<1>5. CASE ScriptSucceeds(r)
  <2>1. req' \in [Req -> Request]
    BY <1>5, GotoType DEF ScriptSucceeds, AfterScript, Pc
  <2> QED BY <1>5, <2>1 DEF TypeOK, ScriptSucceeds, row, jobs, Phase
<1>6. CASE ScriptFails(r)
  <2>1. req' \in [Req -> Request]
    BY <1>0, <1>6 DEF ScriptFails, AfterScript, Request, Pc
  <2>2. file' \in [Req -> {"none", "kept", "quarantined"}] /\ script' \in [Req -> Phase]
    BY <1>6 DEF TypeOK, ScriptFails, Phase
  <2> QED BY <1>6, <2>1, <2>2 DEF TypeOK, ScriptFails, UseFault, row
<1>7. CASE ScriptFailsUnnoticed(r)
  <2>1. req' \in [Req -> Request]
    BY <1>0, <1>7, GotoType DEF ScriptFailsUnnoticed, Pc
  <2> QED BY <1>7, <2>1 DEF TypeOK, ScriptFailsUnnoticed, UseFault, row, jobs, Phase
<1>8. CASE FinishJob(r)
  <2>1. req' \in [Req -> Request]
    BY <1>8, GotoType DEF FinishJob, Pc
  <2> QED BY <1>8, <2>1 DEF TypeOK, FinishJob, row, JobStatus
<1>9. CASE ReleaseReads(r)
  <2>1. req' \in [Req -> Request]
    BY <1>9, GotoType DEF ReleaseReads, Pc
  <2> QED BY <1>9, <2>1 DEF TypeOK, ReleaseReads, row, jobs
<1>10. CASE ReleaseWrites(r)
  <2>1. req' \in [Req -> Request]
    BY <1>10, GotoType DEF ReleaseWrites, Pc
  <2>2. req[r].prev \in Standby
    BY <1>0 DEF Request
  <2> QED
    BY <1>10, <2>1, <2>2 DEF TypeOK, ReleaseWrites, IdleOp, Operation, Token, Standby, jobs
<1>11. CASE FindPrepared(r)
  <2>1. req' \in [Req -> Request]
    BY <1>11, GotoType DEF FindPrepared, Pc
  <2> QED BY <1>11, <2>1 DEF TypeOK, FindPrepared, row, jobs
<1>12. CASE ReleasePrepared(r)
  <2>1. PreparationWhere(req[r].given) \in BOOLEAN
    BY DEF PreparationWhere, TypeOK, Operation
  <2>2. req' \in [Req -> Request]
    BY <1>0, <1>12, <2>1 DEF ReleasePrepared, Request, Pc
  <2> QED BY <1>12, <2>2 DEF TypeOK, ReleasePrepared, IdleOp, Operation, Token, jobs
<1>13. CASE SearchFails(r)
  <2>1. req' \in [Req -> Request]
    BY <1>0, <1>13 DEF SearchFails, EndPass, Request, Pc
  <2> QED BY <1>13, <2>1 DEF TypeOK, SearchFails, UseFault, row, jobs
<1>14. CASE QueryFails(r)
  <2>1. req' \in [Req -> Request]
    BY <1>14, GotoType DEF QueryFails, Pc
  <2> QED BY <1>14, <2>1 DEF TypeOK, QueryFails, UseFault, row, jobs
<1>15. CASE QueryCaught(r)
  <2>1. req' \in [Req -> Request]
    BY <1>0, <1>15 DEF QueryCaught, AfterScript, Request, Pc
  <2>2. file' \in [Req -> {"none", "kept", "quarantined"}]
    BY <1>15 DEF TypeOK, QueryCaught
  <2> QED BY <1>15, <2>1, <2>2 DEF TypeOK, QueryCaught, UseFault, row
<1> QED
  BY <1>1, <1>2, <1>3, <1>4, <1>5, <1>6, <1>7, <1>8, <1>9, <1>10, <1>11, <1>12, <1>13,
     <1>14, <1>15 DEF WorkStep

(* Time and crashes keep the types. *)
LEMMA EnvironmentType ==
  ASSUME TypeOK, Environment
  PROVE  TypeOK'
PROOF
<1>1. ASSUME NEW r \in Req, ScriptGoesOn(r) PROVE TypeOK'
  BY <1>1 DEF TypeOK, ScriptGoesOn, row, jobs, Phase
<1>2. ASSUME NEW r \in Req, JobAges(r) PROVE TypeOK'
  BY <1>2 DEF TypeOK, JobAges, row, Age
<1>3. ASSUME NEW r \in Req, LeftScriptEnds(r) PROVE TypeOK'
  BY <1>3 DEF TypeOK, LeftScriptEnds, row, Phase
<1>4. ASSUME NEW s \in Req, NEW startup \in StartupKind, Crash(startup, s) PROVE TypeOK'
  <2> DEFINE new == [NewRequest EXCEPT !.kind = startup, !.pc = "oldJobs",
                      !.pass = IF startup = "WORKER_STARTUP" THEN "orphaned" ELSE "stale"]
  <2>1. new \in Request
    BY DEF NewRequest, Request, Standby, Token, Pc, StartupKind
  <2>2. \A r \in Req : [req[r] EXCEPT !.pc = "dead"] \in Request
    BY DEF TypeOK, Request, Pc
  <2>3. req' \in [Req -> Request]
    BY <1>4, <2>1, <2>2 DEF TypeOK, Crash
  <2> QED BY <1>4, <2>3 DEF TypeOK, Crash, UseFault, row, jobs
<1>5. CASE LockExpires
  BY <1>5 DEF TypeOK, LockExpires, Operation, jobs
<1> QED
  BY <1>1, <1>2, <1>3, <1>4, <1>5 DEF Environment

(* TypeOK: no handler, crash or timer ever leaves a value of the wrong     *)
(* type in the row, in a job or in a request.                              *)
THEOREM TypeCorrect == Spec => []TypeOK
PROOF
<1>1. Init => TypeOK
  <2> SUFFICES ASSUME Init PROVE TypeOK
    OBVIOUS
  <2>1. NewRequest \in Request
    BY DEF NewRequest, Request, Pc, Kind, Token, Standby
  <2>2. op \in Operation
    BY DEF Init, IdleOp, Operation, Token
  <2> QED
    BY <2>1, <2>2, FaultBound DEF Init, TypeOK, Standby, JobStatus, Age, Phase
<1>2. TypeOK /\ [Next]_vars => TypeOK'
  <2> SUFFICES ASSUME TypeOK, [Next]_vars PROVE TypeOK'
    OBVIOUS
  <2>1. CASE UNCHANGED vars
    BY <2>1 DEF TypeOK, vars, row, jobs
  <2> QED
    BY <2>1, CheckType, WorkType, EnvironmentType DEF Next
<1> QED
  BY <1>1, <1>2, PTL DEF Spec

(***************************************************************************)
(* A reservation ends once                                                 *)
(***************************************************************************)
(* A step that neither makes nor ends a reservation. *)
KeepsReservations ==
  /\ \A s \in Req : /\ req'[s].won = req[s].won /\ req'[s].given = req[s].given
                    /\ Reservation(s) => Reservation(s)'
  /\ op'.prepared => op.prepared /\ op'.token = op.token

(* Such a step keeps the invariant. *)
LEMMA KeepsReservationInv ==
  ASSUME TypeOK, ReservationInv, KeepsReservations
  PROVE  ReservationInv'
PROOF
<1>1. \A r \in Req : req[r].given \in Req \cup {NoReq}
  BY DEF TypeOK, Request, Token
<1> QED
  BY <1>1 DEF ReservationInv, KeepsReservations, ReservationEndsOnce

(* The steps of the checks keep the invariant. *)
LEMMA CheckReservation ==
  ASSUME TypeOK, ReservationInv, NEW r \in Req, CheckStep(r)
  PROVE  ReservationInv'
PROOF
<1>0. /\ req \in [Req -> Request] /\ req[r] \in Request
      /\ \A s \in Req : req[s].given \in Req \cup {NoReq}
  BY DEF TypeOK, Request, Token
<1> USE NoReqAssumption
<1>1. ASSUME NEW kind \in Kind, NEW given \in Token, Begin(r, kind, given)
      PROVE  ReservationInv'
  <2>1. /\ \A s \in Req \ {r} : req'[s] = req[s]
        /\ req'[r].given = given /\ req'[r].won = FALSE
        /\ given = NoReq \/ (given \in Req /\ Reservation(given))
        /\ op' = op /\ ~Reservation(r)
    BY <1>0, <1>1 DEF Begin, NewRequest, Request, row, At, Reservation
  <2>2. \A s \in Req : Reservation(s) => Reservation(s)'
    BY <2>1 DEF Reservation
  <2>3. (\A s \in Req : req[s].given # NoReq => Reservation(req[s].given))'
    BY <1>0, <2>1, <2>2 DEF ReservationInv
  <2> QED
    BY <2>1, <2>3 DEF ReservationInv, ReservationEndsOnce
<1>2. ASSUME NEW pc \in Pc, Read(r, pc) PROVE ReservationInv'
  BY <1>0, <1>2, KeepsReservationInv DEF KeepsReservations, Read, At, Reservation, row, Request
<1>3. CASE ReadForLater(r) \/ ReadIdle(r) \/ ReadExpired(r) \/ ReadActive(r)
  BY <1>2, <1>3 DEF ReadForLater, ReadIdle, ReadExpired, ReadActive, NextCheck, Pc
<1>4. CASE ClearExpired(r)
  BY <1>0, <1>4, KeepsReservationInv
     DEF KeepsReservations, ClearExpired, Goto, At, Reservation, IdleOp, Request
<1>5. CASE ReadCurrent(r)
  BY <1>0, <1>5, KeepsReservationInv DEF KeepsReservations, ReadCurrent, At, Reservation, row, Request
<1>6. CASE ClaimPrepared(r)
  <2>1. /\ \A s \in Req \ {r} : req'[s] = req[s]
        /\ req'[r].given = req[r].given /\ req'[r].won = TRUE
        /\ op.prepared /\ op.token = req[r].given
        /\ op'.prepared = FALSE /\ ~Reservation(r)
    BY <1>0, <1>6 DEF ClaimPrepared, PreparationWhere, At, Request, Reservation, TypeOK, Operation
  <2>2. \A s \in Req : Reservation(s) => Reservation(s)'
    BY <2>1 DEF Reservation
  <2>3. (\A s \in Req : req[s].given # NoReq => Reservation(req[s].given))'
    BY <1>0, <2>1, <2>2 DEF ReservationInv
  <2> QED
    BY <2>1, <2>3 DEF ReservationInv, ReservationEndsOnce
<1>7. CASE ClaimRefused(r)
  BY <1>0, <1>7, KeepsReservationInv
     DEF KeepsReservations, ClaimRefused, Goto, At, Reservation, row, Request
<1>8. ASSUME ~At(r, "done"), EndPass(r), UNCHANGED op PROVE ReservationInv'
  BY <1>0, <1>8, KeepsReservationInv DEF KeepsReservations, EndPass, At, Reservation, Request
<1>9. CASE ReadOldJobs(r)
  <2>1. CASE EndPass(r)
    BY <1>8, <1>9, <2>1 DEF ReadOldJobs, At, row
  <2>2. CASE req' = [req EXCEPT ![r] = [@ EXCEPT !.old = OldJobs(req[r].pass), !.pc = "ps"]]
    BY <1>0, <1>9, <2>2, KeepsReservationInv
       DEF KeepsReservations, ReadOldJobs, At, Reservation, row, Request
  <2> QED BY <1>9, <2>1, <2>2 DEF ReadOldJobs
<1>10. CASE PsFindsTool(r)
  BY <1>8, <1>10 DEF PsFindsTool, At, row
<1>11. CASE PsFindsNone(r) \/ PsFails(r)
  BY <1>0, <1>11, KeepsReservationInv
     DEF KeepsReservations, PsFindsNone, PsFails, Goto, At, Reservation, row, Request
<1>12. ASSUME NEW j \in Req, MarkFailed(r, j) PROVE ReservationInv'
  <2>1. CASE EndPass(r)
    BY <1>8, <1>12, <2>1 DEF MarkFailed, At, row
  <2>2. CASE req' = [req EXCEPT ![r] = [@ EXCEPT !.old = req[r].old \ {j}]]
    BY <1>0, <1>12, <2>2, KeepsReservationInv
       DEF KeepsReservations, MarkFailed, At, Reservation, row, Request
  <2> QED BY <1>12, <2>1, <2>2 DEF MarkFailed
<1>13. CASE FindsRunningBackup(r) \/ FindsNoBackup(r)
  BY <1>0, <1>13, KeepsReservationInv
     DEF KeepsReservations, FindsRunningBackup, FindsNoBackup, Goto, At, Reservation, row, Request
<1>14. CASE TakeLock(r)
  <2>1. /\ \A s \in Req \ {r} : req'[s] = req[s]
        /\ req'[r].given = req[r].given /\ req'[r].won = req[r].won
        /\ op'.token = r /\ ~Reservation(r)
    BY <1>0, <1>14 DEF TakeLock, At, Request, Reservation
  <2>2. \A s \in Req : Reservation(s) => Reservation(s)'
    BY <2>1 DEF Reservation
  <2>3. \A s \in Req : req'[s].given = req[s].given /\ req'[s].won = req[s].won
    BY <2>1
  <2>4. \A s \in Req : req[s].given # r
    BY <2>1 DEF ReservationInv
  <2> QED
    BY <1>0, <2>1, <2>2, <2>3, <2>4 DEF ReservationInv, ReservationEndsOnce
<1> QED
  BY <1>1, <1>3, <1>4, <1>5, <1>6, <1>7, <1>9, <1>10, <1>11, <1>12, <1>13, <1>14 DEF CheckStep

(* The steps of the work keep the invariant. *)
LEMMA WorkReservation ==
  ASSUME TypeOK, ReservationInv, NEW r \in Req, WorkStep(r)
  PROVE  ReservationInv'
PROOF
<1>0. /\ req \in [Req -> Request] /\ req[r] \in Request
      /\ \A s \in Req : req[s].given \in Req \cup {NoReq}
  BY DEF TypeOK, Request, Token
<1> USE KeepsReservationInv DEF KeepsReservations, At, Reservation
<1>1. CASE CreateJob(r) \/ BackupDeferred(r) \/ StartRestore(r) \/ BackupWritten(r)
  BY <1>0, <1>1 DEF CreateJob, BackupDeferred, StartRestore, BackupWritten, Goto, row, Request
<1>2. CASE ScriptSucceeds(r)
  BY <1>0, <1>2 DEF ScriptSucceeds, Goto, row, Request
<1>2a. CASE ScriptFails(r)
  BY <1>0, <1>2a DEF ScriptFails, row, Request
<1>2b. CASE ScriptFailsUnnoticed(r)
  BY <1>0, <1>2b DEF ScriptFailsUnnoticed, Goto, row, Request
<1>3. CASE FinishJob(r) \/ ReleaseReads(r) \/ FindPrepared(r)
  BY <1>0, <1>3 DEF FinishJob, ReleaseReads, FindPrepared, Goto, row, Request
<1>4. CASE ReleaseWrites(r)
  BY <1>0, <1>4 DEF ReleaseWrites, Goto, IdleOp, Request
<1>5. CASE ReleasePrepared(r)
  <2>1. /\ \A s \in Req \ {r} : req'[s] = req[s]
        /\ req'[r].given = req[r].given /\ ~Reservation(r)
        /\ req'[r].won = PreparationWhere(req[r].given)
        /\ IF PreparationWhere(req[r].given) THEN op'.prepared = FALSE ELSE op' = op
    BY <1>0, <1>5 DEF ReleasePrepared, Request, IdleOp
  <2>2. \A s \in Req : Reservation(s) => Reservation(s)'
    BY <2>1
  <2>3. (\A s \in Req : req[s].given # NoReq => Reservation(req[s].given))'
    <3>1. \A s \in Req : req'[s].given = req[s].given
      BY <2>1
    <3> QED BY <1>0, <2>2, <3>1 DEF ReservationInv
  <2>4. CASE PreparationWhere(req[r].given)
    BY <2>1, <2>3, <2>4 DEF ReservationInv, ReservationEndsOnce, PreparationWhere
  <2>5. CASE ~PreparationWhere(req[r].given)
    BY <2>1, <2>3, <2>5 DEF ReservationInv, ReservationEndsOnce
  <2> QED BY <2>4, <2>5
<1>6. CASE SearchFails(r)
  BY <1>0, <1>6 DEF SearchFails, EndPass, row, Request
<1>7. CASE QueryFails(r)
  BY <1>0, <1>7 DEF QueryFails, Goto, row, Request
<1>8. CASE QueryCaught(r)
  BY <1>0, <1>8 DEF QueryCaught, row, Request
<1> QED
  BY <1>1, <1>2, <1>2a, <1>2b, <1>3, <1>4, <1>5, <1>6, <1>7, <1>8 DEF WorkStep

(* Time and crashes keep the invariant. *)
LEMMA EnvironmentReservation ==
  ASSUME TypeOK, ReservationInv, Environment
  PROVE  ReservationInv'
PROOF
<1>0. /\ req \in [Req -> Request] /\ \A s \in Req : req[s].given \in Req \cup {NoReq}
  BY DEF TypeOK, Request, Token
<1> USE KeepsReservationInv DEF KeepsReservations, At, Reservation
<1>1. ASSUME NEW r \in Req, ScriptGoesOn(r) \/ JobAges(r) \/ LeftScriptEnds(r)
      PROVE  ReservationInv'
  BY <1>1 DEF ScriptGoesOn, JobAges, LeftScriptEnds, row
<1>2. CASE LockExpires
  BY <1>2 DEF LockExpires, TypeOK, Operation
<1>3. ASSUME NEW s \in Req, NEW startup \in StartupKind, Crash(startup, s)
      PROVE  ReservationInv'
  <2>1. /\ req'[s].given = NoReq /\ req'[s].won = FALSE /\ op' = op /\ ~Reservation(s)
    BY <1>0, <1>3 DEF Crash, NewRequest, row
  <2>2. \A r \in Req \ {s} : /\ req'[r].given = req[r].given /\ req'[r].won = req[r].won
                             /\ Reservation(r) => Reservation(r)'
    BY <1>0, <1>3 DEF Crash, Request
  <2>3. (\A r \in Req : req[r].given # NoReq => Reservation(req[r].given))'
    BY <1>0, <2>1, <2>2 DEF ReservationInv
  <2> QED
    BY <2>1, <2>2, <2>3 DEF ReservationInv, ReservationEndsOnce
<1> QED
  BY <1>1, <1>2, <1>3 DEF Environment

(* ReservationEndsOnce: for any number of panels that upload, cancel and   *)
(* restore at the same time, at most one request gets a reservation; this  *)
(* rests on the conditional updates of restore-upload-policy.js alone.     *)
THEOREM ReservationSafety == Spec => []ReservationEndsOnce
PROOF
<1>1. Init => ReservationInv
  BY DEF Init, NewRequest, ReservationInv, ReservationEndsOnce
<1>2. TypeOK /\ ReservationInv /\ [Next]_vars => ReservationInv'
  <2> SUFFICES ASSUME TypeOK, ReservationInv, [Next]_vars PROVE ReservationInv'
    OBVIOUS
  <2>1. CASE UNCHANGED vars
    BY <2>1 DEF ReservationInv, ReservationEndsOnce, Reservation, vars, row
  <2> QED
    BY <2>1, CheckReservation, WorkReservation, EnvironmentReservation DEF Next
<1>3. ReservationInv => ReservationEndsOnce
  BY DEF ReservationInv
<1> QED
  BY <1>1, <1>2, <1>3, TypeCorrect, PTL DEF Spec

(***************************************************************************)
(* Exclusive work                                                          *)
(***************************************************************************)
(* The script of r is a backup that reads the files of the database. *)
BackupTouches(r) == req[r].kind \in Backups /\ Touches(r)

(* The places where a request that has made its job can be. *)
AfterJob == {"work", "finish", "relRead", "relWrite", "done", "dead"}

(* A step of r that writes nothing of another request. *)
OwnStep(r) ==
  /\ \A s \in Req \ {r} : req'[s] = req[s] /\ job'[s] = job[s] /\ script'[s] = script[s]
  /\ stale \subseteq stale'
  /\ req'[r].kind = req[r].kind
  /\ req'[r].pc \in PcsOf(req[r].kind)

(* What r relies on at its new place holds there. *)
NewPlace(r) ==
  /\ r \in stale' \/ (SawIdle(r)' => ~op'.running)
  /\ r \in stale' \/ (SawExpired(r)' => ~op'.running \/ op'.expired)
  /\ job'[r] # "NONE" => req'[r].pc \in AfterJob
  /\ \A j \in req'[r].old : j \in req[r].old \/ (j \in Req /\ j # r /\ job[j] # "NONE")
  /\ r \in stale' \/ \A j \in req'[r].old \ {r} : At(r, "mark")' => ~BackupTouches(j)

(* The script r has now is one it may have there. *)
NewScript(r) ==
  /\ script'[r] # "none" =>
       /\ req'[r].pc \in {"work", "dead"}
       /\ req[r].kind \in Exclusive \cup Backups
       /\ req[r].kind \in Backups => script'[r] # "files"
  /\ job[r] # "NONE" => job'[r] # "NONE"
  /\ BackupTouches(r)' =>
       /\ BackupTouches(r) \/ job[r] = "NONE"
       /\ job'[r] = "RUNNING" /\ ~op'.running
       /\ \A s \in Req : At(s, "take")' => s \in stale'

(* What r writes to the row takes nothing from another request. *)
NewRow(r) ==
  /\ \A s \in Req \ {r} : /\ s \in stale' \/ (SawIdle(s) => ~op'.running)
                          /\ s \in stale' \/ (SawExpired(s) => ~op'.running \/ op'.expired)
                          /\ Owner(s) => op' = op /\ ~Owner(r)'
                          /\ BackupTouches(s) =>
                               ~op'.running /\ (At(r, "take")' => r \in stale')
  /\ Owner(r)' => op'.running /\ ~op'.expired /\ ~op'.prepared /\ op'.token = req'[r].token

(* A step with these four properties keeps the invariant. *)
LEMMA StepKeepsInv ==
  ASSUME TypeOK, Orderly, NEW r \in Req,
         OwnStep(r), NewPlace(r), NewScript(r), NewRow(r)
  PROVE  Orderly'
PROOF
<1>0. \A s \in Req : req[s].old \subseteq Req
  BY DEF TypeOK, Request
<1>1. \A s \in Req \ {r} : Touches(s)' = Touches(s) /\ req'[s] = req[s]
  BY DEF Touches, OwnStep
<1>2. \A s \in Req \ {r} : /\ Owner(s)' = Owner(s)
                           /\ SawIdle(s)' = SawIdle(s) /\ SawExpired(s)' = SawExpired(s)
                           /\ BackupTouches(s)' = BackupTouches(s)
                           /\ \A pc : At(s, pc)' = At(s, pc)
  BY <1>1 DEF Owner, SawIdle, SawExpired, BackupTouches, At
<1>3. PathInv'
  BY DEF Orderly, PathInv, OwnStep
<1>4. ScriptInv'
  BY DEF Orderly, ScriptInv, OwnStep, NewScript
<1>6. RowAsSeen'
  BY <1>2 DEF Orderly, RowAsSeen, NewPlace, NewRow
<1>7. OwnerHoldsLock'
  BY <1>1, <1>2 DEF Orderly, OwnerHoldsLock, NewRow
<1>8. OneOwner'
  BY <1>2 DEF Orderly, OneOwner, NewRow
<1>9. BackupSeen'
  <2>1. ASSUME NEW s \in Req \ {r}, BackupTouches(s)'
        PROVE  /\ job'[s] = "RUNNING" /\ ~op'.running
               /\ \A t \in Req : At(t, "take")' => t \in stale'
    BY <1>2, <2>1 DEF Orderly, BackupSeen, BackupTouches, OwnStep, NewRow
  <2> QED BY <2>1 DEF BackupSeen, BackupTouches, NewScript
<1>10. OldJobsInv'
  <2>1. ASSUME NEW s \in Req, job'[s] # "NONE" PROVE req'[s].pc \in AfterJob
    BY <2>1 DEF Orderly, OldJobsInv, AfterJob, OwnStep, NewPlace
  <2>2. ASSUME NEW s \in Req, NEW j \in req'[s].old
        PROVE  job'[j] # "NONE" /\ (At(s, "mark")' /\ s \notin stale' => ~BackupTouches(j)')
    <3>1. j \in Req /\ job[j] # "NONE"
      BY <1>0, <2>2 DEF Orderly, OldJobsInv, OwnStep, NewPlace
    <3>2. job'[j] # "NONE"
      BY <3>1 DEF OwnStep, NewScript
    <3>3. CASE s # r
      BY <1>2, <2>2, <3>1, <3>2, <3>3
         DEF Orderly, OldJobsInv, OwnStep, NewScript, BackupTouches
    <3>4. CASE s = r /\ j # r
      BY <1>2, <2>2, <3>1, <3>2, <3>4 DEF NewPlace, At
    <3>5. CASE s = r /\ j = r
      BY <2>2, <3>1, <3>2, <3>5 DEF NewPlace, At, AfterJob
    <3> QED BY <3>3, <3>4, <3>5
  <2> QED BY <2>1, <2>2 DEF OldJobsInv, AfterJob, BackupTouches
<1> QED
  BY <1>3, <1>4, <1>6, <1>7, <1>8, <1>9, <1>10 DEF Orderly

(* A request that only moves on, without a write to the row, the jobs or   *)
(* the scripts. *)
LEMMA MoveKeepsInv ==
  ASSUME TypeOK, Orderly, NEW r \in Req, UNCHANGED <<op, job, script>>,
         OwnStep(r), NewPlace(r), req'[r].token = req[r].token,
         Owner(r)' => Owner(r),
         script[r] = "none" \/ req'[r].pc \in {"work", "dead"},
         At(r, "take")' => At(r, "take") \/ \A s \in Req : ~BackupTouches(s)
  PROVE  Orderly'
PROOF
<1>1. BackupTouches(r)' = BackupTouches(r)
  BY DEF BackupTouches, Touches, OwnStep
<1>2. NewScript(r)
  <2>1. ASSUME BackupTouches(r)'
        PROVE  /\ job[r] = "RUNNING" /\ ~op.running
               /\ \A s \in Req : At(s, "take")' => s \in stale'
    BY <1>1, <2>1 DEF Orderly, BackupSeen, BackupTouches, OwnStep, At
  <2> QED
    BY <1>1, <2>1 DEF NewScript, Orderly, ScriptInv
<1>3. NewRow(r)
  <2>1. ASSUME NEW s \in Req \ {r}
        PROVE  /\ s \in stale' \/ (SawIdle(s) => ~op.running)
               /\ s \in stale' \/ (SawExpired(s) => ~op.running \/ op.expired)
               /\ Owner(s) => ~Owner(r)
               /\ BackupTouches(s) => ~op.running /\ (At(r, "take")' => r \in stale')
    BY <2>1 DEF Orderly, RowAsSeen, OneOwner, BackupSeen, BackupTouches, OwnStep
  <2>2. Owner(r)' => op.running /\ ~op.expired /\ ~op.prepared /\ op.token = req[r].token
    BY DEF Orderly, OwnerHoldsLock
  <2> QED
    BY <2>1, <2>2 DEF NewRow
<1> QED
  BY <1>2, <1>3, StepKeepsInv

(* A request still in its checks, in the search for a reservation or not   *)
(* yet begun has neither a job nor a script.                               *)
LEMMA NoWorkYet ==
  ASSUME TypeOK, Orderly, NEW r \in Req, req[r].pc \notin AfterJob
  PROVE  job[r] = "NONE" /\ script[r] = "none"
BY DEF Orderly, OldJobsInv, ScriptInv, AfterJob

(* The next place of a request in its checks is one of its kind's. *)
LEMMA MoveInChecks ==
  ASSUME TypeOK, Orderly, NEW r \in Req, NEW pc, UNCHANGED <<op, job, script>>,
         stale \subseteq stale',
         \A s \in Req \ {r} : req'[s] = req[s],
         req'[r].kind = req[r].kind, req'[r].token = req[r].token, req'[r].pc = pc,
         req[r].pc \in {"read", "clear", "current", "claim", "oldJobs", "ps", "mark",
                        "running", "findPrep"},
         pc \in PcsOf(req[r].kind),
         pc \in {"clear", "current", "claim", "oldJobs", "ps", "mark", "running", "take",
                 "createJob", "relPrep", "done"},
         pc = "createJob" => req[r].kind \in Backups,
         r \in stale' \/ (SawIdle(r)' => ~op.running),
         r \in stale' \/ (SawExpired(r)' => ~op.running \/ op.expired),
         pc = "take" => \A s \in Req : ~BackupTouches(s),
         \A j \in req'[r].old : j \in req[r].old \/ (j \in Req /\ job[j] # "NONE"),
         r \in stale' \/ (pc = "mark" => \A j \in req'[r].old : ~BackupTouches(j))
  PROVE  Orderly'
PROOF
<1>1. job[r] = "NONE" /\ script[r] = "none"
  BY NoWorkYet DEF AfterJob
<1>2. req[r].pc \in PcsOf(req[r].kind)
  BY DEF Orderly, PathInv
<1>3. OwnStep(r)
  BY DEF OwnStep
<1>4. NewPlace(r)
  BY <1>1 DEF NewPlace, At
<1>5. ~Owner(r)'
  BY <1>1 DEF Owner, Exclusive, Backups, Touches
<1> QED
  BY <1>1, <1>3, <1>4, <1>5, MoveKeepsInv DEF At

(* A request begins. *)
LEMMA BeginKeepsInv ==
  ASSUME TypeOK, Orderly, NEW r \in Req,
         NEW kind \in Kind, NEW given \in Token, Begin(r, kind, given)
  PROVE  Orderly'
PROOF
<1>0. req[r] \in Request /\ req \in [Req -> Request] /\ \A s \in Req : req[s].old \subseteq Req
  BY DEF TypeOK, Request
<1>1. /\ \A s \in Req \ {r} : req'[s] = req[s]
      /\ req'[r].kind = kind /\ req'[r].old = {}
      /\ req'[r].pc = IF kind = "RELEASE" THEN "findPrep" ELSE "read"
      /\ UNCHANGED <<op, job, script, stale>>
  BY <1>0 DEF Begin, NewRequest, row, jobs
<1>2. job[r] = "NONE" /\ script[r] = "none"
  BY NoWorkYet DEF Begin, At, AfterJob
<1>3. \A s \in Req \ {r} : /\ Owner(s)' = Owner(s)
                           /\ SawIdle(s)' = SawIdle(s) /\ SawExpired(s)' = SawExpired(s)
                           /\ \A pc : At(s, pc)' = At(s, pc)
  BY <1>1 DEF Owner, SawIdle, SawExpired, At, Touches
<1>4. ~Owner(r)' /\ ~SawIdle(r)' /\ ~SawExpired(r)' /\ ~At(r, "take")' /\ ~At(r, "mark")'
  BY <1>1, <1>2 DEF Owner, SawIdle, SawExpired, At, Touches
<1>5. \A s \in Req : Touches(s)' = Touches(s) /\ (Touches(s) => s # r)
  BY <1>1, <1>2 DEF Touches
<1>6. PathInv'
  <2>1. req'[r].pc \in PcsOf(kind)
    BY <1>1 DEF PcsOf, Kind, StartupKind
  <2> QED BY <1>1, <2>1 DEF Orderly, PathInv
<1>7. ScriptInv'
  BY <1>1, <1>2 DEF Orderly, ScriptInv
<1>9. RowAsSeen' /\ OwnerHoldsLock' /\ OneOwner'
  BY <1>1, <1>3, <1>4 DEF Orderly, RowAsSeen, OwnerHoldsLock, OneOwner
<1>10. BackupSeen'
  BY <1>1, <1>3, <1>4, <1>5 DEF Orderly, BackupSeen
<1>11. OldJobsInv'
  <2>1. ASSUME NEW s \in Req, NEW j \in req'[s].old
        PROVE  job'[j] # "NONE" /\ (At(s, "mark")' /\ s \notin stale' => ~BackupTouches(j)')
    <3>1. s # r /\ j \in req[s].old /\ j \in Req /\ j # r
      BY <1>0, <1>1, <1>2, <2>1 DEF Orderly, OldJobsInv
    <3> QED
      BY <1>1, <1>3, <1>5, <3>1 DEF Orderly, OldJobsInv, BackupTouches
  <2>2. \A s \in Req : job'[s] # "NONE" => req'[s].pc \in AfterJob
    BY <1>1, <1>2 DEF Orderly, OldJobsInv, AfterJob
  <2> QED
    BY <2>1, <2>2 DEF OldJobsInv, AfterJob, BackupTouches
<1> QED
  BY <1>6, <1>7, <1>9, <1>10, <1>11 DEF Orderly

(* Until a race, no job that a search marks FAILED belongs to a backup     *)
(* that still reads the files of the database.                             *)
LEMMA MarkKeepsInv ==
  ASSUME TypeOK, Orderly, ~raced', NEW r \in Req, NEW j \in Req, MarkFailed(r, j)
  PROVE  Orderly'
PROOF
<1>0. req[r] \in Request /\ req \in [Req -> Request] /\ \A s \in Req : req[s].old \subseteq Req
  BY DEF TypeOK, Request
<1>1. /\ At(r, "mark") /\ j \in req[r].old /\ job[j] # "NONE" /\ ~BackupTouches(j)
      /\ UNCHANGED <<op, script>> /\ stale \subseteq stale'
      /\ job' = [job EXCEPT ![j] = "FAILED"]
  <2>1. r \notin stale /\ stale \subseteq stale'
    BY DEF MarkFailed, Acts
  <2> QED
    BY <2>1 DEF MarkFailed, Orderly, OldJobsInv, BackupTouches, row
<1>2. /\ \A s \in Req \ {r} : req'[s] = req[s]
      /\ req'[r].kind = req[r].kind /\ req'[r].token = req[r].token
      /\ req'[r].seen = req[r].seen /\ req'[r].old \subseteq req[r].old
      /\ \/ req'[r].pc = "mark"
         \/ req'[r].pc = "done" /\ req[r].kind \in StartupKind
         \/ req'[r].pc = "running" /\ req[r].kind \notin StartupKind
         \/ req'[r].pc = "oldJobs"
  <2>1. CASE EndPass(r)
    BY <1>0, <2>1 DEF EndPass, Request
  <2>2. CASE req' = [req EXCEPT ![r] = [@ EXCEPT !.old = req[r].old \ {j}]]
    BY <1>0, <1>1, <2>2 DEF Request, At
  <2> QED BY <2>1, <2>2 DEF MarkFailed
<1>3. req[r].pc \in PcsOf(req[r].kind) /\ req'[r].pc \in PcsOf(req[r].kind)
  <2>1. req[r].pc \in PcsOf(req[r].kind)
    BY DEF Orderly, PathInv
  <2> QED BY <1>1, <1>2, <2>1 DEF PcsOf, At, StartupKind
<1>4. \A s \in Req \ {r} : /\ Owner(s)' = Owner(s)
                           /\ SawIdle(s)' = SawIdle(s) /\ SawExpired(s)' = SawExpired(s)
                           /\ \A pc : At(s, pc)' = At(s, pc)
  BY <1>1, <1>2 DEF Owner, SawIdle, SawExpired, At, Touches
<1>5. \A s \in Req : BackupTouches(s)' = BackupTouches(s)
  BY <1>1, <1>2 DEF BackupTouches, Touches
<1>6. job[r] = "NONE" /\ script[r] = "none" /\ r # j
  BY <1>1, NoWorkYet DEF At, AfterJob
<1>7. /\ ~Owner(r)' /\ ~At(r, "take")'
      /\ SawIdle(r)' => SawIdle(r)
      /\ SawExpired(r)' => SawExpired(r)
      /\ At(r, "mark")' => At(r, "mark")
  BY <1>1, <1>2, <1>6 DEF Owner, At, SawIdle, SawExpired, Touches
<1>8. PathInv' /\ ScriptInv'
  BY <1>1, <1>2, <1>3, <1>6 DEF Orderly, PathInv, ScriptInv
<1>9. RowAsSeen' /\ OneOwner'
  BY <1>1, <1>4, <1>7 DEF Orderly, RowAsSeen, OneOwner
<1>10. OwnerHoldsLock'
  BY <1>1, <1>2, <1>4, <1>7 DEF Orderly, OwnerHoldsLock
<1>11. BackupSeen'
  BY <1>1, <1>4, <1>5, <1>7 DEF Orderly, BackupSeen, BackupTouches, TypeOK
<1>12. OldJobsInv'
  <2>1. \A s \in Req : (job'[s] = "NONE") = (job[s] = "NONE")
    BY <1>1 DEF TypeOK
  <2>2. \A s \in Req : job'[s] # "NONE" => req'[s].pc \in AfterJob
    BY <1>2, <1>6, <2>1 DEF Orderly, OldJobsInv, AfterJob
  <2>3. ASSUME NEW s \in Req, NEW k \in req'[s].old
        PROVE  job'[k] # "NONE" /\ (At(s, "mark")' /\ s \notin stale' => ~BackupTouches(k)')
    <3>1. k \in req[s].old /\ k \in Req
      BY <1>0, <1>2, <2>3
    <3>2. At(s, "mark")' => At(s, "mark")
      BY <1>4, <1>7 DEF At
    <3> QED
      BY <1>1, <1>5, <2>1, <3>1, <3>2 DEF Orderly, OldJobsInv, BackupTouches
  <2> QED
    BY <2>2, <2>3 DEF OldJobsInv, AfterJob, BackupTouches
<1> QED
  BY <1>8, <1>9, <1>10, <1>11, <1>12 DEF Orderly

(* Reading the row keeps the invariant. *)
LEMMA ReadKeepsInv ==
  ASSUME TypeOK, Orderly, NEW r \in Req,
         ReadForLater(r) \/ ReadIdle(r) \/ ReadExpired(r) \/ ReadActive(r)
  PROVE  Orderly'
PROOF
<1>0. /\ req \in [Req -> Request] /\ req[r] \in Request
      /\ req[r].pc \in PcsOf(req[r].kind)
  BY DEF TypeOK, Request, Orderly, PathInv
<1>1. (Seen = "idle" => ~op.running) /\ (Seen = "expired" => op.expired)
  BY DEF Seen, DatabaseOperationActive
<1> DEFINE pc == req'[r].pc
<1>2. /\ \A s \in Req \ {r} : req'[s] = req[s]
      /\ req'[r].kind = req[r].kind /\ req'[r].token = req[r].token
      /\ req'[r].old = req[r].old /\ req'[r].seen = Seen
      /\ req[r].pc = "read" /\ UNCHANGED <<op, job, script, stale>>
  <2>1. PICK next : Read(r, next)
    BY DEF ReadForLater, ReadIdle, ReadExpired, ReadActive
  <2> QED BY <1>0, <2>1 DEF Read, Request, row, jobs, At
<1>3. /\ pc \in {"clear", "current", "oldJobs", "createJob", "done"}
      /\ pc = "createJob" => req[r].kind \in Backups /\ Seen = "idle"
      /\ pc = "oldJobs" => req[r].kind = "AUTO_BACKUP" \/ Seen = "idle"
      /\ pc = "oldJobs" => req[r].kind # "BACKUP"
      /\ pc = "clear" => Seen = "expired" /\ req[r].kind # "AUTO_BACKUP"
      /\ pc = "current" => req[r].kind \notin Backups
  <2>1. \A next : Read(r, next) => pc = next
    BY <1>0 DEF Read, Request
  <2>2. CASE ReadForLater(r)
    BY <2>1, <2>2 DEF ReadForLater
  <2>3. CASE ReadIdle(r)
    BY <2>1, <2>3 DEF ReadIdle, NextCheck, Backups
  <2>4. CASE ReadExpired(r)
    BY <2>1, <2>4 DEF ReadExpired
  <2>5. CASE ReadActive(r)
    BY <2>1, <2>5 DEF ReadActive, Backups
  <2> QED BY <2>2, <2>3, <2>4, <2>5
<1>4. pc \in PcsOf(req[r].kind)
  BY <1>0, <1>2, <1>3 DEF PcsOf, StartupKind, Backups
<1>5. (SawIdle(r)' => ~op.running) /\ (SawExpired(r)' => ~op.running \/ op.expired)
  BY <1>1, <1>2, <1>3 DEF SawIdle, SawExpired, At
<1> QED
  BY <1>2, <1>3, <1>4, <1>5, MoveInChecks

(* A search for old jobs keeps the invariant: it finds jobs that exist,    *)
(* and marks none while a tool of Firebird runs, or is stale when it could *)
(* not list the processes.                                                 *)
LEMMA SearchKeepsInv ==
  ASSUME TypeOK, Orderly, NEW r \in Req,
         \/ ReadOldJobs(r) \/ PsFindsTool(r) \/ PsFindsNone(r) \/ PsFails(r)
         \/ SearchFails(r)
  PROVE  Orderly'
PROOF
<1>0. /\ req \in [Req -> Request] /\ req[r] \in Request
      /\ req[r].pc \in PcsOf(req[r].kind)
  BY DEF TypeOK, Request, Orderly, PathInv
<1>2. /\ UNCHANGED <<op, job, script>> /\ req[r].pc \in {"oldJobs", "ps", "mark"}
      /\ stale \subseteq stale'
  BY DEF ReadOldJobs, PsFindsTool, PsFindsNone, PsFails, SearchFails, row, jobs, At
<1>3. ASSUME \A s \in Req \ {r} : req'[s] = req[s],
             req'[r].kind = req[r].kind, req'[r].token = req[r].token,
             req'[r].seen = req[r].seen,
             req'[r].pc \in PcsOf(req[r].kind),
             req'[r].pc \in {"oldJobs", "ps", "mark", "running", "done"},
             \A j \in req'[r].old : j \in req[r].old \/ (j \in Req /\ job[j] # "NONE"),
             r \in stale' \/ (req'[r].pc = "mark" => \A j \in req'[r].old : ~BackupTouches(j))
      PROVE  Orderly'
  <2>1. (SawIdle(r)' => SawIdle(r)) /\ (SawExpired(r)' => SawExpired(r))
    BY <1>2, <1>3 DEF SawIdle, SawExpired, At
  <2>2. /\ r \in stale' \/ (SawIdle(r)' => ~op.running)
        /\ r \in stale' \/ (SawExpired(r)' => ~op.running \/ op.expired)
    BY <1>2, <2>1 DEF Orderly, RowAsSeen
  <2> QED
    BY <1>2, <1>3, <2>2, MoveInChecks
<1>4. CASE EndPass(r)
  <2>1. /\ \A s \in Req \ {r} : req'[s] = req[s]
        /\ req'[r].kind = req[r].kind /\ req'[r].token = req[r].token
        /\ req'[r].seen = req[r].seen /\ req'[r].old = {}
        /\ \/ req'[r].pc = "oldJobs"
           \/ req'[r].pc = "done"
           \/ req'[r].pc = "running" /\ req[r].kind \notin StartupKind
    BY <1>0, <1>4 DEF EndPass, Request
  <2>2. req'[r].pc \in PcsOf(req[r].kind)
    BY <1>0, <1>2, <2>1 DEF PcsOf, StartupKind
  <2> QED
    BY <1>3, <2>1, <2>2
<1>5. CASE ReadOldJobs(r) /\ ~EndPass(r)
  <2> DEFINE old == OldJobs(req[r].pass)
  <2>1. req' = [req EXCEPT ![r] = [@ EXCEPT !.old = old, !.pc = "ps"]]
    BY <1>5 DEF ReadOldJobs
  <2>2. \A j \in old : j \in Req /\ job[j] # "NONE"
    BY DEF OldJobs
  <2> HIDE DEF old
  <2>3. /\ \A s \in Req \ {r} : req'[s] = req[s]
        /\ req'[r].kind = req[r].kind /\ req'[r].token = req[r].token
        /\ req'[r].seen = req[r].seen /\ req'[r].old = old /\ req'[r].pc = "ps"
    BY <1>0, <2>1 DEF Request
  <2>4. "ps" \in PcsOf(req[r].kind)
    BY <1>0, <1>5 DEF PcsOf, ReadOldJobs, At, StartupKind
  <2> QED
    BY <1>3, <2>2, <2>3, <2>4
<1>6. CASE PsFindsNone(r) \/ PsFails(r)
  <2>1. /\ \A s \in Req \ {r} : req'[s] = req[s]
        /\ req'[r].kind = req[r].kind /\ req'[r].token = req[r].token
        /\ req'[r].seen = req[r].seen /\ req'[r].old = req[r].old /\ req'[r].pc = "mark"
    BY <1>0, <1>6 DEF PsFindsNone, PsFails, Goto, Request
  <2>2. "mark" \in PcsOf(req[r].kind)
    BY <1>0, <1>6 DEF PcsOf, PsFindsNone, PsFails, At, StartupKind
  <2>3. r \in stale' \/ \A j \in Req : ~BackupTouches(j)
    BY <1>6 DEF PsFindsNone, PsFails, BackupTouches, Touches, Orderly, ScriptInv
  <2>4. req[r].old \subseteq Req
    BY <1>0 DEF Request
  <2> QED
    BY <1>3, <2>1, <2>2, <2>3, <2>4
<1> QED
  BY <1>4, <1>5, <1>6 DEF PsFindsTool, SearchFails

(* The last check and the refusals keep the invariant. *)
LEMMA LastCheckKeepsInv ==
  ASSUME TypeOK, Orderly, NEW r \in Req,
         \/ ReadCurrent(r) \/ ClaimRefused(r)
         \/ FindsRunningBackup(r) \/ FindsNoBackup(r) \/ FindPrepared(r)
  PROVE  Orderly'
PROOF
<1>0. /\ req \in [Req -> Request] /\ req[r] \in Request
      /\ req[r].pc \in PcsOf(req[r].kind)
      /\ r \in stale \/ (SawIdle(r) => ~op.running)
      /\ r \in stale \/ (SawExpired(r) => ~op.running \/ op.expired)
  BY DEF TypeOK, Request, Orderly, PathInv, RowAsSeen
<1> DEFINE pc == req'[r].pc
<1>1. /\ pc \in {"claim", "take", "createJob", "clear", "relPrep", "done"}
      /\ pc = "claim" => req[r].kind = "RESTORE" /\ At(r, "current")
      /\ pc = "take" => req[r].kind # "AUTO_BACKUP"
      /\ pc = "createJob" => req[r].kind = "AUTO_BACKUP" /\ req[r].seen = "idle"
      /\ pc = "clear" => req[r].kind = "AUTO_BACKUP" /\ req[r].seen = "expired"
      /\ pc \in {"take", "createJob", "clear"} => At(r, "running") /\ ~JobRunning
      /\ pc = "relPrep" => At(r, "findPrep")
  <2>1. CASE ReadCurrent(r)
    BY <1>0, <2>1 DEF ReadCurrent, Request
  <2>2. CASE ClaimRefused(r) \/ FindsRunningBackup(r)
    BY <1>0, <2>2 DEF ClaimRefused, FindsRunningBackup, Goto, Request
  <2>3. CASE FindsNoBackup(r)
    BY <1>0, <2>3 DEF FindsNoBackup, Goto, Request
  <2>4. CASE FindPrepared(r)
    BY <1>0, <2>4 DEF FindPrepared, Goto, Request
  <2> QED BY <2>1, <2>2, <2>3, <2>4
<1>2. /\ \A s \in Req \ {r} : req'[s] = req[s]
      /\ req'[r].kind = req[r].kind /\ req'[r].token = req[r].token
      /\ req'[r].old = req[r].old /\ UNCHANGED <<op, job, script, stale>>
      /\ req[r].pc \in {"current", "claim", "running", "findPrep"}
  <2>1. CASE ReadCurrent(r)
    BY <1>0, <2>1 DEF ReadCurrent, Request, row, jobs, At
  <2>2. CASE ClaimRefused(r) \/ FindsRunningBackup(r)
    BY <1>0, <2>2 DEF ClaimRefused, FindsRunningBackup, Goto, Request, row, jobs, At
  <2>3. CASE FindsNoBackup(r)
    BY <1>0, <2>3 DEF FindsNoBackup, Goto, Request, row, jobs, At
  <2>4. CASE FindPrepared(r)
    BY <1>0, <2>4 DEF FindPrepared, Goto, Request, row, jobs, At
  <2> QED BY <2>1, <2>2, <2>3, <2>4
<1>3. pc \in PcsOf(req[r].kind)
  BY <1>0, <1>1, <1>2 DEF PcsOf, StartupKind, At
<1>4. pc = "take" => \A s \in Req : ~BackupTouches(s)
  BY <1>1 DEF Orderly, BackupSeen, BackupTouches, JobRunning
<1>5. /\ r \in stale' \/ (SawIdle(r)' => ~op.running)
      /\ r \in stale' \/ (SawExpired(r)' => ~op.running \/ op.expired)
  <2>1. pc = "take" => SawIdle(r)
    BY <1>0, <1>1 DEF SawIdle, At, PcsOf, StartupKind
  <2>2. (pc = "createJob" => SawIdle(r)) /\ (pc = "clear" => SawExpired(r))
    BY <1>1 DEF SawIdle, SawExpired, At, StartupKind
  <2> QED
    BY <1>0, <1>1, <1>2, <2>1, <2>2 DEF SawIdle, SawExpired, At
<1>6. pc = "createJob" => req[r].kind \in Backups
  BY <1>1 DEF Backups
<1> QED
  BY <1>1, <1>2, <1>3, <1>4, <1>5, <1>6, MoveInChecks

(* The writes of the row keep the invariant: until a race each is made     *)
(* either by the owner of the lock or at a moment when nobody owns it, and *)
(* the requests whose checks it overtakes are stale.                       *)
LEMMA RowWriteKeepsInv ==
  ASSUME TypeOK, Orderly, ~raced', NEW r \in Req,
         \/ ClearExpired(r) \/ ClaimPrepared(r) \/ TakeLock(r)
         \/ ReleaseWrites(r) \/ ReleasePrepared(r)
  PROVE  Orderly'
PROOF
<1>0. /\ req \in [Req -> Request] /\ req[r] \in Request
      /\ req[r].pc \in PcsOf(req[r].kind)
      /\ r \in stale \/ (SawIdle(r) => ~op.running)
      /\ r \in stale \/ (SawExpired(r) => ~op.running \/ op.expired)
      /\ op.running \in BOOLEAN
  BY DEF TypeOK, Request, Orderly, PathInv, RowAsSeen, Operation
<1>1. UNCHANGED <<job, script>> /\ stale \subseteq stale'
  BY DEF ClearExpired, ClaimPrepared, TakeLock, ReleaseWrites, ReleasePrepared, Acts, jobs
<1>2. script[r] = "none"
  BY DEF ClearExpired, ClaimPrepared, TakeLock, ReleaseWrites, ReleasePrepared, At,
         Orderly, ScriptInv
<1>3. ~BackupTouches(r)'
  BY <1>1, <1>2 DEF BackupTouches, Touches
<1>4. CASE ClearExpired(r)
  <2>1. /\ op' = IdleOp /\ At(r, "clear") /\ req'[r].pc = NextCheck(req[r].kind)
        /\ \A s \in Req \ {r} : req'[s] = req[s]
        /\ req'[r].kind = req[r].kind /\ req'[r].old = req[r].old
    BY <1>0, <1>4 DEF ClearExpired, Goto, Request
  <2>2. \A s \in Req : ~Owner(s)
    BY <1>0, <1>4, <2>1 DEF ClearExpired, Acts, SawExpired, Orderly, OwnerHoldsLock
  <2>3. OwnStep(r)
    BY <1>0, <1>1, <2>1 DEF OwnStep, PcsOf, NextCheck, At, Backups, StartupKind
  <2>4. job[r] = "NONE"
    BY <2>1, NoWorkYet DEF At, AfterJob
  <2>5. NewPlace(r)
    BY <1>1, <2>1, <2>4 DEF NewPlace, IdleOp, At, NextCheck
  <2>6. ~Owner(r)' /\ ~At(r, "take")'
    BY <2>1 DEF Owner, At, NextCheck, Backups, Exclusive
  <2>7. NewScript(r)
    BY <1>1, <1>2, <1>3 DEF NewScript
  <2>8. NewRow(r)
    BY <2>1, <2>2, <2>6 DEF NewRow, IdleOp
  <2> QED BY <2>3, <2>5, <2>7, <2>8, StepKeepsInv
<1>5. CASE ClaimPrepared(r)
  <2>1. /\ op.running /\ op.prepared /\ op.token = req[r].given /\ At(r, "claim")
        /\ op' = [op EXCEPT !.prepared = FALSE, !.expired = FALSE]
        /\ \A s \in Req \ {r} : req'[s] = req[s]
        /\ req'[r].kind = req[r].kind /\ req'[r].old = req[r].old
        /\ req'[r].pc = "start" /\ req'[r].token = req[r].given
    BY <1>0, <1>5 DEF ClaimPrepared, PreparationWhere, Request
  <2>2. op'.running /\ ~op'.prepared /\ ~op'.expired /\ op'.token = op.token
    BY <2>1 DEF TypeOK, Operation
  <2>3. \A s \in Req : ~Owner(s) /\ ~BackupTouches(s)
    BY <2>1 DEF Orderly, OwnerHoldsLock, BackupSeen, BackupTouches
  <2>4. \A s \in Req \ {r} : SawIdle(s) \/ SawExpired(s) => s \in stale'
    BY <1>5, <2>1 DEF ClaimPrepared, Orderly, RowAsSeen
  <2>5. OwnStep(r)
    BY <1>0, <1>1, <2>1 DEF OwnStep, PcsOf, At, StartupKind
  <2>6. job[r] = "NONE"
    BY <2>1, NoWorkYet DEF At, AfterJob
  <2>7. NewPlace(r)
    BY <1>1, <2>1, <2>6 DEF NewPlace, At, SawIdle, SawExpired
  <2>8. NewScript(r)
    BY <1>1, <1>2, <1>3 DEF NewScript
  <2>9. NewRow(r)
    BY <2>1, <2>2, <2>3, <2>4 DEF NewRow, At
  <2> QED BY <2>5, <2>7, <2>8, <2>9, StepKeepsInv
<1>6. CASE TakeLock(r)
  <2>1. /\ At(r, "take") /\ op'.running /\ ~op'.expired /\ op'.token = r
        /\ op'.prepared = (req[r].kind = "PREPARE")
        /\ \A s \in Req \ {r} : req'[s] = req[s]
        /\ req'[r].kind = req[r].kind /\ req'[r].old = req[r].old /\ req'[r].token = r
        /\ req'[r].pc = CASE req[r].kind = "PREPARE" -> "done"
                          [] req[r].kind = "MAINTENANCE" -> "createJob"
                          [] OTHER -> "start"
    BY <1>0, <1>6 DEF TakeLock, Request
  <2>2. /\ req[r].kind \in {"PREPARE", "RESTORE", "MAINTENANCE"}
        /\ SawIdle(r) /\ r \notin stale
    BY <1>0, <1>6, <2>1
       DEF TakeLock, Acts, At, PcsOf, StartupKind, TypeOK, Request, Kind, SawIdle
  <2>3. \A s \in Req : ~Owner(s) /\ ~BackupTouches(s)
    BY <1>0, <2>1, <2>2 DEF Orderly, OwnerHoldsLock, BackupSeen, BackupTouches
  <2>4. \A s \in Req \ {r} : SawIdle(s) \/ SawExpired(s) => s \in stale'
    BY <1>6 DEF TakeLock, Acts
  <2>5. OwnStep(r)
    BY <1>1, <2>1, <2>2 DEF OwnStep, PcsOf, StartupKind
  <2>6. job[r] = "NONE"
    BY <2>1, NoWorkYet DEF At, AfterJob
  <2>7. NewPlace(r)
    BY <1>1, <2>1, <2>2, <2>6 DEF NewPlace, At, SawIdle, SawExpired, Backups
  <2>8. NewScript(r)
    BY <1>1, <1>2, <1>3 DEF NewScript
  <2>9. NewRow(r)
    <3>1. Owner(r)' => ~op'.prepared
      BY <2>1 DEF Owner, Exclusive
    <3> QED BY <2>1, <2>3, <2>4, <3>1 DEF NewRow, At
  <2> QED BY <2>5, <2>7, <2>8, <2>9, StepKeepsInv
<1>7. CASE ReleaseWrites(r) \/ ReleasePrepared(r)
  <2>1. /\ \A s \in Req \ {r} : req'[s] = req[s]
        /\ req'[r].kind = req[r].kind /\ req'[r].old = req[r].old /\ req'[r].pc = "done"
        /\ op' = IdleOp \/ op' = op
    BY <1>0, <1>7 DEF ReleaseWrites, ReleasePrepared, Goto, Request
  <2>2. \A s \in Req \ {r} : Owner(s) => op' = op
    <3>1. CASE ReleaseWrites(r)
      <4>1. Owner(r)
        BY <1>0, <3>1 DEF ReleaseWrites, At, Owner, PcsOf, Exclusive, StartupKind
      <4> QED BY <4>1 DEF Orderly, OneOwner
    <3>2. CASE ReleasePrepared(r)
      BY <3>2 DEF ReleasePrepared, PreparationWhere, Orderly, OwnerHoldsLock
    <3> QED BY <1>7, <3>1, <3>2
  <2>3. OwnStep(r)
    BY <1>1, <2>1 DEF OwnStep, PcsOf
  <2>4. NewPlace(r)
    BY <1>1, <2>1 DEF NewPlace, At, SawIdle, SawExpired, AfterJob
  <2>5. NewScript(r)
    BY <1>1, <1>2, <1>3 DEF NewScript
  <2>6. NewRow(r)
    <3>1. ~Owner(r)' /\ ~At(r, "take")'
      BY <2>1 DEF Owner, At
    <3>2. ASSUME NEW s \in Req \ {r}
          PROVE  /\ s \in stale' \/ (SawIdle(s) => ~op'.running)
                 /\ s \in stale' \/ (SawExpired(s) => ~op'.running \/ op'.expired)
                 /\ BackupTouches(s) => ~op'.running
      BY <1>1, <2>1, <3>2 DEF IdleOp, Orderly, RowAsSeen, BackupSeen, BackupTouches
    <3> QED BY <2>2, <3>1, <3>2 DEF NewRow
  <2> QED BY <2>3, <2>4, <2>5, <2>6, StepKeepsInv
<1> QED
  BY <1>4, <1>5, <1>6, <1>7

(* The steps of the work keep the invariant. *)
LEMMA WorkExclusive ==
  ASSUME TypeOK, Orderly, ~raced', NEW r \in Req, WorkStep(r)
  PROVE  Orderly'
PROOF
<1>0. /\ req \in [Req -> Request] /\ req[r] \in Request
      /\ req[r].pc \in PcsOf(req[r].kind)
      /\ r \in stale \/ (SawIdle(r) => ~op.running)
      /\ job \in [Req -> JobStatus] /\ script \in [Req -> Phase]
      /\ req[r].old \subseteq Req
  BY DEF TypeOK, Request, Orderly, PathInv, RowAsSeen
(* A step that writes only the job and the script of r, and its place. *)
<1>1. ASSUME UNCHANGED op, req'[r].token = req[r].token,
             OwnStep(r), NewScript(r), req'[r].old = req[r].old,
             req[r].pc \in {"createJob", "start", "work", "finish", "relRead"},
             req'[r].pc \in {"work", "finish", "relRead", "relWrite", "done", "dead"},
             Owner(r)' => Owner(r)
      PROVE  Orderly'
  <2>1. NewPlace(r)
    BY <1>1 DEF NewPlace, SawIdle, SawExpired, At, AfterJob
  <2>2. NewRow(r)
    <3>1. ASSUME NEW s \in Req \ {r}
          PROVE  /\ s \in stale' \/ (SawIdle(s) => ~op.running)
                 /\ s \in stale' \/ (SawExpired(s) => ~op.running \/ op.expired)
                 /\ Owner(s) => ~Owner(r)
                 /\ BackupTouches(s) => ~op.running
      BY <1>1, <3>1 DEF OwnStep, Orderly, RowAsSeen, OneOwner, BackupSeen, BackupTouches
    <3>2. Owner(r)' => op.running /\ ~op.expired /\ ~op.prepared /\ op.token = req[r].token
      BY <1>1 DEF Orderly, OwnerHoldsLock
    <3>3. ~At(r, "take")'
      BY <1>1 DEF At
    <3> QED
      BY <1>1, <3>1, <3>2, <3>3 DEF NewRow
  <2> QED
    BY <1>1, <2>1, <2>2, StepKeepsInv
<1>2. CASE CreateJob(r)
  <2>1. /\ At(r, "createJob") /\ UNCHANGED op
        /\ \A s \in Req \ {r} : req'[s] = req[s] /\ job'[s] = job[s] /\ script'[s] = script[s]
        /\ req'[r].kind = req[r].kind /\ req'[r].token = req[r].token
        /\ req'[r].old = req[r].old /\ req'[r].pc = "work" /\ job'[r] = "RUNNING"
        /\ script'[r] = IF req[r].kind = "MAINTENANCE" THEN "files" ELSE "tool"
        /\ stale \subseteq stale' /\ r \notin stale
        /\ \A s \in Req \ {r} : At(s, "take") => s \in stale'
    BY <1>0, <1>2 DEF CreateJob, Acts, Goto, Request, row
  <2>2. req[r].kind \in Backups \cup {"MAINTENANCE"}
    BY <1>0, <2>1 DEF At, PcsOf, Backups, StartupKind
  <2>3. OwnStep(r)
    BY <2>1, <2>2 DEF OwnStep, PcsOf, Backups, StartupKind
  <2>4. job[r] = "NONE"
    BY <2>1, NoWorkYet DEF At, AfterJob
  <2>5. req[r].kind \in Backups =>
          ~op.running /\ \A s \in Req : At(s, "take")' => s \in stale'
    BY <1>0, <2>1 DEF SawIdle, At
  <2>6. NewScript(r)
    BY <2>1, <2>2, <2>4, <2>5 DEF NewScript, Exclusive, Backups, BackupTouches
  <2>7. Owner(r)' => Owner(r)
    BY <2>1 DEF Owner, At
  <2> QED
    BY <1>1, <2>1, <2>3, <2>6, <2>7 DEF At
<1>3. CASE BackupDeferred(r)
  <2>1. /\ At(r, "createJob") /\ UNCHANGED <<op, job, script, stale>>
        /\ \A s \in Req \ {r} : req'[s] = req[s]
        /\ req'[r].kind = req[r].kind /\ req'[r].token = req[r].token
        /\ req'[r].old = req[r].old /\ req'[r].pc = "done"
    BY <1>0, <1>3 DEF BackupDeferred, Goto, Request, row, jobs
  <2>2. job[r] = "NONE" /\ script[r] = "none"
    BY <2>1, NoWorkYet DEF At, AfterJob
  <2>3. OwnStep(r) /\ NewScript(r) /\ ~Owner(r)'
    BY <2>1, <2>2 DEF OwnStep, NewScript, Owner, PcsOf, BackupTouches, Touches
  <2> QED
    BY <1>1, <2>1, <2>3 DEF At
<1>4. CASE StartRestore(r)
  <2>1. /\ At(r, "start") /\ UNCHANGED <<op, job, stale>>
        /\ \A s \in Req \ {r} : req'[s] = req[s] /\ script'[s] = script[s]
        /\ req'[r].kind = req[r].kind /\ req'[r].token = req[r].token
        /\ req'[r].old = req[r].old /\ req'[r].pc = "work" /\ script'[r] = "tool"
    BY <1>0, <1>4 DEF StartRestore, Goto, Request, row, jobs
  <2>2. req[r].kind = "RESTORE"
    BY <1>0, <2>1 DEF At, PcsOf, StartupKind
  <2>3. OwnStep(r) /\ NewScript(r) /\ Owner(r)
    BY <2>1, <2>2
       DEF OwnStep, NewScript, Owner, PcsOf, StartupKind, At, Exclusive, Backups, BackupTouches
  <2> QED
    BY <1>1, <2>1, <2>3 DEF At
(* The script of r ends, or goes on without the files of the database. *)
<1>5. ASSUME UNCHANGED <<op, job, stale>>, At(r, "work"),
             \A s \in Req \ {r} : req'[s] = req[s] /\ script'[s] = script[s],
             req'[r].kind = req[r].kind, req'[r].token = req[r].token,
             req'[r].old = req[r].old,
             \/ script'[r] = "post" /\ req'[r].pc = "work"
             \/ script'[r] = "none" /\ req'[r].pc = AfterScript(req[r].kind)
      PROVE  Orderly'
  <2>1. req[r].kind \in Exclusive \cup Backups
    BY <1>0, <1>5 DEF At, PcsOf, StartupKind, Exclusive, Backups
  <2>2. OwnStep(r)
    BY <1>0, <1>5, <2>1 DEF OwnStep, AfterScript, At, PcsOf, StartupKind, Exclusive, Backups
  <2>3. NewScript(r)
    BY <1>5, <2>1 DEF NewScript, BackupTouches, Touches
  <2>4. Owner(r)' => Owner(r)
    BY <1>5 DEF Owner, At
  <2> QED
    BY <1>1, <1>5, <2>2, <2>3, <2>4 DEF At, AfterScript
<1>6. CASE BackupWritten(r)
  BY <1>0, <1>5, <1>6 DEF BackupWritten, row, At
<1>7. CASE ScriptSucceeds(r)
  <2>1. /\ UNCHANGED <<op, job, stale>> /\ At(r, "work")
        /\ \A s \in Req \ {r} : req'[s] = req[s] /\ script'[s] = script[s]
        /\ req'[r].kind = req[r].kind /\ req'[r].token = req[r].token
        /\ req'[r].old = req[r].old
        /\ script'[r] = "none" /\ req'[r].pc = AfterScript(req[r].kind)
    BY <1>0, <1>7 DEF ScriptSucceeds, Goto, Request, row, jobs
  <2> QED BY <1>5, <2>1
<1>8. CASE ScriptFails(r)
  <2>1. /\ UNCHANGED <<op, job, stale>> /\ At(r, "work")
        /\ \A s \in Req \ {r} : req'[s] = req[s] /\ script'[s] = script[s]
        /\ req'[r].kind = req[r].kind /\ req'[r].token = req[r].token
        /\ req'[r].old = req[r].old
        /\ script'[r] = "none" /\ req'[r].pc = AfterScript(req[r].kind)
    BY <1>0, <1>8 DEF ScriptFails, Request, row
  <2> QED BY <1>5, <2>1
<1>9. CASE ScriptFailsUnnoticed(r)
  <2>1. /\ UNCHANGED <<op, job, stale>> /\ At(r, "work")
        /\ \A s \in Req \ {r} : req'[s] = req[s] /\ script'[s] = script[s]
        /\ req'[r].kind = req[r].kind /\ req'[r].token = req[r].token
        /\ req'[r].old = req[r].old
        /\ \/ script'[r] = "post" /\ req'[r].pc = "work"
           \/ script'[r] = "none" /\ req'[r].pc = AfterScript(req[r].kind)
    BY <1>0, <1>9 DEF ScriptFailsUnnoticed, Goto, AfterScript, Request, row, jobs, At
  <2> QED BY <1>5, <2>1
<1>10. CASE FinishJob(r)
  <2>1. /\ At(r, "finish") /\ UNCHANGED <<op, script, stale>> /\ job'[r] # "NONE"
        /\ \A s \in Req \ {r} : req'[s] = req[s] /\ job'[s] = job[s]
        /\ req'[r].kind = req[r].kind /\ req'[r].token = req[r].token
        /\ req'[r].old = req[r].old
        /\ req'[r].pc = IF req[r].kind = "MAINTENANCE" THEN "relRead" ELSE "done"
    BY <1>0, <1>10 DEF FinishJob, Goto, Request, row
  <2>2. script[r] = "none"
    BY <2>1 DEF At, Orderly, ScriptInv
  <2>3. OwnStep(r) /\ NewScript(r)
    BY <2>1, <2>2 DEF OwnStep, NewScript, PcsOf, StartupKind, BackupTouches, Touches
  <2>4. Owner(r)' => Owner(r)
    BY <2>1, <2>2 DEF Owner, At, Touches
  <2> QED
    BY <1>1, <2>1, <2>3, <2>4 DEF At
<1>11. CASE ReleaseReads(r)
  <2>1. /\ At(r, "relRead") /\ UNCHANGED <<op, script, job, stale>>
        /\ \A s \in Req \ {r} : req'[s] = req[s]
        /\ req'[r].kind = req[r].kind /\ req'[r].token = req[r].token
        /\ req'[r].old = req[r].old /\ req'[r].pc \in {"relWrite", "done"}
    BY <1>0, <1>11 DEF ReleaseReads, Goto, Request, row, jobs
  <2>2. script[r] = "none"
    BY <2>1 DEF At, Orderly, ScriptInv
  <2>3. OwnStep(r) /\ NewScript(r)
    BY <1>0, <2>1, <2>2 DEF OwnStep, NewScript, At, PcsOf, StartupKind, BackupTouches, Touches
  <2>4. Owner(r)' => Owner(r)
    BY <2>1, <2>2 DEF Owner, At, Touches
  <2> QED
    BY <1>1, <2>1, <2>3, <2>4 DEF At
<1>12. CASE QueryFails(r)
  <2>1. /\ UNCHANGED <<op, script, job, stale>> /\ req[r].pc # "work"
        /\ \A s \in Req \ {r} : req'[s] = req[s]
        /\ req'[r].kind = req[r].kind /\ req'[r].token = req[r].token
        /\ req'[r].old = req[r].old /\ req'[r].pc = "dead" /\ req[r].pc # "dead"
    BY <1>0, <1>12 DEF QueryFails, Goto, Request, row, jobs
  <2>2. script[r] = "none"
    BY <2>1 DEF Orderly, ScriptInv
  <2>3. OwnStep(r) /\ NewPlace(r)
    BY <2>1 DEF OwnStep, NewPlace, PcsOf, SawIdle, SawExpired, At, AfterJob
  <2>4. ~Owner(r)' /\ ~At(r, "take")'
    BY <2>1, <2>2 DEF Owner, Touches, At
  <2> QED
    BY <2>1, <2>2, <2>3, <2>4, MoveKeepsInv
<1>13. CASE QueryCaught(r)
  <2>1. /\ UNCHANGED <<op, script, job, stale>> /\ req[r].pc \in {"finish", "relRead"}
        /\ \A s \in Req \ {r} : req'[s] = req[s]
        /\ req'[r].kind = req[r].kind /\ req'[r].token = req[r].token
        /\ req'[r].old = req[r].old /\ req'[r].pc = AfterScript(req[r].kind)
    BY <1>0, <1>13 DEF QueryCaught, Request, row
  <2>2. script[r] = "none"
    BY <2>1 DEF Orderly, ScriptInv
  <2>3. OwnStep(r) /\ NewScript(r)
    BY <1>0, <2>1, <2>2
       DEF OwnStep, NewScript, AfterScript, PcsOf, StartupKind, BackupTouches, Touches
  <2>4. Owner(r)' => Owner(r)
    BY <2>1, <2>2 DEF Owner, Touches
  <2> QED
    BY <1>1, <2>1, <2>3, <2>4 DEF AfterScript
<1> QED
  BY <1>2, <1>3, <1>4, <1>6, <1>7, <1>8, <1>9, <1>10, <1>11, <1>12, <1>13,
     SearchKeepsInv, LastCheckKeepsInv, RowWriteKeepsInv DEF WorkStep

(* A crash keeps the invariant: a script that is left behind still counts  *)
(* as the owner of its lock, or keeps its job RUNNING. *)
LEMMA CrashKeepsInv ==
  ASSUME TypeOK, Orderly, NEW s \in Req, NEW startup \in StartupKind, Crash(startup, s)
  PROVE  Orderly'
PROOF
<1>0. req \in [Req -> Request] /\ \A r \in Req : req[r].old \subseteq Req
  BY DEF TypeOK, Request
<1>1. /\ req'[s].kind = startup /\ req'[s].pc = "oldJobs" /\ req'[s].old = {}
      /\ UNCHANGED <<op, job, script, stale>> /\ At(s, "new")
  BY <1>0 DEF Crash, NewRequest, row, jobs
<1>2. \A r \in Req \ {s} :
        /\ req'[r].kind = req[r].kind /\ req'[r].token = req[r].token
        /\ req'[r].seen = req[r].seen /\ req'[r].old = req[r].old
        /\ \/ req'[r].pc = req[r].pc
           \/ req'[r].pc = "dead" /\ req[r].pc \notin {"new", "done", "dead"}
  BY <1>0 DEF Crash, Request
<1>3. job[s] = "NONE" /\ script[s] = "none"
  BY <1>1, NoWorkYet DEF At, AfterJob
<1>4. \A r \in Req : Touches(r)' = Touches(r) /\ (Touches(r) => r # s)
  BY <1>1, <1>3 DEF Touches
<1>5. \A r \in Req : BackupTouches(r)' => BackupTouches(r) /\ r # s
  BY <1>2, <1>4 DEF BackupTouches
<1>6. ~SawIdle(s)' /\ ~SawExpired(s)' /\ ~Owner(s)'
  BY <1>1 DEF SawIdle, SawExpired, Owner, At, StartupKind, Exclusive
<1>7. \A r \in Req \ {s} : /\ SawIdle(r)' => SawIdle(r)
                           /\ SawExpired(r)' => SawExpired(r)
                           /\ At(r, "take")' => At(r, "take")
                           /\ At(r, "mark")' => At(r, "mark")
  <2>1. SUFFICES ASSUME NEW r \in Req \ {s}
                 PROVE  /\ SawIdle(r)' => SawIdle(r)
                        /\ SawExpired(r)' => SawExpired(r)
                        /\ At(r, "take")' => At(r, "take")
                        /\ At(r, "mark")' => At(r, "mark")
    OBVIOUS
  <2> QED BY <1>2 DEF SawIdle, SawExpired, At
<1>8. \A r \in Req \ {s} : Owner(r)' => Owner(r)
  <2>1. ASSUME NEW r \in Req \ {s}, Owner(r)' PROVE Owner(r)
    <3>1. Touches(r) => req[r].pc \in {"work", "dead"}
      BY DEF Touches, Orderly, ScriptInv
    <3> QED BY <1>2, <1>4, <2>1, <3>1 DEF Owner
  <2> QED BY <2>1
<1>9. PathInv'
  <2>1. req'[s].pc \in PcsOf(req'[s].kind)
    BY <1>1 DEF PcsOf, StartupKind
  <2>2. \A r \in Req \ {s} : req'[r].pc \in PcsOf(req'[r].kind)
    BY <1>2 DEF Orderly, PathInv, PcsOf
  <2> QED BY <2>1, <2>2 DEF PathInv
<1>10. ScriptInv'
  BY <1>1, <1>2, <1>3 DEF Orderly, ScriptInv
<1>11. RowAsSeen' /\ OneOwner'
  BY <1>1, <1>6, <1>7, <1>8 DEF Orderly, RowAsSeen, OneOwner
<1>12. OwnerHoldsLock'
  BY <1>1, <1>2, <1>6, <1>8 DEF Orderly, OwnerHoldsLock
<1>13. BackupSeen'
  <2>1. ~At(s, "take")'
    BY <1>1 DEF At
  <2> QED BY <1>1, <1>5, <1>7, <2>1 DEF Orderly, BackupSeen, BackupTouches
<1>14. OldJobsInv'
  <2>1. \A r \in Req : job'[r] # "NONE" => req'[r].pc \in AfterJob
    BY <1>1, <1>2, <1>3 DEF Orderly, OldJobsInv, AfterJob
  <2>2. ASSUME NEW r \in Req, NEW j \in req'[r].old
        PROVE  job'[j] # "NONE" /\ (At(r, "mark")' /\ r \notin stale' => ~BackupTouches(j)')
    <3>1. r # s /\ j \in req[r].old /\ j \in Req
      BY <1>0, <1>1, <1>2, <2>2
    <3> QED
      BY <1>1, <1>5, <1>7, <3>1 DEF Orderly, OldJobsInv, BackupTouches
  <2> QED
    BY <2>1, <2>2 DEF OldJobsInv, AfterJob, BackupTouches
<1> QED
  BY <1>9, <1>10, <1>11, <1>12, <1>13, <1>14 DEF Orderly

(* So does a step that leaves alone all that the invariant is about. *)
LEMMA UnchangedKeepsInv ==
  ASSUME Orderly, UNCHANGED <<op, req, job, script, stale>>
  PROVE  Orderly'
PROOF
<1>1. PathInv' /\ ScriptInv'
  BY DEF Orderly, PathInv, ScriptInv
<1>2. RowAsSeen'
  BY DEF Orderly, RowAsSeen, SawIdle, SawExpired, At
<1>3. OwnerHoldsLock' /\ OneOwner'
  BY DEF Orderly, OwnerHoldsLock, OneOwner, Owner, Touches
<1>4. BackupSeen' /\ OldJobsInv'
  BY DEF Orderly, BackupSeen, OldJobsInv, Touches, At
<1> QED
  BY <1>1, <1>2, <1>3, <1>4 DEF Orderly

(* Time, scripts that go on or are left, and crashes keep the invariant. *)
LEMMA EnvironmentExclusive ==
  ASSUME TypeOK, Orderly, Environment
  PROVE  Orderly'
PROOF
<1>0. script \in [Req -> Phase] /\ req \in [Req -> Request]
  BY DEF TypeOK
(* Only the script of r changes, and a backup does not start on the files. *)
<1>1. ASSUME NEW r \in Req, UNCHANGED <<op, req, job, stale>>,
             \A s \in Req \ {r} : script'[s] = script[s],
             script[r] # "none", Touches(r)' => Touches(r),
             script'[r] = "files" => req[r].kind \in Exclusive
      PROVE  Orderly'
  <2>1. BackupTouches(r)' => BackupTouches(r)
    BY <1>1 DEF BackupTouches
  <2>2. Owner(r)' => Owner(r)
    BY <1>1 DEF Owner
  <2>3. OwnStep(r)
    BY <1>1 DEF OwnStep, Orderly, PathInv
  <2>4. NewPlace(r)
    <3>1. SawIdle(r)' = SawIdle(r) /\ SawExpired(r)' = SawExpired(r)
      BY <1>1 DEF SawIdle, SawExpired, At
    <3>2. \A j \in req[r].old : At(r, "mark") /\ r \notin stale => ~BackupTouches(j)
      BY DEF Orderly, OldJobsInv, BackupTouches
    <3> QED
      BY <1>1, <3>1, <3>2
         DEF NewPlace, Orderly, RowAsSeen, OldJobsInv, AfterJob, At
  <2>5. NewScript(r)
    <3>1. BackupTouches(r)' =>
            /\ job[r] = "RUNNING" /\ ~op.running
            /\ \A s \in Req : At(s, "take")' => s \in stale'
      BY <1>1, <2>1 DEF Orderly, BackupSeen, BackupTouches, At
    <3> QED
      BY <1>1, <2>1, <3>1 DEF NewScript, Orderly, ScriptInv, Exclusive, Backups
  <2>6. NewRow(r)
    <3>1. ASSUME NEW s \in Req \ {r}
          PROVE  /\ s \in stale \/ (SawIdle(s) => ~op.running)
                 /\ s \in stale \/ (SawExpired(s) => ~op.running \/ op.expired)
                 /\ Owner(s) => ~Owner(r)
                 /\ BackupTouches(s) => ~op.running
      BY <3>1 DEF Orderly, RowAsSeen, OneOwner, BackupSeen, BackupTouches
    <3>2. Owner(r)' => op.running /\ ~op.expired /\ ~op.prepared /\ op.token = req[r].token
      BY <2>2 DEF Orderly, OwnerHoldsLock
    <3>3. ~At(r, "take")'
      BY <1>1 DEF At, Orderly, ScriptInv
    <3> QED
      BY <1>1, <2>2, <3>1, <3>2, <3>3 DEF NewRow
  <2> QED
    BY <2>3, <2>4, <2>5, <2>6, StepKeepsInv
<1>2. ASSUME NEW r \in Req, ScriptGoesOn(r) PROVE Orderly'
  BY <1>0, <1>1, <1>2 DEF ScriptGoesOn, Touches, row, jobs
<1>3. ASSUME NEW r \in Req, LeftScriptEnds(r) PROVE Orderly'
  BY <1>0, <1>1, <1>3 DEF LeftScriptEnds, Touches, row
<1>4. ASSUME NEW r \in Req, JobAges(r) PROVE Orderly'
  <2>1. UNCHANGED <<op, req, job, script, stale>>
    BY <1>4 DEF JobAges, row
  <2> QED BY <2>1, UnchangedKeepsInv
<1>5. CASE LockExpires
  <2>1. UNCHANGED <<req, job, script, stale>> /\ op' = [op EXCEPT !.expired = TRUE]
    BY <1>5 DEF LockExpires, jobs
  <2>2. op'.running = op.running /\ op'.expired
    BY <2>1 DEF TypeOK, Operation
  <2>3. \A r \in Req : ~Owner(r)
    BY <1>5 DEF LockExpires, Orderly, OwnerHoldsLock, Owner, Touches
  <2>4. \A r \in Req : /\ Owner(r)' = Owner(r)
                       /\ SawIdle(r)' = SawIdle(r) /\ SawExpired(r)' = SawExpired(r)
                       /\ BackupTouches(r)' = BackupTouches(r)
                       /\ \A pc : At(r, pc)' = At(r, pc)
    BY <2>1 DEF Owner, SawIdle, SawExpired, BackupTouches, Touches, At
  <2>5. PathInv' /\ ScriptInv'
    BY <2>1 DEF Orderly, PathInv, ScriptInv
  <2>6. RowAsSeen' /\ OwnerHoldsLock' /\ OneOwner'
    BY <2>1, <2>2, <2>3, <2>4 DEF Orderly, RowAsSeen, OwnerHoldsLock, OneOwner
  <2>7. BackupSeen' /\ OldJobsInv'
    BY <2>1, <2>2, <2>4 DEF Orderly, BackupSeen, OldJobsInv, BackupTouches, Touches, At
  <2> QED
    BY <2>5, <2>6, <2>7 DEF Orderly
<1> QED
  BY <1>2, <1>3, <1>4, <1>5, CrashKeepsInv DEF Environment

(* A race is remembered. *)
LEMMA RacedStays ==
  ASSUME raced, [Next]_vars
  PROVE  raced'
PROOF
<1>1. ASSUME NEW r \in Req, CheckStep(r) PROVE raced'
  <2>1. CASE \/ \E kind \in Kind, given \in Token : Begin(r, kind, given)
             \/ ReadForLater(r) \/ ReadIdle(r) \/ ReadExpired(r) \/ ReadActive(r)
    BY <2>1 DEF Begin, ReadForLater, ReadIdle, ReadExpired, ReadActive, Read
  <2>2. CASE \/ ClearExpired(r) \/ TakeLock(r) \/ \E j \in Req : MarkFailed(r, j)
    BY <2>2 DEF ClearExpired, TakeLock, MarkFailed, Acts
  <2>3. CASE \/ ReadCurrent(r) \/ ClaimPrepared(r) \/ ClaimRefused(r)
             \/ FindsRunningBackup(r) \/ FindsNoBackup(r)
    BY <2>3 DEF ReadCurrent, ClaimPrepared, ClaimRefused, FindsRunningBackup, FindsNoBackup
  <2>4. CASE ReadOldJobs(r) \/ PsFindsTool(r) \/ PsFindsNone(r) \/ PsFails(r)
    BY <2>4 DEF ReadOldJobs, PsFindsTool, PsFindsNone, PsFails
  <2> QED
    BY <1>1, <2>1, <2>2, <2>3, <2>4 DEF CheckStep
<1>2. ASSUME NEW r \in Req, WorkStep(r) PROVE raced'
  <2>1. CASE \/ BackupDeferred(r) \/ StartRestore(r) \/ BackupWritten(r) \/ ScriptSucceeds(r)
             \/ ScriptFails(r) \/ ScriptFailsUnnoticed(r) \/ FinishJob(r)
    BY <2>1 DEF BackupDeferred, StartRestore, BackupWritten, ScriptSucceeds, ScriptFails,
                ScriptFailsUnnoticed, FinishJob
  <2>2. CASE CreateJob(r)
    BY <2>2 DEF CreateJob, Acts
  <2>3. CASE \/ ReleaseReads(r) \/ ReleaseWrites(r) \/ FindPrepared(r) \/ ReleasePrepared(r)
             \/ SearchFails(r) \/ QueryFails(r) \/ QueryCaught(r)
    BY <2>3 DEF ReleaseReads, ReleaseWrites, FindPrepared, ReleasePrepared, SearchFails,
                QueryFails, QueryCaught
  <2> QED
    BY <1>2, <2>1, <2>2, <2>3 DEF WorkStep
<1>3. CASE Environment
  BY <1>3 DEF Environment, ScriptGoesOn, JobAges, LeftScriptEnds, Crash, LockExpires
<1>4. CASE UNCHANGED vars
  BY <1>4 DEF vars
<1> QED
  BY <1>1, <1>2, <1>3, <1>4 DEF Next

(* ExclusiveInv is an invariant, for any requests that overlap in any way: *)
(* until a race the lock has one owner at most, a backup that reads the    *)
(* files has a RUNNING job, and a request whose checks no longer hold is   *)
(* known to be stale.                                                      *)
THEOREM ExclusiveInvariant == Spec => []ExclusiveInv
PROOF
<1>1. Init => ExclusiveInv
  <2> SUFFICES ASSUME Init PROVE Orderly
    BY DEF ExclusiveInv
  <2>1. \A r \in Req : /\ req[r].pc = "new" /\ req[r].kind = "BACKUP" /\ req[r].old = {}
                       /\ job[r] = "NONE" /\ script[r] = "none"
    BY DEF Init, NewRequest
  <2>2. \A r \in Req : ~Owner(r) /\ ~SawIdle(r) /\ ~SawExpired(r) /\ ~Touches(r)
    BY <2>1 DEF Owner, SawIdle, SawExpired, Touches, At
  <2>3. PathInv
    BY <2>1 DEF PathInv, PcsOf, StartupKind
  <2> QED
    BY <2>1, <2>2, <2>3 DEF Orderly, ScriptInv, RowAsSeen, OwnerHoldsLock, OneOwner,
                            BackupSeen, OldJobsInv
<1>2. TypeOK /\ ExclusiveInv /\ [Next]_vars => ExclusiveInv'
  <2> SUFFICES ASSUME TypeOK, Orderly, ~raced', [Next]_vars PROVE Orderly'
    BY RacedStays DEF ExclusiveInv
  <2>1. CASE UNCHANGED vars
    BY <2>1, UnchangedKeepsInv DEF vars, row, jobs
  <2>2. ASSUME NEW r \in Req, CheckStep(r) PROVE Orderly'
    BY <2>2, BeginKeepsInv, ReadKeepsInv, SearchKeepsInv, MarkKeepsInv, LastCheckKeepsInv,
       RowWriteKeepsInv DEF CheckStep
  <2> QED
    BY <2>1, <2>2, WorkExclusive, EnvironmentExclusive DEF Next
<1> QED
  BY <1>1, <1>2, TypeCorrect, PTL DEF Spec

(* ExclusiveWork: whatever requests overlap, crash, fail or expire, no     *)
(* restore, maintenance or backup works on the files of a database while a *)
(* restore or a maintenance does, unless a request has acted on a check    *)
(* that another request's write came after.                                *)
THEOREM ExclusiveSafety == Spec => []ExclusiveWork
PROOF
<1>1. ExclusiveInv => ExclusiveWork
  <2> SUFFICES ASSUME Orderly, NEW r \in Req, NEW s \in Req, r # s,
                      req[r].kind \in Exclusive, Touches(r), Touches(s)
               PROVE  FALSE
    BY DEF ExclusiveInv, ExclusiveWork, Alone
  <2>1. Owner(r)
    BY DEF Orderly, ScriptInv, Touches, Owner
  <2>2. CASE req[s].kind \in Exclusive
    <3>1. Owner(s)
      BY <2>2 DEF Orderly, ScriptInv, Touches, Owner
    <3> QED BY <2>1, <3>1 DEF Orderly, OneOwner
  <2>3. CASE req[s].kind \in Backups
    BY <2>1, <2>3 DEF Orderly, BackupSeen, OwnerHoldsLock
  <2> QED
    BY <2>2, <2>3 DEF Orderly, ScriptInv, Touches
<1> QED
  BY <1>1, ExclusiveInvariant, PTL

(***************************************************************************)
(* A lock has an owner                                                     *)
(***************************************************************************)
(* A step of r alone, to a place of its handler, that leaves the lock with *)
(* its holder, frees it, reserves it, or gives it to r.                    *)
LockStep(r) ==
  /\ \A s \in Req \ {r} : req'[s] = req[s]
  /\ req'[r].kind = req[r].kind /\ req'[r].pc \in PcsOf(req[r].kind)
  /\ op'.running /\ ~op'.prepared =>
       \/ Holds(r)' /\ req'[r].token = op'.token
       \/ /\ op.running /\ ~op.prepared /\ op'.token = op.token
          /\ ~(Holds(r) /\ req[r].token = op.token)

(* Such a step keeps the invariant. *)
LEMMA LockStepKeepsOwner ==
  ASSUME OwnerInv, NEW r \in Req, LockStep(r)
  PROVE  OwnerInv'
PROOF
<1>1. PathInv'
  BY DEF OwnerInv, PathInv, LockStep
<1>2. ASSUME op'.running, ~op'.prepared
      PROVE  \E s \in Req : req'[s].token = op'.token /\ Holds(s)'
  <2>1. CASE Holds(r)' /\ req'[r].token = op'.token
    BY <2>1
  <2>2. CASE /\ op.running /\ ~op.prepared /\ op'.token = op.token
             /\ ~(Holds(r) /\ req[r].token = op.token)
    <3>1. PICK s \in Req : req[s].token = op.token /\ Holds(s)
      BY <2>2 DEF OwnerInv
    <3>2. s # r /\ req'[s] = req[s]
      BY <2>2, <3>1 DEF LockStep
    <3> QED BY <2>2, <3>1, <3>2 DEF Holds
  <2> QED BY <1>2, <2>1, <2>2 DEF LockStep
<1> QED
  BY <1>1, <1>2 DEF OwnerInv

(* A request that moves on and leaves the row alone: a holder of the lock  *)
(* stays one, unless its token is not the one of the lock.                 *)
LEMMA MoveKeepsOwner ==
  ASSUME OwnerInv, NEW r \in Req, op' = op, \A s \in Req \ {r} : req'[s] = req[s],
         req'[r].kind = req[r].kind, req'[r].token = req[r].token,
         req'[r].pc \in PcsOf(req[r].kind),
         Holds(r) => Holds(r)' \/ req[r].token # op.token
  PROVE  OwnerInv'
PROOF
<1>1. LockStep(r)
  BY DEF LockStep
<1> QED
  BY <1>1, LockStepKeepsOwner

(* The steps of the checks keep the invariant: no request in its checks    *)
(* holds the lock yet.                                                     *)
LEMMA CheckOwner ==
  ASSUME TypeOK, OwnerInv, NEW r \in Req, CheckStep(r)
  PROVE  OwnerInv'
PROOF
<1>0. /\ req \in [Req -> Request] /\ req[r] \in Request
      /\ req[r].kind \in Kind \cup StartupKind /\ req[r].pc \in PcsOf(req[r].kind)
  BY DEF TypeOK, Request, OwnerInv, PathInv
<1>1. ASSUME NEW kind \in Kind, NEW given \in Token, Begin(r, kind, given) PROVE OwnerInv'
  <2>1. /\ \A s \in Req \ {r} : req'[s] = req[s]
        /\ op' = op /\ ~Holds(r) /\ req'[r].kind = kind
        /\ req'[r].pc = IF kind = "RELEASE" THEN "findPrep" ELSE "read"
    BY <1>0, <1>1 DEF Begin, NewRequest, At, row, Holds
  <2>2. PathInv'
    <3>1. req'[r].pc \in PcsOf(req'[r].kind)
      BY <2>1 DEF PcsOf, Kind, StartupKind
    <3> QED BY <2>1, <3>1 DEF OwnerInv, PathInv
  <2>3. \A s \in Req : Holds(s) => Holds(s)' /\ req'[s].token = req[s].token
    BY <2>1 DEF Holds
  <2> QED BY <2>1, <2>2, <2>3 DEF OwnerInv
<1>2. ASSUME NEW pc, Read(r, pc), pc \in PcsOf(req[r].kind) PROVE OwnerInv'
  <2>1. /\ op' = op /\ \A s \in Req \ {r} : req'[s] = req[s]
        /\ req'[r].kind = req[r].kind /\ req'[r].token = req[r].token /\ req'[r].pc = pc
        /\ ~Holds(r)
    BY <1>0, <1>2 DEF Read, At, row, Request, Holds
  <2> QED BY <1>2, <2>1, MoveKeepsOwner
<1>3. CASE ReadForLater(r)
  <2>1. "oldJobs" \in PcsOf(req[r].kind)
    BY <1>3 DEF ReadForLater, PcsOf, StartupKind
  <2> QED BY <1>2, <1>3, <2>1 DEF ReadForLater
<1>4. CASE ReadIdle(r)
  <2>1. NextCheck(req[r].kind) \in PcsOf(req[r].kind)
    BY <1>0, <1>4 DEF ReadIdle, Read, At, NextCheck, PcsOf, Backups, StartupKind
  <2> QED BY <1>2, <1>4, <2>1 DEF ReadIdle
<1>5. CASE ReadExpired(r)
  <2>1. "clear" \in PcsOf(req[r].kind)
    BY <1>0, <1>5 DEF ReadExpired, Read, At, PcsOf, StartupKind
  <2> QED BY <1>2, <1>5, <2>1 DEF ReadExpired
<1>6. CASE ReadActive(r)
  <2>1. (IF req[r].kind = "BACKUP" THEN "done" ELSE "current") \in PcsOf(req[r].kind)
    BY <1>0, <1>6 DEF ReadActive, Read, At, PcsOf, StartupKind
  <2> QED BY <1>2, <1>6, <2>1 DEF ReadActive
<1>7. CASE ClearExpired(r)
  <2>1. /\ \A s \in Req \ {r} : req'[s] = req[s]
        /\ req'[r].kind = req[r].kind /\ req'[r].pc = NextCheck(req[r].kind)
        /\ op'.running = FALSE
    BY <1>0, <1>7 DEF ClearExpired, Goto, Request, IdleOp
  <2>2. NextCheck(req[r].kind) \in PcsOf(req[r].kind)
    BY <1>0, <1>7 DEF ClearExpired, At, NextCheck, PcsOf, Backups, StartupKind
  <2> QED BY <2>1, <2>2, LockStepKeepsOwner DEF LockStep
<1>8. CASE ReadCurrent(r)
  <2>1. /\ op' = op /\ \A s \in Req \ {r} : req'[s] = req[s]
        /\ req'[r].kind = req[r].kind /\ req'[r].token = req[r].token
        /\ req'[r].pc = "done" \/ (req'[r].pc = "claim" /\ req[r].kind = "RESTORE")
        /\ ~Holds(r)
    BY <1>0, <1>8 DEF ReadCurrent, At, row, Request, Holds
  <2>2. req'[r].pc \in PcsOf(req[r].kind)
    BY <2>1 DEF PcsOf, StartupKind
  <2> QED BY <2>1, <2>2, MoveKeepsOwner
<1>9. CASE ClaimPrepared(r)
  <2>1. /\ \A s \in Req \ {r} : req'[s] = req[s]
        /\ req'[r].kind = req[r].kind /\ req'[r].pc = "start"
        /\ req'[r].token = op.token /\ op'.token = op.token
    BY <1>0, <1>9 DEF ClaimPrepared, PreparationWhere, Request, TypeOK, Operation
  <2>2. req[r].kind = "RESTORE"
    BY <1>0, <1>9 DEF ClaimPrepared, At, PcsOf, StartupKind
  <2>3. Holds(r)' /\ req'[r].pc \in PcsOf(req[r].kind)
    BY <2>1, <2>2 DEF Holds, PcsOf, StartupKind
  <2> QED BY <2>1, <2>3, LockStepKeepsOwner DEF LockStep
<1>10. ASSUME NEW pc, Goto(r, pc), UNCHANGED op, ~Holds(r), pc \in PcsOf(req[r].kind)
       PROVE  OwnerInv'
  <2>1. /\ \A s \in Req \ {r} : req'[s] = req[s]
        /\ req'[r].kind = req[r].kind /\ req'[r].token = req[r].token /\ req'[r].pc = pc
    BY <1>0, <1>10 DEF Goto, Request
  <2> QED BY <1>10, <2>1, MoveKeepsOwner
<1>11. CASE ClaimRefused(r) \/ FindsRunningBackup(r)
  <2>1. ~Holds(r) /\ "done" \in PcsOf(req[r].kind) /\ Goto(r, "done") /\ UNCHANGED op
    BY <1>11 DEF ClaimRefused, FindsRunningBackup, At, Holds, PcsOf, row
  <2> QED BY <1>10, <2>1
<1>12. CASE PsFindsNone(r) \/ PsFails(r)
  <2>1. /\ ~Holds(r) /\ "mark" \in PcsOf(req[r].kind) /\ Goto(r, "mark") /\ UNCHANGED op
    BY <1>0, <1>12 DEF PsFindsNone, PsFails, At, Holds, PcsOf, StartupKind, row
  <2> QED BY <1>10, <2>1
<1>13. ASSUME req[r].pc \in {"oldJobs", "ps", "mark"}, EndPass(r), UNCHANGED op
       PROVE  OwnerInv'
  <2>1. /\ \A s \in Req \ {r} : req'[s] = req[s]
        /\ req'[r].kind = req[r].kind /\ req'[r].token = req[r].token
        /\ \/ req'[r].pc = "oldJobs"
           \/ req'[r].pc = "done"
           \/ req'[r].pc = "running" /\ req[r].kind \notin StartupKind
    BY <1>0, <1>13 DEF EndPass, Request
  <2>2. ~Holds(r) /\ req'[r].pc \in PcsOf(req[r].kind)
    BY <1>0, <1>13, <2>1 DEF Holds, PcsOf, StartupKind
  <2> QED BY <1>13, <2>1, <2>2, MoveKeepsOwner
<1>14. CASE ReadOldJobs(r)
  <2>1. CASE EndPass(r)
    BY <1>13, <1>14, <2>1 DEF ReadOldJobs, At, row
  <2>2. CASE req' = [req EXCEPT ![r] = [@ EXCEPT !.old = OldJobs(req[r].pass), !.pc = "ps"]]
    <3>1. /\ \A s \in Req \ {r} : req'[s] = req[s]
          /\ req'[r].kind = req[r].kind /\ req'[r].token = req[r].token /\ req'[r].pc = "ps"
          /\ op' = op
      BY <1>0, <1>14, <2>2 DEF ReadOldJobs, Request, row
    <3>2. ~Holds(r) /\ "ps" \in PcsOf(req[r].kind)
      BY <1>0, <1>14 DEF ReadOldJobs, At, Holds, PcsOf, StartupKind
    <3> QED BY <3>1, <3>2, MoveKeepsOwner
  <2> QED BY <1>14, <2>1, <2>2 DEF ReadOldJobs
<1>15. CASE PsFindsTool(r)
  BY <1>13, <1>15 DEF PsFindsTool, At, row
<1>16. ASSUME NEW j \in Req, MarkFailed(r, j) PROVE OwnerInv'
  <2>1. CASE EndPass(r)
    BY <1>13, <1>16, <2>1 DEF MarkFailed, At, row
  <2>2. CASE req' = [req EXCEPT ![r] = [@ EXCEPT !.old = req[r].old \ {j}]]
    <3>1. /\ \A s \in Req \ {r} : req'[s] = req[s]
          /\ req'[r].kind = req[r].kind /\ req'[r].token = req[r].token
          /\ req'[r].pc = req[r].pc /\ op' = op
      BY <1>0, <1>16, <2>2 DEF MarkFailed, Request, row
    <3>2. ~Holds(r)
      BY <1>16 DEF MarkFailed, At, Holds
    <3> QED BY <1>0, <3>1, <3>2, MoveKeepsOwner
  <2> QED BY <1>16, <2>1, <2>2 DEF MarkFailed
<1>17. CASE FindsNoBackup(r)
  <2>1. PICK pc \in {"take", "createJob", "clear", "done"} :
          /\ Goto(r, pc) /\ UNCHANGED op
          /\ pc = "take" <=> req[r].kind # "AUTO_BACKUP"
    BY <1>0, <1>17 DEF FindsNoBackup, Request, row
  <2>2. ~Holds(r) /\ pc \in PcsOf(req[r].kind)
    BY <1>0, <1>17, <2>1 DEF FindsNoBackup, At, Holds, PcsOf, StartupKind
  <2> QED BY <1>10, <2>1, <2>2
<1>18. CASE TakeLock(r)
  <2>1. req[r].kind \in {"PREPARE", "RESTORE", "MAINTENANCE"}
    BY <1>0, <1>18 DEF TakeLock, At, PcsOf, Kind, StartupKind
  <2>2. /\ \A s \in Req \ {r} : req'[s] = req[s]
        /\ req'[r].kind = req[r].kind /\ req'[r].token = r /\ op'.token = r
        /\ op'.prepared = (req[r].kind = "PREPARE")
        /\ req[r].kind = "PREPARE" => req'[r].pc = "done"
        /\ req[r].kind = "MAINTENANCE" => req'[r].pc = "createJob"
        /\ req[r].kind = "RESTORE" => req'[r].pc = "start"
    BY <1>0, <1>18, <2>1 DEF TakeLock, Request
  <2>3. /\ req'[r].pc \in PcsOf(req[r].kind)
        /\ req[r].kind # "PREPARE" => Holds(r)'
    BY <2>1, <2>2 DEF PcsOf, StartupKind, Holds
  <2> QED BY <2>2, <2>3, LockStepKeepsOwner DEF LockStep
<1> QED
  BY <1>1, <1>3, <1>4, <1>5, <1>6, <1>7, <1>8, <1>9, <1>11, <1>12, <1>14, <1>15, <1>16,
     <1>17, <1>18 DEF CheckStep

(* The steps of the work keep the invariant: a holder leaves its handler   *)
(* only when it has freed the lock, or found another token in the row.     *)
LEMMA WorkOwner ==
  ASSUME TypeOK, OwnerInv, NEW r \in Req, WorkStep(r)
  PROVE  OwnerInv'
PROOF
<1>0. /\ req \in [Req -> Request] /\ req[r] \in Request
      /\ req[r].kind \in Kind \cup StartupKind /\ req[r].pc \in PcsOf(req[r].kind)
  BY DEF TypeOK, Request, OwnerInv, PathInv
<1>1. ASSUME NEW pc, Goto(r, pc), UNCHANGED op, pc \in PcsOf(req[r].kind),
             Holds(r) => \/ req[r].kind = "RESTORE" /\ pc \in {"work", "relRead", "relWrite"}
                         \/ /\ req[r].kind = "MAINTENANCE"
                            /\ pc \in {"work", "finish", "relRead", "relWrite"}
                         \/ req[r].token # op.token
      PROVE  OwnerInv'
  <2>1. /\ \A s \in Req \ {r} : req'[s] = req[s]
        /\ req'[r].kind = req[r].kind /\ req'[r].token = req[r].token /\ req'[r].pc = pc
    BY <1>0, <1>1 DEF Goto, Request
  <2>2. Holds(r) => Holds(r)' \/ req[r].token # op.token
    BY <1>1, <2>1 DEF Holds
  <2> QED BY <1>1, <2>1, <2>2, MoveKeepsOwner
<1>2. CASE CreateJob(r) \/ StartRestore(r)
  <2>1. /\ Goto(r, "work") /\ UNCHANGED op /\ "work" \in PcsOf(req[r].kind)
        /\ Holds(r) => req[r].kind \in {"RESTORE", "MAINTENANCE"}
    BY <1>0, <1>2 DEF CreateJob, StartRestore, At, PcsOf, StartupKind, Holds, row
  <2> QED BY <1>1, <2>1
<1>3. CASE BackupDeferred(r) \/ FindPrepared(r)
  <2>1. PICK pc \in {"done", "relPrep"} : Goto(r, pc) /\ UNCHANGED op
                                          /\ (pc = "relPrep" => At(r, "findPrep"))
    BY <1>3 DEF BackupDeferred, FindPrepared, row
  <2>2. pc \in PcsOf(req[r].kind) /\ ~Holds(r)
    BY <1>0, <1>3, <2>1 DEF BackupDeferred, FindPrepared, At, PcsOf, StartupKind, Holds
  <2> QED BY <1>1, <2>1, <2>2
<1>4. ASSUME UNCHANGED <<op, req>> PROVE OwnerInv'
  BY <1>4 DEF OwnerInv, PathInv, Holds
<1>5. CASE BackupWritten(r)
  BY <1>4, <1>5 DEF BackupWritten, row
<1>6. At(r, "work") => /\ AfterScript(req[r].kind) \in PcsOf(req[r].kind)
                       /\ req[r].kind # "RESTORE" => AfterScript(req[r].kind) = "finish"
                       /\ req[r].kind = "RESTORE" => AfterScript(req[r].kind) = "relRead"
                       /\ Holds(r) => req[r].kind \in {"RESTORE", "MAINTENANCE"}
  BY <1>0 DEF AfterScript, At, PcsOf, StartupKind, Holds
<1>7. CASE ScriptSucceeds(r)
  BY <1>1, <1>6, <1>7 DEF ScriptSucceeds, row
<1>8. CASE ScriptFails(r)
  <2>1. /\ \A s \in Req \ {r} : req'[s] = req[s]
        /\ req'[r].kind = req[r].kind /\ req'[r].token = req[r].token
        /\ req'[r].pc = AfterScript(req[r].kind)
        /\ op' = op /\ At(r, "work")
    BY <1>0, <1>8 DEF ScriptFails, Request, row
  <2>2. Holds(r) => Holds(r)'
    BY <1>6, <2>1 DEF Holds
  <2> QED BY <1>6, <2>1, <2>2, MoveKeepsOwner
<1>9. CASE ScriptFailsUnnoticed(r)
  <2>1. CASE req[r].kind = "RESTORE" /\ Goto(r, "relRead")
    <3>1. "relRead" \in PcsOf(req[r].kind) /\ UNCHANGED op
      BY <1>9, <2>1 DEF ScriptFailsUnnoticed, row, PcsOf, StartupKind
    <3> QED BY <1>1, <2>1, <3>1
  <2>2. CASE UNCHANGED req
    BY <1>4, <1>9, <2>2 DEF ScriptFailsUnnoticed, row
  <2> QED BY <1>9, <2>1, <2>2 DEF ScriptFailsUnnoticed
<1>10. CASE FinishJob(r)
  <2>1. /\ Goto(r, IF req[r].kind = "MAINTENANCE" THEN "relRead" ELSE "done")
        /\ UNCHANGED op /\ At(r, "finish")
    BY <1>10 DEF FinishJob, row
  <2>2. /\ (IF req[r].kind = "MAINTENANCE" THEN "relRead" ELSE "done") \in PcsOf(req[r].kind)
        /\ Holds(r) => req[r].kind = "MAINTENANCE"
    BY <2>1 DEF At, PcsOf, StartupKind, Holds
  <2> QED BY <1>1, <2>1, <2>2
<1>11. CASE ReleaseReads(r)
  <2>1. PICK pc \in {"relWrite", "done"} : /\ Goto(r, pc) /\ UNCHANGED op
                                           /\ pc = "done" => op.token # req[r].token
    BY <1>11 DEF ReleaseReads, row
  <2>2. req[r].kind \in {"RESTORE", "MAINTENANCE"} /\ pc \in PcsOf(req[r].kind)
    BY <1>0, <1>11, <2>1 DEF ReleaseReads, At, PcsOf, Kind, StartupKind
  <2> QED BY <1>1, <2>1, <2>2
<1>12. CASE ReleaseWrites(r)
  <2>1. /\ \A s \in Req \ {r} : req'[s] = req[s]
        /\ req'[r].kind = req[r].kind /\ req'[r].pc = "done" /\ op'.running = FALSE
    BY <1>0, <1>12 DEF ReleaseWrites, Goto, Request, IdleOp
  <2> QED BY <2>1, LockStepKeepsOwner DEF LockStep, PcsOf
<1>13. CASE ReleasePrepared(r)
  <2>1. /\ \A s \in Req \ {r} : req'[s] = req[s]
        /\ req'[r].kind = req[r].kind /\ req'[r].pc = "done"
        /\ (op' = op \/ op'.running = FALSE)
    BY <1>0, <1>13 DEF ReleasePrepared, Request, IdleOp, At, Holds
  <2>2. ~Holds(r)
    BY <1>13 DEF ReleasePrepared, At, Holds
  <2> QED BY <2>1, <2>2, LockStepKeepsOwner DEF LockStep, PcsOf
<1>14. CASE SearchFails(r)
  <2>1. /\ \A s \in Req \ {r} : req'[s] = req[s]
        /\ req'[r].kind = req[r].kind /\ req'[r].token = req[r].token
        /\ req'[r].pc \in {"oldJobs", "done"}
        /\ req[r].kind \in StartupKind /\ op' = op
    BY <1>0, <1>14 DEF SearchFails, EndPass, Request, row
  <2>2. ~Holds(r) /\ req'[r].pc \in PcsOf(req[r].kind)
    BY <2>1 DEF Holds, PcsOf, StartupKind
  <2> QED BY <2>1, <2>2, MoveKeepsOwner
<1>15. CASE QueryFails(r)
  <2>1. /\ \A s \in Req \ {r} : req'[s] = req[s]
        /\ req'[r].kind = req[r].kind /\ req'[r].token = req[r].token
        /\ req'[r].pc = "dead" /\ op' = op
    BY <1>0, <1>15 DEF QueryFails, Goto, Request, row
  <2>2. (Holds(r) => Holds(r)') /\ req'[r].pc \in PcsOf(req[r].kind)
    BY <2>1 DEF Holds, PcsOf
  <2> QED BY <2>1, <2>2, MoveKeepsOwner
<1>16. CASE QueryCaught(r)
  <2>1. /\ \A s \in Req \ {r} : req'[s] = req[s]
        /\ req'[r].kind = req[r].kind /\ req'[r].token = req[r].token
        /\ req'[r].pc = AfterScript(req[r].kind) /\ op' = op
        /\ req[r].pc \in {"finish", "relRead"}
    BY <1>0, <1>16 DEF QueryCaught, Request, row
  <2>2. (Holds(r) => Holds(r)') /\ req'[r].pc \in PcsOf(req[r].kind)
    BY <1>0, <2>1 DEF Holds, AfterScript, PcsOf, StartupKind
  <2> QED BY <2>1, <2>2, MoveKeepsOwner
<1> QED
  BY <1>2, <1>3, <1>5, <1>7, <1>8, <1>9, <1>10, <1>11, <1>12, <1>13, <1>14, <1>15, <1>16
     DEF WorkStep

(* Time and crashes keep the invariant: a holder that is lost in a crash   *)
(* counts as one until its lock expires.                                   *)
LEMMA EnvironmentOwner ==
  ASSUME TypeOK, OwnerInv, Environment
  PROVE  OwnerInv'
PROOF
<1>0. req \in [Req -> Request]
  BY DEF TypeOK
<1>1. ASSUME NEW r \in Req, ScriptGoesOn(r) \/ JobAges(r) \/ LeftScriptEnds(r)
      PROVE  OwnerInv'
  BY <1>1 DEF ScriptGoesOn, JobAges, LeftScriptEnds, row, OwnerInv, PathInv, Holds
<1>2. CASE LockExpires
  <2>1. req' = req /\ op'.running = op.running /\ op'.prepared = op.prepared
        /\ op'.token = op.token
    BY <1>2 DEF LockExpires, TypeOK, Operation
  <2> QED BY <2>1 DEF OwnerInv, PathInv, Holds
<1>3. ASSUME NEW s \in Req, NEW startup \in StartupKind, Crash(startup, s)
      PROVE  OwnerInv'
  <2>1. /\ op' = op /\ ~Holds(s) /\ req'[s].kind = startup /\ req'[s].pc = "oldJobs"
    BY <1>0, <1>3 DEF Crash, NewRequest, At, Holds, row
  <2>2. \A r \in Req \ {s} : /\ req'[r].kind = req[r].kind /\ req'[r].token = req[r].token
                             /\ req'[r].pc = req[r].pc \/ req'[r].pc = "dead"
    BY <1>0, <1>3 DEF Crash, Request
  <2>3. PathInv'
    <3>1. req'[s].pc \in PcsOf(req'[s].kind)
      BY <2>1 DEF PcsOf, StartupKind
    <3>2. \A r \in Req \ {s} : req'[r].pc \in PcsOf(req'[r].kind)
      BY <2>2 DEF OwnerInv, PathInv, PcsOf
    <3> QED BY <3>1, <3>2 DEF PathInv
  <2>4. \A r \in Req : Holds(r) => Holds(r)' /\ req'[r].token = req[r].token
    BY <2>1, <2>2 DEF Holds
  <2> QED BY <2>1, <2>3, <2>4 DEF OwnerInv
<1> QED
  BY <1>1, <1>2, <1>3 DEF Environment

(* LockHasOwner: whichever requests overlap and whichever scripts fail, a  *)
(* lock in force is a reservation, or belongs to a request that still      *)
(* works under it, is releasing it, or was ended by a crash or by a        *)
(* failing query of the catalogue.  The release of server.js:1456 writes   *)
(* without a condition what it checked a query before; it may free the     *)
(* lock of another request, but it leaves none behind when it succeeds.    *)
THEOREM OwnerSafety == Spec => []LockHasOwner
PROOF
<1>1. Init => OwnerInv
  <2> SUFFICES ASSUME Init PROVE OwnerInv
    OBVIOUS
  <2>1. ~op.running /\ \A r \in Req : req[r].pc = "new" /\ req[r].kind = "BACKUP"
    BY DEF Init, IdleOp, NewRequest
  <2> QED
    BY <2>1 DEF OwnerInv, PathInv, PcsOf, StartupKind
<1>2. TypeOK /\ OwnerInv /\ [Next]_vars => OwnerInv'
  <2> SUFFICES ASSUME TypeOK, OwnerInv, [Next]_vars PROVE OwnerInv'
    OBVIOUS
  <2>1. CASE UNCHANGED vars
    BY <2>1 DEF OwnerInv, PathInv, Holds, vars, row
  <2> QED
    BY <2>1, CheckOwner, WorkOwner, EnvironmentOwner DEF Next
<1>3. OwnerInv => LockHasOwner
  BY DEF OwnerInv, LockHasOwner, DatabaseOperationActive, Holds
<1> QED
  BY <1>1, <1>2, <1>3, TypeCorrect, PTL DEF Spec
=============================================================================
