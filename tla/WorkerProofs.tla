---------------------------- MODULE WorkerProofs ----------------------------
(***************************************************************************)
(* Proofs about the two models of the worker, for any number of databases, *)
(* rows, events and retries.  WorkerRoutines: routines exclude each other, *)
(* and a postponed sweep is not forgotten.  BackupHistory: a backup is     *)
(* kept, and validated once in a period.                                   *)
(***************************************************************************)
EXTENDS WorkerRoutines, BackupHistory, FiniteSetTheorems, TLAPS

(* What the arguments need of the types. *)
CoreType ==
  /\ locks \in [DB \cup {Global} -> Routine \cup {"none"}]
  /\ at \in [Routine -> Place]
  /\ retryTimer \in BOOLEAN /\ retryCount \in 0..MaxRetries
  /\ overrun \subseteq Routine

Work == {"script", "stat", "validate"}

(* A routine at work holds the lock that all databases share, unless it    *)
(* outlived it.                                                            *)
LockHeld == \A p \in Routine \ overrun : at[p].pc \in Work => locks[Global] = p

RoutineInv == CoreType /\ LockHeld /\ SweepNotForgotten

(***************************************************************************)
(* Values                                                                  *)
(***************************************************************************)
LEMMA Names == /\ \A p \in {"check", "backup", "session"} : p \in Routine /\ p # "sweep"
               /\ "sweep" \in Routine /\ "none" \notin Routine
BY DEF Routine

(* A routine that stays with its database. *)
LEMMA PlaceFields ==
  ASSUME NEW s \in Place, NEW pc \in Pc
  PROVE  [s EXCEPT !.pc = pc] \in Place /\ [s EXCEPT !.pc = pc].pc = pc
BY DEF Place

LEMMA IdlePlace == Idle \in Place /\ Idle.pc = "idle"
BY DEF Idle, Place, Pc

(* The databases a pass begins with. *)
LEMMA PassPlace ==
  ASSUME CoreType, NEW p \in Routine, NEW dbs \in SUBSET DB
  PROVE  /\ Pass(dbs) \in Place /\ Pass(dbs).pc = "next"
         /\ Passing(p, dbs) \in Place
<1>1. "next" \in Pc /\ operation \cap dbs \in SUBSET DB
  BY DEF Pc
<1>2. Pass(dbs) \in Place /\ Pass(dbs).pc = "next"
  BY <1>1, IdlePlace DEF Pass, Place
<1>3. at[p] \in Place
  BY DEF CoreType
<1> QED
  BY <1>2, <1>3 DEF Passing

(* The rest of a pass is not at work; a pass of sweeps is not over yet. *)
LEMMA RestPlace ==
  ASSUME NEW p \in Routine, NEW s \in Place, NEW d
  PROVE  /\ Rest(p, s, d) \in Place /\ Rest(p, s, d).pc \notin Work
         /\ p = "sweep" => Rest(p, s, d).pc # "idle"
<1> DEFINE left == s.todo \ {d}
           r == [s EXCEPT !.pc = "next", !.db = NoDb, !.todo = left, !.busy = s.busy \ {d}]
<1>1. left \in SUBSET DB /\ s.busy \ {d} \in SUBSET DB /\ NoDb \in DB \cup {NoDb} /\ "next" \in Pc
  BY DEF Place, Pc
<1>2. r \in Place /\ r.pc = "next"
  BY <1>1 DEF Place
<1>3. Rest(p, s, d) = IF (p # "sweep" /\ left = {}) \/ (p = "backup" /\ haSync) THEN Idle ELSE r
  BY DEF Rest
<1> HIDE DEF r, left
<1> QED
  BY <1>2, <1>3, IdlePlace DEF Work

(***************************************************************************)
(* Locks                                                                   *)
(***************************************************************************)
LEMMA LockTaken ==
  ASSUME CoreType, NEW p \in Routine, NEW d \in DB
  PROVE  /\ SetDatabaseRoutineLock(d, p) \in [DB \cup {Global} -> Routine \cup {"none"}]
         /\ SetDatabaseRoutineLock(d, p)[Global] = p
BY DEF CoreType, SetDatabaseRoutineLock

(* A routine removes no lock of another one. *)
LEMMA LockCleared ==
  ASSUME CoreType, NEW p \in Routine, NEW d
  PROVE  /\ ClearDatabaseRoutineLock(d, p) \in [DB \cup {Global} -> Routine \cup {"none"}]
         /\ \A q \in Routine \ {p} : locks[Global] = q => ClearDatabaseRoutineLock(d, p)[Global] = q
BY DEF CoreType, ClearDatabaseRoutineLock

(***************************************************************************)
(* One routine moves                                                       *)
(***************************************************************************)
(* A routine p takes a step: the others keep their lock, and p has it if   *)
(* it is at work.                                                          *)
LEMMA Moves ==
  ASSUME RoutineInv, NEW p \in Routine, NEW s \in Place, at' = [at EXCEPT ![p] = s],
         locks' \in [DB \cup {Global} -> Routine \cup {"none"}],
         \A q \in Routine \ {p} : q \notin overrun /\ at[q].pc \in Work /\ locks[Global] = q
                                    => locks'[Global] = q,
         overrun' = overrun \/ (overrun' = overrun \ {p} /\ s.pc \notin Work),
         s.pc \in Work => p \in overrun \/ locks'[Global] = p,
         retryTimer' \in BOOLEAN, retryCount' \in 0..MaxRetries
  PROVE  /\ CoreType' /\ LockHeld'
         /\ p # "sweep" => at'["sweep"] = at["sweep"]
         /\ at'[p] = s
<1>1. CoreType /\ LockHeld
  BY DEF RoutineInv
<1>2. /\ at' \in [Routine -> Place] /\ at'[p] = s
      /\ \A q \in Routine \ {p} : at'[q] = at[q]
  BY <1>1 DEF CoreType
<1>3. CoreType'
  BY <1>1, <1>2 DEF CoreType
<1>4. ASSUME NEW q \in Routine \ overrun', at'[q].pc \in Work
      PROVE  locks'[Global] = q
  <2>1. CASE q = p
    BY <1>2, <1>4, <2>1
  <2>2. CASE q # p
    <3>1. q \notin overrun /\ at[q].pc \in Work
      BY <1>2, <1>4, <2>2
    <3> QED
      BY <1>1, <2>2, <3>1 DEF LockHeld
  <2> QED
    BY <2>1, <2>2
<1> QED
  BY <1>2, <1>3, <1>4, Names DEF LockHeld

(* The same of a routine that has nothing to do with the retries. *)
LEMMA OtherMoves ==
  ASSUME RoutineInv, NEW p \in {"check", "backup", "session"}, NEW s \in Place,
         at' = [at EXCEPT ![p] = s],
         locks' \in [DB \cup {Global} -> Routine \cup {"none"}],
         \A q \in Routine \ {p} : q \notin overrun /\ at[q].pc \in Work /\ locks[Global] = q
                                    => locks'[Global] = q,
         overrun' = overrun \/ (overrun' = overrun \ {p} /\ s.pc \notin Work),
         s.pc \in Work => p \in overrun \/ locks'[Global] = p,
         UNCHANGED retries
  PROVE  RoutineInv'
<1>1. CoreType /\ SweepNotForgotten
  BY DEF RoutineInv
<1>2. p \in Routine /\ p # "sweep"
  BY Names
<1>3. retryTimer' \in BOOLEAN /\ retryCount' \in 0..MaxRetries /\ UNCHANGED <<retryTimer, retryCount, postponed>>
  BY <1>1 DEF CoreType, retries
<1>4. CoreType' /\ LockHeld' /\ at'["sweep"] = at["sweep"]
  BY <1>2, <1>3, Moves
<1>5. SweepNotForgotten'
  BY <1>1, <1>3, <1>4 DEF SweepNotForgotten, ScheduledSweepRunning
<1> QED
  BY <1>4, <1>5 DEF RoutineInv

LEMMA SweepMoves ==
  ASSUME RoutineInv, NEW s \in Place, at' = [at EXCEPT !["sweep"] = s],
         locks' \in [DB \cup {Global} -> Routine \cup {"none"}],
         \A q \in Routine \ {"sweep"} : q \notin overrun /\ at[q].pc \in Work /\ locks[Global] = q
                                    => locks'[Global] = q,
         overrun' = overrun \/ (overrun' = overrun \ {"sweep"} /\ s.pc \notin Work),
         s.pc \in Work => "sweep" \in overrun \/ locks'[Global] = "sweep",
         retryTimer' \in BOOLEAN, retryCount' \in 0..MaxRetries,
         postponed' => s.pc # "idle" \/ retryTimer' \/ retryCount' = MaxRetries
  PROVE  RoutineInv'
<1>1. CoreType' /\ LockHeld' /\ at'["sweep"] = s
  BY Moves, Names
<1>2. SweepNotForgotten'
  BY <1>1 DEF SweepNotForgotten, ScheduledSweepRunning
<1> QED
  BY <1>1, <1>2 DEF RoutineInv

(* A start finds the shared lock free: nobody else is at work under one. *)
LEMMA StartHolds ==
  ASSUME RoutineInv, NEW p \in Routine, NEW s \in Place, NEW d \in DB, Starts(p, s, d)
  PROVE  \E t \in Place :
           /\ t.pc = "script" /\ at' = [at EXCEPT ![p] = t] /\ overrun' = overrun
           /\ locks' \in [DB \cup {Global} -> Routine \cup {"none"}] /\ locks'[Global] = p
           /\ locks[Global] = "none"
<1> DEFINE t == [s EXCEPT !.pc = "script", !.db = d, !.todo = s.todo \ {d}]
<1>1. CoreType
  BY DEF RoutineInv
<1>2. "script" \in Pc /\ s.todo \ {d} \in SUBSET DB
  BY DEF Pc, Place
<1>3. t \in Place /\ t.pc = "script"
  BY <1>2 DEF Place
<1>4. at' = [at EXCEPT ![p] = t] /\ overrun' = overrun /\ locks' = SetDatabaseRoutineLock(d, p)
      /\ locks[Global] = "none"
  BY DEF Starts, DatabaseRoutineActive
<1> HIDE DEF t
<1> QED
  BY <1>1, <1>3, <1>4, LockTaken

(***************************************************************************)
(* The actions                                                             *)
(***************************************************************************)
LEMMA StartInv ==
  ASSUME RoutineInv, NEW p \in {"check", "backup", "session"}, NEW s \in Place, NEW d \in DB,
         Starts(p, s, d), UNCHANGED retries
  PROVE  RoutineInv'
<1>1. p \in Routine
  BY Names
<1>2. PICK t \in Place :
        /\ t.pc = "script" /\ at' = [at EXCEPT ![p] = t] /\ overrun' = overrun
        /\ locks' \in [DB \cup {Global} -> Routine \cup {"none"}] /\ locks'[Global] = p
        /\ locks[Global] = "none"
  BY <1>1, StartHolds
<1>3. \A q \in Routine \ {p} : q \notin overrun /\ at[q].pc \in Work /\ locks[Global] = q
                                    => locks'[Global] = q
  BY <1>2, Names
<1> QED
  BY <1>2, <1>3, OtherMoves

(* A routine of which the pass goes on, or is over, with the same locks. *)
LEMMA SkipInv ==
  ASSUME RoutineInv, NEW p \in {"check", "backup", "session"}, NEW s \in Place, s.pc \notin Work,
         at' = [at EXCEPT ![p] = s], UNCHANGED <<locks, retries, overrun>>
  PROVE  RoutineInv'
<1>1. locks' \in [DB \cup {Global} -> Routine \cup {"none"}]
  BY DEF RoutineInv, CoreType
<1> QED
  BY <1>1, OtherMoves

(* The end of the work on a database. *)
LEMMA EndInv ==
  ASSUME RoutineInv, NEW p \in {"check", "backup", "session"}, NEW s \in Place, s.pc \notin Work,
         NEW d, at' = [at EXCEPT ![p] = s], locks' = ClearDatabaseRoutineLock(d, p),
         overrun' = overrun \/ overrun' = overrun \ {p}, UNCHANGED retries
  PROVE  RoutineInv'
<1>1. CoreType /\ p \in Routine
  BY Names DEF RoutineInv
<1>2. /\ locks' \in [DB \cup {Global} -> Routine \cup {"none"}]
      /\ \A q \in Routine \ {p} : locks[Global] = q => locks'[Global] = q
  BY <1>1, LockCleared
<1> QED
  BY <1>2, OtherMoves

LEMMA CheckInv ==
  ASSUME RoutineInv, CheckStep \/ \E d \in DB : CheckStart(d)
  PROVE  RoutineInv'
<1>1. CoreType /\ "check" \in Routine
  BY Names DEF RoutineInv
<1>2. at["check"] \in Place /\ CheckPass \in Place
  BY <1>1, PassPlace DEF CoreType, CheckPass
<1>3. ASSUME NEW d \in DB, CheckSkips(d) PROVE RoutineInv'
  <2> DEFINE s == Rest("check", CheckPass, d)
  <2>1. s \in Place /\ s.pc \notin Work
    BY <1>1, <1>2, RestPlace
  <2>2. at' = [at EXCEPT !["check"] = s] /\ UNCHANGED <<locks, retries, overrun>>
    BY <1>3 DEF CheckSkips, Skips
  <2> HIDE DEF s
  <2> QED
    BY <2>1, <2>2, SkipInv
<1>4. ASSUME NEW d \in DB, CheckStart(d) PROVE RoutineInv'
  BY <1>2, <1>4, StartInv DEF CheckStart, retries
<1>5. ASSUME NEW pc \in {"write", "fail"}, NEW d, GoTo("check", pc),
             locks' = ClearDatabaseRoutineLock(d, "check"), UNCHANGED <<retries, overrun>>
      PROVE  RoutineInv'
  <2> DEFINE s == [at["check"] EXCEPT !.pc = pc]
  <2>1. s \in Place /\ s.pc \notin Work
    BY <1>2, PlaceFields DEF Pc, Work
  <2>2. at' = [at EXCEPT !["check"] = s]
    BY <1>5 DEF GoTo
  <2> HIDE DEF s
  <2> QED
    BY <1>5, <2>1, <2>2, EndInv
<1>6. ASSUME NEW r \in Answer, CheckReturns(r) PROVE RoutineInv'
  <2> DEFINE d == at["check"].db
             s == Rest("check", at["check"], d)
  <2>1. /\ locks' = ClearDatabaseRoutineLock(d, "check") /\ UNCHANGED <<retries, overrun>>
        /\ GoTo("check", "write") \/ GoTo("check", "fail") \/ at' = [at EXCEPT !["check"] = s]
    BY <1>6 DEF CheckReturns, NextDb
  <2>2. s \in Place /\ s.pc \notin Work
    BY <1>1, <1>2, RestPlace
  <2> HIDE DEF s, d
  <2>3. CASE at' = [at EXCEPT !["check"] = s]
    BY <2>1, <2>2, <2>3, EndInv
  <2> QED
    BY <1>5, <2>1, <2>3
<1>7. CASE CheckWrites
  <2> DEFINE s == Rest("check", at["check"], at["check"].db)
  <2>1. s \in Place /\ s.pc \notin Work
    BY <1>1, <1>2, RestPlace
  <2>2. at' = [at EXCEPT !["check"] = s] /\ UNCHANGED <<locks, retries, overrun>>
    BY <1>7 DEF CheckWrites, NextDb
  <2> HIDE DEF s
  <2> QED
    BY <2>1, <2>2, SkipInv
<1> QED
  BY <1>3, <1>4, <1>6, <1>7 DEF CheckStep

(* Steps that leave routines, locks and retries alone. *)
LEMMA FrameInv ==
  ASSUME RoutineInv, UNCHANGED <<locks, at, retries, overrun>>
  PROVE  RoutineInv'
BY DEF RoutineInv, CoreType, LockHeld, SweepNotForgotten, ScheduledSweepRunning, retries

LEMMA SessionInv ==
  ASSUME RoutineInv, SessionStep \/ SessionStart
  PROVE  RoutineInv'
<1>1. CoreType /\ "session" \in Routine /\ at["session"] \in Place
  BY Names DEF RoutineInv, CoreType
<1>2. CASE SessionSkips
  BY <1>2, FrameInv DEF SessionSkips
<1>3. ASSUME NEW r \in Answer, SessionReturns(r) PROVE RoutineInv'
  <2>1. Idle \in Place /\ Idle.pc \notin Work
    BY IdlePlace DEF Work
  <2> QED
    BY <1>3, <2>1, EndInv DEF SessionReturns
<1>4. CASE SessionStart
  <2> DEFINE s == [at["session"] EXCEPT !.pc = "script", !.db = PrimaryDb]
  <2>1. s \in Place /\ s.pc = "script"
    BY <1>1, WorkerAssumption DEF Place, Pc
  <2>2. /\ at' = [at EXCEPT !["session"] = s] /\ UNCHANGED <<retries, overrun>>
        /\ locks' = SetDatabaseRoutineLock(PrimaryDb, "session") /\ locks[Global] = "none"
    BY <1>4 DEF SessionStart, DatabaseRoutineActive
  <2>3. locks' \in [DB \cup {Global} -> Routine \cup {"none"}] /\ locks'[Global] = "session"
    BY <1>1, <2>2, LockTaken, WorkerAssumption
  <2>4. \A q \in Routine \ {"session"} : q \notin overrun /\ at[q].pc \in Work /\ locks[Global] = q
                                    => locks'[Global] = q
    BY <2>2, Names
  <2> HIDE DEF s
  <2> QED
    BY <2>1, <2>2, <2>3, <2>4, OtherMoves
<1> QED
  BY <1>2, <1>3, <1>4 DEF SessionStep

LEMMA BackupInv ==
  ASSUME RoutineInv, BackupStep \/ \E d \in Backed : BackupStart(d)
  PROVE  RoutineInv'
<1>1. CoreType /\ LockHeld /\ "backup" \in Routine
  BY Names DEF RoutineInv
<1>2. at["backup"] \in Place /\ BackupPass \in Place
  BY <1>1, PassPlace, WorkerAssumption DEF CoreType, BackupPass
<1>3. ASSUME NEW d \in Backed, BackupSkips(d) PROVE RoutineInv'
  <2> DEFINE s == Rest("backup", BackupPass, d)
  <2>1. s \in Place /\ s.pc \notin Work
    BY <1>1, <1>2, RestPlace
  <2>2. at' = [at EXCEPT !["backup"] = s] /\ UNCHANGED <<locks, retries, overrun>>
    BY <1>3 DEF BackupSkips, Skips
  <2> HIDE DEF s
  <2> QED
    BY <2>1, <2>2, SkipInv
<1>4. ASSUME NEW d \in Backed, BackupStart(d) PROVE RoutineInv'
  <2>1. d \in DB /\ Starts("backup", BackupPass, d) /\ UNCHANGED retries
    BY <1>4, WorkerAssumption DEF BackupStart
  <2> QED
    BY <1>2, <2>1, StartInv
<1>5. ASSUME NEW d, BackupEnds(d), UNCHANGED retries PROVE RoutineInv'
  <2> DEFINE s == Rest("backup", at["backup"], at["backup"].db)
  <2>1. s \in Place /\ s.pc \notin Work
    BY <1>1, <1>2, RestPlace
  <2>2. /\ at' = [at EXCEPT !["backup"] = s] /\ overrun' = overrun \ {"backup"}
        /\ locks' = ClearDatabaseRoutineLock(d, "backup")
    BY <1>5 DEF BackupEnds, NextDb
  <2> HIDE DEF s
  <2> QED
    BY <1>5, <2>1, <2>2, EndInv
<1>6. ASSUME NEW pc \in {"stat", "validate"}, at["backup"].pc \in Work, GoTo("backup", pc),
             UNCHANGED <<locks, retries, overrun>>
      PROVE  RoutineInv'
  <2> DEFINE s == [at["backup"] EXCEPT !.pc = pc]
  <2>1. s \in Place
    BY <1>2, PlaceFields DEF Pc
  <2>2. at' = [at EXCEPT !["backup"] = s] /\ locks' \in [DB \cup {Global} -> Routine \cup {"none"}]
    BY <1>1, <1>6 DEF GoTo, CoreType
  <2>3. "backup" \in overrun \/ locks'[Global] = "backup"
    BY <1>1, <1>6 DEF LockHeld
  <2> HIDE DEF s
  <2> QED
    BY <1>6, <2>1, <2>2, <2>3, OtherMoves
<1>7. ASSUME NEW r \in Result, BackupReturns(r) \/ BackupValidated(r) PROVE RoutineInv'
  <2>1. /\ UNCHANGED retries
        /\ \/ at["backup"].pc \in Work /\ GoTo("backup", "stat") /\ UNCHANGED <<locks, overrun>>
           \/ BackupEnds(at["backup"].db)
    BY <1>7 DEF BackupReturns, BackupValidated, BackupFails, Work
  <2> QED
    BY <1>5, <1>6, <2>1
<1>8. CASE BackupMeasured
  <2>1. /\ UNCHANGED retries
        /\ \/ at["backup"].pc \in Work /\ GoTo("backup", "validate") /\ UNCHANGED <<locks, overrun>>
           \/ BackupEnds(at["backup"].db)
    BY <1>8 DEF BackupMeasured, BackupFails, Work
  <2> QED
    BY <1>5, <1>6, <2>1
<1> QED
  BY <1>3, <1>4, <1>7, <1>8 DEF BackupStep

(* The timer and the count after an attempt that was put off. *)
LEMMA RetrySet ==
  ASSUME CoreType, NEW timer \in BOOLEAN, NEW count \in 0..MaxRetries
  PROVE  LET retry == ScheduleSweepRetry(timer, count)
         IN /\ retry[1] \in BOOLEAN /\ retry[2] \in 0..MaxRetries
            /\ retry[1] \/ retry[2] = MaxRetries
<1>1. MaxRetries \in Nat
  BY WorkerAssumption
<1>2. CASE timer
  <2>1. ScheduleSweepRetry(timer, count) = <<timer, count>>
    BY <1>2 DEF ScheduleSweepRetry
  <2>2. <<timer, count>>[1] = timer /\ <<timer, count>>[2] = count
    OBVIOUS
  <2> QED
    BY <1>2, <2>1, <2>2, Zenon
<1>3. CASE ~timer /\ count >= MaxRetries
  <2>1. ScheduleSweepRetry(timer, count) = <<FALSE, MaxRetries>>
    <3>1. count = MaxRetries /\ timer = FALSE
      BY <1>1, <1>3
    <3> QED
      BY <1>3, <3>1 DEF ScheduleSweepRetry
  <2> QED
    BY <1>1, <2>1
<1>4. CASE ~timer /\ ~(count >= MaxRetries)
  <2>1. ScheduleSweepRetry(timer, count) = <<TRUE, count + 1>>
    BY <1>4 DEF ScheduleSweepRetry
  <2>2. count + 1 \in 0..MaxRetries
    BY <1>1, <1>4
  <2> QED
    BY <2>1, <2>2
<1> QED
  BY <1>2, <1>3, <1>4

LEMMA SweepsInv ==
  ASSUME RoutineInv, NEW count \in 0..MaxRetries, RunScheduledSweeps(FALSE, count),
         UNCHANGED <<locks, overrun>>
  PROVE  RoutineInv'
<1>1. CoreType /\ LockHeld
  BY DEF RoutineInv
<1>2. CASE at' = at
  <2>1. retryTimer' \in BOOLEAN /\ retryCount' \in 0..MaxRetries
    BY <1>1, RetrySet DEF RunScheduledSweeps
  <2>2. ScheduledSweepRunning' \/ retryTimer' \/ retryCount' = MaxRetries \/ ~postponed'
    <3>1. CASE ScheduledSweepRunning
      BY <1>2, <3>1 DEF ScheduledSweepRunning
    <3>2. CASE ~ScheduledSweepRunning
      BY <1>1, <3>2, RetrySet DEF RunScheduledSweeps
    <3> QED
      BY <3>1, <3>2
  <2>3. CoreType' /\ LockHeld'
    BY <1>1, <1>2, <2>1 DEF CoreType, LockHeld
  <2> QED
    BY <2>2, <2>3 DEF RoutineInv, SweepNotForgotten
<1>3. CASE at' = [at EXCEPT !["sweep"] = Pass(DB)] /\ retryTimer' = FALSE /\ retryCount' = count
  <2>1. Pass(DB) \in Place /\ Pass(DB).pc = "next"
    BY <1>1, PassPlace, Names
  <2>2. /\ Pass(DB).pc \notin Work /\ retryTimer' \in BOOLEAN /\ retryCount' \in 0..MaxRetries
        /\ locks' \in [DB \cup {Global} -> Routine \cup {"none"}]
        /\ Pass(DB).pc # "idle"
    BY <1>1, <1>3, <2>1 DEF Work, CoreType
  <2> QED
    BY <1>3, <2>1, <2>2, SweepMoves
<1> QED
  BY <1>2, <1>3 DEF RunScheduledSweeps

LEMMA SweepInv ==
  ASSUME RoutineInv, SweepStep \/ SweepCron \/ SweepRetry \/ SweepThrows
  PROVE  RoutineInv'
<1>1. CoreType /\ LockHeld /\ "sweep" \in Routine
  BY Names DEF RoutineInv
<1>2. /\ at["sweep"] \in Place /\ retryTimer \in BOOLEAN /\ retryCount \in 0..MaxRetries
      /\ locks \in [DB \cup {Global} -> Routine \cup {"none"}]
  BY <1>1 DEF CoreType
<1>3. CASE SweepCron
  <2>1. 0 \in 0..MaxRetries
    BY WorkerAssumption
  <2> QED
    BY <1>3, <2>1, SweepsInv DEF SweepCron
<1>4. CASE SweepRetry
  BY <1>2, <1>4, SweepsInv DEF SweepRetry
<1>5. ASSUME NEW s \in Place, s.pc \notin Work, at' = [at EXCEPT !["sweep"] = s],
             UNCHANGED <<locks, overrun>>,
             retryTimer' \in BOOLEAN, retryCount' \in 0..MaxRetries,
             postponed' => s.pc # "idle" \/ retryTimer' \/ retryCount' = MaxRetries
      PROVE  RoutineInv'
  BY <1>2, <1>5, SweepMoves
<1>6. CASE SweepYields
  <2> DEFINE s == [at["sweep"] EXCEPT !.todo = {}, !.busy = {}]
  <2>1. s \in Place /\ s.pc = "next"
    BY <1>2, <1>6 DEF Place, SweepYields
  <2>2. at' = [at EXCEPT !["sweep"] = s] /\ UNCHANGED <<locks, overrun, retryTimer, retryCount>>
    BY <1>6 DEF SweepYields
  <2> HIDE DEF s
  <2>3. s.pc \notin Work /\ s.pc # "idle"
    BY <2>1 DEF Work
  <2> QED
    BY <1>2, <1>5, <2>1, <2>2, <2>3
<1>7. ASSUME NEW d \in DB, SweepPostponed(d) PROVE RoutineInv'
  <2> DEFINE s == Rest("sweep", at["sweep"], d)
  <2>1. s \in Place /\ s.pc \notin Work /\ s.pc # "idle"
    BY <1>1, <1>2, RestPlace
  <2>2. at' = [at EXCEPT !["sweep"] = s] /\ UNCHANGED <<locks, overrun, retryTimer, retryCount>>
    BY <1>7 DEF SweepPostponed, Skips
  <2> HIDE DEF s
  <2> QED
    BY <1>2, <1>5, <2>1, <2>2
<1>8. ASSUME NEW d \in DB, SweepStart(d) PROVE RoutineInv'
  <2>1. Starts("sweep", at["sweep"], d) /\ UNCHANGED <<retryTimer, retryCount, postponed>>
    BY <1>8 DEF SweepStart, retries
  <2>2. PICK t \in Place :
          /\ t.pc = "script" /\ at' = [at EXCEPT !["sweep"] = t] /\ overrun' = overrun
          /\ locks' \in [DB \cup {Global} -> Routine \cup {"none"}] /\ locks'[Global] = "sweep"
          /\ locks[Global] = "none"
    BY <1>1, <1>2, <2>1, StartHolds
  <2>3. \A q \in Routine \ {"sweep"} : q \notin overrun /\ at[q].pc \in Work /\ locks[Global] = q
                                    => locks'[Global] = q
    BY <2>2, Names
  <2>4. t.pc # "idle"
    BY <2>2
  <2> QED
    BY <1>2, <2>1, <2>2, <2>3, <2>4, SweepMoves
<1>9. ASSUME NEW r \in Result, SweepReturns(r) PROVE RoutineInv'
  <2> DEFINE d == at["sweep"].db
             s == Rest("sweep", at["sweep"], d)
  <2>1. s \in Place /\ s.pc \notin Work /\ s.pc # "idle"
    BY <1>1, <1>2, RestPlace
  <2>2. /\ at' = [at EXCEPT !["sweep"] = s] /\ UNCHANGED <<retryTimer, retryCount, postponed>>
        /\ locks' = ClearDatabaseRoutineLock(d, "sweep") /\ overrun' = overrun \ {"sweep"}
    BY <1>9 DEF SweepReturns, NextDb, retries
  <2>3. /\ locks' \in [DB \cup {Global} -> Routine \cup {"none"}]
        /\ \A q \in Routine \ {"sweep"} : locks[Global] = q => locks'[Global] = q
    BY <1>1, <2>2, LockCleared
  <2> HIDE DEF s, d
  <2> QED
    BY <1>2, <2>1, <2>2, <2>3, SweepMoves
<1>10. CASE SweepEnds
  <2>1. at' = [at EXCEPT !["sweep"] = Idle] /\ UNCHANGED <<locks, overrun, postponed>>
    BY <1>10 DEF SweepEnds
  <2>2. /\ retryTimer' \in BOOLEAN /\ retryCount' \in 0..MaxRetries
        /\ postponed => retryTimer' \/ retryCount' = MaxRetries
    BY <1>1, <1>2, <1>10, RetrySet DEF SweepEnds
  <2>3. Idle \in Place /\ Idle.pc \notin Work
    BY IdlePlace DEF Work
  <2> QED
    BY <1>5, <2>1, <2>2, <2>3
<1>11. CASE SweepThrows
  <2>1. /\ at' = [at EXCEPT !["sweep"] = Idle] /\ ~postponed'
        /\ UNCHANGED <<locks, overrun, retryTimer, retryCount>>
    BY <1>11 DEF SweepThrows
  <2>2. Idle \in Place /\ Idle.pc \notin Work
    BY IdlePlace DEF Work
  <2> QED
    BY <1>2, <1>5, <2>1, <2>2
<1> QED
  BY <1>3, <1>4, <1>6, <1>7, <1>8, <1>9, <1>10, <1>11 DEF SweepStep

(* A lock expires under its routine; no other one loses its lock. *)
LEMMA OutlivesInv ==
  ASSUME RoutineInv, NEW p \in Long, RoutineOutlives(p)
  PROVE  RoutineInv'
<1>1. CoreType /\ LockHeld /\ SweepNotForgotten /\ p \in Routine
  BY DEF RoutineInv, Long, Routine
<1>2. /\ locks' = [k \in DB \cup {Global} |-> IF locks[k] = p THEN "none" ELSE locks[k]]
      /\ overrun' = overrun \cup {p} /\ UNCHANGED <<at, retryTimer, retryCount, postponed>>
  BY DEF RoutineOutlives, retries
<1>3. CoreType'
  BY <1>1, <1>2 DEF CoreType
<1>4. LockHeld'
  BY <1>1, <1>2 DEF LockHeld
<1>5. SweepNotForgotten'
  BY <1>1, <1>2 DEF SweepNotForgotten, ScheduledSweepRunning
<1> QED
  BY <1>3, <1>4, <1>5 DEF RoutineInv

LEMMA CrashInv ==
  ASSUME Crash
  PROVE  RoutineInv'
<1>1. /\ locks' = [k \in DB \cup {Global} |-> "none"] /\ at' = [p \in Routine |-> Idle]
      /\ retryTimer' = FALSE /\ retryCount' = 0 /\ overrun' = {} /\ postponed' = FALSE
  BY DEF Crash
<1>2. at' \in [Routine -> Place] /\ \A p \in Routine : at'[p].pc \notin Work
  BY <1>1, IdlePlace DEF Work
<1>3. CoreType'
  <2>1. 0 \in 0..MaxRetries
    BY WorkerAssumption
  <2> QED
    BY <1>1, <1>2, <2>1 DEF CoreType
<1>4. LockHeld' /\ SweepNotForgotten'
  BY <1>1, <1>2 DEF LockHeld, SweepNotForgotten
<1> QED
  BY <1>3, <1>4 DEF RoutineInv

(***************************************************************************)
(* The theorems                                                            *)
(***************************************************************************)
LEMMA InitInv == Init => RoutineInv
<1> SUFFICES ASSUME Init PROVE RoutineInv
  OBVIOUS
<1>1. at \in [Routine -> Place] /\ \A p \in Routine : at[p].pc \notin Work
  BY IdlePlace DEF Init, Work
<1>2. CoreType
  <2>1. 0 \in 0..MaxRetries
    BY WorkerAssumption
  <2> QED
    BY <1>1, <2>1 DEF CoreType, Init
<1>3. LockHeld /\ SweepNotForgotten
  BY <1>1 DEF LockHeld, SweepNotForgotten, Init
<1> QED
  BY <1>2, <1>3 DEF RoutineInv

LEMMA NextInv == RoutineInv /\ [Next]_vars => RoutineInv'
<1> SUFFICES ASSUME RoutineInv, [Next]_vars PROVE RoutineInv'
  OBVIOUS
<1>1. ASSUME \/ \E d \in DB : CooldownEnds(d) \/ OperationEnds(d)
             \/ \E d \in Backed : BackupDue(d)
             \/ HaSyncEnds \/ FirebirdReturns \/ OrphanToolEnds \/ Event \/ UNCHANGED vars
      PROVE  RoutineInv'
  <2>1. UNCHANGED <<locks, at, retries, overrun>>
    BY <1>1 DEF CooldownEnds, OperationEnds, BackupDue, HaSyncEnds, FirebirdReturns,
                OrphanToolEnds, Event, vars
  <2> QED
    BY <2>1, FrameInv
<1> QED
  BY <1>1, CheckInv, SessionInv, BackupInv, SweepInv, OutlivesInv, CrashInv DEF Next

(* The inductive invariant: who works on Firebird holds the shared lock or *)
(* outlived it, and a postponed sweep has something that comes after it.   *)
THEOREM RoutineInvariant == Spec => []RoutineInv
<1> QED
  BY InitInv, NextInv, PTL DEF Spec

(* For any number of databases, two routines are never at work on Firebird *)
(* together unless one of them has outlived its lock of an hour.           *)
THEOREM OneRoutineSafety == Spec => []OneRoutine
<1>1. RoutineInv => OneRoutine
  BY DEF RoutineInv, LockHeld, OneRoutine, InFirebird, Work
<1> QED
  BY <1>1, RoutineInvariant, PTL

(* For any number of databases and retries, a sweep that was postponed has *)
(* a pass or a retry before it, unless its retries are used up.            *)
THEOREM SweepSafety == Spec => []SweepNotForgotten
<1>1. RoutineInv => SweepNotForgotten
  BY DEF RoutineInv
<1> QED
  BY <1>1, RoutineInvariant, PTL

(***************************************************************************)
(* The order of the rows                                                   *)
(***************************************************************************)
(* A row is changed, but not its date. *)
LEMMA EditRow ==
  ASSUME RowsOK, Ordered, NEW id \in Ids, NEW r \in Row, r.older = rows[id].older,
         rows' = With(id, r)
  PROVE  /\ Ids' = Ids /\ rows' \in [Ids' -> Row] /\ Ordered'
         /\ rows'[id] = r /\ \A i \in Ids \ {id} : rows'[i] = rows[i]
PROOF
<1>1. Ids' = Ids /\ rows' \in [Ids -> Row]
  BY DEF RowsOK, With, Ids
<1>2. rows'[id] = r /\ \A i \in Ids \ {id} : rows'[i] = rows[i]
  BY DEF RowsOK, With, Ids
<1>3. \A i \in Ids : rows'[i].older = rows[i].older
  BY <1>2
<1>4. Ordered'
  BY <1>1, <1>3 DEF Ordered
<1> QED
  BY <1>1, <1>2, <1>4

(* A row is deleted. *)
LEMMA DeleteRow ==
  ASSUME RowsOK, Ordered, NEW id, rows' = Without(id)
  PROVE  /\ Ids' = Ids \ {id} /\ rows' \in [Ids' -> Row] /\ Ordered'
         /\ \A i \in Ids' : rows'[i] = [rows[i] EXCEPT !.older = @ \ {id}]
PROOF
<1>1. Ids' = Ids \ {id}
  BY DEF Without, Ids
<1>2. \A i \in Ids' : rows'[i] = [rows[i] EXCEPT !.older = @ \ {id}]
  BY <1>1 DEF Without, Ids
<1>3. ASSUME NEW i \in Ids' PROVE rows'[i] \in Row /\ rows'[i].older = rows[i].older \ {id}
  <2> DEFINE o == rows[i].older \ {id}
  <2>1. rows[i] \in Row /\ o \in SUBSET Id
    BY <1>1, <1>3 DEF RowsOK, Row
  <2>2. rows'[i] = [rows[i] EXCEPT !.older = o]
    BY <1>2, <1>3
  <2> HIDE DEF o
  <2>3. rows'[i] \in Row /\ rows'[i].older = o
    BY <2>1, <2>2 DEF Row
  <2> QED BY <2>3 DEF o
<1>4. rows' \in [Ids' -> Row]
  BY <1>1, <1>3 DEF Without, Ids
<1>5. Ordered'
  BY <1>1, <1>3 DEF Ordered
<1> QED
  BY <1>1, <1>2, <1>4, <1>5

(* A row is made: it is the newest. *)
LEMMA MakeRow ==
  ASSUME RowsOK, Ordered, NEW rs, NEW id \in Id \ Ids,
         rs \in [Ids -> Row], \A i \in Ids : rs[i].older = rows[i].older,
         rows' = WithNew(rs, id)
  PROVE  /\ Ids' = Ids \cup {id} /\ rows' \in [Ids' -> Row] /\ Ordered'
         /\ rows'[id] = [NewRow EXCEPT !.older = Ids]
         /\ \A i \in Ids : rows'[i] = rs[i]
PROOF
<1>1. DOMAIN rs = Ids
  OBVIOUS
<1>2. Ids' = Ids \cup {id}
  BY <1>1 DEF WithNew, Ids
<1>3. rows'[id] = [NewRow EXCEPT !.older = Ids] /\ \A i \in Ids : rows'[i] = rs[i]
  BY <1>1 DEF WithNew, Ids
<1>4. 0 \in 0..Old /\ Ids \in SUBSET Id
  BY HistoryAssumption DEF Old, WeekSlots, RowsOK
<1>5. [NewRow EXCEPT !.older = Ids] \in Row /\ [NewRow EXCEPT !.older = Ids].older = Ids
  BY <1>4 DEF NewRow, Row
<1>6. \A i \in Ids' : rows'[i] \in Row
  BY <1>2, <1>3, <1>5
<1>7. rows' \in [Ids' -> Row]
  BY <1>1, <1>2, <1>6 DEF WithNew, Ids
<1>8. rows'[id].older = Ids /\ \A i \in Ids : rows'[i].older = rows[i].older
  BY <1>3, <1>5
<1>9. Ordered'
  BY <1>2, <1>8 DEF Ordered
<1> QED
  BY <1>2, <1>3, <1>7, <1>9

(* Time passes: ages grow and old failures are forgotten. *)
LEMMA AgeRows ==
  ASSUME RowsOK, Ordered, rows' = Aged
  PROVE  /\ Ids' \subseteq Ids /\ rows' \in [Ids' -> Row] /\ Ordered'
         /\ \A i \in Ids : \/ rows[i].status # "FAILED" \/ i = manual
                           \/ rows[i].age < WeekSlots + Slots
                           => i \in Ids'
         /\ \A i \in Ids' : /\ rows'[i].status = rows[i].status /\ rows'[i].file = rows[i].file
                            /\ rows'[i].older = rows[i].older \cap Ids'
                            /\ rows'[i].age <= rows[i].age + 1 /\ rows[i].age <= rows'[i].age
                            /\ rows'[i].valid = rows[i].valid /\ rows'[i].suspect = rows[i].suspect
                            /\ rows[i].valid => rows'[i].validAge <= rows[i].validAge + 1
                            /\ rows'[i].age = Older(rows[i].age)
PROOF
<1> DEFINE kept == {i \in Ids : \/ rows[i].status # "FAILED" \/ i = manual
                                \/ rows[i].age < WeekSlots + Slots}
<1>1. Ids' = kept
  BY DEF Aged, Ids
<1>2. \A i \in kept : rows'[i] = [rows[i] EXCEPT !.older = @ \cap kept, !.age = Older(@),
                                    !.validAge = IF rows[i].valid THEN Older(@) ELSE 0]
  BY DEF Aged, Ids
<1>3. Old \in Nat
  BY HistoryAssumption DEF Old, WeekSlots
<1>4. \A n \in 0..Old : Older(n) \in 0..Old /\ Older(n) <= n + 1 /\ n <= Older(n)
  BY <1>3 DEF Older
<1>5. ASSUME NEW i \in kept
      PROVE  /\ rows'[i] \in Row /\ rows'[i].status = rows[i].status /\ rows'[i].file = rows[i].file
             /\ rows'[i].older = rows[i].older \cap kept
             /\ rows'[i].age <= rows[i].age + 1 /\ rows[i].age <= rows'[i].age
             /\ rows'[i].valid = rows[i].valid /\ rows'[i].suspect = rows[i].suspect
             /\ rows[i].valid => rows'[i].validAge <= rows[i].validAge + 1
             /\ rows'[i].age = Older(rows[i].age)
  <2>1. rows[i] \in Row
    BY DEF RowsOK
  <2>2. rows[i].older \cap kept \in SUBSET Id /\ rows[i].age \in 0..Old /\ rows[i].validAge \in 0..Old
        /\ 0 \in 0..Old
    BY <1>3, <2>1 DEF Row
  <2>3. /\ Older(rows[i].age) \in 0..Old /\ Older(rows[i].age) <= rows[i].age + 1
        /\ rows[i].age <= Older(rows[i].age)
        /\ Older(rows[i].validAge) \in 0..Old /\ Older(rows[i].validAge) <= rows[i].validAge + 1
    BY <1>4, <2>2
  <2> DEFINE o == rows[i].older \cap kept
             a == Older(rows[i].age)
             v == IF rows[i].valid THEN Older(rows[i].validAge) ELSE 0
  <2>4. /\ o \in SUBSET Id /\ a \in 0..Old /\ v \in 0..Old
        /\ a <= rows[i].age + 1 /\ rows[i].age <= a
        /\ rows[i].valid => v <= rows[i].validAge + 1
    BY <2>2, <2>3
  <2>5. rows'[i] = [rows[i] EXCEPT !.older = o, !.age = a, !.validAge = v]
    BY <1>2
  <2> HIDE DEF o, a, v
  <2>6. /\ rows'[i] \in Row /\ rows'[i].status = rows[i].status /\ rows'[i].file = rows[i].file
        /\ rows'[i].older = o /\ rows'[i].age = a /\ rows'[i].validAge = v
        /\ rows'[i].valid = rows[i].valid /\ rows'[i].suspect = rows[i].suspect
    BY <2>1, <2>4, <2>5 DEF Row
  <2> QED BY <2>4, <2>6 DEF o, a
<1>6. rows' \in [Ids' -> Row]
  BY <1>1, <1>5 DEF Aged, Ids
<1>7. kept \subseteq Ids
      /\ \A i \in Ids : \/ rows[i].status # "FAILED" \/ i = manual
                        \/ rows[i].age < WeekSlots + Slots
                        => i \in kept
  OBVIOUS
<1>8. Ordered'
  <2> HIDE DEF kept
  <2> QED BY <1>1, <1>5, <1>7 DEF Ordered
<1> QED
  BY <1>1, <1>5, <1>6, <1>7, <1>8

(***************************************************************************)
(* The newest success                                                      *)
(***************************************************************************)
(* A step keeps the newest success when it takes nothing from it unless it *)
(* is in a list, puts it into no list, and makes no success.               *)
LEMMA QuietStep ==
  ASSUME KeptInv, Successes' \subseteq Successes,
         had' => had /\ \A m \in Successes :
           m \notin ToDelete /\ (\A i \in Successes \ {m} : i \in rows[m].older) =>
             /\ m \in Successes' /\ (rows[m].file => rows'[m].file)
             /\ m \notin ToDelete'
             /\ Successes' \cap rows[m].older \subseteq rows'[m].older
             /\ worker'.pc = "list" => /\ worker.pc = "list" /\ worker'.latest = worker.latest
                                       /\ rows'[m].age = rows[m].age
  PROVE  KeptInv'
PROOF
<1>1. CASE ~had'
  BY <1>1 DEF KeptInv
<1>2. CASE had'
  <2>1. PICK m \in Successes :
          /\ rows[m].file /\ m \notin ToDelete
          /\ \A i \in Successes \ {m} : i \in rows[m].older
          /\ worker.pc = "list" => m \in worker.latest \/ rows[m].age <= MaxRun
    BY <1>2 DEF KeptInv
  <2>2. /\ m \in Successes' /\ rows'[m].file /\ m \notin ToDelete'
        /\ \A i \in Successes' \ {m} : i \in rows'[m].older
        /\ worker'.pc = "list" => m \in worker'.latest \/ rows'[m].age <= MaxRun
    BY <1>2, <2>1
  <2> QED BY <1>2, <2>2 DEF KeptInv
<1> QED
  BY <1>1, <1>2

(* A backup that succeeds becomes the newest success, or leaves the one    *)
(* that is.                                                                *)
LEMMA SuccessStep ==
  ASSUME Ordered, KeptInv, NEW id \in Ids \ Successes, id \notin ToDelete,
         had' = Recorded(id), Ids' = Ids, \A i \in Ids \ {id} : rows'[i] = rows[i],
         rows'[id].older = rows[id].older, rows'[id].status = "SUCCESS",
         rows[id].file => rows'[id].file, ToDelete' \subseteq ToDelete,
         worker'.pc = "list" => /\ worker.pc = "list" /\ worker'.latest = worker.latest
                                /\ rows'[id].age <= MaxRun
  PROVE  KeptInv'
PROOF
<1>1. Successes' = Successes \cup {id} /\ Successes \subseteq Ids
  BY DEF Successes
<1>2. CASE ~had'
  BY <1>2 DEF KeptInv
<1>3. CASE had' /\ IsNewest(id)
  <2>1. rows'[id].file /\ id \notin ToDelete' /\ \A i \in Successes' \ {id} : i \in rows'[id].older
    BY <1>1, <1>3 DEF Recorded, IsNewest
  <2> QED BY <1>1, <2>1 DEF KeptInv
<1>4. CASE had' /\ ~IsNewest(id)
  <2>1. PICK m \in Successes :
          /\ rows[m].file /\ m \notin ToDelete
          /\ \A i \in Successes \ {m} : i \in rows[m].older
          /\ worker.pc = "list" => m \in worker.latest \/ rows[m].age <= MaxRun
    BY <1>4 DEF KeptInv, Recorded
  <2>2. m \in Ids /\ m # id /\ rows'[m] = rows[m]
    BY <1>1
  <2>3. m \notin rows[id].older
    <3>1. ASSUME m \in rows[id].older PROVE FALSE
      <4>1. rows[m].older \subseteq rows[id].older
        BY <2>2, <3>1 DEF Ordered
      <4> QED BY <1>4, <2>1, <3>1, <4>1 DEF IsNewest
    <3> QED BY <3>1
  <2>4. id \in rows[m].older
    BY <2>2, <2>3 DEF Ordered
  <2> QED BY <1>1, <2>1, <2>2, <2>4 DEF KeptInv
<1> QED
  BY <1>2, <1>3, <1>4

(* What the steps need of the types. *)
LEMMA RowTypes ==
  ASSUME RowsOK
  PROVE  /\ \A i \in Ids : rows[i] \in Row
         /\ 0 \notin Id /\ Ids \subseteq Id
         /\ worker.pc \in {"idle", "list", "retain", "row", "search", "gbak", "plan", "validate", "write"}
         /\ NoTurn \in Turn /\ worker.todo \subseteq Id
PROOF
<1>1. 0 \in 0..MaxRows /\ 0 \notin Id
  BY HistoryAssumption DEF Id
<1> QED
  BY <1>1 DEF RowsOK, Turn, NoTurn

(***************************************************************************)
(* Steps that leave the rows alone                                         *)
(***************************************************************************)
(* The rows and their order stay what they are. *)
LEMMA SameRows ==
  ASSUME Ordered, UNCHANGED rows
  PROVE  Ordered' /\ Ids' = Ids /\ Successes' = Successes
BY DEF Ordered, Ids, Successes

(* The retention reads the newest success, which is the kept one. *)
LEMMA PassStartsKeeps ==
  ASSUME HistoryInv, PassStarts
  PROVE  HistoryInv'
PROOF
<1>0. RowsOK /\ Ordered /\ RunningInv /\ ListsInv /\ KeptInv
  BY DEF HistoryInv
<1>1. Ordered' /\ Ids' = Ids /\ Successes' = Successes
  BY <1>0, SameRows DEF PassStarts
<1> DEFINE l == {i \in Successes : Successes \cap Newer(i) = {}}
<1>2. worker' = [NoTurn EXCEPT !.pc = "list", !.latest = l]
  BY DEF PassStarts
<1>3. had => \E m \in Successes : /\ rows[m].file /\ m \notin cleanup /\ m \in l
                                  /\ \A i \in Successes \ {m} : i \in rows[m].older
  <2>1. SUFFICES ASSUME had PROVE \E m \in Successes : /\ rows[m].file /\ m \notin cleanup /\ m \in l
                                  /\ \A i \in Successes \ {m} : i \in rows[m].older
    OBVIOUS
  <2>2. PICK m \in Successes : /\ rows[m].file /\ m \notin cleanup
                               /\ \A i \in Successes \ {m} : i \in rows[m].older
    BY <1>0, <2>1 DEF KeptInv, ToDelete
  <2>3. Successes \subseteq Ids
    BY DEF Successes
  <2>4. \A i, j \in Ids : i \in rows[j].older => j \notin rows[i].older
    BY <1>0 DEF Ordered
  <2>5. Successes \cap Newer(m) = {}
    BY <2>2, <2>3, <2>4, <1>0 DEF Newer, Ordered
  <2> QED BY <2>2, <2>5
<1>4. l \in SUBSET Id
  BY <1>0 DEF RowsOK, Successes
<1> HIDE DEF l
<1>5. worker' \in Turn /\ worker'.pc = "list" /\ worker'.latest = l /\ worker'.todo = {}
  BY <1>0, <1>2, <1>4, RowTypes DEF Turn, NoTurn
<1>6. RowsOK'
  BY <1>0, <1>1, <1>5 DEF RowsOK, PassStarts
<1>7. RunningInv'
  BY <1>0, <1>1, <1>5 DEF RunningInv, Running, AtBackup, PassStarts
<1>8. ListsInv'
  BY <1>0, <1>1, <1>5 DEF ListsInv, ToDelete, PassStarts, Running
<1>9. KeptInv'
  BY <1>0, <1>1, <1>3, <1>5 DEF KeptInv, ToDelete, PassStarts
<1> QED
  BY <1>1, <1>6, <1>7, <1>8, <1>9 DEF HistoryInv

(* It lists old successes, but neither the one it read nor a newer one. *)
LEMMA CleanupRetentionKeeps ==
  ASSUME HistoryInv, SafeSettings, CleanupRetention
  PROVE  HistoryInv'
PROOF
<1>0. RowsOK /\ Ordered /\ RunningInv /\ ListsInv /\ KeptInv
  BY DEF HistoryInv
<1>1. Ordered' /\ Ids' = Ids /\ Successes' = Successes
  BY <1>0, SameRows DEF CleanupRetention
<1>2. Expired \subseteq Successes /\ Successes \subseteq Ids
  BY DEF Expired, Successes
<1>3. worker' \in Turn /\ worker'.pc = "retain" /\ worker'.todo = Expired
  <2>1. Expired \in SUBSET Id
    BY <1>0, <1>2 DEF RowsOK
  <2> QED BY <1>0, <2>1 DEF CleanupRetention, RowsOK, Turn
<1>4. RowsOK'
  BY <1>0, <1>1, <1>3 DEF RowsOK, CleanupRetention
<1>5. RunningInv'
  BY <1>0, <1>1, <1>3 DEF RunningInv, Running, AtBackup, CleanupRetention
<1>6. ListsInv'
  <2>1. Running' = Running /\ Expired \cap Running = {}
    BY <1>0, <1>2, <1>3 DEF Running, RunningInv, CleanupRetention
  <2> QED BY <1>0, <1>3, <2>1 DEF ListsInv, ToDelete, CleanupRetention
<1>7. KeptInv'
  <2>1. CASE ~had
    BY <1>0, <1>1, <2>1 DEF KeptInv, ToDelete, CleanupRetention
  <2>2. CASE had
    <3>1. PICK m \in Successes :
            /\ rows[m].file /\ m \notin ToDelete
            /\ \A i \in Successes \ {m} : i \in rows[m].older
            /\ m \in worker.latest \/ rows[m].age <= MaxRun
      BY <1>0, <2>2 DEF KeptInv, ToDelete, CleanupRetention
    <3>2. m \notin Expired
      <4>1. rows[m].age \in Nat /\ Retention * Slots \in Nat /\ MaxRun \in Nat
            /\ MaxRun < Retention * Slots
        BY <1>0, <1>2, <3>1, HistoryAssumption, RowTypes DEF Row, SafeSettings
      <4> QED BY <3>1, <4>1 DEF Expired
    <3> QED BY <1>1, <1>3, <2>2, <3>1, <3>2 DEF KeptInv, ToDelete, CleanupRetention
  <2> QED BY <2>1, <2>2 DEF KeptInv
<1> QED
  BY <1>1, <1>4, <1>5, <1>6, <1>7 DEF HistoryInv

(* A cleanup keeps the newest of the successes that are old enough. *)
LEMMA CleanupKeeps ==
  ASSUME HistoryInv, SafeSettings, NEW c \in Cleanups, Cleanup(c)
  PROVE  HistoryInv'
PROOF
<1>0. RowsOK /\ Ordered /\ RunningInv /\ ListsInv /\ KeptInv
  BY DEF HistoryInv
<1>1. Ordered' /\ Ids' = Ids /\ Successes' = Successes
  BY <1>0, SameRows DEF Cleanup
<1> DEFINE old == {i \in Successes : c.days = 0 \/ rows[i].age >= c.days * Slots}
<1>2. cleanup' = old \ Newest(old, c.keep) /\ UNCHANGED <<worker, manual, had>>
  BY DEF Cleanup, BackupCleanupCandidates
<1>3. old \subseteq Successes /\ Successes \subseteq Ids
  BY DEF Successes
<1>4. RowsOK'
  BY <1>0, <1>1, <1>2, <1>3 DEF RowsOK, Cleanup
<1>5. RunningInv'
  BY <1>0, <1>1, <1>2 DEF RunningInv, Running, AtBackup, Cleanup
<1>6. ListsInv'
  <2>1. Running' = Running /\ cleanup' \cap Running = {}
    BY <1>0, <1>2, <1>3 DEF Running, RunningInv
  <2> QED BY <1>0, <1>2, <2>1 DEF ListsInv, ToDelete
<1>7. KeptInv'
  <2>1. CASE ~had
    BY <1>0, <1>1, <1>2, <2>1 DEF KeptInv
  <2>2. CASE had
    <3>1. PICK m \in Successes :
            /\ rows[m].file /\ m \notin ToDelete
            /\ \A i \in Successes \ {m} : i \in rows[m].older
            /\ worker.pc = "list" => m \in worker.latest \/ rows[m].age <= MaxRun
      BY <1>0, <2>2 DEF KeptInv
    <3>2. old \cap Newer(m) = {}
      BY <1>0, <1>3, <3>1 DEF Newer, Ordered
    <3>3. Cardinality(old \cap Newer(m)) < c.keep
      <4>1. Cardinality(old \cap Newer(m)) = 0
        BY <3>2, FS_EmptySet
      <4>2. c.keep \in Nat /\ c.keep > 0
        BY HistoryAssumption DEF SafeSettings
      <4> QED BY <4>1, <4>2
    <3>4. m \notin cleanup'
      BY <1>2, <3>3 DEF Newest
    <3> QED BY <1>1, <1>2, <2>2, <3>1, <3>4 DEF KeptInv, ToDelete, Cleanup
  <2> QED BY <2>1, <2>2 DEF KeptInv
<1> QED
  BY <1>1, <1>4, <1>5, <1>6, <1>7 DEF HistoryInv

(* The plan, a backup that is skipped or waits, and crashes only shorten   *)
(* the lists.                                                              *)
LEMMA OtherStepsKeep ==
  ASSUME HistoryInv,
         \/ BackupValidationPlan \/ BackupSkipped \/ WorkerStops \/ BackendStops \/ ProcessSeen
  PROVE  HistoryInv'
PROOF
<1>0. RowsOK /\ Ordered /\ RunningInv /\ ListsInv /\ KeptInv
  BY DEF HistoryInv
<1>a. rows' = rows /\ had' = had
  BY DEF BackupValidationPlan, BackupSkipped, WorkerStops, BackendStops, ProcessSeen
<1>1. Ordered' /\ Ids' = Ids /\ Successes' = Successes
  BY <1>0, <1>a, SameRows
<1>2. worker' \in Turn /\ worker'.todo \subseteq worker.todo
      /\ \/ worker' = worker
         \/ worker'.pc = "idle" /\ worker'.todo = {}
         \/ /\ worker.pc = "plan" /\ worker'.pc \in {"validate", "write"}
            /\ worker'.job = worker.job /\ worker'.todo = worker.todo
         \/ worker.pc = "search" /\ worker'.pc = "search" /\ worker'.todo = {}
  <2>1. CASE BackupValidationPlan
    BY <1>0, <2>1 DEF BackupValidationPlan, RowsOK, Turn
  <2>2. CASE WorkerStops
    BY <1>0, <2>2, RowTypes DEF WorkerStops, NoTurn
  <2>3. CASE BackupSkipped \/ BackendStops
    BY <1>0, <2>3 DEF BackupSkipped, BackendStops, RowsOK
  <2>4. CASE ProcessSeen
    BY <1>0, <2>4 DEF ProcessSeen, RowsOK, Turn
  <2> QED BY <2>1, <2>2, <2>3, <2>4
<1>3. /\ manual' = manual \/ manual' = 0
      /\ cleanup' \subseteq cleanup /\ dumped' \in {dumped, FALSE}
  BY DEF BackupValidationPlan, BackupSkipped, WorkerStops, BackendStops, ProcessSeen
<1>4. RowsOK'
  <2>1. manual' \in 0..MaxRows
    BY <1>0, <1>3, HistoryAssumption DEF RowsOK
  <2>2. cleanup' \subseteq Id /\ dumped' \in BOOLEAN
    BY <1>0, <1>3 DEF RowsOK
  <2> QED BY <1>0, <1>1, <1>2, <1>a, <2>1, <2>2 DEF RowsOK
<1>5. Running' \subseteq Running /\ RunningInv'
  <2>1. Running' \subseteq Running
    BY <1>2, <1>3 DEF Running
  <2>2. AtBackup' => AtBackup /\ worker'.job = worker.job
                     /\ (worker'.pc # "gbak" => worker.pc # "gbak")
    BY <1>2 DEF AtBackup
  <2>3. AtBackup' => worker.job # 0
    BY <1>0, <2>2, RowTypes DEF RunningInv, Running, AtBackup
  <2> QED BY <1>0, <1>1, <1>3, <1>a, <2>1, <2>2, <2>3 DEF RunningInv
<1>6. ToDelete' \subseteq ToDelete
  BY <1>0, <1>2, <1>3 DEF ToDelete, ListsInv
<1>7. ListsInv'
  BY <1>0, <1>2, <1>5, <1>6 DEF ListsInv
<1>8. KeptInv'
  <2>1. worker'.pc = "list" => worker' = worker
    BY <1>2
  <2> QED BY <1>0, <1>1, <1>6, <1>a, <2>1, QuietStep
<1> QED
  BY <1>1, <1>4, <1>5, <1>7, <1>8 DEF HistoryInv

(* The search reads what runs. *)
LEMMA SearchesKeep ==
  ASSUME HistoryInv, Searches
  PROVE  HistoryInv'
PROOF
<1>0. RowsOK /\ Ordered /\ RunningInv /\ ListsInv /\ KeptInv
  BY DEF HistoryInv
<1>1. Ordered' /\ Ids' = Ids /\ Successes' = Successes
  BY <1>0, SameRows DEF Searches
<1>2. /\ UNCHANGED <<rows, manual, dumped, cleanup, had>> /\ worker.pc = "retain" /\ worker.todo = {}
      /\ worker' \in Turn /\ worker'.pc = "search"
  <2>1. {i \in Ids : rows[i].status = "RUNNING"} \in SUBSET Id
    BY <1>0 DEF RowsOK
  <2> QED BY <1>0, <2>1 DEF Searches, RowsOK, Turn
<1>3. RowsOK'
  BY <1>0, <1>1, <1>2 DEF RowsOK
<1>4. RunningInv'
  BY <1>0, <1>1, <1>2 DEF RunningInv, Running, AtBackup
<1>5. ToDelete' = ToDelete
  BY <1>2 DEF ToDelete
<1>6. ListsInv'
  BY <1>0, <1>2, <1>5 DEF ListsInv, Running
<1>7. KeptInv'
  BY <1>0, <1>1, <1>2, <1>5, QuietStep
<1> QED
  BY <1>1, <1>3, <1>4, <1>6, <1>7 DEF HistoryInv

(***************************************************************************)
(* Steps that change a row                                                 *)
(***************************************************************************)
(* Retention and cleanup take the file of a row in their list. *)
LEMMA FilesStep ==
  ASSUME HistoryInv, NEW id \in Ids, id \in ToDelete,
         rows' = With(id, [rows[id] EXCEPT !.file = FALSE]),
         UNCHANGED <<manual, dumped, cleanup, had>>, worker' \in Turn, worker'.todo = worker.todo,
         \/ worker' = worker
         \/ worker.pc = "retain" /\ worker'.pc = "row" /\ worker'.job \in worker'.todo
  PROVE  HistoryInv'
PROOF
<1>0. RowsOK /\ Ordered /\ RunningInv /\ ListsInv /\ KeptInv
  BY DEF HistoryInv
<1> DEFINE r == [rows[id] EXCEPT !.file = FALSE]
<1>1. r \in Row /\ r.older = rows[id].older /\ r.status = rows[id].status
  BY <1>0, RowTypes DEF Row
<1>2. /\ Ids' = Ids /\ rows' \in [Ids' -> Row] /\ Ordered'
      /\ rows'[id] = r /\ \A i \in Ids \ {id} : rows'[i] = rows[i]
  BY <1>0, <1>1, EditRow
<1> HIDE DEF r
<1>3. Successes' = Successes
  BY <1>1, <1>2 DEF Successes
<1>4. RowsOK'
  BY <1>0, <1>2 DEF RowsOK
<1>5. Running' = Running /\ RunningInv'
  <2>1. Running' = Running /\ (AtBackup' => AtBackup /\ worker' = worker)
    BY DEF Running, AtBackup
  <2>2. id \notin Running /\ (AtBackup => worker.job \in Running)
    BY <1>0 DEF ListsInv, Running, AtBackup
  <2>3. AtBackup => worker.job \in Ids \ {id}
    BY <1>0, <2>2 DEF RunningInv
  <2> QED BY <1>0, <1>1, <1>2, <1>3, <2>1, <2>2, <2>3 DEF RunningInv
<1>6. ToDelete' = ToDelete
  BY DEF ToDelete
<1>7. ListsInv'
  BY <1>0, <1>5, <1>6 DEF ListsInv
<1>8. KeptInv'
  BY <1>0, <1>2, <1>3, <1>6, QuietStep DEF Successes
<1> QED
  BY <1>2, <1>4, <1>5, <1>7, <1>8 DEF HistoryInv

LEMMA FilesKeep ==
  ASSUME HistoryInv, NEW id \in Id, RetentionFiles(id) \/ CleanupFiles(id)
  PROVE  HistoryInv'
PROOF
<1>0. RowsOK /\ Ordered /\ RunningInv /\ ListsInv /\ KeptInv
  BY DEF HistoryInv
<1>1. CASE CleanupFiles(id)
  BY <1>0, <1>1, FilesStep DEF CleanupFiles, RowsOK, ToDelete
<1>2. CASE RetentionFiles(id)
  <2>1. /\ worker' \in Turn /\ worker'.todo = worker.todo /\ worker.pc = "retain"
        /\ worker'.pc = "row" /\ worker'.job = id /\ id \in worker.todo
    <3>1. id \in 0..MaxRows
      BY HistoryAssumption DEF Id
    <3> QED BY <1>0, <1>2, <3>1 DEF RetentionFiles, RowsOK, Turn
  <2>2. CASE id \in Ids
    BY <1>2, <2>1, <2>2, FilesStep DEF RetentionFiles, ToDelete
  <2>3. CASE id \notin Ids
    <3>1. Ordered' /\ Ids' = Ids /\ Successes' = Successes
          /\ UNCHANGED <<rows, manual, dumped, cleanup, had>>
      BY <1>0, <1>2, <2>3, SameRows DEF RetentionFiles
    <3>2. RowsOK'
      BY <1>0, <2>1, <3>1 DEF RowsOK
    <3>3. RunningInv'
      BY <1>0, <2>1, <3>1 DEF RunningInv, Running, AtBackup
    <3>4. ListsInv'
      BY <1>0, <2>1, <3>1 DEF ListsInv, ToDelete, Running
    <3>5. KeptInv'
      BY <1>0, <2>1, <3>1, QuietStep DEF ToDelete
    <3> QED BY <3>1, <3>2, <3>3, <3>4, <3>5 DEF HistoryInv
  <2> QED BY <2>2, <2>3
<1> QED
  BY <1>1, <1>2

(* A backup that runs gets its file, is validated, or fails. *)
LEMMA RunningStep ==
  ASSUME HistoryInv, NEW id \in Running, NEW r \in Row, rows' = With(id, r),
         r.older = rows[id].older, r.status # "SUCCESS", r.age = rows[id].age,
         UNCHANGED <<cleanup, had>>, manual' \in {manual, 0}, dumped' \in BOOLEAN,
         worker' \in Turn,
         \/ worker' = worker /\ (AtBackup => id # worker.job)
         \/ worker' = NoTurn /\ id = worker.job
         \/ /\ AtBackup /\ AtBackup' /\ id = worker.job /\ worker'.job = worker.job
            /\ worker'.todo = worker.todo
            /\ r.status = "RUNNING" /\ (worker'.pc # "gbak" => r.file)
  PROVE  HistoryInv'
PROOF
<1>0. RowsOK /\ Ordered /\ RunningInv /\ ListsInv /\ KeptInv
  BY DEF HistoryInv
<1>1. id \in Ids \ Successes /\ id # 0 /\ rows[id].age <= MaxRun
  BY <1>0, RowTypes DEF RunningInv
<1>2. /\ Ids' = Ids /\ rows' \in [Ids' -> Row] /\ Ordered'
      /\ rows'[id] = r /\ \A i \in Ids \ {id} : rows'[i] = rows[i]
  BY <1>0, <1>1, EditRow
<1>3. Successes' = Successes
  BY <1>1, <1>2 DEF Successes
<1>4. RowsOK'
  BY <1>0, <1>2, HistoryAssumption DEF RowsOK
<1>5. Running' \subseteq Running /\ RunningInv'
  <2>1. NoTurn.pc = "idle" /\ (AtBackup => worker.job \in Running /\ worker.job # 0)
    BY <1>0, RowTypes DEF NoTurn, Running, AtBackup, RunningInv
  <2>2. AtBackup' => AtBackup /\ worker'.job = worker.job
    BY <2>1 DEF AtBackup
  <2>3. Running' \subseteq Running
    BY <2>1, <2>2 DEF Running, AtBackup
  <2>4. \A i \in Running' : i \in Ids' \ Successes' /\ rows'[i].age <= MaxRun
    BY <1>0, <1>1, <1>2, <1>3, <2>3 DEF RunningInv
  <2>5. ASSUME AtBackup'
        PROVE  /\ manual' # worker'.job /\ rows'[worker'.job].status = "RUNNING"
               /\ worker'.pc # "gbak" => rows'[worker'.job].file
    <3>1. manual' # worker'.job
      BY <1>0, <2>1, <2>2, <2>5 DEF RunningInv
    <3>2. CASE id = worker.job
      BY <1>2, <2>1, <2>2, <2>5, <3>1, <3>2 DEF AtBackup
    <3>3. CASE id # worker.job
      <4>1. worker' = worker /\ worker.job \in Ids
        BY <1>0, <2>1, <2>2, <2>5, <3>3 DEF RunningInv, AtBackup
      <4> QED BY <1>0, <1>2, <2>2, <2>5, <3>1, <3>3, <4>1 DEF RunningInv
    <3> QED BY <3>2, <3>3
  <2> QED BY <2>3, <2>4, <2>5 DEF RunningInv
<1>6. worker' = worker \/ (worker'.pc \notin {"list", "retain", "row", "search"} /\ worker'.todo = {})
  BY <1>0 DEF NoTurn, AtBackup, ListsInv
<1>7. ToDelete' \subseteq ToDelete
  BY <1>6 DEF ToDelete
<1>8. ListsInv'
  BY <1>0, <1>5, <1>6, <1>7 DEF ListsInv
<1>9. KeptInv'
  <2>1. \A m \in Successes : rows'[m] = rows[m]
    BY <1>1, <1>2 DEF Successes
  <2> QED BY <1>0, <1>3, <1>6, <1>7, <2>1, QuietStep
<1> QED
  BY <1>2, <1>4, <1>5, <1>8, <1>9 DEF HistoryInv

LEMMA RunningKeep ==
  ASSUME HistoryInv,
         \/ Gbak \/ ValidateBackupRestore \/ ValidationFails
         \/ \E m \in BOOLEAN : AutomaticFails(m) \/ ManualFails(m) \/ ManualScript(m)
  PROVE  HistoryInv'
PROOF
<1>0. RowsOK /\ RunningInv
  BY DEF HistoryInv
<1>1. AtBackup => worker.job \in Running /\ worker.job \in Ids /\ rows[worker.job] \in Row
                  /\ rows[worker.job].status = "RUNNING" /\ manual # worker.job
  BY <1>0, RowTypes DEF Running, AtBackup, RunningInv
<1>2. manual # 0 => manual \in Running /\ manual \in Ids /\ rows[manual] \in Row
  BY <1>0, RowTypes DEF Running, RunningInv
<1>3. NoTurn \in Turn /\ NoTurn.todo = {} /\ NoTurn.pc = "idle" /\ 0 \in 0..Old
  BY <1>0, RowTypes, HistoryAssumption DEF NoTurn, Old, WeekSlots
<1>4. CASE Gbak
  <2> DEFINE r == [rows[worker.job] EXCEPT !.file = TRUE]
  <2>1. AtBackup /\ rows' = With(worker.job, r) /\ UNCHANGED <<manual, dumped, cleanup, had>>
    BY <1>4 DEF Gbak, AtBackup
  <2>2. r \in Row /\ r.older = rows[worker.job].older /\ r.status = "RUNNING"
        /\ r.age = rows[worker.job].age /\ r.file
    BY <1>1, <2>1 DEF Row
  <2>3. worker' \in Turn /\ worker'.pc = "plan" /\ worker'.job = worker.job
        /\ worker'.todo = worker.todo /\ AtBackup'
    BY <1>0, <1>4 DEF Gbak, RowsOK, Turn, AtBackup
  <2>4. manual' \in {manual, 0} /\ dumped' \in BOOLEAN
    BY <1>0, <2>1 DEF RowsOK
  <2> HIDE DEF r
  <2> QED BY <1>1, <2>1, <2>2, <2>3, <2>4, RunningStep
<1>5. CASE ValidateBackupRestore
  <2> DEFINE r == [rows[worker.job] EXCEPT !.valid = TRUE, !.validAge = 0]
  <2>1. AtBackup /\ rows' = With(worker.job, r) /\ UNCHANGED <<manual, dumped, cleanup, had>>
        /\ rows[worker.job].file
    BY <1>0, <1>5 DEF ValidateBackupRestore, AtBackup, RunningInv
  <2>2. r \in Row /\ r.older = rows[worker.job].older /\ r.status = "RUNNING"
        /\ r.age = rows[worker.job].age /\ r.file
    BY <1>1, <1>3, <2>1 DEF Row
  <2>3. worker' \in Turn /\ worker'.pc = "write" /\ worker'.job = worker.job
        /\ worker'.todo = worker.todo /\ AtBackup'
    BY <1>0, <1>5 DEF ValidateBackupRestore, RowsOK, Turn, AtBackup
  <2>4. manual' \in {manual, 0} /\ dumped' \in BOOLEAN
    BY <1>0, <2>1 DEF RowsOK
  <2> HIDE DEF r
  <2> QED BY <1>1, <2>1, <2>2, <2>3, <2>4, RunningStep
<1>6. ASSUME NEW id \in Ids, NEW m \in BOOLEAN, rows[id] \in Row
      PROVE  LET r == [rows[id] EXCEPT !.status = "FAILED", !.file = FALSE, !.valid = FALSE,
                                       !.validAge = 0, !.suspect = m]
             IN  /\ r \in Row /\ r.older = rows[id].older /\ r.status = "FAILED"
                 /\ r.age = rows[id].age /\ Fails(id, m) = With(id, r)
  BY <1>3, <1>6 DEF Row, Fails
<1>7. ASSUME NEW m \in BOOLEAN, AtBackup, rows' = Fails(worker.job, m), worker' = NoTurn,
             UNCHANGED <<manual, dumped, cleanup, had>>
      PROVE  HistoryInv'
  BY <1>0, <1>1, <1>3, <1>6, <1>7, RunningStep DEF RowsOK
<1>8. CASE ValidationFails
  BY <1>7, <1>8 DEF ValidationFails, AtBackup
<1>9. ASSUME NEW m \in BOOLEAN, AutomaticFails(m) PROVE HistoryInv'
  <2>1. AtBackup /\ UNCHANGED <<manual, dumped, cleanup, had>>
    BY <1>9 DEF AutomaticFails, AtBackup
  <2>2. (m \/ rows[worker.job].file) \in BOOLEAN
    OBVIOUS
  <2> QED BY <1>7, <1>9, <2>1, <2>2 DEF AutomaticFails
<1>10. ASSUME NEW m \in BOOLEAN, ManualFails(m) PROVE HistoryInv'
  <2>1. manual # 0 /\ rows' = Fails(manual, m) /\ UNCHANGED <<worker, cleanup, had>> /\ manual' = 0
        /\ dumped' \in BOOLEAN
    BY <1>10 DEF ManualFails
  <2>2. (AtBackup => manual # worker.job) /\ worker' \in Turn
    BY <1>0, <1>1, <2>1 DEF RowsOK
  <2> QED BY <1>2, <1>6, <2>1, <2>2, RunningStep
<1>11. ASSUME NEW m \in BOOLEAN, ManualScript(m) PROVE HistoryInv'
  <2> DEFINE r == [rows[manual] EXCEPT !.file = m]
  <2>1. manual # 0 /\ rows' = With(manual, r) /\ UNCHANGED <<worker, manual, cleanup, had>>
        /\ dumped' \in BOOLEAN
    BY <1>11 DEF ManualScript
  <2>2. r \in Row /\ r.older = rows[manual].older /\ r.status = rows[manual].status
        /\ r.age = rows[manual].age
    BY <1>2, <2>1 DEF Row
  <2>3. (AtBackup => manual # worker.job) /\ worker' \in Turn /\ r.status # "SUCCESS"
    BY <1>0, <1>1, <1>2, <2>1, <2>2 DEF RowsOK, RunningInv, Successes
  <2> HIDE DEF r
  <2> QED BY <1>2, <2>1, <2>2, <2>3, RunningStep
<1> QED
  BY <1>4, <1>5, <1>8, <1>9, <1>10, <1>11

(* A search marks a job, whatever became of it. *)
LEMMA MarkKeeps ==
  ASSUME HistoryInv, NEW id \in Id, MarkOrphanedRunningBackupFailed(id)
  PROVE  HistoryInv'
PROOF
<1>0. RowsOK /\ Ordered /\ RunningInv /\ ListsInv /\ KeptInv
  BY DEF HistoryInv
<1>1. /\ UNCHANGED <<manual, dumped, cleanup>> /\ worker.pc = "search" /\ id \in worker.todo
      /\ NoTurn \in Turn /\ NoTurn.pc = "idle" /\ NoTurn.todo = {}
  BY <1>0, RowTypes DEF MarkOrphanedRunningBackupFailed, NoTurn
<1>2. CASE id \notin Ids
  <2>1. UNCHANGED <<rows, had>> /\ worker' = NoTurn
    BY <1>2 DEF MarkOrphanedRunningBackupFailed
  <2>2. Ordered' /\ Ids' = Ids /\ Successes' = Successes
    BY <1>0, <2>1, SameRows
  <2>3. RowsOK'
    BY <1>0, <1>1, <2>1, <2>2 DEF RowsOK
  <2>4. RunningInv'
    BY <1>0, <1>1, <2>1, <2>2 DEF RunningInv, Running, AtBackup
  <2>5. ToDelete' = ToDelete
    BY <1>1, <2>1 DEF ToDelete
  <2>6. ListsInv'
    BY <1>0, <1>1, <2>1, <2>5 DEF ListsInv, Running
  <2>7. KeptInv'
    BY <1>0, <1>1, <2>1, <2>2, <2>5, QuietStep
  <2> QED BY <2>2, <2>3, <2>4, <2>6, <2>7 DEF HistoryInv
<1>3. CASE id \in Ids
  <2> DEFINE r == [rows[id] EXCEPT !.status = "FAILED", !.file = FALSE, !.valid = FALSE,
                                    !.validAge = 0, !.suspect = rows[id].file]
  <2>1. rows' = With(id, r) /\ had' = TakenBack(id) /\ worker' = [worker EXCEPT !.todo = @ \ {id}]
    BY <1>3 DEF MarkOrphanedRunningBackupFailed, Fails
  <2>2. r \in Row /\ r.older = rows[id].older /\ r.status = "FAILED" /\ r.age = rows[id].age
    <3>1. rows[id] \in Row /\ 0 \in 0..Old /\ rows[id].file \in BOOLEAN
      BY <1>0, <1>3, RowTypes, HistoryAssumption DEF Row, Old, WeekSlots
    <3> QED BY <3>1 DEF Row
  <2>3. worker' \in Turn /\ worker'.pc = "search" /\ worker'.job = worker.job
    <3>1. worker.todo \ {id} \in SUBSET Id
      BY <1>0, RowTypes
    <3> QED BY <1>0, <1>1, <2>1, <3>1 DEF RowsOK, Turn
  <2> HIDE DEF r
  <2>4. /\ Ids' = Ids /\ rows' \in [Ids' -> Row] /\ Ordered'
        /\ rows'[id] = r /\ \A i \in Ids \ {id} : rows'[i] = rows[i]
    BY <1>0, <1>3, <2>1, <2>2, EditRow
  <2>5. Successes' = Successes \ {id}
    BY <2>2, <2>4 DEF Successes
  <2>6. RowsOK'
    BY <1>0, <1>1, <2>1, <2>3, <2>4 DEF RowsOK, TakenBack
  <2>7. RunningInv'
    <3>1. Running' = Running /\ ~AtBackup'
      BY <1>1, <2>3 DEF Running, AtBackup
    <3>2. \A i \in Ids : rows'[i].age = rows[i].age
      BY <2>2, <2>4
    <3> QED BY <1>0, <2>4, <2>5, <3>1, <3>2 DEF RunningInv
  <2>8. ToDelete' = ToDelete /\ ToDelete = cleanup
    BY <1>1, <2>3 DEF ToDelete
  <2>9. ListsInv'
    BY <1>0, <1>1, <2>3, <2>8 DEF ListsInv, Running
  <2>10. KeptInv'
    BY <1>0, <1>1, <2>1, <2>3, <2>4, <2>5, <2>8, QuietStep DEF TakenBack, IsNewest, Successes
  <2> QED BY <2>4, <2>6, <2>7, <2>9, <2>10 DEF HistoryInv
<1> QED
  BY <1>2, <1>3

(* A backup succeeds. *)
LEMMA SuccessKeeps ==
  ASSUME HistoryInv, BackupSucceeds \/ ManualSucceeds
  PROVE  HistoryInv'
PROOF
<1>0. RowsOK /\ Ordered /\ RunningInv /\ ListsInv /\ KeptInv
  BY DEF HistoryInv
<1>1. PICK id \in Running, r \in Row :
        /\ rows' = With(id, r) /\ r.older = rows[id].older /\ r.age = rows[id].age
        /\ r.status = "SUCCESS" /\ r.file = rows[id].file /\ had' = Recorded(id)
        /\ cleanup' = cleanup /\ dumped' \in BOOLEAN
        /\ \/ worker' = NoTurn /\ manual' = manual /\ AtBackup /\ id = worker.job
           \/ worker' = worker /\ manual' = 0 /\ id = manual
  <2>1. CASE BackupSucceeds
    <3> DEFINE r == [rows[worker.job] EXCEPT !.status = "SUCCESS"]
    <3>1. AtBackup /\ worker.job \in Running /\ rows[worker.job] \in Row
      BY <1>0, <2>1, RowTypes DEF BackupSucceeds, AtBackup, Running, RunningInv
    <3>2. r \in Row /\ r.older = rows[worker.job].older /\ r.age = rows[worker.job].age
          /\ r.status = "SUCCESS" /\ r.file = rows[worker.job].file
      BY <3>1 DEF Row
    <3>3. /\ rows' = With(worker.job, r) /\ had' = Recorded(worker.job) /\ cleanup' = cleanup
          /\ worker' = NoTurn /\ manual' = manual /\ dumped' \in BOOLEAN
      BY <1>0, <2>1 DEF BackupSucceeds, RowsOK
    <3> HIDE DEF r
    <3> QED BY <3>1, <3>2, <3>3
  <2>2. CASE ManualSucceeds
    <3> DEFINE r == [rows[manual] EXCEPT !.status = "SUCCESS"]
    <3>1. manual \in Running /\ rows[manual] \in Row
      BY <1>0, <2>2, RowTypes DEF ManualSucceeds, Running, RunningInv
    <3>2. r \in Row /\ r.older = rows[manual].older /\ r.age = rows[manual].age
          /\ r.status = "SUCCESS" /\ r.file = rows[manual].file
      BY <3>1 DEF Row
    <3>3. /\ rows' = With(manual, r) /\ had' = Recorded(manual) /\ cleanup' = cleanup
          /\ worker' = worker /\ manual' = 0 /\ dumped' \in BOOLEAN
      BY <2>2 DEF ManualSucceeds
    <3> HIDE DEF r
    <3> QED BY <3>1, <3>2, <3>3
  <2> QED BY <2>1, <2>2
<1>2. id \in Ids \ Successes /\ rows[id].age <= MaxRun
  BY <1>0 DEF RunningInv
<1>3. /\ Ids' = Ids /\ rows' \in [Ids' -> Row] /\ Ordered'
      /\ rows'[id] = r /\ \A i \in Ids \ {id} : rows'[i] = rows[i]
  BY <1>0, <1>1, <1>2, EditRow
<1>4. Successes' = Successes \cup {id}
  BY <1>1, <1>2, <1>3 DEF Successes
<1>5. NoTurn \in Turn /\ NoTurn.todo = {} /\ NoTurn.pc = "idle"
  BY <1>0, RowTypes DEF NoTurn
<1>6. RowsOK'
  <2>1. rows[id].file \in BOOLEAN
    BY <1>0, <1>2, RowTypes DEF Row
  <2> QED BY <1>0, <1>1, <1>3, <1>5, <2>1, HistoryAssumption DEF RowsOK, Recorded
<1>7. Running' \subseteq Running \ {id} /\ RunningInv'
  <2>1. AtBackup => worker.job \in Running /\ manual # worker.job /\ worker.job # 0
    BY <1>0, RowTypes DEF AtBackup, Running, RunningInv
  <2>2. Running' \subseteq Running \ {id}
    BY <1>1, <1>5, <2>1 DEF Running, AtBackup
  <2>3. AtBackup' => worker' = worker /\ AtBackup /\ worker.job # id
    BY <1>1, <1>5, <2>1 DEF AtBackup
  <2>4. \A i \in Running' : i \in Ids' \ Successes' /\ rows'[i].age <= MaxRun
    BY <1>0, <1>3, <1>4, <2>2 DEF RunningInv
  <2>5. AtBackup' => /\ manual' # worker'.job /\ rows'[worker'.job].status = "RUNNING"
                     /\ worker'.pc # "gbak" => rows'[worker'.job].file
    <3>1. AtBackup => worker.job \in Ids
      BY <1>0, <2>1 DEF RunningInv
    <3> QED BY <1>0, <1>1, <1>3, <2>1, <2>3, <3>1 DEF RunningInv
  <2> QED BY <2>2, <2>4, <2>5 DEF RunningInv
<1>8. /\ ToDelete' \subseteq ToDelete /\ id \notin ToDelete
      /\ worker'.pc = "list" => worker' = worker
  BY <1>0, <1>1, <1>5 DEF ToDelete, ListsInv
<1>9. ListsInv'
  BY <1>0, <1>1, <1>5, <1>7, <1>8 DEF ListsInv
<1>10. KeptInv'
  BY <1>0, <1>1, <1>2, <1>3, <1>8, SuccessStep
<1> QED
  BY <1>3, <1>6, <1>7, <1>9, <1>10 DEF HistoryInv

(***************************************************************************)
(* Steps that delete and make rows, and time                               *)
(***************************************************************************)
(* Retention and cleanup delete a row of their list, if it is there. *)
LEMMA DeleteKeeps ==
  ASSUME HistoryInv, RetentionRow \/ \E i \in Id : CleanupDeletes(i)
  PROVE  HistoryInv'
PROOF
<1>0. RowsOK /\ Ordered /\ RunningInv /\ ListsInv /\ KeptInv
  BY DEF HistoryInv
<1>1. PICK id \in ToDelete :
        /\ rows' = Without(id) /\ UNCHANGED <<manual, dumped, had>>
        /\ worker' \in Turn /\ worker'.todo \subseteq worker.todo
        /\ worker' = worker \/ (worker.pc = "row" /\ worker'.pc = "retain")
                            \/ (worker'.pc = "idle" /\ worker'.todo = {})
        /\ cleanup' \subseteq cleanup
  <2>1. CASE RetentionRow
    <3>1. worker.job \in ToDelete /\ rows' = Without(worker.job)
          /\ UNCHANGED <<manual, dumped, had, cleanup>>
      BY <1>0, <2>1 DEF RetentionRow, ListsInv, ToDelete
    <3>2. CASE worker.job \in Ids
      <4>1. worker.todo \ {worker.job} \in SUBSET Id /\ 0 \in 0..MaxRows
        BY <1>0, RowTypes, HistoryAssumption
      <4>2. worker' \in Turn /\ worker'.todo = worker.todo \ {worker.job} /\ worker'.pc = "retain"
        BY <1>0, <2>1, <3>2, <4>1 DEF RetentionRow, RowsOK, Turn
      <4>3. worker.pc = "row"
        BY <2>1 DEF RetentionRow
      <4> QED BY <3>1, <4>2, <4>3
    <3>3. CASE worker.job \notin Ids
      <4>1. worker' \in Turn /\ worker'.todo = {} /\ worker'.pc = "idle"
        BY <1>0, <2>1, <3>3, RowTypes DEF RetentionRow, NoTurn
      <4> QED BY <3>1, <4>1
    <3> QED BY <3>2, <3>3
  <2>2. ASSUME NEW i \in Id, CleanupDeletes(i)
        PROVE  \E id \in ToDelete :
                 /\ rows' = Without(id) /\ UNCHANGED <<manual, dumped, had, worker>>
                 /\ cleanup' \subseteq cleanup
    BY <2>2 DEF CleanupDeletes, ToDelete
  <2> QED BY <1>0, <2>1, <2>2 DEF RowsOK
<1>2. /\ Ids' = Ids \ {id} /\ rows' \in [Ids' -> Row] /\ Ordered'
      /\ \A i \in Ids' : rows'[i] = [rows[i] EXCEPT !.older = @ \ {id}]
  BY <1>0, <1>1, DeleteRow
<1>3. \A i \in Ids' : /\ rows'[i].status = rows[i].status /\ rows'[i].file = rows[i].file
                      /\ rows'[i].age = rows[i].age /\ rows'[i].older = rows[i].older \ {id}
  <2>1. ASSUME NEW i \in Ids'
        PROVE  /\ rows'[i].status = rows[i].status /\ rows'[i].file = rows[i].file
               /\ rows'[i].age = rows[i].age /\ rows'[i].older = rows[i].older \ {id}
    <3>1. rows[i] \in Row
      BY <1>0, <1>2, RowTypes
    <3> QED BY <1>2, <3>1 DEF Row
  <2> QED BY <2>1
<1>4. Successes' = Successes \ {id}
  BY <1>2, <1>3 DEF Successes
<1>5. RowsOK'
  BY <1>0, <1>1, <1>2 DEF RowsOK
<1>6. Running' \subseteq Running /\ RunningInv'
  <2>1. Running' \subseteq Running /\ (AtBackup' => AtBackup /\ worker' = worker)
    BY <1>1 DEF Running, AtBackup
  <2>2. id \notin Running /\ (AtBackup => worker.job \in Running)
    BY <1>0 DEF ListsInv, Running, AtBackup
  <2>3. \A i \in Running' : i \in Ids' \ Successes' /\ rows'[i].age <= MaxRun
    BY <1>0, <1>2, <1>3, <1>4, <2>1, <2>2 DEF RunningInv
  <2>4. AtBackup' => worker.job \in Ids'
    BY <1>0, <1>2, <2>1, <2>2 DEF RunningInv
  <2> QED BY <1>0, <1>1, <1>3, <2>1, <2>3, <2>4 DEF RunningInv
<1>7. ToDelete' \subseteq ToDelete
  BY <1>1 DEF ToDelete
<1>8. ListsInv'
  <2>1. worker'.pc = "row" => worker' = worker
    BY <1>1
  <2>2. worker'.pc \notin {"retain", "row", "search"} => worker'.todo = {}
    BY <1>0, <1>1 DEF ListsInv
  <2> QED BY <1>0, <1>6, <1>7, <2>1, <2>2 DEF ListsInv
<1>9. KeptInv'
  <2>1. worker'.pc = "list" => worker' = worker
    BY <1>1
  <2>2. \A m \in Successes : m \notin ToDelete => m \in Ids' /\ m \in Successes'
    BY <1>2, <1>4 DEF Successes
  <2>3. \A m \in Successes : m \notin ToDelete =>
          Successes' \cap rows[m].older \subseteq rows'[m].older
    BY <1>3, <1>4, <2>2
  <2> QED BY <1>0, <1>1, <1>3, <1>4, <1>7, <2>1, <2>2, <2>3, QuietStep
<1> QED
  BY <1>2, <1>5, <1>6, <1>8, <1>9 DEF HistoryInv

(* An id that is free is in no list and belongs to no row. *)
LEMMA FreeIdIsFree ==
  ASSUME FreeIds # {}
  PROVE  FreeId \in Id \ (Ids \cup worker.todo \cup cleanup) /\ FreeId # manual
         /\ FreeId # worker.job
BY DEF FreeId, FreeIds

(* A backup begins. *)
LEMMA BeginStep ==
  ASSUME HistoryInv, FreeIds # {}, rows' = WithNew(rows, FreeId),
         UNCHANGED <<cleanup, had>>, worker' \in Turn, dumped' \in BOOLEAN,
         \/ /\ worker' = worker /\ manual = 0 /\ manual' = FreeId
         \/ /\ worker.pc = "search" /\ worker'.todo = {} /\ worker'.pc = "gbak"
            /\ worker'.job = FreeId /\ manual' = manual
  PROVE  HistoryInv'
PROOF
<1>0. RowsOK /\ Ordered /\ RunningInv /\ ListsInv /\ KeptInv
  BY DEF HistoryInv
<1>1. FreeId \in Id \ (Ids \cup worker.todo \cup cleanup) /\ FreeId # manual /\ FreeId # worker.job
      /\ FreeId # 0 /\ FreeId \in 0..MaxRows
  <2>1. FreeId \in Id \ (Ids \cup worker.todo \cup cleanup) /\ FreeId # manual /\ FreeId # worker.job
    BY FreeIdIsFree
  <2> QED BY <2>1, HistoryAssumption DEF Id
<1>2. /\ Ids' = Ids \cup {FreeId} /\ rows' \in [Ids' -> Row] /\ Ordered'
      /\ rows'[FreeId] = [NewRow EXCEPT !.older = Ids] /\ \A i \in Ids : rows'[i] = rows[i]
  <2>1. rows \in [Ids -> Row]
    BY <1>0 DEF RowsOK
  <2> QED BY <1>0, <1>1, <2>1, MakeRow
<1>3. rows'[FreeId].status = "RUNNING" /\ rows'[FreeId].age = 0
  BY <1>2 DEF NewRow
<1>4. Successes' = Successes
  BY <1>1, <1>2, <1>3 DEF Successes
<1>5. RowsOK'
  BY <1>0, <1>1, <1>2 DEF RowsOK
<1>6. Running' \subseteq Running \cup {FreeId} /\ RunningInv'
  <2>1. Running' \subseteq Running \cup {FreeId} /\ MaxRun \in Nat
    BY HistoryAssumption DEF Running
  <2>2. \A i \in Running' : i \in Ids' \ Successes' /\ rows'[i].age <= MaxRun
    <3>1. ASSUME NEW i \in Running', i # FreeId
          PROVE  i \in Ids' \ Successes' /\ rows'[i].age <= MaxRun
      BY <1>0, <1>2, <1>4, <2>1, <3>1 DEF RunningInv
    <3>2. FreeId \in Ids' \ Successes' /\ rows'[FreeId].age <= MaxRun
      BY <1>1, <1>2, <1>3, <1>4, <2>1 DEF Successes
    <3> QED BY <3>1, <3>2
  <2>3. AtBackup' => /\ manual' # worker'.job /\ rows'[worker'.job].status = "RUNNING"
                     /\ worker'.pc # "gbak" => rows'[worker'.job].file
    <3>1. CASE worker' = worker
      <4>1. AtBackup => worker.job \in Running
        BY DEF Running, AtBackup
      <4>2. AtBackup => worker.job \in Ids
        BY <1>0, <4>1 DEF RunningInv
      <4> QED BY <1>0, <1>1, <1>2, <3>1, <4>2 DEF RunningInv, AtBackup
    <3>2. CASE worker'.pc = "gbak" /\ worker'.job = FreeId /\ manual' = manual
      BY <1>1, <1>3, <3>2
    <3> QED BY <3>1, <3>2
  <2> QED BY <2>1, <2>2, <2>3 DEF RunningInv
<1>7. ToDelete' = ToDelete /\ FreeId \notin ToDelete
  BY <1>1 DEF ToDelete
<1>8. ListsInv'
  BY <1>0, <1>6, <1>7 DEF ListsInv
<1>9. KeptInv'
  <2>1. \A m \in Successes : rows'[m] = rows[m]
    BY <1>2 DEF Successes
  <2>2. worker'.pc = "list" => worker' = worker
    OBVIOUS
  <2> QED BY <1>0, <1>4, <1>7, <2>1, <2>2, QuietStep
<1> QED
  BY <1>2, <1>5, <1>6, <1>8, <1>9 DEF HistoryInv

LEMMA BeginKeeps ==
  ASSUME HistoryInv, RunBackup \/ ManualBackup
  PROVE  HistoryInv'
PROOF
<1>0. RowsOK /\ Ordered /\ RunningInv /\ ListsInv /\ KeptInv
  BY DEF HistoryInv
<1>1. CASE ManualBackup
  <2>1. /\ FreeIds # {} /\ rows' = WithNew(rows, FreeId) /\ manual = 0 /\ manual' = FreeId
        /\ UNCHANGED <<worker, cleanup, had>> /\ dumped' \in BOOLEAN
    BY <1>1 DEF ManualBackup
  <2>2. worker' \in Turn
    BY <1>0, <2>1 DEF RowsOK
  <2> QED BY <2>1, <2>2, BeginStep
<1>2. CASE RunBackup
  <2>1. /\ worker.pc = "search" /\ worker.todo = {} /\ UNCHANGED <<manual, dumped, cleanup, had>>
    BY <1>2 DEF RunBackup
  <2>2. CASE \E i \in Ids : rows[i].status = "RUNNING"
    <3>1. UNCHANGED rows /\ worker' = NoTurn
      BY <1>2, <2>2 DEF RunBackup
    <3>2. NoTurn \in Turn /\ NoTurn.pc = "idle" /\ NoTurn.todo = {}
      BY <1>0, RowTypes DEF NoTurn
    <3>3. Ordered' /\ Ids' = Ids /\ Successes' = Successes
      BY <1>0, <3>1, SameRows
    <3>4. RowsOK'
      BY <1>0, <2>1, <3>1, <3>2, <3>3 DEF RowsOK
    <3>5. Running' = Running /\ RunningInv'
      BY <1>0, <2>1, <3>1, <3>2, <3>3 DEF RunningInv, Running, AtBackup
    <3>6. ToDelete' = ToDelete
      BY <2>1, <3>1, <3>2 DEF ToDelete
    <3>7. ListsInv'
      BY <1>0, <3>1, <3>2, <3>5, <3>6 DEF ListsInv
    <3>8. KeptInv'
      BY <1>0, <2>1, <3>1, <3>2, <3>3, <3>6, QuietStep
    <3> QED BY <3>3, <3>4, <3>5, <3>7, <3>8 DEF HistoryInv
  <2>3. CASE ~\E i \in Ids : rows[i].status = "RUNNING"
    <3>1. /\ FreeIds # {} /\ rows' = WithNew(rows, FreeId)
          /\ worker' = [NoTurn EXCEPT !.pc = "gbak", !.job = FreeId]
      BY <1>2, <2>3 DEF RunBackup
    <3>2. FreeId \in 0..MaxRows
      BY <3>1, FreeIdIsFree, HistoryAssumption DEF Id
    <3>3. worker' \in Turn /\ worker'.pc = "gbak" /\ worker'.job = FreeId /\ worker'.todo = {}
      BY <1>0, <3>1, <3>2, RowTypes DEF NoTurn, Turn
    <3>4. dumped' \in BOOLEAN
      BY <1>0, <2>1 DEF RowsOK
    <3> QED BY <2>1, <3>1, <3>3, <3>4, BeginStep
  <2> QED BY <2>2, <2>3
<1> QED
  BY <1>1, <1>2

(* The next slot begins: no backup that runs is as old as a retention, and *)
(* the retention is not between its two queries.                           *)
LEMMA TickKeeps ==
  ASSUME HistoryInv, Tick
  PROVE  HistoryInv'
PROOF
<1>0. RowsOK /\ Ordered /\ RunningInv /\ ListsInv /\ KeptInv
  BY DEF HistoryInv
<1>1. /\ rows' = Aged /\ UNCHANGED <<worker, manual, dumped, cleanup, had>> /\ worker.pc # "list"
      /\ \A id \in Running : rows[id].age < MaxRun
  BY DEF Tick
<1>2. /\ Ids' \subseteq Ids /\ rows' \in [Ids' -> Row] /\ Ordered'
      /\ \A i \in Ids : rows[i].status # "FAILED" \/ i = manual => i \in Ids'
      /\ \A i \in Ids' : /\ rows'[i].status = rows[i].status /\ rows'[i].file = rows[i].file
                         /\ rows'[i].older = rows[i].older \cap Ids'
                         /\ rows'[i].age <= rows[i].age + 1
  BY <1>0, <1>1, AgeRows
<1>3. Successes' = Successes /\ Successes \subseteq Ids'
  BY <1>2 DEF Successes
<1>4. RowsOK'
  BY <1>0, <1>1, <1>2 DEF RowsOK
<1>5. RunningInv'
  <2>1. Running' = Running /\ AtBackup' = AtBackup
    BY <1>1 DEF Running, AtBackup
  <2>2. ASSUME NEW i \in Running
        PROVE  i \in Ids' \ Successes' /\ rows'[i].age <= MaxRun
    <3>1. i \in Ids \ Successes /\ rows[i].age < MaxRun
      BY <1>0, <1>1 DEF RunningInv
    <3>2. i = manual \/ rows[i].status = "RUNNING"
      BY <1>0 DEF Running, RunningInv, AtBackup
    <3>4. i \in Ids' \ Successes' /\ rows'[i].age <= rows[i].age + 1
      BY <1>2, <1>3, <3>1, <3>2
    <3>3. rows[i].age \in Nat /\ rows'[i].age \in Nat /\ MaxRun \in Nat
      BY <1>2, <1>4, <1>0, <3>1, <3>4, RowTypes, HistoryAssumption DEF Row
    <3> QED BY <3>1, <3>3, <3>4
  <2>3. AtBackup => worker.job \in Running
    BY DEF Running, AtBackup
  <2> QED BY <1>0, <1>1, <1>2, <2>1, <2>2, <2>3 DEF RunningInv
<1>6a. ToDelete' = ToDelete /\ Running' = Running
  BY <1>1 DEF ToDelete, Running
<1>6. ListsInv'
  BY <1>0, <1>1, <1>6a DEF ListsInv
<1>7. KeptInv'
  BY <1>0, <1>1, <1>2, <1>3, <1>6a, QuietStep
<1> QED
  BY <1>2, <1>4, <1>5, <1>6, <1>7 DEF HistoryInv

(***************************************************************************)
(* What a plan finds                                                       *)
(***************************************************************************)
(* On a day that the policy names, the period began at midnight. *)
LEMMA PeriodToday ==
  ASSUME policy \in Policies, NEW t \in Moment, ValidationWeekdayAllowed(t)
  PROVE  PeriodAge(t) = t.slot
PROOF
<1>1. Slots \in Nat /\ Week \in Nat /\ t.slot \in Nat /\ t.day \in Nat /\ t.day < Week
      /\ policy.days \subseteq 0..(Week - 1)
  BY HistoryAssumption DEF Moment
<1>2. CASE policy.days = {}
  BY <1>1, <1>2 DEF PeriodAge
<1>3. CASE policy.days # {}
  <2> DEFINE S == {DaysSince(d, t.day) : d \in policy.days}
  <2>1. DaysSince(t.day, t.day) = 0 /\ t.day \in policy.days
    BY <1>1, <1>3 DEF DaysSince, ValidationWeekdayAllowed
  <2>2. 0 \in S
    BY <2>1
  <2>3. \A d \in policy.days : DaysSince(d, t.day) \in Nat
    BY <1>1 DEF DaysSince
  <2>4. \A x \in S : x \in Nat
    BY <2>3
  <2> HIDE DEF S
  <2>5. Min(S) \in S /\ \A y \in S : Min(S) <= y
    <3>1. \E x \in S : \A y \in S : x <= y
      BY <2>2, <2>4
    <3> QED BY <3>1 DEF Min
  <2>6. Min(S) = 0
    BY <2>2, <2>4, <2>5
  <2>7. PeriodAge(t) = t.slot + Slots * Min(S)
    BY <1>3 DEF PeriodAge, S
  <2> QED BY <1>1, <2>6, <2>7
<1> QED
  BY <1>2, <1>3

(* A row is among the newest n when it is one of at most n that are not    *)
(* older than it.                                                          *)
LEMMA AmongNewest ==
  ASSUME RowsOK, Ordered, NEW ids \in SUBSET Ids, NEW few \in SUBSET ids, NEW e \in few,
         NEW n \in Nat, Cardinality(few) <= n, ids \cap Newer(e) \subseteq few
  PROVE  e \in Newest(ids, n)
PROOF
<1>1. ids \cap Newer(e) \subseteq few \ {e}
  BY DEF Ordered, Newer
<1>2. IsFiniteSet(Id)
  <2>1. 1 \in Int /\ MaxRows \in Int
    BY HistoryAssumption
  <2> QED BY <2>1, FS_Interval DEF Id
<1>3. IsFiniteSet(few)
  <2>1. few \subseteq Id
    BY DEF RowsOK
  <2> QED BY <1>2, <2>1, FS_Subset
<1>4. IsFiniteSet(few \ {e}) /\ Cardinality(few \ {e}) = Cardinality(few) - 1
  BY <1>3, FS_RemoveElement
<1>5. /\ IsFiniteSet(ids \cap Newer(e))
      /\ Cardinality(ids \cap Newer(e)) <= Cardinality(few) - 1
  BY <1>1, <1>4, FS_Subset
<1>6. Cardinality(ids \cap Newer(e)) \in Nat /\ Cardinality(few) \in Nat
  BY <1>3, <1>5, FS_CardinalityType
<1>7. Cardinality(ids \cap Newer(e)) < n
  BY <1>5, <1>6
<1> QED
  BY <1>7 DEF Newest

(* A validation of today that succeeded or failed is found, so that no     *)
(* other is planned.                                                       *)
LEMMA PlanFinds ==
  ASSUME HistoryInv, ValidationInv, FewToday, ValidationWeekdayAllowed(now), ~Wraps,
         TodayValid \/ TodayFailed
  PROVE  ValidatedThisPeriod \/ FailedThisWindow
PROOF
<1>0. RowsOK /\ Ordered /\ AgesInv /\ policy \in Policies /\ now \in Moment
  BY DEF HistoryInv, ValidationInv, ClockOK
<1>1. PeriodAge(now) = now.slot /\ WindowKeyAge(now) = now.slot
  BY <1>0, PeriodToday DEF WindowKeyAge
<1>2. Take \in Nat /\ TakeFailed \in Nat /\ now.slot \in Nat /\ (\A i \in Ids : rows[i].age \in Nat)
  BY <1>0, HistoryAssumption, RowTypes DEF Moment, Row
<1>3. CASE TodayFailed
  <2> DEFINE failed == {i \in Ids : rows[i].status = "FAILED" /\ rows[i].age <= WindowKeyAge(now)}
  <2>1. PICK f \in Ids \ {manual} :
          rows[f].status = "FAILED" /\ rows[f].suspect /\ rows[f].age <= now.slot
    BY <1>3 DEF TodayFailed
  <2>2. f \in failed /\ failed \in SUBSET Ids /\ failed = {i \in Today : rows[i].status = "FAILED"}
    BY <1>1, <2>1 DEF Today
  <2>3. f \in Newest(failed, TakeFailed)
    <3> HIDE DEF failed
    <3> QED BY <1>0, <1>2, <2>2, AmongNewest DEF FewToday
  <2> QED BY <2>1, <2>2, <2>3 DEF FailedThisWindow
<1>4. CASE TodayValid
  <2>1. PICK e \in Successes :
          /\ rows[e].file /\ rows[e].valid /\ rows[e].validAge <= now.slot /\ rows[e].age <= now.slot
          /\ \A i \in Ids \ {e} : rows[i].valid => i \in rows[e].older
    BY <1>4 DEF TodayValid
  <2>2. e \in Newest(Successes, Take) /\ Newest(Successes, Take) \subseteq Ids
    <3>1. e \in Today \cap Successes /\ Successes \subseteq Ids
      BY <2>1 DEF Today, Successes
    <3>2. \A i \in Newer(e) : i \in Ids /\ rows[i].age <= rows[e].age
      BY <1>0 DEF Newer, AgesInv
    <3>3. Successes \cap Newer(e) \subseteq Today \cap Successes
      BY <1>2, <2>1, <3>1, <3>2 DEF Today
    <3>4. e \in Newest(Successes, Take)
      BY <1>0, <1>2, <3>1, <3>3, AmongNewest DEF FewToday
    <3> QED BY <3>1, <3>4 DEF Newest
  <2> DEFINE found == {i \in Newest(Successes, Take) : rows[i].file /\ rows[i].valid}
  <2>3. e \in found /\ found \subseteq Ids /\ \A i \in found : rows[i].valid
    BY <2>1, <2>2
  <2> HIDE DEF found
  <2>4. \A i \in found \ {e} : i \in rows[e].older
    BY <2>1, <2>3
  <2>5. found \cap Newer(e) = {}
    BY <1>0, <2>3, <2>4 DEF Newer, Ordered
  <2>6. Latest(found) \in found /\ found \cap Newer(Latest(found)) = {}
    BY <2>3, <2>5 DEF Latest
  <2>7. Latest(found) = e
    BY <2>3, <2>4, <2>6 DEF Newer
  <2> QED BY <1>1, <2>1, <2>3, <2>7 DEF ValidatedThisPeriod, found
<1> QED
  BY <1>3, <1>4

(***************************************************************************)
(* Steps that begin and end no validation                                  *)
(***************************************************************************)
(* Ages of today are below those of the lists. *)
LEMMA ClockTypes ==
  ASSUME ClockOK
  PROVE  now.slot \in Nat /\ Slots \in Nat /\ now.slot < Slots
BY HistoryAssumption DEF ClockOK, Moment

(* A step that begins and ends no validation leaves the turn of the worker *)
(* at its backup, and comes to none.                                       *)
SameTurn ==
  /\ AtBackup' => AtBackup /\ worker'.job = worker.job /\ (worker'.pc # "write" => worker.pc # "write")
  /\ Validating => worker' = worker
  /\ Validating' => Validating
SameManual == manual' \in {0, manual}
SameSearch == worker'.pc = "search" => worker.pc = "search" /\ worker'.todo \subseteq worker.todo

(* A row that a search marks. *)
Searched(i) == worker.pc = "search" /\ i \in worker.todo

(* Rows keep their age and order; none becomes valid, and new ones are not. *)
SameAges ==
  /\ \A i \in Ids' \cap Ids : /\ rows'[i].age = rows[i].age /\ (rows'[i].valid => rows[i].valid)
                              /\ rows[i].older \cap Ids' \subseteq rows'[i].older
                              /\ rows'[i].older \subseteq rows[i].older
  /\ \A i \in Ids' \ Ids : ~rows'[i].valid /\ rows'[i].age = 0

(* What a plan of the day needs of the row of i stays. *)
SameEvidence(i) ==
  /\ rows[i].status = "FAILED" /\ rows[i].suspect /\ i # manual /\ ~Searched(i) =>
       i \in Ids' \ {manual'} /\ rows'[i].status = "FAILED" /\ rows'[i].suspect /\ ~Searched(i)'
  /\ rows[i].status = "SUCCESS" /\ rows[i].file /\ rows[i].valid =>
       i \in Successes' /\ rows'[i].file /\ rows'[i].valid /\ rows'[i].validAge = rows[i].validAge
  /\ rows[i].status = "RUNNING" /\ rows[i].file /\ i # manual /\ ~AtBackup =>
       /\ i \in Ids' \ {manual'}
       /\ \/ rows'[i].status = "RUNNING" /\ rows'[i].file /\ ~AtBackup'
          \/ rows'[i].status = "FAILED" /\ rows'[i].suspect /\ ~Searched(i)'

LEMMA QuietPlan ==
  ASSUME HistoryInv, HistoryInv', ValidationInv, SameAges, SameTurn,
         AtBackup' => rows'[worker.job].valid = rows[worker.job].valid,
         manual' \in {0, manual} \cup (Ids' \ Ids), SameSearch,
         worker'.pc = "search" => \A i \in Successes' \ Successes : ~rows'[i].valid
  PROVE  PlanInv'
PROOF
<1>0. RowsOK /\ RunningInv /\ PlanInv
  BY DEF HistoryInv, ValidationInv
<1>1. ASSUME AtBackup'
      PROVE  /\ worker'.pc # "write" => ~rows'[worker'.job].valid
             /\ \A i \in Ids' \ {worker'.job} : rows'[i].valid => i \in rows'[worker'.job].older
  <2>1. AtBackup /\ worker'.job = worker.job /\ (worker'.pc # "write" => worker.pc # "write")
    BY <1>1 DEF SameTurn
  <2>2. worker.job \in Ids \cap Ids'
    BY <1>1, <2>1 DEF HistoryInv, RunningInv, Running, AtBackup
  <2>3. \A i \in Ids' \ {worker.job} : rows'[i].valid => i \in Ids /\ rows[i].valid
    BY DEF SameAges
  <2>4. rows[worker.job].older \cap Ids' \subseteq rows'[worker.job].older
    BY <2>2 DEF SameAges
  <2> QED BY <1>0, <1>1, <2>1, <2>2, <2>3, <2>4 DEF PlanInv
<1>2. manual' # 0 => ~rows'[manual'].valid
  <2>1. manual' # 0 => manual' \in Ids'
    BY DEF HistoryInv, RunningInv, Running
  <2> QED BY <1>0, <2>1 DEF PlanInv, SameAges
<1>3. worker'.pc = "search" => \A i \in worker'.todo \cap Successes' : ~rows'[i].valid
  <2>1. ASSUME worker'.pc = "search", NEW i \in worker'.todo \cap Successes', rows'[i].valid
        PROVE  FALSE
    <3>1. worker.pc = "search" /\ i \in worker.todo /\ i \in Successes /\ i \in Ids' /\ i \in Ids
      BY <2>1 DEF SameSearch, Successes
    <3> QED BY <1>0, <2>1, <3>1 DEF PlanInv, SameAges
  <2> QED BY <2>1
<1> QED
  BY <1>1, <1>2, <1>3 DEF PlanInv

(* What is listed is old, and what is not listed keeps its evidence.       *)
LEMMA QuietValidation ==
  ASSUME HistoryInv, HistoryInv', ValidationInv, UNCHANGED <<policy, now, started>>, SameAges,
         PlanInv', \A i \in Ids \ ToDelete : SameEvidence(i),
         \A i \in ToDelete' \cap Ids' : i \in Ids /\ (i \in ToDelete \/ rows[i].age >= Slots),
         Validating => /\ worker' = worker /\ rows'[worker.job].valid = rows[worker.job].valid
                       /\ rows'[worker.job].validAge = rows[worker.job].validAge,
         Validating' => Validating
  PROVE  ValidationInv'
PROOF
<1>0. RowsOK /\ RunningInv /\ ClockOK /\ ListedInv /\ AgesInv /\ PlanInv /\ OnceInv
  BY DEF HistoryInv, ValidationInv
<1>a. AgesInv'
  <2>1. RowsOK' /\ Ordered' /\ Ordered
    BY DEF HistoryInv
  <2>2. \A i \in Ids' : rows'[i].age \in Nat
    BY <2>1 DEF RowsOK, Row
  <2>3. SUFFICES ASSUME NEW j \in Ids', NEW i \in rows'[j].older PROVE rows'[j].age <= rows'[i].age
    BY DEF AgesInv
  <2>4. i \in Ids'
    BY <2>1 DEF Ordered
  <2>5. CASE j \in Ids
    <3>1. i \in rows[j].older /\ i \in Ids
      BY <2>1, <2>5 DEF Ordered, SameAges
    <3> QED BY <1>0, <2>4, <2>5, <3>1 DEF AgesInv, SameAges
  <2>6. CASE j \notin Ids
    BY <2>2, <2>4, <2>6 DEF SameAges
  <2> QED BY <2>5, <2>6
<1>1. ClockOK'
  BY <1>0 DEF ClockOK
<1>2. ListedInv'
  BY <1>0 DEF ListedInv, SameAges
<1>3. OnceInv'
  <2>1. SUFFICES ASSUME policy.mode = "weekly", ~Wraps, started = 1, ValidationWeekdayAllowed(now)
                 PROVE  Evidence'
    BY <1>0 DEF OnceInv, Wraps, ValidationWeekdayAllowed
  <2>2. Evidence /\ now.slot \in Nat /\ Slots \in Nat /\ now.slot < Slots
    BY <1>0, <2>1, ClockTypes DEF OnceInv
  <2>3. ASSUME NEW i \in Ids, rows[i].age <= now.slot
        PROVE  i \notin ToDelete /\ SameEvidence(i) /\ (i \in Ids' => rows'[i].age <= now'.slot)
    <3>1. rows[i].age \in Nat
      BY <1>0, RowTypes DEF Row
    <3> QED BY <1>0, <2>2, <2>3, <3>1 DEF ListedInv, SameAges
  <2>4. CASE Validating
    <3>1. worker' = worker /\ worker.job \in Ids' \cap Ids
          /\ rows'[worker.job].valid = rows[worker.job].valid
          /\ rows'[worker.job].validAge = rows[worker.job].validAge
      BY <2>4 DEF Validating, HistoryInv, RunningInv, Running, AtBackup
    <3>2. Validating'
      BY <2>4, <3>1 DEF Validating
    <3>3. TodayRuns'
      BY <2>2, <2>4, <3>1 DEF Evidence, TodayRuns, SameAges
    <3> QED BY <3>2, <3>3 DEF Evidence
  <2>5. CASE ~Validating
    <3>1. ~Validating'
      BY <2>5
    <3>2. CASE TodayFailed
      <4>1. PICK f \in Ids \ {manual} : /\ rows[f].status = "FAILED" /\ rows[f].suspect
                                        /\ rows[f].age <= now.slot /\ ~Searched(f)
        BY <3>2 DEF TodayFailed, Searched
      <4>2. /\ f \in Ids' \ {manual'} /\ rows'[f].status = "FAILED" /\ rows'[f].suspect
            /\ rows'[f].age <= now'.slot /\ ~Searched(f)'
        BY <2>3, <4>1 DEF SameEvidence
      <4>3. TodayFailed'
        BY <4>2 DEF TodayFailed, Searched
      <4> QED BY <3>1, <4>3 DEF Evidence
    <3>3. CASE TodayValid
      <4>1. PICK e \in Successes :
              /\ rows[e].file /\ rows[e].valid /\ rows[e].validAge <= now.slot /\ rows[e].age <= now.slot
              /\ \A i \in Ids \ {e} : rows[i].valid => i \in rows[e].older
        BY <3>3 DEF TodayValid
      <4>2. e \in Ids /\ rows[e].status = "SUCCESS"
        BY DEF Successes
      <4>3. e \in Successes' /\ e \in Ids' /\ rows'[e].file /\ rows'[e].valid
            /\ rows'[e].validAge <= now'.slot /\ rows'[e].age <= now'.slot
        BY <2>3, <4>1, <4>2 DEF SameEvidence, Successes
      <4>4. \A i \in Ids' \ {e} : rows'[i].valid => i \in rows'[e].older
        BY <4>1, <4>2, <4>3 DEF SameAges
      <4>5. TodayValid'
        BY <4>3, <4>4 DEF TodayValid
      <4> QED BY <3>1, <4>5 DEF Evidence
    <3>4. CASE ~AtBackup /\ TodayCut
      <4>1. PICK c \in Ids \ {manual} :
              rows[c].status = "RUNNING" /\ rows[c].file /\ rows[c].age <= now.slot
        BY <3>4 DEF TodayCut
      <4>2. /\ c \in Ids' \ {manual'} /\ rows'[c].age <= now'.slot
            /\ \/ rows'[c].status = "RUNNING" /\ rows'[c].file /\ ~AtBackup'
               \/ rows'[c].status = "FAILED" /\ rows'[c].suspect /\ ~Searched(c)'
        BY <2>3, <3>4, <4>1 DEF SameEvidence
      <4>3. TodayFailed' \/ (~AtBackup' /\ TodayCut')
        BY <4>2 DEF TodayFailed, TodayCut, Searched
      <4> QED BY <3>1, <4>3 DEF Evidence
    <3> QED BY <2>2, <2>5, <3>2, <3>3, <3>4 DEF Evidence
  <2> QED BY <2>4, <2>5
<1> QED
  BY <1>a, <1>1, <1>2, <1>3 DEF ValidationInv

(* The rows stay; what comes into a list is old. *)
LEMMA SameRowsQuiet ==
  ASSUME HistoryInv, HistoryInv', ValidationInv, UNCHANGED <<policy, now, started, rows>>,
         \A i \in ToDelete' \cap Ids : i \in ToDelete \/ rows[i].age >= Slots,
         SameTurn, SameManual,
         SameSearch \/ \A i \in worker'.todo : i \in Ids /\ rows[i].status = "RUNNING"
  PROVE  ValidationInv'
PROOF
<1>0. RowsOK /\ RunningInv /\ PlanInv
  BY DEF HistoryInv, ValidationInv
<1>1. Ids' = Ids /\ Successes' = Successes
  BY DEF Ids, Successes
<1>2. SameAges
  BY <1>1 DEF SameAges
<1>3. PlanInv'
  <2>1. CASE SameSearch
    BY <1>1, <1>2, <2>1, QuietPlan DEF SameManual
  <2>2. CASE \A i \in worker'.todo : i \in Ids /\ rows[i].status = "RUNNING"
    <3>1. \A i \in worker'.todo \cap Successes' : FALSE
      BY <1>1, <2>2 DEF Successes
    <3>2. AtBackup' => AtBackup /\ worker'.job = worker.job
                       /\ (worker'.pc # "write" => worker.pc # "write")
      BY DEF SameTurn
    <3> QED BY <1>0, <1>1, <3>1, <3>2 DEF PlanInv, SameManual
  <2> QED BY <2>1, <2>2
<1>4. ASSUME NEW i \in Ids PROVE SameEvidence(i)
  <2>1. i # manual => i # manual'
    BY <1>0, RowTypes DEF SameManual
  <2>2. rows[i].status = "FAILED" /\ ~Searched(i) => ~Searched(i)'
    BY DEF Searched, SameSearch
  <2>3. ~AtBackup => ~AtBackup'
    BY DEF SameTurn
  <2>4. i \in Successes <=> rows[i].status = "SUCCESS"
    BY DEF Successes
  <2> QED BY <1>1, <2>1, <2>2, <2>3, <2>4 DEF SameEvidence
<1> QED
  BY <1>1, <1>2, <1>3, <1>4, QuietValidation DEF SameTurn

(* A row that runs or is listed changes; it does not become valid. *)
LEMMA EditQuiet ==
  ASSUME HistoryInv, HistoryInv', ValidationInv, UNCHANGED <<policy, now, started>>,
         NEW id \in Ids, NEW r \in Row, rows' = With(id, r), id \in Running \cup ToDelete,
         r.older = rows[id].older, r.age = rows[id].age, r.valid => rows[id].valid,
         id \in ToDelete => r.status = rows[id].status,
         ToDelete' \subseteq ToDelete, SameTurn, SameManual, SameSearch,
         AtBackup /\ id = worker.job => ~Validating /\ worker'.pc # "search"
  PROVE  ValidationInv'
PROOF
<1>0. RowsOK /\ Ordered /\ RunningInv /\ ListsInv /\ PlanInv
  BY DEF HistoryInv, ValidationInv
<1>1. /\ Ids' = Ids /\ rows'[id] = r /\ \A i \in Ids \ {id} : rows'[i] = rows[i]
  BY <1>0, EditRow
<1>2. SameAges
  BY <1>1 DEF SameAges
<1>3. AtBackup => worker.job \in Ids /\ rows[worker.job].status = "RUNNING" /\ worker.job \notin ToDelete
  BY <1>0 DEF RunningInv, ListsInv, Running, AtBackup
<1>4. id \in ToDelete \/ (id \notin Successes /\ id = manual /\ manual # 0)
      \/ (id \notin Successes /\ id = worker.job /\ AtBackup)
  BY <1>0 DEF RunningInv, Running, AtBackup
<1>5. AtBackup' => rows'[worker.job].valid = rows[worker.job].valid
  <2>1. CASE id = worker.job
    <3>1. SUFFICES ASSUME AtBackup' PROVE r.valid = rows[id].valid
      BY <1>1, <2>1
    <3>2. AtBackup /\ ~Validating /\ (worker.pc # "write" => ~rows[id].valid)
      BY <1>0, <2>1, <3>1 DEF SameTurn, PlanInv
    <3>3. ~rows[id].valid
      BY <2>1, <3>2 DEF Validating
    <3>4. rows[id].valid \in BOOLEAN /\ r.valid \in BOOLEAN
      BY <1>0, RowTypes DEF Row
    <3> QED BY <3>3, <3>4
  <2>2. CASE id # worker.job
    BY <1>1, <1>3, <2>2 DEF SameTurn
  <2> QED BY <2>1, <2>2
<1>6. ASSUME worker'.pc = "search", NEW i \in Successes' \ Successes PROVE ~rows'[i].valid
  <2>1. i = id
    BY <1>1 DEF Successes
  <2>2. CASE id \in ToDelete
    BY <1>1, <2>1, <2>2 DEF Successes
  <2>3. CASE id = manual /\ manual # 0
    BY <1>0, <1>1, <2>1, <2>3 DEF PlanInv
  <2> QED BY <1>4, <1>6, <2>2, <2>3
<1>7. PlanInv'
  BY <1>2, <1>5, <1>6, QuietPlan DEF SameManual
<1>8. ASSUME NEW i \in Ids \ ToDelete PROVE SameEvidence(i)
  <2>1. i # manual => i # manual'
    BY <1>0, RowTypes DEF SameManual
  <2>2. ~Searched(i) => ~Searched(i)'
    BY DEF Searched, SameSearch
  <2>3. ~AtBackup => ~AtBackup'
    BY DEF SameTurn
  <2>4. i \in Successes <=> rows[i].status = "SUCCESS"
    BY DEF Successes
  <2>5. CASE i # id
    <3>1. i \in Successes' <=> rows[i].status = "SUCCESS"
      BY <1>1, <2>5 DEF Successes
    <3> QED BY <1>1, <2>1, <2>2, <2>3, <2>4, <2>5, <3>1 DEF SameEvidence
  <2>6. CASE i = id
    BY <1>3, <1>4, <2>4, <2>6 DEF SameEvidence
  <2> QED BY <2>5, <2>6
<1>9. Validating => /\ worker' = worker /\ rows'[worker.job].valid = rows[worker.job].valid
                    /\ rows'[worker.job].validAge = rows[worker.job].validAge
  <2>1. Validating => AtBackup /\ id # worker.job
    BY DEF Validating, AtBackup
  <2> QED BY <1>1, <1>3, <2>1 DEF SameTurn
<1> QED
  BY <1>1, <1>2, <1>7, <1>8, <1>9, QuietValidation DEF SameTurn

(* What the retention lists is a day old. *)
LEMMA RetentionAge ==
  ASSUME NEW n \in Nat, n > 0
  PROVE  n * Slots >= Slots
PROOF
<1>1. PICK k \in Nat : n = k + 1
  <2>1. n - 1 \in Nat /\ n = (n - 1) + 1
    OBVIOUS
  <2> QED BY <2>1
<1>2. Slots \in Nat /\ k * Slots \in Nat
  BY HistoryAssumption
<1>3. n * Slots = k * Slots + Slots
  BY <1>1, <1>2
<1> QED
  BY <1>2, <1>3

LEMMA ListsValidation ==
  ASSUME HistoryInv, HistoryInv', ValidationInv, DailySettings,
         CleanupRetention \/ \E c \in Cleanups : Cleanup(c)
  PROVE  ValidationInv'
PROOF
<1>0. \A i \in Ids : rows[i].age \in Nat
  BY RowTypes DEF HistoryInv, Row
<1>s. Slots \in Nat /\ Retention \in Nat /\ Retention > 0
  BY HistoryAssumption
<1>1. CASE CleanupRetention
  <2>1. worker.pc = "list" /\ worker' = [worker EXCEPT !.pc = "retain", !.todo = Expired]
        /\ UNCHANGED <<policy, now, started, rows, cleanup>> /\ worker \in Turn
    BY <1>1 DEF CleanupRetention, HistoryInv, RowsOK
  <2>2. worker'.pc = "retain" /\ worker'.todo = Expired /\ SameTurn
    BY <2>1 DEF Turn, SameTurn, AtBackup, Validating
  <2>3. SameManual /\ SameSearch
    BY <1>1, <2>2 DEF CleanupRetention, SameManual, SameSearch
  <2>4. Retention * Slots >= Slots /\ Retention * Slots \in Nat
    BY <1>s, RetentionAge
  <2>5. \A i \in Expired : i \in Ids /\ rows[i].age >= Slots
    BY <1>0, <1>s, <2>4 DEF Expired, Successes
  <2> QED BY <2>1, <2>2, <2>3, <2>5, SameRowsQuiet DEF ToDelete
<1>2. ASSUME NEW c \in Cleanups, Cleanup(c) PROVE ValidationInv'
  <2>1. cleanup' = BackupCleanupCandidates(c) /\ UNCHANGED <<policy, now, started, rows, worker>>
    BY <1>2 DEF Cleanup
  <2>2. c.days \in Nat /\ c.days > 0
    BY HistoryAssumption DEF DailySettings
  <2>3. c.days * Slots >= Slots /\ c.days * Slots \in Nat
    BY <1>s, <2>2, RetentionAge
  <2>4. \A i \in cleanup' : i \in Ids /\ rows[i].age >= c.days * Slots
    BY <2>1, <2>2 DEF BackupCleanupCandidates, Successes
  <2>5. \A i \in cleanup' : rows[i].age >= Slots
    BY <1>0, <1>s, <2>3, <2>4
  <2>6. SameTurn /\ SameManual /\ SameSearch
    BY <1>2 DEF Cleanup, SameTurn, SameManual, SameSearch, AtBackup, Validating
  <2> QED BY <2>1, <2>5, <2>6, SameRowsQuiet DEF ToDelete
<1> QED
  BY <1>1, <1>2

(* Steps that leave the rows alone. *)
LEMMA OthersValidation ==
  ASSUME HistoryInv, HistoryInv', ValidationInv,
         \/ PassStarts \/ Searches \/ ProcessSeen \/ BackupSkipped \/ BackendStops
         \/ WorkerStops /\ ~Validating
  PROVE  ValidationInv'
PROOF
<1>0. worker \in Turn
  BY DEF HistoryInv, RowsOK
<1>1. UNCHANGED <<policy, now, started, rows>> /\ cleanup' \subseteq cleanup /\ SameManual
  BY DEF PassStarts, Searches, ProcessSeen, BackupSkipped, BackendStops, WorkerStops, SameManual
<1>2. CASE BackupSkipped \/ BackendStops
  <2>1. worker' = worker
    BY <1>2 DEF BackupSkipped, BackendStops
  <2>2. SameTurn /\ SameSearch
    BY <1>1, <2>1 DEF SameTurn, SameSearch, AtBackup, Validating
  <2> QED BY <1>1, <2>1, <2>2, SameRowsQuiet DEF ToDelete
<1>3. CASE PassStarts \/ Searches \/ ProcessSeen \/ (WorkerStops /\ ~Validating)
  <2>1. ~Validating /\ worker'.pc \in {"list", "search", "idle"} /\ (worker'.pc # "search" => worker'.todo = {})
    <3>1. CASE PassStarts
      <4> DEFINE l == {i \in Successes : Successes \cap Newer(i) = {}}
      <4>1. worker.pc = "idle" /\ worker' = [NoTurn EXCEPT !.pc = "list", !.latest = l]
        BY <3>1 DEF PassStarts
      <4> HIDE DEF l
      <4> QED BY <4>1 DEF NoTurn, Validating
    <3>2. CASE Searches
      BY <1>0, <3>2 DEF Searches, Turn, Validating
    <3>3. CASE ProcessSeen
      BY <1>0, <3>3 DEF ProcessSeen, Turn, Validating
    <3>4. CASE WorkerStops /\ ~Validating
      BY <3>4 DEF WorkerStops, NoTurn
    <3> QED BY <1>3, <3>1, <3>2, <3>3, <3>4
  <2>2. SameTurn
    BY <2>1 DEF SameTurn, AtBackup, Validating
  <2>3. SameSearch \/ \A i \in worker'.todo : i \in Ids /\ rows[i].status = "RUNNING"
    <3>1. CASE Searches
      BY <1>0, <3>1 DEF Searches, Turn
    <3>2. CASE ProcessSeen
      BY <1>0, <3>2 DEF ProcessSeen, Turn
    <3>3. CASE PassStarts \/ WorkerStops
      <4> DEFINE l == {i \in Successes : Successes \cap Newer(i) = {}}
      <4>1. worker' = NoTurn \/ worker' = [NoTurn EXCEPT !.pc = "list", !.latest = l]
        BY <3>3 DEF PassStarts, WorkerStops
      <4> HIDE DEF l
      <4>2. worker'.pc # "search"
        <5>1. NoTurn.pc = "idle" /\ [NoTurn EXCEPT !.pc = "list", !.latest = l].pc = "list"
          BY DEF NoTurn
        <5> QED BY <4>1, <5>1
      <4> QED BY <4>2 DEF SameSearch
    <3> QED BY <1>3, <3>1, <3>2, <3>3
  <2>4. ToDelete' \subseteq ToDelete
    BY <1>1, <2>1 DEF ToDelete
  <2> QED BY <1>1, <2>2, <2>3, <2>4, SameRowsQuiet
<1> QED
  BY <1>2, <1>3

(* The files of a listed row go. *)
LEMMA FilesValidation ==
  ASSUME HistoryInv, HistoryInv', ValidationInv, NEW id \in Id, RetentionFiles(id) \/ CleanupFiles(id)
  PROVE  ValidationInv'
PROOF
<1>0. RowsOK /\ ListsInv /\ RunningInv
  BY DEF HistoryInv
<1>1. /\ id \in ToDelete /\ UNCHANGED <<policy, now, started, cleanup>>
      /\ SameManual /\ SameSearch /\ ToDelete' = ToDelete
      /\ \/ worker' = worker
         \/ ~Validating /\ ~AtBackup /\ ~AtBackup' /\ ~Validating'
  <2>1. CASE CleanupFiles(id)
    BY <2>1 DEF CleanupFiles, ToDelete, SameManual, SameSearch
  <2>2. CASE RetentionFiles(id)
    <3>1. worker.pc = "retain" /\ worker' = [worker EXCEPT !.pc = "row", !.job = id]
          /\ worker \in Turn /\ id \in worker.todo /\ UNCHANGED <<policy, now, started, cleanup, manual>>
      BY <1>0, <2>2 DEF RetentionFiles, RowsOK
    <3>2. worker'.pc = "row" /\ worker'.todo = worker.todo
      BY <3>1 DEF Turn
    <3> QED BY <3>1, <3>2 DEF ToDelete, SameManual, SameSearch, AtBackup, Validating
  <2> QED BY <2>1, <2>2
<1>2. id \notin Running /\ (AtBackup => id # worker.job /\ worker.job \in Ids)
  BY <1>0, <1>1 DEF ListsInv, RunningInv, Running, AtBackup
<1>3. CASE id \in Ids
  <2> DEFINE r == [rows[id] EXCEPT !.file = FALSE]
  <2>1. rows[id] \in Row
    BY <1>0, <1>3, RowTypes
  <2>2. r \in Row /\ r.older = rows[id].older /\ r.age = rows[id].age /\ r.valid = rows[id].valid
        /\ r.status = rows[id].status
    BY <2>1 DEF Row
  <2>3. rows' = With(id, r)
    BY <1>3 DEF RetentionFiles, CleanupFiles
  <2> HIDE DEF r
  <2>4. \A i \in Ids \ {id} : rows'[i] = rows[i]
    BY <1>3, <2>2, <2>3, EditRow DEF HistoryInv
  <2>5. SameTurn
    BY <1>1, <1>2, <2>4 DEF SameTurn, AtBackup, Validating
  <2> QED BY <1>1, <1>2, <1>3, <2>2, <2>3, <2>5, EditQuiet
<1>4. CASE id \notin Ids
  <2>1. rows' = rows
    BY <1>4 DEF RetentionFiles, CleanupFiles
  <2>2. SameTurn
    BY <1>1, <2>1 DEF SameTurn, AtBackup, Validating
  <2> QED BY <1>1, <2>1, <2>2, SameRowsQuiet
<1> QED
  BY <1>3, <1>4

(* A listed row goes. *)
LEMMA DeleteValidation ==
  ASSUME HistoryInv, HistoryInv', ValidationInv, RetentionRow \/ \E i \in Id : CleanupDeletes(i)
  PROVE  ValidationInv'
PROOF
<1>0. RowsOK /\ Ordered /\ RunningInv /\ ListsInv
  BY DEF HistoryInv
<1>1. PICK id \in ToDelete :
        /\ rows' = Without(id) /\ UNCHANGED <<policy, now, started, manual>>
        /\ cleanup' \subseteq cleanup
        /\ \/ worker' = worker
           \/ worker.pc = "row" /\ worker'.pc \in {"retain", "idle"} /\ worker'.todo \subseteq worker.todo
  <2>1. CASE RetentionRow
    <3>1. /\ worker.pc = "row" /\ worker.job \in ToDelete /\ rows' = Without(worker.job)
          /\ UNCHANGED <<policy, now, started, manual, cleanup>> /\ worker \in Turn
      BY <1>0, <2>1 DEF RetentionRow, ListsInv, RowsOK, ToDelete
    <3>2. worker'.pc \in {"retain", "idle"} /\ worker'.todo \subseteq worker.todo
      BY <2>1, <3>1 DEF RetentionRow, NoTurn, Turn
    <3> QED BY <3>1, <3>2
  <2>2. ASSUME NEW i \in Id, CleanupDeletes(i)
        PROVE  \E id \in ToDelete :
                 /\ rows' = Without(id) /\ UNCHANGED <<policy, now, started, manual, worker>>
                 /\ cleanup' \subseteq cleanup
    BY <2>2 DEF CleanupDeletes, ToDelete
  <2> QED BY <2>1, <2>2
<1>2. /\ Ids' = Ids \ {id}
      /\ \A i \in Ids' : rows'[i] = [rows[i] EXCEPT !.older = @ \ {id}]
  BY <1>0, <1>1, DeleteRow
<1>3. \A i \in Ids' :
        /\ rows'[i].status = rows[i].status /\ rows'[i].file = rows[i].file
        /\ rows'[i].age = rows[i].age /\ rows'[i].older = rows[i].older \ {id}
        /\ rows'[i].valid = rows[i].valid /\ rows'[i].validAge = rows[i].validAge
        /\ rows'[i].suspect = rows[i].suspect
  <2>1. ASSUME NEW i \in Ids'
        PROVE  /\ rows'[i].status = rows[i].status /\ rows'[i].file = rows[i].file
               /\ rows'[i].age = rows[i].age /\ rows'[i].older = rows[i].older \ {id}
               /\ rows'[i].valid = rows[i].valid /\ rows'[i].validAge = rows[i].validAge
               /\ rows'[i].suspect = rows[i].suspect
    <3>1. rows[i] \in Row
      BY <1>0, <1>2, RowTypes
    <3> QED BY <1>2, <3>1 DEF Row
  <2> QED BY <2>1
<1>4. SameAges
  BY <1>2, <1>3 DEF SameAges
<1>5. AtBackup => worker.job \in Ids'
  BY <1>0, <1>2 DEF RunningInv, ListsInv, Running, AtBackup
<1>6. /\ SameTurn /\ SameManual /\ SameSearch /\ ToDelete' \subseteq ToDelete
      /\ AtBackup' => AtBackup /\ worker' = worker
  <2>1. AtBackup' => AtBackup /\ worker' = worker
    BY <1>1 DEF AtBackup
  <2>2. Validating => worker' = worker /\ AtBackup
    BY <1>1 DEF Validating, AtBackup
  <2>3. Validating' => Validating
    BY <1>1, <1>3, <1>5, <2>1 DEF Validating, AtBackup
  <2> QED BY <1>1, <2>1, <2>2, <2>3 DEF SameTurn, SameManual, SameSearch, ToDelete
<1>7. Successes' \subseteq Successes
  BY <1>2, <1>3 DEF Successes
<1>8. PlanInv'
  BY <1>3, <1>4, <1>5, <1>6, <1>7, QuietPlan DEF SameManual
<1>9. ASSUME NEW i \in Ids \ ToDelete PROVE SameEvidence(i)
  <2>1. i \in Ids' /\ (i # manual => i # manual')
    BY <1>1, <1>2
  <2>2. (~Searched(i) => ~Searched(i)') /\ (~AtBackup => ~AtBackup')
    BY <1>6 DEF Searched, SameSearch
  <2>3. rows[i].status = "SUCCESS" => i \in Successes'
    BY <1>3, <2>1 DEF Successes
  <2> QED BY <1>3, <2>1, <2>2, <2>3 DEF SameEvidence
<1>10. \A i \in ToDelete' \cap Ids' : i \in Ids /\ i \in ToDelete
  BY <1>2, <1>6
<1>11. Validating => worker' = worker /\ worker.job \in Ids'
  BY <1>5, <1>6 DEF SameTurn, Validating, AtBackup
<1> QED
  BY <1>1, <1>3, <1>4, <1>6, <1>8, <1>9, <1>10, <1>11, QuietValidation DEF SameTurn

(* A search marks a job that was cut off, which a plan counts as a failed  *)
(* validation; or one of the panel.                                        *)
LEMMA MarkValidation ==
  ASSUME HistoryInv, HistoryInv', ValidationInv, NEW id \in Id, MarkOrphanedRunningBackupFailed(id)
  PROVE  ValidationInv'
PROOF
<1>0. RowsOK /\ Ordered /\ RunningInv /\ ListsInv /\ PlanInv
  BY DEF HistoryInv, ValidationInv
<1>1. /\ UNCHANGED <<policy, now, started, manual, cleanup>> /\ worker.pc = "search" /\ id \in worker.todo
      /\ ~AtBackup /\ ~Validating /\ SameManual /\ worker \in Turn
  BY <1>0 DEF MarkOrphanedRunningBackupFailed, AtBackup, Validating, SameManual, RowsOK
<1>2. CASE id \notin Ids
  <2>1. rows' = rows /\ worker'.pc = "idle" /\ worker'.todo = {}
    BY <1>2 DEF MarkOrphanedRunningBackupFailed, NoTurn
  <2>2. SameTurn /\ SameSearch /\ ToDelete' = ToDelete
    BY <1>1, <2>1 DEF SameTurn, SameSearch, ToDelete, AtBackup, Validating
  <2> QED BY <1>1, <2>1, <2>2, SameRowsQuiet
<1>3. CASE id \in Ids
  <2> DEFINE r == [rows[id] EXCEPT !.status = "FAILED", !.file = FALSE, !.valid = FALSE,
                                    !.validAge = 0, !.suspect = rows[id].file]
  <2>1. rows' = With(id, r) /\ worker' = [worker EXCEPT !.todo = @ \ {id}]
    BY <1>3 DEF MarkOrphanedRunningBackupFailed, Fails
  <2>2. /\ r \in Row /\ r.older = rows[id].older /\ r.status = "FAILED" /\ r.age = rows[id].age
        /\ r.suspect = rows[id].file /\ ~r.valid
    <3>1. rows[id] \in Row /\ 0 \in 0..Old /\ rows[id].file \in BOOLEAN
      BY <1>0, <1>3, RowTypes, HistoryAssumption DEF Row, Old, WeekSlots
    <3> QED BY <3>1 DEF Row
  <2>3. worker'.pc = "search" /\ worker'.todo = worker.todo \ {id}
    BY <1>1, <2>1 DEF Turn
  <2> HIDE DEF r
  <2>4. Ids' = Ids /\ rows'[id] = r /\ \A i \in Ids \ {id} : rows'[i] = rows[i]
    BY <1>0, <1>3, <2>1, <2>2, EditRow
  <2>5. /\ SameAges /\ ~AtBackup' /\ ~Validating' /\ SameTurn /\ SameSearch /\ ToDelete' = ToDelete
        /\ Successes' \subseteq Successes
    BY <1>1, <2>2, <2>3, <2>4 DEF SameAges, SameTurn, SameSearch, ToDelete, AtBackup, Validating, Successes
  <2>6. PlanInv'
    BY <1>1, <2>5, QuietPlan DEF SameManual
  <2>7. ASSUME NEW i \in Ids PROVE SameEvidence(i)
    <3>1. (~Searched(i) => ~Searched(i)') /\ ~Searched(id)' /\ Searched(id)
      BY <1>1, <2>3 DEF Searched
    <3>2. CASE i # id
      <4>1. rows[i].status = "SUCCESS" => i \in Successes'
        BY <2>4, <3>2 DEF Successes
      <4> QED BY <1>1, <2>4, <2>5, <3>1, <3>2, <4>1 DEF SameEvidence
    <3>3. CASE i = id
      <4>1. ~(rows[i].status = "SUCCESS" /\ rows[i].valid)
        BY <1>0, <1>1, <3>3 DEF PlanInv, Successes
      <4> QED BY <1>1, <2>2, <2>4, <3>1, <3>3, <4>1 DEF SameEvidence
    <3> QED BY <3>2, <3>3
  <2> QED BY <1>1, <2>4, <2>5, <2>6, <2>7, QuietValidation
<1> QED
  BY <1>2, <1>3

(* A backup of the panel goes on or ends, or one of the worker ends that   *)
(* is not validated.                                                       *)
LEMMA EndsValidation ==
  ASSUME HistoryInv, HistoryInv', ValidationInv,
         \/ ManualSucceeds \/ \E m \in BOOLEAN : ManualFails(m) \/ ManualScript(m)
         \/ ~Validating /\ (BackupSucceeds \/ \E m \in BOOLEAN : AutomaticFails(m))
  PROVE  ValidationInv'
PROOF
<1>0. RowsOK /\ RunningInv /\ ListsInv
  BY DEF HistoryInv
<1>1. PICK id \in Running, st \in {"RUNNING", "SUCCESS", "FAILED"}, f \in BOOLEAN, va \in 0..Old,
           s \in BOOLEAN, v \in BOOLEAN :
        /\ rows' = With(id, [rows[id] EXCEPT !.status = st, !.file = f, !.valid = v,
                                             !.validAge = va, !.suspect = s])
        /\ v => rows[id].valid
        /\ UNCHANGED <<policy, now, started, cleanup>> /\ SameManual
        /\ \/ worker' = worker /\ id = manual
           \/ worker' = NoTurn /\ ~Validating
  <2>0. /\ 0 \in 0..Old
        /\ manual # 0 => manual \in Running /\ rows[manual] \in Row
        /\ AtBackup => worker.job \in Running /\ rows[worker.job] \in Row
    <3>1. 0 \in 0..Old
      BY HistoryAssumption DEF Old, WeekSlots
    <3>2. manual # 0 => manual \in Running
      BY DEF Running
    <3>3. AtBackup => worker.job \in Running
      BY DEF Running, AtBackup
    <3> QED BY <1>0, <3>1, <3>2, <3>3, RowTypes DEF RunningInv
  <2>1. CASE ManualSucceeds
    <3> DEFINE w == rows[manual]
    <3>1. /\ manual \in Running /\ w \in Row /\ worker' = worker
          /\ UNCHANGED <<policy, now, started, cleanup>> /\ SameManual
      BY <2>0, <2>1 DEF ManualSucceeds, SameManual
    <3>2. rows' = With(manual, [w EXCEPT !.status = "SUCCESS"])
      BY <2>1 DEF ManualSucceeds
    <3>3. [w EXCEPT !.status = "SUCCESS"]
            = [w EXCEPT !.status = "SUCCESS", !.file = w.file, !.valid = w.valid,
                 !.validAge = w.validAge, !.suspect = w.suspect]
          /\ w.valid \in BOOLEAN /\ w.validAge \in 0..Old /\ w.suspect \in BOOLEAN /\ w.file \in BOOLEAN
      BY <3>1 DEF Row
    <3> QED BY <3>1, <3>2, <3>3
  <2>2. ASSUME NEW m \in BOOLEAN, ManualFails(m)
        PROVE  /\ manual \in Running /\ worker' = worker /\ UNCHANGED <<policy, now, started, cleanup>>
               /\ SameManual
               /\ rows' = With(manual, [rows[manual] EXCEPT !.status = "FAILED", !.file = FALSE,
                                          !.valid = FALSE, !.validAge = 0, !.suspect = m])
    BY <2>0, <2>2 DEF ManualFails, Fails, SameManual
  <2>3. ASSUME NEW m \in BOOLEAN, AutomaticFails(m)
        PROVE  /\ worker.job \in Running /\ worker' = NoTurn /\ (m \/ rows[worker.job].file) \in BOOLEAN
               /\ UNCHANGED <<policy, now, started, cleanup>> /\ SameManual
               /\ rows' = With(worker.job, [rows[worker.job] EXCEPT !.status = "FAILED", !.file = FALSE,
                             !.valid = FALSE, !.validAge = 0, !.suspect = m \/ rows[worker.job].file])
    BY <2>0, <2>3 DEF AutomaticFails, Fails, AtBackup, SameManual
  <2>4. CASE BackupSucceeds
    <3> DEFINE w == rows[worker.job]
    <3>1. /\ worker.job \in Running /\ w \in Row /\ worker' = NoTurn
          /\ UNCHANGED <<policy, now, started, cleanup>> /\ SameManual
      BY <2>0, <2>4 DEF BackupSucceeds, AtBackup, SameManual
    <3>2. rows' = With(worker.job, [w EXCEPT !.status = "SUCCESS"])
      BY <2>4 DEF BackupSucceeds
    <3>3. [w EXCEPT !.status = "SUCCESS"]
            = [w EXCEPT !.status = "SUCCESS", !.file = w.file, !.valid = w.valid,
                 !.validAge = w.validAge, !.suspect = w.suspect]
          /\ w.valid \in BOOLEAN /\ w.validAge \in 0..Old /\ w.suspect \in BOOLEAN /\ w.file \in BOOLEAN
      BY <3>1 DEF Row
    <3>4. ~Validating
      <4>1. CASE worker' = worker
        BY <2>4, <4>1 DEF BackupSucceeds, NoTurn
      <4>2. CASE worker' # worker
        BY <4>2 DEF ManualSucceeds, ManualFails, ManualScript
      <4> QED BY <4>1, <4>2
    <3> QED BY <3>1, <3>2, <3>3, <3>4
  <2>5. CASE \E m \in BOOLEAN : ManualScript(m)
    <3> DEFINE w == rows[manual]
    <3>0. PICK m \in BOOLEAN : ManualScript(m)
      BY <2>5
    <3>1. /\ manual \in Running /\ w \in Row /\ worker' = worker
          /\ UNCHANGED <<policy, now, started, cleanup>> /\ SameManual
      BY <2>0, <3>0 DEF ManualScript, SameManual
    <3>2. rows' = With(manual, [w EXCEPT !.file = m])
      BY <3>0 DEF ManualScript
    <3>3. [w EXCEPT !.file = m]
            = [w EXCEPT !.status = w.status, !.file = m, !.valid = w.valid,
                 !.validAge = w.validAge, !.suspect = w.suspect]
          /\ w.valid \in BOOLEAN /\ w.validAge \in 0..Old /\ w.suspect \in BOOLEAN
          /\ w.status \in {"RUNNING", "SUCCESS", "FAILED"}
      BY <3>1 DEF Row
    <3> QED BY <3>1, <3>2, <3>3
  <2> QED BY <2>0, <2>1, <2>2, <2>3, <2>4, <2>5
<1>2. id \in Ids /\ rows[id] \in Row /\ id \notin ToDelete
  BY <1>0, RowTypes DEF RunningInv, ListsInv
<1> DEFINE r == [rows[id] EXCEPT !.status = st, !.file = f, !.valid = v, !.validAge = va, !.suspect = s]
<1>3. r \in Row /\ r.older = rows[id].older /\ r.age = rows[id].age /\ r.valid = v /\ rows' = With(id, r)
  BY <1>1, <1>2 DEF Row
<1> HIDE DEF r
<1>4. CASE worker' = worker /\ id = manual
  <2>1. AtBackup => id # worker.job /\ worker.job \in Ids
    BY <1>0, <1>4 DEF RunningInv, Running, AtBackup
  <2>2. \A i \in Ids \ {id} : rows'[i] = rows[i]
    BY <1>2, <1>3, EditRow DEF HistoryInv
  <2>3. SameTurn /\ SameSearch /\ ToDelete' = ToDelete
    BY <1>1, <1>4, <2>1, <2>2 DEF SameTurn, SameSearch, ToDelete, AtBackup, Validating
  <2> QED BY <1>1, <1>2, <1>3, <1>4, <2>1, <2>3, EditQuiet
<1>5. CASE worker' = NoTurn /\ ~Validating
  <2>1. worker'.pc = "idle" /\ worker'.todo = {}
    BY <1>5 DEF NoTurn
  <2>2. SameTurn /\ SameSearch /\ ToDelete' \subseteq ToDelete
    BY <1>1, <1>5, <2>1 DEF SameTurn, SameSearch, ToDelete, AtBackup, Validating
  <2> QED BY <1>1, <1>2, <1>3, <1>5, <2>1, <2>2, EditQuiet
<1> QED
  BY <1>1, <1>4, <1>5

(* gbak ends well, or no validation is planned. *)
LEMMA GbakValidation ==
  ASSUME HistoryInv, HistoryInv', ValidationInv, Gbak \/ (BackupValidationPlan /\ ~ShouldValidate)
  PROVE  ValidationInv'
PROOF
<1>0. RowsOK /\ RunningInv /\ ListsInv /\ PlanInv /\ worker \in Turn
  BY DEF HistoryInv, ValidationInv, RowsOK
<1>1. /\ worker.pc \in {"gbak", "plan"} /\ AtBackup /\ ~Validating
      /\ UNCHANGED <<policy, now, started, cleanup>> /\ SameManual
  BY DEF Gbak, BackupValidationPlan, AtBackup, Validating, SameManual
<1>2. /\ worker.job \in Running /\ worker.job \in Ids /\ rows[worker.job] \in Row
      /\ ~rows[worker.job].valid /\ worker.job \notin ToDelete
  BY <1>0, <1>1, RowTypes DEF RunningInv, Running, AtBackup, PlanInv, ListsInv
<1>3. worker'.pc \in {"plan", "write"} /\ worker'.job = worker.job /\ worker'.todo = worker.todo
  BY <1>0 DEF Gbak, BackupValidationPlan, Turn
<1>4. SameSearch /\ ToDelete' = ToDelete
  BY <1>1, <1>3 DEF SameSearch, ToDelete
<1>5. CASE rows' = rows
  <2>1. SameTurn
    BY <1>1, <1>2, <1>3, <1>5 DEF SameTurn, AtBackup, Validating
  <2> QED BY <1>1, <1>4, <1>5, <2>1, SameRowsQuiet
<1>6. CASE rows' = With(worker.job, [rows[worker.job] EXCEPT !.file = TRUE])
  <2> DEFINE r == [rows[worker.job] EXCEPT !.file = TRUE]
  <2>1. r \in Row /\ r.older = rows[worker.job].older /\ r.age = rows[worker.job].age
        /\ r.valid = rows[worker.job].valid /\ rows' = With(worker.job, r)
    BY <1>2, <1>6 DEF Row
  <2> HIDE DEF r
  <2>2. rows'[worker.job] = r
    BY <1>2, <2>1, EditRow DEF HistoryInv
  <2>3. SameTurn
    BY <1>1, <1>2, <1>3, <2>1, <2>2 DEF SameTurn, AtBackup, Validating
  <2> QED BY <1>1, <1>2, <1>3, <1>4, <2>1, <2>3, EditQuiet
<1> QED
  BY <1>5, <1>6 DEF Gbak, BackupValidationPlan

(* A backup begins, newer than all there are; one of the worker only when  *)
(* none is left that was cut off.                                          *)
LEMMA BeginValidation ==
  ASSUME HistoryInv, HistoryInv', ValidationInv, RunBackup \/ ManualBackup
  PROVE  ValidationInv'
PROOF
<1>0. RowsOK /\ Ordered /\ RunningInv /\ ListsInv /\ PlanInv
  BY DEF HistoryInv, ValidationInv
<1> DEFINE runs == \E i \in Ids : rows[i].status = "RUNNING"
<1>1. CASE RunBackup /\ runs
  <2>1. /\ worker.pc = "search" /\ rows' = rows /\ worker' = NoTurn
        /\ UNCHANGED <<policy, now, started, cleanup, manual>>
    BY <1>1 DEF RunBackup
  <2>2. worker'.pc = "idle" /\ worker'.todo = {}
    BY <2>1 DEF NoTurn
  <2>3. SameTurn /\ SameSearch /\ SameManual /\ ToDelete' = ToDelete
    BY <2>1, <2>2 DEF SameTurn, SameSearch, SameManual, ToDelete, AtBackup, Validating
  <2> QED BY <2>1, <2>3, SameRowsQuiet
<1>2. CASE ManualBackup \/ (RunBackup /\ ~runs)
  <2>1. /\ FreeIds # {} /\ rows' = WithNew(rows, FreeId)
        /\ UNCHANGED <<policy, now, started, cleanup>>
        /\ \/ worker' = worker /\ manual' = FreeId
           \/ /\ worker.pc = "search" /\ worker.todo = {} /\ manual' = manual /\ ~runs
              /\ worker' = [NoTurn EXCEPT !.pc = "gbak", !.job = FreeId]
    BY <1>2 DEF ManualBackup, RunBackup
  <2>2. FreeId \in Id \ (Ids \cup worker.todo \cup cleanup)
    BY <2>1, FreeIdIsFree
  <2>3. /\ Ids' = Ids \cup {FreeId} /\ rows'[FreeId] = [NewRow EXCEPT !.older = Ids]
        /\ \A i \in Ids : rows'[i] = rows[i]
    <3>1. rows \in [Ids -> Row]
      BY <1>0 DEF RowsOK
    <3> QED BY <1>0, <2>1, <2>2, <3>1, MakeRow
  <2>4. ~rows'[FreeId].valid /\ rows'[FreeId].older = Ids /\ rows'[FreeId].age = 0
        /\ rows'[FreeId].status = "RUNNING"
    BY <2>3 DEF NewRow
  <2>5. SameAges /\ Successes' = Successes
    BY <2>2, <2>3, <2>4 DEF SameAges, Successes
  <2>6. AtBackup => worker.job \in Ids
    BY <1>0 DEF RunningInv, Running, AtBackup
  <2>7. ToDelete' = ToDelete /\ FreeId \notin ToDelete
    BY <2>1, <2>2 DEF ToDelete, NoTurn
  <2>8. CASE worker' = worker /\ manual' = FreeId
    <3>1. SameTurn /\ SameSearch
      BY <2>3, <2>6, <2>8 DEF SameTurn, SameSearch, AtBackup, Validating
    <3>2. PlanInv'
      BY <2>2, <2>3, <2>5, <2>6, <2>8, <3>1, QuietPlan DEF SameTurn
    <3>3. ASSUME NEW i \in Ids PROVE SameEvidence(i)
      <4>1. i # FreeId /\ i \in Ids' /\ rows'[i] = rows[i]
        BY <2>2, <2>3
      <4>2. Searched(i)' = Searched(i) /\ AtBackup' = AtBackup
        BY <2>8 DEF Searched, AtBackup
      <4>3. rows[i].status = "SUCCESS" => i \in Successes'
        BY <2>5 DEF Successes
      <4> QED BY <2>8, <4>1, <4>2, <4>3 DEF SameEvidence
    <3>4. Validating => worker.job \in Ids
      BY <2>6 DEF Validating, AtBackup
    <3> QED BY <2>1, <2>2, <2>3, <2>5, <2>7, <2>8, <3>1, <3>2, <3>3, <3>4, QuietValidation DEF SameTurn
  <2>9. CASE /\ worker.pc = "search" /\ manual' = manual /\ ~runs
             /\ worker' = [NoTurn EXCEPT !.pc = "gbak", !.job = FreeId]
    <3>1. worker'.pc = "gbak" /\ worker'.job = FreeId
      BY <2>9 DEF NoTurn
    <3>2. ~Validating /\ ~Validating'
      BY <2>9, <3>1 DEF Validating
    <3>3. PlanInv'
      <4>1. manual' # 0 => ~rows'[manual'].valid
        <5>1. manual # 0 => manual \in Ids
          BY <1>0 DEF RunningInv, Running
        <5> QED BY <1>0, <2>3, <2>9, <5>1 DEF PlanInv
      <4> QED BY <2>3, <2>4, <3>1, <4>1 DEF PlanInv
    <3>4. ASSUME NEW i \in Ids PROVE SameEvidence(i)
      <4>1. i \in Ids' /\ rows'[i] = rows[i] /\ rows[i].status # "RUNNING"
        BY <2>3, <2>9
      <4>2. ~Searched(i)' /\ (rows[i].status = "SUCCESS" => i \in Successes')
        BY <2>5, <3>1 DEF Searched, Successes
      <4> QED BY <2>9, <4>1, <4>2 DEF SameEvidence
    <3> QED BY <2>1, <2>2, <2>3, <2>5, <2>7, <3>2, <3>3, <3>4, QuietValidation
  <2> QED BY <2>1, <2>8, <2>9
<1> QED
  BY <1>1, <1>2

(***************************************************************************)
(* Steps of a validation                                                   *)
(***************************************************************************)
(* It is planned for a backup that was started today, when no other of     *)
(* today is found.                                                         *)
LEMMA PlanValidation ==
  ASSUME HistoryInv, HistoryInv', ValidationInv, DailySettings, FewToday,
         BackupValidationPlan, ShouldValidate
  PROVE  ValidationInv'
PROOF
<1>0. RowsOK /\ RunningInv /\ ClockOK /\ ListedInv /\ AgesInv /\ PlanInv /\ OnceInv /\ worker \in Turn
  BY DEF HistoryInv, ValidationInv, RowsOK
<1>1. /\ worker.pc = "plan" /\ AtBackup /\ started' = started + 1
      /\ UNCHANGED <<policy, now, rows, cleanup>>
  BY DEF BackupValidationPlan, AtBackup
<1>2. worker.job \in Ids /\ rows[worker.job] \in Row /\ rows[worker.job].age <= MaxRun
      /\ ~rows[worker.job].valid
  BY <1>0, <1>1, RowTypes DEF RunningInv, Running, AtBackup, PlanInv
<1>3. worker'.pc = "validate" /\ worker'.job = worker.job /\ worker'.todo = worker.todo
  BY <1>0 DEF BackupValidationPlan, Turn
<1>4. Ids' = Ids
  BY <1>1 DEF Ids
<1>5. ClockOK'
  BY <1>0, <1>1 DEF ClockOK
<1>6. ListedInv' /\ AgesInv'
  BY <1>0, <1>1, <1>3, <1>4 DEF ListedInv, AgesInv, ToDelete
<1>7. PlanInv'
  BY <1>0, <1>1, <1>2, <1>3, <1>4 DEF PlanInv, BackupValidationPlan
<1>8. OnceInv'
  <2>1. SUFFICES ASSUME policy.mode = "weekly", ~Wraps
                 PROVE  started' <= 1 /\ Evidence'
    BY <1>1 DEF OnceInv, Wraps
  <2>2. /\ ValidationWeekdayAllowed(now) /\ InWindow(now)
        /\ ~ValidatedThisPeriod /\ ~FailedThisWindow
    BY <2>1 DEF ShouldValidate
  <2>3. ~Validating
    BY <1>1 DEF Validating
  <2>4. started # 1
    <3>1. SUFFICES ASSUME started = 1 PROVE FALSE
      OBVIOUS
    <3>2. TodayValid \/ TodayFailed
      BY <1>0, <1>1, <2>1, <2>2, <2>3, <3>1 DEF OnceInv, Evidence
    <3> QED BY <2>1, <2>2, <3>2, PlanFinds
  <2>5. started' <= 1
    BY <1>0, <1>1, <2>1, <2>4 DEF OnceInv, ClockOK
  <2>6. rows[worker.job].age <= now.slot
    <3>1. /\ policy.start \in 0..Slots /\ policy.end \in 0..Slots /\ Slots \in Nat /\ MaxRun \in Nat
          /\ policy \in Policies
      BY <1>0, HistoryAssumption DEF ClockOK
    <3>2. policy.start <= policy.end /\ policy.start <= now.slot /\ now.slot \in Nat
      BY <1>0, <2>1, <2>2, <3>1, ClockTypes DEF Wraps, InWindow
    <3>3. MaxRun <= policy.start
      BY <2>1, <3>1, <3>2 DEF DailySettings
    <3>4. rows[worker.job].age \in Nat
      BY <1>2 DEF Row
    <3> QED BY <1>2, <3>1, <3>2, <3>3, <3>4
  <2>7. Evidence'
    BY <1>1, <1>3, <2>6 DEF Evidence, Validating, TodayRuns
  <2> QED BY <2>5, <2>7
<1> QED
  BY <1>5, <1>6, <1>7, <1>8 DEF ValidationInv

(* The backup that is validated changes: the restore succeeds, and then    *)
(* the backup does; or one of the two fails.                               *)
LEMMA ValidatingStep ==
  ASSUME HistoryInv, ValidationInv, Validating, UNCHANGED <<policy, now, started, cleanup, manual>>,
         NEW r \in Row, rows' = With(worker.job, r),
         r.older = rows[worker.job].older, r.age = rows[worker.job].age,
         worker' \in Turn, worker'.todo \subseteq worker.todo,
         \/ worker'.pc = "write" /\ worker'.job = worker.job /\ r.valid /\ r.validAge = 0
         \/ worker' = NoTurn /\ r.status = "FAILED" /\ r.suspect
         \/ /\ worker' = NoTurn /\ worker.pc = "write" /\ r.status = "SUCCESS" /\ r.file
            /\ r.valid /\ r.validAge = rows[worker.job].validAge
  PROVE  ValidationInv'
PROOF
<1>0. RowsOK /\ Ordered /\ RunningInv /\ ClockOK /\ ListedInv /\ AgesInv /\ PlanInv /\ OnceInv
  BY DEF HistoryInv, ValidationInv
<1>1. AtBackup /\ worker.job \in Ids
  BY <1>0 DEF Validating, RunningInv, Running, AtBackup
<1>2. /\ Ids' = Ids /\ rows'[worker.job] = r
      /\ \A i \in Ids \ {worker.job} : rows'[i] = rows[i]
  BY <1>0, <1>1, EditRow
<1>3. ClockOK'
  BY <1>0 DEF ClockOK
<1>4. ListedInv' /\ AgesInv'
  <2>1. \A i \in Ids : rows'[i].age = rows[i].age /\ rows'[i].older = rows[i].older
    BY <1>1, <1>2
  <2>2. worker.pc # "search" /\ ToDelete' \subseteq ToDelete
    BY DEF Validating, ToDelete, NoTurn
  <2> QED BY <1>0, <1>2, <2>1, <2>2 DEF ListedInv, AgesInv, Ordered
<1>5. \A i \in Ids \ {worker.job} : rows'[i].valid => i \in rows'[worker.job].older
  BY <1>0, <1>1, <1>2 DEF PlanInv
<1>5a. manual' # 0 => ~rows'[manual'].valid
  <2>1. manual # 0 => manual \in Ids /\ manual # worker.job
    BY <1>0, <1>1 DEF RunningInv, Running
  <2> QED BY <1>0, <1>2, <2>1 DEF PlanInv
<1>6. SUFFICES PlanInv' /\ (ClockOK /\ TodayRuns => Evidence')
  <2>1. OnceInv'
    BY <1>0, <1>6 DEF OnceInv, Evidence, Wraps, ValidationWeekdayAllowed
  <2> QED BY <1>3, <1>4, <1>6, <2>1 DEF ValidationInv
<1>7. CASE worker'.pc = "write" /\ worker'.job = worker.job /\ r.valid /\ r.validAge = 0
  <2>1. PlanInv'
    BY <1>2, <1>5, <1>5a, <1>7 DEF PlanInv
  <2>2. ASSUME TodayRuns PROVE Evidence'
    <3>1. r.age <= now.slot /\ r.validAge <= now.slot
      BY <1>0, <1>7, <2>2, ClockTypes DEF TodayRuns
    <3>2. Validating' /\ TodayRuns'
      BY <1>2, <1>7, <3>1 DEF Validating, TodayRuns
    <3> QED BY <3>2 DEF Evidence
  <2> QED BY <2>1, <2>2
<1>8. CASE worker' = NoTurn
  <2>1. worker'.pc = "idle"
    BY <1>8 DEF NoTurn
  <2>2. ~Validating' /\ PlanInv'
    BY <1>5a, <2>1 DEF Validating, PlanInv, AtBackup
  <2>3. CASE r.status = "FAILED" /\ r.suspect
    <3>1. TodayRuns => TodayFailed'
      <4>1. worker.job # manual'
        BY <1>0, <1>1 DEF RunningInv
      <4> QED BY <1>1, <1>2, <2>1, <2>3, <4>1 DEF TodayRuns, TodayFailed
    <3> QED BY <2>2, <3>1 DEF Evidence
  <2>4. CASE /\ worker.pc = "write" /\ r.status = "SUCCESS" /\ r.file
             /\ r.valid /\ r.validAge = rows[worker.job].validAge
    <3>1. worker.job \in Successes'
      BY <1>1, <1>2, <2>4 DEF Successes
    <3>2. TodayRuns => TodayValid'
      BY <1>2, <1>5, <2>4, <3>1 DEF TodayRuns, TodayValid
    <3> QED BY <2>2, <3>2 DEF Evidence
  <2>5. worker'.pc # "write"
    BY <2>1
  <2> QED BY <2>3, <2>4, <2>5
<1> QED
  BY <1>7, <1>8

LEMMA ValidatingValidation ==
  ASSUME HistoryInv, ValidationInv,
         \/ ValidateBackupRestore \/ ValidationFails
         \/ Validating /\ (BackupSucceeds \/ \E m \in BOOLEAN : AutomaticFails(m))
  PROVE  ValidationInv'
PROOF
<1>0. RowsOK /\ RunningInv /\ worker \in Turn
  BY DEF HistoryInv, RowsOK
<1>1. Validating
  BY DEF ValidateBackupRestore, ValidationFails, Validating
<1> DEFINE w == rows[worker.job]
<1>2. w \in Row /\ w.file
  BY <1>0, <1>1, RowTypes DEF RunningInv, Running, AtBackup, Validating
<1>3. NoTurn \in Turn /\ NoTurn.todo = {} /\ 0 \in 0..Old
  BY <1>0, RowTypes, HistoryAssumption DEF NoTurn, Old, WeekSlots
<1>4. CASE ValidateBackupRestore
  <2> DEFINE r == [w EXCEPT !.valid = TRUE, !.validAge = 0]
  <2>1. /\ rows' = With(worker.job, r) /\ worker' = [worker EXCEPT !.pc = "write"]
        /\ UNCHANGED <<policy, now, started, cleanup, manual>>
    BY <1>4 DEF ValidateBackupRestore
  <2>2. r \in Row /\ r.older = w.older /\ r.age = w.age /\ r.valid /\ r.validAge = 0
    BY <1>2, <1>3 DEF Row
  <2>3. worker' \in Turn /\ worker'.pc = "write" /\ worker'.job = worker.job /\ worker'.todo = worker.todo
    BY <1>0, <2>1 DEF Turn
  <2> HIDE DEF r
  <2> QED BY <1>1, <2>1, <2>2, <2>3, ValidatingStep
<1>5. CASE ValidationFails \/ \E m \in BOOLEAN : AutomaticFails(m)
  <2>1. PICK m \in BOOLEAN : /\ rows' = Fails(worker.job, m \/ w.file) /\ worker' = NoTurn
                             /\ UNCHANGED <<policy, now, started, cleanup, manual>>
    <3>1. (TRUE \/ w.file) = TRUE /\ TRUE \in BOOLEAN
      OBVIOUS
    <3> QED BY <1>5, <3>1 DEF ValidationFails, AutomaticFails
  <2> DEFINE r == [w EXCEPT !.status = "FAILED", !.file = FALSE, !.valid = FALSE, !.validAge = 0,
                            !.suspect = m \/ w.file]
  <2>2. rows' = With(worker.job, r)
    BY <2>1 DEF Fails
  <2>3. (m \/ w.file) = TRUE
    BY <1>2
  <2>4. r \in Row /\ r.older = w.older /\ r.age = w.age /\ r.status = "FAILED" /\ r.suspect
    BY <1>2, <1>3, <2>3 DEF Row
  <2> HIDE DEF r
  <2> QED BY <1>1, <1>3, <2>1, <2>2, <2>4, ValidatingStep
<1>6. CASE BackupSucceeds
  <2> DEFINE r == [w EXCEPT !.status = "SUCCESS"]
  <2>1. /\ worker.pc = "write" /\ rows' = With(worker.job, r) /\ worker' = NoTurn
        /\ UNCHANGED <<policy, now, started, cleanup, manual>>
    BY <1>6 DEF BackupSucceeds
  <2>2. w.valid
    BY <1>1, <2>1 DEF Validating
  <2>3. r \in Row /\ r.older = w.older /\ r.age = w.age /\ r.status = "SUCCESS" /\ r.file /\ r.valid
        /\ r.validAge = w.validAge
    BY <1>2, <2>2 DEF Row
  <2> HIDE DEF r
  <2> QED BY <1>1, <1>3, <2>1, <2>3, ValidatingStep
<1> QED
  BY <1>4, <1>5, <1>6

(* A crash cuts a validation off; its row and file are left. *)
LEMMA CutOffValidation ==
  ASSUME HistoryInv, ValidationInv, WorkerStops, Validating
  PROVE  ValidationInv'
PROOF
<1>0. RunningInv /\ ClockOK /\ ListedInv /\ AgesInv /\ PlanInv /\ OnceInv
  BY DEF HistoryInv, ValidationInv
<1>1. worker' = NoTurn /\ UNCHANGED <<policy, now, rows, cleanup, manual, started>>
  BY DEF WorkerStops
<1>2. worker'.pc = "idle" /\ worker'.todo = {} /\ Ids' = Ids
  BY <1>1 DEF NoTurn, Ids
<1>3. PlanInv'
  BY <1>0, <1>1, <1>2 DEF PlanInv, AtBackup
<1>4. ListedInv' /\ AgesInv'
  BY <1>0, <1>1, <1>2 DEF ListedInv, AgesInv, ToDelete
<1>5. ClockOK'
  BY <1>0, <1>1 DEF ClockOK
<1>6. OnceInv'
  <2>1. SUFFICES ASSUME TodayRuns PROVE Evidence'
    BY <1>0, <1>1 DEF OnceInv, Evidence, Wraps, ValidationWeekdayAllowed
  <2>2. /\ worker.job \in Ids \ {manual} /\ rows[worker.job].status = "RUNNING"
        /\ rows[worker.job].file /\ rows[worker.job].age <= now.slot
    BY <1>0, <2>1 DEF TodayRuns, Validating, RunningInv, Running, AtBackup
  <2>3. TodayCut' /\ ~AtBackup' /\ ~Validating'
    BY <1>1, <1>2, <2>2 DEF TodayCut, AtBackup, Validating
  <2> QED BY <2>3 DEF Evidence
<1> QED
  BY <1>3, <1>4, <1>5, <1>6 DEF ValidationInv

(***************************************************************************)
(* Time                                                                    *)
(***************************************************************************)
(* Within the day what was found is found again; at midnight a new period  *)
(* begins, or the policy does not name the day.                            *)
LEMMA TickValidation ==
  ASSUME HistoryInv, ValidationInv, Tick
  PROVE  ValidationInv'
PROOF
<1>0. RowsOK /\ Ordered /\ RunningInv /\ ClockOK /\ ListedInv /\ AgesInv /\ PlanInv /\ OnceInv
  BY DEF HistoryInv, ValidationInv
<1>1. /\ rows' = Aged /\ UNCHANGED <<policy, worker, cleanup, manual>> /\ now' = NextSlot(now)
      /\ started' = IF PeriodAge(now') = 0 THEN 0 ELSE started
  BY DEF Tick
<1>2. /\ Ids' \subseteq Ids /\ rows' \in [Ids' -> Row]
      /\ \A i \in Ids : \/ rows[i].status # "FAILED" \/ i = manual
                        \/ rows[i].age < WeekSlots + Slots
                        => i \in Ids'
      /\ \A i \in Ids' : /\ rows'[i].status = rows[i].status /\ rows'[i].file = rows[i].file
                         /\ rows'[i].older = rows[i].older \cap Ids'
                         /\ rows'[i].age <= rows[i].age + 1 /\ rows[i].age <= rows'[i].age
                         /\ rows'[i].valid = rows[i].valid /\ rows'[i].suspect = rows[i].suspect
                         /\ rows[i].valid => rows'[i].validAge <= rows[i].validAge + 1
                         /\ rows'[i].age = Older(rows[i].age)
  BY <1>0, <1>1, AgeRows
<1>3. \A i \in Ids' : /\ rows[i].age \in Nat /\ rows'[i].age \in Nat
                      /\ rows[i].validAge \in Nat /\ rows'[i].validAge \in Nat
  <2>1. \A i \in Ids' : rows[i] \in Row /\ rows'[i] \in Row
    BY <1>0, <1>2, RowTypes
  <2> QED BY <2>1 DEF Row
<1>4. AtBackup => worker.job \in Ids'
  <2>1. AtBackup => worker.job \in Ids /\ rows[worker.job].status = "RUNNING"
    BY <1>0 DEF RunningInv, Running, AtBackup
  <2> QED BY <1>2, <2>1
<1>5. /\ Slots \in Nat /\ Week \in Nat /\ WeekSlots \in Nat /\ now.slot \in Nat /\ now.slot < Slots
      /\ now.day \in 0..(Week - 1) /\ Slots > 0 /\ Week > 0
  BY <1>0, HistoryAssumption DEF ClockOK, Moment, WeekSlots
<1>6. /\ now' \in Moment
      /\ \/ now'.day = now.day /\ now'.slot = now.slot + 1
         \/ now'.slot = 0
  <2>1. CASE now.slot + 1 < Slots
    <3>1. now' = [now EXCEPT !.slot = @ + 1] /\ now \in Moment
      BY <1>0, <1>1, <2>1 DEF NextSlot, ClockOK
    <3>2. now.slot + 1 \in 0..(Slots - 1)
      BY <1>5, <2>1
    <3>3. now'.day = now.day /\ now'.slot = now.slot + 1
      BY <3>1 DEF Moment
    <3> QED BY <3>1, <3>2, <3>3 DEF Moment
  <2>2. CASE ~(now.slot + 1 < Slots)
    <3>1. now' = [day |-> NextDay(now.day), slot |-> 0]
      BY <1>1, <2>2 DEF NextSlot
    <3>2. NextDay(now.day) \in 0..(Week - 1) /\ 0 \in 0..(Slots - 1)
      BY <1>5 DEF NextDay
    <3> QED BY <3>1, <3>2 DEF Moment
  <2> QED BY <2>1, <2>2
<1>7. ClockOK'
  BY <1>0, <1>1, <1>6 DEF ClockOK
<1>8. ListedInv'
  <2>1. SUFFICES ASSUME NEW id \in ToDelete \cap Ids' PROVE rows'[id].age >= Slots
    BY <1>1 DEF ListedInv, ToDelete
  <2>2. rows[id].age >= Slots
    BY <1>0, <1>2 DEF ListedInv
  <2> QED BY <1>2, <1>3, <1>5, <2>2
<1>a. AgesInv'
  <2>1. Old \in Nat
    BY HistoryAssumption DEF Old, WeekSlots
  <2>2. \A m, n \in Nat : m <= n /\ n <= Old => Older(m) <= Older(n)
    BY <2>1 DEF Older
  <2>3. SUFFICES ASSUME NEW j \in Ids', NEW i \in rows'[j].older PROVE rows'[j].age <= rows'[i].age
    BY DEF AgesInv
  <2>4. i \in Ids' /\ rows[j].age <= rows[i].age
    BY <1>0, <1>2 DEF AgesInv
  <2>5. rows[i].age <= Old
    BY <1>0, <1>2, <2>1, <2>4, RowTypes DEF Row
  <2> QED BY <1>2, <1>3, <2>2, <2>4, <2>5
<1>9. PlanInv'
  <2>1. AtBackup' = AtBackup
    BY <1>1 DEF AtBackup
  <2>2. manual # 0 => manual \in Ids'
    BY <1>0, <1>2 DEF RunningInv, Running
  <2>3. \A i \in Successes' : i \in Successes /\ i \in Ids'
    BY <1>2 DEF Successes
  <2> QED BY <1>0, <1>1, <1>2, <1>4, <2>1, <2>2, <2>3 DEF PlanInv
<1>10. OnceInv'
  <2>1. SUFFICES ASSUME policy.mode = "weekly", ~Wraps
                 PROVE  started' <= 1 /\ (started' = 1 /\ ValidationWeekdayAllowed(now)' => Evidence')
    BY <1>1 DEF OnceInv, Wraps
  <2>2. started \in Nat /\ started <= 1 /\ started' \in {0, started}
    BY <1>0, <1>1, <2>1 DEF OnceInv, ClockOK
  <2>3. SUFFICES ASSUME started' = 1, ValidationWeekdayAllowed(now)' PROVE Evidence'
    BY <2>2
  <2>4. started = 1 /\ policy \in Policies /\ ValidationWeekdayAllowed(now')
    BY <1>0, <1>1, <2>2, <2>3 DEF ValidationWeekdayAllowed, ClockOK
  <2>5. PeriodAge(now') = now'.slot
    BY <1>6, <2>4, PeriodToday
  <2>6. now'.slot # 0
    BY <1>1, <2>3, <2>5
  <2>7. now'.day = now.day /\ now'.slot = now.slot + 1
    BY <1>6, <2>6
  <2>8. ValidationWeekdayAllowed(now)
    BY <2>4, <2>7 DEF ValidationWeekdayAllowed
  <2>9. Evidence
    BY <1>0, <2>1, <2>4, <2>8 DEF OnceInv
  <2>10. CASE Validating
    <3>1. worker.job \in Ids' /\ TodayRuns
      BY <1>4, <2>9, <2>10 DEF Evidence, Validating, AtBackup
    <3>2. Validating'
      BY <1>1, <1>2, <2>10, <3>1 DEF Validating
    <3>3. rows'[worker.job].age <= now.slot + 1
      BY <1>2, <1>3, <1>5, <3>1 DEF TodayRuns
    <3>4. worker.pc = "write" => rows'[worker.job].validAge <= now.slot + 1
      BY <1>2, <1>3, <1>5, <2>10, <3>1 DEF TodayRuns, Validating
    <3> QED BY <1>1, <2>7, <3>2, <3>3, <3>4 DEF Evidence, TodayRuns
  <2>11. CASE ~Validating
    <3>1. ~Validating'
      BY <1>1, <1>2, <1>4, <2>11 DEF Validating, AtBackup
    <3>2. CASE TodayFailed
      <4>1. PICK f \in Ids \ {manual} :
              /\ rows[f].status = "FAILED" /\ rows[f].suspect /\ rows[f].age <= now.slot
              /\ worker.pc = "search" => f \notin worker.todo
        BY <3>2 DEF TodayFailed
      <4>2. rows[f].age \in Nat
        BY <1>0, RowTypes DEF Row
      <4>3. f \in Ids'
        BY <1>2, <1>5, <4>1, <4>2
      <4>4. rows'[f].status = "FAILED" /\ rows'[f].suspect /\ rows'[f].age <= now'.slot
        BY <1>2, <1>3, <1>5, <2>7, <4>1, <4>3
      <4>5. TodayFailed'
        BY <1>1, <4>1, <4>3, <4>4 DEF TodayFailed
      <4> QED BY <3>1, <4>5 DEF Evidence
    <3>3. CASE TodayValid
      <4>1. PICK e \in Successes :
              /\ rows[e].file /\ rows[e].valid /\ rows[e].validAge <= now.slot /\ rows[e].age <= now.slot
              /\ \A i \in Ids \ {e} : rows[i].valid => i \in rows[e].older
        BY <3>3 DEF TodayValid
      <4>2. e \in Ids' /\ e \in Successes'
        BY <1>2, <4>1 DEF Successes
      <4>3. rows'[e].file /\ rows'[e].valid
            /\ rows'[e].validAge <= now'.slot /\ rows'[e].age <= now'.slot
        BY <1>2, <1>3, <1>5, <2>7, <4>1, <4>2
      <4>4. \A i \in Ids' \ {e} : rows'[i].valid => i \in rows'[e].older
        BY <1>2, <4>1, <4>2
      <4> QED BY <3>1, <4>2, <4>3, <4>4 DEF Evidence, TodayValid
    <3>4. CASE ~AtBackup /\ TodayCut
      <4>1. PICK c \in Ids \ {manual} :
              rows[c].status = "RUNNING" /\ rows[c].file /\ rows[c].age <= now.slot
        BY <3>4 DEF TodayCut
      <4>2. c \in Ids'
        BY <1>2, <4>1
      <4>3. rows'[c].status = "RUNNING" /\ rows'[c].file /\ rows'[c].age <= now'.slot
        BY <1>2, <1>3, <1>5, <2>7, <4>1, <4>2
      <4>4. TodayCut' /\ ~AtBackup'
        BY <1>1, <3>4, <4>2, <4>3 DEF TodayCut, AtBackup
      <4> QED BY <3>1, <4>4 DEF Evidence
    <3> QED BY <2>9, <2>11, <3>2, <3>3, <3>4 DEF Evidence
  <2> QED BY <2>10, <2>11
<1> QED
  BY <1>7, <1>8, <1>a, <1>9, <1>10 DEF ValidationInv

(***************************************************************************)
(* Theorems about the history                                              *)
(***************************************************************************)
(* The rows stay ordered, running jobs have rows, and the lists of what is *)
(* to be deleted name none of them; and the newest success is in no list   *)
(* and keeps the file that it was recorded with, unless a search of the    *)
(* worker takes it back.                                                   *)
THEOREM HistoryInvariant ==
  ASSUME SafeSettings
  PROVE  HistorySpec => []HistoryInv
PROOF
<1>1. HistoryInit => HistoryInv
  <2> SUFFICES ASSUME HistoryInit PROVE HistoryInv
    OBVIOUS
  <2>1. Ids = {} /\ rows \in [Ids -> Row] /\ Successes = {}
    BY DEF HistoryInit, Ids, Successes
  <2>2. worker \in Turn /\ worker.pc = "idle" /\ worker.todo = {} /\ manual = 0
        /\ cleanup = {} /\ dumped = FALSE /\ had = FALSE /\ 0 \in 0..MaxRows
    BY HistoryAssumption DEF HistoryInit, NoTurn, Turn
  <2>3. Running = {}
    BY <2>2 DEF Running
  <2>4. RowsOK /\ Ordered
    BY <2>1, <2>2 DEF RowsOK, Ordered
  <2>5. RunningInv /\ ListsInv /\ KeptInv
    BY <2>1, <2>2, <2>3 DEF RunningInv, AtBackup, ListsInv, KeptInv, ToDelete
  <2> QED BY <2>4, <2>5 DEF HistoryInv
<1>2. HistoryInv /\ [HistoryNext]_historyVars => HistoryInv'
  <2> SUFFICES ASSUME HistoryInv, [HistoryNext]_historyVars PROVE HistoryInv'
    OBVIOUS
  <2>1. CASE UNCHANGED historyVars
    BY <2>1 DEF historyVars, HistoryInv, RowsOK, Ordered, RunningInv, ListsInv, KeptInv, Ids,
                Successes, Running, AtBackup, ToDelete
  <2>2. CASE WorkerStep
    BY <2>2, PassStartsKeeps, CleanupRetentionKeeps, FilesKeep, DeleteKeeps, BeginKeeps,
       RunningKeep, OtherStepsKeep, SuccessKeeps, SearchesKeep, MarkKeeps DEF WorkerStep
  <2>3. CASE HistoryNext /\ ~WorkerStep
    BY <2>3, RunningKeep, BeginKeeps, SuccessKeeps, CleanupKeeps, FilesKeep, DeleteKeeps,
       TickKeeps, OtherStepsKeep DEF HistoryNext
  <2> QED BY <2>1, <2>2, <2>3
<1> QED
  BY <1>1, <1>2, PTL DEF HistorySpec

(* KeepsABackup: however backups, the retention of the worker, cleanups of *)
(* an operator, failures and crashes interleave, there is a successful row *)
(* with its file as long as the newest success was recorded with a file    *)
(* and no search took it back.  The two deletions need no lock for it:     *)
(* each spares the newest success it saw, and what comes later is newer    *)
(* than both lists.  A manual backup of the panel whose script failed, or  *)
(* whose file went to the quarantine, voids the condition until a backup   *)
(* succeeds.                                                               *)
THEOREM BackupKept ==
  ASSUME SafeSettings
  PROVE  HistorySpec => []KeepsABackup
PROOF
<1>1. HistoryInv => KeepsABackup
  BY DEF HistoryInv, KeptInv, KeepsABackup
<1> QED
  BY <1>1, HistoryInvariant, PTL

(* What a validation of today leaves, and that nothing of it is deleted,   *)
(* is an invariant, as long as the searches of a plan reach back to the    *)
(* start of the day.                                                       *)
THEOREM ValidationInvariant ==
  ASSUME SafeSettings, DailySettings
  PROVE  HistorySpec /\ []FewToday => []ValidationInv
PROOF
<1>1. HistoryInit => ValidationInv
  <2> SUFFICES ASSUME HistoryInit PROVE ValidationInv
    OBVIOUS
  <2>1. Ids = {} /\ started = 0 /\ worker.pc = "idle"
    BY DEF HistoryInit, Ids, NoTurn
  <2>2. ClockOK
    BY HistoryAssumption DEF HistoryInit, ClockOK, Moment
  <2>3. manual = 0
    BY DEF HistoryInit
  <2> QED BY <2>1, <2>2, <2>3 DEF ValidationInv, ListedInv, AgesInv, PlanInv, AtBackup, OnceInv
<1>2. HistoryInv /\ HistoryInv' /\ FewToday /\ ValidationInv /\ [HistoryNext]_historyVars
      => ValidationInv'
  <2> SUFFICES ASSUME HistoryInv, HistoryInv', FewToday, ValidationInv, [HistoryNext]_historyVars
               PROVE  ValidationInv'
    OBVIOUS
  <2>1. CASE UNCHANGED historyVars
    <3>1. UNCHANGED <<policy, now, started, rows, worker, manual, cleanup>>
      BY <2>1 DEF historyVars
    <3>2. SameTurn /\ SameManual /\ SameSearch /\ ToDelete' = ToDelete
      BY <3>1 DEF SameTurn, SameManual, SameSearch, ToDelete, AtBackup, Validating
    <3> QED BY <3>1, <3>2, SameRowsQuiet
  <2>2. CASE WorkerStep
    BY <2>2, OthersValidation, ListsValidation, FilesValidation, DeleteValidation, BeginValidation,
       GbakValidation, PlanValidation, ValidatingValidation, EndsValidation, MarkValidation
       DEF WorkerStep
  <2>3. CASE HistoryNext /\ ~WorkerStep
    BY <2>3, OthersValidation, ListsValidation, FilesValidation, DeleteValidation, BeginValidation,
       ValidatingValidation, EndsValidation, CutOffValidation, TickValidation DEF HistoryNext
  <2> QED BY <2>1, <2>2, <2>3
<1> QED
  BY <1>1, <1>2, HistoryInvariant, PTL DEF HistorySpec

(* OneValidation: with the weekly policy and a window within a day, the    *)
(* restore that loads the server is started once in a period, whatever     *)
(* retention, cleanups, other failures, late backups and crashes do        *)
(* meanwhile: one that a crash cut off leaves a row and a file, which a    *)
(* search moves to the quarantine before the next backup, and its message  *)
(* counts as a failed validation.  It needs a day with no more successes   *)
(* and failures than latestValidatedBackup and                             *)
(* latestValidationFailureForWindow take.                                  *)
THEOREM ValidatedOnce ==
  ASSUME SafeSettings, DailySettings
  PROVE  HistorySpec /\ []FewToday => []OneValidation
PROOF
<1>1. ValidationInv => OneValidation
  BY DEF ValidationInv, OnceInv, OneValidation
<1> QED
  BY <1>1, ValidationInvariant, PTL
=============================================================================
