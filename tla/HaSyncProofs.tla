---------------------------- MODULE HaSyncProofs ----------------------------
(***************************************************************************)
(* Proofs about HaSync, for any databases, hosts, versions, requests and   *)
(* faults: the settings, the rows and files of the standby, and that it    *)
(* keeps the promise of StandbyDatabase.                                   *)
(***************************************************************************)
EXTENDS HaSync, TLAPS

SettingsType ==
  settings \in Settings /\ probe \in [Prober -> [on: BOOLEAN, snap: Settings]]

(* A validation, also one that a test in progress has read, was made by a  *)
(* test that the host answered.                                            *)
HostInv ==
  /\ settings.at => settings.vhost \in answered
  /\ \A p \in Prober : probe[p].snap.at => probe[p].snap.vhost \in answered

SettingsInv == SettingsType /\ HostInv

(* The script has read the versions. *)
Listed == {"ready", "import", "importing", "next", "copy", "post", "wait"}

ScriptInv ==
  /\ script \in Script /\ version \in [DB -> Version]
  /\ script.pc \in Listed => \A d \in DB : script.list[d] \in Version

(* A restore, until it ends, is of a database and brings a version. *)
StandbyType ==
  /\ row \in [DB -> Row] /\ saved \in [DB -> Saved]
  /\ file \in [DB -> Version \cup {0}] /\ prod \in [DB -> Version \cup {0}]
  /\ work \in [Slot -> Work]
  /\ \A s \in Slot : work[s].pc # "idle" => work[s].db \in DB /\ work[s].sha.ver \in Version

(* Whoever says READY, now or later, names the version in the file: the    *)
(* row, the copy an import holds, and the restore whose lock the row has,  *)
(* which writes back what it found or, after the move, what it brought.    *)
Right(d, claim) == claim.status = "READY" => claim.sha.ver = file[d]

Good(d) ==
  /\ Right(d, row[d]) /\ Right(d, saved[d])
  /\ \A s \in Slot : work[s].db = d /\ row[d].lock = s =>
       /\ work[s].pc = "run" => Right(d, work[s].prev)
       /\ work[s].pc = "moved" => work[s].sha.ver = file[d]

StandbyInv == StandbyType /\ \A d \in DB \ doubt : Good(d)

SyncInv == SettingsInv /\ ScriptInv /\ StandbyInv

(***************************************************************************)
(* Values                                                                  *)
(***************************************************************************)
LEMMA Constants ==
  /\ Standby \in Hosts /\ MaxVersion \in Nat \ {0} /\ Bodies \subseteq Body
BY HostAssumption, BoundAssumption, ChoiceAssumption

LEMMA ValueTypes ==
  /\ NoSettings \in Settings /\ NoProbe \in [on: BOOLEAN, snap: Settings]
  /\ NoScript \in Script /\ NoScript.pc = "none"
  /\ NoSha \in Sha /\ Idle \in Work /\ Idle.pc = "idle"
  /\ NoTable \in [DB -> Saved] /\ \A d \in DB : NoTable[d].status = "ABSENT"
<1>1. NoSettings \in Settings
  BY DEF NoSettings, Settings, Mode
<1>2. NoProbe \in [on: BOOLEAN, snap: Settings]
  BY <1>1 DEF NoProbe
<1>3. NoScript \in Script /\ NoScript.pc = "none"
  <2>1. [d \in DB |-> 0] \in [DB -> Version \cup {0}]
    OBVIOUS
  <2> QED
    BY <2>1 DEF NoScript, Script, Pc, Mode, Slot
<1>4. NoSha \in Sha
  BY DEF NoSha, Sha, Mode
<1>5. Idle \in Work /\ Idle.pc = "idle"
  BY <1>4 DEF Idle, Work, Saved, StandbyStatus
<1>6. NoTable \in [DB -> Saved] /\ \A d \in DB : NoTable[d].status = "ABSENT"
  <2>1. [status |-> "ABSENT", sha |-> NoSha] \in Saved
    BY <1>4 DEF Saved, StandbyStatus
  <2> QED
    BY <2>1 DEF NoTable
<1> QED
  BY <1>1, <1>2, <1>3, <1>4, <1>5, <1>6

LEMMA VersionNat == /\ \A v \in Version : v \in Nat /\ v # 0
                    /\ Version \subseteq Version \cup {0}
BY Constants DEF Version

(***************************************************************************)
(* Settings                                                                *)
(***************************************************************************)
LEMMA Normalized ==
  ASSUME SettingsInv, NEW b \in Body
  PROVE  /\ NormalizeHaSyncSettings(b) \in Settings
         /\ NormalizeHaSyncSettings(b).at => NormalizeHaSyncSettings(b).vhost \in answered
<1>1. settings \in Settings
  BY DEF SettingsInv, SettingsType
<1> QED
  BY <1>1 DEF NormalizeHaSyncSettings, Settings, Body, SettingsInv, HostInv

LEMMA ValidatedType ==
  ASSUME SettingsInv, NEW p \in Prober
  PROVE  /\ Validated(p) \in Settings /\ Validated(p).vhost = Validated(p).host
         /\ Validated(p).at
<1>1. probe[p] \in [on: BOOLEAN, snap: Settings]
  BY DEF SettingsInv, SettingsType
<1>2. probe[p].snap \in Settings
  BY <1>1
<1> QED
  BY <1>2 DEF Validated, Settings

(* A test starts with settings that say nothing wrong. *)
LEMMA ProbeStarts ==
  ASSUME SettingsInv, NEW p \in Prober, NEW b, NormalizeHaSyncSettings(b) \in Settings,
         NormalizeHaSyncSettings(b).at => NormalizeHaSyncSettings(b).vhost \in answered,
         StartProbe(p, b), UNCHANGED <<settings, answered>>
  PROVE  SettingsInv'
<1> DEFINE n == NormalizeHaSyncSettings(b)
           q == [on |-> TRUE, snap |-> n]
<1>1. q \in [on: BOOLEAN, snap: Settings] /\ q.snap = n
  OBVIOUS
<1>2. probe' = [probe EXCEPT ![p] = q]
  BY DEF StartProbe
<1> HIDE DEF q, n
<1>3. /\ probe' \in [Prober -> [on: BOOLEAN, snap: Settings]] /\ probe'[p] = q
      /\ \A x \in Prober \ {p} : probe'[x] = probe[x]
  BY <1>1, <1>2 DEF SettingsInv, SettingsType
<1> QED
  BY <1>1, <1>3 DEF SettingsInv, SettingsType, HostInv, n

LEMMA ProbeStops ==
  ASSUME SettingsInv, NEW p \in Prober, ProbeEnds(p), settings' \in Settings,
         settings'.at => settings'.vhost \in answered', answered \subseteq answered'
  PROVE  SettingsInv'
<1>1. /\ probe' \in [Prober -> [on: BOOLEAN, snap: Settings]] /\ probe'[p] = NoProbe
      /\ \A x \in Prober \ {p} : probe'[x] = probe[x]
  BY ValueTypes DEF ProbeEnds, SettingsInv, SettingsType
<1>2. ~NoProbe.snap.at
  BY DEF NoProbe, NoSettings
<1> QED
  BY <1>1, <1>2 DEF SettingsInv, SettingsType, HostInv

(* The answer of a host. *)
LEMMA ProbeAnswers ==
  ASSUME SettingsInv, NEW p \in Prober, ProbeEnds(p), settings' = Validated(p),
         answered' = answered \cup {Validated(p).host}
  PROVE  SettingsInv'
BY ValidatedType, ProbeStops

LEMMA SettingsNext == SettingsInv /\ [Next]_vars => SettingsInv'
<1> SUFFICES ASSUME SettingsInv, [Next]_vars PROVE SettingsInv'
  OBVIOUS
<1> USE DEF Prober
<1>1. CASE UNCHANGED <<settings, probe, answered>>
  BY <1>1 DEF SettingsInv, SettingsType, HostInv
<1>2. ASSUME NEW b \in Bodies, WriteHaSyncSettings(b) PROVE SettingsInv'
  <2>1. settings' = NormalizeHaSyncSettings(b) /\ UNCHANGED <<probe, answered>>
    BY <1>2 DEF WriteHaSyncSettings
  <2>2. b \in Body
    BY Constants
  <2> QED
    BY <2>1, <2>2, Normalized DEF SettingsInv, SettingsType, HostInv
<1>3. ASSUME NEW b \in Bodies, PanelTestsSsh(b) PROVE SettingsInv'
  <2>1. b \in Body
    BY Constants
  <2>2. StartProbe("panel", b) /\ UNCHANGED <<settings, answered>>
    BY <1>3 DEF PanelTestsSsh
  <2> QED
    BY <2>1, <2>2, Normalized, ProbeStarts
<1>4. CASE PanelProbeAnswers
  BY <1>4, ProbeAnswers DEF PanelProbeAnswers
<1>5. ASSUME NEW p \in Prober, ProbeFails(p) PROVE SettingsInv'
  <2>1. ProbeEnds(p) /\ UNCHANGED <<settings, answered>>
    BY <1>5 DEF ProbeFails
  <2> QED
    BY <2>1, ProbeStops DEF SettingsInv, SettingsType, HostInv
<1>6. CASE SchedulerTick
  <2>1. CASE SshValidated(settings)
    BY <1>1, <1>6, <2>1 DEF SchedulerTick
  <2>2. CASE ~SshValidated(settings)
    <3>1. /\ StartProbe("scheduler", settings) /\ UNCHANGED <<settings, answered>>
          /\ settings.host # NoHost
      BY <1>6, <2>2 DEF SchedulerTick
    <3>2. /\ NormalizeHaSyncSettings(settings) \in Settings
          /\ NormalizeHaSyncSettings(settings).at
               => NormalizeHaSyncSettings(settings).vhost \in answered
      BY DEF NormalizeHaSyncSettings, Settings, SettingsInv, SettingsType, HostInv
    <3> QED
      BY <3>1, <3>2, ProbeStarts
  <2> QED
    BY <2>1, <2>2
<1>7. CASE SchedulerProbeAnswers
  BY <1>7, ProbeAnswers DEF SchedulerProbeAnswers
<1>8. CASE ServiceCrashes
  <2>1. probe' = [p \in Prober |-> NoProbe] /\ UNCHANGED <<settings, answered>>
    BY <1>8 DEF ServiceCrashes
  <2>2. ~NoProbe.snap.at
    BY DEF NoProbe, NoSettings
  <2> QED
    BY <2>1, <2>2, ValueTypes DEF SettingsInv, SettingsType, HostInv
<1>9. CASE \/ RunHaSync \/ PromoteChecks \/ (\E d \in DB : NewVersion(d)) \/ IntervalPasses
           \/ ScriptStep \/ ImportStep \/ PromoteStep \/ (\E s \in Slot : RestoreStep(s))
           \/ (\E d \in DB : LockExpires(d)) \/ StandbyCrashes \/ RoleChanges \/ UNCHANGED vars
  <2>1. UNCHANGED <<settings, probe, answered>>
    BY <1>9 DEF RunHaSync, PromoteChecks, NewVersion, IntervalPasses, ScriptStep, ScriptChecks,
      ScriptLists, ScriptAsksReady, ScriptImports, ScriptCopies, ScriptEnds, SyncCloses,
      ScriptLocksDb, RestoreRefused, RestoreSkipped, ScriptValidates, RestoreBegins, RestoreStep,
      ImportStep, ImportDrops, ImportLoads, ImportWritesBack, ImportFails,
      RestoreMoves, RestoreSucceeds, RestoreFails, RestoreFailsUnnoticed, PromoteStep,
      PromotionEnds, PromoteMoves, PromoteFails, LockExpires, StandbyCrashes, RoleChanges,
      vars, service
  <2> QED
    BY <1>1, <2>1
<1> QED
  BY <1>2, <1>3, <1>4, <1>5, <1>6, <1>7, <1>8, <1>9 DEF Next, Request, SchedulerStep

LEMMA SettingsInit == Init => SettingsInv
<1> SUFFICES ASSUME Init PROVE SettingsInv
  OBVIOUS
<1>1. PICK m \in Mode : settings = [NoSettings EXCEPT !.mode = m, !.host = Standby]
  BY DEF Init
<1>2. settings \in Settings /\ ~settings.at
  BY <1>1, Constants DEF NoSettings, Settings
<1>3. probe = [p \in Prober |-> NoProbe] /\ ~NoProbe.snap.at
  BY DEF Init, NoProbe, NoSettings
<1> QED
  BY <1>2, <1>3, ValueTypes DEF SettingsInv, SettingsType, HostInv

(* For any hosts, bodies and number of requests: the settings count as     *)
(* validated only for a host that answered testHaSyncSsh, however tests    *)
(* and changes overlap.                                                    *)
THEOREM HostSafety == Spec => []ValidatedHostAnswered
<1>1. SettingsInv => ValidatedHostAnswered
  BY DEF SettingsInv, HostInv, ValidatedHostAnswered, SshValidated
<1> QED
  BY <1>1, SettingsInit, SettingsNext, PTL DEF Spec

(***************************************************************************)
(* The script                                                              *)
(***************************************************************************)
LEMMA GotoOK ==
  ASSUME ScriptInv, NEW pc \in Pc, script' = [script EXCEPT !.pc = pc],
         pc \in Listed => script.pc \in Listed, UNCHANGED version
  PROVE  ScriptInv'
<1>1. script' \in Script /\ script'.pc = pc /\ script'.list = script.list
  BY DEF ScriptInv, Script
<1> QED
  BY <1>1 DEF ScriptInv

LEMMA ExitOK ==
  ASSUME ScriptInv, NEW pc \in Exit, script' = [script EXCEPT !.pc = pc], UNCHANGED version
  PROVE  ScriptInv'
BY GotoOK DEF Exit, Pc, Listed

LEMMA DoneOK ==
  ASSUME ScriptInv, NEW d, script.pc \in Listed, script' = Done(d), UNCHANGED version
  PROVE  ScriptInv'
<1>1. script' \in Script /\ script'.list = script.list
  BY DEF ScriptInv, Script, Done, Pc
<1> QED
  BY <1>1 DEF ScriptInv

LEMMA StartOK ==
  ASSUME ScriptInv, NEW c \in Settings, StartHaSync(c), UNCHANGED version
  PROVE  ScriptInv'
<1>1. c.mode \in Mode /\ c.host \in Hosts \cup {NoHost}
  BY DEF Settings
<1> DEFINE n == [NoScript EXCEPT !.pc = "check", !.mode = c.mode, !.host = c.host]
<1>2. n \in Script /\ n.pc = "check"
  BY <1>1, ValueTypes DEF Script, Pc
<1>3. script' = IF token THEN n ELSE script
  BY DEF StartHaSync
<1> HIDE DEF n
<1> QED
  BY <1>2, <1>3 DEF ScriptInv, Listed

LEMMA AnswerOK ==
  ASSUME ScriptInv, NEW s, NEW ok, Answer(s, ok), UNCHANGED version
  PROVE  ScriptInv'
<1>1. CASE script' = script
  BY <1>1 DEF ScriptInv
<1>2. CASE script.pc = "wait" /\ script' = Done(work[s].db)
  BY <1>2, DoneOK DEF Listed
<1>3. CASE script' = [script EXCEPT !.pc = "exit1"]
  BY <1>3, ExitOK DEF Exit
<1> QED
  BY <1>1, <1>2, <1>3 DEF Answer

(* The steps in which the script reads something, one by one. *)
LEMMA ReadsOK ==
  ASSUME ScriptInv,
         ScriptChecks \/ ScriptLists \/ ScriptAsksReady \/ (\E d \in DB : ScriptLocksDb(d))
  PROVE  ScriptInv'
<1>1. /\ UNCHANGED version /\ script \in Script /\ version \in [DB -> Version]
      /\ version \in [DB -> Version \cup {0}] /\ script.list \in [DB -> Version \cup {0}]
  BY DEF ScriptChecks, ScriptLists, ScriptAsksReady, ScriptLocksDb, primary, ScriptInv, Script
<1>2. CASE \E pc \in Exit : Goto(pc)
  BY <1>1, <1>2, ExitOK DEF Goto
<1>3. CASE \E d \in DB : script' = [script EXCEPT !.pc = "list", !.dump = {d}]
  <2>0. PICK d \in DB : script' = [script EXCEPT !.pc = "list", !.dump = {d}]
    BY <1>3
  <2>1. script' \in Script /\ script'.pc = "list"
    BY <1>1, <2>0 DEF Script, Pc
  <2> QED
    BY <1>1, <2>1 DEF ScriptInv, Listed
<1>4. CASE Goto("list") \/ (script.pc = "ready" /\ Goto("import"))
  BY <1>1, <1>4, GotoOK DEF Goto, Pc, Listed
<1>5. CASE script' = [script EXCEPT !.list = version, !.todo = DB,
                        !.pc = IF script.mode = "physical" THEN "import" ELSE "ready"]
  <2>1. script' \in Script /\ script'.list = version
    BY <1>1, <1>5 DEF Script, Pc
  <2> QED
    BY <1>1, <2>1 DEF ScriptInv
<1>6. CASE /\ script.pc = "ready"
           /\ script' = [script EXCEPT !.pc = "import", !.skip = {d \in DB : StandbyBackupReady(d)}]
  <2> DEFINE skip == {d \in DB : StandbyBackupReady(d)}
  <2>1. skip \subseteq DB
    OBVIOUS
  <2> HIDE DEF skip
  <2>2. script' \in Script /\ script'.list = script.list
    BY <1>1, <1>6, <2>1 DEF Script, Pc, skip
  <2> QED
    BY <1>1, <1>6, <2>2 DEF ScriptInv, Listed
<1>7. ASSUME NEW d \in DB, script.pc = "next", PhysicalLockDb(d) PROVE ScriptInv'
  <2> DEFINE list == [script.list EXCEPT ![d] = version[d]]
  <2>1. /\ list \in [DB -> Version \cup {0}]
        /\ \A e \in DB : list[e] = IF e = d THEN version[e] ELSE script.list[e]
    BY <1>1
  <2>2. script' = [script EXCEPT !.pc = "copy", !.cur = d, !.list = list]
    BY <1>7 DEF PhysicalLockDb
  <2> HIDE DEF list
  <2>3. script' \in Script /\ script'.list = list
    BY <1>1, <2>1, <2>2 DEF Script, Pc
  <2> QED
    BY <1>1, <1>7, <2>1, <2>3 DEF ScriptInv, Listed
<1> QED
  BY <1>2, <1>3, <1>4, <1>5, <1>6, <1>7 DEF ScriptChecks, ScriptLists, ScriptAsksReady,
     ScriptLocksDb, ScriptFails, Exit

LEMMA ScriptNext == ScriptInv /\ SettingsInv /\ [Next]_vars => ScriptInv'
<1> SUFFICES ASSUME ScriptInv, SettingsInv, [Next]_vars PROVE ScriptInv'
  OBVIOUS
<1>1. CASE UNCHANGED <<script, version>>
  BY <1>1 DEF ScriptInv
<1>2. CASE script' = NoScript /\ UNCHANGED version
  BY <1>2, ValueTypes DEF ScriptInv, Listed
<1>3. CASE RunHaSync \/ SchedulerTick \/ SchedulerProbeAnswers
  <2>1. settings \in Settings /\ Validated("scheduler") \in Settings
    BY ValidatedType DEF SettingsInv, SettingsType, Prober
  <2>2. UNCHANGED version
    BY <1>3 DEF RunHaSync, SchedulerTick, SchedulerProbeAnswers, primary
  <2>3. script' = script \/ StartHaSync(settings) \/ StartHaSync(Validated("scheduler"))
    BY <1>3 DEF RunHaSync, SchedulerTick, SchedulerProbeAnswers
  <2> QED
    BY <1>1, <2>1, <2>2, <2>3, StartOK
<1>4. ASSUME NEW d \in DB, NewVersion(d) PROVE ScriptInv'
  <2>1. /\ version[d] < MaxVersion /\ version' = [version EXCEPT ![d] = version[d] + 1]
        /\ script' = script /\ version \in [DB -> Version]
    BY <1>4 DEF NewVersion, ScriptInv
  <2>2. version[d] + 1 \in Version
    BY <2>1, Constants DEF Version
  <2> QED
    BY <2>1, <2>2 DEF ScriptInv
<1>5. CASE ServiceCrashes \/ SyncCloses
  BY <1>2, <1>5 DEF ServiceCrashes, SyncCloses, primary
<1>6. CASE ScriptImports
  BY <1>6, GotoOK DEF ScriptImports, Goto, primary, Pc, Listed
<1>7. CASE ImportStep
  <2>1. CASE ImportWritesBack
    <3>1. CASE script' = script
      BY <1>1, <2>1, <3>1 DEF ImportWritesBack, primary
    <3>2. CASE script.pc = "importing" /\ script' = [script EXCEPT !.pc = "next"]
      BY <2>1, <3>2, GotoOK DEF ImportWritesBack, primary, Pc, Listed
    <3> QED
      BY <2>1, <3>1, <3>2 DEF ImportWritesBack, ImportEnds
  <2>2. CASE ImportFails
    <3>1. CASE script' = script
      BY <1>1, <2>2, <3>1 DEF ImportFails, primary
    <3>2. CASE script' = [script EXCEPT !.pc = "exit1"]
      BY <2>2, <3>2, ExitOK DEF ImportFails, primary, Exit
    <3> QED
      BY <2>2, <3>1, <3>2 DEF ImportFails, ImportEnds
  <2> QED
    BY <1>1, <1>7, <2>1, <2>2 DEF ImportStep, ImportDrops, ImportLoads, primary
<1>8. CASE ScriptChecks \/ ScriptLists \/ ScriptAsksReady \/ (\E d \in DB : ScriptLocksDb(d))
  BY <1>8, ReadsOK
<1>9. CASE ScriptCopies \/ ScriptEnds \/ \E d \in DB : RestoreRefused(d) \/ RestoreSkipped(d)
  <2>1. UNCHANGED version
    BY <1>9 DEF ScriptCopies, ScriptEnds, RestoreRefused, RestoreSkipped, primary
  <2>2. CASE \E pc \in Exit : Goto(pc)
    BY <2>1, <2>2, ExitOK DEF Goto
  <2>3. CASE script.pc = "copy" /\ Goto("post")
    BY <2>1, <2>3, GotoOK DEF Goto, Pc, Listed
  <2>4. CASE \E d \in DB : script' = Done(d) /\ script.pc \in {"post", "next"}
    BY <2>1, <2>4, DoneOK DEF Listed
  <2> QED
    BY <1>9, <2>2, <2>3, <2>4 DEF ScriptCopies, ScriptEnds, RestoreRefused, RestoreSkipped,
       ScriptFails, Exit, Posting
<1>10. ASSUME NEW d \in DB, ScriptValidates(d) PROVE ScriptInv'
  <2>1. script.pc = "next" /\ (script' = Done(d) \/ Goto("exit1")) /\ UNCHANGED version
    BY <1>10 DEF ScriptValidates, primary
  <2> QED
    BY <2>1, DoneOK, ExitOK DEF Listed, Goto, Exit
<1>11. ASSUME NEW d \in DB, NEW s \in Slot, RestoreBegins(d, s) PROVE ScriptInv'
  <2>1. /\ script.pc \in Listed /\ UNCHANGED version /\ script \in Script
        /\ script' = [script EXCEPT !.pc = "wait", !.cur = d, !.slot = s]
    BY <1>11 DEF RestoreBegins, Posting, primary, ScriptInv, Listed
  <2>2. script' \in Script /\ script'.list = script.list
    BY <2>1 DEF Script, Pc
  <2> QED
    BY <2>1, <2>2 DEF ScriptInv
<1>12. ASSUME NEW s \in Slot, RestoreStep(s) PROVE ScriptInv'
  <2>1. UNCHANGED version
    BY <1>12 DEF RestoreStep, RestoreMoves, RestoreSucceeds, RestoreFails, RestoreFailsUnnoticed,
       primary
  <2>2. script' = script \/ \E ok \in BOOLEAN : Answer(s, ok)
    BY <1>12 DEF RestoreStep, RestoreMoves, RestoreSucceeds, RestoreFails, RestoreFailsUnnoticed
  <2> QED
    BY <1>1, <2>1, <2>2, AnswerOK
<1>13. CASE StandbyCrashes
  <2>1. UNCHANGED version /\ (script' = script \/ script' = [script EXCEPT !.pc = "exit1"])
    BY <1>13 DEF StandbyCrashes, primary
  <2> QED
    BY <1>1, <2>1, ExitOK DEF Exit
<1>14. CASE \/ \E b \in Bodies : WriteHaSyncSettings(b) \/ PanelTestsSsh(b)
            \/ PromoteChecks \/ PanelProbeAnswers \/ (\E p \in Prober : ProbeFails(p))
            \/ IntervalPasses \/ PromoteStep \/ (\E d \in DB : LockExpires(d)) \/ RoleChanges
            \/ UNCHANGED vars
  BY <1>1, <1>14 DEF WriteHaSyncSettings, PanelTestsSsh, PromoteChecks, PanelProbeAnswers,
     ProbeFails, IntervalPasses, PromoteStep, PromotionEnds, PromoteMoves, PromoteFails,
     LockExpires, RoleChanges, vars, primary
<1> QED
  BY <1>3, <1>4, <1>5, <1>6, <1>7, <1>8, <1>9, <1>10, <1>11, <1>12, <1>13, <1>14
  DEF Next, Request, SchedulerStep, ScriptStep, Prober

(***************************************************************************)
(* The standby                                                             *)
(***************************************************************************)
(* Nobody says anything new about d. *)
Frame(d) ==
  /\ row'[d] = row[d] /\ saved'[d] = saved[d] /\ file'[d] = file[d]
  /\ \A s \in Slot : Live(s)' /\ work'[s].db = d => work'[s] = work[s]

LEMMA GoodFrame ==
  ASSUME NEW d \in DB, Good(d), Frame(d)
  PROVE  Good(d)'
BY DEF Good, Frame, Right, Live

(* The row of d is not in the hands of a restore after the step. *)
LEMMA GoodQuiet ==
  ASSUME NEW d \in DB, Right(d, row[d])', Right(d, saved[d])', row'[d].lock \notin Slot
  PROVE  Good(d)'
BY DEF Good

LEMMA Untouched ==
  ASSUME StandbyInv, UNCHANGED <<row, saved, file, prod, work, doubt>>
  PROVE  StandbyInv'
<1>1. StandbyType'
  BY DEF StandbyInv, StandbyType
<1>2. ASSUME NEW d \in DB, Good(d) PROVE Good(d)'
  BY <1>2, GoodFrame DEF Frame
<1> QED
  BY <1>1, <1>2 DEF StandbyInv

(* A step that touches one database. *)
LEMMA OneDatabase ==
  ASSUME StandbyInv, NEW d \in DB, StandbyType',
         doubt' \cup {d} = doubt \cup {d},
         \A e \in DB \ {d} : Frame(e),
         d \in DB \ doubt' => Good(d)'
  PROVE  StandbyInv'
<1>1. ASSUME NEW e \in DB \ doubt', e # d PROVE Good(e)'
  <2>1. e \in DB \ doubt
    BY <1>1
  <2> QED
    BY <1>1, <2>1, GoodFrame DEF StandbyInv
<1> QED
  BY <1>1 DEF StandbyInv

LEMMA Fields ==
  ASSUME StandbyType
  PROVE  /\ \A d \in DB : row[d] \in Row /\ row[d].sha \in Sha /\ row[d].status \in StandbyStatus
         /\ \A s \in Slot : /\ work[s] \in Work /\ work[s].sha \in Sha
                             /\ work[s].prev \in Saved /\ work[s].prev.sha \in Sha
                             /\ work[s].prev.status \in StandbyStatus
<1>1. ASSUME NEW d \in DB
      PROVE  row[d] \in Row /\ row[d].sha \in Sha /\ row[d].status \in StandbyStatus
  <2>1. row[d] \in Row
    BY DEF StandbyType
  <2> QED
    BY <2>1 DEF Row
<1>2. ASSUME NEW s \in Slot
      PROVE  /\ work[s] \in Work /\ work[s].sha \in Sha /\ work[s].prev \in Saved
             /\ work[s].prev.sha \in Sha /\ work[s].prev.status \in StandbyStatus
  <2>1. work[s] \in Work
    BY DEF StandbyType
  <2>2. work[s].sha \in Sha /\ work[s].prev \in Saved
    BY <2>1 DEF Work
  <2> QED
    BY <2>1, <2>2 DEF Saved
<1> QED
  BY <1>1, <1>2

(* A change of the row of d. *)
LEMMA RowChange ==
  ASSUME StandbyType, NEW d \in DB, NEW r \in Row, row' = [row EXCEPT ![d] = r]
  PROVE  row' \in [DB -> Row] /\ row'[d] = r /\ \A e \in DB \ {d} : row'[e] = row[e]
BY DEF StandbyType

(***************************************************************************)
(* Restores                                                                *)
(***************************************************************************)
LEMMA BeginsInv ==
  ASSUME StandbyInv, ScriptInv, NEW d \in DB, NEW s \in Slot, RestoreBegins(d, s)
  PROVE  StandbyInv'
<1> DEFINE w == [pc |-> "run", db |-> d, sha |-> ListSha(d),
                 prev |-> [status |-> row[d].status, sha |-> row[d].sha]]
           r == [row[d] EXCEPT !.status = "RESTORING", !.lock = s]
<1>1. /\ StandbyType /\ script \in Script /\ script.list[d] \in Version /\ script.mode \in Mode
  BY DEF StandbyInv, ScriptInv, RestoreBegins, Posting, Listed, Script
<1>2. row[d] \in Row /\ row[d].sha \in Sha /\ row[d].status \in StandbyStatus
  BY <1>1, Fields
<1>3. /\ work[s].pc = "idle" /\ work' = [work EXCEPT ![s] = w]
      /\ UNCHANGED <<saved, file, prod, doubt>>
  BY DEF RestoreBegins, catalog
<1>4. row' = [row EXCEPT ![d] = r]
  BY <1>1, <1>2 DEF RestoreBegins, StandbyType
<1>5. /\ w \in Work /\ w.pc = "run" /\ w.db = d /\ w.sha.ver \in Version
      /\ w.prev.sha = row[d].sha /\ w.prev.status = row[d].status
  BY <1>1, <1>2 DEF Work, ListSha, Sha, Saved
<1>6. r \in Row /\ r.status = "RESTORING" /\ r.lock = s
  BY <1>2 DEF Row, StandbyStatus, Owner
<1> HIDE DEF w, r
<1>7. row' \in [DB -> Row] /\ row'[d] = r /\ \A e \in DB \ {d} : row'[e] = row[e]
  BY <1>1, <1>4, <1>6, RowChange
<1>8. work' \in [Slot -> Work] /\ work'[s] = w /\ \A t \in Slot \ {s} : work'[t] = work[t]
  BY <1>1, <1>3, <1>5 DEF StandbyType
<1>9. StandbyType'
  BY <1>1, <1>3, <1>5, <1>7, <1>8 DEF StandbyType
<1>10. \A e \in DB \ {d} : Frame(e)
  BY <1>3, <1>5, <1>7, <1>8 DEF Frame, Live
<1>11. ASSUME d \notin doubt' PROVE Good(d)'
  <2>1. Right(d, row[d]) /\ Right(d, saved[d])
    BY <1>3, <1>11 DEF StandbyInv, Good
  <2> QED
    BY <1>3, <1>5, <1>6, <1>7, <1>8, <2>1 DEF Good, Right
<1> QED
  BY <1>3, <1>9, <1>10, <1>11, OneDatabase

LEMMA MovesInv ==
  ASSUME StandbyInv, NEW s \in Slot, RestoreMoves(s)
  PROVE  StandbyInv'
<1>0. PICK d : d = work[s].db
  OBVIOUS
<1> DEFINE w == IF work[s].pc = "run" THEN [work[s] EXCEPT !.pc = "moved"] ELSE Idle
<1>1. /\ StandbyType /\ work[s].pc \in {"run", "orphan"} /\ d \in DB
      /\ work[s].sha.ver \in Version
  BY <1>0 DEF StandbyInv, StandbyType, RestoreMoves
<1>2. /\ file' = [file EXCEPT ![d] = work[s].sha.ver] /\ work' = [work EXCEPT ![s] = w]
      /\ Doubt(d, ~Restoring(s) \/ Kept(d)) /\ UNCHANGED <<row, saved, prod>>
  BY <1>0 DEF RestoreMoves, catalog
<1>3. /\ w \in Work
      /\ w.pc # "idle" => w.pc = "moved" /\ w.db = d /\ w.sha = work[s].sha
  BY <1>0, <1>1, Fields, ValueTypes DEF Work
<1> HIDE DEF w
<1>4. work' \in [Slot -> Work] /\ work'[s] = w /\ \A t \in Slot \ {s} : work'[t] = work[t]
  BY <1>1, <1>2, <1>3 DEF StandbyType
<1>5. /\ file' \in [DB -> Version \cup {0}] /\ file'[d] = work[s].sha.ver
      /\ \A e \in DB \ {d} : file'[e] = file[e]
  BY <1>1, <1>2 DEF StandbyType
<1>6. StandbyType'
  BY <1>1, <1>2, <1>3, <1>4, <1>5 DEF StandbyType
<1>7. \A e \in DB \ {d} : Frame(e)
  BY <1>2, <1>3, <1>4, <1>5 DEF Frame, Live
<1>8. ASSUME d \notin doubt' PROVE Good(d)'
  <2>1. row[d].lock = s /\ row[d].status = "RESTORING" /\ saved[d].status # "READY"
    BY <1>0, <1>2, <1>8 DEF Doubt, Restoring, Kept
  <2> QED
    BY <1>2, <1>3, <1>4, <1>5, <2>1 DEF Good, Right
<1> QED
  BY <1>1, <1>2, <1>6, <1>7, <1>8, OneDatabase DEF Doubt

(* A request ends and writes its row, if the lock is still its own. *)
LEMMA Released ==
  ASSUME StandbyInv, NEW s \in Slot, work[s].pc # "idle", NEW status \in StandbyStatus,
         NEW sha \in Sha, WorkEnds(s), ReleaseWith(s, status, sha),
         UNCHANGED <<saved, file, prod>>,
         doubt' \cup {work[s].db} = doubt \cup {work[s].db},
         ~Holds(s) => doubt \subseteq doubt',
         ASSUME work[s].db \notin doubt', Holds(s)
         PROVE  /\ status = "READY" => sha.ver = file[work[s].db]
                /\ Right(work[s].db, saved[work[s].db])
  PROVE  StandbyInv'
<1>0. PICK d : d = work[s].db
  OBVIOUS
<1>1. StandbyType /\ d \in DB
  BY <1>0 DEF StandbyInv, StandbyType
<1> DEFINE r == [status |-> status, sha |-> sha, lock |-> Free]
<1>2. r \in Row /\ r.status = status /\ r.sha = sha /\ r.lock = Free
  BY DEF Row, Owner
<1>3. IF Holds(s) THEN row' = [row EXCEPT ![d] = r] ELSE row' = row
  BY <1>0 DEF ReleaseWith
<1> HIDE DEF r
<1>4. /\ row' \in [DB -> Row] /\ \A e \in DB \ {d} : row'[e] = row[e]
      /\ row'[d] = IF Holds(s) THEN r ELSE row[d]
  BY <1>1, <1>2, <1>3, RowChange DEF StandbyType
<1>5. /\ work' \in [Slot -> Work] /\ work'[s] = Idle /\ Idle.pc = "idle"
      /\ \A t \in Slot \ {s} : work'[t] = work[t]
  BY <1>1, ValueTypes DEF WorkEnds, StandbyType
<1>6. StandbyType'
  BY <1>1, <1>4, <1>5 DEF StandbyType
<1>7. \A e \in DB \ {d} : Frame(e)
  BY <1>4, <1>5 DEF Frame, Live
<1>8. ASSUME d \notin doubt' PROVE Good(d)'
  <2>1. CASE Holds(s)
    <3>1. Right(d, row[d])' /\ Right(d, saved[d])'
      BY <1>0, <1>2, <1>4, <1>8, <2>1 DEF Right
    <3>2. row'[d].lock \notin Slot
      BY <1>2, <1>4, <2>1 DEF Free, Slot
    <3> QED
      BY <1>1, <3>1, <3>2, GoodQuiet
  <2>2. CASE ~Holds(s)
    <3>1. Good(d) /\ Frame(d)
      BY <1>1, <1>4, <1>5, <1>8, <2>2 DEF StandbyInv, Frame, Live
    <3> QED
      BY <1>1, <3>1, GoodFrame
  <2> QED
    BY <2>1, <2>2
<1> QED
  BY <1>0, <1>1, <1>6, <1>7, <1>8, OneDatabase

LEMMA SucceedsInv ==
  ASSUME StandbyInv, NEW s \in Slot, RestoreSucceeds(s)
  PROVE  StandbyInv'
<1>1. /\ StandbyType /\ work[s].pc = "moved" /\ work[s].sha \in Sha /\ work[s].db \in DB
      /\ "READY" \in StandbyStatus
  BY Fields DEF StandbyInv, StandbyType, RestoreSucceeds, StandbyStatus
<1>2. /\ ReleaseWith(s, "READY", work[s].sha) /\ WorkEnds(s) /\ UNCHANGED <<saved, file, prod>>
      /\ doubt' = IF Holds(s) /\ file[work[s].db] = work[s].sha.ver /\ ~Kept(work[s].db)
                  THEN doubt \ {work[s].db} ELSE doubt
  BY DEF RestoreSucceeds, catalog
<1>3. ASSUME work[s].db \notin doubt', Holds(s)
      PROVE  /\ work[s].sha.ver = file[work[s].db]
             /\ Right(work[s].db, saved[work[s].db])
  <2>1. CASE work[s].db \notin doubt
    BY <1>1, <1>3, <2>1 DEF StandbyInv, Good, Holds
  <2>2. CASE work[s].db \in doubt
    BY <1>2, <1>3, <2>2 DEF Kept, Right
  <2> QED
    BY <2>1, <2>2
<1> QED
  BY <1>1, <1>2, <1>3, Released

LEMMA FailsInv ==
  ASSUME StandbyInv, NEW s \in Slot, RestoreFails(s)
  PROVE  StandbyInv'
<1>1. StandbyType /\ work[s].pc \in {"run", "moved"} /\ work[s].db \in DB
  BY DEF StandbyInv, StandbyType, RestoreFails, Live
<1>2. /\ ReleaseWith(s, FailureData(s).status, FailureData(s).sha) /\ WorkEnds(s)
      /\ UNCHANGED <<saved, file, prod>>
      /\ Doubt(work[s].db, Holds(s) /\ work[s].pc = "moved" /\ work[s].prev.status = "READY")
  BY DEF RestoreFails, catalog
<1>3. /\ FailureData(s).status \in StandbyStatus /\ FailureData(s).sha \in Sha
      /\ FailureData(s).status = "READY"
           => work[s].prev.status = "READY" /\ FailureData(s).sha = work[s].prev.sha
  BY <1>1, Fields DEF FailureData, StandbyStatus
<1>4. ASSUME work[s].db \notin doubt', Holds(s)
      PROVE  /\ FailureData(s).status = "READY" => FailureData(s).sha.ver = file[work[s].db]
             /\ Right(work[s].db, saved[work[s].db])
  <2>1. /\ work[s].db \notin doubt
        /\ work[s].pc = "moved" => work[s].prev.status # "READY"
    BY <1>2, <1>4 DEF Doubt
  <2>2. /\ work[s].pc = "run" => Right(work[s].db, work[s].prev)
        /\ Right(work[s].db, saved[work[s].db])
    BY <1>1, <1>4, <2>1 DEF StandbyInv, Good, Holds
  <2> QED
    BY <1>1, <1>3, <2>1, <2>2 DEF Right
<1> QED
  BY <1>1, <1>2, <1>3, <1>4, Released DEF Doubt

LEMMA UnnoticedInv ==
  ASSUME StandbyInv, NEW s \in Slot, RestoreFailsUnnoticed(s)
  PROVE  StandbyInv'
<1>1. /\ StandbyType /\ work[s].pc = "run" /\ work[s].sha \in Sha /\ work[s].db \in DB
      /\ "READY" \in StandbyStatus
  BY Fields DEF StandbyInv, StandbyType, RestoreFailsUnnoticed, StandbyStatus
<1>2. /\ ReleaseWith(s, "READY", work[s].sha) /\ WorkEnds(s) /\ UNCHANGED <<saved, file, prod>>
      /\ Doubt(work[s].db, Holds(s))
  BY DEF RestoreFailsUnnoticed, catalog
<1>3. /\ doubt' \cup {work[s].db} = doubt \cup {work[s].db} /\ doubt \subseteq doubt'
      /\ ~(work[s].db \notin doubt' /\ Holds(s))
  BY <1>2 DEF Doubt
<1> QED
  BY <1>1, <1>2, <1>3, Released

(* A step that changes the row of d alone, and leaves its lock. *)
LEMMA RowInv ==
  ASSUME StandbyInv, NEW d \in DB, NEW r \in Row, row' = [row EXCEPT ![d] = r],
         r.lock \in {row[d].lock, Free}, UNCHANGED <<saved, file, prod, work>>,
         doubt \subseteq doubt', doubt' \subseteq doubt \cup {d},
         d \notin doubt' /\ Right(d, row[d]) => Right(d, r)
  PROVE  StandbyInv'
<1>1. StandbyType
  BY DEF StandbyInv
<1>2. row' \in [DB -> Row] /\ row'[d] = r /\ \A e \in DB \ {d} : row'[e] = row[e]
  BY <1>1, RowChange
<1>3. StandbyType' /\ \A e \in DB \ {d} : Frame(e)
  BY <1>1, <1>2 DEF StandbyType, Frame
<1>4. ASSUME d \notin doubt' PROVE Good(d)'
  <2>1. Good(d)
    BY <1>4 DEF StandbyInv
  <2> QED
    BY <1>2, <1>4, <2>1 DEF Good, Right, Free, Slot
<1>5. doubt' \cup {d} = doubt \cup {d}
  OBVIOUS
<1> QED
  BY <1>3, <1>4, <1>5, OneDatabase

LEMMA ValidatesInv ==
  ASSUME StandbyInv, ScriptInv, NEW d \in DB, ScriptValidates(d)
  PROVE  StandbyInv'
<1>1. StandbyType /\ row[d] \in Row /\ script \in Script
  BY Fields DEF StandbyInv, ScriptInv
<1>2. ListSha(d) \in Sha
  BY <1>1 DEF ListSha, Sha, Script
<1>3. UNCHANGED <<saved, file, prod, work>>
  BY DEF ScriptValidates, catalog
<1>4. CASE /\ row' = [row EXCEPT ![d].status = "READY", ![d].sha = ListSha(d)]
           /\ Doubt(d, row[d].status # "READY" \/ row[d].sha # ListSha(d))
  <2> DEFINE r == [row[d] EXCEPT !.status = "READY", !.sha = ListSha(d)]
  <2>1. row' = [row EXCEPT ![d] = r]
    BY <1>1, <1>4 DEF StandbyType
  <2>2. r \in Row /\ r.sha = ListSha(d) /\ r.lock = row[d].lock
    BY <1>1, <1>2 DEF Row, StandbyStatus
  <2> HIDE DEF r
  <2>3. d \notin doubt' /\ Right(d, row[d]) => Right(d, r)
    BY <1>4, <2>2 DEF Doubt, Right
  <2> QED
    BY <1>3, <1>4, <2>1, <2>2, <2>3, RowInv DEF Doubt
<1>5. CASE row' = [row EXCEPT ![d].status = "INVALID"] /\ UNCHANGED doubt
  <2> DEFINE r == [row[d] EXCEPT !.status = "INVALID"]
  <2>1. row' = [row EXCEPT ![d] = r]
    BY <1>1, <1>5 DEF StandbyType
  <2>2. r \in Row /\ r.status = "INVALID" /\ r.lock = row[d].lock
    BY <1>1 DEF Row, StandbyStatus
  <2> HIDE DEF r
  <2> QED
    BY <1>3, <1>5, <2>1, <2>2, RowInv DEF Right
<1> QED
  BY <1>4, <1>5 DEF ScriptValidates

LEMMA ExpiresInv ==
  ASSUME StandbyInv, NEW d \in DB, LockExpires(d)
  PROVE  StandbyInv'
<1> DEFINE r == [row[d] EXCEPT !.lock = Free]
<1>1. StandbyType /\ row[d] \in Row
  BY Fields DEF StandbyInv
<1>2. row' = [row EXCEPT ![d] = r] /\ UNCHANGED <<saved, file, prod, work, doubt>>
  BY <1>1 DEF LockExpires, catalog, StandbyType
<1>3. r \in Row /\ r.status = row[d].status /\ r.sha = row[d].sha /\ r.lock = Free
  BY <1>1 DEF Row, Owner
<1> HIDE DEF r
<1> QED
  BY <1>2, <1>3, RowInv DEF Right

(***************************************************************************)
(* Imports                                                                 *)
(***************************************************************************)
(* All rows or all copies change; the files stay. *)
LEMMA CatalogInv ==
  ASSUME StandbyInv, row' \in [DB -> Row], saved' \in [DB -> Saved],
         UNCHANGED <<file, prod, work, doubt>>,
         \A d \in DB : row'[d].lock \in {row[d].lock, Free, Other},
         \A d \in DB : row'[d].status = "READY"
                        => \E c \in {row[d], saved[d]} : c.status = "READY" /\ row'[d].sha = c.sha,
         \A d \in DB : saved'[d].status = "READY"
                        => \E c \in {row[d], saved[d]} : c.status = "READY" /\ saved'[d].sha = c.sha
  PROVE  StandbyInv'
<1>1. StandbyType'
  BY DEF StandbyInv, StandbyType
<1>2. ASSUME NEW d \in DB, Good(d) PROVE Good(d)'
  BY <1>2 DEF Good, Right, Free, Other, Slot
<1> QED
  BY <1>1, <1>2 DEF StandbyInv

LEMMA SavesInv ==
  ASSUME StandbyInv, ScriptImports
  PROVE  StandbyInv'
<1>1. StandbyType /\ UNCHANGED <<row, file, prod, work, doubt>>
  BY DEF StandbyInv, ScriptImports, standby
<1>2. CASE saved' \in {saved, NoTable}
  BY <1>1, <1>2, ValueTypes, CatalogInv DEF StandbyType
<1>3. CASE saved' = [d \in DB |-> [status |-> row[d].status, sha |-> row[d].sha]]
  <2>1. ASSUME NEW d \in DB
        PROVE  saved'[d] \in Saved /\ saved'[d].status = row[d].status /\ saved'[d].sha = row[d].sha
    BY <1>1, <1>3, Fields DEF Saved
  <2>2. saved' \in [DB -> Saved]
    BY <1>3, <2>1
  <2> QED
    BY <1>1, <2>1, <2>2, CatalogInv DEF StandbyType
<1> QED
  BY <1>2, <1>3 DEF ScriptImports

LEMMA ImportInv ==
  ASSUME StandbyInv, ImportDrops \/ ImportLoads \/ ImportWritesBack
  PROVE  StandbyInv'
<1>1. StandbyType /\ UNCHANGED <<file, prod, work, doubt>>
  BY DEF StandbyInv, ImportDrops, ImportLoads, ImportWritesBack
<1>2. CASE ImportDrops \/ ImportLoads
  <2>0. \/ row' = [d \in DB |-> [status |-> "ABSENT", sha |-> NoSha, lock |-> Free]]
        \/ row' = [d \in DB |-> Dumped(d)]
    BY <1>2 DEF ImportDrops, ImportLoads
  <2>1. ASSUME NEW d \in DB
        PROVE  row'[d] \in Row /\ row'[d].status # "READY" /\ row'[d].lock \in {Free, Other}
    <3>1. NoSha \in Sha
      BY ValueTypes
    <3> QED
      BY <2>0, <3>1 DEF Dumped, Row, StandbyStatus, Owner
  <2>2. row' \in [DB -> Row]
    BY <2>0, <2>1
  <2>3. saved' = saved
    BY <1>2 DEF ImportDrops, ImportLoads
  <2> QED
    BY <1>1, <2>1, <2>2, <2>3, CatalogInv DEF StandbyType
<1>3. CASE ImportWritesBack
  <2>1. row' = [d \in DB |-> WrittenBack(d)] /\ saved' = NoTable
    BY <1>3 DEF ImportWritesBack
  <2>2. ASSUME NEW d \in DB
        PROVE  /\ row'[d] \in Row /\ row'[d].lock = row[d].lock
               /\ row'[d].status = "READY"
                    => \E c \in {row[d], saved[d]} : c.status = "READY" /\ row'[d].sha = c.sha
    <3>1. row[d] \in Row /\ saved[d] \in Saved /\ row'[d] = WrittenBack(d)
      BY <1>1, <2>1 DEF StandbyType
    <3>2. CASE WrittenBack(d) = row[d]
      BY <3>1, <3>2
    <3>3. CASE WrittenBack(d) = [row[d] EXCEPT !.status = saved[d].status, !.sha = saved[d].sha]
      BY <3>1, <3>3 DEF Row, Saved
    <3> QED
      BY <3>2, <3>3 DEF WrittenBack
  <2>3. row' \in [DB -> Row]
    BY <2>1, <2>2
  <2> QED
    BY <1>1, <2>1, <2>2, <2>3, ValueTypes, CatalogInv
<1> QED
  BY <1>2, <1>3

(***************************************************************************)
(* Promotion and stops                                                     *)
(***************************************************************************)
LEMMA PromotesInv ==
  ASSUME StandbyInv, NEW d \in DB, PromoteMoves(d) \/ PromoteFails(d)
  PROVE  StandbyInv'
<1> DEFINE r == [row[d] EXCEPT !.status = "PROMOTED"]
<1>1. StandbyType /\ row[d] \in Row
  BY Fields DEF StandbyInv
<1>2. r \in Row /\ r.status = "PROMOTED" /\ r.lock = row[d].lock
  BY <1>1 DEF Row, StandbyStatus
<1>3. row' = [row EXCEPT ![d] = r] \/ row' = row
  BY <1>1 DEF PromoteMoves, PromoteFails, StandbyType
<1>4. PromoteMoves(d) /\ d \notin doubt' => row' = [row EXCEPT ![d] = r]
  BY <1>1 DEF PromoteMoves, Doubt, StandbyType
<1> HIDE DEF r
<1>5. CASE PromoteFails(d)
  <2>1. UNCHANGED <<saved, file, prod, work, doubt>>
    BY <1>5 DEF PromoteFails, catalog
  <2>2. CASE row' = row
    BY <2>1, <2>2, Untouched
  <2>3. CASE row' = [row EXCEPT ![d] = r]
    BY <1>2, <2>1, <2>3, RowInv DEF Right
  <2> QED
    BY <1>3, <2>2, <2>3
<1>6. CASE PromoteMoves(d)
  <2>1. /\ file' = [file EXCEPT ![d] = 0] /\ prod' = [prod EXCEPT ![d] = file[d]]
        /\ UNCHANGED <<saved, work>>
        /\ doubt' = doubt \/ doubt' = doubt \cup {d}
        /\ d \notin doubt' => ~NotReady(d) /\ ~Kept(d)
    BY <1>6 DEF PromoteMoves, Doubt, catalog
  <2>2. /\ row' \in [DB -> Row] /\ \A e \in DB \ {d} : row'[e] = row[e]
        /\ d \notin doubt' => row'[d] = r
    BY <1>1, <1>2, <1>3, <1>4, <1>6, RowChange DEF StandbyType
  <2>3. /\ file' \in [DB -> Version \cup {0}] /\ prod' \in [DB -> Version \cup {0}]
        /\ \A e \in DB \ {d} : file'[e] = file[e]
    BY <1>1, <2>1 DEF StandbyType
  <2>4. StandbyType' /\ \A e \in DB \ {d} : Frame(e)
    BY <1>1, <2>1, <2>2, <2>3 DEF StandbyType, Frame
  <2>5. ASSUME d \notin doubt' PROVE Good(d)'
    <3>1. row'[d].status = "PROMOTED" /\ row'[d].lock = Free /\ saved'[d].status # "READY"
      BY <1>2, <2>1, <2>2, <2>5 DEF NotReady, LockedOp, Kept
    <3> QED
      BY <3>1, GoodQuiet DEF Right, Free, Slot
  <2> QED
    BY <2>1, <2>4, <2>5, OneDatabase
<1> QED
  BY <1>5, <1>6

LEMMA CrashesInv ==
  ASSUME StandbyInv, StandbyCrashes
  PROVE  StandbyInv'
<1>1. StandbyType /\ UNCHANGED <<row, saved, file, prod, doubt>>
  BY DEF StandbyInv, StandbyCrashes, catalog
<1>2. PICK alive \in SUBSET {s \in Slot : work[s].pc \in {"run", "orphan"}} :
        work' = [s \in Slot |-> IF s \in alive THEN [work[s] EXCEPT !.pc = "orphan"] ELSE Idle]
  BY DEF StandbyCrashes
<1>3. ASSUME NEW s \in Slot
      PROVE  /\ work'[s] \in Work /\ work'[s].pc \in {"orphan", "idle"}
             /\ work'[s].pc # "idle" => /\ work[s].pc # "idle" /\ work'[s].db = work[s].db
                                        /\ work'[s].sha = work[s].sha
  <2>1. work[s] \in Work
    BY <1>1, Fields
  <2>2. CASE s \in alive
    <3>1. work'[s] = [work[s] EXCEPT !.pc = "orphan"] /\ work[s].pc # "idle"
      BY <1>2, <2>2
    <3> QED
      BY <2>1, <3>1 DEF Work
  <2>3. CASE s \notin alive
    BY <1>2, <2>3, ValueTypes
  <2> QED
    BY <2>2, <2>3
<1>4. work' \in [Slot -> Work]
  BY <1>2, <1>3
<1>5. StandbyType'
  BY <1>1, <1>3, <1>4 DEF StandbyType
<1>6. ASSUME NEW d \in DB, Good(d) PROVE Good(d)'
  <2>1. Frame(d)
    BY <1>1, <1>3 DEF Frame, Live
  <2> QED
    BY <1>6, <2>1, GoodFrame
<1> QED
  BY <1>1, <1>5, <1>6 DEF StandbyInv

(***************************************************************************)
(* The invariant                                                           *)
(***************************************************************************)
LEMMA SyncInit == Init => SyncInv
<1> SUFFICES ASSUME Init PROVE SyncInv
  OBVIOUS
<1>1. /\ script = NoScript /\ version = [d \in DB |-> 1]
      /\ row = [d \in DB |-> [status |-> "DISABLED", sha |-> NoSha, lock |-> Free]]
      /\ saved = NoTable
      /\ file = [d \in DB |-> 0] /\ work = [s \in Slot |-> Idle] /\ prod = [d \in DB |-> 0]
  BY DEF Init
<1>2. 1 \in Version
  BY Constants DEF Version
<1>3. ScriptInv
  BY <1>1, <1>2, ValueTypes DEF ScriptInv, Listed
<1>4. [status |-> "DISABLED", sha |-> NoSha, lock |-> Free] \in Row
  BY ValueTypes DEF Row, StandbyStatus, Owner
<1>5. StandbyType
  BY <1>1, <1>4, ValueTypes DEF StandbyType
<1>6. ASSUME NEW d \in DB PROVE Good(d)
  <2>1. row[d].status = "DISABLED" /\ saved[d].status = "ABSENT" /\ row[d].lock = Free
    BY <1>1, <1>6, ValueTypes
  <2> QED
    BY <2>1 DEF Good, Right, Free, Slot
<1> QED
  BY <1>3, <1>5, <1>6, SettingsInit DEF SyncInv, StandbyInv

LEMMA StandbyNext == StandbyInv /\ ScriptInv /\ [Next]_vars => StandbyInv'
<1> SUFFICES ASSUME StandbyInv, ScriptInv, [Next]_vars PROVE StandbyInv'
  OBVIOUS
<1>1. CASE \/ Request \/ PanelProbeAnswers \/ ProbeFails("panel") \/ SchedulerStep
           \/ IntervalPasses \/ ServiceCrashes \/ RoleChanges \/ PromotionEnds \/ ImportFails
           \/ UNCHANGED vars
  <2>1. UNCHANGED <<row, saved, file, prod, work, doubt>>
    BY <1>1 DEF Request, WriteHaSyncSettings, PanelTestsSsh, RunHaSync, PromoteChecks, NewVersion,
       PanelProbeAnswers, ProbeFails, SchedulerStep, SchedulerTick, SchedulerProbeAnswers,
       IntervalPasses, ServiceCrashes, RoleChanges, PromotionEnds, ImportFails, vars, standby,
       catalog
  <2> QED
    BY <2>1, Untouched
<1>2. CASE \/ ScriptChecks \/ ScriptLists \/ ScriptAsksReady \/ ScriptCopies \/ ScriptEnds
           \/ SyncCloses
           \/ \E d \in DB : ScriptLocksDb(d) \/ RestoreRefused(d) \/ RestoreSkipped(d)
  <2>1. UNCHANGED <<row, saved, file, prod, work, doubt>>
    BY <1>2 DEF ScriptChecks, ScriptLists, ScriptAsksReady, ScriptCopies, ScriptEnds, SyncCloses,
       ScriptLocksDb, RestoreRefused, RestoreSkipped, standby, catalog
  <2> QED
    BY <2>1, Untouched
<1>3. CASE ScriptStep
  BY <1>2, <1>3, SavesInv, ValidatesInv, BeginsInv DEF ScriptStep
<1>4. CASE ImportStep
  BY <1>1, <1>4, ImportInv DEF ImportStep
<1>5. CASE PromoteStep
  BY <1>1, <1>5, PromotesInv DEF PromoteStep
<1>6. CASE \E s \in Slot : RestoreStep(s)
  BY <1>6, MovesInv, SucceedsInv, FailsInv, UnnoticedInv DEF RestoreStep
<1>7. CASE (\E d \in DB : LockExpires(d)) \/ StandbyCrashes
  BY <1>7, ExpiresInv, CrashesInv
<1> QED
  BY <1>1, <1>3, <1>4, <1>5, <1>6, <1>7 DEF Next

(* For any databases, versions, requests and faults: the row of a database *)
(* that is not in doubt, the copy of it that an import holds and the       *)
(* restore that holds its lock say READY only of the version in the file.  *)
THEOREM SyncInvariant == Spec => []SyncInv
<1>1. SyncInv /\ [Next]_vars => SyncInv'
  BY SettingsNext, ScriptNext, StandbyNext DEF SyncInv
<1> QED
  BY <1>1, SyncInit, PTL DEF Spec

(* For any instance: a row of the standby that is READY names the version  *)
(* that is in the standby file (ReadyIsFile), over imports in three steps, *)
(* promotions and restores that meet them, crashes and expired locks.      *)
THEOREM ReadySafety == Spec => []ReadyIsFile
<1>1. SyncInv => ReadyIsFile
  BY DEF SyncInv, StandbyInv, Good, Right, ReadyIsFile
<1> QED
  BY <1>1, SyncInvariant, PTL

(***************************************************************************)
(* The promise                                                             *)
(***************************************************************************)
LEMMA OfferedValue ==
  ASSUME NEW d \in DB
  PROVE  /\ Offered[d] = IF row[d].status = "READY" THEN row[d].sha.ver ELSE 0
         /\ Offered'[d] = IF row'[d].status = "READY" THEN row'[d].sha.ver ELSE 0
BY DEF Offered

(* As long as a file stays, what is offered is the file or nothing. *)
LEMMA FileStays ==
  ASSUME StandbyInv', NEW d \in DB \ doubt', file'[d] = file[d], prod'[d] = prod[d]
  PROVE  Promise!Withdraw(d) \/ Promise!Offer(d)
<1>1. row'[d].status = "READY" => row'[d].sha.ver = file[d]
  BY DEF StandbyInv, Good, Right
<1> QED
  BY <1>1, OfferedValue DEF Promise!Withdraw, Promise!Offer, Promise!SameFile

LEMMA FilesStay ==
  ASSUME StandbyInv', UNCHANGED <<file, prod>>, doubt \subseteq doubt'
  PROVE  Promise!Next
BY FileStays DEF Promise!Next

LEMMA MovesStep ==
  ASSUME StandbyInv, StandbyInv', NEW s \in Slot, RestoreMoves(s)
  PROVE  Promise!Next
<1>0. PICK d : d = work[s].db
  OBVIOUS
<1>1. d \in DB /\ work[s].sha.ver \in Version /\ file \in [DB -> Version \cup {0}]
  BY <1>0 DEF StandbyInv, StandbyType, RestoreMoves
<1>2. /\ file' = [file EXCEPT ![d] = work[s].sha.ver] /\ UNCHANGED <<row, prod>>
      /\ Doubt(d, ~Restoring(s) \/ Kept(d))
  BY <1>0 DEF RestoreMoves
<1>3. ASSUME d \notin doubt' PROVE Promise!Replace(d)
  <2>1. row[d].status = "RESTORING" /\ row'[d].status = "RESTORING"
    BY <1>0, <1>2, <1>3 DEF Doubt, Restoring
  <2> QED
    BY <1>1, <1>2, <2>1, OfferedValue DEF Promise!Replace
<1>4. \A e \in DB \ doubt' : e # d => Promise!Withdraw(e) \/ Promise!Offer(e)
  BY <1>1, <1>2, FileStays
<1> QED
  BY <1>2, <1>3, <1>4 DEF Promise!Next, Doubt

LEMMA PromotesStep ==
  ASSUME StandbyInv, StandbyInv', NEW d \in DB, PromoteMoves(d)
  PROVE  Promise!Next
<1>1. file \in [DB -> Version \cup {0}] /\ prod \in [DB -> Version \cup {0}]
  BY DEF StandbyInv, StandbyType
<1>2. /\ file' = [file EXCEPT ![d] = 0] /\ prod' = [prod EXCEPT ![d] = file[d]] /\ file[d] # 0
      /\ doubt \subseteq doubt'
  BY DEF PromoteMoves, Doubt
<1>3. ASSUME d \notin doubt' PROVE Promise!Promote(d)
  <2>1. row[d].status = "READY" /\ row'[d].status = "PROMOTED"
    <3>1. row[d] \in Row /\ row \in [DB -> Row]
      BY DEF StandbyInv, StandbyType
    <3> QED
      BY <1>3, <3>1 DEF PromoteMoves, Doubt, NotReady, Row
  <2>2. row[d].sha.ver = file[d]
    BY <1>2, <1>3, <2>1 DEF StandbyInv, Good, Right
  <2> QED
    BY <1>1, <1>2, <2>1, <2>2, OfferedValue DEF Promise!Promote
<1>4. \A e \in DB \ doubt' : e # d => Promise!Withdraw(e) \/ Promise!Offer(e)
  BY <1>1, <1>2, FileStays
<1> QED
  BY <1>2, <1>3, <1>4 DEF Promise!Next

LEMMA SucceedsStep ==
  ASSUME StandbyInv, StandbyInv', NEW s \in Slot, RestoreSucceeds(s)
  PROVE  Promise!Next
<1>0. PICK d : d = work[s].db
  OBVIOUS
<1>1. /\ d \in DB /\ work[s].sha.ver \in Version /\ row \in [DB -> Row]
  BY <1>0 DEF StandbyInv, StandbyType, RestoreSucceeds
<1>2. UNCHANGED <<file, prod>>
  BY DEF RestoreSucceeds
<1>3. \A e \in DB \ doubt' : Promise!Withdraw(e) \/ Promise!Offer(e)
  BY <1>2, FileStays
<1>4. ASSUME NEW e \in DB \ doubt', e \in doubt PROVE Promise!Offer(e)
  <2>1. e = d /\ Holds(s) /\ file[d] = work[s].sha.ver
    BY <1>0, <1>4 DEF RestoreSucceeds
  <2>2. row'[d].status = "READY" /\ row'[d].sha = work[s].sha
    BY <1>0, <1>1, <2>1 DEF RestoreSucceeds, ReleaseWith
  <2>3. file[d] # 0
    BY <1>1, <2>1, VersionNat
  <2> QED
    BY <1>1, <1>2, <2>1, <2>2, <2>3, OfferedValue DEF Promise!Offer, Promise!SameFile
<1> QED
  BY <1>3, <1>4 DEF Promise!Next

LEMMA PromiseStep ==
  ASSUME StandbyInv, StandbyInv', [Next]_vars
  PROVE  Promise!Next
<1>1. CASE UNCHANGED <<file, prod>> /\ doubt \subseteq doubt'
  BY <1>1, FilesStay
<1>2. CASE \/ Request \/ PanelProbeAnswers \/ ProbeFails("panel") \/ SchedulerStep
           \/ IntervalPasses \/ ServiceCrashes \/ RoleChanges \/ StandbyCrashes \/ ImportStep
           \/ (\E d \in DB : LockExpires(d)) \/ UNCHANGED vars
  BY <1>1, <1>2 DEF Request, WriteHaSyncSettings, PanelTestsSsh, RunHaSync, PromoteChecks,
     NewVersion, PanelProbeAnswers, ProbeFails, SchedulerStep, SchedulerTick,
     SchedulerProbeAnswers, IntervalPasses, ServiceCrashes, RoleChanges, StandbyCrashes,
     ImportStep, ImportDrops, ImportLoads, ImportWritesBack, ImportFails, LockExpires, vars,
     standby
<1>3. CASE ScriptStep
  BY <1>1, <1>3 DEF ScriptStep, ScriptChecks, ScriptLists, ScriptAsksReady, ScriptImports,
     ScriptCopies, ScriptEnds, SyncCloses, ScriptLocksDb, RestoreRefused, RestoreSkipped,
     ScriptValidates, RestoreBegins, Doubt, standby
<1>4. CASE PromoteStep
  BY <1>1, <1>4, PromotesStep DEF PromoteStep, PromotionEnds, PromoteFails
<1>5. ASSUME NEW s \in Slot, RestoreStep(s) PROVE Promise!Next
  BY <1>1, <1>5, MovesStep, SucceedsStep DEF RestoreStep, RestoreFails, RestoreFailsUnnoticed,
     Doubt
<1> QED
  BY <1>2, <1>3, <1>4, <1>5 DEF Next

LEMMA PromiseInit == Init => Promise!Init
<1> SUFFICES ASSUME Init PROVE Promise!Init
  OBVIOUS
<1>1. /\ row = [d \in DB |-> [status |-> "DISABLED", sha |-> NoSha, lock |-> Free]]
      /\ file = [d \in DB |-> 0] /\ prod = [d \in DB |-> 0] /\ doubt = {}
  BY DEF Init
<1>2. Offered = [d \in DB |-> 0]
  BY <1>1 DEF Offered
<1> QED
  BY <1>1, <1>2 DEF Promise!Init, Promise!Nothing

(* For any instance: restore, validation, the three steps of an import,    *)
(* promotion, crashes and expired locks implement the promise of           *)
(* StandbyDatabase (KeepsPromise).                                         *)
THEOREM PromiseKept == Spec => KeepsPromise
<1>1. SyncInv /\ SyncInv' /\ [Next]_vars => [Promise!Next]_(Promise!svars)
  BY PromiseStep DEF SyncInv
<1> QED
  BY <1>1, PromiseInit, SyncInvariant, PTL DEF Spec, KeepsPromise, Promise!Spec
=============================================================================
