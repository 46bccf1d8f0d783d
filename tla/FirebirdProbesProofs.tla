------------------------ MODULE FirebirdProbesProofs ------------------------
(***************************************************************************)
(* Proofs about FirebirdProbes, for any number of databases, probes of the *)
(* worker, readers and events: one monitor script at a time, and nobody    *)
(* waits for a script that does not run.                                   *)
(***************************************************************************)
EXTENDS FirebirdProbes, TLAPS

(* What the gate, the requests and the readers are; the rows of the alerts *)
(* have no part in the argument.                                           *)
CoreType ==
  /\ health \in [Db -> SUBSET Kind]
  /\ script \in [Key -> Script] /\ active \in Key \cup {None}
  /\ answers \in [Key -> Entry] /\ slow \in 0..2
  /\ req \in [Key -> Request] /\ entry \in [Db -> Entry]
  /\ reader \in [Reader -> Readers]

(* A reader that is not idle reads a database and has alerts to write. *)
ReaderOK == \A r \in Reader : reader[r].pc # "idle" => reader[r].db \in Db /\ reader[r].left # <<>>

ProbeInv == CoreType /\ ReaderOK /\ OneProbe /\ WaitsForScript

(***************************************************************************)
(* Values                                                                  *)
(***************************************************************************)
LEMMA KeyFacts == /\ \A d \in Db : d \in Key /\ d \notin WKey
                  /\ \A k \in WKey : k \in Key /\ k \notin Db
                  /\ None \notin Key
BY ProbeAssumption DEF Key

LEMMA ValueTypes ==
  /\ NoScript \in Script /\ NoScript.pc = "none"
  /\ NoRequest \in Request /\ NoRequest.pc = "none"
  /\ NoEntry \in Entry
  /\ NoReader \in Readers /\ NoReader.pc = "idle"
BY DEF NoScript, Script, NoRequest, Request, NoEntry, Entry, NoReader, Readers

LEMMA NewRequest ==
  /\ \A pc \in {"wait", "failed"} : /\ [NoRequest EXCEPT !.pc = pc] \in Request
                                    /\ [NoRequest EXCEPT !.pc = pc].pc = pc
  /\ \A v \in SUBSET Kind : /\ [NoRequest EXCEPT !.pc = "ok", !.value = v] \in Request
                            /\ [NoRequest EXCEPT !.pc = "ok", !.value = v].pc = "ok"
<1>1. NoRequest \in Request
  BY ValueTypes
<1> QED
  BY <1>1 DEF Request

LEMMA NewScript ==
  [NoScript EXCEPT !.pc = "queued"] \in Script /\ [NoScript EXCEPT !.pc = "queued"].pc = "queued"
<1>1. NoScript \in Script
  BY ValueTypes
<1> QED
  BY <1>1 DEF Script

(* What a request is answered at once. *)
LEMMA GateAnswers ==
  ASSUME CoreType, NEW k \in Key
  PROVE  /\ GateAnswer(k) \in Request
         /\ answers[k].age = "fresh" => GateAnswer(k).pc = "ok"
         /\ answers[k].age # "fresh" /\ active # None /\ active # k => GateAnswer(k).pc = "failed"
         /\ answers[k].age # "fresh" /\ (active = None \/ active = k) => GateAnswer(k).pc = "wait"
<1>1. answers[k].value \in SUBSET Kind
  BY DEF CoreType, Entry
<1> QED
  BY <1>1, NewRequest DEF GateAnswer, Busy

(* What a reader gets from a load that ended: it no longer waits. *)
LEMMA Resolves ==
  ASSUME NEW s \in Readers, NEW q \in Request, NEW e \in Entry
  PROVE  /\ Resolve(s, q, e) \in Readers
         /\ Resolve(s, q, e).pc # "wait"
         /\ Resolve(s, q, e).pc # "idle" => Resolve(s, q, e).db = s.db /\ Resolve(s, q, e).left = s.left
<1>1. ASSUME NEW v \in SUBSET Kind
      PROVE  /\ [s EXCEPT !.pc = "find", !.value = v] \in Readers
             /\ [s EXCEPT !.pc = "find", !.value = v].pc = "find"
             /\ [s EXCEPT !.pc = "find", !.value = v].db = s.db
             /\ [s EXCEPT !.pc = "find", !.value = v].left = s.left
  BY DEF Readers
<1>2. q.value \in SUBSET Kind /\ e.value \in SUBSET Kind
  BY DEF Request, Entry
<1> QED
  BY <1>1, <1>2, ValueTypes DEF Resolve

(* The next kind of alert, or the end. *)
LEMMA Advances ==
  ASSUME NEW s \in Readers, s.left # <<>>
  PROVE  /\ Advance(s) \in Readers /\ Advance(s).pc # "wait"
         /\ Advance(s).pc # "idle" => Advance(s).db = s.db /\ Advance(s).left # <<>>
<1>1. ASSUME NEW left \in {All, <<"gap">>, <<>>}
      PROVE  /\ [s EXCEPT !.pc = "find", !.left = left] \in Readers
             /\ [s EXCEPT !.pc = "find", !.left = left].pc = "find"
             /\ [s EXCEPT !.pc = "find", !.left = left].db = s.db
             /\ [s EXCEPT !.pc = "find", !.left = left].left = left
  BY DEF Readers
<1>2. CASE s.left = All
  <2>1. Len(s.left) = 2 /\ Tail(s.left) = <<"gap">> /\ <<"gap">> # <<>>
    BY <1>2 DEF All
  <2>2. Tail(s.left) \in {All, <<"gap">>, <<>>}
    BY <2>1
  <2>3. /\ [s EXCEPT !.pc = "find", !.left = Tail(s.left)] \in Readers
        /\ [s EXCEPT !.pc = "find", !.left = Tail(s.left)].pc = "find"
        /\ [s EXCEPT !.pc = "find", !.left = Tail(s.left)].db = s.db
        /\ [s EXCEPT !.pc = "find", !.left = Tail(s.left)].left = Tail(s.left)
    BY <1>1, <2>2, Zenon
  <2>4. Advance(s) = [s EXCEPT !.pc = "find", !.left = Tail(s.left)]
    BY <2>1 DEF Advance
  <2> QED
    BY <2>1, <2>3, <2>4
<1>3. CASE s.left = <<"gap">>
  <2>1. Len(s.left) = 1
    BY <1>3
  <2> QED
    BY <2>1, ValueTypes DEF Advance
<1> QED
  BY <1>2, <1>3 DEF Readers

(***************************************************************************)
(* The gate                                                                *)
(***************************************************************************)
(* No script runs when the gate is free, and only its own otherwise. *)
LEMMA OneScript ==
  ASSUME ProbeInv, NEW k \in Key, script[k].pc # "none"
  PROVE  active = k /\ \A j \in Key \ {k} : script[j].pc = "none"
BY DEF ProbeInv, OneProbe

(* A request of the backend or of the worker goes to the gate. *)
LEMMA GateAdmits ==
  ASSUME ProbeInv, NEW k \in Key, req[k].pc = "none", ~Deferred(k), MonitorGate(k)
  PROVE  /\ script' \in [Key -> Script] /\ active' \in Key \cup {None} /\ req' \in [Key -> Request]
         /\ OneProbe'
         /\ \A j \in Key : req'[j].pc = "wait" => script'[j].pc # "none"
         /\ req'[k].pc # "none" /\ \A j \in Key \ {k} : req'[j] = req[j]
<1>1. CoreType /\ OneProbe /\ (\A j \in Key : req[j].pc = "wait" => script[j].pc # "none")
  BY DEF ProbeInv, WaitsForScript
<1>2. /\ GateAnswer(k) \in Request /\ GateAnswer(k).pc \in {"ok", "wait"}
      /\ answers[k].age = "fresh" => GateAnswer(k).pc = "ok"
      /\ answers[k].age # "fresh" => active = None \/ active = k
  BY <1>1, GateAnswers DEF Deferred
<1>3. /\ req' \in [Key -> Request] /\ req'[k] = GateAnswer(k)
      /\ \A j \in Key \ {k} : req'[j] = req[j]
  BY <1>1, <1>2 DEF MonitorGate, CoreType
<1>4. CASE GateExecutes(k)
  <2>1. active = None /\ active' = k /\ script' = [script EXCEPT ![k] = [NoScript EXCEPT !.pc = "queued"]]
    BY <1>4 DEF GateExecutes, Busy, MonitorGate
  <2>2. \A j \in Key : script[j].pc = "none"
    BY <1>1, <2>1, KeyFacts DEF OneProbe
  <2>3. /\ script' \in [Key -> Script] /\ script'[k].pc = "queued"
        /\ \A j \in Key \ {k} : script'[j] = script[j]
    BY <1>1, <2>1, NewScript DEF CoreType
  <2> QED
    BY <1>1, <1>2, <1>3, <2>1, <2>2, <2>3 DEF OneProbe
<1>5. CASE ~GateExecutes(k)
  <2>1. active' = active /\ script' = script
    BY <1>5 DEF MonitorGate
  <2>2. GateAnswer(k).pc = "wait" => active = k
    BY <1>2, <1>5 DEF GateExecutes, Busy
  <2>3. GateAnswer(k).pc = "wait" => script[k].pc # "none"
    BY <1>1, <2>2, KeyFacts DEF OneProbe
  <2> QED
    BY <1>1, <1>2, <1>3, <2>1, <2>3 DEF OneProbe, CoreType
<1> QED
  BY <1>4, <1>5

(* A script goes: whoever waited for it is answered, and the gate is free. *)
LEMMA GateFrees ==
  ASSUME ProbeInv, NEW k \in Key, script[k].pc # "none",
         script' = [script EXCEPT ![k] = NoScript], Frees(k), req' \in [Key -> Request],
         req[k].pc # "wait" => req' = req,
         req[k].pc = "wait" => req'[k].pc \in {"ok", "failed"},
         \A j \in Key \ {k} : req'[j] = req[j],
         reader' = reader
  PROVE  script' \in [Key -> Script] /\ active' \in Key \cup {None} /\ OneProbe' /\ WaitsForScript'
<1>1. CoreType /\ WaitsForScript /\ ReaderOK
  BY DEF ProbeInv
<1>2. active' = None /\ \A j \in Key \ {k} : script[j].pc = "none"
  BY OneScript DEF Frees
<1>3. /\ script' \in [Key -> Script] /\ script'[k].pc = "none"
      /\ \A j \in Key \ {k} : script'[j] = script[j]
  BY <1>1, ValueTypes DEF CoreType
<1>4. \A j \in Key : script'[j].pc = "none"
  BY <1>2, <1>3
<1>5. OneProbe'
  BY <1>2, <1>4 DEF OneProbe
<1>6. \A j \in Key : req'[j].pc # "wait"
  BY <1>1, <1>2 DEF WaitsForScript
<1>7. ASSUME NEW r \in Reader, reader'[r].pc = "wait"
      PROVE  req'[reader'[r].db].pc # "none"
  <2>1. reader[r].db \in Key /\ req[reader[r].db].pc # "none"
    BY <1>1, <1>7, KeyFacts DEF ReaderOK, WaitsForScript
  <2> QED
    BY <2>1
<1> QED
  BY <1>2, <1>3, <1>5, <1>6, <1>7 DEF WaitsForScript

LEMMA GateCompletesInv ==
  ASSUME ProbeInv, NEW k \in Key, script[k].pc # "none", NEW ok \in BOOLEAN,
         NEW isSlow \in BOOLEAN, NEW deferred \in BOOLEAN, GateCompletes(k, ok, isSlow, deferred),
         UNCHANGED <<health, entry, reader>>
  PROVE  ProbeInv'
<1>1. CoreType /\ ReaderOK
  BY DEF ProbeInv
<1>2. slow' \in 0..2
  BY <1>1 DEF GateCompletes, SlowFailures, CoreType
<1>3. script[k].value \in SUBSET Kind
  BY <1>1 DEF CoreType, Script
<1>4. answers' \in [Key -> Entry]
  <2>1. [age |-> "fresh", value |-> script[k].value] \in Entry
    BY <1>3 DEF Entry
  <2> QED
    BY <1>1, <2>1 DEF GateCompletes, CoreType
<1>5. /\ req' \in [Key -> Request]
      /\ req[k].pc # "wait" => req' = req
      /\ req[k].pc = "wait" => req'[k].pc \in {"ok", "failed"}
      /\ \A j \in Key \ {k} : req'[j] = req[j]
  <2> DEFINE q == [pc |-> IF ok THEN "ok" ELSE "failed",
                   value |-> IF ok THEN script[k].value ELSE {}, slow |-> slow']
  <2>1. q \in Request /\ q.pc \in {"ok", "failed"}
    BY <1>2, <1>3 DEF Request
  <2>2. req' = IF req[k].pc # "wait" THEN req ELSE [req EXCEPT ![k] = q]
    BY DEF GateCompletes
  <2> QED
    BY <1>1, <2>1, <2>2 DEF CoreType
<1>6. script' = [script EXCEPT ![k] = NoScript] /\ Frees(k)
  BY DEF GateCompletes
<1>7. script' \in [Key -> Script] /\ active' \in Key \cup {None} /\ OneProbe' /\ WaitsForScript'
  BY <1>5, <1>6, GateFrees
<1>8. CoreType' /\ ReaderOK'
  BY <1>1, <1>2, <1>4, <1>5, <1>7 DEF CoreType, ReaderOK
<1> QED
  BY <1>7, <1>8 DEF ProbeInv

(* The steps of the scripts and of the gate's memory. *)
LEMMA ScriptInv ==
  ASSUME ProbeInv, NEW k \in Key, ScriptStep(k) \/ AnswerExpires(k)
  PROVE  ProbeInv'
<1>1. CoreType /\ ReaderOK /\ OneProbe /\ WaitsForScript
  BY DEF ProbeInv
<1>2. CASE GateThrows(k)
  <2>1. /\ script[k].pc # "none" /\ script' = [script EXCEPT ![k] = NoScript] /\ Frees(k)
        /\ req' = IF req[k].pc # "wait" THEN req ELSE [req EXCEPT ![k] = [NoRequest EXCEPT !.pc = "failed"]]
        /\ UNCHANGED <<health, answers, slow, entry, reader>>
    BY <1>2 DEF GateThrows, outside, backend
  <2>2. /\ req' \in [Key -> Request]
        /\ req[k].pc # "wait" => req' = req
        /\ req[k].pc = "wait" => req'[k].pc \in {"ok", "failed"}
        /\ \A j \in Key \ {k} : req'[j] = req[j]
    BY <1>1, <2>1, NewRequest DEF CoreType
  <2>3. script' \in [Key -> Script] /\ active' \in Key \cup {None} /\ OneProbe' /\ WaitsForScript'
    BY <2>1, <2>2, GateFrees
  <2>4. CoreType' /\ ReaderOK'
    BY <1>1, <2>1, <2>2, <2>3 DEF CoreType, ReaderOK
  <2> QED
    BY <2>3, <2>4 DEF ProbeInv
<1>3. CASE ScriptBusy(k)
  BY <1>3, GateCompletesInv DEF ScriptBusy, outside, backend
<1>4. ASSUME NEW ok \in BOOLEAN, ScriptEnds(k, ok)
      PROVE  ProbeInv'
  <2>1. /\ (env = "slow") \in BOOLEAN /\ script[k].pc # "none"
        /\ GateCompletes(k, ok, env = "slow", FALSE) /\ UNCHANGED <<health, entry, reader>>
    BY <1>4 DEF ScriptEnds, outside, backend
  <2> QED
    BY <2>1, GateCompletesInv
<1>5. CASE ScriptReads(k)
  <2> DEFINE s == [pc |-> "read", value |-> IF k \in Db THEN health[k] ELSE {}]
  <2>1. s \in Script /\ s.pc = "read"
    BY <1>1 DEF CoreType, Script
  <2>2. /\ script[k].pc # "none" /\ script' = [script EXCEPT ![k] = s]
        /\ UNCHANGED <<health, active, answers, slow, req, entry, reader>>
    BY <1>5 DEF ScriptReads, outside, backend
  <2>3. /\ script' \in [Key -> Script]
        /\ \A j \in Key : (script'[j].pc = "none") <=> (script[j].pc = "none")
    BY <1>1, <2>1, <2>2 DEF CoreType
  <2>4. CoreType' /\ ReaderOK'
    BY <1>1, <2>2, <2>3 DEF CoreType, ReaderOK
  <2>5. OneProbe' /\ WaitsForScript'
    BY <1>1, <2>2, <2>3 DEF OneProbe, WaitsForScript, CoreType
  <2> QED
    BY <2>4, <2>5 DEF ProbeInv
<1>6. CASE AnswerExpires(k)
  <2>1. UNCHANGED <<health, script, active, slow, req, entry, reader>>
    BY <1>6 DEF AnswerExpires, outside, backend
  <2>2. answers' \in [Key -> Entry]
    BY <1>1, <1>6, ValueTypes DEF AnswerExpires, CoreType
  <2>3. CoreType' /\ ReaderOK'
    BY <1>1, <2>1, <2>2 DEF CoreType, ReaderOK
  <2>4. OneProbe' /\ WaitsForScript'
    BY <1>1, <2>1 DEF OneProbe, WaitsForScript
  <2> QED
    BY <2>3, <2>4 DEF ProbeInv
<1> QED
  BY <1>2, <1>3, <1>4, <1>5, <1>6 DEF ScriptStep

(***************************************************************************)
(* The readers and the worker                                              *)
(***************************************************************************)
(* A reader takes a step that does not make it wait. *)
LEMMA ReaderMoves ==
  ASSUME ProbeInv, NEW r \in Reader, NEW s \in Readers, reader' = [reader EXCEPT ![r] = s],
         s.pc # "wait", s.pc # "idle" => s.db \in Db /\ s.left # <<>>,
         UNCHANGED <<health, gate, req, entry>>
  PROVE  ProbeInv'
<1>1. CoreType /\ ReaderOK /\ OneProbe /\ WaitsForScript
  BY DEF ProbeInv
<1>2. UNCHANGED <<script, active, answers, slow>>
  BY DEF gate
<1>3. /\ reader' \in [Reader -> Readers] /\ reader'[r] = s
      /\ \A p \in Reader \ {r} : reader'[p] = reader[p]
  BY <1>1 DEF CoreType
<1>4. CoreType'
  BY <1>1, <1>2, <1>3 DEF CoreType
<1>5. ReaderOK'
  BY <1>1, <1>3 DEF ReaderOK
<1>6. OneProbe' /\ WaitsForScript'
  BY <1>1, <1>2, <1>3 DEF OneProbe, WaitsForScript
<1> QED
  BY <1>4, <1>5, <1>6 DEF ProbeInv

(* A read of the cache that is not a hit. *)
LEMMA GetInv ==
  ASSUME ProbeInv, NEW r \in Reader, NEW d \in Db, NEW strict \in BOOLEAN,
         NEW left \in {All, <<"gap">>}, Get(r, d, strict, left),
         UNCHANGED <<health, answers, slow>>, entry' \in [Db -> Entry]
  PROVE  ProbeInv'
<1> DEFINE s == [pc |-> "wait", db |-> d, strict |-> strict, left |-> left, value |-> {}]
<1>1. CoreType /\ ReaderOK /\ OneProbe /\ WaitsForScript
  BY DEF ProbeInv
<1>2. d \in Key
  BY KeyFacts
<1>3. s \in Readers /\ s.pc = "wait" /\ s.db = d /\ s.left = left /\ left # <<>>
  BY DEF Readers, All
<1>4. GateAnswer(d) \in Request /\ entry[d] \in Entry
  BY <1>1, <1>2, GateAnswers DEF CoreType
<1>5. CASE req[d].pc = "none" /\ Deferred(d)
  <2> DEFINE t == Resolve(s, GateAnswer(d), entry[d])
  <2>1. t \in Readers /\ t.pc # "wait" /\ (t.pc # "idle" => t.db = d /\ t.left = left)
    BY <1>3, <1>4, Resolves
  <2>2. reader' = [reader EXCEPT ![r] = t] /\ UNCHANGED <<req, active, script>>
    BY <1>5 DEF Get
  <2> HIDE DEF t, s
  <2>3. /\ reader' \in [Reader -> Readers] /\ reader'[r] = t
        /\ \A p \in Reader \ {r} : reader'[p] = reader[p]
    BY <1>1, <2>1, <2>2 DEF CoreType
  <2>4. CoreType'
    BY <1>1, <2>2, <2>3 DEF CoreType
  <2>5. ReaderOK'
    BY <1>1, <1>3, <2>1, <2>3 DEF ReaderOK
  <2>6. OneProbe' /\ WaitsForScript'
    BY <1>1, <2>1, <2>2, <2>3 DEF OneProbe, WaitsForScript
  <2> QED
    BY <2>4, <2>5, <2>6 DEF ProbeInv
<1>6. CASE ~(req[d].pc = "none" /\ Deferred(d))
  <2>1. reader' = [reader EXCEPT ![r] = s]
    BY <1>6 DEF Get
  <2> HIDE DEF s
  <2>2. /\ reader' \in [Reader -> Readers] /\ reader'[r] = s
        /\ \A p \in Reader \ {r} : reader'[p] = reader[p]
    BY <1>1, <1>3, <2>1 DEF CoreType
  <2>3. ReaderOK'
    BY <1>1, <1>3, <2>2 DEF ReaderOK
  <2>4. /\ script' \in [Key -> Script] /\ active' \in Key \cup {None} /\ req' \in [Key -> Request]
        /\ OneProbe'
        /\ \A j \in Key : req'[j].pc = "wait" => script'[j].pc # "none"
        /\ req'[d].pc # "none" /\ \A j \in Key \ {d} : req'[j] = req[j]
    <3>1. CASE req[d].pc = "none"
      <4>1. MonitorGate(d) /\ ~Deferred(d)
        BY <1>6, <3>1 DEF Get
      <4> QED
        BY <1>2, <3>1, <4>1, GateAdmits
    <3>2. CASE req[d].pc # "none"
      <4>1. UNCHANGED <<req, active, script>>
        BY <3>2 DEF Get
      <4> QED
        BY <1>1, <3>2, <4>1 DEF CoreType, OneProbe, WaitsForScript
    <3> QED
      BY <3>1, <3>2
  <2>5. CoreType'
    BY <1>1, <2>2, <2>4 DEF CoreType
  <2>6. ASSUME NEW p \in Reader, reader'[p].pc = "wait"
        PROVE  req'[reader'[p].db].pc # "none"
    <3>1. CASE p = r
      BY <1>3, <2>2, <2>4, <3>1
    <3>2. CASE p # r
      <4>1. reader'[p] = reader[p] /\ reader[p].db \in Key /\ req[reader[p].db].pc # "none"
        BY <1>1, <2>2, <2>6, <3>2, KeyFacts DEF ReaderOK, WaitsForScript
      <4> QED
        BY <2>4, <4>1
    <3> QED
      BY <3>1, <3>2
  <2> QED
    BY <2>3, <2>4, <2>5, <2>6 DEF ProbeInv, WaitsForScript
<1> QED
  BY <1>5, <1>6

(* The requests of the backend. *)
LEMMA BackendInv ==
  ASSUME ProbeInv, NEW r \in Reader, NEW d \in Db,
         \/ GetHit(r, d, All) \/ GetHit(r, d, <<"gap">>)
         \/ Dashboard(r, d) \/ DatabaseVersion(r, d) \/ Validate(r, d)
         \/ MaintenanceRefreshes(r, d)
  PROVE  ProbeInv'
<1>1. CoreType
  BY DEF ProbeInv
<1>2. ASSUME NEW left \in {All, <<"gap">>}, GetHit(r, d, left)
      PROVE  ProbeInv'
  <2> DEFINE s == [pc |-> "find", db |-> d, strict |-> FALSE, left |-> left, value |-> entry[d].value]
  <2>1. entry[d].value \in SUBSET Kind
    BY <1>1 DEF CoreType, Entry
  <2>2. s \in Readers /\ s.pc = "find" /\ s.db = d /\ s.left # <<>>
    BY <2>1 DEF Readers, All
  <2>3. reader' = [reader EXCEPT ![r] = s] /\ UNCHANGED <<health, gate, req, entry>>
    BY <1>2 DEF GetHit, outside
  <2> HIDE DEF s
  <2> QED
    BY <2>2, <2>3, ReaderMoves
<1>3. CASE Dashboard(r, d)
  <2>1. Get(r, d, FALSE, All) /\ UNCHANGED <<health, answers, slow>> /\ entry' \in [Db -> Entry]
    BY <1>1, <1>3 DEF Dashboard, RefreshInactiveIndexAlerts, outside, CoreType
  <2> QED
    BY <2>1, GetInv
<1>4. CASE DatabaseVersion(r, d)
  <2>1. Get(r, d, FALSE, <<"gap">>) /\ UNCHANGED <<health, answers, slow>> /\ entry' \in [Db -> Entry]
    BY <1>1, <1>4 DEF DatabaseVersion, outside, CoreType
  <2> QED
    BY <2>1, GetInv
<1>5. CASE Validate(r, d)
  <2>1. Get(r, d, TRUE, All) /\ UNCHANGED <<health, answers, slow>> /\ entry' \in [Db -> Entry]
    BY <1>1, <1>5 DEF Validate, outside, CoreType
  <2> QED
    BY <2>1, GetInv
<1>6. CASE MaintenanceRefreshes(r, d)
  <2>1. Get(r, d, TRUE, All) /\ UNCHANGED <<health, answers, slow>> /\ entry' \in [Db -> Entry]
    BY <1>1, <1>6, ValueTypes DEF MaintenanceRefreshes, Invalidates, CoreType
  <2> QED
    BY <2>1, GetInv
<1> QED
  BY <1>2, <1>3, <1>4, <1>5, <1>6

(* A reader writes its alerts. *)
LEMMA AlertInv ==
  ASSUME ProbeInv, NEW r \in Reader, AlertFinds(r) \/ AlertCreates(r)
  PROVE  ProbeInv'
<1> DEFINE s == reader[r]
<1>1. CoreType /\ ReaderOK
  BY DEF ProbeInv
<1>2. s \in Readers /\ s.pc \in {"find", "create"} /\ UNCHANGED <<health, gate, req, entry>>
  BY <1>1 DEF CoreType, AlertFinds, AlertCreates, outside
<1>3. s.db \in Db /\ s.left # <<>>
  BY <1>1, <1>2 DEF ReaderOK
<1>4. /\ Advance(s) \in Readers /\ Advance(s).pc # "wait"
      /\ Advance(s).pc # "idle" => Advance(s).db = s.db /\ Advance(s).left # <<>>
  BY <1>2, <1>3, Advances
<1> DEFINE c == [s EXCEPT !.pc = "create"]
<1>5. c \in Readers /\ c.pc = "create" /\ c.db = s.db /\ c.left = s.left
  BY <1>2 DEF Readers
<1>6. \/ reader' = [reader EXCEPT ![r] = c]
      \/ reader' = [reader EXCEPT ![r] = Advance(s)]
  BY DEF AlertFinds, AlertCreates
<1>7. CASE reader' = [reader EXCEPT ![r] = c]
  <2> HIDE DEF c
  <2> QED
    BY <1>2, <1>3, <1>5, <1>7, ReaderMoves
<1>8. CASE reader' = [reader EXCEPT ![r] = Advance(s)]
  <2> HIDE DEF s
  <2> QED
    BY <1>2, <1>3, <1>4, <1>8, ReaderMoves
<1> QED
  BY <1>6, <1>7, <1>8

(* A load ends: its readers go on, or give up. *)
LEMMA LoadInv ==
  ASSUME ProbeInv, NEW d \in Db, LoadEnds(d)
  PROVE  ProbeInv'
<1>1. CoreType /\ ReaderOK /\ OneProbe /\ WaitsForScript
  BY DEF ProbeInv
<1>2. d \in Key /\ req[d] \in Request /\ entry[d] \in Entry
  BY <1>1, KeyFacts DEF CoreType
<1>3. UNCHANGED <<health, script, active, answers, slow>>
  BY DEF LoadEnds, outside, gate
<1>4. entry' \in [Db -> Entry]
  <2>1. req[d].value \in SUBSET Kind
    BY <1>2 DEF Request
  <2>2. [age |-> "fresh", value |-> req[d].value] \in Entry
    BY <2>1 DEF Entry
  <2> QED
    BY <1>1, <2>2 DEF LoadEnds, CoreType
<1>5. /\ req' \in [Key -> Request] /\ req'[d].pc = "none"
      /\ \A k \in Key \ {d} : req'[k] = req[k]
  BY <1>1, <1>2, ValueTypes DEF LoadEnds, CoreType
<1>6. ASSUME NEW r \in Reader
      PROVE  /\ reader'[r] \in Readers
             /\ reader'[r].pc # "idle" => reader'[r].db \in Db /\ reader'[r].left # <<>>
             /\ reader'[r].pc = "wait" => reader'[r].db # d /\ reader'[r] = reader[r]
  <2>1. reader[r] \in Readers
    BY <1>1 DEF CoreType
  <2>2. CASE reader[r].pc = "wait" /\ reader[r].db = d
    <3> DEFINE t == Resolve(reader[r], req[d], entry[d])
    <3>1. reader'[r] = t
      BY <2>2 DEF LoadEnds
    <3>2. t \in Readers /\ t.pc # "wait" /\ (t.pc # "idle" => t.db = d /\ t.left = reader[r].left)
      BY <1>2, <2>1, <2>2, Resolves
    <3>3. reader[r].left # <<>>
      BY <1>1, <2>2 DEF ReaderOK
    <3> QED
      BY <3>1, <3>2, <3>3
  <2>3. CASE ~(reader[r].pc = "wait" /\ reader[r].db = d)
    <3>1. reader'[r] = reader[r]
      BY <2>3 DEF LoadEnds
    <3> QED
      BY <1>1, <2>1, <2>3, <3>1 DEF ReaderOK
  <2> QED
    BY <2>2, <2>3
<1>7. reader' \in [Reader -> Readers]
  <2>1. reader' = [r \in Reader |-> reader'[r]]
    BY DEF LoadEnds
  <2> QED
    BY <1>6, <2>1
<1>8. CoreType'
  BY <1>1, <1>3, <1>4, <1>5, <1>7 DEF CoreType
<1>9. ReaderOK' /\ OneProbe'
  BY <1>1, <1>3, <1>6 DEF ReaderOK, OneProbe
<1>10. \A k \in Key : req'[k].pc = "wait" => script'[k].pc # "none"
  BY <1>1, <1>3, <1>5 DEF WaitsForScript
<1>11. ASSUME NEW r \in Reader, reader'[r].pc = "wait"
       PROVE  req'[reader'[r].db].pc # "none"
  <2>1. reader'[r] = reader[r] /\ reader[r].db \in Key \ {d}
    BY <1>1, <1>6, <1>11, KeyFacts DEF ReaderOK
  <2> QED
    BY <1>1, <1>5, <1>11, <2>1 DEF WaitsForScript
<1> QED
  BY <1>8, <1>9, <1>10, <1>11 DEF ProbeInv, WaitsForScript

(* The probes of the worker, whose keys no reader waits for. *)
LEMMA WorkerInv ==
  ASSUME ProbeInv, NEW k \in WKey, WorkerProbes(k) \/ RunHostFirebirdShell(k) \/ SlowRowCreated(k)
  PROVE  ProbeInv'
<1>1. CoreType /\ ReaderOK /\ OneProbe /\ WaitsForScript
  BY DEF ProbeInv
<1>2. k \in Key /\ k \notin Db
  BY KeyFacts
<1>3. UNCHANGED <<health, answers, slow, entry, reader>>
  BY DEF WorkerProbes, RunHostFirebirdShell, SlowRowCreated, outside, gate, backend
<1>4. /\ script' \in [Key -> Script] /\ active' \in Key \cup {None} /\ req' \in [Key -> Request]
      /\ OneProbe'
      /\ \A j \in Key : req'[j].pc = "wait" => script'[j].pc # "none"
      /\ \A j \in Key \ {k} : req'[j] = req[j]
  <2>1. CASE WorkerProbes(k)
    BY <1>2, <2>1, GateAdmits DEF WorkerProbes
  <2>2. ASSUME NEW q \in Request, q.pc # "wait", req' = [req EXCEPT ![k] = q], UNCHANGED gate
        PROVE  <1>4!:
    BY <1>1, <2>2 DEF CoreType, OneProbe, WaitsForScript, gate
  <2>3. CASE RunHostFirebirdShell(k)
    <3> DEFINE c == [req[k] EXCEPT !.pc = "create"]
    <3>1. req[k] \in Request
      BY <1>1, <1>2 DEF CoreType
    <3>2. c \in Request /\ c.pc = "create"
      BY <3>1 DEF Request
    <3>3. (req' = [req EXCEPT ![k] = c] \/ req' = [req EXCEPT ![k] = NoRequest]) /\ UNCHANGED gate
      BY <2>3 DEF RunHostFirebirdShell
    <3> HIDE DEF c
    <3> QED
      BY <2>2, <3>2, <3>3, ValueTypes
  <2>4. CASE SlowRowCreated(k)
    BY <2>2, <2>4, ValueTypes DEF SlowRowCreated
  <2> QED
    BY <2>1, <2>3, <2>4
<1>5. CoreType' /\ ReaderOK'
  BY <1>1, <1>3, <1>4 DEF CoreType, ReaderOK
<1>6. ASSUME NEW r \in Reader, reader'[r].pc = "wait"
      PROVE  req'[reader'[r].db].pc # "none"
  <2>1. reader'[r] = reader[r] /\ reader[r].db \in Key \ {k}
    BY <1>1, <1>2, <1>3, <1>6, KeyFacts DEF ReaderOK
  <2> QED
    BY <1>1, <1>4, <1>6, <2>1 DEF WaitsForScript
<1> QED
  BY <1>4, <1>5, <1>6 DEF ProbeInv, WaitsForScript

(***************************************************************************)
(* Time, operations and restarts                                           *)
(***************************************************************************)
(* Steps of the databases, of the entries' age and of the alerts alone. *)
LEMMA OutsideInv ==
  ASSUME ProbeInv, health' \in [Db -> SUBSET Kind], entry' \in [Db -> Entry],
         UNCHANGED <<script, active, answers, slow, req, reader>>
  PROVE  ProbeInv'
BY DEF ProbeInv, CoreType, ReaderOK, OneProbe, WaitsForScript

LEMMA HostRestartInv ==
  ASSUME ProbeInv, HostRestarts
  PROVE  ProbeInv'
<1>1. CoreType /\ ReaderOK /\ WaitsForScript
  BY DEF ProbeInv
<1>2. UNCHANGED <<health, entry, reader>> /\ active' = None /\ slow' = 0
  BY DEF HostRestarts, outside, backend
<1>3. script' \in [Key -> Script] /\ \A k \in Key : script'[k].pc = "none"
  BY ValueTypes DEF HostRestarts
<1>4. answers' \in [Key -> Entry]
  BY ValueTypes DEF HostRestarts
<1>5. ASSUME NEW k \in Key
      PROVE  /\ ConnectionLost(req[k]) \in Request /\ ConnectionLost(req[k]).pc # "wait"
             /\ req[k].pc # "none" => ConnectionLost(req[k]).pc # "none"
  <2>1. req[k] \in Request
    BY <1>1 DEF CoreType
  <2> QED
    BY <2>1, NewRequest DEF ConnectionLost
<1>6. /\ req' \in [Key -> Request]
      /\ \A k \in Key : req'[k].pc # "wait" /\ (req[k].pc # "none" => req'[k].pc # "none")
  <2>1. req' = [k \in Key |-> ConnectionLost(req[k])]
    BY DEF HostRestarts
  <2> QED
    BY <1>5, <2>1
<1>7. CoreType' /\ ReaderOK'
  BY <1>1, <1>2, <1>3, <1>4, <1>6 DEF CoreType, ReaderOK
<1>8. OneProbe'
  BY <1>2, <1>3 DEF OneProbe
<1>9. ASSUME NEW r \in Reader, reader'[r].pc = "wait"
      PROVE  req'[reader'[r].db].pc # "none"
  <2>1. reader'[r] = reader[r] /\ reader[r].db \in Key /\ req[reader[r].db].pc # "none"
    BY <1>1, <1>2, <1>9, KeyFacts DEF ReaderOK, WaitsForScript
  <2> QED
    BY <1>6, <2>1
<1> QED
  BY <1>6, <1>7, <1>8, <1>9 DEF ProbeInv, WaitsForScript

LEMMA BackendRestartInv ==
  ASSUME ProbeInv, BackendRestarts
  PROVE  ProbeInv'
<1>1. CoreType /\ OneProbe /\ WaitsForScript
  BY DEF ProbeInv
<1>2. UNCHANGED <<health, script, active, answers, slow>>
  BY DEF BackendRestarts, gate
<1>3. entry' \in [Db -> Entry]
  BY ValueTypes DEF BackendRestarts
<1>4. reader' \in [Reader -> Readers] /\ \A r \in Reader : reader'[r].pc = "idle"
  BY ValueTypes DEF BackendRestarts
<1>5. /\ req' \in [Key -> Request]
      /\ \A k \in Key : req'[k].pc = "wait" => req[k].pc = "wait"
  BY <1>1, ValueTypes DEF BackendRestarts, CoreType
<1>6. CoreType' /\ ReaderOK'
  BY <1>1, <1>2, <1>3, <1>4, <1>5 DEF CoreType, ReaderOK
<1>7. OneProbe' /\ WaitsForScript'
  BY <1>1, <1>2, <1>4, <1>5 DEF OneProbe, WaitsForScript
<1> QED
  BY <1>6, <1>7 DEF ProbeInv

(***************************************************************************)
(* The theorems                                                            *)
(***************************************************************************)
LEMMA InitInv == Init => ProbeInv
<1> SUFFICES ASSUME Init PROVE ProbeInv
  OBVIOUS
<1>1. /\ script \in [Key -> Script] /\ \A k \in Key : script[k].pc = "none"
      /\ req \in [Key -> Request] /\ \A k \in Key : req[k].pc = "none"
      /\ answers \in [Key -> Entry] /\ entry \in [Db -> Entry]
      /\ reader \in [Reader -> Readers] /\ \A r \in Reader : reader[r].pc = "idle"
  BY ValueTypes DEF Init
<1>2. CoreType
  BY <1>1 DEF CoreType, Init
<1>3. ReaderOK /\ OneProbe /\ WaitsForScript
  BY <1>1 DEF ReaderOK, OneProbe, WaitsForScript, Init
<1> QED
  BY <1>2, <1>3 DEF ProbeInv

LEMMA NextInv == ProbeInv /\ [Next]_vars => ProbeInv'
<1> SUFFICES ASSUME ProbeInv, [Next]_vars PROVE ProbeInv'
  OBVIOUS
<1>1. CoreType
  BY DEF ProbeInv
<1>2. ASSUME NEW d \in Db, NEW v \in SUBSET Kind, HealthChanges(d, v) \/ OperationReplaces(d, v)
      PROVE  ProbeInv'
  <2>1. /\ health' \in [Db -> SUBSET Kind] /\ entry' \in [Db -> Entry]
        /\ UNCHANGED <<script, active, answers, slow, req, reader>>
    BY <1>1, <1>2 DEF CoreType, HealthChanges, OperationReplaces, gate, backend
  <2> QED
    BY <2>1, OutsideInv
<1>3. ASSUME NEW d \in Db, InvalidateProbeCaches(d)
      PROVE  ProbeInv'
  <2>1. /\ health' \in [Db -> SUBSET Kind] /\ entry' \in [Db -> Entry]
        /\ UNCHANGED <<script, active, answers, slow, req, reader>>
    BY <1>1, <1>3, ValueTypes DEF CoreType, InvalidateProbeCaches, Invalidates
  <2> QED
    BY <2>1, OutsideInv
<1>4. ASSUME NEW d \in Db, EntryAges(d)
      PROVE  ProbeInv'
  <2>1. entry[d] \in Entry
    BY <1>1 DEF CoreType
  <2>2. [entry[d] EXCEPT !.age = "stale"] \in Entry
    BY <2>1 DEF Entry
  <2>3. /\ health' \in [Db -> SUBSET Kind] /\ entry' \in [Db -> Entry]
        /\ UNCHANGED <<script, active, answers, slow, req, reader>>
    BY <1>1, <1>4, <2>2, ValueTypes DEF CoreType, EntryAges, gate, outside
  <2> QED
    BY <2>3, OutsideInv
<1>5. ASSUME \/ \E e \in {"fast", "slow", "failing"} : FirebirdChanges(e)
             \/ LockTaken \/ LockLeft \/ UNCHANGED vars
      PROVE  ProbeInv'
  <2>1. UNCHANGED <<health, entry, script, active, answers, slow, req, reader>>
    BY <1>5 DEF FirebirdChanges, LockTaken, LockLeft, vars, gate, backend, outside
  <2>2. health' \in [Db -> SUBSET Kind] /\ entry' \in [Db -> Entry]
    BY <1>1, <2>1 DEF CoreType
  <2> QED
    BY <2>1, <2>2, OutsideInv
<1> QED
  BY <1>2, <1>3, <1>4, <1>5, ScriptInv, WorkerInv, BackendInv, AlertInv, LoadInv,
     HostRestartInv, BackendRestartInv
  DEF Next

(* The inductive invariant: the gate, the requests and the readers agree.  *)
THEOREM ProbeInvariant == Spec => []ProbeInv
<1> QED
  BY InitInv, NextInv, PTL DEF Spec

(* For any databases, probes and readers: one monitor script runs at a     *)
(* time on the host and the gate of runMonitorFirebirdScript knows which.  *)
THEOREM OneProbeSafety == Spec => []OneProbe
<1>1. ProbeInv => OneProbe
  BY DEF ProbeInv
<1> QED
  BY <1>1, ProbeInvariant, PTL

(* A reader waits only for a load, and a load only for a script that runs, *)
(* whatever fails, is deferred, expires or restarts.                       *)
THEOREM WaitSafety == Spec => []WaitsForScript
<1>1. ProbeInv => WaitsForScript
  BY DEF ProbeInv
<1> QED
  BY <1>1, ProbeInvariant, PTL
=============================================================================
