-------------------------- MODULE CentralLinkProofs --------------------------
(***************************************************************************)
(* Proofs about CentralLink, for any number of alerts, Centrals, accounts, *)
(* overlapping pairings and events: types, the pairing of an enabled       *)
(* agent, and what the states of the alerts say of the Central.            *)
(***************************************************************************)
EXTENDS CentralLink, TLAPS

AlertState == {"none", "active", "recovered"}

(* The types of the agent, of what it sends and of Google Drive, apart.    *)
SourceType ==
  /\ cond \subseteq Alert /\ up \subseteq Central /\ version \in 1..2
  /\ tronfire \in BOOLEAN /\ info \in [fresh : BOOLEAN, version : 0..2]
  /\ events \in 0..MaxEvents

AgentType ==
  /\ conf \in [enabled : BOOLEAN, url : Central] /\ token \in Central \cup {None}
  /\ timer \in BOOLEAN /\ inFlight \in BOOLEAN /\ tick \in Tick
  /\ pair \in [Pairing -> Pair] /\ writer \in Pairing \cup {None} /\ sound \in BOOLEAN
  /\ states \in [Alert -> AlertState] /\ saved \in [Alert -> AlertState]
  /\ beats \in [Central -> Beat] /\ told \subseteq Alert

GoogleType ==
  /\ drive \in [enabled : BOOLEAN, account : Account \cup {None}]
  /\ grant \in [Central -> Account \cup {None}] /\ auth \in [Way -> Auth]
  /\ about \in [Caller -> Account \cup {None}]
  /\ quota \in [fresh : BOOLEAN, account : Account \cup {None}] /\ cleaning \in BOOLEAN

LEMMA TypeParts == TypeOK <=> SourceType /\ AgentType /\ GoogleType
BY DEF TypeOK, SourceType, AgentType, GoogleType, AlertState

(* A pairing under way knows its addresses; the one that wrote the         *)
(* settings last still finds its own there, and asks that Central.         *)
PairInv ==
  \A p \in Pairing :
    /\ pair[p].pc # "idle" => pair[p].url \in Central
    /\ writer = p => /\ pair[p].pc # "idle" /\ conf.url = pair[p].url
                     /\ pair[p].pc = "ask" => pair[p].at = pair[p].url

LinkInv == TypeOK /\ PairInv /\ EnabledIsPaired /\ ActiveIsTold

(* A counted event stays within the bound. *)
LEMMA EventType ==
  ASSUME SourceType, Event
  PROVE  events' \in 0..MaxEvents
BY LinkAssumption DEF SourceType, Event

(***************************************************************************)
(* The state of the agent                                                  *)
(***************************************************************************)
(* A tick starts with the token it was given. *)
LEMMA NewTick ==
  ASSUME NEW t \in Central \cup {None}
  PROVE  [NoTick EXCEPT !.pc = "dashboard", !.token = t] \in Tick /\ NoTick \in Tick
<1>1. NoTick \in Tick
  BY DEF NoTick, Tick
<1> QED
  BY <1>1 DEF Tick

LEMMA AgentTickType ==
  ASSUME AgentType, NEW s, NEW t \in Central \cup {None}, AgentTick(s, t)
  PROVE  inFlight' \in BOOLEAN /\ tick' \in Tick
BY NewTick DEF AgentType, AgentTick, TickRuns

(* Moving a tick on keeps its type. *)
LEMMA TickMoves ==
  ASSUME AgentType
  PROVE  /\ \A pc \in {"network", "database", "services", "beat"} : [tick EXCEPT !.pc = pc] \in Tick
         /\ \A seen \in SUBSET Alert : [tick EXCEPT !.pc = "network", !.seen = seen] \in Tick
         /\ \A v \in 0..2 : [tick EXCEPT !.pc = "services", !.version = v] \in Tick
         /\ [tick EXCEPT !.pc = "alerts", !.todo = tick.seen] \in Tick
         /\ \A todo \in SUBSET Alert : [tick EXCEPT !.todo = todo] \in Tick
         /\ tick.seen \subseteq Alert /\ tick.todo \subseteq Alert /\ tick.version \in 0..2
<1>1. tick \in Tick
  BY DEF AgentType
<1> QED
  BY <1>1 DEF Tick

LEMMA InfoType ==
  ASSUME SourceType
  PROVE  CentralDatabaseInfoFromTronFire \in [fresh : BOOLEAN, version : 0..2]
BY DEF SourceType, CentralDatabaseInfoFromTronFire

(* The steps of a tick, the pairing and a restart change the agent, the    *)
(* others leave it alone.                                                  *)
AgentAction ==
  \/ CentralAgentTick \/ AgentStep
  \/ (\E p \in Pairing, u \in Central : CentralPair(p, u)) \/ \E p \in Pairing : PairStep(p)

OtherAction ==
  \/ \E on \in BOOLEAN : SaveSettings(on)
  \/ \E a \in Account : SaveGoogleDriveToken(a) \/ StartGoogleDriveOauth(a)
  \/ \E c \in Central, a \in Account : CentralGrants(c, a)
  \/ CompleteGoogleDriveOauth \/ (\E w \in Way : AuthStarts(w) \/ CentralAnswers(w))
  \/ CentralGoogleApply \/ (\E ok \in BOOLEAN : OauthAnswers(ok)) \/ ResetGoogleDriveAuth
  \/ RcloneAbout \/ RcloneCleanupRemoteBackups \/ CleanupAsks
  \/ (\E c \in Caller, ok \in BOOLEAN : AboutEnds(c, ok)) \/ FiveMinutes
  \/ (\E k \in Alert : AlertChanges(k)) \/ DatabaseChanges
  \/ TronfireStops \/ TronfireReturns \/ InfoAges
  \/ \E c \in Central : CentralStops(c) \/ CentralReturns(c)

LEMMA NextParts == Next <=> AgentAction \/ OtherAction \/ Crash
BY DEF Next, AgentAction, OtherAction

LEMMA AgentFrame ==
  ASSUME OtherAction
  PROVE  UNCHANGED <<agent, remote>>
<1>1. ASSUME NEW on \in BOOLEAN, SaveSettings(on)
      PROVE  UNCHANGED <<agent, remote>>
  BY <1>1 DEF SaveSettings
<1>2. ASSUME NEW a \in Account, SaveGoogleDriveToken(a) \/ StartGoogleDriveOauth(a)
      PROVE  UNCHANGED <<agent, remote>>
  BY <1>2 DEF SaveGoogleDriveToken, StartGoogleDriveOauth
<1>3. ASSUME NEW c \in Central, NEW a \in Account, CentralGrants(c, a)
      PROVE  UNCHANGED <<agent, remote>>
  BY <1>3 DEF CentralGrants
<1>4. ASSUME NEW w \in Way, AuthStarts(w) \/ CentralAnswers(w)
      PROVE  UNCHANGED <<agent, remote>>
  BY <1>4 DEF AuthStarts, CentralAnswers
<1>5. ASSUME NEW ok \in BOOLEAN, OauthAnswers(ok)
      PROVE  UNCHANGED <<agent, remote>>
  BY <1>5 DEF OauthAnswers
<1>6. CASE \/ CompleteGoogleDriveOauth \/ CentralGoogleApply \/ ResetGoogleDriveAuth
           \/ RcloneAbout \/ RcloneCleanupRemoteBackups \/ CleanupAsks \/ FiveMinutes
  BY <1>6 DEF CompleteGoogleDriveOauth, CentralGoogleApply, ResetGoogleDriveAuth,
     RcloneAbout, RcloneCleanupRemoteBackups, CleanupAsks, FiveMinutes
<1>7. ASSUME NEW c \in Caller, NEW ok \in BOOLEAN, AboutEnds(c, ok)
      PROVE  UNCHANGED <<agent, remote>>
  BY <1>7 DEF AboutEnds
<1>8. ASSUME NEW k \in Alert, AlertChanges(k)
      PROVE  UNCHANGED <<agent, remote>>
  BY <1>8 DEF AlertChanges
<1>9. CASE DatabaseChanges \/ TronfireStops \/ TronfireReturns \/ InfoAges
  BY <1>9 DEF DatabaseChanges, TronfireStops, TronfireReturns, InfoAges
<1>10. ASSUME NEW c \in Central, CentralStops(c) \/ CentralReturns(c)
       PROVE  UNCHANGED <<agent, remote>>
  BY <1>10 DEF CentralStops, CentralReturns
<1> QED
  BY <1>1, <1>2, <1>3, <1>4, <1>5, <1>6, <1>7, <1>8, <1>9, <1>10 DEF OtherAction

(* The steps of the agent keep its types and leave Google Drive alone.     *)
LEMMA AgentActionType ==
  ASSUME LinkInv, SourceType, AgentType, AgentAction
  PROVE  SourceType' /\ AgentType' /\ UNCHANGED google
<1>1. TickEnds => tick' \in Tick /\ inFlight' \in BOOLEAN
  BY NewTick DEF TickEnds
<1>2. CASE CentralAgentTick
  <2>1. inFlight' \in BOOLEAN /\ tick' \in Tick
    BY <1>2, AgentTickType DEF CentralAgentTick, AgentType
  <2> QED
    BY <1>2, <2>1 DEF CentralAgentTick, SourceType, AgentType, source, remote
<1>3. CASE Dashboard
  <2>1. tick' \in Tick
    BY <1>3, TickMoves DEF Dashboard, SourceType
  <2> QED
    BY <1>3, <2>1 DEF Dashboard, SourceType, AgentType, source, remote
<1>4. CASE CentralNetworkMetricsPayload \/ CentralServicesPayload
  <2>1. tick' \in Tick
    BY <1>4, TickMoves DEF CentralNetworkMetricsPayload, CentralServicesPayload, Collects
  <2> QED
    BY <1>4, <2>1 DEF CentralNetworkMetricsPayload, CentralServicesPayload, Collects,
                      SourceType, AgentType, source, remote
<1>5. CASE CentralDatabasePayload
  <2>1. info' \in [fresh : BOOLEAN, version : 0..2]
    BY <1>5, InfoType DEF CentralDatabasePayload
  <2>2. tick' \in Tick
    BY <1>5, <2>1, TickMoves DEF CentralDatabasePayload
  <2> QED
    BY <1>5, <2>1, <2>2 DEF CentralDatabasePayload, SourceType, AgentType, source, remote
<1>6. CASE CentralHeartbeat
  <2>1. tick' \in Tick /\ inFlight' \in BOOLEAN
    BY <1>1, <1>6, TickMoves DEF CentralHeartbeat, AgentType
  <2>2. beats' \in [Central -> Beat]
    <3>1. [alerts |-> tick.seen, version |-> tick.version] \in Beat
      BY TickMoves DEF Beat
    <3> QED
      BY <1>6, <3>1 DEF CentralHeartbeat, AgentType
  <2> QED
    BY <1>6, <2>1, <2>2 DEF CentralHeartbeat, SourceType, AgentType, source
<1>7. ASSUME NEW k \in Alert, CentralSendAlert(k)
      PROVE  SourceType' /\ AgentType' /\ UNCHANGED google
  <2>1. tick.todo \ {k} \subseteq Alert
    BY TickMoves
  <2>2. tick' \in Tick /\ inFlight' \in BOOLEAN
    BY <1>1, <1>7, <2>1, TickMoves DEF CentralSendAlert, AgentType
  <2>3. states' \in [Alert -> AlertState] /\ told' \subseteq Alert
    BY <1>7 DEF CentralSendAlert, Marks, AgentType, AlertState
  <2> QED
    BY <1>7, <2>2, <2>3 DEF CentralSendAlert, SourceType, AgentType, source
<1>8. ASSUME NEW ok \in BOOLEAN, CentralSyncAlerts(ok)
      PROVE  SourceType' /\ AgentType' /\ UNCHANGED google
  <2>1. events' \in 0..MaxEvents
    BY <1>8, EventType DEF CentralSyncAlerts, SourceType
  <2>2. states' \in [Alert -> AlertState]
    BY <1>8 DEF CentralSyncAlerts, AgentType, AlertState
  <2>3. saved' \in [Alert -> AlertState] /\ told' \subseteq Alert
    BY <1>8, <2>2 DEF CentralSyncAlerts, AgentType
  <2> QED
    BY <1>1, <1>8, <2>1, <2>2, <2>3 DEF CentralSyncAlerts, SourceType, AgentType, source
<1>9. ASSUME NEW p \in Pairing, NEW u \in Central, CentralPair(p, u)
      PROVE  SourceType' /\ AgentType' /\ UNCHANGED google
  <2>1. events' \in 0..MaxEvents
    BY <1>9, EventType DEF CentralPair
  <2>2. [NoPair EXCEPT !.pc = "info", !.url = u] \in Pair
    BY DEF NoPair, Pair
  <2>3. pair' \in [Pairing -> Pair]
    BY <1>9, <2>2 DEF CentralPair, AgentType
  <2> QED
    BY <1>9, <2>1, <2>3 DEF CentralPair, WriteCentralSettings, SourceType, AgentType, source, remote
<1>10. ASSUME NEW p \in Pairing, CentralIdentifyPayload(p)
       PROVE  SourceType' /\ AgentType' /\ UNCHANGED google
  <2>1. info' \in [fresh : BOOLEAN, version : 0..2]
    BY <1>10, InfoType DEF CentralIdentifyPayload
  <2>2. pair' \in [Pairing -> Pair]
    BY <1>10 DEF CentralIdentifyPayload, AgentType, Pair
  <2> QED
    BY <1>10, <2>1, <2>2 DEF CentralIdentifyPayload, SourceType, AgentType, source, remote
<1>11. ASSUME NEW p \in Pairing, PairFails(p)
       PROVE  SourceType' /\ AgentType' /\ UNCHANGED google
  <2>1. pair' \in [Pairing -> Pair]
    BY <1>11 DEF PairFails, AgentType, Pair, NoPair
  <2> QED
    BY <1>11, <2>1 DEF PairFails, SourceType, AgentType, source, remote
<1>12. ASSUME NEW p \in Pairing, NEW t \in Central \cup {None}, PairSucceeds(p, t)
       PROVE  SourceType' /\ AgentType' /\ UNCHANGED google
  <2>1. pair[p].url \in Central
    BY <1>12 DEF PairSucceeds, LinkInv, PairInv
  <2>2. conf' \in [enabled : BOOLEAN, url : Central] /\ token' \in Central \cup {None}
    BY <1>12, <2>1 DEF PairSucceeds, WriteCentralSettings, WriteCentralToken, AgentType
  <2>3. inFlight' \in BOOLEAN /\ tick' \in Tick
    BY <1>12, <2>2, NewTick DEF PairSucceeds, AgentTick, TickRuns, AgentType
  <2>4. pair' \in [Pairing -> Pair] /\ events' \in 0..MaxEvents
    BY <1>12, EventType DEF PairSucceeds, AgentType, SourceType, Pair, NoPair
  <2> QED
    BY <1>12, <2>2, <2>3, <2>4 DEF PairSucceeds, StartCentralAgent, SourceType, AgentType, source, remote
<1> QED
  BY <1>2, <1>3, <1>4, <1>5, <1>6, <1>7, <1>8, <1>9, <1>10, <1>11, <1>12
     DEF AgentAction, AgentStep, PairStep

(***************************************************************************)
(* Google Drive and what is outside                                        *)
(***************************************************************************)
LEMMA AuthTypes ==
  ASSUME GoogleType
  PROVE  /\ NoAuth \in Auth
         /\ \A w \in Way : auth[w] \in Auth
         /\ \A s \in Auth, pc \in {"idle", "started", "wait", "answered"} : [s EXCEPT !.pc = pc] \in Auth
         /\ NoQuota \in [fresh : BOOLEAN, account : Account \cup {None}]
         /\ {"apply", "oauth", "reset"} = Way /\ {"dashboard", "cleanup"} = Caller
BY DEF GoogleType, NoAuth, Auth, NoQuota, Way, Caller

(* Changing the settings keeps their types and empties the cache. *)
LEMMA SettingsType ==
  ASSUME GoogleType, NEW d \in [enabled : BOOLEAN, account : Account \cup {None}],
         WriteRcloneSettings(d)
  PROVE  /\ drive' \in [enabled : BOOLEAN, account : Account \cup {None}]
         /\ quota' \in [fresh : BOOLEAN, account : Account \cup {None}]
BY AuthTypes DEF WriteRcloneSettings

(* What changes outside keeps its types. *)
LEMMA OutsideType ==
  ASSUME SourceType, OtherAction
  PROVE  SourceType'
<1>1. ASSUME Event, UNCHANGED <<source, info, up>>
      PROVE  SourceType'
  BY <1>1, EventType DEF SourceType, source
<1>2. ASSUME UNCHANGED <<source, info, up, events>>
      PROVE  SourceType'
  BY <1>2 DEF SourceType, source
<1>3. ASSUME NEW on \in BOOLEAN, SaveSettings(on)
      PROVE  SourceType'
  BY <1>1, <1>3 DEF SaveSettings
<1>4. ASSUME NEW a \in Account, SaveGoogleDriveToken(a) \/ StartGoogleDriveOauth(a)
      PROVE  SourceType'
  BY <1>1, <1>4 DEF SaveGoogleDriveToken, StartGoogleDriveOauth
<1>5. ASSUME NEW c \in Central, NEW a \in Account, CentralGrants(c, a)
      PROVE  SourceType'
  BY <1>1, <1>5 DEF CentralGrants
<1>6. ASSUME NEW w \in Way, AuthStarts(w) \/ CentralAnswers(w)
      PROVE  SourceType'
  BY <1>1, <1>2, <1>6 DEF AuthStarts, CentralAnswers
<1>7. ASSUME NEW ok \in BOOLEAN, OauthAnswers(ok)
      PROVE  SourceType'
  BY <1>1, <1>2, <1>7 DEF OauthAnswers
<1>8. CASE \/ CompleteGoogleDriveOauth \/ CentralGoogleApply \/ ResetGoogleDriveAuth
           \/ RcloneAbout \/ CleanupAsks \/ FiveMinutes
  BY <1>2, <1>8 DEF CompleteGoogleDriveOauth, CentralGoogleApply, ResetGoogleDriveAuth,
     RcloneAbout, CleanupAsks, FiveMinutes
<1>9. CASE RcloneCleanupRemoteBackups
  BY <1>1, <1>9 DEF RcloneCleanupRemoteBackups
<1>10. ASSUME NEW c \in Caller, NEW ok \in BOOLEAN, AboutEnds(c, ok)
       PROVE  SourceType'
  BY <1>1, <1>2, <1>10 DEF AboutEnds
<1>11. ASSUME NEW k \in Alert, AlertChanges(k)
       PROVE  SourceType'
  BY <1>11, EventType DEF AlertChanges, SourceType
<1>12. CASE DatabaseChanges \/ TronfireStops \/ TronfireReturns \/ InfoAges
  <2>1. CASE DatabaseChanges
    <3>1. version' \in 1..2
      BY <2>1 DEF DatabaseChanges, SourceType
    <3> QED
      BY <2>1, <3>1, EventType DEF DatabaseChanges, SourceType
  <2>2. CASE TronfireStops \/ TronfireReturns
    BY <2>2, EventType DEF TronfireStops, TronfireReturns, SourceType
  <2>3. CASE InfoAges
    BY <2>3 DEF InfoAges, SourceType, source
  <2> QED
    BY <1>12, <2>1, <2>2, <2>3
<1>13. ASSUME NEW c \in Central, CentralStops(c) \/ CentralReturns(c)
       PROVE  SourceType'
  BY <1>13, EventType DEF CentralStops, CentralReturns, SourceType, source
<1> QED
  BY <1>3, <1>4, <1>5, <1>6, <1>7, <1>8, <1>9, <1>10, <1>11, <1>12, <1>13 DEF OtherAction

(* What changes with Google Drive keeps its types. *)
LEMMA GoogleActionType ==
  ASSUME SourceType, AgentType, GoogleType, OtherAction
  PROVE  GoogleType'
<1>1. ASSUME NEW on \in BOOLEAN, SaveSettings(on)
      PROVE  GoogleType'
  <2>1. [drive EXCEPT !.enabled = on] \in [enabled : BOOLEAN, account : Account \cup {None}]
    BY DEF GoogleType
  <2> QED
    BY <1>1, <2>1, SettingsType DEF SaveSettings, GoogleType
<1>2. ASSUME NEW a \in Account, SaveGoogleDriveToken(a)
      PROVE  GoogleType'
  BY <1>2, SettingsType DEF SaveGoogleDriveToken, GoogleType
<1>3. ASSUME NEW a \in Account, StartGoogleDriveOauth(a)
      PROVE  GoogleType'
  <2>1. [NoAuth EXCEPT !.pc = "started", !.account = a] \in Auth
    <3>1. NoAuth \in Auth
      BY AuthTypes
    <3> QED
      BY <3>1 DEF Auth
  <2> QED
    BY <1>3, <2>1 DEF StartGoogleDriveOauth, GoogleType
<1>4. ASSUME NEW c \in Central, NEW a \in Account, CentralGrants(c, a)
      PROVE  GoogleType'
  BY <1>4 DEF CentralGrants, GoogleType
<1>5. ASSUME NEW w \in Way, AuthStarts(w)
      PROVE  GoogleType'
  <2>1. [pc |-> "wait", account |-> None, at |-> IF token = conf.url THEN token ELSE None] \in Auth
    BY DEF Auth, AgentType
  <2> QED
    BY <1>5, <2>1 DEF AuthStarts, GoogleType
<1>6. ASSUME NEW w \in Way, CentralAnswers(w)
      PROVE  GoogleType'
  <2>1. auth[w].at \in Central \cup {None}
    BY DEF GoogleType, Auth
  <2>2. auth' \in [Way -> Auth]
    <3>1. [pc |-> "answered", at |-> None,
           account |-> IF w = "apply" /\ auth[w].at \in up THEN grant[auth[w].at] ELSE None] \in Auth
      <4>1. CASE auth[w].at \in Central
        BY <4>1 DEF Auth, GoogleType
      <4>2. CASE auth[w].at = None
        BY <4>2, LinkAssumption DEF Auth, SourceType
      <4> QED
        BY <2>1, <4>1, <4>2
    <3> QED
      BY <1>6, <3>1 DEF CentralAnswers, GoogleType
  <2>3. grant' \in [Central -> Account \cup {None}]
    BY <1>6, <2>1 DEF CentralAnswers, GoogleType
  <2> QED
    BY <1>6, <2>2, <2>3 DEF CentralAnswers, GoogleType
<1>7. CASE CompleteGoogleDriveOauth
  <2>1. auth' \in [Way -> Auth]
    BY <1>7, AuthTypes DEF CompleteGoogleDriveOauth, GoogleType
  <2> QED
    BY <1>7, <2>1 DEF CompleteGoogleDriveOauth, GoogleType
<1>8. CASE CentralGoogleApply
  <2>1. auth["apply"].account \in Account \cup {None}
    BY AuthTypes DEF Auth
  <2>2. /\ drive' \in [enabled : BOOLEAN, account : Account \cup {None}]
        /\ quota' \in [fresh : BOOLEAN, account : Account \cup {None}]
    BY <1>8, <2>1, SettingsType DEF CentralGoogleApply, GoogleType
  <2> QED
    BY <1>8, <2>2, AuthTypes DEF CentralGoogleApply, GoogleType
<1>9. ASSUME NEW ok \in BOOLEAN, OauthAnswers(ok)
      PROVE  GoogleType'
  <2>1. auth["oauth"].account \in Account \cup {None}
    BY AuthTypes DEF Auth
  <2>2. /\ drive' \in [enabled : BOOLEAN, account : Account \cup {None}]
        /\ quota' \in [fresh : BOOLEAN, account : Account \cup {None}]
    BY <1>9, <2>1, SettingsType DEF OauthAnswers, GoogleType
  <2>3. auth' \in [Way -> Auth]
    BY <1>9, AuthTypes DEF OauthAnswers, GoogleType
  <2> QED
    BY <1>9, <2>2, <2>3 DEF OauthAnswers, GoogleType
<1>10. CASE ResetGoogleDriveAuth
  <2>1. /\ drive' \in [enabled : BOOLEAN, account : Account \cup {None}]
        /\ quota' \in [fresh : BOOLEAN, account : Account \cup {None}]
    BY <1>10, SettingsType DEF ResetGoogleDriveAuth
  <2> QED
    BY <1>10, <2>1, AuthTypes DEF ResetGoogleDriveAuth, GoogleType
<1>11. CASE RcloneAbout \/ RcloneCleanupRemoteBackups \/ CleanupAsks \/ FiveMinutes
  <2>1. drive.account \in Account \cup {None}
    BY DEF GoogleType
  <2>2. CASE RcloneAbout \/ CleanupAsks
    <3>1. about' \in [Caller -> Account \cup {None}]
      BY <2>1, <2>2 DEF RcloneAbout, CleanupAsks, GoogleType
    <3> QED
      BY <2>2, <3>1 DEF RcloneAbout, CleanupAsks, GoogleType
  <2>3. CASE RcloneCleanupRemoteBackups \/ FiveMinutes
    BY <2>3, AuthTypes DEF RcloneCleanupRemoteBackups, FiveMinutes, QuotaExpires, GoogleType
  <2> QED
    BY <1>11, <2>2, <2>3
<1>12. ASSUME NEW c \in Caller, NEW ok \in BOOLEAN, AboutEnds(c, ok)
       PROVE  GoogleType'
  <2>1. about' \in [Caller -> Account \cup {None}]
    BY <1>12 DEF AboutEnds, GoogleType
  <2>2. quota' \in [fresh : BOOLEAN, account : Account \cup {None}]
    <3>1. about[c] \in Account \cup {None}
      BY DEF GoogleType
    <3>2. CASE ok
      <4>1. quota' = [fresh |-> TRUE, account |-> about[c]]
        BY <1>12, <3>2 DEF AboutEnds
      <4> QED
        BY <3>1, <4>1
    <3>3. CASE ~ok
      BY <1>12, <3>3 DEF AboutEnds, GoogleType
    <3> QED
      BY <3>2, <3>3
  <2> QED
    BY <1>12, <2>1, <2>2 DEF AboutEnds, GoogleType
<1>13. ASSUME UNCHANGED google
       PROVE  GoogleType'
  BY <1>13 DEF google, GoogleType
<1>14. ASSUME NEW k \in Alert, AlertChanges(k)
       PROVE  GoogleType'
  BY <1>13, <1>14 DEF AlertChanges
<1>15. CASE DatabaseChanges \/ TronfireStops \/ TronfireReturns \/ InfoAges
  BY <1>13, <1>15 DEF DatabaseChanges, TronfireStops, TronfireReturns, InfoAges
<1>16. ASSUME NEW c \in Central, CentralStops(c) \/ CentralReturns(c)
       PROVE  GoogleType'
  BY <1>13, <1>16 DEF CentralStops, CentralReturns
<1> QED
  BY <1>1, <1>2, <1>3, <1>4, <1>5, <1>6, <1>7, <1>8, <1>9, <1>10, <1>11, <1>12, <1>14, <1>15,
     <1>16 DEF OtherAction

(* A restart of the service keeps the types.                               *)
LEMMA CrashType ==
  ASSUME SourceType, AgentType, GoogleType, Crash
  PROVE  SourceType' /\ AgentType' /\ GoogleType'
<1>1. SourceType'
  <2>1. info' \in [fresh : BOOLEAN, version : 0..2]
    BY DEF Crash
  <2> QED
    BY <2>1, EventType DEF Crash, SourceType, source
<1>2. AgentType'
  <2>1. tick' \in Tick
    BY NewTick DEF Crash, AgentType
  <2>2. pair' \in [Pairing -> Pair]
    BY DEF Crash, Pair, NoPair
  <2>3. CentralEnabled(conf) \in BOOLEAN
    BY LinkAssumption DEF CentralEnabled, AgentType
  <2> QED
    BY <2>1, <2>2, <2>3 DEF Crash, AgentType, remote
<1>3. GoogleType'
  <2>1. auth' \in [Way -> Auth]
    BY AuthTypes DEF Crash
  <2>2. about' \in [Caller -> Account \cup {None}]
    BY DEF Crash
  <2> QED
    BY <2>1, <2>2, AuthTypes DEF Crash, GoogleType
<1> QED
  BY <1>1, <1>2, <1>3

LEMMA InitType == Init => TypeOK
<1> SUFFICES ASSUME Init PROVE TypeOK
  OBVIOUS
<1>1. SourceType
  BY LinkAssumption DEF Init, SourceType
<1>2. AgentType
  <2>1. conf \in [enabled : BOOLEAN, url : Central]
    BY DEF Init
  <2>2. tick \in Tick
    BY NewTick DEF Init
  <2>3. beats \in [Central -> Beat]
    BY DEF Init, Beat
  <2>4. states \in [Alert -> AlertState] /\ saved \in [Alert -> AlertState]
    BY DEF Init, AlertState
  <2>5. pair \in [Pairing -> Pair]
    BY DEF Init, Pair, NoPair
  <2> QED
    BY <2>1, <2>2, <2>3, <2>4, <2>5, LinkAssumption DEF Init, AgentType
<1>3. GoogleType
  <2>1. NoAuth \in Auth /\ NoQuota \in [fresh : BOOLEAN, account : Account \cup {None}]
    BY DEF NoAuth, Auth, NoQuota
  <2> QED
    BY <2>1 DEF Init, GoogleType
<1> QED
  BY <1>1, <1>2, <1>3, TypeParts

LEMMA NextType ==
  ASSUME LinkInv, [Next]_vars
  PROVE  TypeOK'
<1>1. SourceType /\ AgentType /\ GoogleType /\ TypeOK
  BY TypeParts DEF LinkInv
<1>2. (SourceType /\ AgentType /\ GoogleType)' => TypeOK'
  BY DEF TypeOK, SourceType, AgentType, GoogleType, AlertState
<1>3. CASE AgentAction
  BY <1>1, <1>2, <1>3, AgentActionType DEF google, GoogleType
<1>4. CASE OtherAction
  BY <1>1, <1>2, <1>4, AgentFrame, OutsideType, GoogleActionType DEF agent, remote, AgentType
<1>5. CASE Crash
  BY <1>1, <1>2, <1>5, CrashType
<1>6. CASE UNCHANGED vars
  BY <1>1, <1>6 DEF vars, source, agent, remote, google, TypeOK
<1> QED
  BY <1>3, <1>4, <1>5, <1>6, NextParts

(***************************************************************************)
(* Pairing and alerts                                                      *)
(***************************************************************************)
(* The steps of a tick leave pairing and settings alone.                   *)
LEMMA TickFrame ==
  ASSUME CentralAgentTick \/ AgentStep
  PROVE  UNCHANGED <<conf, token, timer, pair, writer, sound>>
<1>1. ASSUME NEW k \in Alert, CentralSendAlert(k)
      PROVE  UNCHANGED <<conf, token, timer, pair, writer, sound>>
  BY <1>1 DEF CentralSendAlert
<1>2. ASSUME NEW ok \in BOOLEAN, CentralSyncAlerts(ok)
      PROVE  UNCHANGED <<conf, token, timer, pair, writer, sound>>
  BY <1>2 DEF CentralSyncAlerts
<1>3. CASE CentralAgentTick \/ CentralHeartbeat
  BY <1>3 DEF CentralAgentTick, CentralHeartbeat
<1>4. CASE \/ Dashboard \/ CentralNetworkMetricsPayload
           \/ CentralDatabasePayload \/ CentralServicesPayload
  BY <1>4 DEF Dashboard, CentralNetworkMetricsPayload, CentralServicesPayload, Collects,
     CentralDatabasePayload
<1> QED
  BY <1>1, <1>2, <1>3, <1>4 DEF AgentStep

LEMMA AgentActionPaired ==
  ASSUME LinkInv, AgentAction
  PROVE  EnabledIsPaired' /\ PairInv'
<1>1. AgentType /\ EnabledIsPaired /\ PairInv
  BY TypeParts DEF LinkInv
<1>2. CASE CentralAgentTick \/ AgentStep
  BY <1>1, <1>2, TickFrame DEF EnabledIsPaired, CentralEnabled, PairInv
<1>3. ASSUME NEW p \in Pairing, NEW u \in Central, CentralPair(p, u)
      PROVE  EnabledIsPaired' /\ PairInv'
  <2>1. /\ conf'.url = u /\ ~conf'.enabled /\ writer' = p /\ timer' = timer
        /\ pair'[p].pc = "info" /\ pair'[p].url = u
        /\ \A q \in Pairing \ {p} : pair'[q] = pair[q]
    BY <1>1, <1>3 DEF CentralPair, WriteCentralSettings, AgentType, Pair, NoPair
  <2>2. EnabledIsPaired'
    BY <1>1, <2>1 DEF EnabledIsPaired, CentralEnabled
  <2> QED
    BY <1>1, <2>1, <2>2 DEF PairInv
<1>4. ASSUME NEW p \in Pairing, CentralIdentifyPayload(p)
      PROVE  EnabledIsPaired' /\ PairInv'
  <2>1. /\ UNCHANGED <<conf, token, timer, writer, sound>> /\ pair[p].pc = "info"
        /\ pair'[p].pc = "ask" /\ pair'[p].at = conf.url /\ pair'[p].url = pair[p].url
        /\ \A q \in Pairing \ {p} : pair'[q] = pair[q]
    BY <1>1, <1>4 DEF CentralIdentifyPayload, AgentType, Pair
  <2>2. EnabledIsPaired'
    BY <1>1, <2>1 DEF EnabledIsPaired, CentralEnabled
  <2> QED
    BY <1>1, <2>1, <2>2 DEF PairInv
<1>5. ASSUME NEW p \in Pairing, PairFails(p)
      PROVE  EnabledIsPaired' /\ PairInv'
  <2>1. /\ UNCHANGED <<conf, token, timer, sound>> /\ writer' = IF writer = p THEN None ELSE writer
        /\ pair'[p].pc = "idle" /\ \A q \in Pairing \ {p} : pair'[q] = pair[q]
    BY <1>1, <1>5 DEF PairFails, AgentType, Pair, NoPair
  <2>2. EnabledIsPaired'
    BY <1>1, <2>1 DEF EnabledIsPaired, CentralEnabled
  <2> QED
    BY <1>1, <2>1, <2>2, LinkAssumption DEF PairInv
<1>6. ASSUME NEW p \in Pairing, NEW t \in Central \cup {None}, PairSucceeds(p, t)
      PROVE  EnabledIsPaired' /\ PairInv'
  <2>1. /\ conf'.url = pair[p].url /\ writer' = None /\ timer' /\ pair[p].pc = "ask"
        /\ t \in {pair[p].at, None} /\ sound' = (writer = p /\ t # None)
        /\ pair'[p].pc = "idle" /\ \A q \in Pairing \ {p} : pair'[q] = pair[q]
    BY <1>1, <1>6 DEF PairSucceeds, WriteCentralSettings, StartCentralAgent, AgentType, Pair, NoPair
  <2>2. sound' => token' = conf'.url
    BY <1>1, <1>6, <2>1 DEF PairSucceeds, WriteCentralToken, PairInv
  <2>3. EnabledIsPaired'
    BY <2>1, <2>2 DEF EnabledIsPaired
  <2> QED
    BY <1>1, <2>1, <2>3, LinkAssumption DEF PairInv
<1> QED
  BY <1>2, <1>3, <1>4, <1>5, <1>6 DEF AgentAction, PairStep

LEMMA AgentActionTold ==
  ASSUME LinkInv, AgentAction
  PROVE  ActiveIsTold'
<1>1. AgentType /\ ActiveIsTold
  BY TypeParts DEF LinkInv
<1>2. CASE UNCHANGED <<states, saved, told>>
  BY <1>1, <1>2 DEF ActiveIsTold
<1>3. CASE CentralAgentTick
  BY <1>2, <1>3 DEF CentralAgentTick, remote
<1>7. ASSUME NEW p \in Pairing, NEW u \in Central, CentralPair(p, u)
      PROVE  ActiveIsTold'
  BY <1>2, <1>7 DEF CentralPair, remote
<1>8. ASSUME NEW p \in Pairing, CentralIdentifyPayload(p) \/ PairFails(p)
      PROVE  ActiveIsTold'
  BY <1>2, <1>8 DEF CentralIdentifyPayload, PairFails, remote
<1>9. ASSUME NEW p \in Pairing, NEW t \in Central \cup {None}, PairSucceeds(p, t)
      PROVE  ActiveIsTold'
  BY <1>2, <1>9 DEF PairSucceeds, remote
<1>4. CASE \/ Dashboard \/ CentralNetworkMetricsPayload \/ CentralDatabasePayload
           \/ CentralServicesPayload \/ CentralHeartbeat
  BY <1>2, <1>4 DEF Dashboard, CentralNetworkMetricsPayload, CentralServicesPayload, Collects,
     CentralDatabasePayload, CentralHeartbeat, remote
<1>5. ASSUME NEW k \in Alert, CentralSendAlert(k)
      PROVE  ActiveIsTold'
  BY <1>1, <1>5 DEF CentralSendAlert, Marks, ActiveIsTold, AgentType
<1>6. ASSUME NEW ok \in BOOLEAN, CentralSyncAlerts(ok)
      PROVE  ActiveIsTold'
  <2>1. \A k \in Alert : states'[k] = "active" => states[k] = "active"
    BY <1>6 DEF CentralSyncAlerts
  <2>2. CASE ok
    <3>1. saved' = states' /\ told' = {k \in told : states'[k] = "active"}
      BY <1>6, <2>2 DEF CentralSyncAlerts
    <3> QED
      BY <1>1, <2>1, <3>1 DEF ActiveIsTold
  <2>3. CASE ~ok
    <3>1. saved' = saved /\ told' = told
      BY <1>6, <2>3 DEF CentralSyncAlerts
    <3> QED
      BY <1>1, <2>1, <3>1 DEF ActiveIsTold
  <2> QED
    BY <2>2, <2>3
<1> QED
  BY <1>3, <1>4, <1>5, <1>6, <1>7, <1>8, <1>9 DEF AgentAction, AgentStep, PairStep

LEMMA InvNext ==
  ASSUME LinkInv, [Next]_vars
  PROVE  LinkInv'
<1>1. TypeOK'
  BY NextType DEF LinkInv
<1>2. CASE AgentAction
  BY <1>1, <1>2, AgentActionPaired, AgentActionTold DEF LinkInv
<1>3. CASE UNCHANGED <<agent, remote>>
  BY <1>1, <1>3 DEF LinkInv, PairInv, EnabledIsPaired, CentralEnabled, ActiveIsTold, agent, remote
<1>4. CASE Crash
  <2>1. PairInv'
    BY <1>4, LinkAssumption DEF Crash, PairInv, NoPair
  <2>2. EnabledIsPaired'
    BY <1>4 DEF LinkInv, Crash, EnabledIsPaired, CentralEnabled
  <2> QED
    BY <1>1, <1>4, <2>1, <2>2 DEF LinkInv, Crash, ActiveIsTold, remote
<1>5. CASE UNCHANGED vars
  BY <1>3, <1>5 DEF vars
<1> QED
  BY <1>2, <1>3, <1>4, <1>5, NextParts, AgentFrame

LEMMA InvInit == Init => LinkInv
<1> SUFFICES ASSUME Init PROVE LinkInv
  OBVIOUS
<1>1. EnabledIsPaired /\ ActiveIsTold
  BY DEF Init, EnabledIsPaired, CentralEnabled, ActiveIsTold
<1>2. PairInv
  BY LinkAssumption DEF Init, PairInv, NoPair
<1> QED
  BY <1>1, <1>2, InitType DEF LinkInv

(* Agent, alerts and Google Drive keep their types in every behaviour.     *)
THEOREM TypeCorrect == Spec => []TypeOK
<1>1. LinkInv => TypeOK
  BY DEF LinkInv
<1> QED
  BY <1>1, InvInit, InvNext, PTL DEF Spec

(* An enabled agent has its timer, and one that a pairing enabled which    *)
(* brought a token and met no write of another has a token of the Central  *)
(* it talks to, whatever pairings failed or were cut off by a restart.     *)
THEOREM PairedSafety == Spec => []EnabledIsPaired
<1>1. LinkInv => EnabledIsPaired
  BY DEF LinkInv
<1> QED
  BY <1>1, InvInit, InvNext, PTL DEF Spec

(* An alert remembered as active, in memory or in the file, was taken by a *)
(* Central since its recovery was written, whatever sends, writes and      *)
(* restarts came between.                                                  *)
THEOREM ToldSafety == Spec => []ActiveIsTold
<1>1. LinkInv => ActiveIsTold
  BY DEF LinkInv
<1> QED
  BY <1>1, InvInit, InvNext, PTL DEF Spec
=============================================================================
