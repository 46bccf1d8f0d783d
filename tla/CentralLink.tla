---------------------------- MODULE CentralLink ----------------------------
(***************************************************************************)
(* What TronSoftOS has outside the building: the Central, which it pairs   *)
(* with and sends heartbeats and alerts to, and the Google Drive of the    *)
(* backups, which is authorised through the Central, by OAuth or by hand.  *)
(* Every call outside is awaited, and settings, token and files change     *)
(* meanwhile, also by other pairings.  A token is known by the Central     *)
(* that gave it, a configuration of rclone by its account; the payloads    *)
(* are left out except the alerts and the version of the database.         *)
(***************************************************************************)
EXTENDS Naturals

CONSTANTS
  Alert,      \* alerts that the dashboard may show
  Central,    \* addresses of Centrals
  Account,    \* accounts of Google Drive
  Pairing,    \* requests to pair that may be under way at the same time
  EnvEnabled, \* TRONSOFTOS_CENTRAL_ENABLED is true
  None,       \* no token, no account, no pairing
  MaxEvents   \* bound on decisions, faults and changes of the alerts

ASSUME LinkAssumption == /\ None \notin Central \cup Account \cup Pairing
                         /\ EnvEnabled \in BOOLEAN /\ MaxEvents \in Nat

VARIABLES
  cond,      \* the alerts of the dashboard
  version,   \* of the database
  tronfire,  \* TronFire answers
  info,      \* centralDatabaseInfoCache
  up,        \* Centrals that answer
  conf,      \* central-settings.json
  token,     \* central-token: who gave it
  timer,     \* centralAgentTimer runs
  inFlight,  \* centralAgentInFlight
  tick,      \* where centralAgentTick is
  pair,      \* where each call of centralPair is
  writer,    \* history: the pairing under way that wrote the settings last
  sound,     \* history: the last success was the writer's and brought a token
  states,    \* centralAlertStates
  saved,     \* its file
  beats,     \* the last heartbeat that each Central accepted
  told,      \* alerts a Central took since their recovery was last written
  drive,     \* rclone-settings.json and rclone.conf
  grant,     \* the account authorised at each Central
  auth,      \* where each way to change the authorisation is
  about,     \* the accounts that calls of rcloneAbout ask about
  quota,     \* rcloneQuotaCache
  cleaning,  \* rcloneCleanupRemoteBackups deletes files
  events

agent  == <<conf, token, timer, inFlight, tick, pair, writer, sound, states, saved>>
remote == <<beats, told>>
source == <<cond, version, tronfire>>
google == <<drive, grant, auth, about, quota, cleaning>>
vars   == <<source, info, up, agent, remote, google, events>>

Way == {"apply", "oauth", "reset"}

Tick == [pc : {"idle", "dashboard", "network", "database", "services", "beat",
               "alerts"}, token : Central \cup {None},
         seen : SUBSET Alert, todo : SUBSET Alert, version : 0..2]
NoTick == [pc |-> "idle", token |-> None, seen |-> {}, todo |-> {}, version |-> 0]

(* What a heartbeat says; the version is 0 when it was never known. *)
Beat == [alerts : SUBSET Alert, version : 0..2]

(* url is the address the pairing wrote, at the Central that it asks. *)
Pair == [pc : {"idle", "info", "ask"}, url : Central \cup {None}, at : Central \cup {None}]
NoPair == [pc |-> "idle", url |-> None, at |-> None]

(* at is the Central that takes the token of the request, account what the *)
(* answer is about.                                                        *)
Auth == [pc : {"idle", "started", "wait", "answered"}, at : Central \cup {None},
         account : Account \cup {None}]
NoAuth == [pc |-> "idle", at |-> None, account |-> None]

(* Who calls rcloneAbout. *)
Caller == {"dashboard", "cleanup"}

(* The quota of an account; a cache that expired is empty. *)
NoQuota == [fresh |-> FALSE, account |-> None]

TypeOK ==
  /\ cond \subseteq Alert /\ up \subseteq Central /\ version \in 1..2
  /\ tronfire \in BOOLEAN /\ info \in [fresh : BOOLEAN, version : 0..2]
  /\ conf \in [enabled : BOOLEAN, url : Central] /\ token \in Central \cup {None}
  /\ timer \in BOOLEAN /\ inFlight \in BOOLEAN /\ tick \in Tick
  /\ pair \in [Pairing -> Pair] /\ writer \in Pairing \cup {None} /\ sound \in BOOLEAN
  /\ states \in [Alert -> {"none", "active", "recovered"}]
  /\ saved \in [Alert -> {"none", "active", "recovered"}]
  /\ beats \in [Central -> Beat] /\ told \subseteq Alert
  /\ drive \in [enabled : BOOLEAN, account : Account \cup {None}]
  /\ grant \in [Central -> Account \cup {None}] /\ auth \in [Way -> Auth]
  /\ about \in [Caller -> Account \cup {None}]
  /\ quota \in [fresh : BOOLEAN, account : Account \cup {None}] /\ cleaning \in BOOLEAN
  /\ events \in 0..MaxEvents

Init ==
  /\ cond = {} /\ up = Central /\ version = 1 /\ tronfire = TRUE
  /\ info = [fresh |-> FALSE, version |-> 0]
  /\ conf \in [enabled : {FALSE}, url : Central] /\ token = None
  /\ timer = EnvEnabled /\ inFlight = FALSE /\ tick = NoTick
  /\ pair = [p \in Pairing |-> NoPair] /\ writer = None /\ sound = FALSE
  /\ states = [k \in Alert |-> "none"] /\ saved = states
  /\ beats = [c \in Central |-> [alerts |-> {}, version |-> 0]] /\ told = {}
  /\ drive = [enabled |-> FALSE, account |-> None] /\ grant = [c \in Central |-> None]
  /\ auth = [w \in Way |-> NoAuth] /\ about = [c \in Caller |-> None] /\ quota = NoQuota
  /\ cleaning = FALSE /\ events = 0

Event == events < MaxEvents /\ events' = events + 1

(***************************************************************************)
(* The agent                                                               *)
(***************************************************************************)
(* The environment enables the agent whatever the file says. *)
CentralEnabled(settings) == settings.enabled \/ EnvEnabled

(* A tick that finds another one, the agent disabled or no token returns. *)
TickRuns(settings, t) == CentralEnabled(settings) /\ ~inFlight /\ t # None

(* The synchronous part of centralAgentTick with these settings and token. *)
AgentTick(settings, t) ==
  /\ inFlight' = (inFlight \/ TickRuns(settings, t))
  /\ tick' = IF TickRuns(settings, t) THEN [NoTick EXCEPT !.pc = "dashboard", !.token = t] ELSE tick

(* The interval of the agent. *)
CentralAgentTick ==
  /\ timer /\ TickRuns(conf, token) /\ AgentTick(conf, token)
  /\ UNCHANGED <<source, info, up, conf, token, timer, pair, writer, sound, states, saved,
                 remote, google, events>>

Dashboard ==
  /\ tick.pc = "dashboard"
  /\ tick' = [tick EXCEPT !.pc = "network", !.seen = cond]
  /\ UNCHANGED <<source, info, up, conf, token, timer, inFlight, pair, writer, sound, states,
                 saved, remote, google, events>>

(* Measuring takes seconds, in which the pairing may change; what was      *)
(* measured is left out.                                                   *)
Collects(from, to) ==
  /\ tick.pc = from /\ tick' = [tick EXCEPT !.pc = to]
  /\ UNCHANGED <<source, info, up, conf, token, timer, inFlight, pair, writer, sound, states,
                 saved, remote, google, events>>

CentralNetworkMetricsPayload == Collects("network", "database")

(* A version that is old is asked for again; without an answer it is used  *)
(* however old it is.                                                      *)
CentralDatabaseInfoFromTronFire ==
  IF ~info.fresh /\ tronfire THEN [fresh |-> TRUE, version |-> version] ELSE info

CentralDatabasePayload ==
  /\ tick.pc = "database"
  /\ info' = CentralDatabaseInfoFromTronFire
  /\ tick' = [tick EXCEPT !.pc = "services", !.version = info'.version]
  /\ UNCHANGED <<source, up, conf, token, timer, inFlight, pair, writer, sound, states, saved,
                 remote, google, events>>

CentralServicesPayload == Collects("services", "beat")

(* The finally block is missing. *)
TickEnds_Stuck == tick' = NoTick /\ UNCHANGED inFlight

(* The finally block. *)
TickEnds == tick' = NoTick /\ inFlight' = FALSE

(* A Central that answers accepts its own token; the address is read when  *)
(* the request is made.                                                    *)
CentralRequest(t) == t = conf.url /\ conf.url \in up

CentralHeartbeat ==
  /\ tick.pc = "beat"
  /\ IF CentralRequest(tick.token)
     THEN /\ beats' = [beats EXCEPT ![conf.url] = [alerts |-> tick.seen, version |-> tick.version]]
          /\ tick' = [tick EXCEPT !.pc = "alerts", !.todo = tick.seen]
          /\ UNCHANGED inFlight
     ELSE TickEnds /\ UNCHANGED beats
  /\ UNCHANGED <<source, info, up, conf, token, timer, pair, writer, sound, states, saved, told,
                 google, events>>

(* An alert is marked before the Central has taken it. *)
Marks_Before(k, ok) == states' = [states EXCEPT ![k] = "active"]

(* An alert is marked once the Central has taken it. *)
Marks(k, ok) == states' = IF ok THEN [states EXCEPT ![k] = "active"] ELSE states

(* The first alert that is not active is sent; an error ends the tick.     *)
CentralSendAlert(k) ==
  /\ tick.pc = "alerts" /\ k \in tick.todo
  /\ IF states[k] = "active"
     THEN /\ tick' = [tick EXCEPT !.todo = tick.todo \ {k}]
          /\ UNCHANGED <<inFlight, states, told>>
     ELSE LET ok == CentralRequest(tick.token)
          IN /\ Marks(k, ok)
             /\ told' = IF ok THEN told \cup {k} ELSE told
             /\ IF ok THEN tick' = [tick EXCEPT !.todo = tick.todo \ {k}] /\ UNCHANGED inFlight
                ELSE TickEnds
  /\ UNCHANGED <<source, info, up, conf, token, timer, pair, writer, sound, saved, beats, google,
                 events>>

(* Alerts that are gone recover, here only; the file may not be written.   *)
CentralSyncAlerts(ok) ==
  LET gone == {k \in Alert : states[k] = "active" /\ k \notin tick.seen}
      next == [k \in Alert |-> IF k \in gone THEN "recovered" ELSE states[k]]
  IN /\ tick.pc = "alerts" /\ tick.todo = {}
     /\ IF ok THEN UNCHANGED events ELSE Event
     /\ states' = next /\ saved' = IF ok THEN next ELSE saved
     /\ told' = IF ok THEN {k \in told : next[k] = "active"} ELSE told
     /\ TickEnds
     /\ UNCHANGED <<source, info, up, conf, token, timer, pair, writer, sound, beats, google>>

(***************************************************************************)
(* Pairing                                                                 *)
(***************************************************************************)
WriteCentralSettings(settings) == conf' = settings

(* The agent is disabled and the address changed before anything is asked. *)
CentralPair(p, u) ==
  /\ Event /\ pair[p].pc = "idle"
  /\ pair' = [pair EXCEPT ![p] = [NoPair EXCEPT !.pc = "info", !.url = u]]
  /\ WriteCentralSettings([enabled |-> FALSE, url |-> u])
  /\ writer' = p
  /\ UNCHANGED <<source, info, up, token, timer, inFlight, tick, sound, states, saved, remote,
                 google>>

(* TronFire has said, or not, which database is in use; the request goes   *)
(* to the address that the settings have by now.                           *)
CentralIdentifyPayload(p) ==
  /\ pair[p].pc = "info"
  /\ info' = CentralDatabaseInfoFromTronFire
  /\ pair' = [pair EXCEPT ![p].pc = "ask", ![p].at = conf.url]
  /\ UNCHANGED <<source, up, conf, token, timer, inFlight, tick, writer, sound, states, saved,
                 remote, google, events>>

(* The Central does not answer, or refuses the token of the pairing. *)
PairFails(p) ==
  /\ pair[p].pc = "ask"
  /\ pair' = [pair EXCEPT ![p] = NoPair]
  /\ writer' = IF writer = p THEN None ELSE writer
  /\ UNCHANGED <<source, info, up, conf, token, timer, inFlight, tick, sound, states, saved,
                 remote, google, events>>

(* A token that is there already stays. *)
WriteCentralToken_Once(t) == token' = IF token = None THEN t ELSE token

(* An empty token is not written. *)
WriteCentralToken(t) == token' = IF t = None THEN token ELSE t

StartCentralAgent == timer' = TRUE

(* What centralPair does with an installation token t, or None, of the     *)
(* Central it asked: token, its own address and the first tick follow      *)
(* without an await.  An answer that is no JSON brings no token.           *)
PairSucceeds(p, t) ==
  /\ pair[p].pc = "ask" /\ pair[p].at \in up /\ t \in {pair[p].at, None}
  /\ IF t = None THEN Event ELSE UNCHANGED events
  /\ pair' = [pair EXCEPT ![p] = NoPair]
  /\ WriteCentralToken(t)
  /\ WriteCentralSettings([enabled |-> TRUE, url |-> pair[p].url])
  /\ writer' = None /\ sound' = (writer = p /\ t # None)
  /\ StartCentralAgent
  /\ AgentTick(conf', token')
  /\ UNCHANGED <<source, info, up, states, saved, remote, google>>

(***************************************************************************)
(* Google Drive                                                            *)
(***************************************************************************)
(* The cache of the quota is emptied with every change. *)
WriteRcloneSettings(d) == drive' = d /\ quota' = NoQuota

(* PATCH /api/backups/rclone. *)
SaveSettings(on) ==
  /\ Event
  /\ WriteRcloneSettings([drive EXCEPT !.enabled = on])
  /\ UNCHANGED <<source, info, up, agent, remote, grant, auth, about, cleaning>>

(* A token by hand. *)
SaveGoogleDriveToken(a) ==
  /\ Event
  /\ WriteRcloneSettings([enabled |-> TRUE, account |-> a])
  /\ UNCHANGED <<source, info, up, agent, remote, grant, auth, about, cleaning>>

(* The page of Google is open until its callback comes, or for ever. *)
StartGoogleDriveOauth(a) ==
  /\ Event /\ auth["oauth"].pc = "idle"
  /\ auth' = [auth EXCEPT !["oauth"] = [NoAuth EXCEPT !.pc = "started", !.account = a]]
  /\ UNCHANGED <<source, info, up, agent, remote, drive, grant, about, quota, cleaning>>

CompleteGoogleDriveOauth ==
  /\ auth["oauth"].pc = "started"
  /\ auth' = [auth EXCEPT !["oauth"].pc = "wait"]
  /\ UNCHANGED <<source, info, up, agent, remote, drive, grant, about, quota, cleaning, events>>

(* centralGoogleApply and resetGoogleDriveAuth send their request. *)
AuthStarts(w) ==
  /\ Event /\ w \in {"apply", "reset"} /\ auth[w].pc = "idle"
  /\ w = "apply" => token # None
  /\ auth' = [auth EXCEPT ![w] = [pc |-> "wait", account |-> None,
                                  at |-> IF token = conf.url THEN token ELSE None]]
  /\ UNCHANGED <<source, info, up, agent, remote, drive, grant, about, quota, cleaning>>

(* The Central hands out what was authorised, or forgets it. *)
CentralAnswers(w) ==
  LET at == auth[w].at
  IN /\ w \in {"apply", "reset"} /\ auth[w].pc = "wait"
     /\ auth' = [auth EXCEPT ![w] = [pc |-> "answered", at |-> None,
                    account |-> IF w = "apply" /\ at \in up THEN grant[at] ELSE None]]
     /\ grant' = IF w = "reset" /\ at \in up THEN [grant EXCEPT ![at] = None] ELSE grant
     /\ UNCHANGED <<source, info, up, agent, remote, drive, about, quota, cleaning, events>>

(* An answer with a configuration is written whatever happened meanwhile. *)
CentralGoogleApply ==
  LET w == auth["apply"]
  IN /\ w.pc = "answered"
     /\ IF w.account # None THEN WriteRcloneSettings([enabled |-> TRUE, account |-> w.account])
        ELSE UNCHANGED <<drive, quota>>
     /\ auth' = [auth EXCEPT !["apply"] = NoAuth]
     /\ UNCHANGED <<source, info, up, agent, remote, grant, about, cleaning, events>>

(* Google takes the code, or the page can be tried again. *)
OauthAnswers(ok) ==
  LET w == auth["oauth"]
  IN /\ w.pc = "wait"
     /\ IF ok THEN WriteRcloneSettings([enabled |-> TRUE, account |-> w.account]) /\ UNCHANGED events
        ELSE Event /\ UNCHANGED <<drive, quota>>
     /\ auth' = [auth EXCEPT !["oauth"] = IF ok THEN NoAuth ELSE [w EXCEPT !.pc = "started"]]
     /\ UNCHANGED <<source, info, up, agent, remote, grant, about, cleaning>>

(* The reset goes on when the Central failed, and removes what was         *)
(* authorised meanwhile.                                                   *)
ResetGoogleDriveAuth ==
  /\ auth["reset"].pc = "answered"
  /\ WriteRcloneSettings([enabled |-> FALSE, account |-> None])
  /\ auth' = [auth EXCEPT !["reset"] = NoAuth]
  /\ UNCHANGED <<source, info, up, agent, remote, grant, about, cleaning, events>>

(* The user authorises an account at the Central. *)
CentralGrants(c, a) ==
  /\ Event /\ grant' = [grant EXCEPT ![c] = a]
  /\ UNCHANGED <<source, info, up, agent, remote, drive, auth, about, quota, cleaning>>

(* A dashboard asks unless the cache has an answer of these settings, in   *)
(* which the account has no part.                                          *)
RcloneAbout ==
  /\ about["dashboard"] = None /\ drive.account # None /\ ~quota.fresh
  /\ about' = [about EXCEPT !["dashboard"] = drive.account]
  /\ UNCHANGED <<source, info, up, agent, remote, drive, grant, auth, quota, cleaning, events>>

(* The cleanup deletes files and empties the cache. *)
RcloneCleanupRemoteBackups ==
  /\ Event /\ ~cleaning /\ about["cleanup"] = None /\ drive.account # None
  /\ cleaning' = TRUE /\ quota' = NoQuota
  /\ UNCHANGED <<source, info, up, agent, remote, drive, grant, auth, about>>

(* Then it asks in any case. *)
CleanupAsks ==
  /\ cleaning /\ cleaning' = FALSE
  /\ about' = [about EXCEPT !["cleanup"] = drive.account]
  /\ UNCHANGED <<source, info, up, agent, remote, drive, grant, auth, quota, events>>

(* An answer is stored, though the account may have changed; an error is   *)
(* not.                                                                    *)
AboutEnds(c, ok) ==
  /\ about[c] # None /\ about' = [about EXCEPT ![c] = None]
  /\ IF ok THEN quota' = [fresh |-> TRUE, account |-> about[c]] /\ UNCHANGED events
     ELSE Event /\ UNCHANGED quota
  /\ UNCHANGED <<source, info, up, agent, remote, drive, grant, auth, cleaning>>

(* The cache is used for as long as the settings are the same. *)
QuotaExpires_Never == FALSE /\ quota' = quota

QuotaExpires == quota.fresh /\ quota' = NoQuota

FiveMinutes ==
  /\ QuotaExpires
  /\ UNCHANGED <<source, info, up, agent, remote, drive, grant, auth, about, cleaning, events>>

(***************************************************************************)
(* Faults                                                                  *)
(***************************************************************************)
AlertChanges(k) ==
  /\ Event /\ cond' = IF k \in cond THEN cond \ {k} ELSE cond \cup {k}
  /\ UNCHANGED <<version, tronfire, info, up, agent, remote, google>>

DatabaseChanges ==
  /\ Event /\ version' = 3 - version
  /\ UNCHANGED <<cond, tronfire, info, up, agent, remote, google>>

TronfireStops ==
  /\ tronfire /\ Event /\ tronfire' = FALSE
  /\ UNCHANGED <<cond, version, info, up, agent, remote, google>>

TronfireReturns ==
  /\ ~tronfire /\ tronfire' = TRUE
  /\ UNCHANGED <<cond, version, info, up, agent, remote, google, events>>

(* The cached version is older than a minute. *)
InfoAges ==
  /\ info.fresh /\ info' = [info EXCEPT !.fresh = FALSE]
  /\ UNCHANGED <<source, up, agent, remote, google, events>>

CentralStops(c) ==
  /\ c \in up /\ Event /\ up' = up \ {c}
  /\ UNCHANGED <<source, info, agent, remote, google>>

CentralReturns(c) ==
  /\ c \notin up /\ up' = up \cup {c}
  /\ UNCHANGED <<source, info, agent, remote, google, events>>

(* The service restarts: startCentralAgent, if the agent is enabled. *)
Crash ==
  /\ Event
  /\ timer' = CentralEnabled(conf) /\ states' = saved
  /\ pair' = [p \in Pairing |-> NoPair] /\ writer' = None
  /\ inFlight' = (CentralEnabled(conf) /\ token # None)
  /\ tick' = IF CentralEnabled(conf) /\ token # None THEN [NoTick EXCEPT !.pc = "dashboard", !.token = token]
             ELSE NoTick
  /\ auth' = [w \in Way |-> IF w = "oauth" /\ auth[w].pc # "idle" THEN [auth[w] EXCEPT !.pc = "started"]
                            ELSE NoAuth]
  /\ about' = [c \in Caller |-> None] /\ quota' = NoQuota /\ cleaning' = FALSE
  /\ info' = [fresh |-> FALSE, version |-> 0]
  /\ UNCHANGED <<source, up, conf, token, sound, saved, remote, drive, grant>>

(***************************************************************************)
(* Specification                                                           *)
(***************************************************************************)
AgentStep ==
  \/ Dashboard \/ CentralNetworkMetricsPayload \/ CentralDatabasePayload \/ CentralServicesPayload
  \/ CentralHeartbeat \/ (\E k \in Alert : CentralSendAlert(k))
  \/ \E ok \in BOOLEAN : CentralSyncAlerts(ok)

PairStep(p) ==
  \/ CentralIdentifyPayload(p) \/ PairFails(p)
  \/ \E t \in Central \cup {None} : PairSucceeds(p, t)

Next ==
  \/ CentralAgentTick \/ AgentStep
  \/ \E p \in Pairing : PairStep(p)
  \/ \E p \in Pairing, u \in Central : CentralPair(p, u)
  \/ \E on \in BOOLEAN : SaveSettings(on)
  \/ \E a \in Account : SaveGoogleDriveToken(a) \/ StartGoogleDriveOauth(a)
  \/ \E c \in Central, a \in Account : CentralGrants(c, a)
  \/ CompleteGoogleDriveOauth \/ (\E w \in Way : AuthStarts(w) \/ CentralAnswers(w))
  \/ CentralGoogleApply \/ (\E ok \in BOOLEAN : OauthAnswers(ok)) \/ ResetGoogleDriveAuth
  \/ RcloneAbout \/ RcloneCleanupRemoteBackups \/ CleanupAsks
  \/ (\E c \in Caller, ok \in BOOLEAN : AboutEnds(c, ok)) \/ FiveMinutes
  \/ (\E k \in Alert : AlertChanges(k)) \/ DatabaseChanges
  \/ TronfireStops \/ TronfireReturns \/ InfoAges
  \/ \E c \in Central : CentralStops(c) \/ CentralReturns(c)
  \/ Crash

Spec == Init /\ [][Next]_vars

(* The interval fires, calls end (fetch gives up in the end), Centrals     *)
(* come back and times pass.                                               *)
Fairness ==
  /\ WF_vars(CentralAgentTick) /\ WF_vars(AgentStep)
  /\ (\A p \in Pairing : WF_vars(PairStep(p))) /\ WF_vars(CentralGoogleApply)
  /\ WF_vars(ResetGoogleDriveAuth) /\ \A w \in Way : WF_vars(CentralAnswers(w))
  /\ \A c \in Caller : WF_vars(AboutEnds(c, TRUE))
  /\ WF_vars(CleanupAsks) /\ WF_vars(FiveMinutes) /\ WF_vars(InfoAges) /\ WF_vars(TronfireReturns)
  /\ \A c \in Central : WF_vars(CentralReturns(c))

FairSpec == Spec /\ Fairness

(***************************************************************************)
(* Properties                                                              *)
(***************************************************************************)
(* An enabled agent has its timer; one that was enabled by a pairing that  *)
(* brought a token and met no write of another has a token of the Central  *)
(* it talks to, whatever pairings failed and restarts came since.          *)
EnabledIsPaired ==
  /\ CentralEnabled(conf) => timer
  /\ conf.enabled /\ sound => token = conf.url

(* It always has: fails when two pairings meet or an answer is no JSON.    *)
AgentHasToken == conf.enabled => token = conf.url

(* An alert that is remembered as active, in memory or in the file, was    *)
(* taken by a Central since its recovery was last written, however the     *)
(* sends and the writes failed.                                            *)
ActiveIsTold ==
  \A k \in Alert : states[k] = "active" \/ saved[k] = "active" => k \in told

(* While the agent is enabled and has a token of the Central it talks to,  *)
(* that Central learns what is wrong, what no longer is, and the database  *)
(* in use, though heartbeats fail and carry what TronFire said long ago.   *)
CentralLearns ==
  <>[](CentralEnabled(conf) /\ token = conf.url =>
         beats[conf.url] = [alerts |-> cond, version |-> version])

(* The quota shown is in the end that of the account in use, though an     *)
(* answer about the former one may be stored after the change.             *)
QuotaAgrees == <>[](quota.fresh => quota.account = drive.account)
=============================================================================
