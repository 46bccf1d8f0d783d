----------------------------- MODULE AlertMail -----------------------------
(***************************************************************************)
(* From a condition that is wrong to the mails about it.  The worker of    *)
(* TronFire measures the host and keeps rows of alerts; the dashboard of   *)
(* TronSoftOS, which the Central agent and the panels request, adds the    *)
(* alerts that it computes itself to those that TronFire lists, and        *)
(* notifyCriticalAlerts mails them: NOVO ALERTA, LEMBRETE every hour, and  *)
(* RECUPERADO once they have been absent for a while.  Ticks of the worker *)
(* may overlap, and so may dashboards; the sends are awaited, and their    *)
(* answers may be lost.  All alerts here are critical; of a mail its key   *)
(* and its kind are kept, and of a time whether it is long enough ago.     *)
(***************************************************************************)
EXTENDS Naturals, FiniteSets

CONSTANTS
  Host,      \* alerts the dashboard computes itself
  Counting,  \* those of Host whose message counts seconds down
  Seconds,   \* bound on that count
  Tf,        \* types of alert of TronFire
  AutoEnds,  \* those of Tf that the worker resolves when the condition ends
  Tick,      \* runs of collectMetrics that may overlap
  Caller,    \* requests of the dashboard that may overlap
  MaxEvents  \* bound on changes of the conditions, faults and decisions

ASSUME MailAssumption ==
  /\ Host \cap Tf = {} /\ AutoEnds \subseteq Tf /\ "none" \notin Tf /\ IsFiniteSet(Tick)
  /\ Counting \subseteq Host /\ Seconds \in Nat /\ MaxEvents \in Nat

Alert == Host \cup Tf

(* What smtpAlertStates is keyed by: the alert, and the number in its      *)
(* message if smtpAlertKey leaves one there.                               *)
KeysOf(k) == {<<k, n>> : n \in IF k \in Counting THEN 0..Seconds ELSE {0}}
Key == UNION {KeysOf(k) : k \in Alert}

VARIABLES
  cond,       \* what is wrong
  rows,       \* rows not resolved of each type
  tick,       \* where each run of collectMetrics is
  listed,     \* TronFire answers, and the rows are among the newest 20
  smtpUp,     \* the mail server accepts mails
  enabled,    \* smtp-settings.json: enabled
  st,         \* smtpAlertStates
  saved,      \* its file
  inFlight,   \* smtpNotificationInFlight
  dash,       \* where each dashboard is
  mailed,     \* the kind of the last mail of a key that the server took
  unsure,     \* keys whose last mail the service cannot know of: it crashed,
              \* or the answer was lost
  fresh,      \* mails of a key since one could be due again
  events

source == <<cond, rows, tick>>
world  == <<listed, smtpUp, enabled>>
mailer == <<st, saved, inFlight, dash>>
mails  == <<mailed, unsure, fresh>>
vars   == <<source, world, mailer, mails, events>>

(* An entry of smtpAlertStates; a missing one behaves like NoState.        *)
(* attempted and tried: the last attempt is less than five minutes ago.    *)
State == [sent : {"never", "recent", "old"}, attempted : BOOLEAN,
          absent : {"no", "recent", "old"}, tried : BOOLEAN]

NoState == [sent |-> "never", attempted |-> FALSE, absent |-> "no", tried |-> FALSE]

Dash == [pc : {"idle", "notify", "mail", "recover"}, seen : SUBSET Key,
         todo : SUBSET Key, sending : SUBSET Key]

NoDash == [pc |-> "idle", seen |-> {}, todo |-> {}, sending |-> {}]

(* The collector of one type of alert after the other. *)
NoTick == [pc |-> "idle", type |-> "none", bad |-> FALSE]

TypeOK ==
  /\ cond \subseteq Alert /\ rows \in [Tf -> 0..Cardinality(Tick)]
  /\ tick \in [Tick -> [pc : {"idle", "apply", "create"}, type : Tf \cup {"none"}, bad : BOOLEAN]]
  /\ listed \in BOOLEAN /\ smtpUp \in BOOLEAN /\ enabled \in BOOLEAN
  /\ st \in [Key -> State] /\ saved \in [Key -> State] /\ inFlight \in BOOLEAN
  /\ dash \in [Caller -> Dash]
  /\ mailed \in [Key -> {"none", "new", "recovered"}]
  /\ unsure \subseteq Key /\ fresh \in [Key -> Nat]
  /\ events \in 0..MaxEvents

Init ==
  /\ cond = {} /\ rows = [t \in Tf |-> 0] /\ tick = [p \in Tick |-> NoTick]
  /\ listed = TRUE /\ smtpUp = TRUE /\ enabled = TRUE
  /\ st = [q \in Key |-> NoState] /\ saved = st /\ inFlight = FALSE
  /\ dash = [c \in Caller |-> NoDash]
  /\ mailed = [q \in Key |-> "none"] /\ unsure = {}
  /\ fresh = [q \in Key |-> 0] /\ events = 0

(***************************************************************************)
(* collectMetrics of the worker                                            *)
(***************************************************************************)
(* A collector reads its value and awaits the snapshot of the metric. *)
CollectMetrics(p, t) ==
  /\ tick[p].pc = "idle"
  /\ tick' = [tick EXCEPT ![p] = [pc |-> "apply", type |-> t, bad |-> t \in cond]]
  /\ UNCHANGED <<cond, rows, world, mailer, mails, events>>

(* Nothing is resolved. *)
ResolveActiveAlertsByType_Never(t) == rows

(* All the rows of the type, if it is one that the worker resolves. *)
ResolveActiveAlertsByType(t) == IF t \in AutoEnds THEN [rows EXCEPT ![t] = 0] ELSE rows

(* The value is within its limits. *)
CollectorResolves(p) ==
  /\ tick[p].pc = "apply" /\ ~tick[p].bad
  /\ rows' = ResolveActiveAlertsByType(tick[p].type)
  /\ tick' = [tick EXCEPT ![p] = NoTick]
  /\ UNCHANGED <<cond, world, mailer, mails, events>>

(* A sensor that cannot be read neither resolves nor creates. *)
CollectorReadsNothing(p) ==
  /\ tick[p].pc = "apply" /\ events < MaxEvents /\ events' = events + 1
  /\ tick' = [tick EXCEPT ![p] = NoTick]
  /\ UNCHANGED <<cond, rows, world, mailer, mails>>

(* createAlertOnce looks for a row ... *)
CreateAlertOnceFinds(p) ==
  /\ tick[p].pc = "apply" /\ tick[p].bad
  /\ tick' = [tick EXCEPT ![p] = IF rows[tick[p].type] = 0 THEN [tick[p] EXCEPT !.pc = "create"]
                                 ELSE NoTick]
  /\ UNCHANGED <<cond, rows, world, mailer, mails, events>>

(* ... and creates one if it has found none. *)
CreateAlertOnceCreates(p) ==
  /\ tick[p].pc = "create"
  /\ rows' = [rows EXCEPT ![tick[p].type] = rows[tick[p].type] + 1]
  /\ tick' = [tick EXCEPT ![p] = NoTick]
  /\ UNCHANGED <<cond, world, mailer, mails, events>>

(* An operator resolves the row he sees; duplicates stay. *)
OperatorResolves(t) ==
  /\ rows[t] > 0 /\ events < MaxEvents /\ events' = events + 1
  /\ rows' = [rows EXCEPT ![t] = rows[t] - 1]
  /\ UNCHANGED <<cond, tick, world, mailer, mails>>

(***************************************************************************)
(* The dashboard                                                           *)
(***************************************************************************)
(* What TronFire answers; when it does not, its alerts look resolved. *)
TronfireAlerts == {t \in Tf : listed /\ rows[t] > 0}

(* A number that stands alone is replaced, so that the key stays the same; *)
(* the seconds n of a countdown have their unit behind them and stay.      *)
SmtpAlertKey(k, n) == <<k, IF k \in Counting THEN n ELSE 0>>

Dashboard(c, n) ==
  /\ dash[c].pc = "idle"
  /\ dash' = [dash EXCEPT ![c].pc = "notify",
                 ![c].seen = {SmtpAlertKey(k, n) : k \in (cond \cap Host) \cup TronfireAlerts}]
  /\ UNCHANGED <<source, world, st, saved, inFlight, mails, events>>

(***************************************************************************)
(* notifyCriticalAlerts                                                    *)
(***************************************************************************)
(* A pass starts whether or not another one is under way. *)
MayNotify_Again == enabled

MayNotify == enabled /\ ~inFlight

NotifyReturns(c) ==
  /\ dash[c].pc = "notify" /\ ~MayNotify
  /\ dash' = [dash EXCEPT ![c] = NoDash]
  /\ UNCHANGED <<source, world, st, saved, inFlight, mails, events>>

NotifyStarts(c) ==
  /\ dash[c].pc = "notify" /\ MayNotify
  /\ inFlight' = TRUE
  /\ dash' = [dash EXCEPT ![c].pc = "mail", ![c].todo = dash[c].seen]
  /\ UNCHANGED <<source, world, st, saved, mails, events>>

ShouldSend(s) == s.sent # "recent" /\ ~s.attempted

(* Each alert is noted as present, and mailed if it is time. *)
Observes(c, q) ==
  /\ dash[c].pc = "mail" /\ dash[c].sending = {} /\ q \in dash[c].todo
  /\ IF ShouldSend(st[q])
     THEN dash' = [dash EXCEPT ![c].sending = {q}] /\ UNCHANGED st
     ELSE /\ dash' = [dash EXCEPT ![c].todo = dash[c].todo \ {q}]
          /\ st' = [st EXCEPT ![q].absent = "no"]
  /\ UNCHANGED <<source, world, saved, inFlight, mails, events>>

(* What becomes of a mail: the server takes it and says so, or does not    *)
(* take it, or takes it after DATA and its answer is lost.                 *)
Outcome == {"sent", "failed", "lost"}
Taken   == {"sent", "lost"}

(* The entry after an attempt counts as mailed, whatever came of it. *)
Attempted_Sent(s, o) == [s EXCEPT !.absent = "no", !.attempted = TRUE, !.sent = "recent"]

(* The entry after an attempt to mail an alert that is present. *)
Attempted(s, o) == [s EXCEPT !.absent = "no", !.attempted = TRUE,
                             !.sent = IF o = "sent" THEN "recent" ELSE s.sent]

AlertSent(c, q, o) ==
  /\ dash[c].pc = "mail" /\ dash[c].sending = {q}
  /\ st' = [st EXCEPT ![q] = Attempted(st[q], o)]
  /\ mailed' = [mailed EXCEPT ![q] = IF o \in Taken THEN "new" ELSE mailed[q]]
  /\ fresh' = [fresh EXCEPT ![q] = IF o \in Taken THEN fresh[q] + 1 ELSE fresh[q]]
  /\ unsure' = CASE o = "sent" -> unsure \ {q}
                 [] o = "lost" /\ st[q].sent = "never" -> unsure \cup {q}
                 [] OTHER -> unsure
  /\ dash' = [dash EXCEPT ![c].sending = {}, ![c].todo = dash[c].todo \ {q}]

(* Then the entries of mailed alerts that this dashboard did not show. *)
NotifyRecoveries(c) ==
  /\ dash[c].pc = "mail" /\ dash[c].todo = {}
  /\ dash' = [dash EXCEPT ![c].pc = "recover",
                          ![c].todo = {q \in Key \ dash[c].seen : st[q].sent # "never"}]
  /\ UNCHANGED <<source, world, st, saved, inFlight, mails, events>>

(* Recoveries are told within an hour of the mail only. *)
RecoveryDue_Recent(s) == s.absent = "old" /\ ~s.tried /\ s.sent = "recent"

(* Absent for two minutes, and no attempt within five. *)
RecoveryDue(s) == s.absent = "old" /\ ~s.tried

Misses(c, q) ==
  /\ dash[c].pc = "recover" /\ dash[c].sending = {} /\ q \in dash[c].todo
  /\ IF RecoveryDue(st[q])
     THEN dash' = [dash EXCEPT ![c].sending = {q}] /\ UNCHANGED st
     ELSE /\ dash' = [dash EXCEPT ![c].todo = dash[c].todo \ {q}]
          /\ st' = [st EXCEPT ![q].absent = IF st[q].absent = "no" THEN "recent" ELSE st[q].absent]
  /\ UNCHANGED <<source, world, saved, inFlight, mails, events>>

(* The entry is removed with the mail, or the attempt is noted. *)
Recovered(s, o) == IF o = "sent" THEN NoState ELSE [s EXCEPT !.tried = TRUE]

RecoverySent(c, q, o) ==
  /\ dash[c].pc = "recover" /\ dash[c].sending = {q}
  /\ st' = [st EXCEPT ![q] = Recovered(st[q], o)]
  /\ mailed' = [mailed EXCEPT ![q] = IF o \in Taken THEN "recovered" ELSE mailed[q]]
  /\ fresh' = [fresh EXCEPT ![q] = IF o = "sent" THEN 0 ELSE fresh[q]]
  /\ unsure' = CASE o = "sent" -> unsure \ {q}
                 [] o = "lost" -> unsure \cup {q}
                 [] OTHER -> unsure
  /\ dash' = [dash EXCEPT ![c].sending = {}, ![c].todo = dash[c].todo \ {q}]

(* sendSmtpMessage: while the server is up a mail fails, or its answer is  *)
(* lost, only by an event.                                                 *)
Sends(c, q, o) ==
  /\ AlertSent(c, q, o) \/ RecoverySent(c, q, o)
  /\ o \in Taken => smtpUp
  /\ IF o = "sent" \/ ~smtpUp THEN UNCHANGED events
     ELSE events < MaxEvents /\ events' = events + 1
  /\ UNCHANGED <<source, world, saved, inFlight>>

(* The flag stays set when the file cannot be written. *)
NotifyEnds_Stuck(ok) == inFlight' = ~ok

(* The finally block. *)
NotifyEnds(ok) == inFlight' = FALSE

(* persistSmtpAlertStates, which a full disk makes throw. *)
Persists(c, ok) ==
  /\ dash[c].pc = "recover" /\ dash[c].todo = {}
  /\ ok \/ events < MaxEvents
  /\ events' = IF ok THEN events ELSE events + 1
  /\ saved' = IF ok THEN st ELSE saved
  /\ NotifyEnds(ok)
  /\ dash' = [dash EXCEPT ![c] = NoDash]
  /\ UNCHANGED <<source, world, st, mails>>

(* PATCH /api/settings/smtp, which may throw and then writes nothing. *)
WriteSmtpSettings(on) ==
  /\ events < MaxEvents /\ events' = events + 1
  /\ enabled' = on
  /\ UNCHANGED <<source, listed, smtpUp, mailer, mails>>

(***************************************************************************)
(* Time, faults and conditions                                             *)
(***************************************************************************)
(* After five minutes a mail that was not acknowledged is tried again. *)
FiveMinutes(q) ==
  /\ st[q].attempted \/ st[q].tried \/ st[q].absent = "recent"
  /\ st' = [st EXCEPT ![q].attempted = FALSE, ![q].tried = FALSE,
                      ![q].absent = IF st[q].absent = "recent" THEN "old" ELSE st[q].absent]
  /\ fresh' = [fresh EXCEPT ![q] = IF st[q].sent = "recent" THEN fresh[q] ELSE 0]
  /\ UNCHANGED <<source, world, saved, inFlight, dash, mailed, unsure, events>>

Hour(q) ==
  /\ st[q].sent = "recent" /\ ~st[q].attempted
  /\ st' = [st EXCEPT ![q].sent = "old"]
  /\ fresh' = [fresh EXCEPT ![q] = 0]
  /\ UNCHANGED <<source, world, saved, inFlight, dash, mailed, unsure, events>>

ConditionChanges(k) ==
  /\ events < MaxEvents /\ events' = events + 1
  /\ cond' = IF k \in cond THEN cond \ {k} ELSE cond \cup {k}
  /\ UNCHANGED <<rows, tick, world, mailer, mails>>

(* TronFire stops answering, or more than 20 newer rows hide the others. *)
Unlisted ==
  /\ listed /\ listed' = FALSE /\ events < MaxEvents /\ events' = events + 1
  /\ UNCHANGED <<source, smtpUp, enabled, mailer, mails>>

Listed ==
  /\ ~listed /\ listed' = TRUE
  /\ UNCHANGED <<source, smtpUp, enabled, mailer, mails, events>>

SmtpStops ==
  /\ smtpUp /\ smtpUp' = FALSE /\ events < MaxEvents /\ events' = events + 1
  /\ UNCHANGED <<source, listed, enabled, mailer, mails>>

SmtpReturns ==
  /\ ~smtpUp /\ smtpUp' = TRUE
  /\ UNCHANGED <<source, listed, enabled, mailer, mails, events>>

(* The service restarts and reads the file. *)
Crash ==
  /\ events < MaxEvents /\ events' = events + 1
  /\ st' = saved /\ inFlight' = FALSE /\ dash' = [c \in Caller |-> NoDash]
  /\ unsure' = {q \in Key : (mailed[q] = "new") # (saved[q].sent # "never")}
  /\ fresh' = [q \in Key |-> 0]
  /\ UNCHANGED <<source, world, saved, mailed>>

(***************************************************************************)
(* Specification                                                           *)
(***************************************************************************)
TickStep(p) ==
  \/ CollectorResolves(p) \/ CollectorReadsNothing(p) \/ CreateAlertOnceFinds(p) \/ CreateAlertOnceCreates(p)

DashStep(c) ==
  \/ \E n \in 0..Seconds : Dashboard(c, n)
  \/ NotifyReturns(c) \/ NotifyStarts(c) \/ NotifyRecoveries(c)
  \/ \E q \in Key : Observes(c, q) \/ Misses(c, q)
  \/ \E q \in Key, o \in Outcome : Sends(c, q, o)
  \/ \E ok \in BOOLEAN : Persists(c, ok)

Next ==
  \/ \E p \in Tick, t \in Tf : CollectMetrics(p, t)
  \/ \E p \in Tick : TickStep(p)
  \/ \E c \in Caller : DashStep(c)
  \/ \E t \in Tf : OperatorResolves(t)
  \/ \E on \in BOOLEAN : WriteSmtpSettings(on)
  \/ \E q \in Key : FiveMinutes(q) \/ Hour(q)
  \/ \E k \in Alert : ConditionChanges(k)
  \/ Unlisted \/ Listed \/ SmtpStops \/ SmtpReturns \/ Crash

Spec == Init /\ [][Next]_vars

(* Awaited calls end, every round of the worker takes each type of alert   *)
(* (strong fairness, as they share the run), TronFire and the mail server  *)
(* come back, and dashboards are requested for ever: by the Central agent  *)
(* every two minutes if it is enabled, else by an open panel.              *)
Fairness ==
  /\ \A p \in Tick : WF_vars(TickStep(p)) /\ \A t \in Tf : SF_vars(CollectMetrics(p, t))
  /\ \A c \in Caller : WF_vars(DashStep(c))
  /\ \A q \in Key : WF_vars(FiveMinutes(q) \/ Hour(q))
  /\ WF_vars(Listed \/ SmtpReturns)

FairSpec == Spec /\ Fairness

(***************************************************************************)
(* Properties                                                              *)
(***************************************************************************)
(* The entries tell what has been mailed: none says so of an alert that    *)
(* was never mailed, and an alert has been mailed and not recovered        *)
(* exactly if its entry says so, unless the service died between the mail  *)
(* and the end of its pass or the answer of the server was lost.           *)
EntryIsMail ==
  /\ \A q \in Key : st[q].sent # "never" => mailed[q] # "none"
  /\ \A q \in Key \ unsure : mailed[q] = "new" <=> st[q].sent # "never"

(* However many dashboards are requested together, a message is mailed     *)
(* once before its recovery, before a reminder is due and, if the server's *)
(* answer was lost, before the five minutes of a retry.  A countdown is    *)
(* another message every second.                                           *)
OneMailAnHour == \A q \in Key : fresh[q] <= 1

(* What a reader of the mails expects: one mail for an alert that lasts,    *)
(* whatever number its message holds.  Violated by the countdown of an     *)
(* automatic failover.                                                     *)
OneMailPerAlert == \A k \in Counting : \A q, z \in KeysOf(k) : q # z => fresh[q] + fresh[z] <= 1

(* A critical condition that lasts is mailed, whatever fails in between    *)
(* and whatever its message counts.                                        *)
MailArrives ==
  \A k \in Alert : k \in cond ~>
     (\E q \in KeysOf(k) : mailed[q] = "new") \/ k \notin cond \/ ~enabled

(* An alert that was mailed and ends is mailed as recovered, unless the    *)
(* service cannot know of the mail.                                        *)
RecoveryArrives ==
  \A q \in Key : mailed[q] = "new" ~>
     mailed[q] = "recovered" \/ q[1] \in cond \/ (q[1] \in Tf /\ rows[q[1]] > 0) \/ ~enabled \/ q \in unsure

(* The row of a condition that ended goes away by itself, the one that a   *)
(* slower collector creates after the end included.                        *)
RowEnds == \A t \in AutoEnds : rows[t] > 0 ~> rows[t] = 0 \/ t \in cond
=============================================================================
