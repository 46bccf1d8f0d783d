--------------------------- MODULE AlertMailProofs ---------------------------
(***************************************************************************)
(* Proofs about AlertMail, for any alerts, ticks of the worker, dashboards *)
(* and events: what the entries say was mailed, and nothing is mailed      *)
(* twice.                                                                  *)
(***************************************************************************)
EXTENDS AlertMail, TLAPS

CoreType ==
  /\ st \in [Key -> State] /\ saved \in [Key -> State] /\ inFlight \in BOOLEAN
  /\ dash \in [Caller -> Dash]
  /\ mailed \in [Key -> {"none", "new", "recovered"}] /\ fresh \in [Key -> Nat]

Passes(c) == dash[c].pc \in {"mail", "recover"}

(* One pass at a time; what it sends is what is left to do, and an alert   *)
(* that is being mailed has not been mailed within the hour.               *)
OnePass ==
  /\ \A c \in Caller : Passes(c) => inFlight
  /\ \A c \in Caller, e \in Caller : Passes(c) /\ Passes(e) => c = e

SendOK(c) ==
  /\ dash[c].sending \subseteq dash[c].todo
  /\ ~Passes(c) => dash[c].sending = {}
  /\ dash[c].pc = "mail" => \A k \in dash[c].sending : ShouldSend(st[k])

FreshOK == \A k \in Key : fresh[k] = 0 \/ (fresh[k] = 1 /\ ~ShouldSend(st[k]))

(* What the file says was mailed has been mailed. *)
SavedMailed == \A k \in Key : saved[k].sent # "never" => mailed[k] # "none"

MailInv ==
  /\ CoreType /\ OnePass /\ (\A c \in Caller : SendOK(c))
  /\ FreshOK /\ EntryIsMail /\ SavedMailed

LEMMA Values == NoState \in State /\ NoState.sent = "never"
                /\ NoDash \in Dash /\ NoDash.pc = "idle" /\ NoDash.sending = {} /\ NoDash.todo = {}
BY DEF NoState, State, NoDash, Dash

LEMMA MailInit == Init => MailInv
<1> SUFFICES ASSUME Init PROVE MailInv
  OBVIOUS
<1>1. /\ st = [k \in Key |-> NoState] /\ saved = st /\ inFlight = FALSE
      /\ dash = [c \in Caller |-> NoDash] /\ mailed = [k \in Key |-> "none"]
      /\ fresh = [k \in Key |-> 0]
  BY DEF Init
<1>2. CoreType
  BY <1>1, Values DEF CoreType
<1>3. OnePass /\ \A c \in Caller : SendOK(c)
  BY <1>1, Values DEF OnePass, SendOK, Passes
<1>4. FreshOK /\ EntryIsMail /\ SavedMailed
  BY <1>1, Values DEF FreshOK, EntryIsMail, SavedMailed
<1> QED
  BY <1>2, <1>3, <1>4 DEF MailInv

(* A step that changes no entry's answer to whether it was mailed. *)
LEMMA SentSame ==
  ASSUME MailInv, CoreType', OnePass', \A c \in Caller : SendOK(c)',
         \A k \in Key : st'[k].sent = st[k].sent /\ st'[k].attempted = st[k].attempted,
         saved' = st \/ saved' = saved, UNCHANGED <<mailed, unsure, fresh>>
  PROVE  MailInv'
<1>1. FreshOK' /\ EntryIsMail' /\ SavedMailed'
  BY DEF MailInv, FreshOK, EntryIsMail, SavedMailed, ShouldSend
<1> QED
  BY <1>1 DEF MailInv

LEMMA NothingMailed ==
  ASSUME MailInv, UNCHANGED <<mailer, mails>>
  PROVE  MailInv'
BY DEF MailInv, CoreType, OnePass, Passes, SendOK, FreshOK, EntryIsMail, SavedMailed, mailer, mails

(* One dashboard moves. *)
LEMMA DashMoves ==
  ASSUME MailInv, NEW c \in Caller, NEW n \in Dash, dash' = [dash EXCEPT ![c] = n],
         inFlight' \in BOOLEAN,
         n.pc \in {"mail", "recover"} =>
           inFlight' /\ \A e \in Caller \ {c} : ~Passes(e),
         n.pc \notin {"mail", "recover"} =>
           (inFlight' = inFlight \/ Passes(c)),
         n.sending \subseteq n.todo, n.pc \notin {"mail", "recover"} => n.sending = {},
         n.pc = "mail" => \A k \in n.sending : ShouldSend(st'[k]),
         \A e \in Caller \ {c} : Passes(e) => UNCHANGED st
  PROVE  dash' \in [Caller -> Dash] /\ OnePass' /\ \A e \in Caller : SendOK(e)'
<1>1. /\ dash' \in [Caller -> Dash] /\ dash'[c] = n
      /\ \A e \in Caller \ {c} : dash'[e] = dash[e]
  BY DEF MailInv, CoreType
<1>2. OnePass /\ \A e \in Caller : SendOK(e)
  BY DEF MailInv
<1>3. OnePass'
  BY <1>1, <1>2 DEF OnePass, Passes
<1>4. SendOK(c)'
  BY <1>1 DEF SendOK, Passes
<1>5. ASSUME NEW e \in Caller \ {c} PROVE SendOK(e)'
  BY <1>1, <1>2, <1>5 DEF SendOK, Passes
<1> QED
  BY <1>1, <1>3, <1>4, <1>5

LEMMA DashFields ==
  ASSUME MailInv, NEW c \in Caller
  PROVE  /\ dash[c] \in Dash /\ dash[c].seen \subseteq Key /\ dash[c].todo \subseteq Key
         /\ dash[c].sending \subseteq dash[c].todo /\ (~Passes(c) => dash[c].sending = {})
         /\ dash[c].pc \in {"idle", "notify", "mail", "recover"}
<1>1. dash[c] \in Dash /\ SendOK(c)
  BY DEF MailInv, CoreType
<1> QED
  BY <1>1 DEF Dash, SendOK

(* While a pass of c is under way there is no other. *)
LEMMA PassAlone ==
  ASSUME MailInv, NEW c \in Caller, Passes(c)
  PROVE  inFlight /\ \A e \in Caller \ {c} : ~Passes(e)
BY DEF MailInv, OnePass

LEMMA DashboardInv ==
  ASSUME MailInv, NEW c \in Caller, NEW i \in 0..Seconds, Dashboard(c, i)
  PROVE  MailInv'
<1> DEFINE seen == {SmtpAlertKey(k, i) : k \in (cond \cap Host) \cup TronfireAlerts}
           n == [dash[c] EXCEPT !.pc = "notify", !.seen = seen]
<1>1. CoreType /\ dash \in [Caller -> Dash]
  BY DEF MailInv, CoreType
<1>2. dash[c] \in Dash /\ dash[c].pc = "idle" /\ dash[c].sending = {}
  BY DashFields DEF Dashboard, Passes
<1>3. dash' = [dash EXCEPT ![c] = n] /\ UNCHANGED <<st, saved, inFlight, mailed, unsure, fresh>>
  BY <1>1, <1>2 DEF Dashboard, mails
<1>4. seen \subseteq Key
  BY DEF TronfireAlerts, Alert, SmtpAlertKey, Key, KeysOf, MailAssumption
<1> HIDE DEF seen
<1>5. n \in Dash /\ n.pc = "notify" /\ n.sending = {}
  BY <1>2, <1>4 DEF Dash
<1> HIDE DEF n
<1>6. dash' \in [Caller -> Dash] /\ OnePass' /\ \A e \in Caller : SendOK(e)'
  BY <1>1, <1>3, <1>5, DashMoves DEF CoreType
<1>7. CoreType'
  BY <1>1, <1>3, <1>6 DEF CoreType
<1> QED
  BY <1>3, <1>6, <1>7, SentSame

LEMMA ReturnsInv ==
  ASSUME MailInv, NEW c \in Caller, NotifyReturns(c)
  PROVE  MailInv'
<1>1. CoreType
  BY DEF MailInv
<1>2. dash' = [dash EXCEPT ![c] = NoDash] /\ UNCHANGED <<st, saved, inFlight, mailed, unsure, fresh>>
  BY DEF NotifyReturns, mails
<1>3. dash' \in [Caller -> Dash] /\ OnePass' /\ \A e \in Caller : SendOK(e)'
  BY <1>1, <1>2, Values, DashMoves DEF CoreType
<1>4. CoreType'
  BY <1>1, <1>2, <1>3 DEF CoreType
<1> QED
  BY <1>2, <1>3, <1>4, SentSame

LEMMA StartsInv ==
  ASSUME MailInv, NEW c \in Caller, NotifyStarts(c)
  PROVE  MailInv'
<1> DEFINE n == [dash[c] EXCEPT !.pc = "mail", !.todo = dash[c].seen]
<1>1. CoreType /\ OnePass /\ dash \in [Caller -> Dash]
  BY DEF MailInv, CoreType
<1>2. /\ dash[c] \in Dash /\ dash[c].pc = "notify" /\ dash[c].sending = {} /\ ~inFlight
      /\ dash[c].seen \subseteq Key
  BY DashFields DEF NotifyStarts, Passes, MayNotify
<1>3. dash' = [dash EXCEPT ![c] = n] /\ inFlight' /\ UNCHANGED <<st, saved, mailed, unsure, fresh>>
  BY <1>1, <1>2 DEF NotifyStarts, mails
<1>4. inFlight' \in BOOLEAN
  BY DEF NotifyStarts
<1>5. n \in Dash /\ n.pc = "mail" /\ n.sending = {}
  BY <1>2 DEF Dash
<1> HIDE DEF n
<1>6. \A e \in Caller : ~Passes(e)
  BY <1>1, <1>2 DEF OnePass
<1>7. dash' \in [Caller -> Dash] /\ OnePass' /\ \A e \in Caller : SendOK(e)'
  BY <1>3, <1>4, <1>5, <1>6, DashMoves
<1>8. CoreType'
  BY <1>1, <1>3, <1>4, <1>7 DEF CoreType
<1> QED
  BY <1>3, <1>7, <1>8, SentSame

(* A change of an entry that keeps when it was mailed. *)
LEMMA EntryKept ==
  ASSUME CoreType, NEW k \in Key, NEW s \in State, s.sent = st[k].sent,
         s.attempted = st[k].attempted, st' = [st EXCEPT ![k] = s]
  PROVE  /\ st' \in [Key -> State]
         /\ \A x \in Key : st'[x].sent = st[x].sent /\ st'[x].attempted = st[x].attempted
BY DEF CoreType

(* The pass decides whether the alert or the recovery is mailed. *)
LEMMA DecidesInv ==
  ASSUME MailInv, NEW c \in Caller, NEW k \in Key, Observes(c, k) \/ Misses(c, k)
  PROVE  MailInv'
<1>1. CoreType /\ dash \in [Caller -> Dash] /\ st \in [Key -> State] /\ st[k] \in State
  BY DEF MailInv, CoreType
<1>2. /\ Passes(c) /\ dash[c].sending = {} /\ k \in dash[c].todo
      /\ UNCHANGED <<saved, inFlight, mailed, unsure, fresh>>
  BY DEF Observes, Misses, Passes, mails
<1>3. inFlight /\ \A e \in Caller \ {c} : ~Passes(e)
  BY <1>2, PassAlone
<1>4. dash[c] \in Dash /\ dash[c].todo \subseteq Key
  BY DashFields
<1>5. PICK n \in {[dash[c] EXCEPT !.sending = {k}], [dash[c] EXCEPT !.todo = dash[c].todo \ {k}]} :
        /\ dash' = [dash EXCEPT ![c] = n]
        /\ n = [dash[c] EXCEPT !.sending = {k}] /\ dash[c].pc = "mail" => ShouldSend(st[k])
  <2>1. CASE dash' = [dash EXCEPT ![c].sending = {k}]
    BY <1>1, <1>4, <2>1 DEF Observes, Misses, Dash
  <2>2. CASE dash' = [dash EXCEPT ![c].todo = dash[c].todo \ {k}]
    <3>1. [dash[c] EXCEPT !.todo = dash[c].todo \ {k}] # [dash[c] EXCEPT !.sending = {k}]
      BY <1>2, <1>4 DEF Dash
    <3> QED
      BY <1>1, <1>4, <2>2, <3>1
  <2> QED
    BY <2>1, <2>2 DEF Observes, Misses
<1>6. /\ n \in Dash /\ n.pc = dash[c].pc /\ n.sending \subseteq n.todo /\ n.sending \subseteq {k}
      /\ n.sending # {} => n = [dash[c] EXCEPT !.sending = {k}]
  BY <1>2, <1>4, <1>5 DEF Dash
<1>7. PICK a \in {"no", "recent", "old"} :
        st' = st \/ st' = [st EXCEPT ![k] = [st[k] EXCEPT !.absent = a]]
  <2>1. st[k].absent \in {"no", "recent", "old"}
    BY <1>1 DEF State
  <2> QED
    BY <1>1, <2>1 DEF Observes, Misses
<1>8. /\ st' \in [Key -> State]
      /\ \A x \in Key : st'[x].sent = st[x].sent /\ st'[x].attempted = st[x].attempted
  <2>1. /\ [st[k] EXCEPT !.absent = a] \in State
        /\ [st[k] EXCEPT !.absent = a].sent = st[k].sent
        /\ [st[k] EXCEPT !.absent = a].attempted = st[k].attempted
    BY <1>1 DEF State
  <2> QED
    BY <1>1, <1>7, <2>1, EntryKept
<1>9. n.pc = "mail" => \A x \in n.sending : ShouldSend(st'[x])
  BY <1>5, <1>6, <1>8 DEF ShouldSend
<1>10. n.pc \in {"mail", "recover"} /\ inFlight' \in BOOLEAN /\ inFlight'
  BY <1>1, <1>2, <1>3, <1>6 DEF Passes, CoreType
<1>11. dash' \in [Caller -> Dash] /\ OnePass' /\ \A e \in Caller : SendOK(e)'
  BY <1>3, <1>5, <1>6, <1>9, <1>10, DashMoves
<1>12. CoreType'
  BY <1>1, <1>2, <1>8, <1>11 DEF CoreType
<1> QED
  BY <1>2, <1>8, <1>11, <1>12, SentSame

LEMMA RecoveriesInv ==
  ASSUME MailInv, NEW c \in Caller, NotifyRecoveries(c)
  PROVE  MailInv'
<1> DEFINE t == {k \in Key \ dash[c].seen : st[k].sent # "never"}
           n == [dash[c] EXCEPT !.pc = "recover", !.todo = t]
<1>1. CoreType /\ dash \in [Caller -> Dash]
  BY DEF MailInv, CoreType
<1>2. /\ dash[c] \in Dash /\ Passes(c) /\ dash[c].sending = {}
      /\ UNCHANGED <<st, saved, inFlight, mailed, unsure, fresh>>
  BY DashFields DEF NotifyRecoveries, Passes, mails
<1>3. dash' = [dash EXCEPT ![c] = n]
  BY <1>1, <1>2 DEF NotifyRecoveries
<1>4. t \subseteq Key
  OBVIOUS
<1> HIDE DEF t
<1>5. n \in Dash /\ n.pc = "recover" /\ n.sending = {}
  BY <1>2, <1>4 DEF Dash
<1> HIDE DEF n
<1>6. inFlight' /\ inFlight' \in BOOLEAN /\ \A e \in Caller \ {c} : ~Passes(e)
  BY <1>1, <1>2, PassAlone DEF CoreType
<1>7. dash' \in [Caller -> Dash] /\ OnePass' /\ \A e \in Caller : SendOK(e)'
  BY <1>3, <1>5, <1>6, DashMoves
<1>8. CoreType'
  BY <1>1, <1>2, <1>7 DEF CoreType
<1> QED
  BY <1>2, <1>7, <1>8, SentSame

(* A mail of the pass of c is accepted, fails, or its answer is lost. *)
LEMMA SendsInv ==
  ASSUME MailInv, NEW c \in Caller, NEW k \in Key, NEW o \in Outcome, Sends(c, k, o)
  PROVE  MailInv'
<1> DEFINE n == [dash[c] EXCEPT !.sending = {}, !.todo = dash[c].todo \ {k}]
<1>1. /\ CoreType /\ dash \in [Caller -> Dash] /\ st \in [Key -> State] /\ st[k] \in State
      /\ fresh \in [Key -> Nat] /\ mailed \in [Key -> {"none", "new", "recovered"}]
      /\ FreshOK /\ EntryIsMail /\ SavedMailed
  BY DEF MailInv, CoreType
<1>2. Passes(c) /\ dash[c].sending = {k} /\ UNCHANGED <<saved, inFlight>>
  BY DEF Sends, AlertSent, RecoverySent, Passes
<1>3. dash[c] \in Dash /\ dash[c].todo \subseteq Key
  BY DashFields
<1>4. dash' = [dash EXCEPT ![c] = n]
  BY <1>1, <1>3 DEF Sends, AlertSent, RecoverySent
<1>5. n \in Dash /\ n.pc = dash[c].pc /\ n.sending = {}
  BY <1>3 DEF Dash
<1> HIDE DEF n
<1>6. inFlight' /\ inFlight' \in BOOLEAN /\ \A e \in Caller \ {c} : ~Passes(e)
  BY <1>1, <1>2, PassAlone DEF CoreType
<1>7. dash' \in [Caller -> Dash] /\ OnePass' /\ \A e \in Caller : SendOK(e)'
  BY <1>2, <1>4, <1>5, <1>6, DashMoves DEF Passes
<1>8. ASSUME NEW s \in State, st' = [st EXCEPT ![k] = s], NEW m \in {"none", "new", "recovered"},
             mailed' = [mailed EXCEPT ![k] = m], NEW f \in Nat, fresh' = [fresh EXCEPT ![k] = f],
             f = 0 \/ (f = 1 /\ ~ShouldSend(s)),
             unsure' \in {unsure \ {k}, unsure, unsure \cup {k}},
             s.sent # "never" => m # "none", m = "none" => mailed[k] = "none",
             k \notin unsure' => (m = "new" <=> s.sent # "never")
      PROVE  MailInv'
  <2>1. /\ st' \in [Key -> State] /\ mailed' \in [Key -> {"none", "new", "recovered"}]
        /\ fresh' \in [Key -> Nat]
        /\ st'[k] = s /\ mailed'[k] = m /\ fresh'[k] = f
        /\ \A x \in Key \ {k} : st'[x] = st[x] /\ mailed'[x] = mailed[x] /\ fresh'[x] = fresh[x]
    BY <1>1, <1>8
  <2>2. CoreType'
    BY <1>1, <1>2, <1>7, <2>1 DEF CoreType
  <2>3. FreshOK'
    BY <1>1, <1>8, <2>1 DEF FreshOK
  <2>4. EntryIsMail'
    <3>1. \A x \in Key : st'[x].sent # "never" => mailed'[x] # "none"
      BY <1>1, <1>8, <2>1 DEF EntryIsMail
    <3>2. \A x \in Key \ unsure' : mailed'[x] = "new" <=> st'[x].sent # "never"
      BY <1>1, <1>8, <2>1 DEF EntryIsMail
    <3> QED
      BY <3>1, <3>2 DEF EntryIsMail
  <2>5. SavedMailed'
    BY <1>1, <1>2, <1>8, <2>1 DEF SavedMailed
  <2> QED
    BY <1>7, <2>2, <2>3, <2>4, <2>5 DEF MailInv
<1>9. /\ k \notin unsure => (mailed[k] = "new" <=> st[k].sent # "never")
      /\ st[k].sent # "never" => mailed[k] # "none"
      /\ fresh[k] = 0 \/ (fresh[k] = 1 /\ ~ShouldSend(st[k]))
      /\ mailed[k] \in {"none", "new", "recovered"} /\ fresh[k] \in Nat
  BY <1>1 DEF EntryIsMail, FreshOK
<1>10. CASE AlertSent(c, k, o)
  <2> DEFINE s == Attempted(st[k], o)
  <2>1. dash[c].pc = "mail" /\ SendOK(c)
    BY <1>10 DEF AlertSent, MailInv
  <2>2. ShouldSend(st[k])
    BY <1>2, <2>1 DEF SendOK
  <2>3. fresh[k] = 0
    BY <1>9, <2>2
  <2>4. s \in State /\ ~ShouldSend(s) /\ s.sent = IF o = "sent" THEN "recent" ELSE st[k].sent
    BY <1>1 DEF Attempted, State, ShouldSend
  <2>5. st' = [st EXCEPT ![k] = s]
    BY <1>10 DEF AlertSent
  <2> HIDE DEF s
  <2>6. CASE o = "sent"
    <3>1. /\ mailed' = [mailed EXCEPT ![k] = "new"] /\ fresh' = [fresh EXCEPT ![k] = 1]
          /\ unsure' = unsure \ {k}
      BY <1>10, <2>3, <2>6 DEF AlertSent, Taken
    <3> QED
      BY <1>8, <2>4, <2>5, <2>6, <3>1
  <2>7. CASE o = "lost"
    <3>1. /\ mailed' = [mailed EXCEPT ![k] = "new"] /\ fresh' = [fresh EXCEPT ![k] = 1]
          /\ unsure' = IF st[k].sent = "never" THEN unsure \cup {k} ELSE unsure
      BY <1>10, <2>3, <2>7 DEF AlertSent, Taken
    <3>2. k \notin unsure' => s.sent # "never"
      BY <2>4, <2>7, <3>1
    <3> QED
      BY <1>8, <2>4, <2>5, <3>1, <3>2
  <2>8. CASE o = "failed"
    <3>1. /\ mailed' = [mailed EXCEPT ![k] = mailed[k]] /\ fresh' = [fresh EXCEPT ![k] = 0]
          /\ unsure' = unsure
      BY <1>10, <2>3, <2>8 DEF AlertSent, Taken
    <3> QED
      BY <1>8, <1>9, <2>4, <2>5, <2>8, <3>1
  <2> QED
    BY <2>6, <2>7, <2>8 DEF Outcome
<1>11. CASE RecoverySent(c, k, o)
  <2>1. CASE o = "sent"
    <3>1. /\ st' = [st EXCEPT ![k] = NoState]
          /\ mailed' = [mailed EXCEPT ![k] = "recovered"] /\ fresh' = [fresh EXCEPT ![k] = 0]
          /\ unsure' = unsure \ {k}
      BY <1>11, <2>1 DEF RecoverySent, Recovered, Taken
    <3> QED
      BY <1>8, <3>1, Values
  <2>2. CASE o # "sent"
    <3> DEFINE s == [st[k] EXCEPT !.tried = TRUE]
    <3>1. st' = [st EXCEPT ![k] = s] /\ fresh' = [fresh EXCEPT ![k] = fresh[k]]
      BY <1>11, <2>2 DEF RecoverySent, Recovered
    <3>2. s \in State /\ s.sent = st[k].sent /\ s.attempted = st[k].attempted
      BY <1>1 DEF State
    <3> HIDE DEF s
    <3>3. fresh[k] = 0 \/ (fresh[k] = 1 /\ ~ShouldSend(s))
      BY <1>9, <3>2 DEF ShouldSend
    <3>4. CASE o = "lost"
      <4>1. mailed' = [mailed EXCEPT ![k] = "recovered"] /\ unsure' = unsure \cup {k}
        BY <1>11, <3>4 DEF RecoverySent, Taken
      <4> QED
        BY <1>8, <1>9, <3>1, <3>2, <3>3, <4>1
    <3>5. CASE o = "failed"
      <4>1. mailed' = [mailed EXCEPT ![k] = mailed[k]] /\ unsure' = unsure
        BY <1>11, <3>5 DEF RecoverySent, Taken
      <4> QED
        BY <1>8, <1>9, <3>1, <3>2, <3>3, <4>1
    <3> QED
      BY <2>2, <3>4, <3>5 DEF Outcome
  <2> QED
    BY <2>1, <2>2
<1> QED
  BY <1>10, <1>11 DEF Sends

LEMMA PersistsInv ==
  ASSUME MailInv, NEW c \in Caller, NEW ok \in BOOLEAN, Persists(c, ok)
  PROVE  MailInv'
<1>1. CoreType
  BY DEF MailInv
<1>2. /\ Passes(c) /\ inFlight' = FALSE /\ dash' = [dash EXCEPT ![c] = NoDash]
      /\ saved' = st \/ saved' = saved
      /\ UNCHANGED <<st, mailed, unsure, fresh>>
  BY DEF Persists, Passes, NotifyEnds, mails
<1>3. dash' \in [Caller -> Dash] /\ OnePass' /\ \A e \in Caller : SendOK(e)'
  BY <1>2, Values, DashMoves
<1>4. CoreType'
  BY <1>1, <1>2, <1>3 DEF CoreType
<1> QED
  BY <1>2, <1>3, <1>4, SentSame

(* Time passes for one entry: it may be mailed again if its count starts anew. *)
LEMMA TimeInv ==
  ASSUME MailInv, NEW k \in Key, NEW s \in State, st' = [st EXCEPT ![k] = s],
         s.sent # "never" <=> st[k].sent # "never", ShouldSend(st[k]) => ShouldSend(s),
         NEW f \in Nat, fresh' = [fresh EXCEPT ![k] = f],
         f = 0 \/ (f = fresh[k] /\ ~ShouldSend(s)),
         UNCHANGED <<saved, inFlight, dash, mailed, unsure>>
  PROVE  MailInv'
<1>1. CoreType /\ st \in [Key -> State] /\ fresh \in [Key -> Nat]
  BY DEF MailInv, CoreType
<1>2. /\ st' \in [Key -> State] /\ fresh' \in [Key -> Nat] /\ st'[k] = s /\ fresh'[k] = f
      /\ \A x \in Key \ {k} : st'[x] = st[x] /\ fresh'[x] = fresh[x]
  BY <1>1
<1>3. CoreType'
  BY <1>1, <1>2 DEF CoreType
<1>4. ASSUME NEW c \in Caller PROVE SendOK(c)'
  <2>1. SendOK(c) /\ dash[c].sending \subseteq Key
    BY DashFields DEF MailInv
  <2> QED
    BY <1>2, <2>1 DEF SendOK, Passes
<1>5. OnePass'
  BY DEF MailInv, OnePass, Passes
<1>6. FreshOK'
  BY <1>2 DEF MailInv, FreshOK
<1>7. EntryIsMail' /\ SavedMailed'
  BY <1>2 DEF MailInv, EntryIsMail, SavedMailed
<1> QED
  BY <1>3, <1>4, <1>5, <1>6, <1>7 DEF MailInv

LEMMA FiveMinutesInv ==
  ASSUME MailInv, NEW k \in Key, FiveMinutes(k)
  PROVE  MailInv'
<1> DEFINE s == [st[k] EXCEPT !.attempted = FALSE, !.tried = FALSE,
                   !.absent = IF st[k].absent = "recent" THEN "old" ELSE st[k].absent]
           f == IF st[k].sent = "recent" THEN fresh[k] ELSE 0
<1>1. st \in [Key -> State] /\ st[k] \in State /\ fresh[k] \in Nat
  BY DEF MailInv, CoreType
<1>2. /\ st' = [st EXCEPT ![k] = s] /\ fresh' = [fresh EXCEPT ![k] = f]
      /\ UNCHANGED <<saved, inFlight, dash, mailed, unsure>>
  BY <1>1 DEF FiveMinutes
<1>3. s \in State /\ s.sent = st[k].sent /\ (ShouldSend(st[k]) => ShouldSend(s))
      /\ (st[k].sent = "recent" => ~ShouldSend(s))
  BY <1>1 DEF State, ShouldSend
<1>4. f \in Nat /\ (f = 0 \/ (f = fresh[k] /\ ~ShouldSend(s)))
  BY <1>1, <1>3
<1> HIDE DEF s, f
<1> QED
  BY <1>2, <1>3, <1>4, TimeInv

LEMMA HourInv ==
  ASSUME MailInv, NEW k \in Key, Hour(k)
  PROVE  MailInv'
<1> DEFINE s == [st[k] EXCEPT !.sent = "old"]
<1>1. st \in [Key -> State] /\ st[k] \in State
  BY DEF MailInv, CoreType
<1>2. /\ st' = [st EXCEPT ![k] = s] /\ fresh' = [fresh EXCEPT ![k] = 0] /\ st[k].sent = "recent"
      /\ UNCHANGED <<saved, inFlight, dash, mailed, unsure>>
  BY <1>1 DEF Hour
<1>3. s \in State /\ s.sent = "old" /\ ~ShouldSend(st[k])
  BY <1>1, <1>2 DEF State, ShouldSend
<1> HIDE DEF s
<1> QED
  BY <1>2, <1>3, TimeInv

LEMMA CrashInv ==
  ASSUME MailInv, Crash
  PROVE  MailInv'
<1>1. CoreType
  BY DEF MailInv
<1>2. /\ st' = saved /\ inFlight' = FALSE /\ dash' = [c \in Caller |-> NoDash]
      /\ unsure' = {k \in Key : (mailed[k] = "new") # (saved[k].sent # "never")}
      /\ fresh' = [k \in Key |-> 0] /\ UNCHANGED <<saved, mailed>>
  BY DEF Crash
<1>3. CoreType'
  BY <1>1, <1>2, Values DEF CoreType
<1>4. OnePass' /\ \A c \in Caller : SendOK(c)'
  BY <1>2, Values DEF OnePass, SendOK, Passes
<1>5. FreshOK'
  BY <1>2 DEF FreshOK
<1>6. SavedMailed' /\ \A k \in Key : st'[k].sent # "never" => mailed'[k] # "none"
  BY <1>2 DEF MailInv, SavedMailed
<1>7. EntryIsMail'
  <2> SUFFICES ASSUME NEW k \in Key \ unsure'
               PROVE  mailed'[k] = "new" <=> st'[k].sent # "never"
    BY <1>6 DEF EntryIsMail
  <2>1. (mailed[k] = "new") = (saved[k].sent # "never")
    BY <1>2
  <2> QED
    BY <1>2, <2>1
<1> QED
  BY <1>3, <1>4, <1>5, <1>6, <1>7 DEF MailInv

LEMMA MailNext == MailInv /\ [Next]_vars => MailInv'
<1> SUFFICES ASSUME MailInv, [Next]_vars PROVE MailInv'
  OBVIOUS
<1>1. CASE \/ (\E p \in Tick, t \in Tf : CollectMetrics(p, t)) \/ (\E p \in Tick : TickStep(p))
           \/ (\E t \in Tf : OperatorResolves(t)) \/ (\E on \in BOOLEAN : WriteSmtpSettings(on))
           \/ (\E k \in Alert : ConditionChanges(k))
           \/ Unlisted \/ Listed \/ SmtpStops \/ SmtpReturns \/ UNCHANGED vars
  <2>1. UNCHANGED <<mailer, mails>>
    BY <1>1 DEF CollectMetrics, TickStep, CollectorResolves, CollectorReadsNothing, CreateAlertOnceFinds,
       CreateAlertOnceCreates, OperatorResolves, WriteSmtpSettings, ConditionChanges, Unlisted,
       Listed, SmtpStops, SmtpReturns, vars
  <2> QED
    BY <2>1, NothingMailed
<1>2. ASSUME NEW c \in Caller, DashStep(c) PROVE MailInv'
  BY <1>2, DashboardInv, ReturnsInv, StartsInv, DecidesInv, RecoveriesInv, SendsInv, PersistsInv
  DEF DashStep
<1>3. ASSUME NEW k \in Key, FiveMinutes(k) \/ Hour(k) PROVE MailInv'
  BY <1>3, FiveMinutesInv, HourInv
<1>4. CASE Crash
  BY <1>4, CrashInv
<1> QED
  BY <1>1, <1>2, <1>3, <1>4 DEF Next

(* For any alerts, dashboards and events: one pass of notifyCriticalAlerts *)
(* runs at a time, and a key that it sends was neither mailed within the   *)
(* hour nor tried within five minutes.                                     *)
THEOREM MailInvariant == Spec => []MailInv
BY MailInit, MailNext, PTL DEF Spec

(* For any instance: no entry of smtpAlertStates says that a message was   *)
(* mailed that never was, and an entry is right about what was mailed      *)
(* last, unless the service died or the answer after DATA was lost         *)
(* (EntryIsMail).                                                          *)
THEOREM EntrySafety == Spec => []EntryIsMail
<1>1. MailInv => EntryIsMail
  BY DEF MailInv
<1> QED
  BY <1>1, MailInvariant, PTL

(* For any number of dashboards requested together, and for messages that  *)
(* count: a key is mailed once before its recovery, before a reminder is   *)
(* due and, if the answer was lost, before a retry is (OneMailAnHour).     *)
THEOREM OneMailSafety == Spec => []OneMailAnHour
<1>1. MailInv => OneMailAnHour
  BY DEF MailInv, FreshOK, OneMailAnHour
<1> QED
  BY <1>1, MailInvariant, PTL
=============================================================================
