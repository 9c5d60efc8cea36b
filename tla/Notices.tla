------------------------------ MODULE Notices ------------------------------
(***************************************************************************)
(* What reaches one customer: notices made by the consumers of the outbox   *)
(* (createCommerceNotification), by the scheduled scans (claimRun,          *)
(* dispatchNotification) and by broadcasts; the pushes to their devices,    *)
(* Expo's tickets and receipts; the device, session and preference requests *)
(* of the customer, and their sockets on the API's nodes.  Expo and the     *)
(* browsers' push services answer as push.service.ts reads them.  Then the  *)
(* works that follow a change: who is told and mailed of it, in which order,*)
(* and whether what asks for it is forgotten before or after.               *)
(***************************************************************************)
EXTENDS Integers, Sequences, FiniteSets

CONSTANTS
  Requests,    \* numbers from 1
  Keys,        \* eventKeys
  Engagement,  \* those of type 'engagement', which the cap holds back
  Groups,      \* the groups a customer may switch off
  GroupOf,     \* [Engagement -> Groups]
  Tokens,      \* expoPushTokens, and endpoints of browsers
  Browsers,    \* a subset of Tokens
  Sessions,
  Customer,    \* [Sessions -> whose session]; the notices are those of "me"
  Cap,         \* DAILY_ENGAGEMENT_CAP
  MaxMishaps   \* bound on crashes, Redis failures, uninstalls, lapsed locks

VARIABLES
  notice,    \* [Keys -> row: made, pushed, read, id]
  buzzed,    \* [Keys -> times it was pushed]
  removed,   \* [Keys -> times the customer deleted it]
  wanted,    \* preferences.notifications.groups
  history,   \* the Broadcasts recorded
  device,    \* [Tokens -> DeviceToken: owner, session, active, greeted]
  greetings, \* [Tokens -> greetings pushed]
  works,     \* [Tokens -> the app is installed]
  tickets,   \* PushTickets: token and what Expo will say of it
  live,      \* the sessions not revoked
  locks,     \* job-run locks in Redis, by key, and the one of "schedule"
  chains,    \* the tick chains of the scheduled job
  due,       \* the works still asked for: an event pending, a change not made
  told,      \* <<work, whom>>: the rows of their notices, by eventKey
  leftOut,   \* <<work, whom>>: left out of a work that was finished (history)
  mailed,    \* <<work, whom>> mailed once, and <<work, whom, "again">>
  req,       \* [Requests -> a request: op, on, node, at, seen]
  mishaps

noticeVars == <<notice, buzzed, removed, wanted, history>>
deviceVars == <<device, greetings, works, tickets, live>>
workVars == <<due, told, leftOut, mailed, chains>>
noticesVars == <<noticeVars, deviceVars, locks, workVars, req, mishaps>>

Ask(op, on, node) == [op |-> op, on |-> on, node |-> node, at |-> "start", seen |-> {}]
NoDevice == [owner |-> "none", session |-> "none", active |-> FALSE, greeted |-> FALSE]

(* does[r] is what request r asks for; signed the devices signed in already *)
Init(does, signed) ==
  /\ notice = [k \in Keys |-> [made |-> FALSE, pushed |-> FALSE, read |-> FALSE, id |-> 0]]
  /\ buzzed = [k \in Keys |-> 0] /\ removed = [k \in Keys |-> 0]
  /\ wanted = [g \in Groups |-> TRUE] /\ history = {}
  /\ device = [t \in Tokens |-> IF t \in DOMAIN signed
                                THEN [owner |-> Customer[signed[t]], session |-> signed[t], active |-> TRUE, greeted |-> TRUE]
                                ELSE NoDevice]
  /\ greetings = [t \in Tokens |-> 0] /\ works = [t \in Tokens |-> TRUE]
  /\ tickets = {} /\ live = Sessions /\ locks = {}
  /\ due = {does[r].on : r \in {q \in Requests : does[q].op = "work"}} /\ told = {} /\ leftOut = {} /\ mailed = {}
  /\ chains = 0
  /\ req = [r \in Requests |-> does[r]] /\ mishaps = 0

Now(r, ops, at) == req[r].op \in ops /\ req[r].at = at
Goto(r, at) == req' = [req EXCEPT ![r] = [@ EXCEPT !.at = at]]
Remember(r, at, what) == req' = [req EXCEPT ![r] = [@ EXCEPT !.at = at, !.seen = what]]
Done(r) == Goto(r, "done")
Mine == {t \in Tokens : device[t].active /\ device[t].owner = "me"}
Mishap == mishaps < MaxMishaps /\ mishaps' = mishaps + 1

-----------------------------------------------------------------------------
(* A job runs a scan: not beside itself in a process, nor while the lock of *)
(* its last run holds; a Redis that fails lets it run                       *)
Running(r) == \E q \in Requests \ {r} :
                req[q].op = "scan" /\ req[q].on = req[r].on /\ req[q].node = req[r].node
                /\ req[q].at \notin {"start", "done", "off"}
ClaimRun(r) ==
  /\ Now(r, {"scan"}, "start")
  /\ \/ Running(r) /\ Done(r) /\ UNCHANGED <<locks, mishaps>>
     \/ /\ ~Running(r) /\ req[r].on \notin locks
        /\ locks' = locks \cup {req[r].on} /\ Goto(r, "scan") /\ UNCHANGED mishaps
     \/ ~Running(r) /\ req[r].on \in locks /\ Done(r) /\ UNCHANGED <<locks, mishaps>>
     \/ /\ ~Running(r) /\ Mishap /\ Goto(r, "check") /\ UNCHANGED locks
  /\ UNCHANGED <<noticeVars, deviceVars, workVars>>
(* 0.6 of the period is over, whether the run is or not                     *)
LockLapses(k) ==
  /\ k \in locks /\ locks' = locks \ {k} /\ Mishap /\ UNCHANGED <<noticeVars, deviceVars, req, workVars>>

(* the carts, negotiations, orders and phones it reads, and whether the one *)
(* of the key is due; an announcement and the likers of a product have no   *)
(* lock, and go to who has a phone                                          *)
Scan(r) ==
  /\ Now(r, {"scan"}, "scan") /\ (Goto(r, "check") \/ Done(r)) /\ UNCHANGED <<noticeVars, deviceVars, locks, mishaps, workVars>>
Announce(r) ==
  /\ Now(r, {"announce"}, "start") /\ Goto(r, IF Mine = {} THEN "done" ELSE "check")
  /\ UNCHANGED <<noticeVars, deviceVars, locks, mishaps, workVars>>

(* dispatchNotification: an engagement waits for the preferences, the quiet *)
(* hours and the cap, read before the row is made                           *)
WithinCap == Cardinality({k \in Engagement : notice[k].made /\ notice[k].pushed}) < Cap
Allowed(k) == k \in Engagement => wanted[GroupOf[k]] /\ WithinCap
Check(r) ==
  /\ Now(r, {"scan", "announce"}, "check")
  /\ \/ Allowed(req[r].on) /\ Goto(r, "insert")
     \/ ~Allowed(req[r].on) /\ Done(r)
     \/ req[r].on \in Engagement /\ Done(r)   \* deferred: a quiet hour
  /\ UNCHANGED <<noticeVars, deviceVars, locks, mishaps, workVars>>
(* the row of the eventKey, made once; only who made it pushes              *)
Row(k) == [made |-> TRUE, pushed |-> FALSE, read |-> FALSE, id |-> removed[k] + 1]
(* mutant: pushes for every delivery of the event                           *)
NewOrNot(k) == TRUE
IsNew(k) == ~notice[k].made
InsertNotice(r) ==
  LET k == req[r].on IN
  /\ Now(r, {"scan", "announce"}, "insert") \/ Now(r, {"consume"}, "start")
  /\ notice' = IF notice[k].made THEN notice ELSE [notice EXCEPT ![k] = Row(k)]
  /\ IF IsNew(k) THEN Remember(r, "push", {notice'[k].id}) ELSE Done(r)
  /\ UNCHANGED <<buzzed, removed, wanted, history, deviceVars, locks, mishaps, workVars>>

(* sendPushMessages: a ticket per device Expo accepts; a device it refuses, *)
(* and a browser that is gone, are not sent to again                        *)
Refused(refused) == [t \in Tokens |-> IF t \in refused THEN [device[t] EXCEPT !.active = FALSE] ELSE device[t]]
Push(r) ==
  LET k == req[r].on IN
  /\ Now(r, {"scan", "announce", "consume", "broadcast"}, "push")
  /\ \E refused \in SUBSET {t \in Mine : ~works[t]} :
       /\ {t \in Mine \cap Browsers : ~works[t]} \subseteq refused
       /\ device' = Refused(refused)
       /\ tickets' = tickets \cup {<<t, works[t]>> : t \in Mine \ (Browsers \cup refused)}
       /\ buzzed' = [buzzed EXCEPT ![k] = IF Mine \ refused = {} THEN @ ELSE @ + 1]
  /\ Goto(r, IF req[r].op = "broadcast" THEN "record" ELSE "mark")
  /\ UNCHANGED <<notice, removed, wanted, history, greetings, works, live, locks, mishaps, workVars>>
(* pushedAt, of the row that was made                                       *)
MarkPushed(r) ==
  LET k == req[r].on IN
  /\ Now(r, {"scan", "announce", "consume"}, "mark")
  /\ notice' = [notice EXCEPT ![k].pushed = @ \/ (notice[k].made /\ notice[k].id \in req[r].seen)]
  /\ Done(r) /\ UNCHANGED <<buzzed, removed, wanted, history, deviceVars, locks, mishaps, workVars>>

(* CommunicationsService.send: the rows, the pushes, and at last the record *)
SendBroadcast(r) ==
  /\ Now(r, {"broadcast"}, "start")
  /\ notice' = [notice EXCEPT ![req[r].on] = Row(req[r].on)] /\ Goto(r, "push")
  /\ UNCHANGED <<buzzed, removed, wanted, history, deviceVars, locks, mishaps, workVars>>
RecordBroadcast(r) ==
  /\ Now(r, {"broadcast"}, "record") /\ history' = history \cup {req[r].on} /\ Done(r)
  /\ UNCHANGED <<notice, buzzed, removed, wanted, deviceVars, locks, mishaps, workVars>>

-----------------------------------------------------------------------------
(* The inbox: markRead, markAllRead, delete and clearAll                    *)
Read(ks) == [k \in Keys |-> IF k \in ks /\ notice[k].made THEN [notice[k] EXCEPT !.read = TRUE] ELSE notice[k]]
MarkRead(r) ==
  /\ Now(r, {"read"}, "start") /\ notice' = Read({req[r].on}) /\ Done(r)
  /\ UNCHANGED <<buzzed, removed, wanted, history, deviceVars, locks, mishaps, workVars>>
MarkAllRead(r) ==
  /\ Now(r, {"read_all"}, "start") /\ notice' = Read(Keys) /\ Done(r)
  /\ UNCHANGED <<buzzed, removed, wanted, history, deviceVars, locks, mishaps, workVars>>
Remove(ks) ==
  /\ notice' = [k \in Keys |-> IF k \in ks THEN [made |-> FALSE, pushed |-> FALSE, read |-> FALSE, id |-> 0] ELSE notice[k]]
  /\ removed' = [k \in Keys |-> removed[k] + (IF k \in ks /\ notice[k].made THEN 1 ELSE 0)]
Delete(r) ==
  /\ Now(r, {"delete"}, "start") /\ Remove({req[r].on}) /\ Done(r)
  /\ UNCHANGED <<buzzed, wanted, history, deviceVars, locks, mishaps, workVars>>
ClearAll(r) ==
  /\ Now(r, {"clear"}, "start") /\ Remove(Keys) /\ Done(r)
  /\ UNCHANGED <<buzzed, wanted, history, deviceVars, locks, mishaps, workVars>>
(* updatePreferences reads them all and writes them all                     *)
ReadPreferences(r) ==
  /\ Now(r, {"prefer"}, "start") /\ Remember(r, "save", wanted)
  /\ UNCHANGED <<noticeVars, deviceVars, locks, mishaps, workVars>>
SavePreferences(r) ==
  /\ Now(r, {"prefer"}, "save")
  /\ wanted' = [req[r].seen EXCEPT ![req[r].on[1]] = req[r].on[2]] /\ Done(r)
  /\ UNCHANGED <<notice, buzzed, removed, history, deviceVars, locks, mishaps, workVars>>

-----------------------------------------------------------------------------
(* register: on is the token and the session that presents it               *)
Authenticate(r) ==
  /\ Now(r, {"register"}, "start")
  /\ Goto(r, IF req[r].on[2] \in live THEN "save" ELSE "done")
  /\ UNCHANGED <<noticeVars, deviceVars, locks, mishaps, workVars>>
RegisterDevice(r) ==
  LET t == req[r].on[1]
      s == req[r].on[2] IN
  /\ Now(r, {"register"}, "save")
  /\ device' = [device EXCEPT ![t] = [@ EXCEPT !.owner = Customer[s], !.session = s, !.active = TRUE]]
  /\ works' = [works EXCEPT ![t] = TRUE]   \* it is the app that asks
  /\ Goto(r, IF device[t].greeted THEN "done" ELSE "greet")
  /\ UNCHANGED <<noticeVars, greetings, tickets, live, locks, mishaps, workVars>>
Greet(r) ==
  LET t == req[r].on[1] IN
  /\ Now(r, {"register"}, "greet")
  /\ greetings' = [greetings EXCEPT ![t] = @ + 1] /\ tickets' = tickets \cup {<<t, works[t]>>} /\ Goto(r, "greeted")
  /\ UNCHANGED <<noticeVars, device, works, live, locks, mishaps, workVars>>
NoteGreeting(r) ==
  /\ Now(r, {"register"}, "greeted")
  /\ device' = [device EXCEPT ![req[r].on[1]] = [@ EXCEPT !.greeted = TRUE]] /\ Done(r)
  /\ UNCHANGED <<noticeVars, greetings, works, tickets, live, locks, mishaps, workVars>>
Off(ts) == device' = [t \in Tokens |-> IF t \in ts THEN [device[t] EXCEPT !.active = FALSE] ELSE device[t]]
Unregister(r) ==
  /\ Now(r, {"unregister"}, "start") /\ Off({t \in req[r].on : device[t].owner = "me"}) /\ Done(r)
  /\ UNCHANGED <<noticeVars, greetings, works, tickets, live, locks, mishaps, workVars>>
Subscribe(r) ==
  /\ Now(r, {"subscribe"}, "start")
  /\ device' = [device EXCEPT ![req[r].on] = [@ EXCEPT !.owner = "me", !.active = TRUE]] /\ Done(r)
  /\ UNCHANGED <<noticeVars, greetings, works, tickets, live, locks, mishaps, workVars>>

(* revoke and revokeOthers: the sessions, their devices, and the sockets    *)
(* that this node holds                                                     *)
Revoke(r) ==
  /\ Now(r, {"revoke"}, "start")
  /\ Remember(r, "devices", req[r].on \cap live) /\ live' = live \ req[r].on
  /\ UNCHANGED <<noticeVars, device, greetings, works, tickets, locks, mishaps, workVars>>
RevokeDevices(r) ==
  /\ Now(r, {"revoke"}, "devices")
  /\ Off({t \in Tokens : device[t].owner = "me" /\ device[t].session \in req[r].seen}) /\ Goto(r, "sockets")
  /\ UNCHANGED <<noticeVars, greetings, works, tickets, live, locks, mishaps, workVars>>
Open(q) == Now(q, {"connect"}, "open")
RevokeSockets(r) ==
  /\ Now(r, {"revoke"}, "sockets")
  /\ req' = [q \in Requests |->
       IF q = r THEN [req[q] EXCEPT !.at = "done"]
       ELSE IF Open(q) /\ req[q].node = req[r].node /\ req[q].on \in req[r].seen THEN [req[q] EXCEPT !.at = "closed"]
       ELSE req[q]]
  /\ UNCHANGED <<noticeVars, deviceVars, locks, mishaps, workVars>>
(* a socket is authenticated at its handshake and joins its rooms after it  *)
Handshake(r) ==
  /\ Now(r, {"connect"}, "start") /\ Goto(r, IF req[r].on \in live THEN "join" ELSE "closed")
  /\ UNCHANGED <<noticeVars, deviceVars, locks, mishaps, workVars>>
Join(r) ==
  /\ Now(r, {"connect"}, "join") /\ Goto(r, "open") /\ UNCHANGED <<noticeVars, deviceVars, locks, mishaps, workVars>>

(* processPushReceipts: tickets old enough; Expo has an answer for some     *)
ReadTickets(r) ==
  /\ Now(r, {"receipts"}, "start")
  /\ \E asked \in SUBSET tickets : asked # {} /\ Remember(r, "apply", asked)
  /\ UNCHANGED <<noticeVars, deviceVars, locks, mishaps, workVars>>
ApplyReceipts(r) ==
  /\ Now(r, {"receipts"}, "apply")
  /\ Off({t \in Tokens : <<t, FALSE>> \in req[r].seen}) /\ tickets' = tickets \ req[r].seen /\ Done(r)
  /\ UNCHANGED <<noticeVars, greetings, works, live, locks, mishaps, workVars>>

-----------------------------------------------------------------------------
(* A worker starts and registers the schedule of a job under a lock; one    *)
(* that does not get it waits for the schedule, for 30 looks at it.  The    *)
(* answer about the lock may not come in time, and Redis may not be ready   *)
Boot(r) ==
  /\ Now(r, {"boot"}, "start")
  /\ \/ "schedule" \notin locks /\ locks' = locks \cup {"schedule"} /\ Goto(r, "upsert") /\ UNCHANGED mishaps
     \/ "schedule" \in locks /\ Goto(r, "wait") /\ UNCHANGED <<locks, mishaps>>
     \/ Mishap /\ locks' \in {locks, locks \cup {"schedule"}} /\ Goto(r, "wait")
     \/ Mishap /\ Goto(r, "upsert") /\ UNCHANGED locks
  /\ UNCHANGED <<noticeVars, deviceVars, workVars>>
ReadSchedule(r) ==
  /\ Now(r, {"boot"}, "upsert") /\ Remember(r, "save", chains) /\ UNCHANGED <<noticeVars, deviceVars, locks, workVars, mishaps>>
SaveSchedule(r) ==
  /\ Now(r, {"boot"}, "save")
  /\ chains' = IF req[r].seen = 0 THEN chains + 1 ELSE chains
  /\ locks' = locks \ {"schedule"} /\ Done(r)
  /\ UNCHANGED <<noticeVars, deviceVars, due, told, leftOut, mailed, mishaps>>
WaitForSchedule(r) ==
  /\ Now(r, {"boot"}, "wait") /\ Done(r) /\ UNCHANGED <<noticeVars, deviceVars, locks, workVars, mishaps>>

-----------------------------------------------------------------------------
(* What follows a change, step by step.  An error of a step that must be    *)
(* stops the work; an error of the others is swallowed, and some steps are  *)
(* then not taken either: those for whom it leaves out                      *)
WorkStep(by, whom, must) == [by |-> by, whom |-> whom, must |-> must, without |-> {}]
Tells(whom) == WorkStep("notice", whom, TRUE)
TriesToTell(whom) == WorkStep("notice", whom, FALSE)
Mails(whom) == WorkStep("mail", whom, TRUE)
TriesToMail(whom) == WorkStep("mail", whom, FALSE)
(* resolveAccessContext, of which an error means no access                  *)
LooksUp(whom) == [WorkStep("look", whom, FALSE) EXCEPT !.without = {whom}]
NotifyAccount(whom) == <<Tells(whom), TriesToMail(whom)>>
StatusPush == <<[TriesToTell("customer, of the status") EXCEPT !.without = {"partner, of the status"}], TriesToTell("partner, of the status")>>
StatusEmail == <<TriesToMail("customer, of the status")>>
NotifyStatus == StatusPush \o StatusEmail
SubmissionDecision == <<TriesToTell("associate"), TriesToMail("associate")>>
AwaitingPayment == <<TriesToMail("customer")>>
PaymentConfirmedEffects == <<TriesToTell("customer, of the credit"), Tells("customer"), Mails("customer")>>
OrderCreatedEffects == <<Tells("customer"), Mails("customer")>>
RefundEffects == NotifyStatus \o <<Tells("customer"), Mails("customer")>>
QcFailed == <<TriesToTell("customer"), TriesToTell("associate")>>
QcPassed == <<TriesToTell("customer"), TriesToMail("customer"), TriesToTell("associate"), TriesToTell("partner")>>
QuoteAgreed == <<TriesToTell("customer"), TriesToMail("customer")>>
CustodyOverdue == <<TriesToTell("staff"), TriesToTell("partner")>>
AvailabilityAsked == NotifyAccount("associate")
AvailabilityOverdue == NotifyAccount("staff")
NegotiationStarted == <<LooksUp("staff"), LooksUp("other staff"), Tells("staff"), Tells("other staff")>>
DailyDigest == <<TriesToMail("associate"), TriesToMail("another associate")>>

(* of the outbox and the scans: done until it is done                       *)
Lasting == {"paid", "created", "refunded", "started", "unavailable"}
Steps(w) ==
  CASE w = "paid" -> PaymentConfirmedEffects [] w = "created" -> OrderCreatedEffects
    [] w = "refunded" -> RefundEffects [] w = "started" -> NegotiationStarted
    [] w = "unavailable" -> AvailabilityOverdue [] w = "asked" -> AvailabilityAsked
    [] w = "failed" -> QcFailed [] w = "passed" -> QcPassed [] w = "agreed" -> QuoteAgreed
    [] w = "overdue" -> CustodyOverdue [] w = "digest" -> DailyDigest
    [] w = "status" -> NotifyStatus [] w = "decided" -> SubmissionDecision [] w = "link" -> AwaitingPayment
(* the others are of a change that is made once, and its notices after it;  *)
(* beside each other only when a lease or a lock lapses                     *)
Beside(r) == \E q \in Requests \ {r} : Now(q, {"work"}, "step") /\ req[q].on = req[r].on
StartWork(r) ==
  LET w == req[r].on IN
  /\ Now(r, {"work"}, "start")
  /\ IF w \in due THEN Remember(r, "step", [left |-> Steps(w), out |-> {}]) ELSE Done(r)
  /\ due' = IF w \in Lasting THEN due ELSE due \ {w}
  /\ IF w \in due /\ Beside(r) THEN Mishap ELSE UNCHANGED mishaps
  /\ UNCHANGED <<noticeVars, deviceVars, locks, told, leftOut, mailed, chains>>
AtStep(r) == Now(r, {"work"}, "step") /\ req[r].seen.left # <<>>
Proceed(r, without) ==
  Remember(r, "step", [left |-> Tail(req[r].seen.left), out |-> req[r].seen.out \cup without])
Takes(r, by) == AtStep(r) /\ Head(req[r].seen.left).by = by /\ Head(req[r].seen.left).whom \notin req[r].seen.out
Tell(r) ==
  /\ Takes(r, "notice") /\ Proceed(r, {})
  /\ told' = told \cup {<<req[r].on, Head(req[r].seen.left).whom>>}
  /\ UNCHANGED <<noticeVars, deviceVars, locks, due, leftOut, mailed, chains, mishaps>>
Sent(r, whom) == IF <<req[r].on, whom>> \in mailed THEN <<req[r].on, whom, "again">> ELSE <<req[r].on, whom>>
Mail(r) ==
  /\ Takes(r, "mail") /\ Proceed(r, {})
  /\ mailed' = mailed \cup {Sent(r, Head(req[r].seen.left).whom)}
  /\ UNCHANGED <<noticeVars, deviceVars, locks, due, told, leftOut, chains, mishaps>>
(* what is looked up is there, and whoever is left out is passed over       *)
PassOn(r) ==
  /\ Takes(r, "look") \/ (AtStep(r) /\ Head(req[r].seen.left).whom \in req[r].seen.out)
  /\ Proceed(r, {}) /\ UNCHANGED <<noticeVars, deviceVars, locks, workVars, mishaps>>
(* an error; a mail that was not answered in time may have gone             *)
(* mutant: every error is swallowed                                         *)
StopsNever(s) == FALSE
Stops(s) == s.must
Fail(r) ==
  LET s == Head(req[r].seen.left) IN
  /\ Takes(r, s.by) /\ Mishap
  /\ mailed' \in {mailed} \cup {mailed \cup {Sent(r, s.whom)} : m \in {"mail"} \cap {s.by}}
  /\ IF Stops(s) THEN Goto(r, "off") ELSE Proceed(r, s.without)
  /\ UNCHANGED <<noticeVars, deviceVars, locks, due, told, leftOut, chains>>
FinishWork(r) ==
  /\ Now(r, {"work"}, "step") /\ req[r].seen.left = <<>>
  /\ due' = due \ {req[r].on} /\ leftOut' = leftOut \cup {<<req[r].on, x>> : x \in req[r].seen.out} /\ Done(r)
  /\ UNCHANGED <<noticeVars, deviceVars, locks, told, mailed, chains, mishaps>>

-----------------------------------------------------------------------------
(* The app is removed from a phone, or installed again; a process stops     *)
Reinstall(t) ==
  /\ works' = [works EXCEPT ![t] = ~@] /\ Mishap /\ UNCHANGED <<noticeVars, device, greetings, tickets, live, locks, workVars, req>>
Crash(r) ==
  /\ req[r].at \notin {"start", "done", "off", "open", "closed"} /\ Goto(r, "off") /\ Mishap
  /\ UNCHANGED <<noticeVars, deviceVars, locks, workVars>>

Step(r) ==
  \/ ClaimRun(r) \/ Scan(r) \/ Announce(r) \/ Check(r) \/ InsertNotice(r) \/ Push(r) \/ MarkPushed(r)
  \/ SendBroadcast(r) \/ RecordBroadcast(r)
  \/ MarkRead(r) \/ MarkAllRead(r) \/ Delete(r) \/ ClearAll(r) \/ ReadPreferences(r) \/ SavePreferences(r)
  \/ Authenticate(r) \/ RegisterDevice(r) \/ Greet(r) \/ NoteGreeting(r) \/ Unregister(r) \/ Subscribe(r)
  \/ Revoke(r) \/ RevokeDevices(r) \/ RevokeSockets(r) \/ Handshake(r) \/ Join(r)
  \/ ReadTickets(r) \/ ApplyReceipts(r)
  \/ StartWork(r) \/ Tell(r) \/ Mail(r) \/ PassOn(r) \/ Fail(r) \/ FinishWork(r) \/ Crash(r)
  \/ Boot(r) \/ ReadSchedule(r) \/ SaveSchedule(r) \/ WaitForSchedule(r)
Next == (\E r \in Requests : Step(r)) \/ (\E k \in locks : LockLapses(k)) \/ (\E t \in Tokens : Reinstall(t))

-----------------------------------------------------------------------------
(* However often the outbox hands an event again and whichever scans run    *)
(* beside each other, a notice buzzes the phone once; once more for each    *)
(* time its row, which remembers it, was deleted                            *)
BuzzedOnce == \A k \in Keys : buzzed[k] <= 1 + removed[k]

(* An event of the outbox and a scan's flag are gone only when everyone who *)
(* must hear of the change has its notice and its mail, whichever step      *)
(* failed, stopped or was taken twice before; but for whom the work that    *)
(* forgot it left out, as it could not look up what they may see            *)
Heard(w, s) == <<w, s.whom>> \in IF s.by = "mail" THEN mailed ELSE told
CompletedIsTold ==
  \A w \in Lasting : (\E r \in Requests : req[r].op = "work" /\ req[r].on = w) /\ w \notin due =>
    \A i \in DOMAIN Steps(w) : Steps(w)[i].must => Heard(w, Steps(w)[i]) \/ <<w, Steps(w)[i].whom>> \in leftOut

Quiet == \A r \in Requests : req[r].at \in {"done", "off", "open", "closed"}
(* "sent at most once per moment that matters"                              *)
OncePerMoment == \A k \in Keys : buzzed[k] <= 1
(* a notice that was made has been pushed to a phone that could have it     *)
MadeIsBuzzed == Quiet => \A k \in Keys : notice[k].made /\ Mine # {} => buzzed[k] > 0
(* no more engagements in a day than the cap                                *)
CapHolds == Cardinality({k \in Engagement : buzzed[k] > 0}) <= Cap
(* a device that was removed has no socket and gets no push                 *)
Revoked == UNION {req[r].seen : r \in {q \in Requests : Now(q, {"revoke"}, "done")}}
RevokedIsCut == \A r \in Requests : Open(r) => req[r].on \notin Revoked
RevokedIsSilent == \A t \in Mine : device[t].session \notin Revoked
(* a phone that works and was not removed by its customer is still pushed to*)
WorkingIsActive ==
  Quiet => \A t \in Tokens : works[t] /\ device[t].session \in live /\ (\A r \in Requests : req[r].op # "unregister")
                             => device[t].active
(* a phone is greeted once at a time                                        *)
GreetedOnce == \A t \in Tokens : greetings[t] <= 1
(* what a customer switched stays as it was switched                        *)
SwitchKept == Quiet => \A r \in Requests :
  Now(r, {"prefer"}, "done") /\ (\A q \in Requests \ {r} : req[q].op = "prefer" => req[q].on[1] # req[r].on[1])
  => wanted[req[r].on[1]] = req[r].on[2]
(* a broadcast that was sent is in the history                              *)
SentIsRecorded == Quiet => \A r \in Requests : req[r].op = "broadcast" /\ buzzed[req[r].on] > 0 => req[r].on \in history
(* "each keyed so a replay is harmless": nobody is mailed twice             *)
MailedOnce == \A m \in mailed : Len(m) = 2
(* what is forgotten has reached everyone it has a notice for: the credit   *)
(* of a payment is announced, every member of staff hears of a negotiation  *)
CompletedReachesAll ==
  \A w \in Lasting : (\E r \in Requests : req[r].op = "work" /\ req[r].on = w) /\ w \notin due =>
    \A i \in DOMAIN Steps(w) : Steps(w)[i].by = "notice" => <<w, Steps(w)[i].whom>> \in told
(* who is to hear of a change that was made is told of it                   *)
ChangeIsTold ==
  Quiet => \A r \in Requests : req[r].op = "work" /\ req[r].on \notin Lasting =>
    \A i \in DOMAIN Steps(req[r].on) : Steps(req[r].on)[i].by = "notice" => <<req[r].on, Steps(req[r].on)[i].whom>> \in told
(* "Exactly one of them does the registration": no two tick chains, and a   *)
(* worker that has started has its schedule                                 *)
OneChain == chains <= 1
StartedIsScheduled == Quiet => \A r \in Requests : Now(r, {"boot"}, "done") => chains > 0
=============================================================================
