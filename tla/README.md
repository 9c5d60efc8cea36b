# Hook backend: a verification project

TLA+ models of the parts of this backend where money, orders, accounts and messages
meet concurrently, the TLC runs that check them on small instances, and TLAPS proofs
for every instance. The code is `src/src` (TypeScript, Express, MongoDB through
Mongoose, Redis/BullMQ jobs); every definition that models code names its lines
in `PROJECT.json` under `map`. The code referred to by a bare file name below is in
`src/src/services`.

    tlc -config Refunds.cfg Refunds          # a run; PROJECT.json lists them all
    tlapm RefundsProofs.tla                  # the proofs of a module

## 1. Inventory

Hook sells goods that associates buy at markets. A customer (or a partner for a
customer) fills a cart, may negotiate a price, takes a preview, confirms it into an
order, and pays in full or only the delivery fee. A paid order is sourced, brought
to a hub, checked, shipped and handed over; it can be cancelled before and
refunded after. All state is in MongoDB. Several API processes and workers run
side by side, so concurrency is between requests, webhooks and jobs, and its unit
is one database call: a guarded `updateOne`/`findOneAndUpdate`, a unique index, or
a transaction. Between two `await`s anything can happen, and a process can stop.

| component | state | operations | hard parts | what makes it correct |
|---|---|---|---|---|
| Transactional outbox (`outbox.service`) | `CommerceOutboxEvent`, `DeadLetterEvent` | emit, claim with a lease, acknowledge, fail with backoff, dead-letter, replay | leases outlived, workers that die, late acknowledgements, two writes on exhaustion | at least once, never undone, bounded tries, everything settled or replayable |
| Refunds (`payment.service`, `fulfilment.service`, `admin/commerce.controller`) | `Payment.refundedAmount`, `FulfilmentRefund`, `RefundRequest` | reserve, call provider, settle, park, reconcile, release, approve | lost provider answers, retries, two staff members, the job beside them | nothing refunded twice or beyond the captured amount, what left is recorded |
| Order payment and cancellation (`payment.service`, `order.service`, `pod.service`, `admin/orders.controller`) | `Order`, `Payment`, webhook events, exceptions, task, ledger entries | initialize, webhook, poll, confirm, cancel (three ways), review, fee refund, task creation | webhook against cancellation, stale reads saved, missing webhooks | order and payment agree, cancelled is final, no money kept silently |
| Payment links (`payment-link.service`) | `PaymentLink`, `PaymentAttempt` | create, open, retire, land, revoke, find again by a reference | an attempt paid after a later one replaced it | what was paid under any reference confirms the payment |
| Idempotency middleware | `IdempotencyRecord` | create, replay, conflict, takeover, settle, TTL | leases that end under their holder, deletes between two reads | one execution, replays of one's own success |
| Checkout and cart (`checkout.service`, `cart.service`) | `Cart`, `CartItem`, `CheckoutPreview`, `Order` | edit, preview, confirm | retries, two carts, edits during the commit | one order per key and preview, the order takes what was previewed |
| Coupons, Hook credit, quotes (`coupon.service`, `credit.service`, `order-restoration.service`) | `Coupon.usedCount`, `CouponRedemption`, `CreditLedger`, `NegotiatedQuote` | redeem, spend, use; give back | races for the last use, several cancellers, releases in two writes | limits kept, spent and given back once |
| Pricing (`checkout.service`, `delivery-pricing.service`) | settings, delivery rules, coupon, preview, order | price a preview, price again at the confirmation, split over payments; edit each of them | what changes in between, a process's copy of the settings, rounding | what is paid is what was quoted |
| Negotiation (`negotiation*.service`) | `Negotiation`, `NegotiationCommand`, `NegotiatedQuote`, confirmations | offer, message, accept, close, expire, confirm | a lock and a lease outlived during a language-model call | one decision per offer, the agreed price kept |
| Sourcing tasks and item issues (`fulfilment.service`) | `FulfilmentTask`, `RunnerPackage`, `ItemResolution` | create, accept, verify, submit, block, reassign, report, propose, answer, substitute, stop | some writers look at the task's version, others only count it, others neither; repeated submissions | what is ready has a verified package, a stopped task is not worked on |
| Hub (`fulfilment.service`) | `HubPackage`, `Consolidation` | receive, check, re-check, send back, consolidate, seal | two staff members on one package, issues settled during a check | a pass is not undone, the parcel is whole and contains nothing unsettled |
| Shipment and custody (`fulfilment.service`) | `Shipment`, `PartnerCustody`, `ReturnRequest`, courier events | book, update, courier webhook, pay at the door, collect, return | duplicates and reordering of courier events, their lease, overdue custody | one refusal per failed delivery, one release, every event settled |
| Order desk (`pod.service`, `order-split.service`, `admin/orders.controller`) | `Order`, fulfilment groups, codes of packages | call, override, decide, correct, split, switch the courier, draw codes | whole saves of what was read, a transaction's second attempt | decided once, every item in one delivery, codes that open |
| Accounts, deletion, invitations (`account-*.service`, `auth.service`) | `User`, `AccountSession`, `AccountDeletionRequest`, `AccountInvitation` | sign in, refresh, reset, ask, call back, erase, accept, suspend, archive | two tabs with one token, workers that die, pages that write three records side by side | a called-back deletion is not carried out, an erasure ends |
| Sign-up and grants (`auth.service`, `welcome-bonus`, `referral.service`, `waitlist.service`) | `User`, `SignupSession`, `Otp`, `CreditLedger`, `Referral`, `WaitlistEntry` | five doors into an account, the grants on the way | two doors at once, retries, grants before the account | each grant at most once |
| Access control (`middleware`, `platform-bootstrap.service`, `platform.controller`) | roles, permissions, staff profiles | authenticate, resolve, require; edit roles and staff; boot | a change between two reads of a request | who is let through could be, at some moment of the request |
| Catalogue (`catalog*.service`, `admin/*.controller`) | categories, products, submissions, images, vendors | edit, publish, ask and answer availability, decide, collect | versioned writes beside whole saves, a job of deadlines | what is on sale was confirmed, two levels of categories |
| Field force, network (`platform.controller`, `address.service`) | profiles, assignments, states, cities, hubs, markets, addresses | hire, assign, archive, move, open and close | writes side by side, checks before writes | one primary per state and market, a hire that fails leaves nothing |
| Notices and jobs (`notification*`, `push.service`, `jobs/*`) | notices, devices, tickets, run claims, schedulers | make, push, scan, register, revoke, broadcast; claim a run | events consumed again, two workers booting, a device that changes hands | a phone buzzes once, who must hear does |
| Caches, catalogue pages, cart lines (`cache.service`, `public-catalog.controller`, `cart.service`, `public-id.service`) | cached values, cursors, lines, reserved identifiers | load, invalidate; walk; add, update, import; reserve | loads overtaken by an invalidation, pages of a catalogue that moves, the turn of the year | fresh, shown once, given once |
| Providers, media, mails, audit, HTTP layer, content pages, seeds | | | I/O, best effort or stateless | not modelled, section 8 |

How they interact: checkout confirms through the idempotency middleware, takes a
quote, a coupon use and credit, and creates order and payment in one transaction.
Confirmation of the payment emits `ORDER_APPROVED_FOR_FULFILMENT` to the outbox in
its own transaction; the outbox's consumer creates the sourcing task. An associate
sources, verifies and packs its items, the hub receives and checks the package, sends
failed items back with an issue for the administrator and the customer, and
consolidates what passed into the parcel that is shipped. A cancellation restores what
checkout took, stops the task and refunds the fee, through the same
`PaymentService.refund` as refund records and refund requests. Jobs drain the outbox,
verify stale payments, expire unpaid orders and quotes, reconcile parked refunds,
erase accounts and take down products nobody confirmed.

`PROJECT.json` lists every component with its sources and status, and under
`hazards` what in this code is hard to test, each at its line, with the properties
that would catch it; hazards no property covers yet say why.

## 2. Plan

In order of what matters most: money that leaves twice, orders whose state and
money disagree, promises made to customers, goods in motion, and then everything
around the order. The models of that plan are done, and every safety property of a
passing run is proved (section 5); what is left to TLC is liveness.

The abstract specification is `EventDelivery`: what an outbox promises its users
(every event delivered at least once before it counts as delivered). `Outbox`
implements it, checked and proved.

Modules that compose others: `Delivery` extends `Custody`, which extends `Shipment`
(they share the order's status); `AccountSystem` extends `Deletion` and `Invitation`,
which extend `Accounts`; `SupplySystem` extends `Products`, `Submissions` and
`Vendors`, which extend `Catalogue`. Components that do not write
each other's records are put side by side instead, so that one run checks several
instances without multiplying them: in `MCOrders` the constant variable `method` says
how the order is paid, in `MCCheckouts` `shop` says what is contended for, in
`MCPlatform` `part` says which component the behaviour is about. The components around
the order are instances in three modules, so that what is checked of them is also what
is proved of them: `Backbone` (idempotency, caches, admission), `Storefront` (doors,
catalogue pages, basket, prices) and `Operations` (desk, network, field force,
notices). The variables of a component hold `<<>>` while the behaviour is about another
one, and its property there reads `work # <<>> => ...`; `MCPlatform` extends the three,
gives the constants their values and chooses the part.

## 3. The modules and the code

**Conventions.** One action is what happens between two `await`s that matter, or
one transaction (`session.withTransaction` is retried until it commits alone, so it
is atomic). A request remembers what it read; the read and the write that relies on
it are separate actions whenever the code has an `await` between them. Consecutive
reads and checks of which only the last matters are one step. Crashes
are actions, bounded. Time is never counted: a deadline is a fact that an action
makes true. In the components around the order a request carries out one operation
that is chosen at the start (`does`, `op`), and the MC module lists the combinations
that meet. Operators commented as mutants are faulty variants of the definition
that follows them; no specification uses them. `PROJECT.json` pairs each with a
property that must then fail.

### `Outbox`, `EventDelivery`
A row per event (`status`, `lock`, `leased`, `due`, `attempts`), a dead-letter row,
workers (`pc`, `cur`, `seen`) and administrators who replay. `Claim` is the
`findOneAndUpdate` of `processOutbox` with both branches of its filter;
`HandlerReturns`/`Fail` are the two outcomes of the handler; `Publish` and `Fail`
carry the lock token in their filter; `RecordDeadLetter` is the second write of
`failOutboxEvent`; `ResetDeadLetter` and `MarkReplayed` are the two writes of
`replayDeadLetter`. `LeaseOutlived` ends a lease under a working worker.
Left out: the batch limit, the sort (only fairness rests on it), `firstFailedAt`.

### `Refunds`
One captured payment, refund records (`Records`) and refund requests (`Requests`).
Callers are staff requests and ticks of `reconcile-refunds`; each has a step, the
refund in hand and what it read. `desk` says which refunds a member of staff works on, and is
chosen at the start. `sideBySide` is history: no line looks at it, and it becomes true
when a request gives up a parked refund that another has in hand to give it up
(`fulfilment.service.ts:2093-2107`), or saves an approval that was saved since it read
(`commerce.controller.ts:99-106`). `Reserve`, `CallProvider`, `ReleaseRejected`,
`SettleRead`, `SettleWrite` are `PaymentService.refund`; `Claim`, `MarkFailed`,
`MarkUnknown`, `Finalize` are `processRefund`; `Lookup`, `ReleaseQuiet`,
`FailQuiet` its reconciliation, shared with the job; `ApproveRequest` and
`SaveApproval` are `approveRefund`. The provider may refund and answer, reject,
or leave the answer lost with the refund made, made later, or never (`Replies`);
`garbled`, a success whose body does not parse, is allowed by the module but in no
run, because it ends as "lost_done" does where the provider's adapter throws.
`QuietPasses` takes the provider to be quicker than 15 minutes.

### `OrderPayment`, `Links`
One order and the payment that activates it, for either payment method, with any
sets of webhooks, polls, initializations, administrators, reviewers and outbox
consumers. `ConfirmPrepaid` and `ConfirmFee` are the transaction of
`confirmPayment`, on the order read by `ReadForConfirm` before it; `Initialize` is
the write after the provider's answer; `CancelCustomerOrder` and
`ExpireUnpaidOrder` are transactions; an administrator's cancellation is
`StartAdminCancel`, `AdminCancelSave`, `AdminRestore`, `StopTask` and the fee's
refund (`FeeRead` to `FeeSettle`), one write each: `order.save()` is unguarded, as
the base model sets `versionKey: false`. `APPROVE` reaches `Payment.updateOne
({orderId})`, which hits a group's payment and not the fee's, so it changes nothing
here. `recordCall`, overrides and `podEligible` are nondeterministic here; `OrderDesk`
has them. The payment is one of the order, whose life past IN_FULFILMENT is in
`Sourcing`, `Shipment` and `Custody`.

`Links` is how that payment is opened and found again: reference 0 is the one the app
opened, the others are the attempts of links. A request creates a link
(`CreatePayment`, `RevokeOthers`, `InsertLink`), opens one (`Retire`,
`InsertAttempt`, `OpenCharge`, `Land`) or revokes it; `Webhook`, `VerifyAttempt`
and `VerifyByReference` are the three ways back.

### `Idempotency`
One key of one actor and operation: its record, numbered leases and the attempts.
`Create`, `Find`, `Reclaim` are the three database calls of `withIdempotency`;
`Finish` is the handler's `res.json`, `Settle` the write after it. `lapsed` is the
`now` captured at the start: an attempt may only take over the lease that had ended
by then. `OutliveLease` stands for 60 seconds passing and for a client's
disconnect, which ends the lease of the record whoever holds it. A `Crash` in
"settle" also stands for a settle that throws.

### `Checkout`, `Pricing`, `Basket`
`Checkout`: carts of customers (one may be filled by a partner), each with one line of
one product; quotes, previews, requests, orders, one coupon, and each customer's credit
as the sum of the ledger's entries. An `Edit` is the write of the line;
`FinishMutation` is the later count of the version. `Lookup`, `Review` and
`Commit`/`CommitRefused` are `confirm`: the order with the key, everything checked
before the transaction (its reads merged into one step), and the transaction with
the guards of its writes and the two unique indexes. `Cancel` is every cancellation
in a transaction (customer, expiry, erasure, rejected review);
`AdminReads` to `ReleaseCount` is the one without. `PayReads` and `Pay` are a confirmation
of the payment: the order is read before the transaction that earns the coin, and what tells
that transaction of a cancellation is that copy (`payment.service.ts:452`, 582), so a
payment read before a cancellation and committed after it earns its coin all the same. An order is named after the
request that made it. "rejected" stands for a change of the catalogue, address,
delivery price or settings. A partner cannot update a quoted line, since
`owner.userId` is undefined for one. At most one edit of a cart is in flight; one
that dies between its writes never finishes. A customer's grants other than an
order's are the starting balance.

`Pricing` has the sums: `Money` is the one function both `preview` and `confirm`
call, `CurrentMoney` what a confirmation computes from the records as they are then,
`Share`, `AtTheDoor` and `Online` the split over groups and payments, with the
rounding of the code. `GetSettings` serves the process's copy until `SettingsLapse`.

`Basket` has the cart in full: two processes, a customer's own and a partner's cart,
`FastAdd` (one guarded `$inc`) beside the read and save of `SlowRead`/`Save`, the
count of the version after every change, the summary behind the answer, the import
after signing in, and the pool of identifiers (`Reserve`, `Refill`, `TakeId`) over
the turn of a year. A preview reads the cart with its version, and then its lines.

### `Negotiation`
One negotiation of one customer, commands with keys, acceptances, and confirmations
of the action that follows. A command takes the lock, reads the session, asks the
model and writes under the lock's fence and the session's version (`MayWrite`);
`Decide` is `PricingEngine.decide`. `TakeLease` to `Receipt` are `confirm` of
`negotiation-shopping.service`: its lease is not fenced, its writes are. Every write of
a price or a result counts the session's version; the marks of an expired session look at
nothing and count nothing.

### `Sourcing`
One task of one order, whose items go to one market and one delivery group; an order
of several markets is several such tasks that share the order's status. The task has
its status, version, items and `resource`, the items a send-back left it with;
`verified` is `itemVerifications`, `active` and `declined` the `ItemResolution`s of an
item (the partial unique index allows one active one; a declined one is not under it),
`slot` the package found by `taskId`, which a send-back detaches. A request keeps in
`req` what it read:
`SubmitReads`, `SubmitPacks` and `SubmitWrites` are `marketAssociateTransition` around
`createRunnerPackage`; `FailReads`/`FailWrites` and `ReopenReads`/`ReopenWrites` a failed
check and a re-check, `ConsolidateReads`/`ConsolidateWrites` the search for packages and
the transaction; `AdminCancels`, `StopReads`, `StopWrites` the order's save, the query
for active tasks and the update of one in `AdminOrdersController.cancel`. Where a write is
guarded by the version that was read, a request that goes through is a step of its own
(`StepTask`), and so is a transaction whose filter holds what it read (`ReceivePackage`,
`PassQuality`, `ResourceFailedPackage`). A proposal and an answer to it are one step each: they
read and save one issue. The money of a replacement is the state PAYMENT_PENDING; when
it is settled, `ApplyResolvedSubstitution` writes item, issue and task at once. Codes and
their locks, evidence, receipts and the hub an administrator chooses are left out.

### `Shipment`, `Custody`, `Delivery`
A shipment per fulfilment group, written under its version by staff (`UpdateRead`,
`UpdateWrite`), by the courier's events and by a payment at the door
(`ConfirmHandover`). An event has a row with a status and a lease: `Receive` creates
or takes it over, `Look`, `Settle`, `Apply` and `Unlock` are the writes of
`logisticsWebhook`, `Crash` leaves the lease to `LeaseExpires`. `RecordRefusal` counts
a failed Pay-on-Delivery delivery. `Custody` is the partner's counter:
`CounterRead`, `CheckOrder`, `CheckPayments` and `ReleaseParcel` are `mutateCustody`
around a deadline, beside the customer's returns and the refund of the order.

### `Accounts`, `Deletion`, `Invitation`, `AccountSystem`
`Accounts` has the user as a document that is read whole and saved whole (`Save`,
`SaveUser`), its sessions with the refresh token in force, and the requests that revoke
them; `Rotate` is the guarded update of `account-session`. `Deletion` adds the request
with its status and recorded step: `Take` is the claim by the job (`Claim`), by hand
(`EraseNow`) or over a worker that stopped (`Resume`), `Work` and `Record` alternate
per step, and `CancelRequest` is guarded by `MayCancel`. `Invitation` adds the link
and the profile; `ChangeStaff` starts a page whose writes to account, profile and
link land in any order (`Write`).

### `Catalogue`, `Products`, `Submissions`, `Vendors`, `SupplySystem`
`Catalogue` declares the records, how a request reads (`Reads`) and finishes, and the
category tree with its editors.
A write of the staff finds the version it read (`SameVersion`); the administration's
pages save the whole product they read (`SavesWhole`). `Job` is
`escalateOverdueAvailabilityChecks`: two lists, then one guarded write per product.
In `Submissions` the images are claimed after the record is written and handed
over or released after the decision. Any number of editors are at the tree at once: `raced` is
history, the categories and parents that two of them were about to save against each other.

### Around the order
`SharedCache`: `Load` is the read of the database, `KeepLocal` and `Publish` the two
tiers under the epoch and the version read before it; `Change` to `Receive` an
invalidation with its counter and its messages. `Access`: the seeded roles and the
routes' demands as tables, transcribed from `platform-bootstrap` and the routers, and
a request's two reads (`AuthenticateToken`, `ReadProfile`) beside pages that check and
then write. `Discovery`: `NextPage` is one page by cursor or offset from the current or
a cached catalogue, in the order of the query, by rank (`InOrder`); `stayed` is what was
listed and untouched since the walk began. `FieldForce`: `StartCreate` to `Insert` make an associate with
markets and `Undo` takes it back; `RetirePrimary` and `Insert` are an assignment's two
writes. `Network`: the checks of each page (`ResolveLocation`, `EnsureHub`, `Covered`) and
its writes are steps of their own, between which every other request may take its steps, and `Die`
ends one anywhere. `crossed` and `uprooted` are history: the markets, addresses and books of
addresses two requests were at work on at once, and the records whose city or hub moved to
another state under them.
`SignUp`: every door goes through `Insert` of the account and then the grants it
owes (`After`), each a row of the ledger with a key. An account that exists becomes usable by
a code too: `ActivateAccount` is `verifyOtp`, which grants, `ResetPassword` is
`resetPassword`, which does not; both save the user they read, whole. `TopUp` is the
script for accounts older than the bonus, whose row has a key of its own. `OrderDesk`: `Decide` and the
others act on what was read (`AsRead`); `WriteSplit` and `RetrySplit` are the
transaction and its second attempt. `Notices`: `InsertNotice` (unique key), `Push`,
`MarkPushed`, tickets and receipts, devices, sockets, then the table of effects of
each change (`Steps`) with the schedule. A step says whether its error stops the work, which is
then asked for again, or is swallowed, and who is left out with it: `LooksUp` is the access of a
member of staff, an error of which leaves him out while the flag is cleared all the same.

## 4. Runs

| run | instance | what it shows |
|---|---|---|
| `outbox` | 2 events, 2 workers, 1 administrator; a crash, a lease outlived, a replay; fair | while nobody dies a dead-lettered event has the row a replay starts from; every event is settled; the outbox implements `EventDelivery`, so a published event was delivered and stays published |
| `refunds` | a record and a request of half the captured amount each, 2 members of staff (`DesksOfRuns`: both on records, both on requests, one on everything), the job, every reply of the provider, 2 tries, a crash, a write that throws; fair | a recorded refund was made; but for two requests that give up one parked refund or approve one request side by side: no key is refunded twice unless a write threw, what left is reserved unless somebody died, and a refund made whose answer was lost is recorded in the end |
| `order_payment` | a Pay-at-Handover order (a webhook, a poll, an initialization, an administrator, 2 reviewers, a consumer), a prepaid one (2 webhooks, 2 initializations), or 6 combinations of 3 requests on links with a lapse; a crash; fair | order and payment agree and the fee goes back once; while nobody dies a cancellation gives the credit back; a charge is confirmed in the end, whichever attempt was paid, and stays so |
| `checkout` | 2 carts of one customer with one quote and credit; 2 customers and the last use of a coupon, with restorations that fail; 1 cart with 4 versions, 2 previews, a lapse; 2 keys, 2 requests each | one order per key and preview; a quote and the credit of an order are taken once and given back once, and an earned coin is taken back, but for a payment confirmed on a stale read; a coupon's limit is kept and its uses add up |
| `sourcing` | 2 items, 2 packages, 1 request of the associate and 1 of staff at a time, 8 versions of the task, 4 checks, 1 detour | a task said to be ready has its package and verified items |
| `delivery` | 1 group, a report of a failed delivery in 2 deliveries, 1 staff request, 2 requests at the counter, 1 return, a crash, a repeat; fair | a failed delivery counts one refusal; a parcel paid for is let go, once; every reported event is settled |
| `negotiation` | 2 commands with 2 keys, 1 acceptance, 2 confirmations, 4 prices, 2 offers, a crash | the best price and the agreed one are what is quoted and confirmed; a confirmed line stays |
| `accounts` | 4 requests in 12 combinations, 2 workers, a crash; fair | a token is renewed into one session and never after a revocation; a called-back deletion is not carried out; an invitation accepted does not reopen what was closed; every erasure ends |
| `catalogue` | 5 requests in 21 combinations, 3 categories, 2 submissions, 2 images, 2 managers; fair | what is on sale was confirmed; two levels, but where two editors were at odds; an answer or a decision is written on what it was made of; expired products come down |
| `platform` | eleven components, one per behaviour; 2 to 4 requests in each, with a crash, a lost message or a lapse | one property of each, stated in `Backbone`, `Storefront` and `Operations` |
| `refunds_two_approvals`, `custody_archived` | **violations** | see section 7 |

Where a promise is broken by one kind of failure only, the property of a passing
run says so in its first conjunct (`crashes = 0 => ...`, `dbErrors = 0 => ...`): up to
that failure the run checks it through everything else, and section 7 names the
property that the failure breaks.

**Bounds.** Two of each actor are enough for the races at hand, since each is a
pair of actors around one document; where a third matters (a duplicate that meets a
deleted record, a retry beside the job) there are three or four. Tries,
crashes, stalls, replays, lapses and versions are capped by constants named
`Max...`; each is at least what lets the interesting case happen (a retry after a
takeover, a second cancellation after a crash), which the mutants and the
violations confirm: each of them is found inside these bounds. The two members of staff in
`refunds` are on the same refund, whichever it is, and one of them is on both with the job
beside him; two who are each on both are in the proofs. Requests that carry out a chosen operation come in the combinations the MC
modules list: every operation is in one at least, and those that write the same
record are in one together. Symmetry is used over requests, keys and
previews in `checkout`, over items and packages in `sourcing`, and over commands and
confirmations in `negotiation`, all of which check safety only. `sourcing` has room for two rounds: a package that
fails, is sent back and comes again beside the one that passes, with a cancellation
anywhere; `MaxDetours` counts together what may happen at any time and for ever (a
redelivered event, a reassignment, a blocked task, a decline, a report, an item that
does not match), so the run has one of them in every place. Deadlock is not checked:
every system here may come to rest with nothing left to do.

**Fairness.** Only what the scheduling gives. `Outbox`: the drain runs every 3
seconds, so an event that can be claimed again and again is claimed (strong
fairness, since a sort by `availableAt` lets none pass another for ever); handlers
return or throw; leases and backoffs run out. Nobody has to replay. `Refunds`: a
running caller goes on; the job comes round to a parked record and a lookup answers
in the end. `OrderPayment` and `Links`: the reconciliation job comes round to a payment
that is PROCESSING (the window of 48 hours is longer than any poll), the provider repeats a
webhook until it is answered, the outbox redelivers, a running request goes on.
`Delivery`: a request that runs goes on, a lease ends after its 30 seconds, and the
courier delivers an event again until it is settled (strong fairness, `Insists`).
`Deletion`: the job runs again and a worker that lives goes on. `Products`: the job of
the deadlines runs again. Crashes, stalls, clients and administrators are never fair.

## 5. What is proved

TLAPS checks, for every value of the constants under the modules' assumptions:

- `PlatformProofs`, of `Outbox`, and of `Idempotency`, `SharedCache` and `Access` as `Backbone` has them:
  `OutboxTypeCorrect`, `OutboxRetryBudget`,
  `OutboxPublishedWasDelivered`, `OutboxPublishedIsFinal`, `OutboxReplayableUnlessCrashed`,
  `OutboxRefinesDelivery`. Inductive with `LockInv` (a row's lock is a worker's only while
  that worker holds it) and `HandInv` (what a working worker has in hand): without them a
  late worker could hold a token equal to the row's. `RetryBudget` bounds the tries between two
  replays: `MaxAttempts`, and one more for each worker that died and each lease that was
  outlived, since the claim takes a lapsed lease over whatever the count is (94, 97);
  `PaidInv` charges each try past the budget to one of them. A dead letter is replayable because
  whoever exhausts an event is on its way to write the row until it has.
  `IdempotencyTypeCorrect`, `IdempotencyReplayIsOwn` for every
  lease, crash and expiry; `IdempotencyOneHolder` and
  `IdempotencySuccessIsRemembered` up to the first lease that ends under its holder.
  `RecordInv`, `RequestInv` and `AnswerInv` tie a record's body to the attempt that
  wrote it, `HolderInv` a lease to its attempt.
  `CachesKeptIsFresh`, for any processes, lookups, changes and losses, of lookups that run on
  processes there are. `LookInv` says what a lookup has in hand: a value as new as the change of the
  version it will store under, and as what its process has heard of as long as the epoch is the one
  it began with. `PastInv` says that nothing is stored under a version to come, so that
  an invalidation's new version starts empty; a count of the changes not yet
  emitted keeps the version within the changes there were. `AccessAllowedSinceItStarted`, for any
  roles, edits and starts: `Covered` says that what is so now is in what is remembered
  since the request started, and `ReqInv` that each of the request's reads was. `AccessLetThroughWas`
  has no hypothesis: it adds that the tables fit each other (`TablesFit`). A page has the
  permissions that open it and those of its changes, transcribed from the routers. One lemma per group of
  routes says that each is a permission the bootstrap creates (`...AreKeys`); `Fits` is what a set of
  permissions must satisfy to open every page it may change, and one lemma per seeded role says that
  it does. The finance officer is excepted, who does not (`FinanceSees`, section 7).
- `RefundsProofs`: `RefundsTypeCorrect` (with `reserved` within the captured
  amount), `RefundsOneDispatcher`, `RefundsRefundedIsReal`, `RefundsRefundedIsFinal`,
  `RefundsOneRefundUnlessError`, `RefundsReservationCovers`. `CallerInv` ties a caller's step to what it holds,
  `SentInv` says a caller that settles has a refund the provider made, `PendingInv` that a
  dispatched record is not claimable, which is why a second claim fails. `OnceInv` says
  what is known of the provider at every step: nothing was refunded and nothing is about
  to be while a record may be claimed, and one refund at most afterwards. `CoverInv` is the
  account of the reservation, as long as no process has stopped: `refundedAmount` covers, for
  each refund, what was sent, what the provider may still send, and what a caller holds
  reserved before its call; it needs `QuietInv`, that whoever gives the reservation of a parked
  refund back found it parked and never made. Any number of members of staff and of jobs
  are at any refunds. `OnceInv` and `QuietInv` hold until two requests are side by side
  (`UnracedInv`): `HolderAlone` says that whoever has a refund at the
  provider is then alone with it, nobody else approving it or giving it up, and `OthersQuiet` that what the others
  know of theirs stays true. The second
  exception is the code's: both approvals refund a request (the run `refunds_two_approvals`), and
  of two who find a parked refund missing the second releases the reservation again, or
  fails the record while a retry of the first is at the provider (`ReservationAlwaysCovers`,
  section 7). One hypothesis: answers that parse (`AnswersParse`), because a success that
  does not is taken for a rejection.
- `OrderPaymentProofs`, of `OrderPayment` and `Links`: `OrderPaymentTypeCorrect`, `OrderPaymentPaidTogether`,
  `OrderPaymentFeeRefundedOnce`, `OrderPaymentMoneyAgrees` (the two together),
  `OrderPaymentApprovedHasEvent`, `OrderPaymentCreditsReturned`, `OrderPaymentCancelledIsFinal`,
  `OrderPaymentConfirmationNotOverwritten`. `StepInv` restricts each kind of request to
  its steps, `FeeInv` counts the callers past the reservation of the fee; that credit
  comes back needs no more: the transactions that cancel return it with the cancellation, and
  an administrator who has saved one is at its restoration until it is done.
  Of `Links`, `LinksConfirmedNeverReverts`: every write of the payment's status is the
  confirmation's or looks first at what the payment has become.
  Of what `Operations` puts together, the four properties of its run:
  - `DeskDeskHolds`, for any number of operators whose splits name items (`Asked`: the plan of a split
    is a sequence of sets, as the route lets through). `DeskReads` says what was read for a
    write: a plan that parts the items, an order in review, a package whose code nobody could
    read; `DecidedOnce` that an order somebody decided is not in review again, and `CodeIsTold`
    that the one code that was told is the package's.
  - `NetworkPlacesHold`, for any states, cities, hubs, markets, addresses and requests that overlap
    as they like and may die. `PlaceAsked` says what a request at work
    found, as long as nobody crossed it: the hub it is to write is of its market's state, the
    city and area of its address's, the default it is to set was cleared. A city or hub that moves
    is noted against all that lies there or is about to (`Uproots`), since `updateCity` and
    `updateHub` do not look. The records fit each other at the start (`PlacesStart`), and `"none"`
    is no state. That no customer is without a default is not among what holds (section 7).
  - `FieldStaffingHolds`, for any people and requests, of which none cancels or deletes whom another one
    invites (`StaffAsked`). `Replaced` follows an assignment between its two
    writes: who lost the primary market is named by the request that is about to insert the next
    one, under a key that is new; `OneHeld` is the index. `NothingHalfMade` says that a creation nobody
    else's is beside has its account until it is done, and none of what it made once it failed. The hypothesis is needed: a creation that names
    one market twice fails at the second, and a cancellation of the same person between its
    writes takes the account away before `Undo` looks for it, so that an assignment stays
    (`platform.controller.ts:1665`, `stale-invitation.service.ts:18`).
  - `NoticesToldOnce`, for finitely many requests of which each broadcast has a key of its own, as its
    random identifier gives it (`NoticesAsked`). `BuzzInv` counts: the pushes of a key's notice there were, with
    those still to come from a request that inserted its row, are not more than the rows the key has
    had. `WorkInv` says that what a request has left of a work is the end of its steps, and that
    whoever must hear of it by the steps before that has, or is among those it left out. The
    customer's notice of the credit is not among the musts: `CreditService.notify` swallows its error.
- `CheckoutProofs`: `CheckoutTypeCorrect`, `CheckoutOneOrder`, `CheckoutQuoteHeld`,
  `CheckoutAnswerIsOwnOrder`, `CheckoutOrderTakesItsLine`, `CheckoutCouponWithinLimit`,
  `CheckoutQuoteGivenBack`, `CheckoutCreditsAccounted`, `CheckoutNotOverdrawn`, and their
  conjunction `CheckoutTakenOrGivenBack`. `RequestInv` says that a
  request under way has no order yet, so that its order is new; `AdminInv` that only a
  cancelled order is restored, so that a quote given back is not a standing order's;
  `PreviewInv` that a preview of the cart's version is of the cart's line unless an
  edit is half done, which is what the version guard of the transaction rests on.
  `CouponInv` counts: the redemptions that apply, together with the releases that
  have claimed one and not yet counted it down, are as many as `usedCount` says, or fewer after a
  restoration that failed; so the guard of `redeem` on `usedCount` bounds what applies.
  `UsedInv` says that a used quote that has not lapsed belongs to an order that still backs
  it, standing or not yet restored; `CreditInv` that a coin is earned by a paid order, so that
  a balance below nothing is one from which a coin was taken back. `AccountInv` keeps the
  books: a balance is what was granted, less the credit that orders spent and did not get back,
  with the coins earned and not taken back (`Balanced`), and what an order has spent or
  earned follows from how far its restoration is and from whether its payment was late
  (`Entries`): a cancelled order keeps a coin only if its payment was confirmed on a read
  older than the cancellation (`KeepsCoin`). Orders are finitely many at any
  time, however many requests there may be.
- `FulfilmentProofs`, of `Sourcing` and `Delivery`: `SourcingTypeCorrect`, `SourcingReadyForHub`,
  `SourcingNoPackageOrphaned`, `SourcingParcelIsWhole`, `SourcingHubMovesForward`,
  `SourcingStoppedIsNotWorkedOn`, for every number of requests, checks and detours.
  `TaskInv` says what a request knows while the version it read is the task's: the task
  is still worked on, verified, and once packed has a package. It is inductive because
  everything that could falsify it (a send-back, a stop, a receipt) counts the version,
  which is the argument for the guard of the last write. `PackInv` says that what is at
  the hub came from a runner, so that a second receipt cannot undo a check; `ParcelInv`
  that the packages a consolidation has collected are at the hub, where their items do
  not change.
  `DeliveryTypeCorrect`, `DeliveryRefusalPerFailure`, `DeliveryPaidIsReleased`,
  `DeliveryHandedOverOnce`, `DeliveryLetGoOnce`, `DeliveryFollowsTheRoad`, for any number of groups,
  requests, deliveries of events, repetitions and crashes. `ReadInv` says what an update or an
  event knows as long as the version it read is the shipment's: the move it is about to make is on a
  road, or repeats the status, and the release it will write is the shipment's. `PaidInv`
  says that what was let go is let go for good, because no road leads back.
  `RefusalInv` is an account: refusals, with the repetitions under way that may still count one
  (`Repeating`), are no more than the failed deliveries and the repetitions there were; an
  event whose status the shipment has already moves nothing, which is why its repetition is free.
  `CounterInv` says that a parcel handed over is out of custody, be the record marked overdue after that.
- `AccountSystemProofs`: `AccountSystemTypeCorrect`, `RefreshedOnceWhileOpen`,
  `StoppedIsKeptOut`, `CalledBackIsKept`, for any number of requests and workers.
  `SessionInv` says that a token with a successor is not the one in force, on which the
  filter of `Rotate` rests; `RefInv` and `WriteInv` what a request knows of the token,
  deletion or invitation it is about and of the account it is about to save: a page that
  stops the account saves one that is not active. `ErasureInv` ties a worker to a deletion there
  is, and `OneEraser` says that a deletion being erased has one worker and is not called
  back: `CalledBackIsKept` assumes `~MaySlow`, since an erasure that outlasts
  the stale period is taken up beside its first worker.
- `NegotiationProofs`: `NegotiationTypeCorrect`, `NegotiationPriceIsKept`,
  `NegotiationOfferCountedOnce`, `NegotiationConfirmedStays`, for any rules of the
  product, prices and requests. Lemmas state what `Threshold`, `Decide` and `Lowest` return:
  a round is never above the one before nor below the floor, a counter is not above
  the last one, and an offer is accepted at a price within the rules. `NamedInv` says that
  the agreed price or the last counter is not above any price hook has named;
  `ThinkInv` and `AcceptInv` what a command at the language model, or an
  acceptance, knows as long as the version it read is the session's: no quote was made,
  a round is left, the lowest price is the one it read. They are inductive because every
  write of a price counts the version, and the marks that do not count it
  (`MarkExpired`, `RefuseExpired`, `ExpireSessions`) change the status only.
  Of what `Storefront` puts together, the four properties of its run:
  - `BasketCartHolds`, for any requests, processes, carts, products and batch size, over refills, crashes
    and the turn of the year. `IdsInv` says that the identifiers in the pools and those that were given are
    different ones, none above the counter of its year. `PreviewsInv` says of a preview, and of one
    still being written, that its lines are the cart's as long as its version is and no change is on
    its way to count it. Nobody runs `repairPublicIdCounter` (`CartAsked`), which sets the counter to
    whatever the administrator says, below what is in the pools, too; the run has one that does not.
  - `SignUpWelcomedOnce`, for any requests, crashes, failed writes and lapses. `KeysAreUsedOnce` ties
    each kind of grant to its key in the ledger, the welcome to two, a door's and the top-up's;
    `WelcomeComes` says that, up to the first mishap, an account that a granting door opened was
    welcomed or a request that opened it is on its way to. All operations are among the requests, the
    password reset, the administrator's page and the script included (`ComesIn` only says that a
    request starts at its start and has read no user).
  - `PricingQuoteIsKept`, for any settings, rules, coupons, baskets and changes of them between preview
    and confirmation. The shares of the groups are sums over a finite set: instead of an induction
    theorem, which no installed prover applies, the smallest set for which a fact about the sum
    fails is refuted. The property excepts what `share` loses by rounding (`LeavesEnough`): the last
    group is given the rest, which may be less than nothing. Hypotheses (`PricesFit`,
    `PricesAsked`): amounts and percentages are not negative, as the schemas have it, there is a group,
    and rules are finitely many. `Computed` says what `Money` gives for a fee; a quote agreed to has it
    for the fee read last, which is why what is placed asks for its total.
  - `DiscoveryWalkedOnce`, for any finite shelf, values and page size. `WalkInv` says that what stayed
    was shown exactly when the cursor is past it: the next page begins after the cursor and
    holds the first rows there, so nothing that stayed lies between its end and what was shown,
    also when the page was cached, since what stayed is on it as it is now.
- `SupplyProofs`, of `SupplySystem`: `SupplyTwoLevelsUnlessRaced`, `SupplyOnSaleIsConfirmed`,
  `SupplyAnswersItsRead`, `SupplyWrittenAsRead`, for any number of requests, categories,
  submissions and images. Lemmas say for each part where its steps take a request and what
  they leave alone, so that an invariant of one part passes over the others' steps at once.
  `TreeInv` says what each editor at work found: the parent it read is a top category in use, or the
  category it moves or removes has none under it, unless it and another are at odds, which
  `raced` remembers. The code checks the parent and saves the category as two operations on two records,
  and nothing there keeps a second editor out; the theorem says that two levels are lost only
  between a category and a parent that two editors were about to save against each other. `SaleInv` carries
  `Sellable` to every copy that may be written later: what an administrator's page will save
  whole, what a creation will insert, what a guarded update will set on the version it read.
  `WriterInv`, that an equal version means that what the write was decided on still
  holds, is inductive as long as every writer counts the version, hence
  the condition of `AnswersItsRead` that nobody saves a product whole. `ProducedInv`
  pairs the approved submissions with the products made of them, on which the approval's unique
  index rests; `AssociateInv` is what an associate's request knows of the submission it read.
Each proof has the same shape: `InitIInv`, one lemma or step per action for
`IInv /\ [Next]_vars => IInv'`, and the theorem by PTL. The assumptions are those the
modules state: ranges of amounts and bounds, `None` outside the other sets, names of
requests that are no answers. The sums of the two books (`SentTotal`, `CreditOf`)
are stated as the number of units of money, the cardinality of a set of pairs: adding an entry
is then a union of two finite sets, which `FiniteSetTheorems` counts, and no
induction over the orders or refunds is needed.
Proved and not run, because a run checks something that implies them or their conjunction:
`PublishedWasDelivered`, `PublishedIsFinal` (implied by `DeliverySpec`), `PaidTogether`
and `FeeRefundedOnce` (conjuncts of `MoneyAgrees`), `QuoteGivenBack`, `CreditsAccounted` and `NotOverdrawn`
(conjuncts of `TakenOrGivenBack`), `PaidIsReleased` and `HandedOverOnce` (conjuncts of `LetGoOnce`), `AnswersItsRead` (of `WrittenAsRead`); and, beside the properties of the runs, `OfferCountedOnce`, `ApprovedHasEvent`, `RetryBudget`, `OneDispatcher`, `RefundedIsFinal`, `CancelledIsFinal`,
`ConfirmationNotOverwritten`, `OneHolder`, `SuccessIsRemembered`, `QuoteHeld`,
`AnswerIsOwnOrder`, `OrderTakesItsLine`, `NoPackageOrphaned`, `ParcelIsWhole`,
`HubMovesForward`, `StoppedIsNotWorkedOn`, `FollowsTheRoad`, `AllowedSinceItStarted`.

**Only model-checked**: liveness and the fair specifications (`EventuallySettled`,
`ParkedIsRecorded`, `PaidIsConfirmed`, `AttemptPaidIsConfirmed`, `EventsSettle`,
`ErasureEnds`, `ExpiredComesDown`), because ENABLED is beyond the prover. Every other property of a
passing run is stated by a theorem, most of them for more than the run has; where a theorem
has a hypothesis that a run does not need (`FieldStaffingHolds`: cancellations of whom another
request invites are in the run's combinations), the run is what shows it there.
No module declares a RECURSIVE operator.

## 6. Abstractions to keep in mind

A handler's writes after the properties' last concern (timelines, audit entries) are
left out. Providers are answers; signature checks and parsing
only reject. Amounts are small numbers where sums matter and absent elsewhere. A
refused request leaves no action where it changes nothing. Redis, the queue and the
run claim only decide when jobs run (`Notices` has the claim and the schedule), and every
job's steps interleave with themselves. A provider that acts on a call after 15
minutes, and a lookup that answers wrongly (`monnify.provider.ts:158`), are hazards no
model covers. A component that stands alone in `MCPlatform` is not run beside the
others: what they write of its records are actions of its own (a product that is
unpublished is a move of `Basket`, an order that is paid a visit of `SignUp`).

## 7. Where the code and its comments differ

Two disagreements are runs, whose counterexample TLC must find; `PROJECT.json`
quotes the line of the comment under `findings`.

| run | in short |
|---|---|
| `refunds_two_approvals` | two approvals of one request both refund |
| `custody_archived` | a partner who holds a parcel is archived: the guard counts custody under his document's id (`platform.controller.ts:1348`, 1409), which is stored under his public one (`fulfilment.service.ts:1923`) |

The modules state more of what comments, names or answers promise and the code does not
keep. These properties are in no run; each ends in a counterexample when it takes the
place of the INVARIANT and PROPERTY lines of the configuration named. In
`MCPlatform` it is stated of its instance, as in `part = "doors" => Doors!GiftIsCredited`
(the instances are `Cache`, `Admission`, `Walk`, `Field`, `Network`, `Costs`, `Doors`, `Desk`,
`Told` and `Cart`; an action property as `[][part = "doors" => ...]_mcVars`), in `MCOrders` of
`InFull!` or `ByLink!`.

| configuration | module | property that fails | in short |
|---|---|---|---|
| `Outbox` | `Outbox` | `DeadLetterIsReplayable` | a crash between the two writes of `failOutboxEvent` (120, 133) strands a dead-lettered event |
| `Refunds` | `Refunds` | `BalanceNotDoubleSpent` | a reservation is released twice (`fulfilment.service.ts:2105`), and the balance is overspent (with `MaxTries = 3`) |
| | | `ReservationAlwaysCovers`, `ParkedIsAlwaysRecorded` | two members of staff give one parked refund up side by side (2093-2107): its reservation goes back twice; and the slower one marks a retry FAILED whose answer was lost after the provider made it, against the comment at 2132 ("Never mark FAILED (that would allow a second refund)") |
| | | `FailedIsUnsent` | a write that throws after the refund marks it FAILED (`fulfilment.service.ts:2125`), so it may be sent again |
| | | `OrderRefundedInFull` | reservations count as refunded money (`payment.service.ts:850`), and the order reads REFUNDED too early |
| | | `PendingIsResolved` | a crash after the claim leaves PROVIDER_PENDING for ever |
| `MCOrders` | `OrderPayment` | `PaidCancelledIsRaised` | a payment that overlaps a cancellation is kept with no exception (`payment.service.ts:582`) |
| | | `FeeNotKept` | a delivery fee confirmed after the cancellation is kept (`payment.service.ts:503`) |
| | | `PaidIsNotCancelled` | an administrator's cancellation overwrites a payment confirmed meanwhile |
| | | `RefundIsKept` | a late confirmation makes a refunded payment confirmed again (`payment.service.ts:471`) |
| | | `CancelledHasNoTask` | a consumer creates a task for an order just cancelled |
| | `Links` | `ChargedOnce`, `RefundableReference`, `PaidLinkStays`, `OneUsableLink`, `FirstPaidIsConfirmed` | two attempts are both paid, and the reference the payment keeps is not the paid one; a link that was paid is revoked or retired by what read it before; two links are made at once; a first reference that was replaced is not asked for any more |
| `MCCheckouts` | `Checkout` | `RetryGetsTheOrder` | a retry is refused though its order exists (`checkout.service.ts:568`) |
| | | `AddedStays` | a quantity added during the commit is deleted (`checkout.service.ts:937`) |
| | | `CoinClawedBack` | a payment confirmed on an order read before its cancellation (`payment.service.ts:452`) earns a coin after it (595), which no restoration takes back, against the comment at `order-restoration.service.ts:14-15` ("any Hook credit the order earned is clawed back") |
| | | `PerUserLimitKept` | with `Uses = {"coupon"}`, `TotalLimit = 2`: `perUserLimit` is exceeded through two carts (`coupon.service.ts:63`) |
| `Sourcing` | `Sourcing` | `NotSealedAround` | a failed item whose replacement the customer declined is re-checked and goes into the parcel (`fulfilment.service.ts:1521` does not count declined issues, against the comment at 1347) |
| | | `SentBackIsFree` | a send-back leaves a declined issue behind, and the task can never be submitted (1452) |
| | | `PendingHasIssue` | an issue settled while a check fails the item again is taken for its issue (1354, 1376): the item waits with no issue |
| | | `AcceptedApplies` | a report cut between its writes (1116, 1122) lets the customer pay for a replacement that cannot be applied |
| | | `SentBackIsHistory` | a package that was sent back is re-checked, against the comment at 1429 |
| | | `StoppedIsFinal`, `CancelledOrderIsFinal` | a receipt, check, report or send-back revives a stopped task (1312), consolidating (1623) or sealing a cancelled order |
| | | `PackedIsVerified` | a redelivered event drops a replaced item from the task (291), which is then packed with an item nobody verified |
| `Delivery` | `Delivery` | `AnsweredIsHandled` | with `Insists = FALSE`: an event answered as a duplicate (`fulfilment.service.ts:2447`) while its first delivery dies is handled by nobody |
| | | `NotDeliveredUnreleased` | with `Reports = {"IN_TRANSIT", "DELIVERED"}`: a courier that reports less finely delivers a parcel whose payment at the door was never asked for (2479) |
| | | `DeliveredIsWhole` | with two `Groups` and these `Reports`: an event of one shipment makes the whole order DELIVERED (2493) |
| `MCNegotiation` | `Negotiation` | `ExpiredStays`, `QuoteIsReachable` | an acceptance read before the expiry saves AGREED over it (`negotiation.service.ts:601`); a quote outlives its session |
| | | `OneActive` | with two `Starters`: two starts make two active sessions |
| `AccountSystem` | `Accounts` | `SupportReopens` | a document read before support closed the account is saved whole and opens it |
| | `Deletion` | `LiveIsClosed`, `NothingInProgress`, `ErasedStays` | the same of a deletion under way; an order is placed between the check and the erasure; an erased account is saved again |
| | `Invitation` | `AcceptedIsKept`, `OneOpenInvitation` | an accepted account is removed by a cancellation that read before; two reissues leave two links |
| `SupplySystem` | `Products` | `StaysOff`, `RulesKept`, `FloorWithinPrice`, `StatusIsVersioned`, `EscalatedWasDue` | answers and the administration's whole saves put back what was changed beside them, or count no version |
| | `Submissions` | `ImagesStay` | the rejection of one submission releases images another product has |
| | `Vendors` | `OneLiveToken`, `BlockedStays` | two invitations at once leave two tokens; an old link reactivates a blocked vendor |
| | `Catalogue` | `TwoLevels`, `LeafHolds`, `OnlyTheNamed` | one editor files a category under a parent another one moves down or removes (`categories.controller.ts:168`), against the comment at `category.service.ts:31` ("Only two levels exist"); a product is filed while the category gets a child; two namings leave two managers |
| `MCPlatform` | `Idempotency` | `ExecutedOnce` | a duplicate runs with no record (`idempotency.ts:86`) beside another that has one |
| | | `SuccessIsNotForgotten` | an attempt past its lease deletes another's success (`idempotency.ts:117`) |
| | `SharedCache` | `HeardIsFresh` | the remembered version of a namespace (`cache.service.ts:80`) is older than an invalidation heard of |
| | `Access` | `HasAnActiveRole`, `StatusesAgree`, `AssignedIsNotEdited`, `ArchivedStays`, `FinanceSees` | a role is archived or edited while somebody is put in it; account and profile are two writes; a boot revives what was archived; the finance officer may change what he may not open |
| | `Discovery` | `DiscoveredOnce` | pages by offset show a product twice |
| | `FieldForce` | `NoHalfMade`, `ArchivedIsNotAssigned`, `AlertedCanAnswer`, `AlertedWorksThere`, `OneOfAMarket`, `AcceptedIsKept` | a creation with a password is not undone; archived, suspended or moved associates are assigned or given a task by what was read before; two assignments of one market; an accepted account is purged |
| | `Network` | `AlwaysADefault`, `NeverTwoDefaults`, `HubsAgree`, `ListsAgree`, `OpenWhereHookIs` | making the default the default again, or saving it as none, leaves none; two first addresses are both the default (`address.service.ts:62`); a market moves while its hub is assigned, or its hub moves, and they are of two states; a market that moves stays on its hub's list; a state that closes leaves its markets open |
| | `Pricing` | `AlwaysAddsUp`, `PodIsAllowed`, `DefaultIsCurrent` | a coupon that takes nearly everything leaves payments that do not add up (`share`, `checkout.service.ts:692`: groups of 2, 5 and 1 and a discount of 3); Pay on Delivery is not checked again; a process's copy of the settings is served |
| | `SignUp` | `PendingIsGranted`, `GiftIsCredited`, `WelcomeIsGiven`, `ActivatedIsWelcomed`, `ToppedUpOrWelcomed`, `ResetStays`, `FirstOrderQualifies`, `QualifiedIsPaid`, `ShownCodeWorks`, `JoinedIsListed`, `OneLiveSession`, `OneLiveCode`, `QuietIsLeftAlone` | a gift stored while the account is made is never granted (`waitlist.service.ts:108`); failures after the account are swallowed; an account of `register()` is activated by a password reset (`auth.service.ts:493-511`), which grants nothing, against the comments at `auth.service.ts:430-432` and `credit.service.ts:28`; the top-up beside a door that read no welcome yet gives two; a code verified beside a reset saves the account that was read before it (`ResetStays`; a fifth request: start, partner, forgot, `reset(0, 3)`, `otp(0, 1)`); two first orders at once; a claim without its reward (`referral.service.ts:181`); two reads before two writes |
| | `OrderDesk` | `SplitIsMade`, `ShipmentHasItsGroup`, `ReviewIsKept`, `ApprovedIsConfirmed`, `AddressIsDelivered`, `TimelineKept`, `SharesAddUp` | whole saves overwrite each other (`order-timeline.ts:80`), a split runs past a booking, and its sums outside the transaction's callback survive a retry (`order-split.service.ts:94`) |
| | `Notices` | `MailedOnce`, `CompletedReachesAll`, `ChangeIsTold`, `OncePerMoment`, `MadeIsBuzzed`, `CapHolds`, `RevokedIsCut`, `RevokedIsSilent`, `WorkingIsActive`, `GreetedOnce`, `SwitchKept`, `SentIsRecorded`, `OneChain`, `StartedIsScheduled` | the notice of a payment's credit is lost with its error (`credit.service.ts:116-124`), and a member of staff whose access cannot be looked up is left out though the flag is cleared (`negotiation-notifications.service.ts:27`, 36, 44, against "durable session outbox" at 14); a crash between a row and its push, or between an effect and its mark; a cap and a preference read before they are used; a handshake or a registration beside a revocation; a worker that boots while another holds the lock (`jobs/queue.ts:60`) |
| | `Basket` | `DeadChangeIsSeen`, `AddedIsCounted`, `AddingHeals`, `ImportedOnce`, `EligibleIsAccepted`, `SummaryIsTheirs`, `OneActiveCart`, `WaiterIsServed` | a change that dies before the version is counted; an add beside an update that was read before; the quick add keeps the old version of the line; two imports with one key both write their lines; the cart calls eligible what a preview refuses; summaries finish out of order; two first adds make two carts; a refill that fails leaves its waiters without |

Seen beside the models: `updateInventorySettings` counts the version of the cache and tells no other
process (`admin/commerce.controller.ts:388`); an assignment that is edited without naming
`isPrimary` loses it, since `assignmentSchema.partial()` keeps its default
(`routes/admin/platform.ts`); mails are sent without a key, so a consumed event that is
delivered again mails again (`payment.service.ts:680`, `checkout.service.ts:1004`,
`fulfilment.service.ts:2221`); the scan for abandoned carts asks for `userId` where carts have
`customerId`.

## 8. Not modelled

The components with status `not_modelled`: the payment providers (their answers are
choices), media and the import and presentation of the catalogue, email settings and
digests, audit, rate limits and the HTTP layer, content pages, reports and search, seeds and
scripts. They are I/O, append-only logs, queries, or single documents nothing else decides on.
Of modelled components the notes in `PROJECT.json` say what is left out; code that no route
reaches is left out everywhere (the administration's older routes for orders,
`OrderService.checkout`, `update`, `pricing` and `dashboard` of `CommercialCatalogService`).
