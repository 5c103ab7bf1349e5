# Swico backend: money, queues and jobs in TLA+

A TLA+ development of the parts of this repository in which money moves and work is handed from one process to another.
It models the code under `src/backend/app`: what one database transaction does is one action, and the actions of different requests, processes and providers interleave.

## 1. The system

### Components

| Component | State it keeps | Operations | Models |
|---|---|---|---|
| wallet and usage reservations (`billing/service.py`) | `WalletAccount`, `WalletLedger`, `UsageCharge` | create, expand, settle, release, stale recovery, credit, reversal | `UsageReservation`, `PaymentOrders`, `FundingWindows` |
| monthly usage limit (`billing/usage_limits.py`) | `WebUsagePreferences`, sums over `UsageCharge` | check before reserving, expanding and debiting an overage | `UsageReservation` |
| payment orders (`web_api/router.py`, `billing/reconciliation.py`) | `PaymentOrder`, `ProcessedWebhook` | create, verify, four webhook events, reconcile | `PaymentOrders` (top-ups), `Entitlements`, `VideoJobs` |
| subscriptions and referrals (`billing/subscriptions.py`) | `SubscriptionEntitlement`, `SubscriptionUsageWindow`, `ReferralAttribution`, `ReferralReward` | fulfil, reward, claim; reserve, expand, settle and release in a window; refund | `Entitlements`, `FundingWindows` |
| tester credit (`billing/tester_credit.py`) | `WeeklyTesterCreditWindow` | reserve, expand, settle, release, configure | `FundingWindows` |
| Swico Free queue (`web_api/swico_free_queue.py`) | `Job`, the free charge, the saved answer, signals in memory | admit, enqueue, handle, cancel | `SwicoFreeQueue`, `FirstComeFirstServed` |
| job queue (`job_queue.py`) | `Job` | enqueue, claim, run, retry, recover stale jobs | `SwicoFreeQueue` (strict FIFO), `KnowledgeJobs` (without) |
| knowledge jobs (`web_ai/knowledge_jobs.py`, `retrieval/persistent_knowledge.py`, `web_api/knowledge_library.py`) | `WebKnowledgeDocument` and its chunks, `WebUsageStage` | approve, ingest, embed, derive, chain, cancel, delete, re-index | `KnowledgeJobs` |
| video orders and jobs, video node (`video/`, `swico_video_node/`) | `VideoJob`, `VideoOutbox`, `VideoQuota`, the cache of outputs | create, admit, pay, claim, upload, complete, sweep, refund, deliver | `VideoJobs` |
| chat turns (`web_api/chat_service.py`) | messages, charges | prepare, execute, persist, fail | their effect on charges and jobs |
| financial audit (`billing/audit.py`) | none (reads) | report inconsistent rows | its definitions are invariants |
| email one-time passwords (`email_otp.py`) | challenges | request, verify, expire | planned |
| request coordination (`web_api/request_coordinator.py`) | leases | acquire, renew, release | planned |
| everything else | | | not modelled; `PROJECT.json` has the reasons |

### How they interact

A chat turn reads the charge of its request, creates a reservation in one transaction, calls a provider, expands the reservation while the answer streams, and settles or releases it in a later transaction.
In between the process may die; an operator command recovers what stays reserved.
Money comes into the wallet from payment orders: the client, Razorpay's webhooks and the operator's reconciliation each learn that a payment was captured, in any order and several times, and each may credit the order.
Refunds take credit back from the same wallet that usage spends.

Turns of the free model reserve no money.
`chat_stream` prepares the turn (a charge in `free_pending`), and enqueues a job under the request id; a worker thread claims the oldest job, prepares the turn again, generates and persists the answer together with the charge.
A deployment has two such workers for a while, and cancellations come from any process.

A user may have more to pay with than a wallet: a tester's weekly credit is tried first, then the week of a prepaid subscription, then, with consent, the wallet.
A charge is settled in the source it was reserved from.
A subscription order makes an entitlement that begins when the user's last one ends; the first order of a referred user earns the referrer an entitlement in the same transaction, so one transaction locks rows of two users.

A video job is admitted by a quota or by a payment, waits in a queue for one node, and is leased to it with a number of the attempt.
Four parties write it: the user's requests, the payment handlers, the node, and a maintenance thread that sweeps up what is late and delivers refunds.
They share the lock of the `VideoControl` row, but not all of them take it, and the sweep reads before it locks.

A version of a knowledge source is approved with an ingest job; each job enqueues the next of the chain when it ends, in the queue without strict order, with several workers.
The embedding calls a paid provider between two transactions, and the owner may cancel, delete, re-index or replace the document at any time.

### What is hard

- The charge of a request is read before the wallet is locked and not read again: creations of one request id overwrite each other, and each holds an amount in its source.
- Every ledger row has an idempotency key. A row with a known key is dropped silently, but the wallet moves: keys must be as fine as the operations they name.
- Webhooks are duplicated and reordered. A refund may arrive before the payment it refunds, and the reconciliation works without a row lock.
- The claim of a job is three statements. A stale job is read and written by id, and so is a cancellation.
- A weekly window is loaded before it is locked, and the object-relational mapper keeps what it loaded: a reservation adds to an old value. The window may change between a reservation and its expansion.
- A sweep, a completion, an ingest or a request of an owner reads rows, and then writes by id what follows from what it read.
- A refund or an embedding is asked for between two transactions: the answer may be lost, late or for something that was cancelled meanwhile.
- What ends at all: reservations of dead processes, captured payments whose client never returns, jobs of crashed workers, jobs behind a head that must retry.

### What makes the components correct

- Wallet: the reserved amount is the sum of the active charges; the ledger explains the balance; neither is ever negative; a closed charge is final; a reservation ends.
- Monthly limit: usage never grows beyond the limit, by whatever mix of reservations, expansions and settlements.
- Payment orders: an order is credited once, only for captured money; no more is taken back than was refunded; the status tells what happened; a captured payment is credited in the end.
- Sources: every open charge is backed by the source it was reserved from, no week costs more than its allowance, and settled charges explain all use.
- Entitlements: the periods of a user do not overlap, a whole refund takes back the period and its reward, and one reward stands for a referred user.
- Video: one job runs; a refund is asked for once; what is ready can be downloaded; the quota counts what was used; captured money ends in a video, a refund or an operator's hands.
- Knowledge: a document is sent to the paid provider once and charged once, exactly if it was answered; what is ready has its chunks; every job ends.
- Queue: one job runs at a time, in order of arrival; a completed job has an answer; an answer and its charge are settled together; every job ends.

`PROJECT.json` lists each hazard at the line where it bites, with the property that covers it or the reason why none does.

## 2. The modules

| Module | What it is |
|---|---|
| `Totals`, `Totals_proofs` | sums over finite sets, used by the invariants about money, and their laws |
| `UsageReservation`, `UsageReservation_proofs` | one wallet, its charges, the ledger, the monthly limit; all its invariants and action properties are proved |
| `FundingWindows`, `FundingWindows_proofs` | charges paid from weekly windows, tester credit or the wallet; all its invariants are proved |
| `PaymentOrders`, `PaymentOrders_proofs` | top-up orders, Razorpay, webhooks, refunds, reconciliation; all its invariants are proved |
| `Entitlements`, `Entitlements_proofs` | subscription orders, periods, referral rewards and refunds, with row locks; all its invariants are proved |
| `FirstComeFirstServed` | what a first-come queue promises |
| `SwicoFreeQueue`, `SwicoFreeQueue_proofs` | the durable queue that implements it; its invariants and the refinement are proved |
| `KnowledgeJobs`, `KnowledgeJobs_proofs` | the knowledge library and the queue without strict order; all its invariants are proved |
| `VideoJobs`, `VideoJobs_proofs` | video jobs, their payment, node, sweep and refund outbox; all its invariants are proved |
| `MC...` | symmetry sets and bounds for TLC |

`FundingWindows`, `UsageReservation` and `PaymentOrders` use `Totals`. `SwicoFreeQueue` instantiates `FirstComeFirstServed`. The others stand alone: where one component acts on another, the module has the outcomes that the other allows (`Reserve` and `Spend` of `PaymentOrders` for usage, `Use` of `Entitlements` for a reservation in a window, `RecoverStale` of `KnowledgeJobs` for the recovery of charges).

A sum is written as the cardinality of a set of pairs (one pair per micro), not as a recursion, so that its laws follow from facts about finite sets.

Definitions named by "Mutant:" in a comment are deliberately wrong variants of the definition they precede.
Nothing of the specification uses them; replacing the definition by its variant makes the property named in `PROJECT.json` fail, which shows that the property depends on that piece of the code.

### UsageReservation

`wallet`, `charge`, `ledger`, `limit` are database rows; `ledger` is a function of the idempotency key, `Record` writes a row only where there is none, as `_record_ledger` does.
`pending` is what an open creation has read.
`aged` is the set of charges older than the cutoff of the recovery, by `created_at`, which a retry keeps.

| Action | Code |
|---|---|
| `BeginCreate`, `CommitCreate`, `AbortCreate` | `create_usage_reservation`: the unlocked read, the locked rest, a rollback |
| `CommitExempt`, `CommitFree` | the billing-exempt and the free variant |
| `Expand` | `expand_usage_reservation` |
| `Settle` | `settle_usage_reservation`, with an overage cut to balance and limit |
| `Release` | `release_usage_reservation` |
| `SettleExempt`, `ReleaseExempt`, `SettleFree`, `ReleaseFree` | the ends of charges without money |
| `RecoverStale` | `recover_stale_usage_reservations` |
| `SetLimit`, `NewPeriod`, `Age` | the user's preference, the month, the clock |

A transaction writes the columns that differ from what it loaded (`Flush`): the object-relational mapper does so, and it matters when another transaction has committed meanwhile.

### FundingWindows

`charge` is the row with its source and the window or week it was reserved in; `window` and `tester` are the weekly rows, `wallet` the account in outline.
The ledger of the windows is modelled where the code asks for a row: `marker` is the row of an expansion id, `covered` the attempts of a request that have one.
`pending` is what an open creation has read of its charge, without a lock; it decides by that, and the flush writes the columns that differ from it (`Flush`), whatever the row has become.
`reader` is the one transaction that holds the entitlement's lock and has loaded its windows; settlements and releases do not take that lock, and come in between.
`mixed` is history: windows that an expansion in another week touched, for which the code keeps no account (see the disagreements in section 3).

| Action | Code |
|---|---|
| `BeginCreate` | `create_usage_reservation` reads the charge without a lock |
| `ReserveTester` | `reserve_tester_credit` finds the whole amount |
| `BeginReserve`, `CommitSubscription`, `CommitFallback` | `active_window` reads, `reserve_subscription_window` writes, or there is a ledger row of this attempt already; or the wallet pays |
| `ReserveUnsubscribed` | no entitlement is live |
| `AbortCreate` | an exception or a rollback, at any point of a creation |
| `BeginExpand`, `CommitExpand`, `CommitExpandByMarker`, `AbortExpand` | `expand_usage_reservation` of a subscription charge: in the window that is current now, or by the row of an earlier expansion with this id, or a rollback |
| `ExpandTester` | `expand_tester_credit` |
| `SettleSubscription`, `SettleTester`, `SettleWallet` | the branches of `settle_usage_reservation` |
| `ReleaseSubscription`, `ReleaseTester`, `ReleaseWallet` | the branches of `release_usage_reservation` |
| `NextWindow`, `NextTesterWeek`, `Configure` | the clock and the configured allowance |

### Entitlements

Each handler runs one transaction, `job`, through the stages of the code: the order's lock, the purchase, the reward, the refund, the write. `held` is the rows it has locked; a step waits for the rows it `Wants`.
`order`, `period`, `review` are the committed rows; a transaction writes the columns it changed (`Stored`) when it commits.

| Action | Code |
|---|---|
| `Webhook`, `Verify`, `LockOrder` | `razorpay_webhook` and `verify_payment` lock the order before they read it |
| `Reconcile`, `Place` | `reconcile_razorpay_orders` reads without a lock and locks when it writes |
| `Fulfil` | `fulfill_subscription_payment`, `create_entitlement` |
| `Reward` | `create_referral_reward_once` |
| `RefundPart`, `RefundWhole`, `Reject` | `reverse_credit_for_refund` of a subscription |
| `Commit`, `CommitTwice`, `Abort` | the commit; the unique key of the webhook's event; a rollback, of a broken circle of waiting transactions too |
| `Claim`, `Attribute` | `claim_referral_code`: the checks, the insert |
| `Use`, `Pay`, `IssueRefund`, `Tick` | a reservation, Razorpay, the clock |

### PaymentOrders

`order` is the row, `call` the open `create_order` calls, `checkout`, `payment` Razorpay's own state, `shown` the provider orders a client has been given, `credits`, `reversals` the ledger rows by key, `processed` the webhook table, `recon` what an open reconciliation has read; `spent` and `repaired` are history.

| Action | Code |
|---|---|
| `BeginOrder`, `ProviderCreates`, `FinishOrder`, `FailOrder`, `CrashOrder` | `create_order`: commit, call, commit, and the ways to fail |
| `Attempt`, `Capture`, `RefundPayment` | Razorpay (external) |
| `Verify`, `CapturedEvent`, `RefundEvent` | `verify_payment`, `razorpay_webhook`: one action each, since the row is locked before it is read |
| `ReconcileLoad`, `ReconcileRead`, `ReconcileCommit`, `ReconcileAbort` | `reconcile_razorpay_orders` with `--apply` |
| `Reserve`, `Spend` | usage of the wallet, in outline |

`Reserve` and `Spend` stand for `UsageReservation`: any amount may be held or spent, so that a reversal meets every balance and reservation.

### SwicoFreeQueue

`job` and `line` are the job table (the order of `(created_at, id)` is taken to be the order of the enqueues), `charge` and `answer` the charge and the message of the request, `posting` an open `chat_stream`, `canceller` an open cancellation, `worker` the step of each worker.

| Action | Code |
|---|---|
| `Admit`, `Refuse`, `Enqueue`, `Abandon` | `chat_stream`: prepare, refuse, enqueue, die in between |
| `CancelRead`, `CancelWrite`, `CancelRunning` | `cancel_generation` on a waiting and on a running job |
| `SeeStale`, `Requeue` | the recovery of stale jobs: read, then written by id |
| `Look`, `Pick`, `Claim` | the three statements of `_claim_next_job` |
| `Start`, `Prepare`, `PrepareFails`, `Generate`, `Busy`, `Fail`, `Stop` | the handler and `execute_web_turn` |
| `Finish` | the write of the job's outcome, which does not ask for its status |
| `Crash`, `Age`, `RunAt` | the process dies; the clock |

`KeepsPromise` is the refinement: with `Served` for its variable `served` and the same `line`, the queue implements `FirstComeFirstServed`. `Claim` is `Serve`, a retry or a recovery is `Again`, the end of a job and a cancellation are `End`; a cancelled job that a worker or the recovery writes over is `PutBack`, which the abstract queue allows for a cancellable request only.

Preparing a turn and persisting an answer are one action each: `UsageReservation` has the races inside the creation of a charge.

### VideoJobs

`job` is `VideoJob`, `order`, `intent` and `used` the payment order, the refund's outbox row and the day's quota; `cache` says which attempt's output is in Valkey; `razorpay` is what the provider knows, with the requests that are on their way to it.
`txn` is the transaction that holds `VideoControl` and has read jobs (the sweep, a completion); `fulfil` a payment handler between its look at the clock and its commit; `delivery` the refund's delivery between its two transactions; `cleaning` what the sweep deletes after its commit; `late` a completion that arrives after the node gave up.
`overwritten` is history: jobs written by a transaction that had not seen their last commit.

| Action | Code |
|---|---|
| `Create`, `Preflight`, `AdmitFree`, `AdmitPaid`, `AdmitAgain`, `OrderCreated`, `OrderUnknown`, `Cancel`, `Media` | the user's requests in `video/router.py` |
| `FulfilRead`, `FulfilCommit` | `fulfill_video` |
| `RefundNotice`, `OtherRefund` | `video_refund` for a webhook |
| `Deliver`, `Ask`, `AskInVain`, `Delivered`, `DeliveryCrash` | `deliver_one`: mark, ask Razorpay, note the answer |
| `Claim`, `ClaimStale`, `Upload`, `LeaseLapses` | `claim`, `output`, `fenced` and `progress` |
| `Judge`, `GiveUp` | `swico_video_node/worker.py` |
| `CompleteRead`, `SweepRead`, `Commit`, `CompleteAbort`, `Clean`, `SweepCrash` | `complete` and `sweep`: read, write by id, delete the media afterwards |
| `Tick`, `LoseOutput`, `Pay`, `MakeRefund`, `RefundDecided` | the clock, the cache, Razorpay |

### KnowledgeJobs

`doc` is a version of the source with its chunks and what is derived from them, `jobs` the job table, `stage` and `charge` the accounting of the embedding, `worker` the step of each worker with what it has read, `request` a request of the owner between its reads and its writes.
`answers`, `unsettled`, `replaced` and `partly` are history.

| Action | Code |
|---|---|
| `Approve` | `approve_persistent_knowledge` with `invalidate_knowledge_source` and the ingest job |
| `Ask`, `Cancel`, `Delete`, `Reindex`, `AskInVain` | the owner's requests: read, then write by id |
| `Claim`, `See`, `Complete`, `Break`, `Crash` | the queue: claim, refresh, end with the next job of the chain, a failed attempt, a dead worker |
| `Read`, `Ingest`, `Build` | `handle_knowledge_ingest`, the handlers of the derived stages |
| `Reserve`, `Start`, `Call`, `Answer`, `Judge`, `Store` | `handle_embedding_backfill`, from one commit or check to the next |
| `RecoverStale` | `recover_stale_usage_reservations` |

## 3. The runs

Each run answers one question. Two kinds: in a "pass" run every property holds in every reachable state; a "violation" run states what a document, comment or docstring of the repository says, and TLC shows an execution of the model in which it does not hold.

| Run | Bounds | States | Shows |
|---|---|---|---|
| `usage_wallet` | 2 requests, 1 creator, balance 3, holds {1, 2}, costs {0, 1, 3}, limit none or 2, 2 attempts, 2 months | 210 thousand | `TypeOK`, `HoldsMatchCharges`, `LedgerExplainsBalance`, `LedgerExplainsHolds`, `LimitHolds`, `ClosedIsFinal` |
| `usage_races` | 1 request, 2 creators, all three kinds of charge | 60 thousand | `LedgerNeverOverstates` whatever the races; `ReservationsEnd` |
| `windows` | 2 requests, 2 creations at a time but not of one request, 2 windows (the last prorated), 2 tester weeks, allowances {0, 2}, 2 attempts, 1 expansion id | 1.0 million | `TypeOK`, `HoldsAreBacked`, `WeekFits`, `UseIsExplained` |
| `payments_handlers` | 1 order, 2 provider orders, 2 payments, 2 refunds of half an order, 2 micros of usage, 1 reconciliation | 82 thousand | `TypeOK`, `LedgerExplainsBalance`, `CreditsAreCaptured`, `WebhooksReverseOnce`, `StatusMatchesAmounts`, `PaidIsCredited` |
| `entitlements` | 2 users, 3 orders, 2 transactions at a time, refunds of a half or the whole | 1.7 million | `TypeOK`, `PeriodsDisjoint`, `RefundsTakeBack`, `RewardedOnce` |
| `queue_worker` | 1 worker, 1 crash, 2 requests posted up to twice, one of them cancellable | 181 thousand | `TypeOK`, `OneRunning`, `JobsEnd`, and `KeepsPromise`: the refinement |
| `queue_overlap` | 2 workers, the same requests, no crash | 6.1 million | `CompletedIsAnswered`, `AnsweredIsSettled` |
| `video` | 2 complimentary jobs, or 1 paid with a fault or a late answer; 2 leases, 2 requests for a refund | 771 thousand | `TypeOK`, `OneRunning`, `RefundedOnce`, `OutputIsDelivered`, `QuotaIsExact`, `CapturesEnd` |
| `knowledge` | 2 versions, 2 workers, embedding and hierarchy, 2 attempts, 2 requests of the owner, 1 fault | 1.2 million | `TypeOK`, `PaidOnce`, `StageMatchesCharge`, `AnswersAreCharged`, `ReadyIsSearchable`, `JobsEnd` |
| `payments_reconcile` | 1 order, 1 payment, 2 refunds, 1 reconciliation | | `RefundsReversedOnce` is violated |
| `video_capture` | 1 paid job, no faults | | `CapturedIsCompensated` is violated |
| `knowledge_replaced` | 2 versions, 1 worker, no derived stages | | `ReplacedStaysOut` is violated |

Why the bounds are enough for the cases that matter:

- Two charges compete for a balance of 3 and a limit of 2, so that reservations are refused, an overage (cost 3 against a hold of 1 or 2) is cut by the balance, by the other charge's hold and by the limit. Two attempts reuse the row of a released charge. The second month makes the limit forget.
- `windows` has two creations at a time, of different requests (`Overlap = FALSE`): between the unlocked read of one and its commit come those of the other, and settlements, releases and expansions of all charges. Creations of one request that overlap are left out, because with them three of its properties do not hold (see the disagreements below and section 4).
- `usage_wallet` has one creator, `usage_races` two: with one, no other creation comes between the read and the commit, but settlements, releases and the recovery of a charge still may. The properties of `usage_wallet` need the absence of such races where they speak of charges (section 4).
- A refund of half an order with a credit of 3 makes the cumulative share round down (1, then 2 more), and usage of 1 or 2 leaves less than a refund takes back.
- Two payments for two provider orders of one internal order are what a client gets that repeats a checkout whose answer was lost.
- In `windows` a whole week holds one large or two small reservations, a prorated week one, and a cost of 3 is more than any reservation: refusals, fallbacks and overages occur in every source. Two weeks suffice to reserve in one and expand or settle in another.
- In `entitlements` one user has two orders and the other one, and they may refer each other. The order that is paid first is the only one that is refunded, verified or reconciled, one transaction that is not a webhook runs at a time, and claims come before the first payment; these bounds keep the state space finite in practice, and leave every pair of handlers to meet.
- In `video` two users who do not pay compete for the node and its leases; a user who pays is alone, with a crash of the API, a lost output or a late answer of the node, one of them. Two leases make one retry and one failure.
- In `knowledge` a newer version, a fault and a second request of the owner exclude one another; each meets every step of both workers. The stage after the embedding runs with one worker at a time.
- Two requests suffice to say what order is, two workers to overlap. A request may be posted again while it waits, runs or is over.

The constants `MaxAttempts`, `MaxPeriods`, `MaxSpent`, `MaxRuns`, `MaxPosts`, `MaxCrashes`, `MaxFaults`, `MaxHold`, `MaxTime` and `Weeks` bound what the code does not bound. `Attempts` and `Tries` are the code's own limits, made smaller. `MaxPosts` also bounds the retries of a client.
Symmetry is used over requests in `usage_wallet`, requests and callers in `windows`, refunds in `payments_reconcile`, workers in `queue_overlap` and handlers in `entitlements`, never in a run with a liveness property.
Deadlock is checked in the queue runs and in `usage_wallet`; in the others everything may be paid, refunded, indexed or closed, and then nothing is left to do.

### Fairness

- `UsageReservation`: weak fairness of `RecoverStale` and of `Age`. The README of the backend has the recovery as a maintenance command to be run regularly, and the clock runs. Nothing is assumed of clients or providers. Without the recovery a reservation may stay for ever.
- `PaymentOrders`: weak fairness of the `payment.captured` event for each order and payment (Razorpay repeats a webhook until it is acknowledged), and an open reconciliation finishes. Nothing is assumed of the client, who may never verify, or of refunds.
- `SwicoFreeQueue`: weak fairness of each worker, whose thread polls and whose provider calls have timeouts, and of the clock. Nothing is assumed of clients, cancellations or crashes.
- `VideoJobs`: weak fairness of the clock, of the maintenance thread (its sweep and its deliveries), of a completion that has begun, of the payment's notices and of Razorpay's decision about a refund. Nothing is assumed of users or of the node, which may stop for ever: the deadline ends the job.
- `KnowledgeJobs`: weak fairness of each worker, whose queue polls and whose provider has a timeout. Nothing is assumed of the owner; a worker that crashes polls again, the job it ran stays as it is.
- `Entitlements`, `FundingWindows`: none, and no liveness. Two transactions that wait for each other in a circle are broken by a rollback and may meet again, so that a fulfilment ends only if every lock is given fairly, which PostgreSQL does not say.

### Findings

1. `payments_reconcile`: the reconciliation reverses a refund of a top-up but does not remember the id of the refund. The webhook of that refund, when it arrives, reverses it once more. For this reason `payments_handlers` checks `WebhooksReverseOnce`, the same bound for the orders that no reconciliation repaired.
2. `video_capture`: the sweep decides by rows it has read without their locks. A capture that commits in between is overwritten: the job is failed, the order captured, and there is no intent to refund it. `CapturesEnd` and `QuotaIsExact` hold of the jobs that no such write has hit (`overwritten`).
3. `knowledge_replaced`: an ingest that has read its document before a newer version invalidates it writes it ready again. `ReadyIsSearchable` is stated of the documents that were neither replaced nor partly re-indexed (below).

### Disagreements without a run

The models contain these too; each is left out of a property, or is why a property is stated with fewer actors.

- The key of an expansion, `usage-expand:{request}:{expansion}`, lacks the number of the attempt. A second attempt that uses an expansion id of the first is told that it holds the amount (`service.py:544`), and holds nothing; in a subscription window the charge grows, and the window does not (`CommitExpandByMarker`).
- The stale recovery goes by `created_at`, which a retry keeps (`service.py:1026`), though it is documented to leave active generations alone: a reservation made a moment ago in an old row is released.
- Two overlapping retries of a released request: the second commits what it decided from its unlocked read, and a settled charge is open again. `ClosedIsFinal` is checked with one creator.
- The same two retries, paid from elsewhere than the wallet, each add to the week they are paid from: `reserve_subscription_window` adds to the window before it asks whether the row of the attempt is there (`subscriptions.py:318`), `reserve_tester_credit` has no row to ask for (`tester_credit.py:178`). If the window has too little left for the second, it finds the row of the first, and is paid by it (`service.py:279`). The charge keeps one hold, so that the other is never given back; if the first was settled in between, its debit is written over, and the week has consumed what no charge explains. `FundingWindows` has all of this with `Overlap = TRUE`: TLC then finds `HoldsAreBacked`, `WeekFits` and `UseIsExplained` violated within seconds. The run and the theorems speak of calls that do not overlap.
- Two workers both find nothing running and claim two jobs, against the comment at `job_queue.py:164`. `OneRunning` and `KeepsPromise` are stated of one worker: they say what its crash, the recovery of its job, retries and cancellations written over it cannot do. `queue_overlap` has two, and checks what still holds.
- A busy laptop releases the charge in a session of its own; the handler then assigns the value that its own session had loaded, and nothing is written (`swico_free_queue.py:267`). The next attempt finds the charge released and cancels the job. `JobsEnd` rests on that: with the charge kept, a laptop that stays busy would hold up the whole line for ever.
- An expansion takes from the window that is current, the settlement gives back to the window of the reservation: across a change of week the first keeps what it gave, and the other may give back what others hold. `docs/BILLING.md:5` says that sources never switch; the windows concerned are `mixed`.
- A partial refund of a subscription marks the order for a review, and the webhook writes the metadata it had read before over the mark (`web_api/router.py:5581`). With the reconciliation the mark stays.
- A re-indexing that reads a cancelled document with pending chunks, before the ingest that was cancelled makes both ready, writes what it changes: the status `indexing`, and nothing to the chunks (`web_api/knowledge_library.py:167`). An ingest that has read this pair, and meets a second re-indexing, in turn writes the status `ready` and nothing to chunks that are pending again (`partly`). It takes three requests of the owner: the proof of `ReadySearchable` met it, the run `knowledge` with two does not.
- A released request that is repeated as exempt or free starts again without the number of its last attempt. Paid once more, it would reuse keys of ledger rows it has, and no row would be written. `HoldsExplained` is proved for paid requests only; the run `usage_wallet` has no other kind.
- A reward that a refund cancelled may be followed by one for a later order, though `docs/BILLING.md:7` speaks of the first subscription only. `RewardedOnce` is stated of the rewards that stand.

## 4. What is proved

TLC checks the instances above. The theorems hold for all constants that satisfy the named assumptions of the modules: any finite set of requests, any number of callers, weeks, workers and crashes, any amounts in the naturals.

| Theorem | Statement |
|---|---|
| `TypeCorrect` of `UsageReservation` | `Spec => []TypeOK`: in particular balance and reserved amount are never negative, whatever creations race |
| `NeverOverstated` | `Spec => []LedgerNeverOverstates`: balance and debit rows together never exceed what was credited |
| `HoldsMatch` | `Spec /\ []SnapshotsCurrent => []HoldsMatchCharges` |
| `TypeCorrect` of `FundingWindows` | `Spec => []TypeOK`: no amount of a wallet, a window or a tester's week is negative, whatever creations overlap |
| `HoldsBacked`, `WeeksFit`, `UseExplained` | `Spec /\ []SnapshotsCurrent` implies `[]HoldsAreBacked`, `[]WeekFits` and `[]UseIsExplained` |
| `OneCallKeepsSnapshots` of `FundingWindows` | `~Overlap` implies `Spec => []SnapshotsCurrent` |
| `TypeCorrect` of the other five | `Spec => []TypeOK` of `PaymentOrders`, `Entitlements`, `SwicoFreeQueue`, `KnowledgeJobs` and `VideoJobs` |
| `ClosedStays` | `Spec /\ []SnapshotsCurrent => ClosedIsFinal` |
| `LimitKept` | `Spec /\ []SnapshotsCurrent => LimitHolds` |
| `BalanceExplained` of usage | `Spec /\ []SnapshotsCurrent => []LedgerExplainsBalance` |
| `HoldsExplained` | `PaidOnly` implies `Spec /\ []SnapshotsCurrent => []LedgerExplainsHolds` |
| `OneCallKeepsSnapshots` of `UsageReservation` | `Spec /\ []OneCallPerRequest => []SnapshotsCurrent` |
| `CapturedFirst` | `Spec => []CreditsAreCaptured`, with overlapping reconciliations too |
| `ReversedOnce` | `Spec => []WebhooksReverseOnce`, with overlapping reconciliations too |
| `BalanceExplained` of payment orders | `~Overlap` implies `Spec => []LedgerExplainsBalance` |
| `StatusTells` | `~Overlap` implies `Spec /\ []OneCallPerOrder => []StatusMatchesAmounts` |
| `TakenBack`, `PeriodsApart`, `OneReward` | `Spec => []RefundsTakeBack`, `[]PeriodsDisjoint` and `[]RewardedOnce`, for any number of transactions |
| `CompletedAnswered`, `AnsweredSettled` | `Spec => []CompletedIsAnswered` and `[]AnsweredIsSettled`, for any number of workers |
| `OneAtATime` | `OneWorker` implies `Spec => []OneRunning` |
| `ServesInOrder` | `OneWorker` implies `Spec => KeepsPromise`: the durable queue implements `FirstComeFirstServed` |
| `SentOnce`, `StageCharged`, `AnswersCharged`, `ReadySearchable` | `Spec => []PaidOnce`, `[]StageMatchesCharge`, `[]AnswersAreCharged` and `[]ReadyIsSearchable`, for any number of workers and requests of the owner |
| `OneRuns`, `RefundOnce`, `QuotaExact`, `OutputDelivered` | `Spec => []OneRunning`, `[]RefundedOnce`, `[]QuotaIsExact` and `[]OutputIsDelivered` |

The arguments:

- `TypeOK` is inductive by itself. The interesting leaves are the subtractions: a debit is cut to what is available, and a release gives back at most what is reserved (the code has `max(0, ...)` there, which is why the theorem needs no agreement between wallet and charges).
- `LedgerNeverOverstates` is inductive given `TypeOK`. A settlement is the one step that changes the balance; it lowers it by the debit and writes one debit row of at most that amount, if there is none. `TotalChange` says what one changed row does to the sum.
- `HoldsMatchCharges` is not an invariant of the code: two overlapping retries of a released request each set money aside, and the charge keeps only the later amount. It is proved under the condition `SnapshotsCurrent`, that nothing touched a charge between the unlocked read of its creation and its commit. A client that has one call for a request id in flight meets it: that is `OneCallKeepsSnapshots`. Only `CreateKeepsHolds`, the lemma about the commit of a creation, uses the condition. The inductive invariant `HoldsInv` adds that what an open creation has read holds no money (`SeenHaveNoHold`).
- `FundingWindows` has its invariant in two parts. `RowsInv` holds whatever creations overlap: the types; that the one transaction which has read the windows adds to a value no smaller than the row's, since all others only give back (`ReaderIsCurrent`), and what an expansion has locked is open; that no creation has read an open charge (`SeenAreClosed`); and the check constraint of the windows (`WindowsFit`), which a step either asks for or cannot break. `SumsInv` is `HoldsAreBacked`, `UseIsExplained` and `CoveredBelow`, that only attempts a charge has made have a ledger row, so that a new attempt is never funded by an old one's. A step keeps it if `SnapshotsCurrent` holds before: the charge that a creation writes over is then the closed one it has read, and what it adds to its source is what the charge comes to hold. `ReserveSums`, `GrowSums`, `SettleSums` and `ReleaseSums` say what an operation on one charge does to what every source holds and has paid; `CloseSums` relates that to the rows for all ways a charge ends. `WeekFits` follows from both parts. `OneCallKeepsSnapshots` rests on the fact that only a creation opens a charge that is absent or released (`OnlyCreatorsOpen`).
- `CompletedIsAnswered` is not inductive: a worker may be about to write `completed`. `WorkersKnow` says what a worker in each step has seen: one that is about to complete a job has seen its answer; only a cancellable request is ever stopped; a worker that is not resting has a request. `IInv == TypeOK /\ WorkersKnow /\ CompletedIsAnswered /\ AnsweredIsSettled` is inductive, because an answer, once saved, stays. The proof of `StepKeepsInv` has one case for each action.
- `ClosedIsFinal`, `LimitHolds` and both ledger equations of usage rest on the same condition. A creation finds what it read, so it never opens a closed charge. `LimitHolds` compares the sums before and after a step: only a creation, an expansion or a settlement can make the usage of the month larger, each within what the limit leaves, and `SettledInPast` says that the sums of other months are not touched. `LedgerExplainsBalance` needs that a charge with a debit row is settled (`DebitsAreSettled`), so that the row is never met again. `LedgerExplainsHolds` needs to know which keys are taken: `AttemptsRecorded` says that the rows of a charge are of attempts up to its last, of which there is no release while it is reserved, and `SeenBelow` that an open creation has not read a later attempt; the recovery closes many charges at once, and `TotalRenamed` compares the sum over charges with the one over their keys.
- `OneRunning` and the refinement of the queue need to know what a worker has looked up. `Turns` says that while the one worker is between its look and its claim nothing runs, that nothing before the job it picked waits, that the job it holds runs unless its user cancelled it, and that a request is in the line once. With a second worker, a look tells nothing of the moment of the claim. `ServesInOrder` then maps each action: `Enqueue` to `Accept`, `Claim` to `Serve`, a write of a job to `Again`, `End` or `PutBack`, all else to a stutter.
- `PaymentOrders`: `CreditsAreCaptured` follows from what binds an order to its payment (`Linked`, in `IInv`: whoever has read the id of a Razorpay order or of a payment has one of that order). `BookInv` is about refunds: `RefundsCounted` counts what Razorpay paid back by the ids of the refunds, and `RefundsBooked` says that an order has noted the refunds whose webhooks it has processed, each once, and that no more than the share of those was taken back, whatever was rounded down before. Neither needs reconciliations to keep apart. `LedgerExplainsBalance` does, since two that overlap may both find no credit (section 5): `LooksFresh` says that what an open reconciliation has found is still so, and `RowsStack` that the row of a reversal begins where those before it had come to, so that a new one has a key of its own. `StatusMatchesAmounts` needs `StageInv` too: an open call of `create_order` and an open reconciliation have read the order as it is, an order has a provider order once it is past its first states, and a payment once it is credited. With two calls for one order a late answer would write `created` over what the order has become (section 5).
- `Entitlements`: what a transaction does depends on rows it has locked. `LocksApart` says that one transaction has the lock of a row, `ReferrersStay` that a referrer is set once and is somebody else, and `JobsPlace` that a transaction which is about to insert a period holds the row of its user's preferences, and the period lies behind all that live: no other transaction can place one meanwhile. `PlacesInv` is their conjunction with `PeriodsDisjoint` and `RewardedOnce`. The latest end of a user's periods is a maximum over a set; that there is one is `Bounded`. `RefundsTakeBack` needs that an order past `created` has its period (`FulfilledExist`), and what a transaction has done of a fulfilment or a refund at each of its stages (`JobsFulfil`).
- `KnowledgeJobs`: `JobsInv` says that a job's name (document, type, key) is given once and that no two workers hold one job. On it rests `BillsInv`: the stage and the charge of a document and what the provider has answered agree (`BillsAgree`), and a worker at an embedding knows its stage and whether it was answered (`StagesKnow`). `RowsAgree` says that a document's status and its chunks agree, in the tables and in what an open request or an ingest has read from them.
- `VideoJobs`: every action writes a job's row in one of a few ways (`Moves`), or commits what a transaction concluded of the jobs it has read (`Committed`); `Known` is what is known of the node, the deliveries, the open transaction and the leases besides the types. `OneRunning` holds since only a claim makes a job run. `AskedOnce` counts the refunds that Razorpay has made and those on their way: one at most, none while the intent is fresh, and none while the delivery that marked it has yet to ask. `QuotaKnown` adds to `QuotaIsExact` that a job that is not yet admitted has used nothing. `OutputIsDelivered` needs `CleanKnown`, that the sweep deletes the media of jobs that are over and not ready.
- `Totals_proofs` has the laws of sums: a sum is a natural, it splits over a partition, it grows with its rows, changing one row changes it by the difference of that row, and renaming the rows does not change it.

The conditions. `SnapshotsCurrent`, in both modules that have it, is a condition on the clients, met by those that keep one call per request in flight (for `FundingWindows` that is `~Overlap`); `OneCallPerOrder` is one, too. `PaidOnly`, `~Overlap` of `PaymentOrders` and `OneWorker` say what kind of deployment the theorem is about: users who pay, an operator who reconciles orders that nobody works on, a server whose old instance has stopped. Sections 3 and 5 say what happens without them. The runs meet them all.

Only model-checked: the liveness properties `ReservationsEnd`, `PaidIsCredited`, `CapturesEnd` and both `JobsEnd`. Liveness under fairness, `ENABLED` and induction over data are out of the proof system's reach. Every invariant and action property of a passing run, and the refinement, is proved.

## 5. What is left out, and why

- `FundingWindows`: the ledger rows of subscription and tester charges other than the marks of attempts and expansions; the monthly limit, which `UsageReservation` has; one entitlement, so that a week is followed by the next or by none.
- `Entitlements`: the checkout of a subscription order (as in `PaymentOrders`), plans and prices, the two buckets (one is modelled), the reward's length as a function of the plan.
- `VideoJobs`: photos, consent, the health of the node, templates and the budget of the cache, which only refuse requests; the order of the node's queue among jobs of one kind; mails. A heartbeat is a lease that does not lapse. A refund in several parts is one partial refund.
- `KnowledgeJobs`: texts, vectors and their validity; the batch holds every chunk; nobody passes a charge of his own with a job, so that `_accounted_stage` is not reached; the delay of a retry.
- Most of the repository's lines are retrieval, prompts and generation, the older mobile API, user interfaces and clients: they compute on texts and scores or show them, within one database session, without a protocol between processes. The map covers the parts that have one, and stays a small share of all lines.
- Signature checks, amounts and currency of a payment: every event of the model is genuine. A forged or mismatched one is rejected before any state changes.
- Reconciliations that overlap with handlers of the same order. `Overlap` of `PaymentOrders` allows them; the runs keep them apart, since an operator's run concerns orders older than an age. With it, both may find no credit and both credit the wallet, and the second insert of the ledger row fails and rolls back. The model does not have that failing insert.
- Two concurrent `create_order` calls for one idempotency key: calls are repeated after failures and crashes, but one at a time. With two, a provider order can be overwritten, and the model would have to say what becomes of a payment for it.
- Database locks themselves, and their deadlocks: a rollback is an abort action.
- The user's message and its status, the progress stream, metrics, warnings of the limit: they only read, or nothing here depends on them.
- Prices and token estimates: a cost is any number of a set.

## 6. Plan

In order of importance:

1. Smaller models: email one-time passwords (attempts, cool-down, expiry), the leases of the request coordinator, with their proofs.
2. Weaker conditions: `HoldsExplained` for users who change the kind of a request but never back.
3. Properties for the hazards without one: a credited order marked attempted, two `create_order` calls, the refunded order that a late `order.paid` marks credited.
4. Action properties of the components that have invariants only: a refund's intent never goes back, a fulfilled order stays fulfilled.
