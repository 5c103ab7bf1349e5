----------------------------- MODULE Entitlements -----------------------------
(* How a paid order becomes a subscription period, how the first purchase of *)
(* a referred user earns the referrer another one, and how a refund takes    *)
(* both back. backend/app/billing/subscriptions.py, and what service.py,     *)
(* reconciliation.py and web_api/router.py do with an order whose            *)
(* purchase_type is "subscription".                                          *)
(*                                                                           *)
(* Webhooks, verifications and the reconciliation run as transactions of     *)
(* several steps. A step that needs a row lock waits for it, and keeps it    *)
(* until the transaction commits or rolls back; what it writes is seen by    *)
(* the others when it commits. The reconciliation reads the order without    *)
(* its lock, and takes it only when it writes the row.                       *)
EXTENDS Integers, FiniteSets, FiniteSetsExt

CONSTANTS
    Users,         \* users of one credit bucket
    Orders,        \* subscription orders
    Owner,         \* the user of each order
    Handlers,      \* transactions that may run at the same time
    Length,        \* how long a purchased period lasts
    RewardLength,  \* how long the period of a reward lasts
    Gross,         \* what an order costs; refunds are parts of it
    MaxTime,       \* bound: ticks of the clock
    None           \* "no row", "nobody"

ASSUME EntitlementSets    == /\ IsFiniteSet(Users)
                             /\ IsFiniteSet(Orders)
                             /\ Owner \in [Orders -> Users]
                             /\ None \notin Users
ASSUME EntitlementAmounts == /\ Length \in Nat \ {0}
                             /\ RewardLength \in Nat \ {0}
                             /\ Gross \in Nat \ {0}
                             /\ MaxTime \in Nat

VARIABLES
    now,
    order,     \* PaymentOrder
    period,    \* SubscriptionEntitlement, by the order that led to it
    review,    \* orders whose ReferralReward has manual_review_required
    used,      \* orders whose reward has a window in use
    referrer,  \* ReferralAttribution: who referred a user
    claiming,  \* claims that passed the checks of claim_referral_code
    paid,      \* orders Razorpay has captured the payment of
    issued,    \* what Razorpay has refunded of each
    notices,   \* webhooks Razorpay has not been told to have arrived
    job,       \* the transaction of each handler
    held       \* the rows it has locked

orders  == <<order, period, review>>
outside == <<now, used, referrer, claiming, paid, issued>>
vars    == <<orders, outside, notices, job, held>>

-----------------------------------------------------------------------------
Kinds == {"purchase", "reward"}

Row(kind, o) == <<kind, o>>

\* ids is processed_refund_ids and review is manual_review_required of
\* metadata_json. "created" stands for attempted and captured too.
Order == [status: {"created", "fulfilled", "partially_refunded", "refunded"},
          refunded: 0 .. Gross, ids: SUBSET (1 .. Gross), review: BOOLEAN]

\* A period is active, queued or expired by the clock alone; only "cancelled"
\* is a decision. A reward's own status follows its period's.
Period == [user: Users, from: Nat, to: Nat, cancelled: BOOLEAN]

\* A refund's id is what has been refunded of the order with it.
Notice == [order: Orders, id: 0 .. Gross, amount: 0 .. Gross]

Captured(o) == [order |-> o, id |-> 0, amount |-> 0]

Stages == {"order", "purchase", "place", "reward", "refund", "write"}

Tasks == {"webhook", "verify", "reconcile"}

Transaction == [task: Tasks, notice: Notice, at: Stages, row: Order, read: Order,
                purchase: Period \cup {None}, reward: Period \cup {None},
                back: {"keep", "cancel", "review"}]

\* "No row" is neither a period nor a transaction.
ASSUME NoneIsNoRow == None \notin Period \cup Transaction

Resources == ({"order"} \cup Kinds) \X Orders \cup {"preference"} \X Users

NewOrder == [status |-> "created", refunded |-> 0, ids |-> {}, review |-> FALSE]

Transact(task, n, stage, row) ==
    [task |-> task, notice |-> n, at |-> stage, row |-> row, read |-> row,
     purchase |-> None, reward |-> None, back |-> "keep"]

Busy(h) == job[h] # None

At(h, stage) == Busy(h) /\ job[h].at = stage

Of(h) == job[h].notice.order

Exists(kind, o) == period[Row(kind, o)] # None

Alive(kind, o) == Exists(kind, o) /\ ~period[Row(kind, o)].cancelled

\* The entitlements of a user that are not cancelled.
Live(u) == {k \in Kinds \X Orders : Alive(k[1], k[2]) /\ period[k].user = u}

-----------------------------------------------------------------------------
Init ==
    /\ now = 0
    /\ order = [o \in Orders |-> NewOrder]
    /\ period = [k \in Kinds \X Orders |-> None]
    /\ review = {}
    /\ used = {}
    /\ referrer = [u \in Users |-> None]
    /\ claiming = {}
    /\ paid = {}
    /\ issued = [o \in Orders |-> 0]
    /\ notices = {}
    /\ job = [h \in Handlers |-> None]
    /\ held = [h \in Handlers |-> {}]

-----------------------------------------------------------------------------
(* Locks                                                                     *)

\* Mutant: only the rows that exist are locked.
PeriodsOfRows(u) == Live(u)

\* create_entitlement locks the preference of the user, then the rows that
\* _latest_entitlement selects. Nobody locks those first and the preference
\* then, so one step may take them all.
Periods(u) == {<<"preference", u>>} \cup Live(u)

\* Mutant: each order may earn a reward.
RewardedPerOrder(o) == IF Exists("reward", o) THEN None ELSE referrer[Owner[o]]

\* What a reward needs, and who gets it: nobody if the owner has no referrer,
\* if this order has a reward, or if another order of the owner has one that
\* is not cancelled.
Rewarded(o) ==
    IF \/ Exists("reward", o)
       \/ \E p \in Orders : Owner[p] = Owner[o] /\ Alive("reward", p)
    THEN None
    ELSE referrer[Owner[o]]

\* What the writes of a transaction lock at the end.
WriteRows(h) ==
    {Row("order", Of(h))} \cup
    {Row("reward", Of(h)) : k \in {c \in {"cancel"} : job[h].back = c /\ Exists("reward", Of(h))}}

Wants(h) ==
    CASE At(h, "order") \/ At(h, "place") -> {Row("order", Of(h))}
      [] At(h, "purchase") -> Periods(Owner[Of(h)])
      [] At(h, "reward") /\ Rewarded(Of(h)) # None -> Periods(Rewarded(Of(h)))
      [] At(h, "refund") -> {Row("purchase", Of(h))}
      [] At(h, "write") -> WriteRows(h)
      [] OTHER -> {}

Free(h) == \A k \in Handlers \ {h} : Wants(h) \cap held[k] = {}

\* The transaction gets the rows it wants, and goes on as j.
Step(h, j) ==
    /\ Free(h)
    /\ job' = [job EXCEPT ![h] = j]
    /\ held' = [held EXCEPT ![h] = @ \cup Wants(h)]
    /\ UNCHANGED <<orders, outside, notices>>

End(h) ==
    /\ job' = [job EXCEPT ![h] = None]
    /\ held' = [held EXCEPT ![h] = {}]

-----------------------------------------------------------------------------
(* The transactions begin                                                    *)

Begin(h, j) ==
    /\ ~Busy(h)
    /\ job' = [job EXCEPT ![h] = j]
    /\ UNCHANGED <<orders, outside, notices, held>>

\* razorpay_webhook. Razorpay sends a notice until it is acknowledged.
Webhook(h, n) ==
    /\ n \in notices
    /\ Begin(h, Transact("webhook", n, "order", NewOrder))

\* verify_payment. Of a fulfilled order it changes nothing.
Verify(h, o) ==
    /\ o \in paid
    /\ order[o].status = "created"
    /\ Begin(h, Transact("verify", Captured(o), "order", NewOrder))

\* reconcile_razorpay_orders reads an order, and finds a payment to fulfil it
\* for, or a refund it does not know. (It takes the orders one by one and
\* commits once; here a transaction is about one.)
Reconcile(h, o) ==
    /\ \/ order[o].status = "created" /\ o \in paid
          /\ Begin(h, Transact("reconcile", Captured(o), "purchase", order[o]))
       \/ order[o].status # "created" /\ issued[o] > order[o].refunded
          /\ Begin(h, Transact("reconcile", Captured(o), "refund", order[o]))

Refunds(n) == n.id # 0

\* The webhook and the verification lock the order before they read it.
LockOrder(h) ==
    LET n == job[h].notice
        o == order[n.order]
        goto == IF o.status = "created" THEN "purchase"
                ELSE IF Refunds(n) /\ n.id \notin o.ids THEN "refund" ELSE "write"
    IN  /\ At(h, "order")
        /\ Step(h, [job[h] EXCEPT !.row = o, !.read = o, !.at = goto])

-----------------------------------------------------------------------------
(* fulfill_subscription_payment and create_referral_reward_once              *)

\* A period begins when the last one of the user ends.
NewPeriod(u, length) ==
    LET from == Max({now} \cup {period[k].to : k \in Live(u)})
    IN  [user |-> u, from |-> from, to |-> from + length, cancelled |-> FALSE]

\* The order's row is written with the new entitlement's; only the
\* reconciliation does not hold it yet.
Fulfil(h) ==
    LET new  == ~Exists("purchase", Of(h))
        made == IF new THEN NewPeriod(Owner[Of(h)], Length) ELSE None
    IN  /\ At(h, "purchase")
        /\ Step(h, [job[h] EXCEPT !.purchase = made, !.row.status = "fulfilled",
                                  !.at = IF new /\ job[h].task = "reconcile"
                                         THEN "place" ELSE "reward"])

Place(h) ==
    /\ At(h, "place")
    /\ Step(h, [job[h] EXCEPT !.at = "reward"])

\* What follows: a notice of a refund goes on to book it, the reconciliation
\* asks Razorpay for refunds.
AfterFulfilment(h) ==
    LET j == job[h]
    IN  IF \/ j.task = "webhook" /\ Refunds(j.notice) /\ j.notice.id \notin j.row.ids
           \/ j.task = "reconcile" /\ issued[Of(h)] > j.row.refunded
        THEN "refund" ELSE "write"

Reward(h) ==
    LET u    == Rewarded(Of(h))
        made == IF u = None THEN None ELSE NewPeriod(u, RewardLength)
    IN  /\ At(h, "reward")
        /\ Step(h, [job[h] EXCEPT !.reward = made, !.at = AfterFulfilment(h)])

-----------------------------------------------------------------------------
(* reverse_credit_for_refund                                                 *)

\* The webhook adds the notice's amount, the reconciliation has the total.
Total(h) == IF job[h].task = "reconcile" THEN issued[Of(h)]
            ELSE job[h].row.refunded + job[h].notice.amount

\* A webhook that would refund more than was paid is answered 400.
Reject(h) ==
    /\ At(h, "refund")
    /\ Total(h) > Gross
    /\ End(h)
    /\ UNCHANGED <<orders, outside, notices>>

\* Mutant: the total is added to what was refunded before.
BookedAdded(h, total) ==
    [job[h].row EXCEPT !.refunded = @ + total,
                       !.status = IF total = Gross THEN "refunded" ELSE "partially_refunded",
                       !.ids = @ \cup {job[h].notice.id}]

\* The webhook writes back the metadata it had read, with the refund's id:
\* the mark for a review, which the refund has just made, is not in it.
Booked(h, total) ==
    LET j == job[h]
    IN  [j.row EXCEPT !.refunded = Max({@, total}),
                      !.status = IF total = Gross THEN "refunded" ELSE "partially_refunded",
                      !.ids = IF j.task = "webhook" THEN @ \cup {j.notice.id} ELSE @,
                      !.review = @ \/ (j.task = "reconcile" /\ total < Gross)]

RefundPart(h) ==
    /\ At(h, "refund")
    /\ Total(h) < Gross
    /\ job' = [job EXCEPT ![h] = [@ EXCEPT !.row = Booked(h, Total(h)), !.at = "write"]]
    /\ UNCHANGED <<orders, outside, notices, held>>

\* The whole refund cancels the purchase, and the reward unless it is in use.
RefundWhole(h) ==
    /\ At(h, "refund")
    /\ Total(h) = Gross
    /\ Step(h, [job[h] EXCEPT !.row = Booked(h, Total(h)), !.at = "write",
                              !.back = IF Of(h) \in used THEN "review" ELSE "cancel"])

-----------------------------------------------------------------------------
(* The transactions end                                                      *)

\* The ORM writes the columns the transaction has changed; both keys of the
\* metadata are one column.
Stored(h) ==
    LET j    == job[h]
        o    == order[Of(h)]
        meta == IF j.row.ids = j.read.ids /\ j.row.review = j.read.review THEN o ELSE j.row
    IN  [status   |-> IF j.row.status = j.read.status THEN o.status ELSE j.row.status,
         refunded |-> IF j.row.refunded = j.read.refunded THEN o.refunded ELSE j.row.refunded,
         ids      |-> meta.ids,
         review   |-> meta.review]

\* Mutant: a refund does not see what its own transaction has inserted.
BecameStored(h, kind, made) ==
    LET row == period[Row(kind, Of(h))]
    IN  IF made # None THEN made
        ELSE IF row # None /\ job[h].back # "keep" THEN [row EXCEPT !.cancelled = TRUE] ELSE row

\* What becomes of an entitlement: inserted, and cancelled by a whole refund.
Became(h, kind, made) ==
    LET key == Row(kind, Of(h))
        row == IF made = None THEN period[key] ELSE made
        ends == CASE kind = "purchase" -> job[h].back # "keep"
                  [] OTHER             -> job[h].back = "cancel"
    IN  IF row # None /\ ends THEN [row EXCEPT !.cancelled = TRUE] ELSE row

\* A notice that another webhook has recorded meanwhile breaks the unique
\* key of ProcessedWebhook: then everything is rolled back.
Commit(h) ==
    LET j == job[h]
    IN  /\ At(h, "write") /\ Free(h)
        /\ j.task = "webhook" => j.notice \in notices
        /\ order' = [order EXCEPT ![Of(h)] = Stored(h)]
        /\ period' = [period EXCEPT
               ![Row("purchase", Of(h))] = Became(h, "purchase", j.purchase),
               ![Row("reward", Of(h))]   = Became(h, "reward", j.reward)]
        /\ review' = IF j.back = "review" THEN review \cup {Of(h)} ELSE review
        /\ notices' = IF j.task = "webhook" THEN notices \ {j.notice} ELSE notices
        /\ End(h)
        /\ UNCHANGED <<outside>>

CommitTwice(h) ==
    /\ At(h, "write") /\ Free(h)
    /\ job[h].task = "webhook"
    /\ job[h].notice \notin notices
    /\ End(h)
    /\ UNCHANGED <<orders, outside, notices>>

\* The server dies, or the database breaks a circle of waiting transactions
\* by rolling this one back.
Abort(h) ==
    /\ Busy(h)
    /\ End(h)
    /\ UNCHANGED <<orders, outside, notices>>

-----------------------------------------------------------------------------
(* The users, Razorpay and the clock                                         *)

Around == UNCHANGED <<orders, job, held>>

\* claim_referral_code: it checks that its user has bought nothing, then
\* inserts the attribution.
Claim(u, v) ==
    /\ u # v
    /\ referrer[u] = None
    /\ \A o \in Orders : Owner[o] = u => order[o].status = "created"
    /\ \A c \in claiming : c[1] # u
    /\ claiming' = claiming \cup {<<u, v>>}
    /\ UNCHANGED <<now, used, referrer, paid, issued, notices>> /\ Around

Attribute(u, v) ==
    /\ <<u, v>> \in claiming
    /\ claiming' = claiming \ {<<u, v>>}
    /\ referrer' = [referrer EXCEPT ![u] = v]
    /\ UNCHANGED <<now, used, paid, issued, notices>> /\ Around

\* A reservation takes from the window of a reward; see FundingWindows.
Use(o) ==
    /\ Alive("reward", o) /\ o \notin used
    /\ period[Row("reward", o)].from <= now /\ now < period[Row("reward", o)].to
    /\ \A h \in Handlers : Row("reward", o) \notin held[h]
    /\ used' = used \cup {o}
    /\ UNCHANGED <<now, referrer, claiming, paid, issued, notices>> /\ Around

Pay(o) ==
    /\ o \notin paid
    /\ paid' = paid \cup {o}
    /\ notices' = notices \cup {Captured(o)}
    /\ UNCHANGED <<now, used, referrer, claiming, issued>> /\ Around

IssueRefund(o, amount) ==
    /\ o \in paid
    /\ issued[o] + amount <= Gross
    /\ issued' = [issued EXCEPT ![o] = @ + amount]
    /\ notices' = notices \cup {[order |-> o, id |-> issued'[o], amount |-> amount]}
    /\ UNCHANGED <<now, used, referrer, claiming, paid>> /\ Around

Tick ==
    /\ now < MaxTime
    /\ now' = now + 1
    /\ UNCHANGED <<used, referrer, claiming, paid, issued, notices>> /\ Around

-----------------------------------------------------------------------------
Transacts(h) ==
    \/ LockOrder(h) \/ Fulfil(h) \/ Place(h) \/ Reward(h)
    \/ Reject(h) \/ RefundPart(h) \/ RefundWhole(h)
    \/ Commit(h) \/ CommitTwice(h)

Outside ==
    \/ \E u, v \in Users : Claim(u, v) \/ Attribute(u, v)
    \/ \E o \in Orders : Use(o) \/ Pay(o) \/ \E amount \in 1 .. Gross : IssueRefund(o, amount)
    \/ Tick

Next ==
    \/ \E h \in Handlers :
           \/ Transacts(h) \/ Abort(h)
           \/ \E n \in notices : Webhook(h, n)
           \/ \E o \in Orders : Verify(h, o) \/ Reconcile(h, o)
    \/ Outside

Spec == Init /\ [][Next]_vars

-----------------------------------------------------------------------------
(* Properties                                                                *)

\* Orders, entitlements, notices and transactions have their shape.
TypeOK ==
    /\ now \in 0 .. MaxTime
    /\ order \in [Orders -> Order]
    /\ period \in [Kinds \X Orders -> Period \cup {None}]
    /\ review \subseteq Orders
    /\ used \subseteq Orders
    /\ referrer \in [Users -> Users \cup {None}]
    /\ claiming \subseteq Users \X Users
    /\ paid \subseteq Orders
    /\ issued \in [Orders -> 0 .. Gross]
    /\ notices \subseteq Notice
    /\ job \in [Handlers -> Transaction \cup {None}]
    /\ held \in [Handlers -> SUBSET Resources]

\* No two entitlements of a user that are not cancelled overlap, whichever of
\* two purchases and a reward are placed at the same time: a user who paid
\* twice has the sum of the times. (create_entitlement, _latest_entitlement)
PeriodsDisjoint ==
    \A u \in Users : \A j, k \in Live(u) :
        j # k => period[j].to <= period[k].from \/ period[k].to <= period[j].from

\* An order that has been refunded in full has no entitlement left, and its
\* reward is cancelled or marked for a review, though a late notice, a
\* verification or the reconciliation, with an order read before the refund,
\* may have fulfilled it at the same time. (reverse_credit_for_refund)
RefundsTakeBack ==
    \A o \in Orders : order[o].status = "refunded" =>
        /\ Exists("purchase", o) /\ ~Alive("purchase", o)
        /\ Alive("reward", o) => o \in review

\* A referred user has earned the referrer at most one reward that stands,
\* with two orders fulfilled at the same time, or one again after a refund.
\* (create_referral_reward_once)
RewardedOnce ==
    \A o, p \in Orders :
        Alive("reward", o) /\ Alive("reward", p) /\ Owner[o] = Owner[p] => o = p
=============================================================================
