---------------------------- MODULE PaymentOrders ----------------------------
(* Top-up orders: the checkout, the verification by the client, Razorpay's *)
(* webhooks, its refunds, and the operator's reconciliation.               *)
(* backend/app/web_api/router.py (create_order, verify_payment,            *)
(* razorpay_webhook), backend/app/billing/service.py (the credit and its   *)
(* reversal) and backend/app/billing/reconciliation.py.                    *)
(*                                                                         *)
(* verify_payment and razorpay_webhook lock the order's row before they    *)
(* read anything of it: each is one action. create_order commits before    *)
(* and after its call to Razorpay. reconcile_razorpay_orders takes no row  *)
(* lock: it loads the order, asks Razorpay and looks up the idempotency    *)
(* key, and only then locks the wallet.                                    *)
EXTENDS Totals

CONSTANTS
    Order,          \* internal orders, one for each idempotency key of a client
    ProviderOrder,  \* ids Razorpay may give to orders
    Payment,        \* ids Razorpay may give to payments
    Refund,         \* ids Razorpay may give to refunds, of RefundPaise each
    Caller,         \* create_order calls in progress
    Gross,          \* gross_amount_paise of an order
    Credit,         \* credited_amount_micros of an order
    RefundPaise,
    Uses,           \* micros that usage reserves or costs
    MaxSpent,       \* bound: micros spent on usage
    MaxRuns,        \* bound: reconciliations of one order
    Overlap,        \* may a reconciliation overlap with handlers of its order?
    None,           \* an id that is not set
    Idle            \* "no transaction is open"

ASSUME AmountsAssumption == /\ Gross \in Nat \ {0}
                            /\ Credit \in Nat
                            /\ RefundPaise \in 1 .. Gross
                            /\ Uses \subseteq Nat
ASSUME IdsAssumption     == /\ IsFiniteSet(Order)
                            /\ IsFiniteSet(Refund)
                            /\ None \notin ProviderOrder \cup Payment \cup Order
ASSUME BoundsAssumption  == /\ MaxSpent \in Nat
                            /\ MaxRuns \in Nat
                            /\ Overlap \in BOOLEAN

VARIABLES
    order,      \* PaymentOrder
    call,       \* create_order calls between their two commits
    checkout,   \* Razorpay: the order each of its orders was created for
    shown,      \* Razorpay orders a client has been given to pay
    payment,    \* Razorpay: payments and the refunds of each
    wallet,     \* WalletAccount of the bucket
    credits,    \* WalletLedger, keys payment-credit:{order}
    reversals,  \* WalletLedger, keys refund:{order}:{already}:{delta}
    processed,  \* ProcessedWebhook, by event
    recon,      \* the open reconciliation of each order
    runs,       \* bound: reconciliations started
    spent,      \* history: micros debited for usage
    repaired    \* history: orders whose refunds a reconciliation reversed

vars == <<order, call, checkout, shown, payment, wallet, credits, reversals,
          processed, recon, runs, spent, repaired>>

-----------------------------------------------------------------------------
(* Rows.                                                                   *)

Statuses == {"none", "creating", "created", "attempted", "captured",
             "credited", "partially_refunded", "refunded", "failed"}

Row == [status: Statuses, provider_order: ProviderOrder \cup {None},
        payment: Payment \cup {None}, fulfilled: BOOLEAN, refunded: Nat,
        refund_ids: SUBSET Refund]

NoRow == [status |-> "none", provider_order |-> None, payment |-> None,
          fulfilled |-> FALSE, refunded |-> 0, refund_ids |-> {}]

\* "No transaction is open" is not a call of create_order.
ASSUME IdleIsNoCall ==
    Idle \notin [order: Order, seen: Row, got: ProviderOrder \cup {None}]

\* The ORM writes the columns that differ from what it loaded.
Flush(row, seen, new) ==
    [f \in DOMAIN row |-> IF new[f] # seen[f] THEN new[f] ELSE row[f]]

PaymentsOf(p)  == { x \in Payment : payment[x].of = p }
Captured(x)    == payment[x].status = "captured"
RefundedAt(x)  == RefundPaise * Cardinality(payment[x].refunds)

\* What the ledger says has been taken back for order o.
ReversalRows(o) == { k \in reversals : k[1] = o }
Reversed(o)     == Total(ReversalRows(o), [k \in ReversalRows(o) |-> k[3]])

-----------------------------------------------------------------------------
Init ==
    /\ order = [o \in Order |-> NoRow]
    /\ call = [c \in Caller |-> Idle]
    /\ checkout = [p \in ProviderOrder |-> None]
    /\ shown = {}
    /\ payment = [x \in Payment |-> [status |-> "none", of |-> None, refunds |-> {}]]
    /\ wallet = [balance |-> 0, reserved |-> 0]
    /\ credits = {}
    /\ reversals = {}
    /\ processed = {}
    /\ recon = [o \in Order |-> Idle]
    /\ runs = [o \in Order |-> 0]
    /\ spent = 0
    /\ repaired = {}

-----------------------------------------------------------------------------
(* create_order: the internal order is committed, Razorpay is called, and  *)
(* the outcome is committed.                                               *)

\* An order that is linked already is returned as it is.
BeginOrder(c, o) ==
    /\ call[c] = Idle
    /\ order[o].provider_order = None
    /\ LET row == [order[o] EXCEPT !.status = IF @ = "none" THEN "creating" ELSE @]
       IN  /\ order' = [order EXCEPT ![o] = row]
           /\ call' = [call EXCEPT ![c] = [order |-> o, seen |-> row, got |-> None]]
    /\ UNCHANGED <<checkout, shown, payment, wallet, credits, reversals,
                   processed, recon, runs, spent, repaired>>

ProviderCreates(c, p) ==
    /\ call[c] # Idle
    /\ call[c].got = None
    /\ checkout[p] = None
    /\ checkout' = [checkout EXCEPT ![p] = call[c].order]
    /\ call' = [call EXCEPT ![c].got = p]
    /\ UNCHANGED <<order, shown, payment, wallet, credits, reversals, processed,
                   recon, runs, spent, repaired>>

FinishOrder(c) ==
    /\ call[c] # Idle
    /\ call[c].got # None
    /\ order' = [order EXCEPT ![call[c].order] =
                   Flush(@, call[c].seen, [call[c].seen EXCEPT
                            !.provider_order = call[c].got, !.status = "created"])]
    /\ shown' = shown \cup {call[c].got}
    /\ call' = [call EXCEPT ![c] = Idle]
    /\ UNCHANGED <<checkout, payment, wallet, credits, reversals, processed,
                   recon, runs, spent, repaired>>

\* Razorpay refuses, or its answer is lost.
FailOrder(c) ==
    /\ call[c] # Idle
    /\ order' = [order EXCEPT ![call[c].order] =
                   Flush(@, call[c].seen, [call[c].seen EXCEPT !.status = "failed"])]
    /\ call' = [call EXCEPT ![c] = Idle]
    /\ UNCHANGED <<checkout, shown, payment, wallet, credits, reversals,
                   processed, recon, runs, spent, repaired>>

\* The process dies between the two commits.
CrashOrder(c) ==
    /\ call[c] # Idle
    /\ call' = [call EXCEPT ![c] = Idle]
    /\ UNCHANGED <<order, checkout, shown, payment, wallet, credits, reversals,
                   processed, recon, runs, spent, repaired>>

-----------------------------------------------------------------------------
(* Razorpay. An order may be attempted several times and is paid once.     *)

Attempt(x, p) ==
    /\ p \in shown
    /\ payment[x].status = "none"
    /\ payment' = [payment EXCEPT ![x].status = "authorized", ![x].of = p]
    /\ UNCHANGED <<order, call, checkout, shown, wallet, credits, reversals,
                   processed, recon, runs, spent, repaired>>

Capture(x) ==
    /\ payment[x].status = "authorized"
    /\ \A y \in PaymentsOf(payment[x].of) : ~Captured(y)
    /\ payment' = [payment EXCEPT ![x].status = "captured"]
    /\ UNCHANGED <<order, call, checkout, shown, wallet, credits, reversals,
                   processed, recon, runs, spent, repaired>>

RefundPayment(f, x) ==
    /\ Captured(x)
    /\ \A y \in Payment : f \notin payment[y].refunds
    /\ RefundedAt(x) + RefundPaise <= Gross
    /\ payment' = [payment EXCEPT ![x].refunds = @ \cup {f}]
    /\ UNCHANGED <<order, call, checkout, shown, wallet, credits, reversals,
                   processed, recon, runs, spent, repaired>>

-----------------------------------------------------------------------------
(* Crediting and reversing.                                                *)

\* _credit_payment_once_topup: the row the order is left with, whether the
\* credit is new or was found under its key; and the balance.
Fulfilled(row) == [row EXCEPT !.status = "credited", !.fulfilled = TRUE]

\* Mutant: the key of the credit is not looked up.
CreditedAgain(o, micros) == micros + Credit

Credited(o, micros) == IF o \in credits THEN micros ELSE micros + Credit

\* Mutants: a refund takes what is reserved for requests too; the credit of a
\* partial refund is rounded up.
ReversalOfReserved(total, already, balance, reserved) ==
    Max0((Credit * total) \div Gross - already)

ReversalRoundedUp(total, already, balance, reserved) ==
    Lesser(Max0((Credit * total + Gross - 1) \div Gross - already),
           Max0(balance - reserved))

\* reverse_credit_for_refund of a cumulative refund of total paise, already
\* micros of which the ledger has taken back: what is taken back now. Nothing
\* that is reserved for a request is taken.
Reversal(total, already, balance, reserved) ==
    Lesser(Max0((Credit * total) \div Gross - already), Max0(balance - reserved))

\* Mutant: every refund is taken for a full one.
RefundedFully(row, total) ==
    [row EXCEPT !.refunded = IF total > @ THEN total ELSE @, !.status = "refunded"]

\* The order's part of a refund.
Refunded(row, total) ==
    [row EXCEPT !.refunded = IF total > @ THEN total ELSE @,
                !.status = IF total >= Gross THEN "refunded" ELSE "partially_refunded"]

ReversalRow(o, already, delta) ==
    IF delta = 0 THEN {} ELSE {<<o, already, delta>>}

-----------------------------------------------------------------------------
(* The handlers of an order, behind its row lock.                          *)

Unlocked(o) == Overlap \/ recon[o] = Idle

\* Mutant: the status of the payment is not asked for.
VerifyUncaptured(o, x) ==
    /\ Unlocked(o)
    /\ order[o].provider_order # None
    /\ payment[x].of = order[o].provider_order
    /\ order[o].payment \in {None, x}
    /\ order' = [order EXCEPT ![o] = Fulfilled([@ EXCEPT !.payment = x])]
    /\ wallet' = [wallet EXCEPT !.balance = Credited(o, @)]
    /\ credits' = credits \cup {o}
    /\ UNCHANGED <<call, checkout, shown, payment, reversals, processed, recon,
                   runs, spent, repaired>>

\* verify_payment. A payment that is not captured marks the order attempted,
\* whatever its status was.
Verify(o, x) ==
    /\ Unlocked(o)
    /\ order[o].provider_order # None
    /\ payment[x].of = order[o].provider_order
    /\ \/ /\ ~Captured(x)
          /\ order' = [order EXCEPT ![o].status = "attempted"]
          /\ UNCHANGED <<wallet, credits>>
       \/ /\ Captured(x)
          /\ order[o].payment \in {None, x}
          /\ order' = [order EXCEPT ![o] = Fulfilled([@ EXCEPT !.payment = x])]
          /\ wallet' = [wallet EXCEPT !.balance = Credited(o, @)]
          /\ credits' = credits \cup {o}
    /\ UNCHANGED <<call, checkout, shown, payment, reversals, processed, recon,
                   runs, spent, repaired>>

\* Mutant: only an order in status created is credited.
CapturedEventOfCreated(kind, named, o, x) ==
    /\ Unlocked(o)
    /\ <<kind, x>> \notin processed
    /\ Captured(x)
    /\ order[o].provider_order = payment[x].of
    /\ order[o].status = "created"
    /\ order' = [order EXCEPT ![o] = Fulfilled([@ EXCEPT !.payment = x])]
    /\ wallet' = [wallet EXCEPT !.balance = Credited(o, @)]
    /\ credits' = credits \cup {o}
    /\ processed' = processed \cup {<<kind, x>>}
    /\ UNCHANGED <<call, checkout, shown, payment, reversals, recon, runs, spent,
                   repaired>>

\* razorpay_webhook, payment.captured and order.paid: two events of one
\* payment, in either order. An order.paid need not name the payment.
CapturedEvent(kind, named, o, x) ==
    /\ Unlocked(o)
    /\ <<kind, x>> \notin processed
    /\ Captured(x)
    /\ order[o].provider_order = payment[x].of
    /\ kind = "payment.captured" => named
    /\ named => order[o].payment \in {None, x}
    /\ order' = [order EXCEPT ![o] =
                   Fulfilled(IF named THEN [@ EXCEPT !.payment = x] ELSE @)]
    /\ wallet' = [wallet EXCEPT !.balance = Credited(o, @)]
    /\ credits' = credits \cup {o}
    /\ processed' = processed \cup {<<kind, x>>}
    /\ UNCHANGED <<call, checkout, shown, payment, reversals, recon, runs, spent,
                   repaired>>

\* razorpay_webhook, refund.processed. An order that does not know its payment
\* yet is credited first; a refund beyond the gross amount is refused.
RefundEvent(o, x, f) ==
    /\ Unlocked(o)
    /\ <<"refund.processed", f>> \notin processed
    /\ f \in payment[x].refunds
    /\ \/ order[o].payment = x
       \/ /\ \A other \in Order : order[other].payment # x
          /\ order[o].provider_order = payment[x].of
    /\ LET known   == order[o].payment = x
           row     == IF known THEN order[o]
                      ELSE Fulfilled([order[o] EXCEPT !.payment = x])
           balance == IF known THEN wallet.balance ELSE Credited(o, wallet.balance)
           total   == row.refunded + RefundPaise
           already == Reversed(o)
           delta   == Reversal(total, already, balance, wallet.reserved)
       IN  /\ f \notin row.refund_ids => total <= Gross
           /\ credits' = IF known THEN credits ELSE credits \cup {o}
           /\ IF f \in row.refund_ids
              THEN /\ order' = [order EXCEPT ![o] = row]
                   /\ wallet' = [wallet EXCEPT !.balance = balance]
                   /\ reversals' = reversals
              ELSE /\ order' = [order EXCEPT ![o] =
                          [Refunded(row, total) EXCEPT !.refund_ids = @ \cup {f}]]
                   /\ wallet' = [wallet EXCEPT !.balance = balance - delta]
                   /\ reversals' = reversals \cup ReversalRow(o, already, delta)
    /\ processed' = processed \cup {<<"refund.processed", f>>}
    /\ UNCHANGED <<call, checkout, shown, payment, recon, runs, spent, repaired>>

-----------------------------------------------------------------------------
(* reconcile_razorpay_orders with apply, for one order.                    *)

ReconcileLoad(o) ==
    /\ recon[o] = Idle
    /\ runs[o] < MaxRuns
    /\ order[o].status \in {"created", "attempted", "captured", "credited",
                            "partially_refunded", "refunded"}
    /\ recon' = [recon EXCEPT ![o] =
                   [step |-> "loaded", seen |-> order[o], pays |-> {},
                    found |-> FALSE, refunded |-> 0, already |-> 0]]
    /\ runs' = [runs EXCEPT ![o] = @ + 1]
    /\ UNCHANGED <<order, call, checkout, shown, payment, wallet, credits,
                   reversals, processed, spent, repaired>>

\* Razorpay is asked for the payments of an order not known to be paid, and
\* for the refunds of the payment; the ledger is read; nothing is locked.
ReconcileRead(o) ==
    /\ recon[o] # Idle
    /\ recon[o].step = "loaded"
    /\ LET seen == recon[o].seen
           due  == /\ seen.status \in {"created", "attempted", "captured"}
                   /\ seen.provider_order # None
           pays == IF due THEN { x \in PaymentsOf(seen.provider_order) : Captured(x) }
                   ELSE {}
           paid == pays \cup ({seen.payment} \ {None})
       IN  recon' = [recon EXCEPT ![o] =
                       [@ EXCEPT !.step = "read", !.pays = pays,
                                 !.found = o \in credits,
                                 !.refunded = IF paid = {} THEN 0
                                              ELSE RefundedAt(CHOOSE x \in paid : TRUE),
                                 !.already = Reversed(o)]]
    /\ UNCHANGED <<order, call, checkout, shown, payment, wallet, credits,
                   reversals, processed, runs, spent, repaired>>

\* The wallet is locked, credited and debited, and the order written. The ids
\* of the refunds are not recorded: refund_ids is as it was loaded.
ReconcileCommit(o) ==
    /\ recon[o] # Idle
    /\ recon[o].step = "read"
    /\ LET r       == recon[o]
           pays    == Cardinality(r.pays) = 1
           paid    == IF pays THEN Fulfilled([r.seen EXCEPT
                                               !.payment = CHOOSE x \in r.pays : TRUE])
                      ELSE r.seen
           balance == IF pays /\ ~r.found THEN wallet.balance + Credit
                      ELSE wallet.balance
           refund  == /\ paid.payment # None
                      /\ paid.status \in {"credited", "partially_refunded", "refunded"}
                      /\ r.refunded > paid.refunded
           delta   == IF refund
                      THEN Reversal(r.refunded, r.already, balance, wallet.reserved)
                      ELSE 0
           new     == IF refund THEN Refunded(paid, r.refunded) ELSE paid
       IN  /\ order' = [order EXCEPT ![o] = Flush(@, r.seen, new)]
           /\ wallet' = [wallet EXCEPT !.balance = balance - delta]
           /\ credits' = IF pays THEN credits \cup {o} ELSE credits
           /\ reversals' = reversals \cup ReversalRow(o, r.already, delta)
           /\ repaired' = IF refund THEN repaired \cup {o} ELSE repaired
    /\ recon' = [recon EXCEPT ![o] = Idle]
    /\ UNCHANGED <<call, checkout, shown, payment, processed, runs, spent>>

\* Razorpay is unavailable, or the database chose it to end a deadlock.
ReconcileAbort(o) ==
    /\ recon[o] # Idle
    /\ recon' = [recon EXCEPT ![o] = Idle]
    /\ UNCHANGED <<order, call, checkout, shown, payment, wallet, credits,
                   reversals, processed, runs, spent, repaired>>

-----------------------------------------------------------------------------
(* Usage, in outline (UsageReservation has it in full).                    *)

Reserve(n) ==
    /\ wallet.balance > 0
    /\ wallet.balance - wallet.reserved >= n
    /\ wallet' = [wallet EXCEPT !.reserved = @ + n]
    /\ UNCHANGED <<order, call, checkout, shown, payment, credits, reversals,
                   processed, recon, runs, spent, repaired>>

Spend(n) ==
    /\ wallet.reserved > 0
    /\ n <= wallet.balance
    /\ spent + n <= MaxSpent
    /\ wallet' = [balance |-> wallet.balance - n, reserved |-> 0]
    /\ spent' = spent + n
    /\ UNCHANGED <<order, call, checkout, shown, payment, credits, reversals,
                   processed, recon, runs, repaired>>

-----------------------------------------------------------------------------
Next ==
    \/ \E c \in Caller :
          \/ \E o \in Order : BeginOrder(c, o)
          \/ \E p \in ProviderOrder : ProviderCreates(c, p)
          \/ FinishOrder(c)
          \/ FailOrder(c)
          \/ CrashOrder(c)
    \/ \E x \in Payment :
          \/ \E p \in ProviderOrder : Attempt(x, p)
          \/ Capture(x)
          \/ \E f \in Refund : RefundPayment(f, x)
    \/ \E o \in Order :
          \/ \E x \in Payment :
                \/ Verify(o, x)
                \/ \E kind \in {"payment.captured", "order.paid"}, named \in BOOLEAN :
                      CapturedEvent(kind, named, o, x)
                \/ \E f \in Refund : RefundEvent(o, x, f)
          \/ ReconcileLoad(o)
          \/ ReconcileRead(o)
          \/ ReconcileCommit(o)
          \/ ReconcileAbort(o)
    \/ \E n \in Uses : Reserve(n) \/ Spend(n)

Spec == Init /\ [][Next]_vars

\* Razorpay repeats a webhook until it is acknowledged, and a transaction that
\* was opened is finished or rolled back.
Fairness ==
    /\ \A o \in Order, x \in Payment :
          WF_vars(CapturedEvent("payment.captured", TRUE, o, x))
    /\ \A o \in Order : WF_vars(ReconcileRead(o) \/ ReconcileCommit(o))

FairSpec == Spec /\ Fairness

-----------------------------------------------------------------------------
(* Properties.                                                             *)

Open == [step: {"loaded", "read"}, seen: Row, pays: SUBSET Payment,
         found: BOOLEAN, refunded: Nat, already: Nat]

\* Every variable has its type; that the balance is a natural is the promise
\* of reverse_credit_for_refund that a refund never makes it negative.
TypeOK ==
    /\ order \in [Order -> Row]
    /\ call \in [Caller -> {Idle} \cup [order: Order, seen: Row,
                                        got: ProviderOrder \cup {None}]]
    /\ checkout \in [ProviderOrder -> Order \cup {None}]
    /\ shown \subseteq ProviderOrder
    /\ payment \in [Payment -> [status: {"none", "authorized", "captured"},
                                of: ProviderOrder \cup {None},
                                refunds: SUBSET Refund]]
    /\ wallet \in [balance: Nat, reserved: Nat]
    /\ credits \subseteq Order
    /\ reversals \subseteq Order \X Nat \X Nat
    /\ processed \subseteq ({"payment.captured", "order.paid"} \X Payment)
                              \cup ({"refund.processed"} \X Refund)
    /\ recon \in [Order -> {Idle} \cup Open]
    /\ runs \in [Order -> 0 .. MaxRuns]
    /\ spent \in Nat
    /\ repaired \subseteq Order

\* The ledger explains the balance: an order is credited once, however many
\* verifications, events and reconciliations find its payment captured, and
\* every reversal and every debit has its row.
LedgerExplainsBalance ==
    wallet.balance + spent + Total(reversals, [k \in reversals |-> k[3]])
        = Credit * Cardinality(credits)

\* The payments Razorpay has captured for an order.
PaymentsFor(o) == { x \in Payment : /\ Captured(x)
                                    /\ checkout[payment[x].of] = o }

\* What Razorpay has paid back, in micros of the credit.
RefundMicros(o) ==
    (Credit * Total(PaymentsFor(o), [x \in PaymentsFor(o) |-> RefundedAt(x)]))
        \div Gross

\* An order is credited only for money Razorpay captured for that order.
CreditsAreCaptured == \A o \in credits : PaymentsFor(o) # {}

\* reconciliation.py:80-82, "Existing ledger idempotency keys make repeated
\* runs safe, including after duplicate webhook delivery": no more is taken
\* back than was refunded.
RefundsReversedOnce == \A o \in Order : Reversed(o) <= RefundMicros(o)

\* The same of the orders whose refunds arrived by webhooks only, in whatever
\* order and mixed with usage.
WebhooksReverseOnce == \A o \in Order \ repaired : Reversed(o) <= RefundMicros(o)

\* The states the financial audit calls inconsistent (audit.py:148-165) are
\* not reached, but for a paid order in status attempted, which verify_payment
\* writes over any other: the status tells what was credited and refunded.
StatusMatchesAmounts ==
    \A o \in Order :
        /\ order[o].refunded <= Gross
        /\ order[o].status = "refunded" => order[o].refunded = Gross
        /\ order[o].status = "partially_refunded" => order[o].refunded \in 1 .. Gross - 1
        /\ order[o].status \in {"credited", "partially_refunded", "refunded"}
              => o \in credits
        /\ order[o].status \in {"creating", "created", "captured", "failed"}
              => o \notin credits

\* A payment captured for the order a client was last given is credited in
\* the end, whatever the client, refunds and reconciliations do meanwhile.
PaidIsCredited ==
    \A o \in Order, x \in Payment :
        (Captured(x) /\ order[o].provider_order = payment[x].of) ~> (o \in credits)

=============================================================================
