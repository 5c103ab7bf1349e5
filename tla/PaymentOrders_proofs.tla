------------------------ MODULE PaymentOrders_proofs ------------------------
(* What PaymentOrders guarantees for every set of orders, payments and     *)
(* refunds, every number of callers, all amounts and reconciliations.      *)
EXTENDS PaymentOrders, Totals_proofs, FiniteSetTheorems

USE AmountsAssumption, IdsAssumption, BoundsAssumption

-----------------------------------------------------------------------------
(* What every number of callers and overlapping reconciliations keeps.     *)

\* Rows and captures are made one at a time.
Countable ==
    /\ IsFiniteSet(reversals)
    /\ IsFiniteSet({ x \in Payment : Captured(x) })

\* The payment p of order o, if there is one.
OwnPayment(o, x) == x # None => x \in PaymentsFor(o)

\* A Razorpay order was created for the order that has its id, and a payment
\* an order knows was captured for that order.
OrdersLinked ==
    \A o \in Order :
        /\ order[o].provider_order # None =>
              checkout[order[o].provider_order] = o
        /\ OwnPayment(o, order[o].payment)

CallsLinked ==
    \A c \in Caller : call[c] # Idle /\ call[c].got # None =>
        checkout[call[c].got] = call[c].order

ReconsLinked ==
    \A o \in Order : recon[o] # Idle =>
        /\ recon[o].seen.provider_order # None =>
              checkout[recon[o].seen.provider_order] = o
        /\ OwnPayment(o, recon[o].seen.payment)
        /\ recon[o].pays \subseteq PaymentsFor(o)

\* Only what a client has been shown is paid, and only what is captured is
\* refunded.
PaymentsLinked ==
    /\ \A p \in shown : checkout[p] # None
    /\ \A x \in Payment :
          /\ payment[x].status # "none" => payment[x].of \in shown
          /\ payment[x].refunds # {} => Captured(x)

Linked == OrdersLinked /\ CallsLinked /\ ReconsLinked /\ PaymentsLinked

\* The refunds of the payments captured for order o.
RefundsFor(o) == UNION { payment[x].refunds : x \in PaymentsFor(o) }

\* A refund is of one payment: what was paid back is counted by their ids.
RefundsCounted ==
    \A o \in Order :
        Total(PaymentsFor(o), [x \in PaymentsFor(o) |-> RefundedAt(x)])
            = RefundPaise * Cardinality(RefundsFor(o))

\* What is taken back for an order no reconciliation repaired is at most the
\* share of the refunds whose webhooks have been processed.
RefundsBooked ==
    \A o \in Order \ repaired :
        /\ order[o].refund_ids \subseteq RefundsFor(o)
        /\ order[o].refunded = RefundPaise * Cardinality(order[o].refund_ids)
        /\ Reversed(o) <= (Credit * order[o].refunded) \div Gross

IInv == TypeOK /\ Countable /\ Linked /\ CreditsAreCaptured
BookInv == RefundsCounted /\ RefundsBooked

-----------------------------------------------------------------------------
(* What handlers and reconciliations that keep apart know.                 *)

\* A reversal has a key of its own: its row begins where the rows before it
\* had come to.
RowsStack ==
    \A k \in reversals : k[3] # 0 /\ k[2] + k[3] <= Reversed(k[1])

\* What a reconciliation has looked up is still so.
LooksFresh ==
    \A o \in Order : recon[o] # Idle /\ recon[o].step = "read" =>
        /\ recon[o].found = (o \in credits)
        /\ recon[o].already = Reversed(o)

MoneyInv == RowsStack /\ LooksFresh /\ LedgerExplainsBalance

\* Of one order a client has one create_order call in flight.
OneCallPerOrder ==
    \A c, d \in Caller :
        call[c] # Idle /\ call[d] # Idle /\ call[c].order = call[d].order => c = d

CallsFresh ==
    \A c \in Caller : call[c] # Idle =>
        /\ order[call[c].order] = call[c].seen
        /\ order[call[c].order].provider_order = None
        /\ order[call[c].order].status # "none"

ReconsFresh ==
    \A o \in Order : recon[o] # Idle =>
        /\ recon[o].seen = order[o]
        /\ order[o].provider_order # None
        /\ recon[o].refunded <= Gross

\* An order is linked when it leaves its first states, credited after that,
\* and knows its payment only when it is credited.
OrdersStaged ==
    \A o \in Order :
        /\ order[o].provider_order = None <=>
              order[o].status \in {"none", "creating", "failed"}
        /\ o \in credits => order[o].provider_order # None
        /\ order[o].payment # None => o \in credits

RefundsFit == \A x \in Payment : RefundedAt(x) <= Gross

StageInv ==
    CallsFresh /\ ReconsFresh /\ OrdersStaged /\ RefundsFit /\ StatusMatchesAmounts

-----------------------------------------------------------------------------
(* The steps, by who takes them.                                           *)

Creates(c) ==
    \/ \E o \in Order : BeginOrder(c, o)
    \/ \E p \in ProviderOrder : ProviderCreates(c, p)
    \/ FinishOrder(c) \/ FailOrder(c) \/ CrashOrder(c)

Outside ==
    \/ \E x \in Payment :
          \/ \E p \in ProviderOrder : Attempt(x, p)
          \/ Capture(x)
          \/ \E f \in Refund : RefundPayment(f, x)
    \/ \E n \in Uses : Reserve(n) \/ Spend(n)

Credits(o, x) ==
    \/ Verify(o, x)
    \/ \E kind \in {"payment.captured", "order.paid"}, named \in BOOLEAN :
          CapturedEvent(kind, named, o, x)

Reconciles(o) ==
    ReconcileLoad(o) \/ ReconcileRead(o) \/ ReconcileCommit(o) \/ ReconcileAbort(o)

\* These are all steps there are.
LEMMA Steps ==
  ASSUME [Next]_vars
  PROVE  \/ \E c \in Caller : Creates(c)
         \/ Outside
         \/ \E o \in Order, x \in Payment : Credits(o, x)
         \/ \E o \in Order, x \in Payment, f \in Refund : RefundEvent(o, x, f)
         \/ \E o \in Order : Reconciles(o)
         \/ UNCHANGED vars
BY DEF Next, Creates, Outside, Credits, Reconciles

-----------------------------------------------------------------------------
(* Arithmetic.                                                             *)

\* The share of the credit that belongs to a refund is a natural, and no
\* smaller for a larger refund.
LEMMA ShareType ==
  ASSUME NEW total \in Nat
  PROVE  (Credit * total) \div Gross \in Nat
<1>1. Credit * total \in Nat OBVIOUS
<1> DEFINE n == Credit * total
<1>2. n \in Nat BY <1>1
<1> HIDE DEF n
<1>3. n \div Gross \in Nat BY <1>2
<1> QED BY <1>3 DEF n

\* A larger refund has no smaller share.
LEMMA ShareMonotone ==
  ASSUME NEW total \in Nat, NEW more \in Nat, total <= more
  PROVE  (Credit * total) \div Gross <= (Credit * more) \div Gross
<1> DEFINE m == Credit * total
           n == Credit * more
<1>1. m \in Nat /\ n \in Nat OBVIOUS
<1>2. m <= n
  <2>1. PICK d \in Nat : more = total + d BY more - total \in Nat
  <2>2. n = m + Credit * d BY <2>1
  <2>3. Credit * d \in Nat BY <2>1
  <2> QED BY <1>1, <2>2, <2>3
<1> HIDE DEF m, n
<1>3. m \div Gross <= n \div Gross BY <1>1, <1>2
<1> QED BY <1>3 DEF m, n

\* A reversal takes no more than there is, and no more than what is missing to
\* the share of the refund.
LEMMA ReversalBounds ==
  ASSUME NEW total \in Nat, NEW already \in Nat, NEW balance \in Nat,
         NEW reserved \in Nat
  PROVE  /\ Reversal(total, already, balance, reserved) \in Nat
         /\ Reversal(total, already, balance, reserved) <= balance
         /\ Reversal(total, already, balance, reserved) # 0 =>
               already + Reversal(total, already, balance, reserved)
                   <= (Credit * total) \div Gross
<1> DEFINE share == (Credit * total) \div Gross
<1>1. share \in Nat BY ShareType
<1>2. Reversal(total, already, balance, reserved)
        = Lesser(Max0(share - already), Max0(balance - reserved))
  BY DEF Reversal
<1> HIDE DEF share
<1>3. Lesser(Max0(share - already), Max0(balance - reserved)) \in Nat
  BY <1>1 DEF Lesser, Max0
<1>4. Lesser(Max0(share - already), Max0(balance - reserved)) <= balance
  BY <1>1 DEF Lesser, Max0
<1>5. Lesser(Max0(share - already), Max0(balance - reserved)) # 0 =>
        already + Lesser(Max0(share - already), Max0(balance - reserved)) <= share
  BY <1>1 DEF Lesser, Max0
<1> QED BY <1>2, <1>3, <1>4, <1>5 DEF share

-----------------------------------------------------------------------------
(* Rows.                                                                   *)

\* An UPDATE leaves an order an order.
LEMMA FlushType ==
  ASSUME NEW row \in Row, NEW seen \in Row, NEW new \in Row
  PROVE  Flush(row, seen, new) \in Row
BY DEF Flush, Row

\* An UPDATE of a row nobody else has written stores what was meant.
LEMMA FlushFresh ==
  ASSUME NEW row \in Row, NEW new \in Row
  PROVE  Flush(row, row, new) = new
BY DEF Flush, Row

\* An UPDATE leaves a column alone, or stores what was meant.
LEMMA FlushColumns ==
  ASSUME NEW row \in Row, NEW seen \in Row, NEW new \in Row
  PROVE  LET r == Flush(row, seen, new)
         IN  /\ r.provider_order = IF new.provider_order # seen.provider_order
                                   THEN new.provider_order ELSE row.provider_order
             /\ r.payment = IF new.payment # seen.payment
                            THEN new.payment ELSE row.payment
             /\ r.refunded = IF new.refunded # seen.refunded
                             THEN new.refunded ELSE row.refunded
             /\ r.refund_ids = IF new.refund_ids # seen.refund_ids
                               THEN new.refund_ids ELSE row.refund_ids
BY DEF Flush, Row

\* What crediting an order and refunding it write.
LEMMA RowTypes ==
  ASSUME NEW row \in Row, NEW total \in Nat
  PROVE  /\ Fulfilled(row) \in Row
         /\ Refunded(row, total) \in Row
         /\ \A x \in Payment : [row EXCEPT !.payment = x] \in Row
BY DEF Fulfilled, Refunded, Row, Statuses

\* Ledger rows of one order are finitely many, and their sum is a natural.
LEMMA ReversedType ==
  ASSUME TypeOK, Countable, NEW o
  PROVE  /\ IsFiniteSet(ReversalRows(o))
         /\ \A k \in ReversalRows(o) : k \in Order \X Nat \X Nat
         /\ Reversed(o) \in Nat
<1>1. ReversalRows(o) \subseteq reversals BY DEF ReversalRows
<1>2. IsFiniteSet(ReversalRows(o)) BY <1>1, FS_Subset DEF Countable
<1>3. \A k \in ReversalRows(o) : k \in Order \X Nat \X Nat BY <1>1 DEF TypeOK
<1>4. \A k \in ReversalRows(o) : [j \in ReversalRows(o) |-> j[3]][k] \in Nat
  BY <1>3
<1>5. Reversed(o) \in Nat BY <1>2, <1>4, TotalType DEF Reversed
<1> QED BY <1>2, <1>3, <1>5

\* What Razorpay has paid back of a payment is a natural.
LEMMA RefundedAtType ==
  ASSUME TypeOK, NEW x \in Payment
  PROVE  /\ IsFiniteSet(payment[x].refunds)
         /\ RefundedAt(x) \in Nat
<1>1. payment[x].refunds \subseteq Refund BY DEF TypeOK
<1>2. IsFiniteSet(payment[x].refunds) BY <1>1, FS_Subset
<1>3. Cardinality(payment[x].refunds) \in Nat BY <1>2, FS_CardinalityType
<1> QED BY <1>2, <1>3 DEF RefundedAt

\* The row of a reversal.
LEMMA ReversalRowType ==
  ASSUME NEW o \in Order, NEW already \in Nat, NEW delta \in Nat
  PROVE  /\ ReversalRow(o, already, delta) \subseteq Order \X Nat \X Nat
         /\ IsFiniteSet(ReversalRow(o, already, delta))
<1>1. ReversalRow(o, already, delta) \subseteq {<<o, already, delta>>}
  BY DEF ReversalRow
<1>2. IsFiniteSet({<<o, already, delta>>}) BY FS_Singleton
<1>3. IsFiniteSet(ReversalRow(o, already, delta)) BY <1>1, <1>2, FS_Subset
<1> QED BY <1>1, <1>3

-----------------------------------------------------------------------------
(* Type correctness.                                                       *)

\* create_order keeps the types.
LEMMA CreateTypes ==
  ASSUME TypeOK, NEW c \in Caller, Creates(c)
  PROVE  TypeOK'
<1>1. ASSUME NEW o \in Order, BeginOrder(c, o) PROVE TypeOK'
  <2> DEFINE row == [order[o] EXCEPT !.status = IF @ = "none" THEN "creating" ELSE @]
  <2>1. row \in Row
    <3> DEFINE new == IF order[o].status = "none" THEN "creating" ELSE order[o].status
    <3>1. order[o] \in Row BY DEF TypeOK
    <3>2. new \in Statuses BY <3>1 DEF Row, Statuses
    <3>3. row = [order[o] EXCEPT !.status = new] OBVIOUS
    <3> HIDE DEF new, row
    <3> QED BY <3>1, <3>2, <3>3 DEF Row
  <2>2. /\ order' = [order EXCEPT ![o] = row]
        /\ call' = [call EXCEPT ![c] = [order |-> o, seen |-> row, got |-> None]]
    BY <1>1 DEF BeginOrder
  <2> HIDE DEF row
  <2> QED BY <1>1, <2>1, <2>2 DEF BeginOrder, TypeOK
<1>2. ASSUME NEW p \in ProviderOrder, ProviderCreates(c, p) PROVE TypeOK'
  BY <1>2 DEF ProviderCreates, TypeOK
<1>3. ASSUME FinishOrder(c) PROVE TypeOK'
  <2> DEFINE new == [call[c].seen EXCEPT !.provider_order = call[c].got,
                                         !.status = "created"]
             row == Flush(order[call[c].order], call[c].seen, new)
  <2>1. /\ call[c].order \in Order /\ call[c].seen \in Row
        /\ call[c].got \in ProviderOrder
    BY <1>3 DEF FinishOrder, TypeOK
  <2>2. new \in Row BY <2>1 DEF Row, Statuses
  <2>3. row \in Row BY <2>1, <2>2, FlushType DEF TypeOK
  <2>4. order' = [order EXCEPT ![call[c].order] = row]
    BY <1>3 DEF FinishOrder
  <2> HIDE DEF row
  <2> QED BY <1>3, <2>1, <2>3, <2>4 DEF FinishOrder, TypeOK
<1>4. ASSUME FailOrder(c) PROVE TypeOK'
  <2> DEFINE new == [call[c].seen EXCEPT !.status = "failed"]
             row == Flush(order[call[c].order], call[c].seen, new)
  <2>1. call[c].order \in Order /\ call[c].seen \in Row
    BY <1>4 DEF FailOrder, TypeOK
  <2>2. new \in Row BY <2>1 DEF Row, Statuses
  <2>3. row \in Row BY <2>1, <2>2, FlushType DEF TypeOK
  <2>4. order' = [order EXCEPT ![call[c].order] = row] BY <1>4 DEF FailOrder
  <2> HIDE DEF row
  <2> QED BY <1>4, <2>1, <2>3, <2>4 DEF FailOrder, TypeOK
<1>5. ASSUME CrashOrder(c) PROVE TypeOK' BY <1>5 DEF CrashOrder, TypeOK
<1> QED BY <1>1, <1>2, <1>3, <1>4, <1>5 DEF Creates

\* Razorpay's own steps and usage keep the types.
LEMMA OutsideTypes ==
  ASSUME TypeOK, Outside
  PROVE  TypeOK'
<1>1. ASSUME NEW x \in Payment, NEW p \in ProviderOrder, Attempt(x, p) PROVE TypeOK'
  <2>1. payment[x] \in [status: {"none", "authorized", "captured"},
                        of: ProviderOrder \cup {None}, refunds: SUBSET Refund]
    BY DEF TypeOK
  <2> QED BY <1>1, <2>1 DEF Attempt, TypeOK
<1>2. ASSUME NEW x \in Payment, Capture(x) PROVE TypeOK'
  BY <1>2 DEF Capture, TypeOK
<1>3. ASSUME NEW x \in Payment, NEW f \in Refund, RefundPayment(f, x) PROVE TypeOK'
  BY <1>3 DEF RefundPayment, TypeOK
<1>4. ASSUME NEW n \in Uses, Reserve(n) PROVE TypeOK' BY <1>4 DEF Reserve, TypeOK
<1>5. ASSUME NEW n \in Uses, Spend(n) PROVE TypeOK'
  <2>1. n \in Nat BY DEF AmountsAssumption
  <2> QED BY <1>5, <2>1 DEF Spend, TypeOK
<1> QED BY <1>1, <1>2, <1>3, <1>4, <1>5 DEF Outside

\* What a credit leaves in the wallet is a natural.
LEMMA CreditedType ==
  ASSUME NEW o, NEW micros \in Nat
  PROVE  Credited(o, micros) \in Nat
BY DEF Credited

\* A verification and an event of a captured payment keep the types.
LEMMA CreditTypes ==
  ASSUME TypeOK, NEW o \in Order, NEW x \in Payment, Credits(o, x)
  PROVE  TypeOK'
<1>1. order[o] \in Row /\ wallet.balance \in Nat BY DEF TypeOK
<1>2. Fulfilled([order[o] EXCEPT !.payment = x]) \in Row /\ Fulfilled(order[o]) \in Row
  BY <1>1, RowTypes
<1>3. Credited(o, wallet.balance) \in Nat BY <1>1, CreditedType
<1>4. ASSUME Verify(o, x) PROVE TypeOK'
  <2>1. CASE ~Captured(x)
    <3>1. [order[o] EXCEPT !.status = "attempted"] \in Row
      BY <1>1 DEF Row, Statuses
    <3>2. order' = [order EXCEPT ![o] = [order[o] EXCEPT !.status = "attempted"]]
      BY <1>4, <2>1 DEF Verify
    <3> QED BY <1>4, <2>1, <3>1, <3>2 DEF Verify, TypeOK
  <2>2. CASE Captured(x)
    <3> DEFINE row == Fulfilled([order[o] EXCEPT !.payment = x])
               micros == Credited(o, wallet.balance)
    <3>1. /\ order' = [order EXCEPT ![o] = row]
          /\ wallet' = [wallet EXCEPT !.balance = micros]
      BY <1>4, <2>2 DEF Verify
    <3>2. row \in Row /\ micros \in Nat BY <1>2, <1>3
    <3> HIDE DEF row, micros
    <3> QED BY <1>4, <2>2, <3>1, <3>2 DEF Verify, TypeOK
  <2> QED BY <2>1, <2>2
<1>5. ASSUME NEW kind \in {"payment.captured", "order.paid"}, NEW named \in BOOLEAN,
             CapturedEvent(kind, named, o, x)
      PROVE  TypeOK'
  <2> DEFINE row == Fulfilled(IF named THEN [order[o] EXCEPT !.payment = x] ELSE order[o])
             micros == Credited(o, wallet.balance)
  <2>1. /\ order' = [order EXCEPT ![o] = row]
        /\ wallet' = [wallet EXCEPT !.balance = micros]
    BY <1>5 DEF CapturedEvent
  <2>2. row \in Row
    BY <1>1 DEF Fulfilled, Row, Statuses
  <2>3. micros \in Nat BY <1>3
  <2> HIDE DEF row, micros
  <2> QED BY <1>5, <2>1, <2>2, <2>3 DEF CapturedEvent, TypeOK
<1> QED BY <1>4, <1>5 DEF Credits

-----------------------------------------------------------------------------
(* The parts of the two longest handlers.                                  *)

\* The order's row and the balance, when an event of a refund has given the
\* credit it found missing.
BaseRow(o, x) ==
    IF order[o].payment = x THEN order[o]
    ELSE Fulfilled([order[o] EXCEPT !.payment = x])

BaseBalance(o, x) ==
    IF order[o].payment = x THEN wallet.balance ELSE Credited(o, wallet.balance)

\* The event's total, what it takes back, and the row it leaves.
EventTotal(o) == order[o].refunded + RefundPaise

EventTakes(o, x) ==
    Reversal(EventTotal(o), Reversed(o), BaseBalance(o, x), wallet.reserved)

EventRow(o, x, f) ==
    [Refunded(BaseRow(o, x), EventTotal(o)) EXCEPT !.refund_ids = @ \cup {f}]

\* The types of these parts, and their columns.
LEMMA EventTypes ==
  ASSUME TypeOK, Countable, NEW o \in Order, NEW x \in Payment, NEW f \in Refund
  PROVE  /\ BaseRow(o, x) \in Row
         /\ BaseRow(o, x).provider_order = order[o].provider_order
         /\ BaseRow(o, x).payment = x
         /\ BaseRow(o, x).refunded = order[o].refunded
         /\ BaseRow(o, x).refund_ids = order[o].refund_ids
         /\ BaseBalance(o, x) \in Nat
         /\ EventTotal(o) \in Nat
         /\ EventTakes(o, x) \in Nat /\ EventTakes(o, x) <= BaseBalance(o, x)
         /\ EventRow(o, x, f) \in Row
         /\ EventRow(o, x, f).provider_order = order[o].provider_order
         /\ EventRow(o, x, f).payment = x
         /\ EventRow(o, x, f).refunded = EventTotal(o)
         /\ EventRow(o, x, f).refund_ids = order[o].refund_ids \cup {f}
         /\ EventRow(o, x, f).status = IF EventTotal(o) >= Gross THEN "refunded"
                                       ELSE "partially_refunded"
<1>1. order[o] \in Row /\ wallet.balance \in Nat /\ wallet.reserved \in Nat
  BY DEF TypeOK
<1>2. /\ BaseRow(o, x) \in Row
      /\ BaseRow(o, x).provider_order = order[o].provider_order
      /\ BaseRow(o, x).payment = x
      /\ BaseRow(o, x).refunded = order[o].refunded
      /\ BaseRow(o, x).refund_ids = order[o].refund_ids
  BY <1>1 DEF BaseRow, Fulfilled, Row, Statuses
<1>3. BaseBalance(o, x) \in Nat BY <1>1, CreditedType DEF BaseBalance
<1>4. EventTotal(o) \in Nat /\ EventTotal(o) > order[o].refunded
  BY <1>1 DEF EventTotal, Row
<1>5. EventTakes(o, x) \in Nat /\ EventTakes(o, x) <= BaseBalance(o, x)
  BY <1>1, <1>3, <1>4, ReversedType, ReversalBounds DEF EventTakes
<1>6. /\ EventRow(o, x, f) \in Row
      /\ EventRow(o, x, f).provider_order = BaseRow(o, x).provider_order
      /\ EventRow(o, x, f).payment = BaseRow(o, x).payment
      /\ EventRow(o, x, f).refunded = EventTotal(o)
      /\ EventRow(o, x, f).refund_ids = BaseRow(o, x).refund_ids \cup {f}
      /\ EventRow(o, x, f).status = IF EventTotal(o) >= Gross THEN "refunded"
                                    ELSE "partially_refunded"
  <2> DEFINE base == BaseRow(o, x)
             total == EventTotal(o)
  <2>1. base \in Row /\ total \in Nat /\ total > base.refunded BY <1>2, <1>4
  <2>2. EventRow(o, x, f) = [Refunded(base, total) EXCEPT !.refund_ids = @ \cup {f}]
    BY DEF EventRow
  <2> HIDE DEF base, total
  <2>3. /\ [Refunded(base, total) EXCEPT !.refund_ids = @ \cup {f}] \in Row
        /\ [Refunded(base, total) EXCEPT !.refund_ids = @ \cup {f}].provider_order
              = base.provider_order
        /\ [Refunded(base, total) EXCEPT !.refund_ids = @ \cup {f}].payment
              = base.payment
        /\ [Refunded(base, total) EXCEPT !.refund_ids = @ \cup {f}].refunded = total
        /\ [Refunded(base, total) EXCEPT !.refund_ids = @ \cup {f}].refund_ids
              = base.refund_ids \cup {f}
        /\ [Refunded(base, total) EXCEPT !.refund_ids = @ \cup {f}].status
              = IF total >= Gross THEN "refunded" ELSE "partially_refunded"
    BY <2>1 DEF Refunded, Row, Statuses
  <2> QED BY <2>2, <2>3 DEF base, total
<1> QED BY <1>2, <1>3, <1>4, <1>5, <1>6

\* What an event of a refund does: nothing but the credit if it knows the id.
LEMMA EventParts ==
  ASSUME TypeOK, Countable, NEW o \in Order, NEW x \in Payment, NEW f \in Refund,
         RefundEvent(o, x, f)
  PROVE  /\ credits' = IF order[o].payment = x THEN credits ELSE credits \cup {o}
         /\ \/ /\ f \in order[o].refund_ids
               /\ order' = [order EXCEPT ![o] = BaseRow(o, x)]
               /\ wallet' = [wallet EXCEPT !.balance = BaseBalance(o, x)]
               /\ reversals' = reversals
            \/ /\ f \notin order[o].refund_ids
               /\ EventTotal(o) <= Gross
               /\ order' = [order EXCEPT ![o] = EventRow(o, x, f)]
               /\ wallet' = [wallet EXCEPT !.balance =
                                BaseBalance(o, x) - EventTakes(o, x)]
               /\ reversals' = reversals \cup
                                  ReversalRow(o, Reversed(o), EventTakes(o, x))
<1> DEFINE known   == order[o].payment = x
           row     == IF known THEN order[o]
                      ELSE Fulfilled([order[o] EXCEPT !.payment = x])
           balance == IF known THEN wallet.balance ELSE Credited(o, wallet.balance)
           total   == row.refunded + RefundPaise
           delta   == Reversal(total, Reversed(o), balance, wallet.reserved)
<1>1. /\ f \notin row.refund_ids => total <= Gross
      /\ credits' = IF known THEN credits ELSE credits \cup {o}
      /\ IF f \in row.refund_ids
         THEN /\ order' = [order EXCEPT ![o] = row]
              /\ wallet' = [wallet EXCEPT !.balance = balance]
              /\ reversals' = reversals
         ELSE /\ order' = [order EXCEPT ![o] =
                             [Refunded(row, total) EXCEPT !.refund_ids = @ \cup {f}]]
              /\ wallet' = [wallet EXCEPT !.balance = balance - delta]
              /\ reversals' = reversals \cup ReversalRow(o, Reversed(o), delta)
  BY DEF RefundEvent
<1>2. row = BaseRow(o, x) /\ balance = BaseBalance(o, x)
  BY DEF BaseRow, BaseBalance
<1> HIDE DEF row, balance
<1>3. row.refunded = order[o].refunded /\ row.refund_ids = order[o].refund_ids
  BY <1>2, EventTypes
<1>4. total = EventTotal(o) BY <1>3 DEF EventTotal
<1>5. delta = EventTakes(o, x) BY <1>2, <1>4 DEF EventTakes
<1> HIDE DEF total, delta
<1>6. [Refunded(row, total) EXCEPT !.refund_ids = @ \cup {f}] = EventRow(o, x, f)
  BY <1>2, <1>4 DEF EventRow
<1>7. CASE f \in order[o].refund_ids
  BY <1>1, <1>2, <1>3, <1>7
<1>8. CASE f \notin order[o].refund_ids
  BY <1>1, <1>2, <1>3, <1>4, <1>5, <1>6, <1>8
<1> QED BY <1>7, <1>8

\* The same of a reconciliation: the row with the credit it gives, the balance,
\* and whether a refund is left to book.
Pays(o) == Cardinality(recon[o].pays) = 1

PaidRow(o) ==
    IF Pays(o) THEN Fulfilled([recon[o].seen EXCEPT
                                  !.payment = CHOOSE x \in recon[o].pays : TRUE])
    ELSE recon[o].seen

PaidBalance(o) ==
    IF Pays(o) /\ ~recon[o].found THEN wallet.balance + Credit ELSE wallet.balance

RefundDue(o) ==
    /\ PaidRow(o).payment # None
    /\ PaidRow(o).status \in {"credited", "partially_refunded", "refunded"}
    /\ recon[o].refunded > PaidRow(o).refunded

ReconTakes(o) ==
    IF RefundDue(o)
    THEN Reversal(recon[o].refunded, recon[o].already, PaidBalance(o), wallet.reserved)
    ELSE 0

ReconRow(o) ==
    IF RefundDue(o) THEN Refunded(PaidRow(o), recon[o].refunded) ELSE PaidRow(o)

\* The types of these parts, and their columns.
LEMMA ReconTypes ==
  ASSUME TypeOK, NEW o \in Order, recon[o] # Idle
  PROVE  /\ recon[o] \in Open
         /\ Pays(o) => recon[o].pays # {}
         /\ PaidRow(o) \in Row
         /\ PaidRow(o).provider_order = recon[o].seen.provider_order
         /\ PaidRow(o).payment \in {recon[o].seen.payment} \cup recon[o].pays
         /\ PaidRow(o).refunded = recon[o].seen.refunded
         /\ PaidRow(o).refund_ids = recon[o].seen.refund_ids
         /\ PaidBalance(o) \in Nat
         /\ ReconTakes(o) \in Nat /\ ReconTakes(o) <= PaidBalance(o)
         /\ ReconRow(o) \in Row
         /\ ReconRow(o).provider_order = recon[o].seen.provider_order
         /\ ReconRow(o).payment = PaidRow(o).payment
         /\ ReconRow(o).refund_ids = recon[o].seen.refund_ids
         /\ ReconRow(o).refunded = IF RefundDue(o) THEN recon[o].refunded
                                   ELSE recon[o].seen.refunded
<1>1. /\ recon[o] \in Open /\ recon[o].seen \in Row /\ recon[o].pays \subseteq Payment
      /\ recon[o].refunded \in Nat /\ recon[o].already \in Nat
      /\ wallet.balance \in Nat /\ wallet.reserved \in Nat
  BY DEF TypeOK, Open
<1>2. Pays(o) => recon[o].pays # {}
  BY FS_EmptySet DEF Pays
<1>3. /\ PaidRow(o) \in Row
      /\ PaidRow(o).provider_order = recon[o].seen.provider_order
      /\ PaidRow(o).payment \in {recon[o].seen.payment} \cup recon[o].pays
      /\ PaidRow(o).refunded = recon[o].seen.refunded
      /\ PaidRow(o).refund_ids = recon[o].seen.refund_ids
  <2> DEFINE x == CHOOSE y \in recon[o].pays : TRUE
             seen == recon[o].seen
  <2>1. Pays(o) => x \in recon[o].pays /\ x \in Payment BY <1>1, <1>2
  <2>2. seen \in Row BY <1>1
  <2>3. PaidRow(o) = IF Pays(o) THEN Fulfilled([seen EXCEPT !.payment = x]) ELSE seen
    BY DEF PaidRow
  <2> HIDE DEF x, seen
  <2>4. x \in Payment => /\ Fulfilled([seen EXCEPT !.payment = x]) \in Row
                         /\ Fulfilled([seen EXCEPT !.payment = x]).provider_order
                               = seen.provider_order
                         /\ Fulfilled([seen EXCEPT !.payment = x]).payment = x
                         /\ Fulfilled([seen EXCEPT !.payment = x]).refunded = seen.refunded
                         /\ Fulfilled([seen EXCEPT !.payment = x]).refund_ids
                               = seen.refund_ids
    BY <2>2 DEF Fulfilled, Row, Statuses
  <2> QED BY <2>1, <2>2, <2>3, <2>4 DEF seen
<1>4. PaidBalance(o) \in Nat BY <1>1 DEF PaidBalance
<1>5. ReconTakes(o) \in Nat /\ ReconTakes(o) <= PaidBalance(o)
  <2> DEFINE took == Reversal(recon[o].refunded, recon[o].already, PaidBalance(o),
                              wallet.reserved)
  <2>1. took \in Nat /\ took <= PaidBalance(o) BY <1>1, <1>4, ReversalBounds
  <2>2. ReconTakes(o) = IF RefundDue(o) THEN took ELSE 0 BY DEF ReconTakes
  <2> HIDE DEF took
  <2> QED BY <1>4, <2>1, <2>2
<1>6. /\ ReconRow(o) \in Row
      /\ ReconRow(o).provider_order = PaidRow(o).provider_order
      /\ ReconRow(o).payment = PaidRow(o).payment
      /\ ReconRow(o).refund_ids = PaidRow(o).refund_ids
      /\ ReconRow(o).refunded = IF RefundDue(o) THEN recon[o].refunded
                                ELSE PaidRow(o).refunded
  <2> DEFINE paid == PaidRow(o)
             total == recon[o].refunded
  <2>1. paid \in Row /\ total \in Nat /\ (RefundDue(o) => total > paid.refunded)
    BY <1>1, <1>3 DEF RefundDue
  <2>2. ReconRow(o) = IF RefundDue(o) THEN Refunded(paid, total) ELSE paid
    BY DEF ReconRow
  <2> HIDE DEF paid, total
  <2>3. RefundDue(o) => /\ Refunded(paid, total) \in Row
                        /\ Refunded(paid, total).provider_order = paid.provider_order
                        /\ Refunded(paid, total).payment = paid.payment
                        /\ Refunded(paid, total).refund_ids = paid.refund_ids
                        /\ Refunded(paid, total).refunded = total
    BY <2>1 DEF Refunded, Row, Statuses
  <2> QED BY <2>1, <2>2, <2>3 DEF paid, total
<1> QED BY <1>1, <1>2, <1>3, <1>4, <1>5, <1>6

\* What the commit of a reconciliation does.
LEMMA ReconParts ==
  ASSUME TypeOK, NEW o \in Order, ReconcileCommit(o)
  PROVE  /\ recon[o] # Idle /\ recon[o].step = "read"
         /\ order' = [order EXCEPT ![o] = Flush(order[o], recon[o].seen, ReconRow(o))]
         /\ wallet' = [wallet EXCEPT !.balance = PaidBalance(o) - ReconTakes(o)]
         /\ credits' = IF Pays(o) THEN credits \cup {o} ELSE credits
         /\ reversals' = reversals \cup
                            ReversalRow(o, recon[o].already, ReconTakes(o))
         /\ repaired' = IF RefundDue(o) THEN repaired \cup {o} ELSE repaired
         /\ recon' = [recon EXCEPT ![o] = Idle]
         /\ UNCHANGED <<call, checkout, shown, payment, processed, runs, spent>>
BY DEF ReconcileCommit, ReconRow, ReconTakes, RefundDue, PaidBalance, PaidRow, Pays

-----------------------------------------------------------------------------
(* Type correctness of the longest handlers, and finiteness.               *)

\* An event of a refund keeps the types.
LEMMA EventKeepsTypes ==
  ASSUME TypeOK, Countable, NEW o \in Order, NEW x \in Payment, NEW f \in Refund,
         RefundEvent(o, x, f)
  PROVE  TypeOK' /\ IsFiniteSet(reversals')
<1>1. /\ BaseRow(o, x) \in Row /\ EventRow(o, x, f) \in Row
      /\ BaseBalance(o, x) \in Nat /\ BaseBalance(o, x) - EventTakes(o, x) \in Nat
      /\ EventTakes(o, x) \in Nat
  BY EventTypes
<1>2. /\ ReversalRow(o, Reversed(o), EventTakes(o, x)) \subseteq Order \X Nat \X Nat
      /\ IsFiniteSet(ReversalRow(o, Reversed(o), EventTakes(o, x)))
  BY <1>1, ReversedType, ReversalRowType
<1>3. PICK row \in Row, n \in Nat :
        /\ order' = [order EXCEPT ![o] = row]
        /\ wallet' = [wallet EXCEPT !.balance = n]
  BY <1>1, EventParts
<1>4. reversals' \subseteq Order \X Nat \X Nat BY <1>2, EventParts DEF TypeOK
<1>5. IsFiniteSet(reversals')
  <2>1. IsFiniteSet(reversals) BY DEF Countable
  <2>2. IsFiniteSet(reversals \cup ReversalRow(o, Reversed(o), EventTakes(o, x)))
    BY <1>2, <2>1, FS_Union
  <2> QED BY <2>1, <2>2, EventParts
<1>6. credits' \subseteq Order BY EventParts DEF TypeOK
<1>7. /\ processed' = processed \cup {<<"refund.processed", f>>}
      /\ UNCHANGED <<call, checkout, shown, payment, recon, runs, spent, repaired>>
  BY DEF RefundEvent
<1> QED BY <1>3, <1>4, <1>5, <1>6, <1>7 DEF TypeOK

\* A reconciliation keeps the types.
LEMMA ReconKeepsTypes ==
  ASSUME TypeOK, Countable, NEW o \in Order, Reconciles(o)
  PROVE  TypeOK' /\ IsFiniteSet(reversals')
<1>1. ASSUME ReconcileLoad(o) PROVE TypeOK' /\ IsFiniteSet(reversals')
  <2> DEFINE look == [step |-> "loaded", seen |-> order[o], pays |-> {},
                      found |-> FALSE, refunded |-> 0, already |-> 0]
  <2>1. look \in Open BY DEF TypeOK, Open
  <2>2. recon' = [recon EXCEPT ![o] = look] BY <1>1 DEF ReconcileLoad
  <2>3. runs[o] + 1 \in 0 .. MaxRuns BY <1>1 DEF ReconcileLoad, TypeOK
  <2> HIDE DEF look
  <2>4. recon' \in [Order -> {Idle} \cup Open] BY <2>1, <2>2 DEF TypeOK
  <2>5. runs' \in [Order -> 0 .. MaxRuns] BY <1>1, <2>3 DEF ReconcileLoad, TypeOK
  <2> QED BY <1>1, <2>4, <2>5 DEF ReconcileLoad, TypeOK, Countable
<1>2. ASSUME ReconcileRead(o) PROVE TypeOK' /\ IsFiniteSet(reversals')
  <2> DEFINE seen == recon[o].seen
             due  == /\ seen.status \in {"created", "attempted", "captured"}
                     /\ seen.provider_order # None
             pays == IF due THEN { x \in PaymentsOf(seen.provider_order) : Captured(x) }
                     ELSE {}
             paid == pays \cup ({seen.payment} \ {None})
             back == IF paid = {} THEN 0 ELSE RefundedAt(CHOOSE x \in paid : TRUE)
             look == [recon[o] EXCEPT !.step = "read", !.pays = pays,
                                      !.found = o \in credits, !.refunded = back,
                                      !.already = Reversed(o)]
  <2>1. recon' = [recon EXCEPT ![o] = look] BY <1>2 DEF ReconcileRead
  <2>2. recon[o] \in Open /\ seen \in Row BY <1>2 DEF ReconcileRead, TypeOK, Open
  <2>3. pays \subseteq Payment BY DEF PaymentsOf
  <2>4. paid \subseteq Payment BY <2>2, <2>3 DEF Row
  <2>5. paid # {} => (CHOOSE x \in paid : TRUE) \in Payment BY <2>4
  <2>6. back \in Nat BY <2>5, RefundedAtType
  <2>7. Reversed(o) \in Nat BY ReversedType
  <2>8. (o \in credits) \in BOOLEAN OBVIOUS
  <2> HIDE DEF pays, back
  <2>9. look \in Open BY <2>2, <2>3, <2>6, <2>7, <2>8 DEF Open
  <2> HIDE DEF look
  <2> QED BY <1>2, <2>1, <2>9 DEF ReconcileRead, TypeOK, Countable
<1>3. ASSUME ReconcileCommit(o) PROVE TypeOK' /\ IsFiniteSet(reversals')
  <2> DEFINE row == Flush(order[o], recon[o].seen, ReconRow(o))
             left == PaidBalance(o) - ReconTakes(o)
             rows == ReversalRow(o, recon[o].already, ReconTakes(o))
  <2>1. /\ recon[o] \in Open /\ ReconRow(o) \in Row /\ ReconTakes(o) \in Nat
        /\ PaidBalance(o) \in Nat /\ ReconTakes(o) <= PaidBalance(o)
    BY <1>3, ReconTypes DEF ReconcileCommit
  <2>2. row \in Row BY <2>1, FlushType DEF TypeOK, Open
  <2>3. left \in Nat BY <2>1
  <2>4. rows \subseteq Order \X Nat \X Nat /\ IsFiniteSet(rows)
    BY <2>1, ReversalRowType DEF Open
  <2>5. /\ order' = [order EXCEPT ![o] = row]
        /\ wallet' = [wallet EXCEPT !.balance = left]
        /\ credits' = IF Pays(o) THEN credits \cup {o} ELSE credits
        /\ reversals' = reversals \cup rows
        /\ repaired' = IF RefundDue(o) THEN repaired \cup {o} ELSE repaired
        /\ recon' = [recon EXCEPT ![o] = Idle]
        /\ UNCHANGED <<call, checkout, shown, payment, processed, runs, spent>>
    BY <1>3, ReconParts
  <2> HIDE DEF row, left, rows
  <2>6. IsFiniteSet(reversals') BY <2>4, <2>5, FS_Union DEF Countable
  <2> QED BY <2>2, <2>3, <2>4, <2>5, <2>6 DEF TypeOK
<1>4. ASSUME ReconcileAbort(o) PROVE TypeOK' /\ IsFiniteSet(reversals')
  BY <1>4 DEF ReconcileAbort, TypeOK, Countable
<1> QED BY <1>1, <1>2, <1>3, <1>4 DEF Reconciles

-----------------------------------------------------------------------------
(* Payments and what they are for.                                         *)

\* Only Razorpay changes what it knows of payments and of its orders.
LEMMA RazorpaySteps ==
  ASSUME [Next]_vars
  PROVE  /\ \/ \E x \in Payment :
                  \/ \E p \in ProviderOrder : Attempt(x, p)
                  \/ Capture(x)
                  \/ \E f \in Refund : RefundPayment(f, x)
            \/ UNCHANGED payment
         /\ \/ \E c \in Caller, p \in ProviderOrder : ProviderCreates(c, p)
            \/ UNCHANGED checkout
<1> DEFINE Pay == \/ \E x \in Payment :
                        \/ \E p \in ProviderOrder : Attempt(x, p)
                        \/ Capture(x)
                        \/ \E f \in Refund : RefundPayment(f, x)
                  \/ UNCHANGED payment
           Make == \/ \E c \in Caller, p \in ProviderOrder : ProviderCreates(c, p)
                   \/ UNCHANGED checkout
<1>1. ASSUME NEW c \in Caller, Creates(c) PROVE Pay /\ Make
  <2>1. UNCHANGED payment
    BY <1>1 DEF Creates, BeginOrder, ProviderCreates, FinishOrder, FailOrder, CrashOrder
  <2>2. (\E p \in ProviderOrder : ProviderCreates(c, p)) \/ UNCHANGED checkout
    BY <1>1 DEF Creates, BeginOrder, FinishOrder, FailOrder, CrashOrder
  <2> QED BY <2>1, <2>2
<1>2. ASSUME Outside PROVE Pay /\ Make
  <2>1. UNCHANGED checkout
    BY <1>2 DEF Outside, Attempt, Capture, RefundPayment, Reserve, Spend
  <2>2. Pay BY <1>2 DEF Outside, Reserve, Spend
  <2> QED BY <2>1, <2>2
<1>3. ASSUME NEW o \in Order, NEW x \in Payment, Credits(o, x) PROVE Pay /\ Make
  <2>1. UNCHANGED <<payment, checkout>> BY <1>3 DEF Credits, Verify, CapturedEvent
  <2> QED BY <2>1
<1>4. ASSUME NEW o \in Order, NEW x \in Payment, NEW f \in Refund, RefundEvent(o, x, f)
      PROVE  Pay /\ Make
  <2>1. UNCHANGED <<payment, checkout>> BY <1>4 DEF RefundEvent
  <2> QED BY <2>1
<1>5. ASSUME NEW o \in Order, Reconciles(o) PROVE Pay /\ Make
  <2>1. UNCHANGED <<payment, checkout>>
    BY <1>5 DEF Reconciles, ReconcileLoad, ReconcileRead, ReconcileCommit, ReconcileAbort
  <2> QED BY <2>1
<1>6. ASSUME UNCHANGED vars PROVE Pay /\ Make BY <1>6 DEF vars
<1> HIDE DEF Pay, Make
<1>7. Pay /\ Make BY <1>1, <1>2, <1>3, <1>4, <1>5, <1>6, Steps
<1> QED BY <1>7 DEF Pay, Make

\* What is captured is one payment more, at most.
LEMMA CapturesStep ==
  ASSUME TypeOK, Countable, [Next]_vars
  PROVE  IsFiniteSet({ x \in Payment : Captured(x) }')
<1> DEFINE S == { x \in Payment : Captured(x) }
<1>1. IsFiniteSet(S) BY DEF Countable
<1>2. ASSUME NEW x \in Payment, NEW p \in ProviderOrder, Attempt(x, p)
      PROVE  S' = S
  BY <1>2 DEF Attempt, Captured, TypeOK
<1>3. ASSUME NEW x \in Payment, Capture(x) PROVE S' = S \cup {x}
  BY <1>3 DEF Capture, Captured, TypeOK
<1>4. ASSUME NEW x \in Payment, NEW f \in Refund, RefundPayment(f, x) PROVE S' = S
  BY <1>4 DEF RefundPayment, Captured, TypeOK
<1>5. ASSUME UNCHANGED payment PROVE S' = S BY <1>5 DEF Captured
<1>6. \/ \E x \in Payment :
            \/ \E p \in ProviderOrder : Attempt(x, p)
            \/ Capture(x)
            \/ \E f \in Refund : RefundPayment(f, x)
      \/ UNCHANGED payment
  BY RazorpaySteps
<1>7. S' = S \/ \E x \in Payment : S' = S \cup {x}
  BY <1>2, <1>3, <1>4, <1>5, <1>6
<1> HIDE DEF S
<1>8. IsFiniteSet(S') BY <1>1, <1>7, FS_AddElement
<1> QED BY <1>8 DEF S

\* Every step keeps the types and the finiteness.
LEMMA TypesStep ==
  ASSUME TypeOK, Countable, [Next]_vars
  PROVE  TypeOK' /\ Countable'
<1>1. IsFiniteSet({ x \in Payment : Captured(x) }') BY CapturesStep
<1>2. TypeOK' /\ IsFiniteSet(reversals')
  <2>1. IsFiniteSet(reversals) BY DEF Countable
  <2>2. ASSUME NEW c \in Caller, Creates(c) PROVE TypeOK' /\ IsFiniteSet(reversals')
    <3>1. UNCHANGED reversals
      BY <2>2 DEF Creates, BeginOrder, ProviderCreates, FinishOrder, FailOrder, CrashOrder
    <3> QED BY <2>1, <2>2, <3>1, CreateTypes
  <2>3. ASSUME Outside PROVE TypeOK' /\ IsFiniteSet(reversals')
    <3>1. UNCHANGED reversals
      BY <2>3 DEF Outside, Attempt, Capture, RefundPayment, Reserve, Spend
    <3> QED BY <2>1, <2>3, <3>1, OutsideTypes
  <2>4. ASSUME NEW o \in Order, NEW x \in Payment, Credits(o, x)
        PROVE  TypeOK' /\ IsFiniteSet(reversals')
    <3>1. UNCHANGED reversals BY <2>4 DEF Credits, Verify, CapturedEvent
    <3> QED BY <2>1, <2>4, <3>1, CreditTypes
  <2>5. ASSUME UNCHANGED vars PROVE TypeOK' /\ IsFiniteSet(reversals')
    BY <2>1, <2>5 DEF TypeOK, vars
  <2> QED BY <2>2, <2>3, <2>4, <2>5, EventKeepsTypes, ReconKeepsTypes, Steps
<1> QED BY <1>1, <1>2 DEF Countable

\* Types and finiteness hold at first.
LEMMA TypesInit == Init => TypeOK /\ Countable
<1> SUFFICES ASSUME Init PROVE TypeOK /\ Countable OBVIOUS
<1>1. NoRow \in Row BY DEF NoRow, Row, Statuses
<1>2. TypeOK BY <1>1 DEF Init, TypeOK
<1>3. { x \in Payment : Captured(x) } = {} BY DEF Init, Captured
<1>4. Countable BY <1>3, FS_EmptySet DEF Init, Countable
<1> QED BY <1>2, <1>4

\* Every variable has its type: in particular no refund, however webhooks,
\* reconciliations and usage mix, makes the balance negative
\* (reverse_credit_for_refund takes what is available).
THEOREM TypeCorrect == Spec => []TypeOK
<1>1. TypeOK /\ Countable /\ [Next]_vars => TypeOK' /\ Countable'
  BY TypesStep
<1> QED BY <1>1, TypesInit, PTL DEF Spec

-----------------------------------------------------------------------------
(* Orders, Razorpay's orders and payments belong together.                 *)

\* What Razorpay knows of an order and a payment does not change, but for the
\* capture and the refunds.
LEMMA PaymentsGrow ==
  ASSUME TypeOK, PaymentsLinked, [Next]_vars
  PROVE  /\ \A p \in ProviderOrder : checkout[p] # None => checkout'[p] = checkout[p]
         /\ \A x \in Payment : payment[x].status # "none" =>
               payment'[x].of = payment[x].of /\ payment[x].of \in ProviderOrder
         /\ \A x \in Payment : Captured(x) => payment'[x].status = "captured"
         /\ \A o \in Order : PaymentsFor(o) \subseteq PaymentsFor(o)'
         /\ \A x \in Payment : payment[x].refunds \subseteq payment'[x].refunds
<1>1. \A p \in ProviderOrder : checkout[p] # None => checkout'[p] = checkout[p]
  <2>1. ASSUME NEW c \in Caller, NEW p \in ProviderOrder, ProviderCreates(c, p)
        PROVE  \A q \in ProviderOrder : checkout[q] # None => checkout'[q] = checkout[q]
    BY <2>1 DEF ProviderCreates, TypeOK
  <2>2. \/ \E c \in Caller, p \in ProviderOrder : ProviderCreates(c, p)
        \/ UNCHANGED checkout
    BY RazorpaySteps
  <2> QED BY <2>1, <2>2
<1> DEFINE Kept == \A x \in Payment :
             /\ payment[x].status # "none" => payment'[x].of = payment[x].of
             /\ payment[x].status = "captured" => payment'[x].status = "captured"
             /\ payment[x].refunds \subseteq payment'[x].refunds
<1>2. Kept
  <2>1. ASSUME NEW x \in Payment, NEW p \in ProviderOrder, Attempt(x, p) PROVE Kept
    BY <2>1 DEF Attempt, TypeOK
  <2>2. ASSUME NEW x \in Payment, Capture(x) PROVE Kept
    BY <2>2 DEF Capture, TypeOK
  <2>3. ASSUME NEW x \in Payment, NEW f \in Refund, RefundPayment(f, x) PROVE Kept
    BY <2>3 DEF RefundPayment, TypeOK
  <2>4. \/ \E x \in Payment :
              \/ \E p \in ProviderOrder : Attempt(x, p)
              \/ Capture(x)
              \/ \E f \in Refund : RefundPayment(f, x)
        \/ UNCHANGED payment
    BY RazorpaySteps
  <2> QED BY <2>1, <2>2, <2>3, <2>4
<1>3. \A x \in Payment : payment[x].status # "none" => payment[x].of \in shown
  BY DEF PaymentsLinked
<1>4. \A p \in shown : p \in ProviderOrder /\ checkout[p] # None
  BY DEF PaymentsLinked, TypeOK
<1>5. ASSUME NEW o \in Order PROVE PaymentsFor(o) \subseteq PaymentsFor(o)'
  <2> SUFFICES ASSUME NEW x \in PaymentsFor(o) PROVE x \in PaymentsFor(o)'
    OBVIOUS
  <2>1. x \in Payment /\ payment[x].status = "captured" /\ checkout[payment[x].of] = o
    BY DEF PaymentsFor, Captured
  <2>2. /\ payment'[x].status = "captured" /\ payment'[x].of = payment[x].of
        /\ checkout'[payment[x].of] = o
    BY <1>1, <1>2, <1>3, <1>4, <2>1
  <2> QED BY <2>1, <2>2 DEF PaymentsFor, Captured
<1> QED BY <1>1, <1>2, <1>3, <1>4, <1>5 DEF Captured

\* The row of an order o that belongs together with Razorpay's records.
LinkedRow(o, row) ==
    /\ row.provider_order # None => checkout[row.provider_order] = o
    /\ OwnPayment(o, row.payment)

\* What belongs together stays together.
LEMMA LinksStay ==
  ASSUME TypeOK, PaymentsLinked, [Next]_vars, NEW o \in Order, NEW row \in Row,
         LinkedRow(o, row)
  PROVE  /\ row.provider_order # None => checkout'[row.provider_order] = o
         /\ row.payment # None => row.payment \in PaymentsFor(o)'
<1>1. row.provider_order # None =>
        row.provider_order \in ProviderOrder /\ checkout[row.provider_order] # None
  BY DEF LinkedRow, Row
<1>2. row.provider_order # None => checkout'[row.provider_order] = o
  BY <1>1, PaymentsGrow DEF LinkedRow
<1>3. row.payment # None => row.payment \in PaymentsFor(o)'
  BY PaymentsGrow DEF LinkedRow, OwnPayment
<1> QED BY <1>2, <1>3

\* A step that writes such a row, or none, keeps the orders linked.
LEMMA WriteLinked ==
  ASSUME TypeOK, Linked, [Next]_vars,
         \/ UNCHANGED order
         \/ \E o \in Order, row \in Row :
               LinkedRow(o, row) /\ order' = [order EXCEPT ![o] = row]
  PROVE  OrdersLinked'
<1>1. \A o \in Order : order'[o] \in Row /\ LinkedRow(o, order'[o])
  BY DEF TypeOK, Linked, OrdersLinked, LinkedRow
<1>2. ASSUME NEW o \in Order, NEW row \in Row, LinkedRow(o, row)
      PROVE  /\ row.provider_order # None => checkout'[row.provider_order] = o
             /\ row.payment # None => row.payment \in PaymentsFor(o)'
  BY <1>2, LinksStay DEF Linked
<1>3. ASSUME NEW o \in Order
      PROVE  /\ order'[o].provider_order # None =>
                   checkout'[order'[o].provider_order] = o
             /\ order'[o].payment # None => order'[o].payment \in PaymentsFor(o)'
  BY <1>1, <1>2
<1> QED BY <1>3 DEF OrdersLinked, OwnPayment

\* A payment of the Razorpay order an order has, once captured, is its own.
LEMMA OwnCaptured ==
  ASSUME TypeOK, Linked, NEW o \in Order, NEW x \in Payment, Captured(x),
         order[o].provider_order = payment[x].of
  PROVE  x \in PaymentsFor(o)
<1>1. payment[x].of \in ProviderOrder
  BY DEF Linked, PaymentsLinked, Captured, TypeOK
<1>2. checkout[payment[x].of] = o
  BY <1>1 DEF Linked, OrdersLinked
<1> QED BY <1>2 DEF PaymentsFor

\* Orders stay linked.
LEMMA OrdersLinkedStep ==
  ASSUME TypeOK, Countable, Linked, [Next]_vars
  PROVE  OrdersLinked'
<1> DEFINE Written == \/ UNCHANGED order
                      \/ \E o \in Order, row \in Row :
                            LinkedRow(o, row) /\ order' = [order EXCEPT ![o] = row]
<1>1. ASSUME NEW c \in Caller, Creates(c) PROVE Written
  <2>1. ASSUME NEW o \in Order, BeginOrder(c, o) PROVE Written
    <3> DEFINE row == [order[o] EXCEPT !.status = IF @ = "none" THEN "creating" ELSE @]
    <3>1. /\ row \in Row /\ row.provider_order = order[o].provider_order
          /\ row.payment = order[o].payment
      BY DEF TypeOK, Row, Statuses
    <3>2. row.provider_order = None
      BY <2>1, <3>1 DEF BeginOrder
    <3>3. OwnPayment(o, row.payment)
      BY <3>1 DEF Linked, OrdersLinked
    <3>4. order' = [order EXCEPT ![o] = row] BY <2>1 DEF BeginOrder
    <3> HIDE DEF row
    <3> QED BY <3>1, <3>2, <3>3, <3>4 DEF LinkedRow
  <2>2. ASSUME FinishOrder(c) \/ FailOrder(c) PROVE Written
    <3> DEFINE o    == call[c].order
               seen == call[c].seen
               done == [seen EXCEPT !.provider_order = call[c].got, !.status = "created"]
               fail == [seen EXCEPT !.status = "failed"]
    <3>1. /\ o \in Order /\ seen \in Row /\ call[c].got \in ProviderOrder \cup {None}
          /\ order[o] \in Row
      BY <2>2 DEF FinishOrder, FailOrder, TypeOK
    <3>2. done \in Row /\ fail \in Row BY <3>1 DEF Row, Statuses
    <3>3. /\ done.payment = seen.payment /\ done.provider_order = call[c].got
          /\ fail.payment = seen.payment /\ fail.provider_order = seen.provider_order
      BY <3>1 DEF Row
    <3>4. \/ order' = [order EXCEPT ![o] = Flush(order[o], seen, done)]
             /\ call[c].got # None
          \/ order' = [order EXCEPT ![o] = Flush(order[o], seen, fail)]
      BY <2>2 DEF FinishOrder, FailOrder
    <3>5. call[c].got # None => checkout[call[c].got] = o
      BY <2>2 DEF FinishOrder, FailOrder, Linked, CallsLinked
    <3>6. LinkedRow(o, order[o]) BY <3>1 DEF Linked, OrdersLinked, LinkedRow
    <3> HIDE DEF o, seen, done, fail
    <3>7. ASSUME call[c].got # None PROVE LinkedRow(o, Flush(order[o], seen, done))
      <4> DEFINE row == Flush(order[o], seen, done)
      <4>1. /\ row.provider_order \in {call[c].got, order[o].provider_order}
            /\ row.payment = order[o].payment
        BY <3>1, <3>2, <3>3, FlushColumns
      <4> HIDE DEF row
      <4>2. LinkedRow(o, row) BY <3>5, <3>6, <3>7, <4>1 DEF LinkedRow
      <4> QED BY <4>2 DEF row
    <3>8. LinkedRow(o, Flush(order[o], seen, fail))
      <4> DEFINE row == Flush(order[o], seen, fail)
      <4>1. /\ row.provider_order = order[o].provider_order
            /\ row.payment = order[o].payment
        BY <3>1, <3>2, <3>3, FlushColumns
      <4> HIDE DEF row
      <4>2. LinkedRow(o, row) BY <3>6, <4>1 DEF LinkedRow
      <4> QED BY <4>2 DEF row
    <3>9. Flush(order[o], seen, done) \in Row /\ Flush(order[o], seen, fail) \in Row
      BY <3>1, <3>2, FlushType
    <3> QED BY <3>1, <3>4, <3>7, <3>8, <3>9
  <2>3. ASSUME (\E p \in ProviderOrder : ProviderCreates(c, p)) \/ CrashOrder(c)
        PROVE  Written
    BY <2>3 DEF ProviderCreates, CrashOrder
  <2> QED BY <1>1, <2>1, <2>2, <2>3 DEF Creates
<1>2. ASSUME Outside PROVE Written
  BY <1>2 DEF Outside, Attempt, Capture, RefundPayment, Reserve, Spend
<1>3. ASSUME NEW o \in Order, NEW x \in Payment, Credits(o, x) PROVE Written
  <2> DEFINE given == Fulfilled([order[o] EXCEPT !.payment = x])
             kept  == Fulfilled(order[o])
             tried == [order[o] EXCEPT !.status = "attempted"]
  <2>1. order[o] \in Row /\ LinkedRow(o, order[o])
    BY DEF TypeOK, Linked, OrdersLinked, LinkedRow
  <2>2. /\ given \in Row /\ kept \in Row /\ tried \in Row
        /\ given.provider_order = order[o].provider_order /\ given.payment = x
        /\ kept.provider_order = order[o].provider_order /\ kept.payment = order[o].payment
        /\ tried.provider_order = order[o].provider_order
        /\ tried.payment = order[o].payment
    BY <2>1 DEF Fulfilled, Row, Statuses
  <2>3. \/ order' = [order EXCEPT ![o] = given] /\ x \in PaymentsFor(o)
        \/ order' = [order EXCEPT ![o] = kept]
        \/ order' = [order EXCEPT ![o] = tried]
    BY <1>3, OwnCaptured DEF Credits, Verify, CapturedEvent
  <2> HIDE DEF given, kept, tried
  <2>4. LinkedRow(o, kept) /\ LinkedRow(o, tried) BY <2>1, <2>2 DEF LinkedRow
  <2>5. x \in PaymentsFor(o) => LinkedRow(o, given)
    BY <2>1, <2>2 DEF LinkedRow, OwnPayment
  <2> QED BY <2>2, <2>3, <2>4, <2>5
<1>4. ASSUME NEW o \in Order, NEW x \in Payment, NEW f \in Refund, RefundEvent(o, x, f)
      PROVE  Written
  <2>1. x \in PaymentsFor(o)
    <3>1. Captured(x) BY <1>4 DEF RefundEvent, Linked, PaymentsLinked
    <3>2. CASE order[o].payment = x
      <4>1. x # None BY DEF IdsAssumption
      <4> QED BY <3>2, <4>1 DEF Linked, OrdersLinked, OwnPayment
    <3>3. CASE order[o].payment # x
      BY <1>4, <3>1, <3>3, OwnCaptured DEF RefundEvent
    <3> QED BY <3>2, <3>3
  <2>2. LinkedRow(o, order[o]) BY DEF Linked, OrdersLinked, LinkedRow
  <2>3. LinkedRow(o, BaseRow(o, x)) /\ LinkedRow(o, EventRow(o, x, f))
    <3> DEFINE base == BaseRow(o, x)
               done == EventRow(o, x, f)
    <3>1. /\ base.provider_order = order[o].provider_order /\ base.payment = x
          /\ done.provider_order = order[o].provider_order /\ done.payment = x
      BY EventTypes
    <3> HIDE DEF base, done
    <3>2. LinkedRow(o, base) /\ LinkedRow(o, done)
      BY <2>1, <2>2, <3>1 DEF LinkedRow, OwnPayment
    <3> QED BY <3>2 DEF base, done
  <2>4. BaseRow(o, x) \in Row /\ EventRow(o, x, f) \in Row BY EventTypes
  <2> QED BY <1>4, <2>3, <2>4, EventParts
<1>5. ASSUME NEW o \in Order, Reconciles(o) PROVE Written
  <2>1. ASSUME ReconcileCommit(o) PROVE Written
    <3> DEFINE seen == recon[o].seen
               row  == Flush(order[o], seen, ReconRow(o))
    <3>1. recon[o] # Idle BY <2>1 DEF ReconcileCommit
    <3>2. /\ order[o] \in Row /\ seen \in Row /\ ReconRow(o) \in Row
          /\ ReconRow(o).provider_order = seen.provider_order
          /\ ReconRow(o).payment \in {seen.payment} \cup recon[o].pays
      BY <3>1, ReconTypes DEF TypeOK, Open
    <3>3. /\ row \in Row
          /\ row.provider_order = order[o].provider_order
          /\ row.payment \in {order[o].payment} \cup recon[o].pays
      <4> DEFINE new == ReconRow(o)
                 old == order[o]
      <4>1. /\ old \in Row /\ seen \in Row /\ new \in Row
            /\ new.provider_order = seen.provider_order
            /\ new.payment \in {seen.payment} \cup recon[o].pays
        BY <3>2
      <4> HIDE DEF new, old, seen
      <4>2. Flush(old, seen, new) \in Row BY <4>1, FlushType
      <4>3. /\ Flush(old, seen, new).provider_order = old.provider_order
            /\ Flush(old, seen, new).payment \in {old.payment} \cup recon[o].pays
        BY <4>1, FlushColumns
      <4> QED BY <4>2, <4>3 DEF new, old
    <3>4. recon[o].pays \subseteq PaymentsFor(o)
      BY <3>1 DEF Linked, ReconsLinked
    <3>5. LinkedRow(o, order[o]) BY DEF Linked, OrdersLinked, LinkedRow
    <3>6. order' = [order EXCEPT ![o] = row] BY <2>1, ReconParts
    <3> HIDE DEF row
    <3>7. LinkedRow(o, row) BY <3>3, <3>4, <3>5 DEF LinkedRow, OwnPayment
    <3> QED BY <3>3, <3>6, <3>7
  <2>2. ASSUME ReconcileLoad(o) \/ ReconcileRead(o) \/ ReconcileAbort(o) PROVE Written
    BY <2>2 DEF ReconcileLoad, ReconcileRead, ReconcileAbort
  <2> QED BY <1>5, <2>1, <2>2 DEF Reconciles
<1>6. ASSUME UNCHANGED vars PROVE Written BY <1>6 DEF vars
<1>7. Written
  <2> HIDE DEF Written
  <2> QED BY <1>1, <1>2, <1>3, <1>4, <1>5, <1>6, Steps
<1> QED BY <1>7, WriteLinked

\* Calls and Razorpay's records stay linked.
LEMMA CallsLinkedStep ==
  ASSUME TypeOK, Linked, [Next]_vars
  PROVE  CallsLinked' /\ PaymentsLinked'
<1>1. ASSUME NEW c \in Caller, call[c] # Idle, call[c].got # None
      PROVE  checkout'[call[c].got] = call[c].order
  <2>1. /\ call[c].got \in ProviderOrder /\ call[c].order \in Order
        /\ checkout[call[c].got] = call[c].order
    BY <1>1 DEF Linked, CallsLinked, TypeOK
  <2>2. checkout[call[c].got] # None BY <2>1 DEF IdsAssumption
  <2> QED BY <2>1, <2>2, PaymentsGrow DEF Linked
<1> DEFINE Goal == CallsLinked' /\ PaymentsLinked'
<1>2. ASSUME UNCHANGED <<call, checkout, payment, shown>> PROVE Goal
  BY <1>2 DEF Linked, CallsLinked, PaymentsLinked, Captured
<1>3. ASSUME NEW c \in Caller, Creates(c) PROVE Goal
  <2>1. ASSUME NEW o \in Order, BeginOrder(c, o) PROVE Goal
    <3>1. PICK row : call' = [call EXCEPT ![c] = [order |-> o, seen |-> row, got |-> None]]
      BY <2>1 DEF BeginOrder
    <3>2. CallsLinked'
      <4> SUFFICES ASSUME NEW d \in Caller, call'[d] # Idle, call'[d].got # None
                   PROVE  checkout'[call'[d].got] = call'[d].order
        BY DEF CallsLinked
      <4>1. d # c BY <3>1 DEF TypeOK
      <4>2. call'[d] = call[d] BY <3>1, <4>1 DEF TypeOK
      <4> QED BY <1>1, <4>2
    <3> QED BY <2>1, <3>2 DEF BeginOrder, Linked, PaymentsLinked, Captured
  <2>2. ASSUME NEW p \in ProviderOrder, ProviderCreates(c, p) PROVE Goal
    <3>1. CallsLinked'
      <4> SUFFICES ASSUME NEW d \in Caller, call'[d] # Idle, call'[d].got # None
                   PROVE  checkout'[call'[d].got] = call'[d].order
        BY DEF CallsLinked
      <4>1. CASE d = c
        <5>1. call[c] # Idle /\ checkout' = [checkout EXCEPT ![p] = call[c].order]
              /\ call' = [call EXCEPT ![c].got = p]
          BY <2>2 DEF ProviderCreates
        <5>2. call[c] \in [order: Order, seen: Row, got: ProviderOrder \cup {None}]
          BY <5>1 DEF TypeOK
        <5>3. call'[c].got = p /\ call'[c].order = call[c].order
          BY <5>1, <5>2 DEF TypeOK
        <5> QED BY <4>1, <5>1, <5>3 DEF TypeOK
      <4>2. CASE d # c
        <5>1. call'[d] = call[d] BY <2>2, <4>2 DEF ProviderCreates, TypeOK
        <5> QED BY <1>1, <5>1
      <4> QED BY <4>1, <4>2
    <3>2. \A q \in shown : q \in ProviderOrder /\ checkout[q] # None
      BY DEF Linked, PaymentsLinked, TypeOK
    <3>3. \A q \in shown : checkout'[q] # None BY <3>2, PaymentsGrow DEF Linked
    <3> QED BY <2>2, <3>1, <3>3 DEF ProviderCreates, Linked, PaymentsLinked, Captured
  <2>3. ASSUME FinishOrder(c) \/ FailOrder(c) \/ CrashOrder(c) PROVE Goal
    <3>1. /\ call' = [call EXCEPT ![c] = Idle] /\ call[c] # Idle
          /\ UNCHANGED <<checkout, payment>>
          /\ \/ shown' = shown
             \/ shown' = shown \cup {call[c].got} /\ call[c].got # None
      <4>1. CASE FinishOrder(c) BY <4>1 DEF FinishOrder
      <4>2. CASE FailOrder(c) BY <4>2 DEF FailOrder
      <4>3. CASE CrashOrder(c) BY <4>3 DEF CrashOrder
      <4> QED BY <2>3, <4>1, <4>2, <4>3
    <3>2. CallsLinked'
      <4> SUFFICES ASSUME NEW d \in Caller, call'[d] # Idle, call'[d].got # None
                   PROVE  checkout'[call'[d].got] = call'[d].order
        BY DEF CallsLinked
      <4>1. d # c BY <3>1 DEF TypeOK
      <4>2. call'[d] = call[d] BY <3>1, <4>1 DEF TypeOK
      <4> QED BY <1>1, <4>2
    <3>3. call[c].got # None => checkout[call[c].got] # None
      BY <3>1 DEF Linked, CallsLinked, TypeOK, IdsAssumption
    <3> QED BY <3>1, <3>2, <3>3 DEF Linked, PaymentsLinked, Captured
  <2> QED BY <1>3, <2>1, <2>2, <2>3 DEF Creates
<1>4. ASSUME Outside PROVE Goal
  <2>1. UNCHANGED <<call, checkout, shown>>
    BY <1>4 DEF Outside, Attempt, Capture, RefundPayment, Reserve, Spend
  <2>2. CallsLinked' BY <2>1 DEF Linked, CallsLinked
  <2>3. PaymentsLinked'
    <3> DEFINE Rows == \A x \in Payment :
                 /\ payment'[x].status # "none" => payment'[x].of \in shown
                 /\ payment'[x].refunds # {} => payment'[x].status = "captured"
    <3>1. \A x \in Payment :
             /\ payment[x].status # "none" => payment[x].of \in shown
             /\ payment[x].refunds # {} => payment[x].status = "captured"
      BY DEF Linked, PaymentsLinked, Captured
    <3>2. ASSUME NEW x \in Payment, NEW p \in ProviderOrder, Attempt(x, p) PROVE Rows
      BY <3>1, <3>2 DEF Attempt, TypeOK
    <3>3. ASSUME NEW x \in Payment, Capture(x) PROVE Rows
      BY <3>1, <3>3 DEF Capture, TypeOK
    <3>4. ASSUME NEW x \in Payment, NEW f \in Refund, RefundPayment(f, x) PROVE Rows
      BY <3>1, <3>4 DEF RefundPayment, Captured, TypeOK
    <3>5. ASSUME UNCHANGED payment PROVE Rows BY <3>1, <3>5
    <3>6. Rows BY <3>2, <3>3, <3>4, <3>5, RazorpaySteps
    <3> QED BY <2>1, <3>6 DEF Linked, PaymentsLinked, Captured
  <2> QED BY <2>2, <2>3
<1>5. ASSUME NEW o \in Order, NEW x \in Payment, Credits(o, x) PROVE Goal
  <2>1. UNCHANGED <<call, checkout, payment, shown>>
    BY <1>5 DEF Credits, Verify, CapturedEvent
  <2> QED BY <1>2, <2>1
<1>6. ASSUME NEW o \in Order, NEW x \in Payment, NEW f \in Refund, RefundEvent(o, x, f)
      PROVE  Goal
  <2>1. UNCHANGED <<call, checkout, payment, shown>> BY <1>6 DEF RefundEvent
  <2> QED BY <1>2, <2>1
<1>7. ASSUME NEW o \in Order, Reconciles(o) PROVE Goal
  <2>1. UNCHANGED <<call, checkout, payment, shown>>
    BY <1>7 DEF Reconciles, ReconcileLoad, ReconcileRead, ReconcileCommit, ReconcileAbort
  <2> QED BY <1>2, <2>1
<1>8. ASSUME UNCHANGED vars PROVE Goal
  <2>1. UNCHANGED <<call, checkout, payment, shown>> BY <1>8 DEF vars
  <2> QED BY <1>2, <2>1
<1> HIDE DEF Goal
<1>9. Goal BY <1>3, <1>4, <1>5, <1>6, <1>7, <1>8, Steps
<1> QED BY <1>9 DEF Goal

\* Reconciliations know only their own order's payments.
LEMMA ReconsLinkedStep ==
  ASSUME TypeOK, Countable, Linked, [Next]_vars
  PROVE  ReconsLinked'
<1> DEFINE Own(o, r) == /\ r.seen.provider_order # None =>
                              checkout'[r.seen.provider_order] = o
                        /\ r.seen.payment # None => r.seen.payment \in PaymentsFor(o)'
                        /\ r.pays \subseteq PaymentsFor(o)'
<1>1. ASSUME NEW o \in Order, recon[o] # Idle PROVE Own(o, recon[o])
  <2>1. recon[o].seen \in Row /\ LinkedRow(o, recon[o].seen)
    BY <1>1 DEF TypeOK, Open, Linked, ReconsLinked, LinkedRow
  <2>2. recon[o].pays \subseteq PaymentsFor(o)' BY <1>1, PaymentsGrow DEF Linked, ReconsLinked
  <2> QED BY <2>1, <2>2, LinksStay DEF Linked
<1>2. ASSUME \A o \in Order : recon'[o] # Idle => Own(o, recon'[o]) PROVE ReconsLinked'
  BY <1>2 DEF ReconsLinked, OwnPayment
<1>3. ASSUME UNCHANGED recon PROVE ReconsLinked' BY <1>1, <1>2, <1>3
<1>4. ASSUME NEW o \in Order, Reconciles(o) PROVE ReconsLinked'
  <2>1. ASSUME ReconcileLoad(o) PROVE Own(o, recon'[o])
    <3>1. order[o] \in Row /\ LinkedRow(o, order[o])
      BY DEF TypeOK, Linked, OrdersLinked, LinkedRow
    <3>2. recon'[o].seen = order[o] /\ recon'[o].pays = {}
      BY <2>1 DEF ReconcileLoad, TypeOK
    <3> QED BY <3>1, <3>2, LinksStay DEF Linked
  <2>2. ASSUME ReconcileRead(o) PROVE Own(o, recon'[o])
    <3> DEFINE seen == recon[o].seen
               due  == /\ seen.status \in {"created", "attempted", "captured"}
                       /\ seen.provider_order # None
               pays == IF due THEN { x \in PaymentsOf(seen.provider_order) : Captured(x) }
                       ELSE {}
    <3>1. recon[o] \in Open BY <2>2 DEF ReconcileRead, TypeOK
    <3>2. recon'[o].pays = pays /\ recon'[o].seen = seen
      BY <2>2, <3>1 DEF ReconcileRead, TypeOK, Open
    <3>3. due => checkout[seen.provider_order] = o
      BY <2>2 DEF ReconcileRead, Linked, ReconsLinked
    <3>4. pays \subseteq PaymentsFor(o) BY <3>3 DEF PaymentsOf, PaymentsFor
    <3> HIDE DEF pays
    <3>5. pays \subseteq PaymentsFor(o)' BY <3>4, PaymentsGrow DEF Linked
    <3>6. recon[o] # Idle BY <2>2 DEF ReconcileRead
    <3> QED BY <1>1, <3>2, <3>5, <3>6
  <2>3. ASSUME ReconcileCommit(o) \/ ReconcileAbort(o) PROVE recon'[o] = Idle
    BY <2>3 DEF ReconcileCommit, ReconcileAbort, TypeOK
  <2>4. \A p \in Order \ {o} : recon'[p] = recon[p]
    BY <1>4 DEF Reconciles, ReconcileLoad, ReconcileRead, ReconcileCommit,
       ReconcileAbort, TypeOK
  <2>5. recon'[o] # Idle => Own(o, recon'[o])
    BY <1>4, <2>1, <2>2, <2>3 DEF Reconciles
  <2>6. \A p \in Order : recon'[p] # Idle => Own(p, recon'[p])
    <3> HIDE DEF Own
    <3> QED BY <1>1, <2>4, <2>5
  <2> QED BY <1>2, <2>6
<1>5. ASSUME NEW c \in Caller, Creates(c) PROVE UNCHANGED recon
  BY <1>5 DEF Creates, BeginOrder, ProviderCreates, FinishOrder, FailOrder, CrashOrder
<1>6. ASSUME Outside PROVE UNCHANGED recon
  BY <1>6 DEF Outside, Attempt, Capture, RefundPayment, Reserve, Spend
<1>7. ASSUME NEW o \in Order, NEW x \in Payment, Credits(o, x) PROVE UNCHANGED recon
  BY <1>7 DEF Credits, Verify, CapturedEvent
<1>8. ASSUME NEW o \in Order, NEW x \in Payment, NEW f \in Refund, RefundEvent(o, x, f)
      PROVE  UNCHANGED recon
  BY <1>8 DEF RefundEvent
<1>9. ASSUME UNCHANGED vars PROVE UNCHANGED recon BY <1>9 DEF vars
<1> QED BY <1>3, <1>4, <1>5, <1>6, <1>7, <1>8, <1>9, Steps

-----------------------------------------------------------------------------
(* Credits are for captured money.                                         *)

\* A step credits an order whose captured payment it has found.
LEMMA CreditsStep ==
  ASSUME TypeOK, Countable, Linked, [Next]_vars
  PROVE  \A o \in credits' \ credits : PaymentsFor(o) # {}
<1> DEFINE Goal == \A o \in credits' \ credits : PaymentsFor(o) # {}
<1>1. ASSUME NEW c \in Caller, Creates(c) PROVE Goal
  <2>1. UNCHANGED credits
    BY <1>1 DEF Creates, BeginOrder, ProviderCreates, FinishOrder, FailOrder, CrashOrder
  <2> QED BY <2>1
<1>2. ASSUME Outside PROVE Goal
  <2>1. UNCHANGED credits
    BY <1>2 DEF Outside, Attempt, Capture, RefundPayment, Reserve, Spend
  <2> QED BY <2>1
<1>3. ASSUME NEW o \in Order, NEW x \in Payment, Credits(o, x) PROVE Goal
  <2>1. \/ UNCHANGED credits
        \/ /\ credits' = credits \cup {o}
           /\ Captured(x) /\ order[o].provider_order = payment[x].of
    BY <1>3 DEF Credits, Verify, CapturedEvent
  <2> QED BY <2>1, OwnCaptured
<1>4. ASSUME NEW o \in Order, NEW x \in Payment, NEW f \in Refund, RefundEvent(o, x, f)
      PROVE  Goal
  <2>1. Captured(x) BY <1>4 DEF RefundEvent, Linked, PaymentsLinked
  <2>2. \/ credits' = credits
        \/ credits' = credits \cup {o} /\ order[o].payment # x
    BY <1>4, EventParts
  <2>3. order[o].payment # x => order[o].provider_order = payment[x].of
    BY <1>4 DEF RefundEvent
  <2> QED BY <2>1, <2>2, <2>3, OwnCaptured
<1>5. ASSUME NEW o \in Order, Reconciles(o) PROVE Goal
  <2>1. ASSUME ReconcileCommit(o) PROVE Goal
    <3>1. recon[o] # Idle /\ credits' = IF Pays(o) THEN credits \cup {o} ELSE credits
      BY <2>1, ReconParts
    <3>2. Pays(o) => recon[o].pays # {} BY <3>1, ReconTypes
    <3>3. recon[o].pays \subseteq PaymentsFor(o) BY <3>1 DEF Linked, ReconsLinked
    <3> QED BY <3>1, <3>2, <3>3
  <2>2. ASSUME ReconcileLoad(o) \/ ReconcileRead(o) \/ ReconcileAbort(o) PROVE Goal
    <3>1. UNCHANGED credits
      BY <2>2 DEF ReconcileLoad, ReconcileRead, ReconcileAbort
    <3> QED BY <3>1
  <2> QED BY <1>5, <2>1, <2>2 DEF Reconciles
<1>6. ASSUME UNCHANGED vars PROVE Goal BY <1>6 DEF vars
<1> HIDE DEF Goal
<1>7. Goal BY <1>1, <1>2, <1>3, <1>4, <1>5, <1>6, Steps
<1> QED BY <1>7 DEF Goal

\* The inductive invariant holds at first.
LEMMA InvInit == Init => IInv
<1> SUFFICES ASSUME Init PROVE IInv OBVIOUS
<1>1. TypeOK /\ Countable BY TypesInit
<1>2. Linked
  BY DEF Init, Linked, OrdersLinked, CallsLinked, ReconsLinked, PaymentsLinked,
     OwnPayment, NoRow
<1>3. CreditsAreCaptured BY DEF Init, CreditsAreCaptured
<1> QED BY <1>1, <1>2, <1>3 DEF IInv

\* Every step keeps it.
LEMMA InvStep == IInv /\ [Next]_vars => IInv'
<1> SUFFICES ASSUME IInv, [Next]_vars PROVE IInv' OBVIOUS
<1> USE DEF IInv
<1>1. TypeOK' /\ Countable' BY TypesStep
<1>2. Linked'
  BY OrdersLinkedStep, CallsLinkedStep, ReconsLinkedStep DEF Linked
<1>3. CreditsAreCaptured'
  <2> SUFFICES ASSUME NEW o \in credits' PROVE PaymentsFor(o)' # {}
    BY DEF CreditsAreCaptured
  <2>1. o \in Order BY <1>1 DEF TypeOK
  <2>2. PaymentsFor(o) # {} BY CreditsStep DEF CreditsAreCaptured
  <2>3. PaymentsFor(o) \subseteq PaymentsFor(o)' BY <2>1, PaymentsGrow DEF Linked
  <2> QED BY <2>2, <2>3
<1> QED BY <1>1, <1>2, <1>3

\* An order is credited only for money that Razorpay captured for that order:
\* whatever verifications, events and reconciliations race, and however many
\* Razorpay orders a repeated create_order has made for it.
THEOREM CapturedFirst == Spec => []CreditsAreCaptured
<1>1. IInv => CreditsAreCaptured BY DEF IInv
<1> QED BY <1>1, InvInit, InvStep, PTL DEF Spec

-----------------------------------------------------------------------------
(* The ledger explains the balance.                                        *)

\* What one row more adds to the sum of ledger rows.
LEMMA RowSum ==
  ASSUME NEW S, IsFiniteSet(S), \A k \in S : k[3] \in Nat,
         NEW row, row \notin S, row[3] \in Nat
  PROVE  /\ Total(S, [k \in S |-> k[3]]) \in Nat
         /\ Total(S \cup {row}, [k \in S \cup {row} |-> k[3]])
              = Total(S, [k \in S |-> k[3]]) + row[3]
<1> DEFINE f == [k \in S |-> k[3]]
           g == [k \in S \cup {row} |-> k[3]]
<1>1. /\ \A k \in S : f[k] \in Nat
      /\ g[row] = row[3]
      /\ \A k \in S : g[k] = f[k]
  OBVIOUS
<1> HIDE DEF f, g
<1>2. g[row] \in Nat BY <1>1
<1>3. Total(S, f) \in Nat BY <1>1, TotalType
<1>4. Total(S \cup {row}, g) = Total(S, f) + g[row]
  <2>1. ASSUME NEW more, more = S \cup {row} PROVE Total(more, g) = Total(S, f) + g[row]
    <3>1. IsFiniteSet(more) /\ {row} \subseteq more /\ more \ {row} = S
      BY <2>1, FS_AddElement
    <3>2. \A k \in more : g[k] \in Nat BY <1>1, <1>2, <2>1
    <3>3. Total(more, g) = Total({row}, g) + Total(more \ {row}, g)
      BY <3>1, <3>2, TotalSplit
    <3>4. Total({row}, g) = g[row] BY <1>2, TotalOne
    <3>5. Total(S, g) = Total(S, f) BY <1>1, TotalSame
    <3>6. Total(more, g) = g[row] + Total(S, f) BY <3>1, <3>3, <3>4, <3>5
    <3> QED BY <1>2, <1>3, <3>6
  <2> QED BY <2>1
<1>5. Total(S \cup {row}, g) = Total(S, f) + row[3] BY <1>1, <1>4
<1> QED BY <1>3, <1>5 DEF f, g

\* What one row more adds to what was taken back of its order.
LEMMA RowAdded ==
  ASSUME TypeOK, Countable, NEW o \in Order, NEW already \in Nat, NEW delta \in Nat,
         reversals' = reversals \cup ReversalRow(o, already, delta)
  PROVE  /\ \A p \in Order \ {o} : Reversed(p)' = Reversed(p)
         /\ Reversed(o)' \in {Reversed(o), Reversed(o) + delta}
         /\ <<o, already, delta>> \notin reversals => Reversed(o)' = Reversed(o) + delta
<1> DEFINE row == <<o, already, delta>>
<1>1. ASSUME NEW p \in Order \ {o} PROVE Reversed(p)' = Reversed(p)
  <2>1. ReversalRows(p)' = ReversalRows(p) BY DEF ReversalRows, ReversalRow
  <2> QED BY <2>1 DEF Reversed
<1>2. CASE delta = 0 \/ row \in reversals
  <2>1. reversals' = reversals BY <1>2 DEF ReversalRow
  <2>2. Reversed(o)' = Reversed(o) BY <2>1 DEF Reversed, ReversalRows
  <2>3. Reversed(o) \in Nat BY ReversedType
  <2>4. row \notin reversals => delta = 0 BY <1>2
  <2> QED BY <1>1, <2>2, <2>3, <2>4
<1>3. CASE delta # 0 /\ row \notin reversals
  <2> DEFINE S == ReversalRows(o)
  <2>1. ReversalRows(o)' = S \cup {row} BY <1>3 DEF ReversalRows, ReversalRow
  <2>2. IsFiniteSet(S) /\ (\A k \in S : k[3] \in Nat) BY ReversedType
  <2>3. row \notin S /\ row[3] = delta BY <1>3 DEF ReversalRows
  <2>4. Reversed(o)' = Total(S \cup {row}, [k \in S \cup {row} |-> k[3]])
    BY <2>1 DEF Reversed
  <2>5. Reversed(o) = Total(S, [k \in S |-> k[3]]) BY DEF Reversed
  <2> HIDE DEF S, row
  <2>6. Reversed(o)' = Reversed(o) + delta
    <3>1. Total(S \cup {row}, [k \in S \cup {row} |-> k[3]])
             = Total(S, [k \in S |-> k[3]]) + row[3]
      BY <2>2, <2>3, RowSum
    <3> QED BY <2>3, <2>4, <2>5, <3>1
  <2>7. Reversed(o) \in Nat BY ReversedType
  <2> QED BY <1>1, <2>6, <2>7
<1> QED BY <1>2, <1>3

\* The same of the sum over all rows.
LEMMA RowsAdded ==
  ASSUME TypeOK, Countable, NEW o \in Order, NEW already \in Nat, NEW delta \in Nat,
         <<o, already, delta>> \notin reversals \/ delta = 0,
         reversals' = reversals \cup ReversalRow(o, already, delta)
  PROVE  /\ Total(reversals, [k \in reversals |-> k[3]]) \in Nat
         /\ Total(reversals', [k \in reversals' |-> k[3]])
              = Total(reversals, [k \in reversals |-> k[3]]) + delta
<1> DEFINE row == <<o, already, delta>>
           sum == Total(reversals, [k \in reversals |-> k[3]])
<1>1. IsFiniteSet(reversals) /\ (\A k \in reversals : k[3] \in Nat)
  BY DEF Countable, TypeOK
<1>2. sum \in Nat
  <2> DEFINE f == [k \in reversals |-> k[3]]
  <2>1. \A k \in reversals : f[k] \in Nat BY <1>1
  <2> HIDE DEF f
  <2>2. Total(reversals, f) \in Nat BY <1>1, <2>1, TotalType
  <2> QED BY <2>2 DEF f
<1>3. CASE delta = 0
  <2>1. reversals' = reversals BY <1>3 DEF ReversalRow
  <2> QED BY <1>2, <1>3, <2>1
<1>4. CASE delta # 0
  <2>1. /\ reversals' = reversals \cup {row} /\ row \notin reversals
        /\ row[3] = delta
    BY <1>4 DEF ReversalRow
  <2> HIDE DEF row
  <2>2. Total(reversals \cup {row}, [k \in reversals \cup {row} |-> k[3]])
          = sum + row[3]
    BY <1>1, <2>1, RowSum
  <2> QED BY <1>2, <2>1, <2>2
<1> QED BY <1>3, <1>4

\* A step that gives the credit an order has not had, and takes back delta
\* with a row of its own, is explained by its rows.
LEMMA LedgerMoves ==
  ASSUME TypeOK, TypeOK', Countable, RowsStack, LedgerExplainsBalance,
         NEW o \in Order, NEW delta \in Nat, NEW given \in {0, Credit},
         reversals' = reversals \cup ReversalRow(o, Reversed(o), delta),
         \/ given = 0 /\ credits' = credits
         \/ o \in credits /\ given = 0 /\ credits' = credits \cup {o}
         \/ o \notin credits /\ given = Credit /\ credits' = credits \cup {o},
         wallet'.balance = wallet.balance + given - delta,
         spent' = spent
  PROVE  RowsStack' /\ LedgerExplainsBalance'
<1> DEFINE row == <<o, Reversed(o), delta>>
           sum == Total(reversals, [k \in reversals |-> k[3]])
<1>1. Reversed(o) \in Nat BY ReversedType
<1>2. row \notin reversals \/ delta = 0
  <2> SUFFICES ASSUME row \in reversals PROVE FALSE OBVIOUS
  <2>1. row[3] # 0 /\ row[2] + row[3] <= Reversed(row[1]) BY DEF RowsStack
  <2>2. delta # 0 /\ Reversed(o) + delta <= Reversed(o) BY <2>1
  <2> QED BY <1>1, <2>2
<1>3. /\ \A p \in Order \ {o} : Reversed(p)' = Reversed(p)
      /\ Reversed(o)' = Reversed(o) + delta
  <2>1. /\ \A p \in Order \ {o} : Reversed(p)' = Reversed(p)
        /\ row \notin reversals => Reversed(o)' = Reversed(o) + delta
    BY <1>1, RowAdded
  <2>2. CASE row \notin reversals BY <2>1, <2>2
  <2>3. CASE delta = 0
    <3>1. reversals' = reversals BY <2>3 DEF ReversalRow
    <3>2. Reversed(o)' = Reversed(o) BY <3>1 DEF Reversed, ReversalRows
    <3> QED BY <1>1, <2>1, <2>3, <3>2
  <2> QED BY <1>2, <2>2, <2>3
<1>4. RowsStack'
  <2> SUFFICES ASSUME NEW k \in reversals'
               PROVE  k[3] # 0 /\ k[2] + k[3] <= Reversed(k[1])'
    BY DEF RowsStack
  <2>1. CASE k \in reversals
    <3>1. k \in Order \X Nat \X Nat BY <2>1 DEF TypeOK
    <3>2. k[3] # 0 /\ k[2] + k[3] <= Reversed(k[1]) BY <2>1 DEF RowsStack
    <3>3. k[1] \in Order /\ k[2] \in Nat /\ k[3] \in Nat BY <3>1
    <3>4. Reversed(k[1]) \in Nat BY ReversedType
    <3>5. Reversed(k[1])' = Reversed(k[1]) \/ Reversed(k[1])' = Reversed(k[1]) + delta
      BY <1>3, <3>3
    <3> QED BY <3>2, <3>3, <3>4, <3>5
  <2>2. CASE k \notin reversals
    <3>1. k = row /\ delta # 0 BY <2>2 DEF ReversalRow
    <3>2. k[1] = o /\ k[2] = Reversed(o) /\ k[3] = delta BY <3>1
    <3> QED BY <1>1, <1>3, <3>1, <3>2
  <2> QED BY <2>1, <2>2
<1>5. sum \in Nat /\ Total(reversals', [k \in reversals' |-> k[3]]) = sum + delta
  BY <1>1, <1>2, RowsAdded
<1>6. credits \subseteq Order /\ IsFiniteSet(credits)
  BY FS_Subset DEF TypeOK, IdsAssumption
<1>7. Cardinality(credits) \in Nat BY <1>6, FS_CardinalityType
<1>8. Credit * Cardinality(credits') = Credit * Cardinality(credits) + given
  <2>1. CASE credits' = credits /\ given = 0 BY <1>7, <2>1
  <2>2. CASE o \in credits /\ credits' = credits \cup {o} /\ given = 0
    <3>1. credits' = credits BY <2>2
    <3>2. Credit * Cardinality(credits) \in Nat BY <1>7
    <3>3. Credit * Cardinality(credits') = Credit * Cardinality(credits) /\ given = 0
      BY <2>2, <3>1
    <3> QED BY <3>2, <3>3
  <2>3. CASE o \notin credits /\ credits' = credits \cup {o} /\ given = Credit
    <3>1. Cardinality(credits') = Cardinality(credits) + 1
      BY <1>6, <2>3, FS_AddElement
    <3>2. Credit * (Cardinality(credits) + 1) = Credit * Cardinality(credits) + Credit
      BY <1>7
    <3> QED BY <2>3, <3>1, <3>2
  <2> QED BY <2>1, <2>2, <2>3
<1>9. wallet.balance + spent + sum = Credit * Cardinality(credits)
  BY DEF LedgerExplainsBalance
<1>10. wallet.balance \in Nat /\ spent \in Nat /\ given \in Nat
  BY DEF TypeOK
<1> HIDE DEF sum
<1>11. wallet'.balance + spent + (sum + delta) = Credit * Cardinality(credits) + given
  <2>1. Credit * Cardinality(credits) \in Nat BY <1>7
  <2> QED BY <1>5, <1>9, <1>10, <2>1
<1>12. LedgerExplainsBalance' BY <1>5, <1>8, <1>11 DEF LedgerExplainsBalance
<1> QED BY <1>4, <1>12

\* A step that leaves the money alone leaves it explained.
LEMMA LedgerRests ==
  ASSUME RowsStack, LedgerExplainsBalance,
         UNCHANGED <<reversals, credits, wallet, spent>>
  PROVE  RowsStack' /\ LedgerExplainsBalance'
<1>1. \A p : Reversed(p)' = Reversed(p) BY DEF Reversed, ReversalRows
<1> QED BY <1>1 DEF RowsStack, LedgerExplainsBalance

\* What reconciliations have looked up stays so while only order o changes,
\* and o is not being reconciled afterwards.
LEMMA LooksRest ==
  ASSUME TypeOK, LooksFresh, NEW o \in Order, recon'[o] = Idle,
         \A p \in Order \ {o} : /\ recon'[p] = recon[p]
                                /\ (p \in credits') = (p \in credits)
                                /\ Reversed(p)' = Reversed(p)
  PROVE  LooksFresh'
BY DEF LooksFresh

\* The same of a step that touches neither credits nor rows of the ledger.
LEMMA LooksSame ==
  ASSUME LooksFresh, UNCHANGED <<recon, credits, reversals>>
  PROVE  LooksFresh'
<1>1. \A p : Reversed(p)' = Reversed(p) BY DEF Reversed, ReversalRows
<1> QED BY <1>1 DEF LooksFresh

\* A credit moves the balance by the credit, once.
LEMMA CreditedMoves ==
  ASSUME TypeOK, NEW o \in Order
  PROVE  \E given \in {0, Credit} :
            /\ Credited(o, wallet.balance) = wallet.balance + given
            /\ given = IF o \in credits THEN 0 ELSE Credit
<1>1. wallet.balance \in Nat BY DEF TypeOK
<1> QED BY <1>1 DEF Credited

\* Every step is explained by its rows.
LEMMA MoneyStep ==
  ASSUME IInv, MoneyInv, [Next]_vars, ~Overlap
  PROVE  MoneyInv'
<1> USE DEF IInv
<1>t. TypeOK' BY TypesStep
<1>r. RowsStack /\ LooksFresh /\ LedgerExplainsBalance BY DEF MoneyInv
<1>b. wallet.balance \in Nat /\ wallet.reserved \in Nat BY DEF TypeOK
<1> DEFINE Goal == RowsStack' /\ LooksFresh' /\ LedgerExplainsBalance'
<1>1. ASSUME UNCHANGED <<reversals, credits, wallet, spent, recon>> PROVE Goal
  <2>1. RowsStack' /\ LedgerExplainsBalance' BY <1>1, <1>r, LedgerRests
  <2>2. LooksFresh' BY <1>1, <1>r, LooksSame
  <2> QED BY <2>1, <2>2
<1>2. ASSUME NEW c \in Caller, Creates(c) PROVE Goal
  <2>1. UNCHANGED <<reversals, credits, wallet, spent, recon>>
    BY <1>2 DEF Creates, BeginOrder, ProviderCreates, FinishOrder, FailOrder, CrashOrder
  <2> QED BY <1>1, <2>1
<1>3. ASSUME Outside PROVE Goal
  <2>1. ASSUME NEW n \in Uses, Spend(n) PROVE Goal
    <3>1. /\ n \in Nat /\ n <= wallet.balance /\ wallet'.balance = wallet.balance - n
          /\ spent' = spent + n /\ UNCHANGED <<credits, reversals, recon>>
      BY <2>1 DEF Spend, AmountsAssumption
    <3>2. LooksFresh' BY <1>r, <3>1, LooksSame
    <3>3. \A p : Reversed(p)' = Reversed(p) BY <3>1 DEF Reversed, ReversalRows
    <3>4. RowsStack' BY <1>r, <3>1, <3>3 DEF RowsStack
    <3>5. spent \in Nat BY DEF TypeOK
    <3>6. wallet'.balance + spent' = wallet.balance + spent BY <1>b, <3>1, <3>5
    <3>7. LedgerExplainsBalance' BY <1>r, <3>1, <3>6 DEF LedgerExplainsBalance
    <3> QED BY <3>2, <3>4, <3>7
  <2>2. ASSUME NEW n \in Uses, Reserve(n) PROVE Goal
    <3>1. /\ wallet'.balance = wallet.balance
          /\ UNCHANGED <<credits, reversals, recon, spent>>
      BY <2>2 DEF Reserve, TypeOK
    <3>2. LooksFresh' BY <1>r, <3>1, LooksSame
    <3>3. \A p : Reversed(p)' = Reversed(p) BY <3>1 DEF Reversed, ReversalRows
    <3>4. RowsStack' BY <1>r, <3>1, <3>3 DEF RowsStack
    <3>5. LedgerExplainsBalance' BY <1>r, <3>1 DEF LedgerExplainsBalance
    <3> QED BY <3>2, <3>4, <3>5
  <2>3. ASSUME \E x \in Payment :
                  \/ \E p \in ProviderOrder : Attempt(x, p)
                  \/ Capture(x)
                  \/ \E f \in Refund : RefundPayment(f, x)
        PROVE  Goal
    <3>1. UNCHANGED <<reversals, credits, wallet, spent, recon>>
      BY <2>3 DEF Attempt, Capture, RefundPayment
    <3> QED BY <1>1, <3>1
  <2> QED BY <1>3, <2>1, <2>2, <2>3 DEF Outside
<1>4. ASSUME NEW o \in Order, NEW x \in Payment, Credits(o, x) PROVE Goal
  <2>1. /\ recon[o] = Idle /\ UNCHANGED <<recon, reversals, spent>>
        /\ \/ UNCHANGED <<wallet, credits>>
           \/ /\ wallet' = [wallet EXCEPT !.balance = Credited(o, @)]
              /\ credits' = credits \cup {o}
    BY <1>4 DEF Credits, Verify, CapturedEvent, Unlocked
  <2>2. CASE UNCHANGED <<wallet, credits>> BY <1>1, <2>1, <2>2
  <2>3. CASE /\ wallet' = [wallet EXCEPT !.balance = Credited(o, @)]
             /\ credits' = credits \cup {o}
    <3>1. PICK given \in {0, Credit} :
            /\ Credited(o, wallet.balance) = wallet.balance + given
            /\ given = IF o \in credits THEN 0 ELSE Credit
      BY CreditedMoves
    <3>2. wallet'.balance = wallet.balance + given - 0
      BY <1>b, <2>3, <3>1 DEF TypeOK
    <3>3. reversals' = reversals \cup ReversalRow(o, Reversed(o), 0)
      BY <2>1 DEF ReversalRow
    <3>4. \/ o \in credits /\ given = 0 /\ credits' = credits \cup {o}
          \/ o \notin credits /\ given = Credit /\ credits' = credits \cup {o}
      BY <2>3, <3>1
    <3>5. RowsStack' /\ LedgerExplainsBalance'
      BY <1>t, <1>r, <2>1, <3>2, <3>3, <3>4, LedgerMoves
    <3>6. \A p : Reversed(p)' = Reversed(p) BY <2>1 DEF Reversed, ReversalRows
    <3>7. LooksFresh' BY <1>r, <2>1, <2>3, <3>6, LooksRest
    <3> QED BY <3>5, <3>7
  <2> QED BY <2>1, <2>2, <2>3
<1>5. ASSUME NEW o \in Order, NEW x \in Payment, NEW f \in Refund, RefundEvent(o, x, f)
      PROVE  Goal
  <2>1. recon[o] = Idle /\ UNCHANGED <<recon, spent>>
    BY <1>5 DEF RefundEvent, Unlocked
  <2>2. PICK given \in {0, Credit} :
          /\ BaseBalance(o, x) = wallet.balance + given
          /\ \/ given = 0 /\ credits' = credits
             \/ o \in credits /\ given = 0 /\ credits' = credits \cup {o}
             \/ o \notin credits /\ given = Credit /\ credits' = credits \cup {o}
    <3>1. credits' = IF order[o].payment = x THEN credits ELSE credits \cup {o}
      BY <1>5, EventParts
    <3>2. PICK given \in {0, Credit} :
            /\ Credited(o, wallet.balance) = wallet.balance + given
            /\ given = IF o \in credits THEN 0 ELSE Credit
      BY CreditedMoves
    <3>3. CASE order[o].payment = x
      <4>1. BaseBalance(o, x) = wallet.balance + 0 BY <1>b, <3>3 DEF BaseBalance
      <4> QED BY <3>1, <3>3, <4>1
    <3>4. CASE order[o].payment # x BY <3>1, <3>2, <3>4 DEF BaseBalance
    <3> QED BY <3>3, <3>4
  <2>3. PICK delta \in Nat :
          /\ reversals' = reversals \cup ReversalRow(o, Reversed(o), delta)
          /\ wallet'.balance = BaseBalance(o, x) - delta
    <3>1. EventTakes(o, x) \in Nat /\ BaseBalance(o, x) \in Nat BY EventTypes
    <3>2. CASE wallet' = [wallet EXCEPT !.balance = BaseBalance(o, x)]
               /\ reversals' = reversals
      <4>1. wallet'.balance = BaseBalance(o, x) - 0 BY <3>1, <3>2 DEF TypeOK
      <4>2. reversals' = reversals \cup ReversalRow(o, Reversed(o), 0)
        BY <3>2 DEF ReversalRow
      <4> QED BY <4>1, <4>2
    <3>3. CASE /\ wallet' = [wallet EXCEPT !.balance =
                                BaseBalance(o, x) - EventTakes(o, x)]
               /\ reversals' = reversals \cup
                                  ReversalRow(o, Reversed(o), EventTakes(o, x))
      <4>1. wallet'.balance = BaseBalance(o, x) - EventTakes(o, x)
        BY <3>3 DEF TypeOK
      <4> QED BY <3>1, <3>3, <4>1
    <3> QED BY <1>5, <3>2, <3>3, EventParts
  <2>4. wallet'.balance = wallet.balance + given - delta BY <1>b, <2>2, <2>3
  <2>5. RowsStack' /\ LedgerExplainsBalance'
    BY <1>t, <1>r, <2>1, <2>2, <2>3, <2>4, LedgerMoves
  <2>6. \A p \in Order \ {o} : Reversed(p)' = Reversed(p)
    <3>1. Reversed(o) \in Nat BY ReversedType
    <3> QED BY <2>3, <3>1, RowAdded
  <2>7. LooksFresh' BY <1>r, <2>1, <2>2, <2>6, LooksRest
  <2> QED BY <2>5, <2>7
<1>6. ASSUME NEW o \in Order, Reconciles(o) PROVE Goal
  <2>1. ASSUME ReconcileLoad(o) \/ ReconcileAbort(o) PROVE Goal
    <3>1. UNCHANGED <<reversals, credits, wallet, spent>>
      BY <2>1 DEF ReconcileLoad, ReconcileAbort
    <3>2. \A p \in Order : \/ recon'[p] = recon[p] \/ recon'[p] = Idle
                           \/ recon'[p].step = "loaded"
      BY <2>1 DEF ReconcileLoad, ReconcileAbort, TypeOK
    <3>3. \A p : Reversed(p)' = Reversed(p) BY <3>1 DEF Reversed, ReversalRows
    <3>4. LooksFresh' BY <1>r, <3>1, <3>2, <3>3 DEF LooksFresh
    <3>5. RowsStack' /\ LedgerExplainsBalance' BY <1>r, <3>1, LedgerRests
    <3> QED BY <3>4, <3>5
  <2>2. ASSUME ReconcileRead(o) PROVE Goal
    <3>1. UNCHANGED <<reversals, credits, wallet, spent>> BY <2>2 DEF ReconcileRead
    <3>2. /\ recon'[o].found = (o \in credits) /\ recon'[o].already = Reversed(o)
          /\ \A p \in Order \ {o} : recon'[p] = recon[p]
      <4>1. recon[o] \in Open BY <2>2 DEF ReconcileRead, TypeOK
      <4> QED BY <2>2, <4>1 DEF ReconcileRead, TypeOK, Open
    <3>3. \A p : Reversed(p)' = Reversed(p) BY <3>1 DEF Reversed, ReversalRows
    <3>4. LooksFresh' BY <1>r, <3>1, <3>2, <3>3 DEF LooksFresh
    <3>5. RowsStack' /\ LedgerExplainsBalance' BY <1>r, <3>1, LedgerRests
    <3> QED BY <3>4, <3>5
  <2>3. ASSUME ReconcileCommit(o) PROVE Goal
    <3>1. /\ recon[o] # Idle /\ recon[o].step = "read"
          /\ wallet' = [wallet EXCEPT !.balance = PaidBalance(o) - ReconTakes(o)]
          /\ credits' = IF Pays(o) THEN credits \cup {o} ELSE credits
          /\ reversals' = reversals \cup
                             ReversalRow(o, recon[o].already, ReconTakes(o))
          /\ recon' = [recon EXCEPT ![o] = Idle] /\ spent' = spent
      BY <2>3, ReconParts
    <3>2. recon[o].found = (o \in credits) /\ recon[o].already = Reversed(o)
      BY <1>r, <3>1 DEF LooksFresh
    <3>3. ReconTakes(o) \in Nat BY <3>1, ReconTypes
    <3>4. PICK given \in {0, Credit} :
            /\ PaidBalance(o) = wallet.balance + given
            /\ \/ given = 0 /\ credits' = credits
               \/ o \in credits /\ given = 0 /\ credits' = credits \cup {o}
               \/ o \notin credits /\ given = Credit /\ credits' = credits \cup {o}
      <4>1. CASE Pays(o) /\ o \notin credits
        BY <3>1, <3>2, <4>1 DEF PaidBalance
      <4>2. CASE ~(Pays(o) /\ o \notin credits)
        <5>1. PaidBalance(o) = wallet.balance + 0
          <6>1. PaidBalance(o) = wallet.balance BY <3>2, <4>2 DEF PaidBalance
          <6> QED BY <1>b, <6>1
        <5>2. \/ credits' = credits
              \/ o \in credits /\ credits' = credits \cup {o}
          BY <3>1, <4>2
        <5> QED BY <5>1, <5>2
      <4> QED BY <4>1, <4>2
    <3>5. wallet'.balance = wallet.balance + given - ReconTakes(o)
      <4>1. wallet'.balance = PaidBalance(o) - ReconTakes(o) BY <3>1 DEF TypeOK
      <4> QED BY <1>b, <3>3, <3>4, <4>1
    <3>6. reversals' = reversals \cup ReversalRow(o, Reversed(o), ReconTakes(o))
      BY <3>1, <3>2
    <3>7. RowsStack' /\ LedgerExplainsBalance'
      BY <1>t, <1>r, <3>1, <3>3, <3>4, <3>5, <3>6, LedgerMoves
    <3>8. \A p \in Order \ {o} : Reversed(p)' = Reversed(p)
      <4>1. Reversed(o) \in Nat BY ReversedType
      <4> QED BY <3>3, <3>6, <4>1, RowAdded
    <3>9. recon'[o] = Idle /\ \A p \in Order \ {o} : recon'[p] = recon[p]
      BY <3>1 DEF TypeOK
    <3>10. LooksFresh' BY <1>r, <3>4, <3>8, <3>9, LooksRest
    <3> QED BY <3>7, <3>10
  <2> QED BY <1>6, <2>1, <2>2, <2>3 DEF Reconciles
<1>7. ASSUME UNCHANGED vars PROVE Goal
  <2>1. UNCHANGED <<reversals, credits, wallet, spent, recon>> BY <1>7 DEF vars
  <2> QED BY <1>1, <2>1
<1> HIDE DEF Goal
<1>8. Goal BY <1>2, <1>3, <1>4, <1>5, <1>6, <1>7, Steps
<1> QED BY <1>8 DEF Goal, MoneyInv

\* The ledger explains the balance at first.
LEMMA MoneyInit == Init => MoneyInv
<1> SUFFICES ASSUME Init PROVE MoneyInv OBVIOUS
<1>1. RowsStack /\ LooksFresh BY DEF Init, RowsStack, LooksFresh
<1>2. Cardinality(credits) = 0 BY FS_EmptySet DEF Init
<1>3. Total(reversals, [k \in reversals |-> k[3]]) = 0 BY TotalNone DEF Init
<1>4. wallet.balance = 0 /\ spent = 0 BY DEF Init
<1>5. Credit * 0 = 0 OBVIOUS
<1> QED BY <1>1, <1>2, <1>3, <1>4, <1>5 DEF LedgerExplainsBalance, MoneyInv

\* As long as no handler overlaps with a reconciliation of its order, an order
\* is credited once, and every reversal and debit has its row
\* (the idempotency keys of service.py and reconciliation.py).
THEOREM BalanceExplained ==
  ASSUME ~Overlap
  PROVE  Spec => []LedgerExplainsBalance
<1>1. IInv /\ MoneyInv /\ [Next]_vars => MoneyInv' BY MoneyStep
<1>2. MoneyInv => LedgerExplainsBalance BY DEF MoneyInv
<1> QED BY <1>1, <1>2, InvInit, InvStep, MoneyInit, PTL DEF Spec

-----------------------------------------------------------------------------
(* What was refunded bounds what is taken back.                            *)

\* The sum of what Razorpay has paid back of the payments of an order, and
\* its share of the credit, are naturals.
LEMMA PaidBackType ==
  ASSUME TypeOK, Countable, NEW o \in Order
  PROVE  /\ IsFiniteSet(PaymentsFor(o))
         /\ \A x \in PaymentsFor(o) : RefundedAt(x) \in Nat
         /\ Total(PaymentsFor(o), [x \in PaymentsFor(o) |-> RefundedAt(x)]) \in Nat
         /\ IsFiniteSet(RefundsFor(o)) /\ RefundsFor(o) \subseteq Refund
<1>1. PaymentsFor(o) \subseteq { x \in Payment : Captured(x) } BY DEF PaymentsFor
<1>2. IsFiniteSet(PaymentsFor(o)) BY <1>1, FS_Subset DEF Countable
<1>3. \A x \in PaymentsFor(o) : RefundedAt(x) \in Nat BY <1>1, RefundedAtType
<1>4. Total(PaymentsFor(o), [x \in PaymentsFor(o) |-> RefundedAt(x)]) \in Nat
  <2> DEFINE f == [x \in PaymentsFor(o) |-> RefundedAt(x)]
  <2>1. \A x \in PaymentsFor(o) : f[x] \in Nat BY <1>3
  <2> HIDE DEF f
  <2>2. Total(PaymentsFor(o), f) \in Nat BY <1>2, <2>1, TotalType
  <2> QED BY <2>2 DEF f
<1>5. RefundsFor(o) \subseteq Refund BY <1>1 DEF RefundsFor, TypeOK
<1>6. IsFiniteSet(RefundsFor(o)) BY <1>5, FS_Subset DEF IdsAssumption
<1> QED BY <1>2, <1>3, <1>4, <1>5, <1>6

\* A step that changes neither the payments of an order nor their refunds.
LEMMA PaidBackRests ==
  ASSUME NEW o \in Order, PaymentsFor(o)' = PaymentsFor(o),
         \A x \in PaymentsFor(o) : payment'[x].refunds = payment[x].refunds
  PROVE  /\ Total(PaymentsFor(o), [x \in PaymentsFor(o) |-> RefundedAt(x)])'
              = Total(PaymentsFor(o), [x \in PaymentsFor(o) |-> RefundedAt(x)])
         /\ RefundsFor(o)' = RefundsFor(o)
<1>1. \A x \in PaymentsFor(o) : RefundedAt(x)' = RefundedAt(x) BY DEF RefundedAt
<1>2. [x \in PaymentsFor(o) |-> RefundedAt(x)]' = [x \in PaymentsFor(o) |-> RefundedAt(x)]
  BY <1>1
<1>3. RefundsFor(o)' = RefundsFor(o) BY DEF RefundsFor
<1> QED BY <1>2, <1>3

\* A capture adds a payment nothing was paid back of.
LEMMA CaptureCounts ==
  ASSUME TypeOK, Countable, Countable', Linked, RefundsCounted, NEW x \in Payment,
         Capture(x), NEW o \in Order
  PROVE  Total(PaymentsFor(o), [y \in PaymentsFor(o) |-> RefundedAt(y)])'
            = RefundPaise * Cardinality(RefundsFor(o)')
<1> DEFINE P == PaymentsFor(o)
           f == [y \in P |-> RefundedAt(y)]
           before == Total(P, f) = RefundPaise * Cardinality(RefundsFor(o))
<1>1. before BY DEF RefundsCounted
<1>2. /\ payment[x].status = "authorized" /\ payment[x].refunds = {}
      /\ UNCHANGED checkout
      /\ \A y \in Payment : /\ payment'[y].of = payment[y].of
                            /\ payment'[y].refunds = payment[y].refunds
      /\ \A y \in Payment \ {x} : payment'[y].status = payment[y].status
      /\ payment'[x].status = "captured"
  BY DEF Capture, TypeOK, Linked, PaymentsLinked, Captured
<1>3. CASE checkout[payment[x].of] # o
  <2>1. P' = P BY <1>2, <1>3 DEF PaymentsFor, Captured
  <2>2. P \subseteq Payment BY DEF PaymentsFor
  <2> HIDE DEF P
  <2> QED BY <1>1, <1>2, <2>1, <2>2, PaidBackRests DEF P
<1>4. CASE checkout[payment[x].of] = o
  <2>1. P' = P \cup {x} /\ x \notin P BY <1>2, <1>4 DEF PaymentsFor, Captured
  <2>2. P \subseteq Payment BY DEF PaymentsFor
  <2>3. \A y \in P \cup {x} : RefundedAt(y)' = RefundedAt(y)
    BY <1>2, <2>2 DEF RefundedAt
  <2>4. RefundedAt(x) = 0
    <3>1. Cardinality({}) = 0 BY FS_EmptySet
    <3>2. RefundedAt(x) = RefundPaise * 0 BY <1>2, <3>1 DEF RefundedAt
    <3> QED BY <3>2
  <2>5. RefundsFor(o)' = RefundsFor(o)
    BY <1>2, <2>1, <2>2 DEF RefundsFor
  <2> DEFINE g == [y \in P' |-> RefundedAt(y)']
  <2>6. IsFiniteSet(P) /\ (\A y \in P : RefundedAt(y) \in Nat) BY PaidBackType
  <2>7. Total(P', g) = Total(P, f)
    <3>1. /\ \A y \in P : f[y] \in Nat
          /\ \A y \in P \cup {x} : g[y] \in Nat
          /\ \A y \in P : g[y] = f[y]
          /\ g[x] = 0
      BY <2>1, <2>3, <2>4, <2>6
    <3> HIDE DEF P, f, g
    <3>2. ASSUME NEW more, more = P \cup {x} PROVE Total(more, g) = Total(P, f)
      <4>1. IsFiniteSet(more) /\ {x} \subseteq more /\ more \ {x} = P
        BY <2>1, <2>6, <3>2, FS_AddElement
      <4>2. Total(more, g) = Total({x}, g) + Total(more \ {x}, g)
        BY <3>1, <3>2, <4>1, TotalSplit
      <4>3. Total({x}, g) = 0 BY <3>1, TotalOne
      <4>4. Total(P, g) = Total(P, f) BY <3>1, TotalSame
      <4>5. Total(P, f) \in Nat BY <2>6, <3>1, TotalType
      <4> QED BY <4>1, <4>2, <4>3, <4>4, <4>5
    <3> QED BY <2>1, <3>2
  <2> QED BY <1>1, <2>5, <2>7
<1> QED BY <1>3, <1>4

\* A refund adds its amount and its id.
LEMMA RefundCounts ==
  ASSUME TypeOK, Countable, Countable', TypeOK', Linked, RefundsCounted,
         NEW x \in Payment, NEW f \in Refund, RefundPayment(f, x), NEW o \in Order
  PROVE  Total(PaymentsFor(o), [y \in PaymentsFor(o) |-> RefundedAt(y)])'
            = RefundPaise * Cardinality(RefundsFor(o)')
<1> DEFINE P == PaymentsFor(o)
           a == [y \in P |-> RefundedAt(y)]
           b == [y \in P |-> RefundedAt(y)']
<1>1. Total(P, a) = RefundPaise * Cardinality(RefundsFor(o)) BY DEF RefundsCounted
<1>2. /\ Captured(x) /\ f \notin payment[x].refunds /\ UNCHANGED checkout
      /\ \A y \in Payment : f \notin payment[y].refunds
      /\ \A y \in Payment : /\ payment'[y].of = payment[y].of
                            /\ payment'[y].status = payment[y].status
      /\ \A y \in Payment \ {x} : payment'[y].refunds = payment[y].refunds
      /\ payment'[x].refunds = payment[x].refunds \cup {f}
  BY DEF RefundPayment, TypeOK
<1>3. P' = P /\ P \subseteq Payment BY <1>2 DEF PaymentsFor, Captured
<1>4. CASE x \notin P
  <2>1. \A y \in P : payment'[y].refunds = payment[y].refunds BY <1>2, <1>3, <1>4
  <2> QED BY <1>1, <1>3, <2>1, PaidBackRests
<1>5. CASE x \in P
  <2>1. RefundsFor(o)' = RefundsFor(o) \cup {f} /\ f \notin RefundsFor(o)
    BY <1>2, <1>3, <1>5 DEF RefundsFor
  <2>2. IsFiniteSet(RefundsFor(o)) BY PaidBackType
  <2>3. /\ Cardinality(RefundsFor(o)') = Cardinality(RefundsFor(o)) + 1
        /\ Cardinality(RefundsFor(o)) \in Nat
    BY <2>1, <2>2, FS_AddElement, FS_CardinalityType
  <2>4. RefundedAt(x)' = RefundedAt(x) + RefundPaise
    <3>1. IsFiniteSet(payment[x].refunds) BY RefundedAtType
    <3>2. /\ Cardinality(payment'[x].refunds) = Cardinality(payment[x].refunds) + 1
          /\ Cardinality(payment[x].refunds) \in Nat
      BY <1>2, <3>1, FS_AddElement, FS_CardinalityType
    <3>3. RefundPaise * (Cardinality(payment[x].refunds) + 1)
            = RefundPaise * Cardinality(payment[x].refunds) + RefundPaise
      BY <3>2
    <3> QED BY <3>2, <3>3 DEF RefundedAt
  <2>5. \A y \in P \ {x} : RefundedAt(y)' = RefundedAt(y)
    BY <1>2, <1>3 DEF RefundedAt
  <2>6. IsFiniteSet(P) /\ (\A y \in P : RefundedAt(y) \in Nat) BY PaidBackType
  <2>7. Total(P, b) = Total(P, a) + RefundPaise
    <3>1. /\ \A y \in P : a[y] \in Nat
          /\ \A y \in P : b[y] \in Nat
          /\ \A y \in P \ {x} : b[y] = a[y]
          /\ b[x] = a[x] + RefundPaise
      BY <1>5, <2>4, <2>5, <2>6
    <3> HIDE DEF P, a, b
    <3>2. Total(P, b) = Total(P, a) - a[x] + b[x]
      BY <1>5, <2>6, <3>1, TotalChange
    <3>3. Total(P, a) \in Nat BY <2>6, <3>1, TotalType
    <3>4. a[x] \in Nat BY <1>5, <3>1
    <3> QED BY <3>1, <3>2, <3>3, <3>4
  <2>8. RefundPaise * (Cardinality(RefundsFor(o)) + 1)
          = RefundPaise * Cardinality(RefundsFor(o)) + RefundPaise
    BY <2>3
  <2>9. Total(PaymentsFor(o), [y \in PaymentsFor(o) |-> RefundedAt(y)])' = Total(P, b)
    BY <1>3
  <2> HIDE DEF a, b
  <2> QED BY <1>1, <2>3, <2>7, <2>8, <2>9
<1> QED BY <1>4, <1>5

\* Refunds stay counted by their ids.
LEMMA CountsStep ==
  ASSUME IInv, RefundsCounted, [Next]_vars
  PROVE  RefundsCounted'
<1> USE DEF IInv
<1>1. TypeOK' /\ Countable' BY TypesStep
<1>2. ASSUME NEW x \in Payment, Capture(x) PROVE RefundsCounted'
  BY <1>1, <1>2, CaptureCounts DEF RefundsCounted
<1>3. ASSUME NEW x \in Payment, NEW f \in Refund, RefundPayment(f, x) PROVE RefundsCounted'
  BY <1>1, <1>3, RefundCounts DEF RefundsCounted
<1>4. ASSUME \A o \in Order : PaymentsFor(o)' = PaymentsFor(o),
             \A x \in Payment : Captured(x) => payment'[x].refunds = payment[x].refunds
      PROVE  RefundsCounted'
  <2> SUFFICES ASSUME NEW o \in Order
               PROVE  Total(PaymentsFor(o), [y \in PaymentsFor(o) |-> RefundedAt(y)])'
                         = RefundPaise * Cardinality(RefundsFor(o)')
    BY DEF RefundsCounted
  <2>1. \A x \in PaymentsFor(o) : payment'[x].refunds = payment[x].refunds
    BY <1>4 DEF PaymentsFor
  <2> QED BY <1>4, <2>1, PaidBackRests DEF RefundsCounted
<1>5. ASSUME NEW x \in Payment, NEW p \in ProviderOrder, Attempt(x, p)
      PROVE  RefundsCounted'
  <2>1. /\ \A y \in Payment : Captured(y)' = Captured(y)
        /\ \A y \in Payment : Captured(y) => payment'[y] = payment[y]
        /\ UNCHANGED checkout
    BY <1>5 DEF Attempt, Captured, TypeOK
  <2>2. \A o \in Order : PaymentsFor(o)' = PaymentsFor(o)
    BY <2>1 DEF PaymentsFor
  <2> QED BY <1>4, <2>1, <2>2
<1>6. ASSUME UNCHANGED payment PROVE RefundsCounted'
  <2>1. \A y \in Payment : Captured(y)' = Captured(y) BY <1>6 DEF Captured
  <2>2. \A y \in Payment : Captured(y) =>
           checkout'[payment[y].of] = checkout[payment[y].of]
    <3> SUFFICES ASSUME NEW y \in Payment, Captured(y)
                 PROVE  checkout'[payment[y].of] = checkout[payment[y].of]
      OBVIOUS
    <3>1. payment[y].of \in ProviderOrder /\ checkout[payment[y].of] # None
      BY DEF Linked, PaymentsLinked, TypeOK, Captured
    <3> QED BY <3>1, PaymentsGrow DEF Linked
  <2>3. \A o \in Order : PaymentsFor(o)' = PaymentsFor(o)
    BY <1>6, <2>1, <2>2 DEF PaymentsFor
  <2> QED BY <1>4, <1>6, <2>3
<1> QED BY <1>2, <1>3, <1>5, <1>6, RazorpaySteps

\* What was booked of an order stays booked while its columns and rows rest.
LEMMA BooksRest ==
  ASSUME TypeOK, Linked, [Next]_vars, RefundsBooked, NEW o \in Order \ repaired,
         order'[o].refund_ids = order[o].refund_ids,
         order'[o].refunded = order[o].refunded,
         Reversed(o)' = Reversed(o)
  PROVE  /\ order'[o].refund_ids \subseteq RefundsFor(o)'
         /\ order'[o].refunded = RefundPaise * Cardinality(order'[o].refund_ids)
         /\ Reversed(o)' <= (Credit * order'[o].refunded) \div Gross
<1>1. RefundsFor(o) \subseteq RefundsFor(o)'
  <2>1. PaymentsFor(o) \subseteq PaymentsFor(o)' /\ PaymentsFor(o) \subseteq Payment
    BY PaymentsGrow DEF Linked, PaymentsFor
  <2>2. \A x \in Payment : payment[x].refunds \subseteq payment'[x].refunds
    BY PaymentsGrow DEF Linked
  <2> QED BY <2>1, <2>2 DEF RefundsFor
<1> QED BY <1>1 DEF RefundsBooked

\* Only the event of a refund and a reconciliation change what is booked.
LEMMA BooksStep ==
  ASSUME IInv, RefundsBooked, [Next]_vars
  PROVE  RefundsBooked'
<1> USE DEF IInv
<1>t. TypeOK' /\ Countable' BY TypesStep
<1> DEFINE Rests(o) == /\ order'[o].refund_ids = order[o].refund_ids
                       /\ order'[o].refunded = order[o].refunded
                       /\ Reversed(o)' = Reversed(o)
           Booked(o) == /\ order'[o].refund_ids \subseteq RefundsFor(o)'
                        /\ order'[o].refunded =
                              RefundPaise * Cardinality(order'[o].refund_ids)
                        /\ Reversed(o)' <= (Credit * order'[o].refunded) \div Gross
           Goal == \A o \in Order \ repaired' : Rests(o) \/ Booked(o)
<1>1. ASSUME NEW c \in Caller, Creates(c) PROVE Goal
  <2>1. UNCHANGED <<reversals, repaired>>
    BY <1>1 DEF Creates, BeginOrder, ProviderCreates, FinishOrder, FailOrder, CrashOrder
  <2>2. \A o : Reversed(o)' = Reversed(o) BY <2>1 DEF Reversed, ReversalRows
  <2> DEFINE Kept == \A o \in Order : /\ order'[o].refund_ids = order[o].refund_ids
                                      /\ order'[o].refunded = order[o].refunded
  <2>3. ASSUME NEW o \in Order, BeginOrder(c, o) PROVE Kept
    BY <2>3 DEF BeginOrder, TypeOK, Row
  <2>4. ASSUME FinishOrder(c) \/ FailOrder(c) PROVE Kept
    <3> DEFINE o    == call[c].order
               seen == call[c].seen
               done == [seen EXCEPT !.provider_order = call[c].got, !.status = "created"]
               fail == [seen EXCEPT !.status = "failed"]
    <3>1. /\ o \in Order /\ seen \in Row /\ order[o] \in Row
          /\ call[c].got \in ProviderOrder \cup {None}
      BY <2>4 DEF FinishOrder, FailOrder, TypeOK
    <3>2. /\ done \in Row /\ done.refunded = seen.refunded
          /\ done.refund_ids = seen.refund_ids
          /\ fail \in Row /\ fail.refunded = seen.refunded
          /\ fail.refund_ids = seen.refund_ids
      BY <3>1 DEF Row, Statuses
    <3>3. PICK new \in {done, fail} :
            order' = [order EXCEPT ![o] = Flush(order[o], seen, new)]
      BY <2>4 DEF FinishOrder, FailOrder
    <3>4. /\ Flush(order[o], seen, new).refunded = order[o].refunded
          /\ Flush(order[o], seen, new).refund_ids = order[o].refund_ids
      <4>1. new \in Row /\ new.refunded = seen.refunded /\ new.refund_ids = seen.refund_ids
        BY <3>2
      <4> HIDE DEF o, seen
      <4> QED BY <3>1, <4>1, FlushColumns
    <3> HIDE DEF o, seen
    <3> QED BY <3>1, <3>3, <3>4 DEF TypeOK
  <2>5. ASSUME (\E p \in ProviderOrder : ProviderCreates(c, p)) \/ CrashOrder(c)
        PROVE  Kept
    BY <2>5 DEF ProviderCreates, CrashOrder
  <2>6. Kept
    <3> HIDE DEF Kept
    <3> QED BY <1>1, <2>3, <2>4, <2>5 DEF Creates
  <2> QED BY <2>2, <2>6
<1>2. ASSUME UNCHANGED <<order, reversals>> PROVE Goal
  <2>1. \A o : Reversed(o)' = Reversed(o) BY <1>2 DEF Reversed, ReversalRows
  <2> QED BY <1>2, <2>1
<1>3. ASSUME Outside PROVE Goal
  <2>1. UNCHANGED <<order, reversals>>
    BY <1>3 DEF Outside, Attempt, Capture, RefundPayment, Reserve, Spend
  <2> QED BY <1>2, <2>1
<1>4. ASSUME NEW o \in Order, NEW x \in Payment, Credits(o, x) PROVE Goal
  <2>1. UNCHANGED reversals BY <1>4 DEF Credits, Verify, CapturedEvent
  <2>2. \A p : Reversed(p)' = Reversed(p) BY <2>1 DEF Reversed, ReversalRows
  <2>3. PICK new \in {Fulfilled([order[o] EXCEPT !.payment = x]), Fulfilled(order[o]),
                      [order[o] EXCEPT !.status = "attempted"]} :
          order' = [order EXCEPT ![o] = new]
    BY <1>4 DEF Credits, Verify, CapturedEvent
  <2>4. new.refunded = order[o].refunded /\ new.refund_ids = order[o].refund_ids
    <3>1. order[o] \in Row BY DEF TypeOK
    <3> QED BY <2>3, <3>1 DEF Fulfilled, Row
  <2>5. \A p \in Order : /\ order'[p].refund_ids = order[p].refund_ids
                         /\ order'[p].refunded = order[p].refunded
    BY <2>3, <2>4 DEF TypeOK
  <2> QED BY <2>2, <2>5
<1>5. ASSUME NEW o \in Order, NEW x \in Payment, NEW f \in Refund, RefundEvent(o, x, f)
      PROVE  Goal
  <2>1. repaired' = repaired /\ f \in payment[x].refunds BY <1>5 DEF RefundEvent
  <2>2. PICK row \in Row : order' = [order EXCEPT ![o] = row]
    BY <1>5, EventParts, EventTypes
  <2>3. /\ EventTakes(o, x) \in Nat /\ Reversed(o) \in Nat
        /\ BaseBalance(o, x) \in Nat /\ EventTotal(o) \in Nat
    BY EventTypes, ReversedType
  <2>4. \A p \in Order \ {o} : Reversed(p)' = Reversed(p)
    <3>1. CASE reversals' = reversals BY <3>1 DEF Reversed, ReversalRows
    <3>2. CASE reversals' = reversals \cup
                               ReversalRow(o, Reversed(o), EventTakes(o, x))
      BY <2>3, <3>2, RowAdded
    <3> QED BY <1>5, <3>1, <3>2, EventParts
  <2>5. \A p \in Order \ {o} : order'[p] = order[p] BY <2>2 DEF TypeOK
  <2>6. o \notin repaired => Rests(o) \/ Booked(o)
    <3>1. CASE /\ order' = [order EXCEPT ![o] = BaseRow(o, x)]
               /\ reversals' = reversals
      <4>1. order'[o] = BaseRow(o, x) BY <3>1 DEF TypeOK
      <4>2. Reversed(o)' = Reversed(o) BY <3>1 DEF Reversed, ReversalRows
      <4> QED BY <4>1, <4>2, EventTypes
    <3>2. CASE /\ f \notin order[o].refund_ids
               /\ order' = [order EXCEPT ![o] = EventRow(o, x, f)]
               /\ reversals' = reversals \cup
                                  ReversalRow(o, Reversed(o), EventTakes(o, x))
      <4> SUFFICES ASSUME o \notin repaired PROVE Booked(o) OBVIOUS
      <4>1. /\ order[o].refund_ids \subseteq RefundsFor(o)
            /\ order[o].refunded = RefundPaise * Cardinality(order[o].refund_ids)
            /\ Reversed(o) <= (Credit * order[o].refunded) \div Gross
        BY DEF RefundsBooked
      <4>2. order'[o] = EventRow(o, x, f) BY <3>2 DEF TypeOK
      <4>3. /\ order'[o].refunded = EventTotal(o)
            /\ order'[o].refund_ids = order[o].refund_ids \cup {f}
        BY <4>2, EventTypes
      <4>4. order'[o].refund_ids \subseteq RefundsFor(o)'
        <5>1. order'[o].payment = x BY <4>2, EventTypes
        <5>2. x # None BY DEF IdsAssumption
        <5>3. OrdersLinked' BY OrdersLinkedStep
        <5>4. x \in PaymentsFor(o)' BY <5>1, <5>2, <5>3 DEF OrdersLinked, OwnPayment
        <5>5. f \in payment'[x].refunds BY <2>1, PaymentsGrow DEF Linked
        <5>6. f \in RefundsFor(o)' BY <5>4, <5>5 DEF RefundsFor
        <5>7. RefundsFor(o) \subseteq RefundsFor(o)'
          <6>1. PaymentsFor(o) \subseteq PaymentsFor(o)' /\ PaymentsFor(o) \subseteq Payment
            BY PaymentsGrow DEF Linked, PaymentsFor
          <6>2. \A y \in Payment : payment[y].refunds \subseteq payment'[y].refunds
            BY PaymentsGrow DEF Linked
          <6> QED BY <6>1, <6>2 DEF RefundsFor
        <5> QED BY <4>1, <4>3, <5>6, <5>7
      <4>5. order'[o].refunded = RefundPaise * Cardinality(order'[o].refund_ids)
        <5>1. IsFiniteSet(order[o].refund_ids)
          <6>1. order[o].refund_ids \subseteq Refund BY DEF TypeOK, Row
          <6> QED BY <6>1, FS_Subset DEF IdsAssumption
        <5>2. /\ Cardinality(order'[o].refund_ids) = Cardinality(order[o].refund_ids) + 1
              /\ Cardinality(order[o].refund_ids) \in Nat
          BY <3>2, <4>3, <5>1, FS_AddElement, FS_CardinalityType
        <5>3. RefundPaise * (Cardinality(order[o].refund_ids) + 1)
                = RefundPaise * Cardinality(order[o].refund_ids) + RefundPaise
          BY <5>2
        <5> QED BY <4>1, <4>3, <5>2, <5>3 DEF EventTotal
      <4>6. Reversed(o)' <= (Credit * order'[o].refunded) \div Gross
        <5> DEFINE old == (Credit * order[o].refunded) \div Gross
                   new == (Credit * EventTotal(o)) \div Gross
        <5>1. order[o].refunded \in Nat /\ order[o].refunded <= EventTotal(o)
          BY DEF EventTotal, TypeOK, Row
        <5>2. old \in Nat /\ new \in Nat /\ old <= new
          BY <2>3, <5>1, ShareType, ShareMonotone
        <5>3. EventTakes(o, x) # 0 => Reversed(o) + EventTakes(o, x) <= new
          BY <2>3, ReversalBounds DEF EventTakes, TypeOK
        <5>4. Reversed(o)' \in {Reversed(o), Reversed(o) + EventTakes(o, x)}
          BY <2>3, <3>2, RowAdded
        <5>5. Reversed(o) <= old BY <4>1
        <5> HIDE DEF old, new
        <5>6. Reversed(o)' <= new BY <2>3, <5>2, <5>3, <5>4, <5>5
        <5> QED BY <4>3, <5>6 DEF new
      <4> QED BY <4>4, <4>5, <4>6
    <3> QED BY <1>5, <3>1, <3>2, EventParts
  <2> HIDE DEF Booked
  <2> QED BY <2>1, <2>4, <2>5, <2>6
<1>6. ASSUME NEW o \in Order, Reconciles(o) PROVE Goal
  <2>1. ASSUME ReconcileCommit(o) PROVE Goal
    <3>1. /\ recon[o] # Idle
          /\ order' = [order EXCEPT ![o] = Flush(order[o], recon[o].seen, ReconRow(o))]
          /\ reversals' = reversals \cup
                             ReversalRow(o, recon[o].already, ReconTakes(o))
          /\ repaired' = IF RefundDue(o) THEN repaired \cup {o} ELSE repaired
      BY <2>1, ReconParts
    <3>2. recon[o].already \in Nat /\ ReconTakes(o) \in Nat
      BY <3>1, ReconTypes DEF Open
    <3>3. \A p \in Order \ {o} : Reversed(p)' = Reversed(p) /\ order'[p] = order[p]
      BY <3>1, <3>2, RowAdded DEF TypeOK
    <3>4. ASSUME o \notin repaired' PROVE Rests(o)
      <4>1. ~RefundDue(o) BY <3>1, <3>4
      <4>2. reversals' = reversals BY <3>1, <4>1 DEF ReconTakes, ReversalRow
      <4>3. Reversed(o)' = Reversed(o) BY <4>2 DEF Reversed, ReversalRows
      <4> DEFINE seen == recon[o].seen
                 new  == ReconRow(o)
      <4>4. /\ seen \in Row /\ new \in Row /\ order[o] \in Row
            /\ new.refunded = seen.refunded /\ new.refund_ids = seen.refund_ids
        BY <3>1, <4>1, ReconTypes DEF TypeOK, Open
      <4>5. order'[o] = Flush(order[o], seen, new) BY <3>1 DEF TypeOK
      <4> HIDE DEF seen, new
      <4>6. /\ order'[o].refunded = order[o].refunded
            /\ order'[o].refund_ids = order[o].refund_ids
        BY <4>4, <4>5, FlushColumns
      <4> QED BY <4>3, <4>6
    <3> QED BY <3>3, <3>4
  <2>2. ASSUME ReconcileLoad(o) \/ ReconcileRead(o) \/ ReconcileAbort(o) PROVE Goal
    <3>1. UNCHANGED <<order, reversals>>
      BY <2>2 DEF ReconcileLoad, ReconcileRead, ReconcileAbort
    <3> QED BY <1>2, <3>1
  <2> QED BY <1>6, <2>1, <2>2 DEF Reconciles
<1>7. ASSUME UNCHANGED vars PROVE Goal
  <2>1. UNCHANGED <<order, reversals>> BY <1>7 DEF vars
  <2> QED BY <1>2, <2>1
<1>8. Goal
  <2> HIDE DEF Goal
  <2> QED BY <1>1, <1>3, <1>4, <1>5, <1>6, <1>7, Steps
<1>9. repaired \subseteq repaired'
  <2>1. ASSUME NEW c \in Caller, Creates(c) PROVE repaired' = repaired
    BY <2>1 DEF Creates, BeginOrder, ProviderCreates, FinishOrder, FailOrder, CrashOrder
  <2>2. ASSUME Outside PROVE repaired' = repaired
    BY <2>2 DEF Outside, Attempt, Capture, RefundPayment, Reserve, Spend
  <2>3. ASSUME NEW o \in Order, NEW x \in Payment, Credits(o, x) PROVE repaired' = repaired
    BY <2>3 DEF Credits, Verify, CapturedEvent
  <2>4. ASSUME NEW o \in Order, NEW x \in Payment, NEW f \in Refund, RefundEvent(o, x, f)
        PROVE  repaired' = repaired
    BY <2>4 DEF RefundEvent
  <2>5. ASSUME NEW o \in Order, Reconciles(o) PROVE repaired \subseteq repaired'
    BY <2>5, ReconParts DEF Reconciles, ReconcileLoad, ReconcileRead, ReconcileAbort
  <2>6. ASSUME UNCHANGED vars PROVE repaired' = repaired BY <2>6 DEF vars
  <2> QED BY <2>1, <2>2, <2>3, <2>4, <2>5, <2>6, Steps
<1>10. \A o \in Order \ repaired' : Booked(o)
  <2> SUFFICES ASSUME NEW o \in Order \ repaired' PROVE Booked(o) OBVIOUS
  <2>1. CASE Rests(o)
    BY <1>9, <2>1, BooksRest
  <2> QED BY <1>8, <2>1
<1> QED BY <1>10 DEF RefundsBooked

\* At first nothing was refunded.
LEMMA BookInit == Init => BookInv
<1> SUFFICES ASSUME Init PROVE BookInv OBVIOUS
<1>1. TypeOK /\ Countable BY TypesInit
<1>2. ASSUME NEW o \in Order
      PROVE  /\ PaymentsFor(o) = {} /\ RefundsFor(o) = {} /\ ReversalRows(o) = {}
             /\ order[o].refund_ids = {} /\ order[o].refunded = 0
  BY DEF Init, PaymentsFor, Captured, RefundsFor, ReversalRows, NoRow
<1>3. Cardinality({}) = 0 BY FS_EmptySet
<1>4. RefundsCounted
  <2> SUFFICES ASSUME NEW o \in Order
               PROVE  Total(PaymentsFor(o), [y \in PaymentsFor(o) |-> RefundedAt(y)])
                         = RefundPaise * Cardinality(RefundsFor(o))
    BY DEF RefundsCounted
  <2>1. Total(PaymentsFor(o), [y \in PaymentsFor(o) |-> RefundedAt(y)]) = 0
    BY <1>2, TotalNone
  <2>2. RefundPaise * Cardinality(RefundsFor(o)) = 0
    <3>1. RefundPaise * 0 = 0 OBVIOUS
    <3> QED BY <1>2, <1>3, <3>1
  <2> QED BY <2>1, <2>2
<1>5. RefundsBooked
  <2> SUFFICES ASSUME NEW o \in Order
               PROVE  /\ order[o].refund_ids \subseteq RefundsFor(o)
                      /\ order[o].refunded =
                            RefundPaise * Cardinality(order[o].refund_ids)
                      /\ Reversed(o) <= (Credit * order[o].refunded) \div Gross
    BY DEF RefundsBooked
  <2>1. Reversed(o) = 0 BY <1>2, TotalNone DEF Reversed
  <2>2. RefundPaise * 0 = 0 OBVIOUS
  <2>3. (Credit * order[o].refunded) \div Gross \in Nat BY <1>2, ShareType
  <2>4. Reversed(o) <= (Credit * order[o].refunded) \div Gross
    <3> DEFINE share == (Credit * order[o].refunded) \div Gross
    <3>1. share \in Nat BY <2>3
    <3> HIDE DEF share
    <3>2. Reversed(o) <= share BY <2>1, <3>1
    <3> QED BY <3>2 DEF share
  <2>5. order[o].refunded = RefundPaise * Cardinality(order[o].refund_ids)
    BY <1>2, <1>3, <2>2
  <2>6. order[o].refund_ids \subseteq RefundsFor(o) BY <1>2
  <2> QED BY <2>4, <2>5, <2>6
<1> QED BY <1>4, <1>5 DEF BookInv

\* What is booked is not more than what was refunded.
LEMMA BooksBound ==
  ASSUME TypeOK, Countable, BookInv
  PROVE  WebhooksReverseOnce
<1> SUFFICES ASSUME NEW o \in Order \ repaired PROVE Reversed(o) <= RefundMicros(o)
  BY DEF WebhooksReverseOnce
<1> DEFINE back == Total(PaymentsFor(o), [x \in PaymentsFor(o) |-> RefundedAt(x)])
<1>1. /\ order[o].refund_ids \subseteq RefundsFor(o)
      /\ order[o].refunded = RefundPaise * Cardinality(order[o].refund_ids)
      /\ Reversed(o) <= (Credit * order[o].refunded) \div Gross
      /\ back = RefundPaise * Cardinality(RefundsFor(o))
  BY DEF BookInv, RefundsBooked, RefundsCounted
<1>2. IsFiniteSet(RefundsFor(o)) BY PaidBackType
<1>3. /\ Cardinality(order[o].refund_ids) <= Cardinality(RefundsFor(o))
      /\ Cardinality(order[o].refund_ids) \in Nat
      /\ Cardinality(RefundsFor(o)) \in Nat
  BY <1>1, <1>2, FS_Subset, FS_CardinalityType
<1>4. back \in Nat /\ order[o].refunded \in Nat BY PaidBackType DEF TypeOK, Row
<1>5. order[o].refunded <= back
  <2> DEFINE m == Cardinality(order[o].refund_ids)
             n == Cardinality(RefundsFor(o))
  <2>1. PICK d \in Nat : n = m + d
    <3>1. n - m \in Nat /\ n = m + (n - m) BY <1>3
    <3> QED BY <3>1
  <2>2. RefundPaise * n = RefundPaise * m + RefundPaise * d BY <1>3, <2>1
  <2>3. RefundPaise * d \in Nat BY <2>1
  <2> QED BY <1>1, <1>4, <2>2, <2>3
<1>6. RefundMicros(o) = (Credit * back) \div Gross BY DEF RefundMicros
<1> HIDE DEF back
<1>7. (Credit * order[o].refunded) \div Gross <= (Credit * back) \div Gross
  BY <1>4, <1>5, ShareMonotone
<1>8. /\ (Credit * order[o].refunded) \div Gross \in Nat
      /\ (Credit * back) \div Gross \in Nat /\ Reversed(o) \in Nat
  BY <1>4, ShareType, ReversedType
<1> QED BY <1>1, <1>6, <1>7, <1>8

\* Of an order that no reconciliation repaired, no more is taken back than the
\* credit's share of what Razorpay refunded: for any number of payments,
\* refunds, callers and reconciliations, mixed with usage and in any order.
THEOREM ReversedOnce == Spec => []WebhooksReverseOnce
<1>1. IInv /\ BookInv /\ [Next]_vars => BookInv'
  BY CountsStep, BooksStep DEF BookInv
<1>2. IInv /\ BookInv => WebhooksReverseOnce BY BooksBound DEF IInv
<1> QED BY <1>1, <1>2, InvInit, InvStep, BookInit, PTL DEF Spec

-----------------------------------------------------------------------------
(* The status tells what was credited and refunded.                        *)

\* OrdersStaged and StatusMatchesAmounts, of one row with the credits given.
Staged(o, row, given) ==
    /\ row.provider_order = None <=> row.status \in {"none", "creating", "failed"}
    /\ o \in given => row.provider_order # None
    /\ row.payment # None => o \in given
    /\ row.refunded <= Gross
    /\ row.status = "refunded" => row.refunded = Gross
    /\ row.status = "partially_refunded" => row.refunded \in 1 .. Gross - 1
    /\ row.status \in {"credited", "partially_refunded", "refunded"} => o \in given
    /\ row.status \in {"creating", "created", "captured", "failed"} => o \notin given

\* These are all the parts.
LEMMA StagedParts ==
  (OrdersStaged /\ StatusMatchesAmounts) <=> \A o \in Order : Staged(o, order[o], credits)
BY DEF OrdersStaged, StatusMatchesAmounts, Staged

\* What crediting and refunding an order make of a staged row.
LEMMA StagedWrites ==
  ASSUME NEW o \in Order, NEW row \in Row, NEW given, Staged(o, row, given),
         row.provider_order # None
  PROVE  /\ Staged(o, [row EXCEPT !.status = "attempted"], given)
         /\ Staged(o, Fulfilled(row), given \cup {o})
         /\ \A x \in Payment :
               Staged(o, Fulfilled([row EXCEPT !.payment = x]), given \cup {o})
         /\ \A total \in 1 .. Gross :
               o \in given /\ total > row.refunded => Staged(o, Refunded(row, total), given)
<1> USE DEF Row, Statuses
<1>1. Staged(o, [row EXCEPT !.status = "attempted"], given) BY DEF Staged
<1>2. Staged(o, Fulfilled(row), given \cup {o}) BY DEF Staged, Fulfilled
<1>3. ASSUME NEW x \in Payment
      PROVE  Staged(o, Fulfilled([row EXCEPT !.payment = x]), given \cup {o})
  BY DEF Staged, Fulfilled
<1>4. ASSUME NEW total \in 1 .. Gross, o \in given, total > row.refunded
      PROVE  Staged(o, Refunded(row, total), given)
  <2> DEFINE new == Refunded(row, total)
  <2>1. /\ new.provider_order = row.provider_order /\ new.payment = row.payment
        /\ new.refunded = total
        /\ new.status = IF total >= Gross THEN "refunded" ELSE "partially_refunded"
    BY <1>4 DEF Refunded
  <2>2. total \in Nat /\ 1 <= total /\ total <= Gross BY <1>4
  <2> HIDE DEF new
  <2>3. Staged(o, new, given) BY <1>4, <2>1, <2>2 DEF Staged
  <2> QED BY <2>3 DEF new
<1> QED BY <1>1, <1>2, <1>3, <1>4

\* The refunds of a payment never exceed its amount.
LEMMA FitStep ==
  ASSUME TypeOK, RefundsFit, [Next]_vars
  PROVE  RefundsFit'
<1>1. ASSUME NEW x \in Payment,
             (\E p \in ProviderOrder : Attempt(x, p)) \/ Capture(x)
      PROVE  RefundsFit'
  <2>1. \A y \in Payment : payment'[y].refunds = payment[y].refunds
    BY <1>1 DEF Attempt, Capture, TypeOK
  <2> QED BY <2>1 DEF RefundsFit, RefundedAt
<1>2. ASSUME NEW x \in Payment, NEW f \in Refund, RefundPayment(f, x) PROVE RefundsFit'
  <2>1. /\ f \notin payment[x].refunds
        /\ RefundedAt(x) + RefundPaise <= Gross
        /\ payment'[x].refunds = payment[x].refunds \cup {f}
        /\ \A y \in Payment \ {x} : payment'[y].refunds = payment[y].refunds
    BY <1>2 DEF RefundPayment, TypeOK
  <2>2. IsFiniteSet(payment[x].refunds) BY RefundedAtType
  <2>3. /\ Cardinality(payment'[x].refunds) = Cardinality(payment[x].refunds) + 1
        /\ Cardinality(payment[x].refunds) \in Nat
    BY <2>1, <2>2, FS_AddElement, FS_CardinalityType
  <2>4. RefundPaise * (Cardinality(payment[x].refunds) + 1)
          = RefundPaise * Cardinality(payment[x].refunds) + RefundPaise
    BY <2>3
  <2>5. RefundedAt(x)' <= Gross BY <2>1, <2>3, <2>4 DEF RefundedAt
  <2>6. \A y \in Payment \ {x} : RefundedAt(y)' <= Gross
    BY <2>1 DEF RefundsFit, RefundedAt
  <2> QED BY <2>5, <2>6 DEF RefundsFit
<1>3. ASSUME UNCHANGED payment PROVE RefundsFit'
  BY <1>3 DEF RefundsFit, RefundedAt
<1> QED BY <1>1, <1>2, <1>3, RazorpaySteps

\* A step that writes one staged row, of an order that no open call and no open
\* reconciliation has read, keeps everything staged and fresh.
LEMMA StageWrites ==
  ASSUME TypeOK, StageInv, NEW o \in Order, NEW row \in Row,
         order' = [order EXCEPT ![o] = row],
         credits' \in {credits, credits \cup {o}},
         Staged(o, row, credits'),
         order[o].provider_order # None, UNCHANGED call,
         recon'[o] = Idle, \A p \in Order \ {o} : recon'[p] = recon[p]
  PROVE  CallsFresh' /\ ReconsFresh' /\ OrdersStaged' /\ StatusMatchesAmounts'
<1>1. \A p \in Order : Staged(p, order[p], credits) BY StagedParts DEF StageInv
<1>2. \A p \in Order \ {o} : order'[p] = order[p] /\ (p \in credits' <=> p \in credits)
  BY DEF TypeOK
<1>3. order'[o] = row BY DEF TypeOK
<1>4. \A p \in Order : Staged(p, order'[p], credits')
  <2> SUFFICES ASSUME NEW p \in Order PROVE Staged(p, order'[p], credits') OBVIOUS
  <2>1. CASE p = o BY <1>3, <2>1
  <2>2. CASE p # o BY <1>1, <1>2, <2>2 DEF Staged
  <2> QED BY <2>1, <2>2
<1>5. OrdersStaged' /\ StatusMatchesAmounts'
  BY <1>4 DEF OrdersStaged, StatusMatchesAmounts, Staged
<1>6. CallsFresh'
  <2> SUFFICES ASSUME NEW c \in Caller, call[c] # Idle
               PROVE  /\ order'[call[c].order] = call[c].seen
                      /\ order'[call[c].order].provider_order = None
                      /\ order'[call[c].order].status # "none"
    BY DEF CallsFresh
  <2>1. call[c].order \in Order BY DEF TypeOK
  <2>2. call[c].order # o BY DEF StageInv, CallsFresh
  <2> QED BY <1>2, <2>1, <2>2 DEF StageInv, CallsFresh
<1>7. ReconsFresh' BY <1>2 DEF StageInv, ReconsFresh
<1> QED BY <1>5, <1>6, <1>7

\* A call in progress has its order to itself.
LEMMA StageCreates ==
  ASSUME TypeOK, StageInv, OneCallPerOrder, OneCallPerOrder', NEW c \in Caller, Creates(c)
  PROVE  CallsFresh' /\ ReconsFresh' /\ OrdersStaged' /\ StatusMatchesAmounts'
<1>1. \A p \in Order : Staged(p, order[p], credits) BY StagedParts DEF StageInv
<1>2. ASSUME NEW o \in Order, call[c] # Idle \/ call'[c] # Idle,
             call[c] # Idle => call[c].order = o,
             call'[c] # Idle => call'[c].order = o,
             \A d \in Caller \ {c} : call'[d] = call[d],
             \A p \in Order \ {o} : order'[p] = order[p],
             call'[c] # Idle => /\ order'[o] = call'[c].seen
                                /\ order'[o].provider_order = None
                                /\ order'[o].status # "none"
      PROVE  CallsFresh'
  <2>1. ASSUME NEW d \in Caller \ {c}, call'[d] # Idle
        PROVE  call'[d].order \in Order \ {o}
    <3>1. call[d] # Idle /\ call'[d].order = call[d].order /\ call[d].order \in Order
      BY <1>2, <2>1 DEF TypeOK
    <3> QED BY <1>2, <2>1, <3>1 DEF OneCallPerOrder
  <2>2. ASSUME NEW d \in Caller \ {c}, call'[d] # Idle
        PROVE  /\ order'[call'[d].order] = call'[d].seen
               /\ order'[call'[d].order].provider_order = None
               /\ order'[call'[d].order].status # "none"
    BY <1>2, <2>1, <2>2 DEF StageInv, CallsFresh
  <2> QED BY <1>2, <2>2 DEF CallsFresh
<1>3. UNCHANGED <<recon, credits>>
  BY DEF Creates, BeginOrder, ProviderCreates, FinishOrder, FailOrder, CrashOrder
<1> DEFINE Goal == CallsFresh' /\ ReconsFresh' /\ OrdersStaged' /\ StatusMatchesAmounts'
<1>4. ASSUME NEW o \in Order, NEW row \in Row, order[o].provider_order = None,
             order' = [order EXCEPT ![o] = row], Staged(o, row, credits)
      PROVE  ReconsFresh' /\ OrdersStaged' /\ StatusMatchesAmounts'
  <2>1. \A p \in Order \ {o} : order'[p] = order[p] BY <1>4 DEF TypeOK
  <2>2. order'[o] = row BY <1>4 DEF TypeOK
  <2>3. \A p \in Order : Staged(p, order'[p], credits') BY <1>1, <1>3, <1>4, <2>1, <2>2
  <2>4. OrdersStaged' /\ StatusMatchesAmounts'
    BY <2>3 DEF OrdersStaged, StatusMatchesAmounts, Staged
  <2>5. recon[o] = Idle BY <1>4 DEF StageInv, ReconsFresh
  <2>6. ReconsFresh' BY <1>3, <2>1, <2>5 DEF StageInv, ReconsFresh
  <2> QED BY <2>4, <2>6
<1>5. ASSUME UNCHANGED order PROVE ReconsFresh' /\ OrdersStaged' /\ StatusMatchesAmounts'
  BY <1>3, <1>5 DEF StageInv, ReconsFresh, OrdersStaged, StatusMatchesAmounts
<1>6. ASSUME NEW o \in Order, BeginOrder(c, o) PROVE Goal
  <2> DEFINE row == [order[o] EXCEPT !.status = IF @ = "none" THEN "creating" ELSE @]
  <2>1. /\ order' = [order EXCEPT ![o] = row] /\ order[o].provider_order = None
        /\ call' = [call EXCEPT ![c] = [order |-> o, seen |-> row, got |-> None]]
    BY <1>6 DEF BeginOrder
  <2>2. /\ row \in Row /\ row.provider_order = order[o].provider_order
        /\ row.payment = order[o].payment /\ row.refunded = order[o].refunded
        /\ row.status = IF order[o].status = "none" THEN "creating" ELSE order[o].status
    <3> DEFINE new == IF order[o].status = "none" THEN "creating" ELSE order[o].status
    <3>1. order[o] \in Row /\ new \in Statuses BY DEF TypeOK, Row, Statuses
    <3>2. row = [order[o] EXCEPT !.status = new] OBVIOUS
    <3> HIDE DEF new, row
    <3>3. /\ row \in Row /\ row.provider_order = order[o].provider_order
          /\ row.payment = order[o].payment /\ row.refunded = order[o].refunded
          /\ row.status = new
      BY <3>1, <3>2 DEF Row
    <3> QED BY <3>3 DEF new
  <2>3. Staged(o, row, credits)
    <3>1. Staged(o, order[o], credits) BY <1>1
    <3> HIDE DEF row
    <3> QED BY <2>1, <2>2, <3>1 DEF Staged
  <2>4. row.status # "none" BY <2>2
  <2> HIDE DEF row
  <2>5. order'[o] = row /\ call'[c] = [order |-> o, seen |-> row, got |-> None]
    BY <2>1 DEF TypeOK
  <2>6. CallsFresh'
    <3>1. \A d \in Caller \ {c} : call'[d] = call[d] BY <2>1 DEF TypeOK
    <3>2. \A p \in Order \ {o} : order'[p] = order[p] BY <2>1 DEF TypeOK
    <3>3. call[c] = Idle BY <1>6 DEF BeginOrder
    <3>4. call'[c] # Idle BY <2>2, <2>5, IdleIsNoCall
    <3> QED BY <1>2, <2>1, <2>2, <2>4, <2>5, <3>1, <3>2, <3>3, <3>4
  <2> QED BY <1>4, <2>1, <2>2, <2>3, <2>6
<1>7. ASSUME NEW p \in ProviderOrder, ProviderCreates(c, p) PROVE Goal
  <2>1. UNCHANGED order /\ call[c] # Idle /\ call' = [call EXCEPT ![c].got = p]
    BY <1>7 DEF ProviderCreates
  <2>2. call[c] \in [order: Order, seen: Row, got: ProviderOrder \cup {None}]
    BY <2>1 DEF TypeOK
  <2>3. call'[c].order = call[c].order /\ call'[c].seen = call[c].seen
    BY <2>1, <2>2 DEF TypeOK
  <2>4. CallsFresh'
    <3>1. \A d \in Caller \ {c} : call'[d] = call[d] BY <2>1 DEF TypeOK
    <3> QED BY <1>2, <2>1, <2>2, <2>3, <3>1 DEF StageInv, CallsFresh
  <2> QED BY <1>5, <2>1, <2>4
<1>8. ASSUME FinishOrder(c) \/ FailOrder(c) \/ CrashOrder(c) PROVE Goal
  <2>1. call[c] # Idle /\ call' = [call EXCEPT ![c] = Idle]
    BY <1>8 DEF FinishOrder, FailOrder, CrashOrder
  <2>2. CallsFresh'
    <3>1. call'[c] = Idle /\ \A d \in Caller \ {c} : call'[d] = call[d] BY <2>1 DEF TypeOK
    <3>2. call[c].order \in Order BY <2>1 DEF TypeOK
    <3>3. \A p \in Order \ {call[c].order} : order'[p] = order[p]
      BY <1>8 DEF FinishOrder, FailOrder, CrashOrder, TypeOK
    <3> QED BY <1>2, <2>1, <3>1, <3>2, <3>3
  <2> DEFINE o    == call[c].order
             seen == call[c].seen
             done == [seen EXCEPT !.provider_order = call[c].got, !.status = "created"]
             fail == [seen EXCEPT !.status = "failed"]
  <2>3. /\ o \in Order /\ seen \in Row /\ order[o] = seen
        /\ call[c].got \in ProviderOrder \cup {None}
        /\ order[o].provider_order = None
    BY <2>1 DEF TypeOK, StageInv, CallsFresh
  <2>4. Staged(o, seen, credits) /\ o \notin credits /\ seen.payment = None
    BY <1>1, <2>3 DEF Staged
  <2>5. /\ done \in Row /\ fail \in Row
        /\ done.provider_order = call[c].got /\ done.payment = seen.payment
        /\ done.refunded = seen.refunded /\ done.status = "created"
        /\ fail.provider_order = seen.provider_order /\ fail.payment = seen.payment
        /\ fail.refunded = seen.refunded /\ fail.status = "failed"
    BY <2>3 DEF Row, Statuses
  <2> DEFINE Kept == ReconsFresh' /\ OrdersStaged' /\ StatusMatchesAmounts'
  <2>6. ASSUME FinishOrder(c) PROVE Kept
    <3>1. call[c].got # None /\ order' = [order EXCEPT ![o] = Flush(order[o], seen, done)]
      BY <2>6 DEF FinishOrder
    <3>2. Flush(order[o], seen, done) = done BY <2>3, <2>5, FlushFresh
    <3> HIDE DEF o, seen, done, fail
    <3>3. Staged(o, done, credits) BY <2>4, <2>5, <3>1 DEF Staged
    <3> QED BY <1>4, <2>3, <2>5, <3>1, <3>2, <3>3
  <2>7. ASSUME FailOrder(c) PROVE Kept
    <3>1. order' = [order EXCEPT ![o] = Flush(order[o], seen, fail)]
      BY <2>7 DEF FailOrder
    <3>2. Flush(order[o], seen, fail) = fail BY <2>3, <2>5, FlushFresh
    <3> HIDE DEF o, seen, done, fail
    <3>3. Staged(o, fail, credits) BY <2>3, <2>4, <2>5 DEF Staged
    <3> QED BY <1>4, <2>3, <2>5, <3>1, <3>2, <3>3
  <2>8. ASSUME CrashOrder(c) PROVE Kept BY <1>5, <2>8 DEF CrashOrder
  <2> HIDE DEF Kept
  <2>9. Kept BY <1>8, <2>6, <2>7, <2>8
  <2> QED BY <2>2, <2>9 DEF Kept
<1> HIDE DEF Goal
<1>9. Goal BY <1>6, <1>7, <1>8 DEF Creates
<1> QED BY <1>9 DEF Goal

\* Crediting an order keeps everything staged.
LEMMA StageCredits ==
  ASSUME IInv, StageInv, [Next]_vars, ~Overlap,
         NEW o \in Order, NEW x \in Payment, Credits(o, x)
  PROVE  StageInv'
<1> TypeOK BY DEF IInv
<1>1. RefundsFit' BY FitStep DEF StageInv
<1>2. /\ UNCHANGED <<call, recon>> /\ recon[o] = Idle
  BY DEF Credits, Verify, CapturedEvent, Unlocked
<1>3. order[o].provider_order # None
  <2>1. CASE Verify(o, x) BY <2>1 DEF Verify
  <2>2. ASSUME NEW kind \in {"payment.captured", "order.paid"}, NEW named \in BOOLEAN,
               CapturedEvent(kind, named, o, x)
        PROVE  order[o].provider_order # None
    <3>1. Captured(x) /\ order[o].provider_order = payment[x].of
      BY <2>2 DEF CapturedEvent
    <3>2. payment[x].of \in shown /\ shown \subseteq ProviderOrder
      BY <3>1 DEF IInv, Linked, PaymentsLinked, Captured, TypeOK
    <3> QED BY <3>1, <3>2
  <2> QED BY <2>1, <2>2 DEF Credits
<1>4. order[o] \in Row BY DEF TypeOK
<1>5. Staged(o, order[o], credits) BY StagedParts DEF StageInv
<1>6. \E row \in Row : /\ order' = [order EXCEPT ![o] = row]
                       /\ credits' \in {credits, credits \cup {o}}
                       /\ Staged(o, row, credits')
  <2> DEFINE old == order[o]
  <2>1. old \in Row /\ Staged(o, old, credits) /\ old.provider_order # None
    BY <1>3, <1>4, <1>5
  <2>2. /\ order' = [order EXCEPT ![o] = [old EXCEPT !.status = "attempted"]]
              /\ credits' = credits
        \/ /\ order' = [order EXCEPT ![o] = Fulfilled([old EXCEPT !.payment = x])]
           /\ credits' = credits \cup {o}
        \/ /\ order' = [order EXCEPT ![o] = Fulfilled(old)]
           /\ credits' = credits \cup {o}
    BY DEF Credits, Verify, CapturedEvent
  <2> HIDE DEF old
  <2>3. /\ [old EXCEPT !.status = "attempted"] \in Row
        /\ [old EXCEPT !.payment = x] \in Row
    BY <2>1 DEF Row, Statuses
  <2>4. Fulfilled([old EXCEPT !.payment = x]) \in Row /\ Fulfilled(old) \in Row
    BY <2>1, <2>3, RowTypes
  <2>5. /\ Staged(o, [old EXCEPT !.status = "attempted"], credits)
        /\ Staged(o, Fulfilled(old), credits \cup {o})
        /\ Staged(o, Fulfilled([old EXCEPT !.payment = x]), credits \cup {o})
    BY <2>1, StagedWrites
  <2>6. CASE order' = [order EXCEPT ![o] = [old EXCEPT !.status = "attempted"]]
             /\ credits' = credits
    BY <2>3, <2>5, <2>6
  <2>7. CASE order' = [order EXCEPT ![o] = Fulfilled([old EXCEPT !.payment = x])]
             /\ credits' = credits \cup {o}
    BY <2>4, <2>5, <2>7
  <2>8. CASE order' = [order EXCEPT ![o] = Fulfilled(old)]
             /\ credits' = credits \cup {o}
    BY <2>4, <2>5, <2>8
  <2> QED BY <2>2, <2>6, <2>7, <2>8
<1>7. CallsFresh' /\ ReconsFresh' /\ OrdersStaged' /\ StatusMatchesAmounts'
  BY <1>2, <1>3, <1>6, StageWrites
<1> QED BY <1>1, <1>7 DEF StageInv

\* The event of a refund keeps everything staged.
LEMMA StageEvent ==
  ASSUME IInv, StageInv, [Next]_vars, ~Overlap,
         NEW o \in Order, NEW x \in Payment, NEW f \in Refund, RefundEvent(o, x, f)
  PROVE  StageInv'
<1> TypeOK /\ Countable BY DEF IInv
<1>1. RefundsFit' BY FitStep DEF StageInv
<1>2. /\ UNCHANGED <<call, recon>> /\ recon[o] = Idle
  BY DEF RefundEvent, Unlocked
<1>3. Staged(o, order[o], credits) /\ order[o] \in Row BY StagedParts DEF StageInv, TypeOK
<1>4. order[o].provider_order # None
  <2>1. CASE order[o].payment = x BY <1>3, <2>1 DEF Staged
  <2>2. CASE order[o].payment # x
    <3>1. f \in payment[x].refunds /\ order[o].provider_order = payment[x].of
      BY <2>2 DEF RefundEvent
    <3>2. Captured(x) BY <3>1 DEF IInv, Linked, PaymentsLinked
    <3>3. payment[x].of \in shown /\ shown \subseteq ProviderOrder
      BY <3>2 DEF IInv, Linked, PaymentsLinked, Captured, TypeOK
    <3> QED BY <3>1, <3>3
  <2> QED BY <2>1, <2>2
<1>5. /\ BaseRow(o, x) \in Row /\ BaseRow(o, x).provider_order # None
      /\ Staged(o, BaseRow(o, x), credits') /\ o \in credits'
      /\ credits' \in {credits, credits \cup {o}}
      /\ BaseRow(o, x).refunded = order[o].refunded
  <2> DEFINE old == order[o]
  <2>1. /\ old \in Row /\ Staged(o, old, credits) /\ old.provider_order # None
    BY <1>3, <1>4
  <2>2. BaseRow(o, x) = IF old.payment = x THEN old
                        ELSE Fulfilled([old EXCEPT !.payment = x])
    BY DEF BaseRow
  <2>3. credits' = IF old.payment = x THEN credits ELSE credits \cup {o}
    BY EventParts
  <2> HIDE DEF old
  <2>4. Staged(o, BaseRow(o, x), credits')
    BY <2>1, <2>2, <2>3, StagedWrites
  <2>5. o \in credits' BY <2>1, <2>3 DEF Staged
  <2>6. BaseRow(o, x).refunded = old.refunded
    BY <2>1, <2>2 DEF Row, Fulfilled
  <2>7. BaseRow(o, x).provider_order # None
    BY <2>1, <2>2 DEF Row, Fulfilled
  <2> QED BY <2>3, <2>4, <2>5, <2>6, <2>7, EventTypes DEF old
<1>6. \E row \in Row : /\ order' = [order EXCEPT ![o] = row]
                       /\ Staged(o, row, credits')
  <2>1. EventRow(o, x, f) \in Row BY EventTypes
  <2>2. CASE f \in order[o].refund_ids
    <3>1. order' = [order EXCEPT ![o] = BaseRow(o, x)] BY <2>2, EventParts
    <3> QED BY <1>5, <3>1
  <2>3. CASE f \notin order[o].refund_ids
    <3> DEFINE base == BaseRow(o, x)
               total == EventTotal(o)
    <3>1. EventRow(o, x, f) = [Refunded(base, total) EXCEPT !.refund_ids = @ \cup {f}]
      BY DEF EventRow
    <3>2. total <= Gross BY <2>3, EventParts
    <3>3. total = order[o].refunded + RefundPaise /\ order[o].refunded \in Nat
      BY <1>3 DEF EventTotal, Row
    <3>4. base \in Row /\ base.refunded = order[o].refunded BY <1>5
    <3>5. total \in 1 .. Gross /\ total > base.refunded BY <3>2, <3>3, <3>4
    <3>6. Staged(o, Refunded(base, total), credits')
      BY <1>5, <3>4, <3>5, StagedWrites
    <3>7. Refunded(base, total) \in Row BY <3>4, <3>5, RowTypes
    <3> DEFINE row == Refunded(base, total)
               new == EventRow(o, x, f)
    <3>8. /\ row \in Row /\ Staged(o, row, credits')
          /\ new = [row EXCEPT !.refund_ids = @ \cup {f}]
      BY <3>1, <3>6, <3>7
    <3> HIDE DEF row, new
    <3>9. /\ new.provider_order = row.provider_order /\ new.payment = row.payment
          /\ new.refunded = row.refunded /\ new.status = row.status
      BY <3>8 DEF Row
    <3>10. Staged(o, new, credits') BY <3>8, <3>9 DEF Staged
    <3>11. order' = [order EXCEPT ![o] = EventRow(o, x, f)] BY <2>3, EventParts
    <3> QED BY <2>1, <3>10, <3>11 DEF new
  <2> QED BY <2>2, <2>3
<1>7. CallsFresh' /\ ReconsFresh' /\ OrdersStaged' /\ StatusMatchesAmounts'
  BY <1>2, <1>4, <1>5, <1>6, StageWrites
<1> QED BY <1>1, <1>7 DEF StageInv

\* A reconciliation keeps everything staged: what it loaded is still so.
LEMMA StageReconciles ==
  ASSUME IInv, StageInv, [Next]_vars, NEW o \in Order, Reconciles(o)
  PROVE  StageInv'
<1> TypeOK /\ Countable BY DEF IInv
<1>1. RefundsFit' BY FitStep DEF StageInv
<1>2. UNCHANGED call
  BY DEF Reconciles, ReconcileLoad, ReconcileRead, ReconcileCommit, ReconcileAbort
<1>3. ASSUME UNCHANGED <<order, credits>>
      PROVE  CallsFresh' /\ OrdersStaged' /\ StatusMatchesAmounts'
  BY <1>2, <1>3 DEF StageInv, CallsFresh, OrdersStaged, StatusMatchesAmounts
<1> DEFINE Goal == CallsFresh' /\ ReconsFresh' /\ OrdersStaged' /\ StatusMatchesAmounts'
<1>4. ASSUME ReconcileLoad(o) PROVE Goal
  <2> DEFINE look == [step |-> "loaded", seen |-> order[o], pays |-> {},
                      found |-> FALSE, refunded |-> 0, already |-> 0]
  <2>1. /\ recon' = [recon EXCEPT ![o] = look] /\ UNCHANGED <<order, credits>>
        /\ order[o].status \notin {"none", "creating", "failed"}
    BY <1>4 DEF ReconcileLoad
  <2>2. order[o].provider_order # None BY <2>1 DEF StageInv, OrdersStaged
  <2>3. look.seen = order[o] /\ look.refunded <= Gross OBVIOUS
  <2> HIDE DEF look
  <2>4. recon'[o] = look /\ \A p \in Order \ {o} : recon'[p] = recon[p]
    BY <2>1 DEF TypeOK
  <2>5. ReconsFresh' BY <2>1, <2>2, <2>3, <2>4 DEF StageInv, ReconsFresh
  <2> QED BY <1>3, <2>1, <2>5
<1>5. ASSUME ReconcileRead(o) PROVE Goal
  <2> DEFINE seen == recon[o].seen
             due  == /\ seen.status \in {"created", "attempted", "captured"}
                     /\ seen.provider_order # None
             pays == IF due THEN { x \in PaymentsOf(seen.provider_order) : Captured(x) }
                     ELSE {}
             paid == pays \cup ({seen.payment} \ {None})
             back == IF paid = {} THEN 0 ELSE RefundedAt(CHOOSE x \in paid : TRUE)
             look == [recon[o] EXCEPT !.step = "read", !.pays = pays,
                                      !.found = o \in credits, !.refunded = back,
                                      !.already = Reversed(o)]
  <2>1. /\ recon' = [recon EXCEPT ![o] = look] /\ recon[o] # Idle
        /\ UNCHANGED <<order, credits>>
    BY <1>5 DEF ReconcileRead
  <2>2. recon[o] \in Open /\ seen \in Row BY <2>1 DEF TypeOK, Open
  <2>3. paid \subseteq Payment BY <2>2 DEF Row, PaymentsOf
  <2>4. paid # {} => (CHOOSE x \in paid : TRUE) \in Payment BY <2>3
  <2>5. back <= Gross
    <3>1. \A x \in Payment : RefundedAt(x) <= Gross BY DEF StageInv, RefundsFit
    <3>2. 0 <= Gross OBVIOUS
    <3> HIDE DEF paid
    <3> QED BY <2>4, <3>1, <3>2
  <2> HIDE DEF pays, back
  <2>6. look.seen = recon[o].seen /\ look.refunded = back BY <2>2 DEF Open
  <2> HIDE DEF look
  <2>7. recon'[o] = look /\ \A p \in Order \ {o} : recon'[p] = recon[p]
    BY <2>1 DEF TypeOK
  <2>8. ReconsFresh' BY <2>1, <2>5, <2>6, <2>7 DEF StageInv, ReconsFresh
  <2> QED BY <1>3, <2>1, <2>8
<1>6. ASSUME ReconcileCommit(o) PROVE Goal
  <2>1. /\ recon[o] # Idle
        /\ order' = [order EXCEPT ![o] = Flush(order[o], recon[o].seen, ReconRow(o))]
        /\ credits' = IF Pays(o) THEN credits \cup {o} ELSE credits
        /\ recon' = [recon EXCEPT ![o] = Idle]
    BY <1>6, ReconParts
  <2>2. /\ recon[o].seen = order[o] /\ order[o].provider_order # None
        /\ recon[o].refunded <= Gross
    BY <2>1 DEF StageInv, ReconsFresh
  <2>3. ReconRow(o) \in Row /\ order[o] \in Row /\ PaidRow(o) \in Row
    BY <2>1, ReconTypes DEF TypeOK
  <2>4. order' = [order EXCEPT ![o] = ReconRow(o)]
    BY <2>1, <2>2, <2>3, FlushFresh
  <2>5. Staged(o, order[o], credits) BY StagedParts DEF StageInv
  <2>6. Staged(o, PaidRow(o), credits')
    <3>1. CASE Pays(o)
      <4>1. (CHOOSE x \in recon[o].pays : TRUE) \in Payment
        <5>1. recon[o].pays # {} /\ recon[o].pays \subseteq Payment
          BY <2>1, <3>1, ReconTypes DEF Open
        <5> QED BY <5>1
      <4> DEFINE x == CHOOSE y \in recon[o].pays : TRUE
      <4>2. PaidRow(o) = Fulfilled([order[o] EXCEPT !.payment = x])
        BY <2>2, <3>1 DEF PaidRow
      <4> HIDE DEF x
      <4>3. x \in Payment BY <4>1 DEF x
      <4>4. Staged(o, Fulfilled([order[o] EXCEPT !.payment = x]), credits \cup {o})
        BY <2>2, <2>3, <2>5, <4>3, StagedWrites
      <4> QED BY <2>1, <3>1, <4>2, <4>4
    <3>2. CASE ~Pays(o)
      <4>1. PaidRow(o) = order[o] BY <2>2, <3>2 DEF PaidRow
      <4> QED BY <2>1, <2>5, <3>2, <4>1
    <3> QED BY <3>1, <3>2
  <2>7. Staged(o, ReconRow(o), credits')
    <3> DEFINE row == PaidRow(o)
               total == recon[o].refunded
    <3>1. row \in Row /\ Staged(o, row, credits') BY <2>3, <2>6
    <3>2. row.provider_order # None BY <2>1, <2>2, ReconTypes
    <3>3. total \in Nat /\ total <= Gross BY <2>1, <2>2 DEF TypeOK, Open
    <3>4. RefundDue(o) => row.payment # None /\ total > row.refunded
      BY DEF RefundDue
    <3>5. ReconRow(o) = IF RefundDue(o) THEN Refunded(row, total) ELSE row
      BY DEF ReconRow
    <3> HIDE DEF row, total
    <3>6. CASE RefundDue(o)
      <4>1. o \in credits' BY <3>1, <3>4, <3>6 DEF Staged
      <4>2. row.refunded \in Nat BY <3>1 DEF Row
      <4>3. total \in 1 .. Gross /\ total > row.refunded BY <3>3, <3>4, <3>6, <4>2
      <4>4. Staged(o, Refunded(row, total), credits')
        BY <3>1, <3>2, <4>1, <4>3, StagedWrites
      <4> QED BY <3>5, <3>6, <4>4
    <3>7. CASE ~RefundDue(o) BY <3>1, <3>5, <3>7
    <3> QED BY <3>6, <3>7
  <2>8. recon'[o] = Idle /\ \A p \in Order \ {o} : recon'[p] = recon[p]
    BY <2>1 DEF TypeOK
  <2>9. credits' \in {credits, credits \cup {o}} BY <2>1
  <2> HIDE DEF Goal
  <2>10. Goal
    BY <1>2, <2>2, <2>3, <2>4, <2>7, <2>8, <2>9, StageWrites DEF Goal
  <2> QED BY <2>10
<1>7. ASSUME ReconcileAbort(o) PROVE Goal
  <2>1. recon' = [recon EXCEPT ![o] = Idle] /\ UNCHANGED <<order, credits>>
    BY <1>7 DEF ReconcileAbort
  <2>2. ReconsFresh' BY <2>1 DEF StageInv, ReconsFresh, TypeOK
  <2> QED BY <1>3, <2>1, <2>2
<1> HIDE DEF Goal
<1>8. Goal BY <1>4, <1>5, <1>6, <1>7 DEF Reconciles
<1> QED BY <1>1, <1>8 DEF Goal, StageInv

\* Every step keeps the orders staged.
LEMMA StageStep ==
  ASSUME IInv, StageInv, [Next]_vars, ~Overlap, OneCallPerOrder, OneCallPerOrder'
  PROVE  StageInv'
<1> TypeOK BY DEF IInv
<1>1. RefundsFit' BY FitStep DEF StageInv
<1>2. ASSUME UNCHANGED <<order, credits, call, recon>> PROVE StageInv'
  BY <1>1, <1>2
  DEF StageInv, CallsFresh, ReconsFresh, OrdersStaged, StatusMatchesAmounts
<1>3. ASSUME NEW c \in Caller, Creates(c) PROVE StageInv'
  BY <1>1, <1>3, StageCreates DEF StageInv
<1>4. ASSUME Outside PROVE StageInv'
  BY <1>2, <1>4 DEF Outside, Attempt, Capture, RefundPayment, Reserve, Spend
<1>5. ASSUME UNCHANGED vars PROVE StageInv' BY <1>2, <1>5 DEF vars
<1> QED BY <1>3, <1>4, <1>5, StageCredits, StageEvent, StageReconciles, Steps

\* No order is created, and nothing is refunded, at first.
LEMMA StageInit == Init => StageInv
<1> SUFFICES ASSUME Init PROVE StageInv OBVIOUS
<1>1. CallsFresh /\ ReconsFresh BY DEF Init, CallsFresh, ReconsFresh
<1>2. OrdersStaged BY DEF Init, OrdersStaged, NoRow
<1>3. RefundsFit
  <2>1. \A x \in Payment : RefundedAt(x) = RefundPaise * 0
    BY FS_EmptySet DEF Init, RefundedAt
  <2>2. RefundPaise * 0 = 0 /\ 0 <= Gross OBVIOUS
  <2> QED BY <2>1, <2>2 DEF RefundsFit
<1>4. StatusMatchesAmounts BY DEF Init, StatusMatchesAmounts, NoRow
<1> QED BY <1>1, <1>2, <1>3, <1>4 DEF StageInv

\* As long as an order is created by one call at a time and reconciliations
\* keep apart from its handlers, the states the financial audit calls
\* inconsistent (audit.py:148-165) are not reached, except for a paid order that
\* a verification marks attempted: for any number of payments and refunds.
THEOREM StatusTells ==
  ASSUME ~Overlap
  PROVE  Spec /\ []OneCallPerOrder => []StatusMatchesAmounts
<1>1. IInv /\ StageInv /\ OneCallPerOrder /\ OneCallPerOrder' /\ [Next]_vars => StageInv'
  BY StageStep
<1>2. StageInv => StatusMatchesAmounts BY DEF StageInv
<1> QED BY <1>1, <1>2, InvInit, InvStep, StageInit, PTL DEF Spec
=============================================================================
