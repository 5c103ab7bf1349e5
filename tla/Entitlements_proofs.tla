------------------------- MODULE Entitlements_proofs -------------------------
(* What Entitlements guarantees for all users, orders and owners, every     *)
(* number of transactions at the same time, and all lengths and amounts.    *)
EXTENDS Entitlements, WellFoundedInduction, TLAPS

USE EntitlementSets, EntitlementAmounts, NoneIsNoRow

-----------------------------------------------------------------------------
(* The invariants.                                                           *)

\* The periods that stand end some time.
Bounded == \E b \in Nat : \A k \in Kinds \X Orders : period[k] # None => period[k].to <= b

\* A transaction that refunds an order is not a verification, and a webhook
\* that does has the notice of a refund, which no verification has.
RefundKnown(j) ==
    /\ j.task = "verify" => ~Refunds(j.notice)
    /\ j.at = "refund" => /\ j.task \in {"webhook", "reconcile"}
                          /\ j.task = "webhook" => Refunds(j.notice)

RefundsKnown == \A h \in Handlers : Busy(h) => RefundKnown(job[h])

Shaped == TypeOK /\ Bounded /\ RefundsKnown

-----------------------------------------------------------------------------
(* The later of two, or of many, times.                                      *)

\* Of naturals that have a bound one is the largest.
LEMMA MaxBounded ==
  ASSUME NEW S \in SUBSET Nat, S # {}, NEW b \in Nat, \A x \in S : x <= b
  PROVE  Max(S) \in S /\ \A x \in S : x <= Max(S)
<1> DEFINE T == {n \in Nat : \A x \in S : x <= n}
<1>1. \E m \in T : \A n \in T : m <= n
  <2> DEFINE R == OpToRel(<, Nat)
  <2>1. IsWellFoundedOn(R, Nat) BY NatLessThanWellFounded
  <2>2. T \subseteq Nat /\ T # {} OBVIOUS
  <2>3. \A m, n \in Nat : n < m => <<n, m>> \in R BY DEF OpToRel
  <2> HIDE DEF T, R
  <2>6. \E m \in T : \A n \in T : ~ (<<n, m>> \in R)
    BY ONLY <2>1, <2>2, WFMin, Zenon
  <2>4. PICK m \in T : \A n \in T : ~ (<<n, m>> \in R) BY <2>6
  <2>5. ASSUME NEW n \in T PROVE m <= n
    <3>1. m \in Nat /\ n \in Nat BY <2>2
    <3>2. ~ (n < m) BY ONLY <2>3, <2>4, <3>1, <2>5, Zenon
    <3> QED BY <3>1, <3>2
  <2> QED BY <2>5
<1>2. PICK m \in T : \A n \in T : m <= n BY <1>1
<1>3. m \in S
  <2> SUFFICES ASSUME m \notin S PROVE FALSE OBVIOUS
  <2>1. PICK y \in S : TRUE OBVIOUS
  <2>2. \A x \in S : x <= m /\ x # m /\ x \in Nat BY <1>2
  <2>3. m - 1 \in Nat BY <2>1, <2>2
  <2>4. \A x \in S : x <= m - 1 BY <2>2
  <2>5. m - 1 \in T BY <2>3, <2>4
  <2> QED BY <1>2, <2>5
<1>4. \A x \in S : x <= m BY <1>2
<1>5. m \in S /\ \A y \in S : m >= y BY <1>3, <1>4
<1>6. Max(S) \in S /\ \A y \in S : Max(S) >= y BY <1>5 DEF Max
<1> QED BY <1>6

\* The larger of two naturals.
LEMMA MaxOfTwo ==
  ASSUME NEW m \in Nat, NEW n \in Nat
  PROVE  Max({m, n}) = IF m < n THEN n ELSE m
<1> DEFINE top == IF m < n THEN n ELSE m
<1>1. top \in {m, n} /\ \A y \in {m, n} : top >= y OBVIOUS
<1>2. Max({m, n}) \in {m, n} /\ \A y \in {m, n} : Max({m, n}) >= y
  BY <1>1 DEF Max
<1> QED BY <1>2

-----------------------------------------------------------------------------
(* The steps, by what they change.                                           *)

Begins(h) ==
    \/ \E n \in notices : Webhook(h, n)
    \/ \E o \in Orders : Verify(h, o) \/ Reconcile(h, o)

Moves(h) ==
    \/ LockOrder(h) \/ Fulfil(h) \/ Place(h) \/ Reward(h)
    \/ RefundPart(h) \/ RefundWhole(h)

Ends(h) == Reject(h) \/ CommitTwice(h) \/ Abort(h)

\* These are all steps there are.
LEMMA Steps ==
  ASSUME [Next]_vars
  PROVE  \/ \E h \in Handlers : Begins(h) \/ Moves(h) \/ Ends(h) \/ Commit(h)
         \/ Outside
         \/ UNCHANGED vars
BY DEF Next, Transacts, Begins, Moves, Ends

-----------------------------------------------------------------------------
(* Type correctness.                                                         *)

\* A transaction locks rows.
LEMMA WantsTypes ==
  ASSUME TypeOK, NEW h \in Handlers
  PROVE  /\ Wants(h) \subseteq Resources
         /\ At(h, "purchase") => Wants(h) = Periods(Owner[Of(h)])
         /\ At(h, "reward") /\ Rewarded(Of(h)) # None =>
               Wants(h) = Periods(Rewarded(Of(h)))
<1>1. Busy(h) => Of(h) \in Orders /\ Owner[Of(h)] \in Users
  BY DEF TypeOK, Busy, Of, Transaction, Notice
<1>2. \A o \in Orders : Rewarded(o) \in Users \cup {None}
  BY DEF TypeOK, Rewarded
<1>3. \A u \in Users : Periods(u) \subseteq Resources
  BY DEF Periods, Live, Resources, Kinds
<1>4. Busy(h) => {Row("order", Of(h)), Row("purchase", Of(h)), Row("reward", Of(h))}
                    \subseteq Resources
  BY <1>1 DEF Row, Resources, Kinds
<1>5. Busy(h) => WriteRows(h) \subseteq Resources
  BY <1>4 DEF WriteRows
<1>6. CASE At(h, "order") \/ At(h, "place")
  <2>1. Wants(h) = {Row("order", Of(h))} BY <1>6 DEF Wants, At
  <2> QED BY <1>4, <1>6, <2>1 DEF At
<1>7. CASE At(h, "purchase")
  <2>1. Wants(h) = Periods(Owner[Of(h)]) BY <1>7 DEF Wants, At
  <2> QED BY <1>1, <1>3, <1>7, <2>1 DEF At
<1>8. CASE At(h, "reward")
  <2>1. Rewarded(Of(h)) # None => Wants(h) = Periods(Rewarded(Of(h)))
    BY <1>8 DEF Wants, At
  <2>2. Rewarded(Of(h)) = None => Wants(h) = {} BY <1>8 DEF Wants, At
  <2> QED BY <1>1, <1>2, <1>3, <1>8, <2>1, <2>2 DEF At
<1>9. CASE At(h, "refund")
  <2>1. Wants(h) = {Row("purchase", Of(h))} BY <1>9 DEF Wants, At
  <2> QED BY <1>4, <1>9, <2>1 DEF At
<1>10. CASE At(h, "write")
  <2>1. Wants(h) = WriteRows(h) BY <1>10 DEF Wants, At
  <2> QED BY <1>5, <1>10, <2>1 DEF At
<1>11. CASE \A stage \in Stages : ~At(h, stage)
  <2>1. Wants(h) = {} BY <1>11 DEF Wants, Stages
  <2> QED BY <1>11, <2>1 DEF Stages
<1> QED BY <1>6, <1>7, <1>8, <1>9, <1>10, <1>11 DEF Stages

\* A new period begins when the user's others have ended, and is no shorter
\* than nothing.
LEMMA PeriodAfter ==
  ASSUME TypeOK, Bounded, NEW u \in Users, NEW length \in Nat
  PROVE  /\ NewPeriod(u, length) \in Period
         /\ NewPeriod(u, length).user = u /\ ~NewPeriod(u, length).cancelled
         /\ \A k \in Live(u) : period[k].to <= NewPeriod(u, length).from
<1> DEFINE S == {now} \cup {period[k].to : k \in Live(u)}
           from == Max(S)
<1>1. \A k \in Live(u) : k \in Kinds \X Orders /\ period[k] # None /\ period[k].to \in Nat
  <2> SUFFICES ASSUME NEW k \in Live(u)
               PROVE  k \in Kinds \X Orders /\ period[k] # None /\ period[k].to \in Nat
    OBVIOUS
  <2>1. k \in Kinds \X Orders /\ period[<<k[1], k[2]>>] # None
    BY DEF Live, Alive, Exists, Row
  <2>2. k = <<k[1], k[2]>> BY <2>1
  <2>3. period[k] \in Period BY <2>1, <2>2 DEF TypeOK
  <2> QED BY <2>1, <2>2, <2>3 DEF Period
<1>2. now \in Nat BY DEF TypeOK
<1>3. S \in SUBSET Nat /\ now \in S BY <1>1, <1>2
<1>4. PICK b \in Nat : \A k \in Kinds \X Orders : period[k] # None => period[k].to <= b
  BY DEF Bounded
<1>5. \E c \in Nat : \A x \in S : x <= c
  <2>1. b + now \in Nat /\ now <= b + now BY <1>2
  <2>2. \A k \in Live(u) : period[k].to <= b + now BY <1>1, <1>2, <1>4
  <2> QED BY <2>1, <2>2
<1>6. NewPeriod(u, length) =
        [user |-> u, from |-> from, to |-> from + length, cancelled |-> FALSE]
  BY DEF NewPeriod
<1> HIDE DEF S
<1>7. from \in S /\ \A x \in S : x <= from BY <1>3, <1>5, MaxBounded
<1>8. from \in Nat BY <1>3, <1>7
<1>9. \A k \in Live(u) : period[k].to <= from BY <1>7 DEF S
<1> HIDE DEF from
<1> QED BY <1>6, <1>8, <1>9 DEF Period

\* h goes on as j, with the rows it wanted.
GoesOn(h, j) ==
    /\ j \in Transaction
    /\ RefundKnown(j)
    /\ job' = [job EXCEPT ![h] = j]
    /\ held' \in {held, [held EXCEPT ![h] = @ \cup Wants(h)]}
    /\ UNCHANGED <<orders, outside, notices>>

\* A transaction begins as one.
LEMMA BeginTypes ==
  ASSUME Shaped, NEW h \in Handlers, Begins(h)
  PROVE  \E j : GoesOn(h, j)
<1> USE DEF Shaped
<1>1. ASSUME NEW task \in Tasks, NEW n \in Notice, NEW stage \in Stages, NEW row \in Order
      PROVE  Transact(task, n, stage, row) \in Transaction
  BY <1>1 DEF Transact, Transaction
<1>2. \A o \in Orders : Captured(o) \in Notice BY DEF Captured, Notice
<1>3. NewOrder \in Order BY DEF NewOrder, Order
<1>4. ASSUME NEW n \in notices, Webhook(h, n) PROVE \E j : GoesOn(h, j)
  <2> DEFINE j == Transact("webhook", n, "order", NewOrder)
  <2>1. n \in Notice BY DEF TypeOK
  <2>2. j \in Transaction BY <1>1, <1>3, <2>1 DEF Tasks, Stages
  <2>3. RefundKnown(j) BY DEF RefundKnown, Transact
  <2> QED BY <1>4, <2>2, <2>3 DEF GoesOn, Webhook, Begin
<1>5. ASSUME NEW o \in Orders, Verify(h, o) PROVE \E j : GoesOn(h, j)
  <2> DEFINE j == Transact("verify", Captured(o), "order", NewOrder)
  <2>1. j \in Transaction BY <1>1, <1>2, <1>3 DEF Tasks, Stages
  <2>2. RefundKnown(j) BY DEF RefundKnown, Transact, Captured, Refunds
  <2> QED BY <1>5, <2>1, <2>2 DEF GoesOn, Verify, Begin
<1>6. ASSUME NEW o \in Orders, Reconcile(h, o) PROVE \E j : GoesOn(h, j)
  <2>1. order[o] \in Order BY DEF TypeOK
  <2> DEFINE j == Transact("reconcile", Captured(o), "purchase", order[o])
             k == Transact("reconcile", Captured(o), "refund", order[o])
  <2>2. j \in Transaction /\ k \in Transaction BY <1>1, <1>2, <2>1 DEF Tasks, Stages
  <2>3. RefundKnown(j) /\ RefundKnown(k) BY DEF RefundKnown, Transact, Captured, Refunds
  <2>4. Begin(h, j) \/ Begin(h, k) BY <1>6 DEF Reconcile
  <2> HIDE DEF j, k
  <2> QED BY <2>2, <2>3, <2>4 DEF GoesOn, Begin
<1> QED BY <1>4, <1>5, <1>6 DEF Begins

\* What a refund makes of the order's row.
LEMMA BookedTypes ==
  ASSUME Shaped, NEW h \in Handlers, At(h, "refund"), Total(h) <= Gross
  PROVE  /\ Booked(h, Total(h)) \in Order
         /\ Booked(h, Total(h)).status = IF Total(h) = Gross THEN "refunded"
                                         ELSE "partially_refunded"
<1> DEFINE j == job[h]
           total == Total(h)
<1>1. /\ j \in Transaction /\ j.row \in Order /\ j.notice \in Notice
      /\ j.task \in {"webhook", "reconcile"}
      /\ j.task = "webhook" => j.notice.id \in 1 .. Gross
  BY DEF Shaped, TypeOK, At, Busy, RefundsKnown, RefundKnown, Refunds, Transaction, Notice
<1>2. issued[Of(h)] \in 0 .. Gross
  BY <1>1 DEF Shaped, TypeOK, Of, Notice
<1>3. total \in 0 .. Gross
  BY <1>1, <1>2 DEF Total, Order, Notice
<1>4. Max({j.row.refunded, total}) \in 0 .. Gross
  BY <1>1, <1>3, MaxOfTwo DEF Order
<1> DEFINE row == j.row
           ids == IF j.task = "webhook" THEN row.ids \cup {j.notice.id} ELSE row.ids
           mark == row.review \/ (j.task = "reconcile" /\ total < Gross)
           state == IF total = Gross THEN "refunded" ELSE "partially_refunded"
           back == Max({row.refunded, total})
<1>5. Booked(h, total) = [row EXCEPT !.refunded = back, !.status = state,
                                     !.ids = ids, !.review = mark]
  BY DEF Booked
<1>6. ids \subseteq 1 .. Gross /\ mark \in BOOLEAN /\ back \in 0 .. Gross
  BY <1>1, <1>4 DEF Order
<1>7. state \in {"created", "fulfilled", "partially_refunded", "refunded"} OBVIOUS
<1>8. row \in Order BY <1>1
<1> HIDE DEF ids, mark, back, state, row
<1>9. Booked(h, total) \in Order /\ Booked(h, total).status = state
  BY <1>5, <1>6, <1>7, <1>8 DEF Order
<1> QED BY <1>9 DEF state

\* A transaction that goes on is one.
LEMMA MoveTypes ==
  ASSUME Shaped, NEW h \in Handlers, Moves(h)
  PROVE  \E j : GoesOn(h, j)
<1> USE DEF Shaped
<1>1. /\ Busy(h) /\ job[h] \in Transaction /\ job[h].row \in Order
      /\ Of(h) \in Orders /\ job[h].notice \in Notice
  <2>1. Busy(h)
    BY DEF Moves, LockOrder, Fulfil, Place, Reward, RefundPart, RefundWhole, At
  <2> QED BY <2>1 DEF Busy, TypeOK, Transaction, Of, Notice
<1>2. Owner[Of(h)] \in Users BY <1>1
<1> DEFINE old == job[h]
<1>20. RefundKnown(old) BY <1>1 DEF RefundsKnown
<1>3. \A j : Step(h, j) /\ j \in Transaction /\ RefundKnown(j) => GoesOn(h, j)
  BY DEF Step, GoesOn
<1>4. ASSUME LockOrder(h) PROVE \E j : GoesOn(h, j)
  <2> DEFINE o == order[old.notice.order]
             goto == IF o.status = "created" THEN "purchase"
                     ELSE IF Refunds(old.notice) /\ old.notice.id \notin o.ids
                          THEN "refund" ELSE "write"
             j == [old EXCEPT !.row = o, !.read = o, !.at = goto]
  <2>1. Step(h, j) BY <1>4 DEF LockOrder
  <2>2. o \in Order BY <1>1 DEF TypeOK, Of
  <2>3. goto \in Stages /\ (goto = "refund" => Refunds(old.notice)) BY DEF Stages
  <2>4. RefundKnown(old) /\ old.task \in Tasks
    BY <1>1, <1>20 DEF Transaction
  <2> HIDE DEF o, goto
  <2>5. j \in Transaction /\ RefundKnown(j)
    BY <1>1, <2>2, <2>3, <2>4 DEF Transaction, RefundKnown, Tasks
  <2> HIDE DEF j
  <2> QED BY <1>3, <2>1, <2>5
<1>5. ASSUME Fulfil(h) PROVE \E j : GoesOn(h, j)
  <2> DEFINE new  == ~Exists("purchase", Of(h))
             made == IF new THEN NewPeriod(Owner[Of(h)], Length) ELSE None
             row  == [old.row EXCEPT !.status = "fulfilled"]
             goto == IF new /\ old.task = "reconcile" THEN "place" ELSE "reward"
             j == [old EXCEPT !.purchase = made, !.row = row, !.at = goto]
  <2>1. Step(h, j) BY <1>5 DEF Fulfil
  <2>2. made \in Period \cup {None} BY <1>2, PeriodAfter
  <2>3. row \in Order BY <1>1 DEF Order
  <2>4. goto \in Stages /\ goto # "refund" BY DEF Stages
  <2> HIDE DEF new, made, row, goto
  <2>5. j \in Transaction /\ RefundKnown(j)
    BY <1>1, <1>20, <2>2, <2>3, <2>4 DEF Transaction, RefundKnown
  <2> HIDE DEF j
  <2> QED BY <1>3, <2>1, <2>5
<1>6. ASSUME Place(h) PROVE \E j : GoesOn(h, j)
  <2> DEFINE j == [old EXCEPT !.at = "reward"]
  <2>1. Step(h, j) BY <1>6 DEF Place
  <2>2. j \in Transaction /\ RefundKnown(j)
    BY <1>1, <1>20 DEF Transaction, RefundKnown, Stages
  <2> HIDE DEF j
  <2> QED BY <1>3, <2>1, <2>2
<1>7. ASSUME Reward(h) PROVE \E j : GoesOn(h, j)
  <2> DEFINE u == Rewarded(Of(h))
             made == IF u = None THEN None ELSE NewPeriod(u, RewardLength)
             goto == AfterFulfilment(h)
             j == [old EXCEPT !.reward = made, !.at = goto]
  <2>1. Step(h, j) BY <1>7 DEF Reward
  <2>2. u \in Users \cup {None} BY <1>2 DEF Rewarded, TypeOK
  <2>3. made \in Period \cup {None} BY <2>2, PeriodAfter
  <2>4. /\ goto \in Stages
        /\ goto = "refund" => \/ old.task = "webhook" /\ Refunds(old.notice)
                              \/ old.task = "reconcile"
    BY DEF Stages, AfterFulfilment
  <2> HIDE DEF u, made, goto
  <2>5. j \in Transaction /\ RefundKnown(j)
    BY <1>1, <1>20, <2>3, <2>4 DEF Transaction, RefundKnown
  <2> HIDE DEF j
  <2> QED BY <1>3, <2>1, <2>5
<1>8. ASSUME RefundPart(h) PROVE \E j : GoesOn(h, j)
  <2> DEFINE row == Booked(h, Total(h))
             j == [old EXCEPT !.row = row, !.at = "write"]
  <2>1. /\ job' = [job EXCEPT ![h] = j]
        /\ UNCHANGED <<orders, outside, notices, held>>
        /\ At(h, "refund") /\ Total(h) < Gross
    BY <1>8 DEF RefundPart
  <2>2. row \in Order
    <3>1. Total(h) \in Nat
      BY <1>1, <2>1 DEF Total, At, TypeOK, Order, Notice
    <3> QED BY <2>1, <3>1, BookedTypes
  <2> HIDE DEF row
  <2>3. j \in Transaction /\ RefundKnown(j)
    BY <1>1, <1>20, <2>2 DEF Transaction, RefundKnown, Stages
  <2> HIDE DEF j
  <2> QED BY <2>1, <2>3 DEF GoesOn
<1>9. ASSUME RefundWhole(h) PROVE \E j : GoesOn(h, j)
  <2> DEFINE row == Booked(h, Total(h))
             back == IF Of(h) \in used THEN "review" ELSE "cancel"
             j == [old EXCEPT !.row = row, !.at = "write", !.back = back]
  <2>1. Step(h, j) /\ At(h, "refund") /\ Total(h) = Gross BY <1>9 DEF RefundWhole
  <2>2. row \in Order BY <2>1, BookedTypes
  <2>3. back \in {"keep", "cancel", "review"} OBVIOUS
  <2> HIDE DEF row, back
  <2>4. j \in Transaction /\ RefundKnown(j)
    BY <1>1, <1>20, <2>2, <2>3 DEF Transaction, RefundKnown, Stages
  <2> HIDE DEF j
  <2> QED BY <1>3, <2>1, <2>4
<1> QED BY <1>4, <1>5, <1>6, <1>7, <1>8, <1>9 DEF Moves

\* What becomes of an entitlement: it is inserted, stays, or is cancelled.
LEMMA BecameTypes ==
  ASSUME TypeOK, NEW h \in Handlers, Busy(h), NEW kind \in Kinds,
         NEW made \in Period \cup {None}
  PROVE  LET old == IF made = None THEN period[Row(kind, Of(h))] ELSE made
             new == Became(h, kind, made)
         IN  /\ new \in Period \cup {None}
             /\ new = None <=> old = None
             /\ new # None => /\ new.user = old.user /\ new.from = old.from
                              /\ new.to = old.to
                              /\ old.cancelled => new.cancelled
             /\ old # None /\ job[h].back = "cancel" => new.cancelled
             /\ old # None /\ kind = "purchase" /\ job[h].back # "keep" => new.cancelled
<1> DEFINE old == IF made = None THEN period[Row(kind, Of(h))] ELSE made
           ends == CASE kind = "purchase" -> job[h].back # "keep"
                     [] OTHER             -> job[h].back = "cancel"
           new == IF old # None /\ ends THEN [old EXCEPT !.cancelled = TRUE] ELSE old
<1>1. Of(h) \in Orders BY DEF TypeOK, Busy, Of, Transaction, Notice
<1>2. old \in Period \cup {None} BY <1>1 DEF TypeOK, Row
<1>3. Became(h, kind, made) = new BY DEF Became
<1>4. /\ job[h].back = "cancel" => ends
      /\ kind = "purchase" /\ job[h].back # "keep" => ends
  OBVIOUS
<1> HIDE DEF old, ends
<1>5. ASSUME old # None
      PROVE  LET gone == [old EXCEPT !.cancelled = TRUE]
             IN  /\ gone \in Period /\ gone.user = old.user /\ gone.from = old.from
                 /\ gone.to = old.to /\ gone.cancelled
  BY <1>2, <1>5 DEF Period
<1>6. old # None => [old EXCEPT !.cancelled = TRUE] # None BY <1>5
<1>7. CASE old # None /\ ends BY <1>2, <1>3, <1>4, <1>5, <1>6, <1>7 DEF old
<1>8. CASE ~ (old # None /\ ends) BY <1>2, <1>3, <1>4, <1>8 DEF old
<1> QED BY <1>7, <1>8

\* What a commit writes into the entitlements.
LEMMA CommitParts ==
  ASSUME TypeOK, NEW h \in Handlers, Commit(h)
  PROVE  /\ At(h, "write") /\ Busy(h) /\ Of(h) \in Orders /\ job[h] \in Transaction
         /\ job[h].purchase \in Period \cup {None} /\ job[h].reward \in Period \cup {None}
         /\ period'[Row("purchase", Of(h))] = Became(h, "purchase", job[h].purchase)
         /\ period'[Row("reward", Of(h))] = Became(h, "reward", job[h].reward)
         /\ \A k \in Kinds \X Orders :
               k \notin {Row("purchase", Of(h)), Row("reward", Of(h))} =>
                  period'[k] = period[k]
         /\ order' = [order EXCEPT ![Of(h)] = Stored(h)]
         /\ job' = [job EXCEPT ![h] = None] /\ held' = [held EXCEPT ![h] = {}]
         /\ notices' \subseteq notices /\ UNCHANGED outside
<1>1. At(h, "write") /\ Busy(h) BY DEF Commit, At
<1>2. job[h] \in Transaction BY <1>1 DEF TypeOK, Busy
<1>3. Of(h) \in Orders BY <1>2 DEF Of, Transaction, Notice
<1>4. job[h].purchase \in Period \cup {None} /\ job[h].reward \in Period \cup {None}
  BY <1>2 DEF Transaction
<1>5. period' = [period EXCEPT
               ![Row("purchase", Of(h))] = Became(h, "purchase", job[h].purchase),
               ![Row("reward", Of(h))]   = Became(h, "reward", job[h].reward)]
  BY DEF Commit
<1>6. Row("purchase", Of(h)) # Row("reward", Of(h)) BY DEF Row
<1>7. /\ Row("purchase", Of(h)) \in Kinds \X Orders
      /\ Row("reward", Of(h)) \in Kinds \X Orders
  BY <1>3 DEF Row, Kinds
<1>8. /\ order' = [order EXCEPT ![Of(h)] = Stored(h)]
      /\ job' = [job EXCEPT ![h] = None] /\ held' = [held EXCEPT ![h] = {}]
      /\ notices' \subseteq notices /\ UNCHANGED outside
  BY DEF Commit, End
<1> QED BY <1>1, <1>2, <1>3, <1>4, <1>5, <1>6, <1>7, <1>8 DEF TypeOK

\* The row the ORM stores is an order.
LEMMA StoredTypes ==
  ASSUME TypeOK, NEW h \in Handlers, Busy(h)
  PROVE  /\ Stored(h) \in Order
         /\ Stored(h).status = IF job[h].row.status = job[h].read.status
                               THEN order[Of(h)].status ELSE job[h].row.status
<1>1. job[h] \in Transaction BY DEF TypeOK, Busy
<1>2. Of(h) \in Orders BY <1>1 DEF Of, Transaction, Notice
<1>3. job[h].row \in Order /\ job[h].read \in Order /\ order[Of(h)] \in Order
  BY <1>1, <1>2 DEF TypeOK, Transaction
<1> QED BY <1>3 DEF Stored, Order

\* A commit keeps the types.
LEMMA CommitTypes ==
  ASSUME TypeOK, Bounded, NEW h \in Handlers, Commit(h)
  PROVE  TypeOK' /\ Bounded'
<1> DEFINE K1 == Row("purchase", Of(h))
           K2 == Row("reward", Of(h))
           new1 == Became(h, "purchase", job[h].purchase)
           new2 == Became(h, "reward", job[h].reward)
<1>1. /\ At(h, "write") /\ Busy(h) /\ Of(h) \in Orders /\ job[h] \in Transaction
      /\ job[h].purchase \in Period \cup {None} /\ job[h].reward \in Period \cup {None}
      /\ period'[K1] = new1 /\ period'[K2] = new2
      /\ \A k \in Kinds \X Orders : k \notin {K1, K2} => period'[k] = period[k]
      /\ order' = [order EXCEPT ![Of(h)] = Stored(h)]
      /\ job' = [job EXCEPT ![h] = None] /\ held' = [held EXCEPT ![h] = {}]
      /\ notices' \subseteq notices /\ UNCHANGED outside
  BY CommitParts
<1>2. new1 \in Period \cup {None} /\ new2 \in Period \cup {None}
  BY <1>1, BecameTypes DEF Kinds
<1> HIDE DEF new1, new2
<1>3. period' \in [Kinds \X Orders -> Period \cup {None}]
  <2>1. DOMAIN period' = Kinds \X Orders /\ period' = [k \in Kinds \X Orders |-> period'[k]]
    BY DEF Commit, TypeOK
  <2>2. \A k \in Kinds \X Orders : period'[k] \in Period \cup {None}
    BY <1>1, <1>2 DEF TypeOK
  <2> QED BY <2>1, <2>2
<1>4. order' \in [Orders -> Order] BY <1>1, StoredTypes DEF TypeOK
<1>5. review' \subseteq Orders BY <1>1 DEF Commit, TypeOK
<1>6. TypeOK' BY <1>1, <1>3, <1>4, <1>5 DEF TypeOK, outside
<1>7. Bounded'
  <2>1. PICK b \in Nat : \A k \in Kinds \X Orders : period[k] # None => period[k].to <= b
    BY DEF Bounded
  <2> DEFINE end(p) == IF p = None THEN 0 ELSE p.to
  <2>2. end(new1) \in Nat /\ end(new2) \in Nat BY <1>2 DEF Period
  <2> DEFINE c == b + end(new1) + end(new2)
  <2>3. /\ c \in Nat /\ b <= c /\ (new1 # None => new1.to <= c)
        /\ (new2 # None => new2.to <= c)
    BY <2>2
  <2> HIDE DEF c
  <2>4. \A k \in Kinds \X Orders : period[k] # None => period[k].to \in Nat
    BY DEF TypeOK, Period
  <2>5. \A k \in Kinds \X Orders : period'[k] # None => period'[k].to <= c
    <3> SUFFICES ASSUME NEW k \in Kinds \X Orders, period'[k] # None
                 PROVE  period'[k].to <= c
      OBVIOUS
    <3>1. CASE k = K1 BY <1>1, <2>3, <3>1
    <3>2. CASE k = K2 BY <1>1, <2>3, <3>2
    <3>3. CASE k \notin {K1, K2}
      <4>1. period'[k] = period[k] BY <1>1, <3>3
      <4> QED BY <2>1, <2>3, <2>4, <4>1
    <3> QED BY <3>1, <3>2, <3>3
  <2> QED BY <2>3, <2>5 DEF Bounded
<1> QED BY <1>6, <1>7

\* The users, Razorpay and the clock keep the types.
LEMMA OutsideTypes ==
  ASSUME TypeOK, Outside
  PROVE  TypeOK' /\ UNCHANGED <<orders, job, held>>
<1>1. UNCHANGED <<orders, job, held>>
  BY DEF Outside, Claim, Attribute, Use, Pay, IssueRefund, Tick, Around
<1>2. ASSUME NEW u \in Users, NEW v \in Users, Claim(u, v) \/ Attribute(u, v)
      PROVE  TypeOK'
  BY <1>1, <1>2 DEF Claim, Attribute, TypeOK, orders
<1>3. ASSUME NEW o \in Orders, Use(o) PROVE TypeOK'
  BY <1>1, <1>3 DEF Use, TypeOK, orders
<1>4. ASSUME NEW o \in Orders, Pay(o) PROVE TypeOK'
  BY <1>1, <1>4 DEF Pay, TypeOK, orders, Captured, Notice
<1>5. ASSUME NEW o \in Orders, NEW amount \in 1 .. Gross, IssueRefund(o, amount)
      PROVE  TypeOK'
  <2>1. issued[o] + amount \in 0 .. Gross BY <1>5 DEF IssueRefund, TypeOK
  <2>2. issued' \in [Orders -> 0 .. Gross] /\ issued'[o] \in 0 .. Gross
    BY <1>5, <2>1 DEF IssueRefund, TypeOK
  <2>3. notices' \subseteq Notice BY <1>5, <2>2 DEF IssueRefund, TypeOK, Notice
  <2> QED BY <1>1, <1>5, <2>2, <2>3 DEF IssueRefund, TypeOK, orders
<1>6. ASSUME Tick PROVE TypeOK'
  BY <1>1, <1>6 DEF Tick, TypeOK, orders
<1> QED BY <1>1, <1>2, <1>3, <1>4, <1>5, <1>6 DEF Outside

\* Every step keeps the types.
LEMMA ShapedStep ==
  ASSUME Shaped, [Next]_vars
  PROVE  Shaped'
<1>1. ASSUME NEW h \in Handlers, NEW j, GoesOn(h, j) PROVE Shaped'
  <2>1. /\ j \in Transaction /\ RefundKnown(j) /\ job' = [job EXCEPT ![h] = j]
        /\ UNCHANGED <<orders, outside, notices>>
    BY <1>1 DEF GoesOn
  <2>2. held' \in [Handlers -> SUBSET Resources]
    BY <1>1, WantsTypes DEF GoesOn, Shaped, TypeOK
  <2>3. TypeOK' BY <2>1, <2>2 DEF Shaped, TypeOK, orders, outside
  <2>4. Bounded' BY <2>1 DEF Shaped, Bounded, orders
  <2>5. RefundsKnown' BY <2>1 DEF Shaped, TypeOK, RefundsKnown, RefundKnown, Refunds, Busy
  <2> QED BY <2>3, <2>4, <2>5 DEF Shaped
<1>2. ASSUME NEW h \in Handlers, job' = [job EXCEPT ![h] = None] PROVE RefundsKnown'
  BY <1>2 DEF Shaped, TypeOK, RefundsKnown, RefundKnown, Refunds, Busy
<1>3. ASSUME NEW h \in Handlers, Ends(h) PROVE Shaped'
  <2>1. End(h) /\ UNCHANGED <<orders, outside, notices>>
    BY <1>3 DEF Ends, Reject, CommitTwice, Abort
  <2>2. TypeOK' BY <2>1 DEF End, Shaped, TypeOK, orders, outside
  <2>3. Bounded' BY <2>1 DEF Shaped, Bounded, orders
  <2> QED BY <1>2, <2>1, <2>2, <2>3 DEF End, Shaped
<1>4. ASSUME NEW h \in Handlers, Commit(h) PROVE Shaped'
  <2>1. job' = [job EXCEPT ![h] = None] BY <1>4 DEF Commit, End
  <2> QED BY <1>2, <1>4, <2>1, CommitTypes DEF Shaped
<1>5. ASSUME UNCHANGED <<orders, job>> PROVE Bounded' /\ RefundsKnown'
  BY <1>5 DEF Shaped, Bounded, orders, RefundsKnown, RefundKnown, Refunds, Busy
<1>6. ASSUME Outside PROVE Shaped'
  <2>1. TypeOK' /\ UNCHANGED <<orders, job, held>> BY <1>6, OutsideTypes DEF Shaped
  <2> QED BY <1>5, <2>1 DEF Shaped
<1>7. ASSUME UNCHANGED vars PROVE Shaped'
  <2>1. UNCHANGED <<orders, job, held, outside, notices>> BY <1>7 DEF vars
  <2>2. TypeOK' BY <2>1 DEF Shaped, TypeOK, orders, outside
  <2> QED BY <1>5, <2>1, <2>2 DEF Shaped
<1>8. ASSUME NEW h \in Handlers, Begins(h) \/ Moves(h) PROVE Shaped'
  <2>1. PICK j : GoesOn(h, j) BY <1>8, BeginTypes, MoveTypes
  <2> QED BY <1>1, <2>1
<1> QED BY <1>3, <1>4, <1>6, <1>7, <1>8, Steps

\* At first there is nothing.
LEMMA ShapedInit == Init => Shaped
<1> SUFFICES ASSUME Init PROVE Shaped OBVIOUS
<1>1. TypeOK BY DEF Init, TypeOK, NewOrder, Order
<1>2. Bounded
  <2>1. \A k \in Kinds \X Orders : period[k] = None BY DEF Init
  <2> QED BY <2>1 DEF Bounded
<1>3. RefundsKnown BY DEF Init, RefundsKnown, Busy
<1> QED BY <1>1, <1>2, <1>3 DEF Shaped

\* Every variable has its type, for every number of transactions at a time.
THEOREM TypeCorrect == Spec => []TypeOK
<1>1. Shaped => TypeOK BY DEF Shaped
<1> QED BY <1>1, ShapedInit, ShapedStep, PTL DEF Spec

-----------------------------------------------------------------------------
(* What a refund takes back.                                                 *)

\* An order that was fulfilled has an entitlement, which stays.
FulfilledExist ==
    \A o \in Orders : order[o].status # "created" => Exists("purchase", o)

\* A transaction inserts entitlements only of an order it read as created, has
\* fulfilled it then, and has something to take back if it refunds all of it.
Fulfils(j) ==
    /\ j.read.status # "created" => Exists("purchase", j.notice.order)
    /\ j.row.status # "created" =>
          Exists("purchase", j.notice.order) \/ j.purchase # None
    /\ j.purchase # None \/ j.reward # None =>
          j.read.status = "created" /\ j.row.status # "created"
    /\ j.row.status = "refunded" /\ j.read.status # "refunded" => j.back # "keep"
    /\ j.at = "order" => j.purchase = None /\ j.reward = None
    /\ j.at \in {"purchase", "place", "reward"} => j.read.status = "created"
    /\ j.at \in {"place", "reward", "refund"} => j.row.status # "created"

JobsFulfil == \A h \in Handlers : Busy(h) => Fulfils(job[h])

BackInv == FulfilledExist /\ JobsFulfil /\ RefundsTakeBack

\* No entitlement is ever deleted.
LEMMA RowsStay ==
  ASSUME Shaped, [Next]_vars, NEW k \in Kinds \X Orders, period[k] # None
  PROVE  period'[k] # None
<1>1. ASSUME NEW h \in Handlers, Commit(h) PROVE period'[k] # None
  <2>1. CASE k = Row("purchase", Of(h))
    BY <1>1, <2>1, CommitParts, BecameTypes DEF Shaped, Kinds
  <2>2. CASE k = Row("reward", Of(h))
    BY <1>1, <2>2, CommitParts, BecameTypes DEF Shaped, Kinds
  <2> QED BY <1>1, <2>1, <2>2, CommitParts DEF Shaped
<1>2. ASSUME UNCHANGED orders PROVE period'[k] # None BY <1>2 DEF orders
<1>3. ASSUME NEW h \in Handlers, Begins(h) \/ Moves(h) PROVE period'[k] # None
  <2>1. PICK j : GoesOn(h, j) BY <1>3, BeginTypes, MoveTypes
  <2> QED BY <1>2, <2>1 DEF GoesOn
<1>4. ASSUME NEW h \in Handlers, Ends(h) PROVE period'[k] # None
  BY <1>2, <1>4 DEF Ends, Reject, CommitTwice, Abort
<1>5. ASSUME Outside PROVE period'[k] # None
  BY <1>2, <1>5, OutsideTypes DEF Shaped
<1> QED BY <1>1, <1>2, <1>3, <1>4, <1>5, Steps DEF vars

\* What a transaction that begins knows.
LEMMA BeginFulfils ==
  ASSUME Shaped, BackInv, NEW h \in Handlers, Begins(h)
  PROVE  \E j : GoesOn(h, j) /\ Fulfils(j)
<1>1. PICK j : GoesOn(h, j) BY BeginTypes
<1>2. job[h] = None /\ job' = [job EXCEPT ![h] = j] /\ job'[h] = j
  BY <1>1 DEF Begins, Webhook, Verify, Reconcile, Begin, Busy, GoesOn, Shaped, TypeOK
<1>3. ASSUME NEW n \in notices, Webhook(h, n) PROVE Fulfils(j)
  <2>1. j = Transact("webhook", n, "order", NewOrder)
    BY <1>2, <1>3 DEF Webhook, Begin, Shaped, TypeOK
  <2> QED BY <2>1 DEF Fulfils, Transact, NewOrder
<1>4. ASSUME NEW o \in Orders, Verify(h, o) PROVE Fulfils(j)
  <2>1. j = Transact("verify", Captured(o), "order", NewOrder)
    BY <1>2, <1>4 DEF Verify, Begin, Shaped, TypeOK
  <2> QED BY <2>1 DEF Fulfils, Transact, NewOrder
<1>5. ASSUME NEW o \in Orders, Reconcile(h, o) PROVE Fulfils(j)
  <2>1. \/ /\ order[o].status = "created"
           /\ j = Transact("reconcile", Captured(o), "purchase", order[o])
        \/ /\ order[o].status # "created"
           /\ j = Transact("reconcile", Captured(o), "refund", order[o])
    BY <1>2, <1>5 DEF Reconcile, Begin, Shaped, TypeOK
  <2>2. order[o].status # "created" => Exists("purchase", o)
    BY DEF BackInv, FulfilledExist
  <2> QED BY <2>1, <2>2 DEF Fulfils, Transact, Captured
<1> QED BY <1>1, <1>3, <1>4, <1>5 DEF Begins

\* What one that goes on knows.
LEMMA MoveFulfils ==
  ASSUME Shaped, BackInv, NEW h \in Handlers, Moves(h)
  PROVE  \E j : GoesOn(h, j) /\ Fulfils(j)
<1>1. PICK j : GoesOn(h, j) BY MoveTypes
<1>2. job'[h] = j BY <1>1 DEF GoesOn, Shaped, TypeOK
<1> DEFINE old == job[h]
<1>3. /\ Busy(h) /\ old \in Transaction /\ old.row \in Order /\ old.read \in Order
      /\ Of(h) \in Orders /\ Fulfils(old) /\ Of(h) = old.notice.order
  <2>1. Busy(h)
    BY DEF Moves, LockOrder, Fulfil, Place, Reward, RefundPart, RefundWhole, At
  <2> QED BY <2>1 DEF Busy, Shaped, TypeOK, Transaction, Of, Notice, BackInv, JobsFulfil
<1>4. \A k : Step(h, k) => j = k BY <1>2 DEF Step, Shaped, TypeOK
<1>5. ASSUME LockOrder(h) PROVE Fulfils(j)
  <2> DEFINE o == order[old.notice.order]
             goto == IF o.status = "created" THEN "purchase"
                     ELSE IF Refunds(old.notice) /\ old.notice.id \notin o.ids
                          THEN "refund" ELSE "write"
  <2>1. Step(h, [old EXCEPT !.row = o, !.read = o, !.at = goto]) /\ old.at = "order"
    BY <1>5 DEF LockOrder, At
  <2>2. o.status # "created" => Exists("purchase", old.notice.order)
    BY <1>3 DEF BackInv, FulfilledExist
  <2>3. /\ goto # "order" /\ (goto = "purchase" => o.status = "created")
        /\ goto \notin {"place", "reward"}
        /\ goto = "refund" => o.status # "created"
    OBVIOUS
  <2> HIDE DEF goto, o
  <2>4. j = [old EXCEPT !.row = o, !.read = o, !.at = goto] BY <1>4, <2>1
  <2>5. /\ j.row = o /\ j.read = o /\ j.at = goto /\ j.notice = old.notice
        /\ j.purchase = old.purchase /\ j.reward = old.reward
    BY <1>3, <2>4 DEF Transaction
  <2>6. j.purchase = None /\ j.reward = None
    BY <1>3, <2>1, <2>5 DEF Fulfils
  <2> QED BY <2>2, <2>3, <2>5, <2>6 DEF Fulfils
<1>6. ASSUME Fulfil(h) PROVE Fulfils(j)
  <2> DEFINE new  == ~Exists("purchase", Of(h))
             made == IF new THEN NewPeriod(Owner[Of(h)], Length) ELSE None
             row  == [old.row EXCEPT !.status = "fulfilled"]
             goto == IF new /\ old.task = "reconcile" THEN "place" ELSE "reward"
  <2>1. Step(h, [old EXCEPT !.purchase = made, !.row = row, !.at = goto])
        /\ old.at = "purchase"
    BY <1>6 DEF Fulfil, At
  <2>2. Exists("purchase", Of(h)) \/ made # None
    <3>1. NewPeriod(Owner[Of(h)], Length) \in Period
      BY <1>3, PeriodAfter DEF Shaped
    <3> QED BY <3>1
  <2>3. row.status = "fulfilled" BY <1>3 DEF Order
  <2>4. goto \in {"place", "reward"} OBVIOUS
  <2>5. old.read.status = "created" BY <1>3, <2>1 DEF Fulfils
  <2> HIDE DEF new, made, row, goto
  <2>6. j = [old EXCEPT !.purchase = made, !.row = row, !.at = goto] BY <1>4, <2>1
  <2>7. /\ j.purchase = made /\ j.row = row /\ j.at = goto /\ j.read = old.read
        /\ j.notice = old.notice
    BY <1>3, <2>6 DEF Transaction
  <2> QED BY <1>3, <2>2, <2>3, <2>4, <2>5, <2>7 DEF Fulfils
<1>7. ASSUME Place(h) PROVE Fulfils(j)
  <2>1. j = [old EXCEPT !.at = "reward"] /\ old.at = "place"
    BY <1>4, <1>7 DEF Place, At
  <2>2. /\ j.purchase = old.purchase /\ j.reward = old.reward /\ j.row = old.row
        /\ j.read = old.read /\ j.notice = old.notice /\ j.back = old.back
        /\ j.at = "reward"
    BY <1>3, <2>1 DEF Transaction
  <2> QED BY <1>3, <2>1, <2>2 DEF Fulfils
<1>8. ASSUME Reward(h) PROVE Fulfils(j)
  <2> DEFINE u == Rewarded(Of(h))
             made == IF u = None THEN None ELSE NewPeriod(u, RewardLength)
             goto == AfterFulfilment(h)
  <2>1. Step(h, [old EXCEPT !.reward = made, !.at = goto]) /\ old.at = "reward"
    BY <1>8 DEF Reward, At
  <2>2. goto \in {"refund", "write"} BY DEF AfterFulfilment
  <2> HIDE DEF u, made, goto
  <2>3. j = [old EXCEPT !.reward = made, !.at = goto] BY <1>4, <2>1
  <2>4. /\ j.purchase = old.purchase /\ j.reward = made /\ j.row = old.row
        /\ j.read = old.read /\ j.notice = old.notice /\ j.back = old.back
        /\ j.at = goto
    BY <1>3, <2>3 DEF Transaction
  <2> QED BY <1>3, <2>1, <2>2, <2>4 DEF Fulfils
<1>9. ASSUME RefundPart(h) PROVE Fulfils(j)
  <2> DEFINE row == Booked(h, Total(h))
  <2>1. /\ job' = [job EXCEPT ![h] = [old EXCEPT !.row = row, !.at = "write"]]
        /\ At(h, "refund") /\ Total(h) < Gross /\ old.at = "refund"
    BY <1>9 DEF RefundPart, At
  <2>2. row.status = "partially_refunded"
    <3>1. Total(h) \in Nat
      BY <1>3, <2>1 DEF Total, At, Shaped, TypeOK, Order, Notice, Transaction
    <3> QED BY <2>1, <3>1, BookedTypes
  <2> HIDE DEF row
  <2>3. j = [old EXCEPT !.row = row, !.at = "write"]
    BY <1>2, <2>1 DEF Shaped, TypeOK
  <2>4. /\ j.purchase = old.purchase /\ j.reward = old.reward /\ j.row = row
        /\ j.read = old.read /\ j.notice = old.notice /\ j.at = "write"
    BY <1>3, <2>3 DEF Transaction
  <2> QED BY <1>3, <2>1, <2>2, <2>4 DEF Fulfils
<1>10. ASSUME RefundWhole(h) PROVE Fulfils(j)
  <2> DEFINE row == Booked(h, Total(h))
             back == IF Of(h) \in used THEN "review" ELSE "cancel"
  <2>1. /\ Step(h, [old EXCEPT !.row = row, !.at = "write", !.back = back])
        /\ At(h, "refund") /\ Total(h) = Gross /\ old.at = "refund"
    BY <1>10 DEF RefundWhole, At
  <2>2. row.status = "refunded" BY <2>1, BookedTypes
  <2>3. back # "keep" OBVIOUS
  <2> HIDE DEF row, back
  <2>4. j = [old EXCEPT !.row = row, !.at = "write", !.back = back] BY <1>4, <2>1
  <2>5. /\ j.purchase = old.purchase /\ j.reward = old.reward /\ j.row = row
        /\ j.read = old.read /\ j.notice = old.notice /\ j.at = "write"
        /\ j.back = back
    BY <1>3, <2>4 DEF Transaction
  <2> QED BY <1>3, <2>1, <2>2, <2>3, <2>5 DEF Fulfils
<1> QED BY <1>1, <1>5, <1>6, <1>7, <1>8, <1>9, <1>10 DEF Moves

\* What the other transactions know stays true.
LEMMA OthersFulfil ==
  ASSUME Shaped, BackInv, [Next]_vars, NEW k \in Handlers, Busy(k), job'[k] = job[k]
  PROVE  Fulfils(job[k])'
<1>1. job[k] \in Transaction /\ Fulfils(job[k])
  BY DEF Shaped, TypeOK, Busy, BackInv, JobsFulfil
<1>2. job[k].notice.order \in Orders BY <1>1 DEF Transaction, Notice
<1>3. Exists("purchase", job[k].notice.order) => Exists("purchase", job[k].notice.order)'
  <2>1. Row("purchase", job[k].notice.order) \in Kinds \X Orders
    BY <1>2 DEF Row, Kinds
  <2>2. period[Row("purchase", job[k].notice.order)] # None =>
          period'[Row("purchase", job[k].notice.order)] # None
    BY <2>1, RowsStay
  <2> QED BY <2>2 DEF Exists, Row
<1> QED BY <1>1, <1>3 DEF Fulfils

\* A commit that leaves an order refunded in full has taken back what it, or
\* another before, has given.
LEMMA CommitTakesBack ==
  ASSUME Shaped, BackInv, NEW h \in Handlers, Commit(h)
  PROVE  FulfilledExist' /\ RefundsTakeBack'
<1> TypeOK BY DEF Shaped
<1> DEFINE j == job[h]
           o == Of(h)
           K1 == Row("purchase", o)
           K2 == Row("reward", o)
           new1 == Became(h, "purchase", j.purchase)
           new2 == Became(h, "reward", j.reward)
<1>1. /\ Busy(h) /\ o \in Orders /\ j \in Transaction
      /\ j.purchase \in Period \cup {None} /\ j.reward \in Period \cup {None}
      /\ period'[K1] = new1 /\ period'[K2] = new2
      /\ \A k \in Kinds \X Orders : k \notin {K1, K2} => period'[k] = period[k]
      /\ order' = [order EXCEPT ![o] = Stored(h)]
  BY CommitParts
<1>2. Fulfils(j) /\ j.notice.order = o BY <1>1 DEF BackInv, JobsFulfil, Of
<1>3. review' = IF j.back = "review" THEN review \cup {o} ELSE review
  BY DEF Commit
<1>4. /\ order'[o].status = IF j.row.status = j.read.status THEN order[o].status
                            ELSE j.row.status
      /\ \A p \in Orders \ {o} : order'[p] = order[p]
  BY <1>1, StoredTypes DEF TypeOK
<1>5. /\ new1 \in Period \cup {None} /\ new2 \in Period \cup {None}
      /\ (j.purchase # None \/ period[K1] # None) => new1 # None
      /\ j.back # "keep" /\ new1 # None => new1.cancelled
      /\ j.back = "cancel" /\ new2 # None => new2.cancelled
      /\ j.purchase = None /\ new1 # None => period[K1] # None /\
                                        (period[K1].cancelled => new1.cancelled)
      /\ j.reward = None /\ new2 # None => period[K2] # None /\
                                        (period[K2].cancelled => new2.cancelled)
  BY <1>1, BecameTypes DEF Kinds
<1>6. ASSUME NEW p \in Orders \ {o}
      PROVE  /\ period'[Row("purchase", p)] = period[Row("purchase", p)]
             /\ period'[Row("reward", p)] = period[Row("reward", p)]
  BY <1>1 DEF Row, Kinds
<1> HIDE DEF new1, new2
<1>7. j.back \in {"keep", "cancel", "review"} BY <1>1 DEF Transaction
<1>8. ASSUME order'[o].status # "created" PROVE new1 # None
  <2>1. CASE j.row.status # j.read.status
    <3>1. j.row.status # "created" BY <1>4, <1>8, <2>1
    <3> QED BY <1>2, <1>5, <3>1 DEF Fulfils, Exists
  <2>2. CASE j.row.status = j.read.status
    <3>1. Exists("purchase", o) BY <1>1, <1>4, <1>8, <2>2 DEF BackInv, FulfilledExist
    <3> QED BY <1>5, <3>1 DEF Exists
  <2> QED BY <2>1, <2>2
<1>9. ASSUME order'[o].status = "refunded"
      PROVE  new1.cancelled /\ (new2 # None /\ ~new2.cancelled => o \in review')
  <2>1. CASE j.row.status # j.read.status
    <3>1. j.back # "keep" BY <1>2, <1>4, <1>9, <2>1 DEF Fulfils
    <3>2. new1.cancelled BY <1>5, <1>8, <1>9, <3>1
    <3>3. new2 # None /\ ~new2.cancelled => j.back = "review" BY <1>5, <1>7, <3>1
    <3> QED BY <1>3, <3>2, <3>3
  <2>2. CASE j.row.status = j.read.status
    <3>1. order[o].status = "refunded" BY <1>4, <1>9, <2>2
    <3>2. /\ period[K1] # None /\ period[K1].cancelled
          /\ period[K2] # None /\ ~period[K2].cancelled => o \in review
      BY <1>1, <3>1 DEF BackInv, RefundsTakeBack, Exists, Alive
    <3>3. j.purchase = None /\ j.reward = None BY <1>2, <2>2 DEF Fulfils
    <3>4. new1.cancelled BY <1>5, <1>8, <1>9, <3>2, <3>3
    <3> QED BY <1>3, <1>5, <3>2, <3>3, <3>4
  <2> QED BY <2>1, <2>2
<1>10. FulfilledExist'
  <2> SUFFICES ASSUME NEW p \in Orders, order'[p].status # "created"
               PROVE  period'[Row("purchase", p)] # None
    BY DEF FulfilledExist, Exists, Row
  <2>1. CASE p = o BY <1>1, <1>8, <2>1
  <2>2. CASE p # o BY <1>4, <1>6, <2>2 DEF BackInv, FulfilledExist, Exists
  <2> QED BY <2>1, <2>2
<1>11. RefundsTakeBack'
  <2> SUFFICES ASSUME NEW p \in Orders, order'[p].status = "refunded"
               PROVE  /\ period'[Row("purchase", p)] # None
                      /\ period'[Row("purchase", p)].cancelled
                      /\ period'[Row("reward", p)] # None
                            /\ ~period'[Row("reward", p)].cancelled => p \in review'
    BY DEF RefundsTakeBack, Exists, Alive, Row
  <2>1. CASE p = o BY <1>1, <1>8, <1>9, <2>1
  <2>2. CASE p # o
    <3>1. order[p].status = "refunded" /\ review \subseteq review'
      BY <1>3, <1>4, <2>2
    <3> QED BY <1>6, <2>2, <3>1 DEF BackInv, RefundsTakeBack, Exists, Alive
  <2> QED BY <2>1, <2>2
<1> QED BY <1>10, <1>11

\* Every step keeps what refunds take back.
LEMMA BackStep ==
  ASSUME Shaped, BackInv, [Next]_vars
  PROVE  BackInv'
<1>1. ASSUME UNCHANGED orders PROVE FulfilledExist' /\ RefundsTakeBack'
  BY <1>1 DEF BackInv, FulfilledExist, RefundsTakeBack, Exists, Alive, orders
<1>2. ASSUME NEW h \in Handlers, \A k \in Handlers \ {h} : job'[k] = job[k],
             Busy(h)' => Fulfils(job[h])'
      PROVE  JobsFulfil'
  <2> SUFFICES ASSUME NEW k \in Handlers, job'[k] # None PROVE Fulfils(job[k])'
    BY DEF JobsFulfil, Busy
  <2>1. CASE k = h BY <1>2, <2>1 DEF Busy
  <2>2. CASE k # h
    <3>1. Busy(k) /\ job'[k] = job[k] BY <1>2, <2>2 DEF Busy
    <3> QED BY <3>1, OthersFulfil
  <2> QED BY <2>1, <2>2
<1>3. ASSUME NEW h \in Handlers, NEW j, GoesOn(h, j), Fulfils(j) PROVE BackInv'
  <2>1. /\ job'[h] = j /\ \A k \in Handlers \ {h} : job'[k] = job[k]
        /\ UNCHANGED orders
    BY <1>3 DEF GoesOn, Shaped, TypeOK
  <2>2. Fulfils(job[h])' BY <1>3, <2>1 DEF Fulfils, Exists, orders
  <2> QED BY <1>1, <1>2, <2>1, <2>2 DEF BackInv
<1>4. ASSUME NEW h \in Handlers, End(h) PROVE JobsFulfil'
  <2>1. job'[h] = None /\ \A k \in Handlers \ {h} : job'[k] = job[k]
    BY <1>4 DEF End, Shaped, TypeOK
  <2> QED BY <1>2, <2>1 DEF Busy
<1>5. ASSUME NEW h \in Handlers, Ends(h) PROVE BackInv'
  <2>1. End(h) /\ UNCHANGED orders
    BY <1>5 DEF Ends, Reject, CommitTwice, Abort
  <2> QED BY <1>1, <1>4, <2>1 DEF BackInv
<1>6. ASSUME NEW h \in Handlers, Commit(h) PROVE BackInv'
  BY <1>4, <1>6, CommitTakesBack DEF BackInv, Commit
<1>7. ASSUME NEW h \in Handlers, Begins(h) \/ Moves(h) PROVE BackInv'
  <2>1. PICK j : GoesOn(h, j) /\ Fulfils(j) BY <1>7, BeginFulfils, MoveFulfils
  <2> QED BY <1>3, <2>1
<1>8. ASSUME UNCHANGED <<orders, job>> PROVE BackInv'
  <2>1. JobsFulfil' BY <1>8 DEF BackInv, JobsFulfil, Busy, Fulfils, Exists, orders
  <2> QED BY <1>1, <1>8, <2>1 DEF BackInv
<1>9. ASSUME Outside PROVE BackInv' BY <1>8, <1>9, OutsideTypes DEF Shaped
<1> QED BY <1>5, <1>6, <1>7, <1>8, <1>9, Steps DEF vars

\* At first nothing is fulfilled or refunded.
LEMMA BackInit == Init => BackInv
BY DEF Init, BackInv, FulfilledExist, JobsFulfil, RefundsTakeBack, Busy, NewOrder

\* An order refunded in full has no entitlement left, and its reward is
\* cancelled or marked for a review, whatever notices, verifications and
\* reconciliations ran at the same time (reverse_credit_for_refund).
THEOREM TakenBack == Spec => []RefundsTakeBack
<1>1. BackInv => RefundsTakeBack BY DEF BackInv
<1> QED BY <1>1, ShapedInit, ShapedStep, BackInit, BackStep, PTL DEF Spec

-----------------------------------------------------------------------------
(* Where periods are placed.                                                 *)

\* A row is locked by one transaction.
LocksApart == \A h, k \in Handlers : h # k => held[h] \cap held[k] = {}

\* A user is attributed once, to another user.
ReferrersStay ==
    /\ \A u \in Users : referrer[u] # u
    /\ \A c \in claiming : c[1] # c[2] /\ referrer[c[1]] = None
    /\ \A c, d \in claiming : c[1] = d[1] => c = d

\* A period that transaction h is about to insert for user u, whom it has
\* locked, begins when the other periods of u have ended.
Placed(h, u, made) ==
    /\ <<"preference", u>> \in held[h]
    /\ made.user = u
    /\ \A k \in Live(u) : period[k].to <= made.from

\* A purchase is inserted for an order that has none.
PurchasePlaced(h, j) ==
    j.purchase # None => /\ Placed(h, Owner[j.notice.order], j.purchase)
                         /\ ~Exists("purchase", j.notice.order)

\* A reward is inserted for an order that has none, for the referrer of its
\* owner, of whose orders none has a reward that stands.
RewardPlaced(h, j) ==
    j.reward # None =>
        /\ referrer[Owner[j.notice.order]] # None
        /\ Placed(h, referrer[Owner[j.notice.order]], j.reward)
        /\ ~Exists("reward", j.notice.order)
        /\ \A p \in Orders : Owner[p] = Owner[j.notice.order] => ~Alive("reward", p)

JobsPlace ==
    \A h \in Handlers : Busy(h) => PurchasePlaced(h, job[h]) /\ RewardPlaced(h, job[h])

PlacesInv == LocksApart /\ ReferrersStay /\ JobsPlace /\ PeriodsDisjoint /\ RewardedOnce

\* Only what is free is locked, and what is locked stays so until the end.
LEMMA LocksStep ==
  ASSUME Shaped, LocksApart, [Next]_vars
  PROVE  LocksApart'
<1>1. ASSUME NEW h \in Handlers, held'[h] \subseteq held[h] \cup Wants(h),
             Free(h) \/ held'[h] \subseteq held[h],
             \A k \in Handlers \ {h} : held'[k] = held[k]
      PROVE  LocksApart'
  BY <1>1 DEF LocksApart, Free
<1>2. UNCHANGED held => LocksApart' BY DEF LocksApart
<1>3. ASSUME NEW h \in Handlers, Moves(h) PROVE LocksApart'
  <2>1. \/ UNCHANGED held
        \/ Free(h) /\ held' = [held EXCEPT ![h] = @ \cup Wants(h)]
    <3>1. RefundPart(h) => UNCHANGED held BY DEF RefundPart
    <3>2. ASSUME NEW j, Step(h, j)
          PROVE  Free(h) /\ held' = [held EXCEPT ![h] = @ \cup Wants(h)]
      BY <3>2 DEF Step
    <3>3. LockOrder(h) => \E j : Step(h, j) BY DEF LockOrder
    <3>4. Fulfil(h) => \E j : Step(h, j) BY DEF Fulfil
    <3>5. Place(h) \/ Reward(h) => \E j : Step(h, j) BY DEF Place, Reward
    <3>6. RefundWhole(h) => \E j : Step(h, j) BY DEF RefundWhole
    <3>7. (\E j : Step(h, j)) => Free(h) /\ held' = [held EXCEPT ![h] = @ \cup Wants(h)]
      BY <3>2
    <3> QED BY <1>3, <3>1, <3>3, <3>4, <3>5, <3>6, <3>7 DEF Moves
  <2>2. CASE Free(h) /\ held' = [held EXCEPT ![h] = @ \cup Wants(h)]
    <3>1. held'[h] = held[h] \cup Wants(h) /\ \A k \in Handlers \ {h} : held'[k] = held[k]
      BY <2>2 DEF Shaped, TypeOK
    <3> QED BY <1>1, <2>2, <3>1
  <2> QED BY <1>2, <2>1, <2>2
<1>4. ASSUME NEW h \in Handlers, End(h) PROVE LocksApart'
  <2>1. held'[h] = {} /\ \A k \in Handlers \ {h} : held'[k] = held[k]
    BY <1>4 DEF End, Shaped, TypeOK
  <2> QED BY <1>1, <2>1
<1>5. ASSUME NEW h \in Handlers, Begins(h) PROVE LocksApart'
  BY <1>2, <1>5 DEF Begins, Webhook, Verify, Reconcile, Begin
<1>6. ASSUME NEW h \in Handlers, Ends(h) \/ Commit(h) PROVE LocksApart'
  BY <1>4, <1>6 DEF Ends, Reject, CommitTwice, Abort, Commit
<1>7. Outside => LocksApart' BY <1>2, OutsideTypes DEF Shaped
<1> QED BY <1>2, <1>3, <1>5, <1>6, <1>7, Steps DEF vars

\* The referrer of a user is set once.
LEMMA ReferrersStep ==
  ASSUME Shaped, ReferrersStay, [Next]_vars
  PROVE  /\ ReferrersStay'
         /\ \A u \in Users : referrer[u] # None => referrer'[u] = referrer[u]
<1> DEFINE Goal == /\ ReferrersStay'
                   /\ \A u \in Users : referrer[u] # None => referrer'[u] = referrer[u]
<1>1. UNCHANGED <<referrer, claiming>> => Goal BY DEF ReferrersStay
<1>2. ASSUME NEW u \in Users, NEW v \in Users, Claim(u, v) PROVE Goal
  <2>1. /\ u # v /\ referrer[u] = None /\ \A c \in claiming : c[1] # u
        /\ claiming' = claiming \cup {<<u, v>>} /\ referrer' = referrer
    BY <1>2 DEF Claim
  <2> QED BY <2>1 DEF ReferrersStay
<1>3. ASSUME NEW u \in Users, NEW v \in Users, Attribute(u, v) PROVE Goal
  <2>1. /\ <<u, v>> \in claiming /\ claiming' = claiming \ {<<u, v>>}
        /\ referrer' = [referrer EXCEPT ![u] = v]
    BY <1>3 DEF Attribute
  <2>2. referrer[u] = None /\ u # v BY <2>1 DEF ReferrersStay
  <2>3. \A c \in claiming' : c[1] # u
    <3> SUFFICES ASSUME NEW c \in claiming', c[1] = u PROVE FALSE OBVIOUS
    <3>1. c \in claiming /\ c # <<u, v>> BY <2>1
    <3>2. <<u, v>>[1] = c[1] OBVIOUS
    <3> QED BY <2>1, <3>1, <3>2 DEF ReferrersStay
  <2>4. referrer'[u] = v /\ \A w \in Users \ {u} : referrer'[w] = referrer[w]
    BY <2>1 DEF Shaped, TypeOK
  <2>5. claiming' \subseteq claiming /\ claiming \subseteq Users \X Users
    BY <2>1 DEF Shaped, TypeOK
  <2>6. \A c \in claiming' : c[1] # c[2] /\ referrer'[c[1]] = None
    BY <2>3, <2>4, <2>5 DEF ReferrersStay
  <2>7. \A c, d \in claiming' : c[1] = d[1] => c = d BY <2>5 DEF ReferrersStay
  <2>8. \A w \in Users : referrer'[w] # w BY <2>2, <2>4 DEF ReferrersStay
  <2> QED BY <2>2, <2>4, <2>6, <2>7, <2>8 DEF ReferrersStay
<1>4. ASSUME Outside PROVE Goal
  <2>1. ASSUME NEW o \in Orders,
               Use(o) \/ Pay(o) \/ \E amount \in 1 .. Gross : IssueRefund(o, amount)
        PROVE  Goal
    BY <1>1, <2>1 DEF Use, Pay, IssueRefund
  <2>2. Tick => Goal BY <1>1 DEF Tick
  <2> HIDE DEF Goal
  <2> QED BY <1>2, <1>3, <1>4, <2>1, <2>2 DEF Outside
<1>5. ASSUME NEW h \in Handlers, Begins(h) \/ Moves(h) PROVE Goal
  <2>1. PICK j : GoesOn(h, j) BY <1>5, BeginTypes, MoveTypes
  <2> QED BY <1>1, <2>1 DEF GoesOn, outside
<1>6. ASSUME NEW h \in Handlers, Ends(h) \/ Commit(h) PROVE Goal
  BY <1>1, <1>6 DEF Ends, Reject, CommitTwice, Abort, Commit, outside
<1>7. UNCHANGED vars => Goal BY <1>1 DEF vars, outside
<1> HIDE DEF Goal
<1>8. Goal BY <1>4, <1>5, <1>6, <1>7, Steps
<1> QED BY <1>8 DEF Goal

\* The entitlements of a user that stand, of the rows given.
LiveIn(rows, u) ==
    {k \in Kinds \X Orders : rows[k] # None /\ ~rows[k].cancelled /\ rows[k].user = u}

\* These are the same.
LEMMA LiveRows ==
  ASSUME NEW u
  PROVE  Live(u) = LiveIn(period, u) /\ Live(u)' = LiveIn(period', u)
<1>1. \A k \in Kinds \X Orders : k = <<k[1], k[2]>> OBVIOUS
<1>2. Live(u) = LiveIn(period, u) BY <1>1 DEF Live, LiveIn, Alive, Exists, Row
<1>3. Live(u)' = LiveIn(period', u) BY <1>1 DEF Live, LiveIn, Alive, Exists, Row
<1> QED BY <1>2, <1>3

\* A transaction that has something to insert has locked its user.
LEMMA JobsLock ==
  ASSUME Shaped, JobsPlace, NEW h \in Handlers, Busy(h)
  PROVE  /\ job[h] \in Transaction /\ Of(h) \in Orders /\ Owner[Of(h)] \in Users
         /\ job[h].purchase # None =>
               /\ <<"preference", Owner[Of(h)]>> \in held[h]
               /\ job[h].purchase.user = Owner[Of(h)]
               /\ \A k \in Live(Owner[Of(h)]) : period[k].to <= job[h].purchase.from
               /\ period[Row("purchase", Of(h))] = None
         /\ job[h].reward # None =>
               /\ referrer[Owner[Of(h)]] \in Users
               /\ <<"preference", referrer[Owner[Of(h)]]>> \in held[h]
               /\ job[h].reward.user = referrer[Owner[Of(h)]]
               /\ \A k \in Live(referrer[Owner[Of(h)]]) : period[k].to <= job[h].reward.from
               /\ period[Row("reward", Of(h))] = None
               /\ \A p \in Orders : Owner[p] = Owner[Of(h)] => ~Alive("reward", p)
<1>1. job[h] \in Transaction BY DEF Shaped, TypeOK, Busy
<1>2. Of(h) \in Orders BY <1>1 DEF Of, Transaction, Notice
<1>3. Of(h) = job[h].notice.order BY DEF Of
<1>4. Owner[Of(h)] \in Users /\ referrer[Owner[Of(h)]] \in Users \cup {None}
  BY <1>2 DEF Shaped, TypeOK
<1> QED BY <1>1, <1>2, <1>3, <1>4 DEF JobsPlace, PurchasePlaced, RewardPlaced, Placed, Exists

\* What a commit adds to a user's entitlements.
LEMMA CommitAdds ==
  ASSUME Shaped, JobsPlace, NEW h \in Handlers, Commit(h), NEW u, NEW k \in Live(u)'
  PROVE  /\ k \in Kinds \X Orders
         /\ \/ /\ k \in Live(u) /\ period'[k].from = period[k].from
               /\ period'[k].to = period[k].to
            \/ /\ job[h].purchase # None /\ u = Owner[Of(h)]
               /\ k = Row("purchase", Of(h))
               /\ period'[k].from = job[h].purchase.from
            \/ /\ job[h].reward # None /\ u = referrer[Owner[Of(h)]]
               /\ k = Row("reward", Of(h))
               /\ period'[k].from = job[h].reward.from
<1> TypeOK BY DEF Shaped
<1>1. /\ k \in Kinds \X Orders /\ period'[k] # None /\ ~period'[k].cancelled
      /\ period'[k].user = u
  BY LiveRows DEF LiveIn
<1>2. /\ Busy(h) /\ job[h].purchase \in Period \cup {None}
      /\ job[h].reward \in Period \cup {None}
      /\ period'[Row("purchase", Of(h))] = Became(h, "purchase", job[h].purchase)
      /\ period'[Row("reward", Of(h))] = Became(h, "reward", job[h].reward)
      /\ k \notin {Row("purchase", Of(h)), Row("reward", Of(h))} =>
            period'[k] = period[k]
  BY <1>1, CommitParts
<1>3. period[k] # None /\ ~period[k].cancelled /\ period[k].user = u => k \in Live(u)
  BY <1>1, LiveRows DEF LiveIn
<1>4. period[k] \in Period \cup {None} BY <1>1 DEF TypeOK
<1>5. ASSUME NEW kind \in Kinds, NEW made \in Period \cup {None},
             k = Row(kind, Of(h)), period'[k] = Became(h, kind, made)
      PROVE  \/ /\ k \in Live(u) /\ period'[k].from = period[k].from
                /\ period'[k].to = period[k].to
             \/ made # None /\ made.user = u /\ period'[k].from = made.from
  <2> DEFINE old == IF made = None THEN period[Row(kind, Of(h))] ELSE made
  <2>1. /\ old # None /\ period'[k].user = old.user /\ period'[k].from = old.from
        /\ period'[k].to = old.to /\ (old.cancelled => period'[k].cancelled)
    BY <1>1, <1>2, <1>5, BecameTypes
  <2>2. CASE made # None BY <1>1, <2>1, <2>2
  <2>3. CASE made = None BY <1>1, <1>3, <1>5, <2>1, <2>3
  <2> QED BY <2>2, <2>3
<1>6. CASE k = Row("purchase", Of(h))
  BY <1>1, <1>2, <1>5, <1>6, JobsLock DEF Kinds
<1>7. CASE k = Row("reward", Of(h))
  BY <1>1, <1>2, <1>5, <1>7, JobsLock DEF Kinds
<1>8. CASE k \notin {Row("purchase", Of(h)), Row("reward", Of(h))}
  BY <1>1, <1>2, <1>3, <1>8
<1> QED BY <1>1, <1>6, <1>7, <1>8

\* A commit inserts no purchase or reward but its own.
LEMMA CommitInserts ==
  ASSUME Shaped, JobsPlace, NEW h \in Handlers, Commit(h), NEW o \in Orders
  PROVE  /\ Exists("purchase", o)' =>
               Exists("purchase", o) \/ (job[h].purchase # None /\ o = Of(h))
         /\ Exists("reward", o)' =>
               Exists("reward", o) \/ (job[h].reward # None /\ o = Of(h))
         /\ Alive("reward", o)' =>
               Alive("reward", o) \/ (job[h].reward # None /\ o = Of(h))
<1> TypeOK BY DEF Shaped
<1>1. /\ Busy(h) /\ Of(h) \in Orders /\ job[h].purchase \in Period \cup {None}
      /\ job[h].reward \in Period \cup {None}
      /\ period'[Row("purchase", Of(h))] = Became(h, "purchase", job[h].purchase)
      /\ period'[Row("reward", Of(h))] = Became(h, "reward", job[h].reward)
      /\ \A k \in Kinds \X Orders :
            k \notin {Row("purchase", Of(h)), Row("reward", Of(h))} =>
               period'[k] = period[k]
  BY CommitParts
<1>2. CASE o = Of(h)
  <2>1. job[h].purchase = None /\ Became(h, "purchase", job[h].purchase) # None =>
          period[Row("purchase", o)] # None
    BY <1>1, <1>2, BecameTypes DEF Kinds
  <2>2. job[h].reward = None /\ Became(h, "reward", job[h].reward) # None =>
          /\ period[Row("reward", o)] # None
          /\ period[Row("reward", o)].cancelled =>
                Became(h, "reward", job[h].reward).cancelled
    BY <1>1, <1>2, BecameTypes DEF Kinds
  <2> QED BY <1>1, <1>2, <2>1, <2>2 DEF Exists, Alive, Row
<1>3. CASE o # Of(h)
  <2>1. /\ period'[Row("purchase", o)] = period[Row("purchase", o)]
        /\ period'[Row("reward", o)] = period[Row("reward", o)]
    BY <1>1, <1>3 DEF Row, Kinds
  <2>2. Exists("purchase", o)' => Exists("purchase", o)
    BY ONLY <2>1 DEF Exists, Row
  <2>3. Exists("reward", o)' => Exists("reward", o) BY ONLY <2>1 DEF Exists, Row
  <2>4. Alive("reward", o)' => Alive("reward", o)
    BY ONLY <2>1 DEF Alive, Exists, Row
  <2> QED BY <2>2, <2>3, <2>4
<1> QED BY <1>2, <1>3

\* What another transaction is about to insert stays so when one commits.
LEMMA CommitLeaves ==
  ASSUME Shaped, PlacesInv, NEW h \in Handlers, Commit(h),
         NEW g \in Handlers \ {h}, Busy(g)
  PROVE  PurchasePlaced(g, job[g])' /\ RewardPlaced(g, job[g])'
<1> USE DEF PlacesInv
<1> SUFFICES ASSUME NEW o, o = Of(g), NEW u, u = Owner[o], NEW v, v = referrer[u]
             PROVE  PurchasePlaced(g, job[g])' /\ RewardPlaced(g, job[g])'
  OBVIOUS
<1>1. /\ job'[g] = job[g] /\ held'[g] = held[g] /\ referrer' = referrer
  BY CommitParts DEF Shaped, TypeOK, outside
<1>2. Busy(h) BY CommitParts DEF Shaped
<1>3. held[g] \cap held[h] = {} BY DEF LocksApart
<1>4. /\ o \in Orders /\ u \in Users /\ o = job[g].notice.order
  BY JobsLock DEF Of
<1>5. ASSUME NEW w, <<"preference", w>> \in held[g]
      PROVE  /\ job[h].purchase # None => w # Owner[Of(h)]
             /\ job[h].reward # None => w # referrer[Owner[Of(h)]]
             /\ \A k \in Live(w)' : k \in Live(w) /\ period'[k].to = period[k].to
  <2>1. /\ job[h].purchase # None => w # Owner[Of(h)]
        /\ job[h].reward # None => w # referrer[Owner[Of(h)]]
    BY <1>2, <1>3, <1>5, JobsLock
  <2> QED BY <2>1, CommitAdds
<1>6. ASSUME job[g].purchase # None
      PROVE  Placed(g, u, job[g].purchase)' /\ ~Exists("purchase", o)'
  <2>1. /\ <<"preference", u>> \in held[g] /\ job[g].purchase.user = u
        /\ \A k \in Live(u) : period[k].to <= job[g].purchase.from
        /\ period[Row("purchase", o)] = None
    BY <1>6, JobsLock
  <2>2. ~ (job[h].purchase # None /\ o = Of(h)) BY <1>5, <2>1
  <2>3. ~Exists("purchase", o)' BY <1>4, <2>1, <2>2, CommitInserts DEF Exists
  <2>4. \A k \in Live(u)' : period'[k].to <= job[g].purchase.from
    BY <1>5, <2>1
  <2>5. Placed(g, u, job[g].purchase)'
    BY <1>1, <2>1, <2>4 DEF Placed, Of
  <2> QED BY <2>3, <2>5
<1>7. ASSUME job[g].reward # None
      PROVE  /\ v # None /\ Placed(g, v, job[g].reward)' /\ ~Exists("reward", o)'
             /\ \A p \in Orders : Owner[p] = u => ~Alive("reward", p)'
  <2>1. /\ v \in Users /\ <<"preference", v>> \in held[g] /\ job[g].reward.user = v
        /\ \A k \in Live(v) : period[k].to <= job[g].reward.from
        /\ period[Row("reward", o)] = None
        /\ \A p \in Orders : Owner[p] = u => ~Alive("reward", p)
    BY <1>7, JobsLock
  <2>2. job[h].reward # None => u # Owner[Of(h)] BY <1>5, <2>1
  <2>3. ~Exists("reward", o)' BY <1>4, <2>1, <2>2, CommitInserts DEF Exists
  <2>4. \A p \in Orders : Owner[p] = u => ~Alive("reward", p)'
    BY <2>1, <2>2, CommitInserts
  <2>5. \A k \in Live(v)' : period'[k].to <= job[g].reward.from BY <1>5, <2>1
  <2>6. Placed(g, v, job[g].reward)'
    BY <1>1, <2>1, <2>5 DEF Placed, Of
  <2> QED BY <2>1, <2>3, <2>4, <2>6
<1>8. PurchasePlaced(g, job[g])'
  BY <1>1, <1>4, <1>6 DEF PurchasePlaced, Placed, Of
<1>9. RewardPlaced(g, job[g])'
  BY <1>1, <1>4, <1>7 DEF RewardPlaced, Placed, Of
<1> QED BY <1>8, <1>9

\* What a transaction is about to insert stays so when none commits.
LEMMA RestLeaves ==
  ASSUME Shaped, PlacesInv, [Next]_vars, UNCHANGED orders,
         NEW g \in Handlers, NEW j \in Transaction, held[g] \subseteq held'[g]
  PROVE  /\ PurchasePlaced(g, j) => PurchasePlaced(g, j)'
         /\ RewardPlaced(g, j) => RewardPlaced(g, j)'
<1>1. \A u \in Users : referrer[u] # None => referrer'[u] = referrer[u]
  BY ReferrersStep DEF PlacesInv
<1>2. j.notice.order \in Orders /\ Owner[j.notice.order] \in Users
  BY DEF Transaction, Notice
<1> SUFFICES ASSUME NEW u, u = Owner[j.notice.order], NEW v, v = referrer[u]
             PROVE  /\ PurchasePlaced(g, j) => PurchasePlaced(g, j)'
                    /\ RewardPlaced(g, j) => RewardPlaced(g, j)'
  OBVIOUS
<1>3. \A w, made : Placed(g, w, made) => Placed(g, w, made)'
  BY DEF Placed, Live, Alive, Exists, Row, orders
<1>4. /\ ~Exists("purchase", j.notice.order) => ~Exists("purchase", j.notice.order)'
      /\ ~Exists("reward", j.notice.order) => ~Exists("reward", j.notice.order)'
      /\ \A p \in Orders : ~Alive("reward", p) => ~Alive("reward", p)'
  BY DEF Alive, Exists, Row, orders
<1>5. PurchasePlaced(g, j) => PurchasePlaced(g, j)'
  BY <1>3, <1>4 DEF PurchasePlaced
<1>6. RewardPlaced(g, j) => RewardPlaced(g, j)'
  <2> SUFFICES ASSUME RewardPlaced(g, j), j.reward # None PROVE RewardPlaced(g, j)'
    BY DEF RewardPlaced
  <2>1. /\ v # None /\ Placed(g, v, j.reward) /\ ~Exists("reward", j.notice.order)
        /\ \A p \in Orders : Owner[p] = u => ~Alive("reward", p)
    BY DEF RewardPlaced
  <2>2. referrer'[u] = v BY <1>1, <1>2, <2>1
  <2>3. Placed(g, v, j.reward)' BY <1>3, <2>1
  <2> QED BY <1>4, <2>1, <2>2, <2>3 DEF RewardPlaced
<1> QED BY <1>5, <1>6

\* A period made for a user who is locked is placed behind the others.
LEMMA NewPlaced ==
  ASSUME Shaped, UNCHANGED orders, NEW h \in Handlers, NEW u \in Users,
         NEW length \in Nat, NEW made, made = NewPeriod(u, length),
         <<"preference", u>> \in held'[h]
  PROVE  made # None /\ Placed(h, u, made)'
<1>1. /\ made \in Period /\ made.user = u
      /\ \A k \in Live(u) : period[k].to <= made.from
  BY PeriodAfter DEF Shaped
<1>2. made # None BY <1>1, NoneIsNoRow
<1>3. \A k \in Live(u)' : k \in Live(u) /\ period'[k].to = period[k].to
  BY LiveRows DEF orders
<1> QED BY <1>1, <1>2, <1>3 DEF Placed

\* A transaction that begins has nothing to insert.
LEMMA BeginPlaces ==
  ASSUME Shaped, NEW h \in Handlers, Begins(h)
  PROVE  PurchasePlaced(h, job[h])' /\ RewardPlaced(h, job[h])'
<1>1. \A task, n, stage, row :
         /\ Transact(task, n, stage, row).purchase = None
         /\ Transact(task, n, stage, row).reward = None
  BY DEF Transact
<1>2. job'[h].purchase = None /\ job'[h].reward = None
  <2>1. ASSUME NEW j, Begin(h, j), j.purchase = None, j.reward = None
        PROVE  job'[h].purchase = None /\ job'[h].reward = None
    BY <2>1 DEF Begin, Shaped, TypeOK
  <2>2. ASSUME NEW n \in notices, Webhook(h, n)
        PROVE  job'[h].purchase = None /\ job'[h].reward = None
    BY <1>1, <2>1, <2>2 DEF Webhook
  <2>3. ASSUME NEW o \in Orders, Verify(h, o) \/ Reconcile(h, o)
        PROVE  job'[h].purchase = None /\ job'[h].reward = None
    BY <1>1, <2>1, <2>3 DEF Verify, Reconcile
  <2> QED BY <2>2, <2>3 DEF Begins
<1> QED BY <1>2 DEF PurchasePlaced, RewardPlaced

\* What a transaction that goes on is about to insert.
LEMMA MovePlaces ==
  ASSUME Shaped, PlacesInv, [Next]_vars, NEW h \in Handlers, Moves(h)
  PROVE  PurchasePlaced(h, job[h])' /\ RewardPlaced(h, job[h])'
<1> SUFFICES ASSUME NEW old, old = job[h], NEW o, o = Of(h)
             PROVE  PurchasePlaced(h, job[h])' /\ RewardPlaced(h, job[h])'
  OBVIOUS
<1>1. PICK j : GoesOn(h, j) BY MoveTypes
<1>2. /\ job'[h] = j /\ j \in Transaction /\ UNCHANGED orders /\ referrer' = referrer
      /\ held[h] \subseteq held'[h]
  BY <1>1 DEF GoesOn, outside, Shaped, TypeOK
<1>3. \A k : Step(h, k) => j = k /\ held'[h] = held[h] \cup Wants(h)
  BY <1>2 DEF Step, Shaped, TypeOK
<1>4. Busy(h) /\ old \in Transaction
  <2>1. Busy(h)
    BY DEF Moves, LockOrder, Fulfil, Place, Reward, RefundPart, RefundWhole, At
  <2> QED BY <2>1 DEF Busy, Shaped, TypeOK
<1>5. /\ o \in Orders /\ o = old.notice.order /\ Owner[o] \in Users
      /\ referrer[Owner[o]] \in Users \cup {None}
  BY <1>4 DEF Of, Transaction, Notice, Shaped, TypeOK
<1>6. PurchasePlaced(h, old)' /\ RewardPlaced(h, old)'
  <2>1. PurchasePlaced(h, old) /\ RewardPlaced(h, old)
    BY <1>4 DEF PlacesInv, JobsPlace
  <2> QED BY <1>2, <1>4, <2>1, RestLeaves
<1>7. ASSUME j.notice = old.notice, j.purchase = old.purchase
      PROVE  PurchasePlaced(h, j)'
  BY <1>6, <1>7 DEF PurchasePlaced
<1>8. ASSUME j.notice = old.notice, j.reward = old.reward
      PROVE  RewardPlaced(h, j)'
  BY <1>6, <1>8 DEF RewardPlaced
<1>9. ASSUME j.notice = old.notice, j.purchase = old.purchase, j.reward = old.reward
      PROVE  PurchasePlaced(h, j)' /\ RewardPlaced(h, j)'
  BY <1>7, <1>8, <1>9
<1>10. ASSUME LockOrder(h) PROVE PurchasePlaced(h, j)' /\ RewardPlaced(h, j)'
  <2>1. PICK row, goto : Step(h, [old EXCEPT !.row = row, !.read = row, !.at = goto])
    BY <1>10 DEF LockOrder
  <2>2. j = [old EXCEPT !.row = row, !.read = row, !.at = goto] BY <1>3, <2>1
  <2> QED BY <1>4, <1>9, <2>2 DEF Transaction
<1>11. ASSUME Fulfil(h) PROVE PurchasePlaced(h, j)' /\ RewardPlaced(h, j)'
  <2> DEFINE new  == ~Exists("purchase", o)
             made == IF new THEN NewPeriod(Owner[o], Length) ELSE None
  <2>1. PICK row, goto :
           Step(h, [old EXCEPT !.purchase = made, !.row = row, !.at = goto])
    BY <1>11 DEF Fulfil
  <2>2. At(h, "purchase") BY <1>11 DEF Fulfil
  <2>3. <<"preference", Owner[o]>> \in held'[h]
    BY <1>3, <2>1, <2>2, WantsTypes DEF Periods, Shaped
  <2>4. j.purchase = made /\ j.notice = old.notice /\ j.reward = old.reward
    <3> HIDE DEF made
    <3>1. j = [old EXCEPT !.purchase = made, !.row = row, !.at = goto] BY <1>3, <2>1
    <3> QED BY <1>4, <3>1 DEF Transaction
  <2>5. ASSUME new PROVE Placed(h, Owner[o], j.purchase)' /\ ~Exists("purchase", o)'
    <3>1. j.purchase = NewPeriod(Owner[o], Length) /\ Length \in Nat
      BY <2>4, <2>5, EntitlementAmounts
    <3>2. Placed(h, Owner[o], j.purchase)' BY <1>2, <1>5, <2>3, <3>1, NewPlaced
    <3>3. ~Exists("purchase", o)' BY <1>2, <2>5 DEF Exists, Row, orders
    <3> QED BY <3>2, <3>3
  <2>6. PurchasePlaced(h, j)' BY <1>5, <2>4, <2>5 DEF PurchasePlaced
  <2> QED BY <1>8, <2>4, <2>6
<1>12. ASSUME Place(h) PROVE PurchasePlaced(h, j)' /\ RewardPlaced(h, j)'
  <2>1. Step(h, [old EXCEPT !.at = "reward"]) BY <1>12 DEF Place
  <2> QED BY <1>3, <1>4, <1>9, <2>1 DEF Transaction
<1>13. ASSUME Reward(h) PROVE PurchasePlaced(h, j)' /\ RewardPlaced(h, j)'
  <2> SUFFICES ASSUME NEW u, u = Rewarded(o)
               PROVE  PurchasePlaced(h, j)' /\ RewardPlaced(h, j)'
    OBVIOUS
  <2> DEFINE made == IF u = None THEN None ELSE NewPeriod(u, RewardLength)
  <2>1. PICK goto : Step(h, [old EXCEPT !.reward = made, !.at = goto])
    BY <1>13 DEF Reward
  <2>2. At(h, "reward") BY <1>13 DEF Reward
  <2>3. j.reward = made /\ j.notice = old.notice /\ j.purchase = old.purchase
    <3> HIDE DEF made
    <3>1. j = [old EXCEPT !.reward = made, !.at = goto] BY <1>3, <2>1
    <3> QED BY <1>4, <3>1 DEF Transaction
  <2>4. ASSUME u # None
        PROVE  /\ u = referrer[Owner[o]] /\ u \in Users /\ Placed(h, u, j.reward)'
               /\ ~Exists("reward", o)'
               /\ \A p \in Orders : Owner[p] = Owner[o] => ~Alive("reward", p)'
    <3>1. /\ u = referrer[Owner[o]] /\ ~Exists("reward", o)
          /\ \A p \in Orders : Owner[p] = Owner[o] => ~Alive("reward", p)
      BY <2>4 DEF Rewarded
    <3>2. u \in Users BY <1>5, <2>4, <3>1
    <3>3. <<"preference", u>> \in held'[h]
      BY <1>3, <2>1, <2>2, <2>4, WantsTypes DEF Periods, Shaped
    <3>4. j.reward = NewPeriod(u, RewardLength) /\ RewardLength \in Nat
      BY <2>3, <2>4, EntitlementAmounts
    <3>5. Placed(h, u, j.reward)' BY <1>2, <3>2, <3>3, <3>4, NewPlaced
    <3>6. ~Exists("reward", o)' BY <1>2, <3>1 DEF Exists, Row, orders
    <3>7. \A p \in Orders : ~Alive("reward", p) => ~Alive("reward", p)'
      BY <1>2 DEF Alive, Exists, Row, orders
    <3> QED BY <3>1, <3>2, <3>5, <3>6, <3>7
  <2>5. RewardPlaced(h, j)'
    BY <1>2, <1>5, <2>3, <2>4 DEF RewardPlaced
  <2> QED BY <1>7, <2>3, <2>5
<1>14. ASSUME RefundPart(h) PROVE PurchasePlaced(h, j)' /\ RewardPlaced(h, j)'
  <2>1. PICK row : job' = [job EXCEPT ![h] = [old EXCEPT !.row = row, !.at = "write"]]
    BY <1>14 DEF RefundPart
  <2>2. j = [old EXCEPT !.row = row, !.at = "write"]
    BY <1>2, <2>1 DEF Shaped, TypeOK
  <2> QED BY <1>4, <1>9, <2>2 DEF Transaction
<1>15. ASSUME RefundWhole(h) PROVE PurchasePlaced(h, j)' /\ RewardPlaced(h, j)'
  <2>1. PICK row, back :
           Step(h, [old EXCEPT !.row = row, !.at = "write", !.back = back])
    BY <1>15 DEF RefundWhole
  <2>2. j = [old EXCEPT !.row = row, !.at = "write", !.back = back] BY <1>3, <2>1
  <2> QED BY <1>4, <1>9, <2>2 DEF Transaction
<1>16. PurchasePlaced(h, j)' /\ RewardPlaced(h, j)'
  BY <1>10, <1>11, <1>12, <1>13, <1>14, <1>15 DEF Moves
<1> QED BY <1>2, <1>16 DEF PurchasePlaced, RewardPlaced, Placed

\* What each transaction is about to insert stays so in every step.
LEMMA JobsStep ==
  ASSUME Shaped, PlacesInv, [Next]_vars
  PROVE  JobsPlace'
<1> DEFINE Goal(g) == PurchasePlaced(g, job[g])' /\ RewardPlaced(g, job[g])'
<1>1. ASSUME UNCHANGED orders, NEW g \in Handlers, Busy(g)', job'[g] = job[g],
             held'[g] = held[g]
      PROVE  Goal(g)
  <2> SUFFICES ASSUME NEW j, j = job[g] PROVE Goal(g) OBVIOUS
  <2>1. j \in Transaction /\ PurchasePlaced(g, j) /\ RewardPlaced(g, j)
    BY <1>1 DEF Busy, Shaped, TypeOK, PlacesInv, JobsPlace
  <2>2. PurchasePlaced(g, j)' /\ RewardPlaced(g, j)' BY <1>1, <2>1, RestLeaves
  <2> QED BY <1>1, <2>2 DEF PurchasePlaced, RewardPlaced, Placed
<1> SUFFICES ASSUME NEW g \in Handlers, Busy(g)' PROVE Goal(g)
  BY DEF JobsPlace
<1>2. ASSUME NEW h \in Handlers, Begins(h) \/ Moves(h) PROVE Goal(g)
  <2>1. CASE g = h BY <1>2, <2>1, BeginPlaces, MovePlaces
  <2>2. CASE g # h
    <3>1. PICK j : GoesOn(h, j) BY <1>2, BeginTypes, MoveTypes
    <3>2. job'[g] = job[g] /\ held'[g] = held[g] /\ UNCHANGED orders
      BY <2>2, <3>1 DEF GoesOn, Shaped, TypeOK
    <3> HIDE DEF Goal
    <3> QED BY <1>1, <3>2
  <2> QED BY <2>1, <2>2
<1>3. ASSUME NEW h \in Handlers, Ends(h) PROVE Goal(g)
  <2>1. End(h) /\ UNCHANGED orders BY <1>3 DEF Ends, Reject, CommitTwice, Abort
  <2>2. g # h /\ job'[g] = job[g] /\ held'[g] = held[g]
    BY <2>1 DEF End, Busy, Shaped, TypeOK
  <2> HIDE DEF Goal
  <2> QED BY <1>1, <2>1, <2>2
<1>4. ASSUME NEW h \in Handlers, Commit(h) PROVE Goal(g)
  <2>1. End(h) BY <1>4 DEF Commit
  <2>2. g # h /\ job'[g] = job[g] BY <2>1 DEF End, Busy, Shaped, TypeOK
  <2>3. Busy(g) BY <2>2 DEF Busy
  <2> QED BY <1>4, <2>2, <2>3, CommitLeaves
<1>5. ASSUME Outside \/ UNCHANGED vars PROVE Goal(g)
  <2>1. UNCHANGED <<orders, job, held>> BY <1>5, OutsideTypes DEF Shaped, vars
  <2> HIDE DEF Goal
  <2> QED BY <1>1, <2>1
<1> HIDE DEF Goal
<1> QED BY <1>2, <1>3, <1>4, <1>5, Steps

\* A commit places what it inserts behind what is there.
LEMMA CommitPlaces ==
  ASSUME Shaped, PlacesInv, NEW h \in Handlers, Commit(h)
  PROVE  PeriodsDisjoint' /\ RewardedOnce'
<1> USE DEF PlacesInv
<1>1. Busy(h) BY CommitParts DEF Shaped
<1>2. ASSUME NEW u \in Users, NEW j \in Live(u)', NEW k \in Live(u)', j # k
      PROVE  period'[j].to <= period'[k].from \/ period'[k].to <= period'[j].from
  <2>1. CASE /\ j \in Live(u) /\ period'[j].from = period[j].from
             /\ period'[j].to = period[j].to
    <3>1. CASE /\ k \in Live(u) /\ period'[k].from = period[k].from
               /\ period'[k].to = period[k].to
      BY <1>2, <2>1, <3>1 DEF PeriodsDisjoint
    <3>2. CASE job[h].purchase # None /\ u = Owner[Of(h)]
               /\ period'[k].from = job[h].purchase.from
      BY <1>1, <2>1, <3>2, JobsLock
    <3>3. CASE job[h].reward # None /\ u = referrer[Owner[Of(h)]]
               /\ period'[k].from = job[h].reward.from
      BY <1>1, <2>1, <3>3, JobsLock
    <3> QED BY <3>1, <3>2, <3>3, CommitAdds
  <2>2. CASE /\ k \in Live(u) /\ period'[k].from = period[k].from
             /\ period'[k].to = period[k].to
    <3>1. CASE job[h].purchase # None /\ u = Owner[Of(h)]
               /\ period'[j].from = job[h].purchase.from
      BY <1>1, <2>2, <3>1, JobsLock
    <3>2. CASE job[h].reward # None /\ u = referrer[Owner[Of(h)]]
               /\ period'[j].from = job[h].reward.from
      BY <1>1, <2>2, <3>2, JobsLock
    <3> QED BY <2>1, <3>1, <3>2, CommitAdds
  <2>3. referrer[Owner[Of(h)]] # Owner[Of(h)]
    BY <1>1, JobsLock DEF ReferrersStay
  <2> QED BY <1>2, <2>1, <2>2, <2>3, CommitAdds
<1>3. PeriodsDisjoint' BY <1>2 DEF PeriodsDisjoint
<1>4. ASSUME NEW o \in Orders, NEW p \in Orders, Alive("reward", o)', Alive("reward", p)',
             Owner[o] = Owner[p]
      PROVE  o = p
  <2>1. CASE Alive("reward", o) /\ Alive("reward", p) BY <1>4, <2>1 DEF RewardedOnce
  <2>2. job[h].reward # None =>
           \A q \in Orders : Owner[q] = Owner[Of(h)] => ~Alive("reward", q)
    BY <1>1, JobsLock
  <2>3. /\ Alive("reward", o) \/ (job[h].reward # None /\ o = Of(h))
        /\ Alive("reward", p) \/ (job[h].reward # None /\ p = Of(h))
    BY <1>4, CommitInserts
  <2> QED BY <1>4, <2>1, <2>2, <2>3
<1>5. RewardedOnce' BY <1>4 DEF RewardedOnce
<1> QED BY <1>3, <1>5

\* Every step keeps the places of the periods.
LEMMA PlacesStep ==
  ASSUME Shaped, PlacesInv, [Next]_vars
  PROVE  PlacesInv'
<1>1. LocksApart' /\ ReferrersStay' /\ JobsPlace'
  BY LocksStep, ReferrersStep, JobsStep DEF PlacesInv
<1>2. ASSUME UNCHANGED orders PROVE PeriodsDisjoint' /\ RewardedOnce'
  BY <1>2 DEF PlacesInv, PeriodsDisjoint, RewardedOnce, Live, Alive, Exists, orders
<1>3. ASSUME NEW h \in Handlers, Begins(h) \/ Moves(h) PROVE UNCHANGED orders
  <2>1. PICK j : GoesOn(h, j) BY <1>3, BeginTypes, MoveTypes
  <2> QED BY <2>1 DEF GoesOn
<1>4. ASSUME NEW h \in Handlers, Ends(h) PROVE UNCHANGED orders
  BY <1>4 DEF Ends, Reject, CommitTwice, Abort
<1>5. Outside \/ UNCHANGED vars => UNCHANGED orders
  BY OutsideTypes DEF Shaped, vars
<1>6. PeriodsDisjoint' /\ RewardedOnce'
  BY <1>2, <1>3, <1>4, <1>5, CommitPlaces, Steps
<1> QED BY <1>1, <1>6 DEF PlacesInv

\* At first there is no period, and no one is attributed.
LEMMA PlacesInit == Init => PlacesInv
<1> SUFFICES ASSUME Init PROVE PlacesInv OBVIOUS
<1>1. LocksApart /\ JobsPlace BY DEF Init, LocksApart, JobsPlace, Busy
<1>2. ReferrersStay BY EntitlementSets DEF Init, ReferrersStay
<1>3. \A k \in Kinds, o \in Orders : ~Alive(k, o) BY DEF Init, Alive, Exists, Row
<1>4. PeriodsDisjoint BY <1>3 DEF PeriodsDisjoint, Live
<1>5. RewardedOnce BY <1>3 DEF RewardedOnce, Kinds
<1> QED BY <1>1, <1>2, <1>4, <1>5 DEF PlacesInv

\* No two periods of a user that stand overlap, whichever purchases and
\* rewards of how many transactions are placed at the same time
\* (create_entitlement, _latest_entitlement).
THEOREM PeriodsApart == Spec => []PeriodsDisjoint
<1>1. PlacesInv => PeriodsDisjoint BY DEF PlacesInv
<1> QED BY <1>1, ShapedInit, ShapedStep, PlacesInit, PlacesStep, PTL DEF Spec

\* A referred user has earned the referrer at most one reward that stands,
\* with any number of orders fulfilled at the same time
\* (create_referral_reward_once).
THEOREM OneReward == Spec => []RewardedOnce
<1>1. PlacesInv => RewardedOnce BY DEF PlacesInv
<1> QED BY <1>1, ShapedInit, ShapedStep, PlacesInit, PlacesStep, PTL DEF Spec
=============================================================================
