----------------------- MODULE UsageReservation_proofs -----------------------
(* What UsageReservation guarantees for every set of requests, every       *)
(* number of concurrent creators, all amounts and limits.                  *)
EXTENDS UsageReservation, Totals_proofs

USE RequestAssumption, AmountsAssumption, LimitsAssumption, BoundsAssumption,
    KindsAssumption, SentinelAssumption

-----------------------------------------------------------------------------
(* Sums over the charges.                                                  *)

\* The sums of usage_limits.py are naturals.
LEMMA UsageType ==
  ASSUME TypeOK
  PROVE  /\ \A r \in Request : HeldMicros[r] \in Nat /\ SettledMicros[r] \in Nat
         /\ Held \in Nat
         /\ Total(Request, SettledMicros) \in Nat
         /\ Usage \in Nat
<1>1. \A r \in Request : charge[r].reserved \in Nat /\ charge[r].debited \in Nat
  BY DEF TypeOK, Charge
<1>2. \A r \in Request : HeldMicros[r] \in Nat BY <1>1 DEF HeldMicros
<1>3. \A r \in Request : SettledMicros[r] \in Nat BY <1>1 DEF SettledMicros
<1>4. Held \in Nat BY <1>2, TotalType DEF Held
<1>5. Total(Request, SettledMicros) \in Nat BY <1>3, TotalType
<1> QED BY <1>2, <1>3, <1>4, <1>5 DEF Usage

\* A settlement debits a natural amount, and no more than the balance.
LEMMA DebitType ==
  ASSUME TypeOK, NEW r \in Request, NEW cost \in Costs, NEW asked \in Costs
  PROVE  Debit(r, cost, asked) \in Nat /\ Debit(r, cost, asked) <= wallet.balance
<1>1. wallet.balance \in Nat /\ charge[r].reserved \in Nat BY DEF TypeOK, Charge
<1>2. Usage \in Nat BY UsageType
<1>3. limit # NoLimit => limit \in Nat BY DEF TypeOK
<1>4. (IF limit = NoLimit THEN cost ELSE LimitLeft(r)) \in Nat
  BY <1>1, <1>2, <1>3 DEF LimitLeft, Max0
<1> QED BY <1>1, <1>4 DEF Debit, Lesser

-----------------------------------------------------------------------------
(* Rows and keys.                                                          *)

\* An UPDATE leaves a charge a charge.
LEMMA FlushType ==
  ASSUME NEW row \in Charge, NEW seen \in Charge, NEW new \in Charge
  PROVE  Flush(row, seen, new) \in Charge
BY DEF Flush, Charge

\* An UPDATE of a row nobody else has written stores what was meant.
LEMMA FlushFresh ==
  ASSUME NEW row \in Charge, NEW new \in Charge
  PROVE  Flush(row, row, new) = new
BY DEF Flush, Charge

\* Recording a row keeps the ledger a ledger.
LEMMA RecordType ==
  ASSUME NEW rows \in [Keys -> Nat \cup {NoRow}], NEW key, NEW micros \in Nat
  PROVE  Record(rows, key, micros) \in [Keys -> Nat \cup {NoRow}]
BY DEF Record

-----------------------------------------------------------------------------
(* Type correctness.                                                       *)

\* The initial state is well typed.
LEMMA InitTypeOK == Init => TypeOK
BY DEF Init, TypeOK, Charge, NoCharge, Statuses

\* A creator's transaction keeps every variable well typed.
LEMMA CreateTypeOK ==
  ASSUME TypeOK, NEW c \in Caller,
         \/ \E r \in Request : BeginCreate(c, r)
         \/ \E required \in Holds : CommitCreate(c, required)
         \/ CommitExempt(c)
         \/ CommitFree(c)
         \/ AbortCreate(c)
  PROVE  TypeOK'
<1>1. ASSUME NEW r \in Request, BeginCreate(c, r) PROVE TypeOK'
  BY <1>1 DEF BeginCreate, TypeOK
<1>2. ASSUME NEW required \in Holds, CommitCreate(c, required) PROVE TypeOK'
  <2> DEFINE r    == pending[c].request
             seen == pending[c].seen
             n    == NextAttempt(seen)
             new  == [seen EXCEPT !.status = "reserved", !.attempt = n,
                                  !.reserved = required, !.settledIn = 0]
  <2>1. r \in Request /\ seen \in Charge BY <1>2 DEF CommitCreate, TypeOK
  <2>2. n \in Nat BY <2>1 DEF NextAttempt, Attempt, Charge
  <2>3. new \in Charge BY <2>1, <2>2 DEF Charge, Statuses
  <2>4. charge' = [charge EXCEPT ![r] = Flush(@, seen, new)]
    BY <1>2 DEF CommitCreate
  <2>5. charge' \in [Request -> Charge]
    <3> HIDE DEF new, seen, r
    <3> QED BY <2>1, <2>3, <2>4, FlushType DEF TypeOK
  <2>6. wallet' \in [balance: Nat, reserved: Nat]
    <3>1. wallet' = [wallet EXCEPT !.reserved = @ + required]
      BY <1>2 DEF CommitCreate
    <3>2. required \in Nat OBVIOUS
    <3> QED BY <3>1, <3>2 DEF TypeOK
  <2>7. ledger' \in [Keys -> Nat \cup {NoRow}]
    BY <1>2, RecordType DEF CommitCreate, TypeOK
  <2>8. pending' \in [Caller -> {Idle} \cup [request: Request, seen: Charge]]
    BY <1>2 DEF CommitCreate, TypeOK
  <2>9. UNCHANGED <<limit, period, aged>>
    BY <1>2 DEF CommitCreate, TypeOK
  <2> HIDE DEF n, new, seen, r
  <2> QED BY <2>5, <2>6, <2>7, <2>8, <2>9 DEF TypeOK
<1>3. ASSUME NEW kind, NEW open \in Statuses, CommitUnpaid(c, kind, open)
      PROVE  TypeOK'
  <2> DEFINE r    == pending[c].request
             seen == pending[c].seen
             new  == [NoCharge EXCEPT !.status = open]
  <2>1. r \in Request /\ seen \in Charge BY <1>3 DEF CommitUnpaid, TypeOK
  <2>2. new \in Charge BY <1>3 DEF NoCharge, Charge
  <2>3. charge' = [charge EXCEPT ![r] = Flush(@, seen, new)]
    BY <1>3 DEF CommitUnpaid
  <2>4. charge' \in [Request -> Charge]
    <3> HIDE DEF new, seen, r
    <3> QED BY <2>1, <2>2, <2>3, FlushType DEF TypeOK
  <2> QED BY <1>3, <2>4 DEF CommitUnpaid, TypeOK
<1>4. ASSUME AbortCreate(c) PROVE TypeOK' BY <1>4 DEF AbortCreate, TypeOK
<1> QED BY <1>1, <1>2, <1>3, <1>4 DEF CommitExempt, CommitFree, Statuses

\* So does every other step.
LEMMA ChargeTypeOK ==
  ASSUME TypeOK, NEW r \in Request,
         \/ \E id \in Expansions, delta \in Holds : Expand(r, id, delta)
         \/ \E cost, asked \in Costs : Settle(r, cost, asked)
         \/ Release(r)
         \/ SettleExempt(r) \/ ReleaseExempt(r) \/ SettleFree(r) \/ ReleaseFree(r)
         \/ Age(r)
  PROVE  TypeOK'
<1>0. charge[r] \in Charge /\ period \in Nat BY DEF TypeOK
<1>1. ASSUME NEW id \in Expansions, NEW delta \in Holds, Expand(r, id, delta)
      PROVE  TypeOK'
  <2>1. charge' \in [Request -> Charge]
    BY <1>0, <1>1 DEF Expand, TypeOK, Charge
  <2>2. wallet' \in [balance: Nat, reserved: Nat] BY <1>1 DEF Expand, TypeOK
  <2>3. ledger' \in [Keys -> Nat \cup {NoRow}]
    BY <1>1, RecordType DEF Expand, TypeOK
  <2> QED BY <1>1, <2>1, <2>2, <2>3 DEF Expand, TypeOK
<1>2. ASSUME NEW cost \in Costs, NEW asked \in Costs, Settle(r, cost, asked)
      PROVE  TypeOK'
  <2> DEFINE debit == Debit(r, cost, asked)
  <2>1. debit \in Nat /\ debit <= wallet.balance BY DebitType
  <2>2. charge[r].reserved \in Nat BY <1>0 DEF Charge
  <2>3. wallet' \in [balance: Nat, reserved: Nat]
    <3>1. wallet' = [balance  |-> wallet.balance - debit,
                     reserved |-> Max0(wallet.reserved - charge[r].reserved)]
      BY <1>2 DEF Settle
    <3> HIDE DEF debit
    <3> QED BY <2>1, <2>2, <3>1 DEF Max0, TypeOK
  <2>4. charge' \in [Request -> Charge]
    <3>1. charge' = [charge EXCEPT ![r] =
                       [status |-> "settled", attempt |-> 0, reserved |-> 0,
                        debited |-> debit, settledIn |-> period]]
      BY <1>2 DEF Settle
    <3> HIDE DEF debit
    <3> QED BY <1>0, <2>1, <3>1 DEF TypeOK, Charge, Statuses
  <2>5. ledger' \in [Keys -> Nat \cup {NoRow}]
    BY <1>2, <2>1, <2>2, RecordType DEF Settle, TypeOK
  <2> QED BY <1>2, <2>3, <2>4, <2>5 DEF Settle, TypeOK
<1>3. ASSUME Release(r) PROVE TypeOK'
  <2>1. charge' \in [Request -> Charge]
    BY <1>0, <1>3 DEF Release, TypeOK, Charge, Statuses
  <2>2. wallet' \in [balance: Nat, reserved: Nat]
    BY <1>0, <1>3 DEF Release, TypeOK, Charge, Max0
  <2>3. ledger' \in [Keys -> Nat \cup {NoRow}]
    BY <1>0, <1>3, RecordType DEF Release, TypeOK, Charge
  <2> QED BY <1>3, <2>1, <2>2, <2>3 DEF Release, TypeOK
<1>4. ASSUME NEW open, NEW closed \in Statuses, CloseUnpaid(r, open, closed)
      PROVE  TypeOK'
  <2>1. charge' \in [Request -> Charge]
    BY <1>0, <1>4 DEF CloseUnpaid, TypeOK, Charge
  <2> QED BY <1>4, <2>1 DEF CloseUnpaid, TypeOK
<1>5. ASSUME Age(r) PROVE TypeOK' BY <1>5 DEF Age, TypeOK
<1> QED
  BY <1>1, <1>2, <1>3, <1>4, <1>5
     DEF SettleExempt, ReleaseExempt, SettleFree, ReleaseFree, Statuses

\* So does the stale recovery.
LEMMA RecoverTypeOK == ASSUME TypeOK, RecoverStale PROVE TypeOK'
<1>1. \A r \in Request : charge[r] \in Charge /\ charge[r].reserved \in Nat
  BY DEF TypeOK, Charge
<1>2. charge' \in [Request -> Charge]
  <2>1. \A r \in Request :
           [charge[r] EXCEPT !.status = "released", !.settledIn = period] \in Charge
    <3>1. period \in Nat BY DEF TypeOK
    <3> QED BY <1>1, <3>1 DEF Charge, Statuses
  <2>2. charge' = [r \in Request |->
                     IF r \in Stale
                     THEN [charge[r] EXCEPT !.status = "released", !.settledIn = period]
                     ELSE charge[r]]
    BY DEF RecoverStale
  <2> QED BY <1>1, <2>1, <2>2
<1>3. Total(Stale, HeldMicros) \in Nat
  <2>1. Stale \subseteq Request BY DEF Stale
  <2>2. IsFiniteSet(Stale) BY <2>1, FS_Subset
  <2> QED BY <2>1, <2>2, UsageType, TotalType
<1>4. wallet' \in [balance: Nat, reserved: Nat]
  <2> DEFINE given == Total(Stale, HeldMicros)
  <2>1. wallet' = [wallet EXCEPT !.reserved = Max0(@ - given)] BY DEF RecoverStale
  <2>2. given \in Nat BY <1>3
  <2>3. wallet \in [balance: Nat, reserved: Nat] BY DEF TypeOK
  <2> HIDE DEF given
  <2>4. Max0(wallet.reserved - given) \in Nat BY <2>2, <2>3 DEF Max0
  <2> QED BY <2>1, <2>3, <2>4
<1>5. ledger' \in [Keys -> Nat \cup {NoRow}]
  BY <1>1 DEF RecoverStale, TypeOK, Stale
<1> QED BY <1>2, <1>4, <1>5 DEF RecoverStale, TypeOK

\* Type correctness: in every reachable state every variable has its type. In
\* particular no settlement, with whatever provider cost, takes the balance
\* below zero, and no release takes the reserved amount below zero.
THEOREM TypeCorrect == Spec => []TypeOK
<1>1. Init => TypeOK BY InitTypeOK
<1>2. TypeOK /\ [Next]_vars => TypeOK'
  <2> SUFFICES ASSUME TypeOK, [Next]_vars PROVE TypeOK'
    OBVIOUS
  <2>1. ASSUME NEW c \in Caller,
               \/ \E r \in Request : BeginCreate(c, r)
               \/ \E required \in Holds : CommitCreate(c, required)
               \/ AbortCreate(c)
               \/ CommitExempt(c)
               \/ CommitFree(c)
        PROVE  TypeOK'
    BY <2>1, CreateTypeOK
  <2>2. ASSUME NEW r \in Request,
               \/ \E id \in Expansions, delta \in Holds : Expand(r, id, delta)
               \/ \E cost, asked \in Costs : Settle(r, cost, asked)
               \/ Release(r)
               \/ SettleExempt(r)
               \/ ReleaseExempt(r)
               \/ SettleFree(r)
               \/ ReleaseFree(r)
               \/ Age(r)
        PROVE  TypeOK'
    BY <2>2, ChargeTypeOK
  <2>3. CASE RecoverStale BY <2>3, RecoverTypeOK
  <2>4. CASE NewPeriod BY <2>4 DEF NewPeriod, TypeOK
  <2>5. ASSUME NEW new \in Limits, SetLimit(new) PROVE TypeOK'
    BY <2>5 DEF SetLimit, TypeOK
  <2>6. CASE UNCHANGED vars BY <2>6 DEF vars, TypeOK
  <2> QED BY <2>1, <2>2, <2>3, <2>4, <2>5, <2>6 DEF Next
<1> QED BY <1>1, <1>2, PTL DEF Spec

-----------------------------------------------------------------------------
(* The ledger and the balance.                                             *)

\* The rows of debits, as the ledger has them, are natural amounts.
LEMMA DebitRowsType ==
  ASSUME TypeOK
  PROVE  /\ \A r \in Request : DebitKey(r) \in Keys /\ DebitRows[r] \in Nat
         /\ Total(Request, DebitRows) \in Nat
<1>1. \A r \in Request : DebitKey(r) \in Keys BY DEF DebitKey, Keys
<1>2. \A r \in Request : DebitRows[r] \in Nat BY <1>1 DEF DebitRows, TypeOK
<1>3. Total(Request, DebitRows) \in Nat BY <1>2, TotalType
<1> QED BY <1>1, <1>2, <1>3

\* The key of a debit is no other key.
LEMMA KeysDiffer ==
  ASSUME NEW r, NEW s, NEW n
  PROVE  /\ DebitKey(r) # ReserveKey(s, n)
         /\ DebitKey(r) # ExpandKey(s, n)
         /\ DebitKey(r) # ReleaseKey(s, n)
BY DEF DebitKey, ReserveKey, ExpandKey, ReleaseKey

\* A row that is recorded changes no other row.
LEMMA RecordElsewhere ==
  ASSUME NEW rows \in [Keys -> Nat \cup {NoRow}], NEW key, NEW micros \in Nat,
         NEW other \in Keys, other # key
  PROVE  Record(rows, key, micros)[other] = rows[other]
BY DEF Record

\* A step that neither debits the wallet nor records a debit keeps the bound.
LEMMA NoDebitKeepsBound ==
  ASSUME TypeOK, TypeOK', LedgerNeverOverstates,
         wallet'.balance = wallet.balance,
         \A r \in Request : ledger'[DebitKey(r)] = ledger[DebitKey(r)]
  PROVE  LedgerNeverOverstates'
<1>1. \A r \in Request : DebitRows'[r] = DebitRows[r] BY DEF DebitRows
<1>2. Total(Request, DebitRows') = Total(Request, DebitRows) BY <1>1, TotalSame
<1> QED BY <1>2 DEF LedgerNeverOverstates

\* A settlement records what it debits, or finds a row and records nothing.
LEMMA SettleKeepsBound ==
  ASSUME TypeOK, TypeOK', LedgerNeverOverstates, NEW r \in Request,
         NEW cost \in Costs, NEW asked \in Costs, Settle(r, cost, asked)
  PROVE  LedgerNeverOverstates'
<1> DEFINE debit == Debit(r, cost, asked)
           first == Record(ledger, DebitKey(r), debit)
           key   == ReleaseKey(r, Attempt(charge[r]))
<1>1. debit \in Nat /\ debit <= wallet.balance BY DebitType
<1>2. wallet'.balance = wallet.balance - debit BY DEF Settle
<1>3. charge[r].reserved \in Nat BY DEF TypeOK, Charge
<1>4. ledger' = Record(first, key, charge[r].reserved) BY DEF Settle
<1>5. ledger \in [Keys -> Nat \cup {NoRow}] /\ first \in [Keys -> Nat \cup {NoRow}]
  BY <1>1, RecordType DEF TypeOK
<1>6. \A s \in Request : ledger'[DebitKey(s)] = first[DebitKey(s)]
  <2> HIDE DEF first
  <2> QED BY <1>3, <1>4, <1>5, RecordElsewhere, KeysDiffer, DebitRowsType
<1>7. \A s \in Request \ {r} : DebitRows'[s] = DebitRows[s]
  <2>1. \A s \in Request \ {r} : first[DebitKey(s)] = ledger[DebitKey(s)]
    <3>1. \A s \in Request \ {r} : DebitKey(s) # DebitKey(r) BY DEF DebitKey
    <3> HIDE DEF debit
    <3> QED BY <1>1, <1>5, <3>1, RecordElsewhere, DebitRowsType
  <2> HIDE DEF first
  <2> QED BY <1>6, <2>1 DEF DebitRows
<1>8. DebitRows'[r] \in {DebitRows[r], DebitRows[r] + debit}
  <2>1. first[DebitKey(r)] = IF ledger[DebitKey(r)] = NoRow THEN debit
                             ELSE ledger[DebitKey(r)]
    <3> HIDE DEF debit
    <3> QED BY <1>5, DebitRowsType DEF Record
  <2> HIDE DEF first, debit
  <2> QED BY <1>1, <1>6, <2>1 DEF DebitRows
<1>9. \A s \in Request : DebitRows[s] \in Nat /\ DebitRows'[s] \in Nat
  <2>1. \A s \in Request : DebitRows[s] \in Nat BY DebitRowsType
  <2>2. \A s \in Request : DebitRows'[s] \in Nat
    <3> HIDE DEF debit
    <3> QED BY <1>1, <1>7, <1>8, <2>1
  <2> QED BY <2>1, <2>2
<1>10. Total(Request, DebitRows')
         = Total(Request, DebitRows) - DebitRows[r] + DebitRows'[r]
  BY <1>7, <1>9, TotalChange
<1>11. Total(Request, DebitRows) \in Nat /\ wallet.balance \in Nat
  BY DebitRowsType DEF TypeOK
<1> HIDE DEF debit
<1> QED BY <1>1, <1>2, <1>8, <1>9, <1>10, <1>11, AmountsAssumption DEF LedgerNeverOverstates

\* No row of a debit is there at first.
LEMMA NoDebitsAtFirst == Init => Total(Request, DebitRows) = 0
<1> SUFFICES ASSUME Init PROVE Total(Request, DebitRows) = 0
  OBVIOUS
<1>1. \A r \in Request : DebitRows[r] = 0
  BY DEF Init, DebitRows, DebitKey, Keys
<1>2. Micros(Request, DebitRows) = {} BY <1>1 DEF Micros
<1> QED BY <1>2, FS_EmptySet DEF Total

\* Only a settlement debits the wallet and records a debit.
LEMMA OnlySettlementsDebit ==
  ASSUME TypeOK, [Next]_vars
  PROVE  \/ \E r \in Request : \E cost, asked \in Costs : Settle(r, cost, asked)
         \/ /\ wallet'.balance = wallet.balance
            /\ \A r \in Request : ledger'[DebitKey(r)] = ledger[DebitKey(r)]
<1> DEFINE Same == /\ wallet'.balance = wallet.balance
                   /\ \A r \in Request : ledger'[DebitKey(r)] = ledger[DebitKey(r)]
<1>0. /\ ledger \in [Keys -> Nat \cup {NoRow}]
      /\ \A r \in Request : DebitKey(r) \in Keys
      /\ wallet \in [balance: Nat, reserved: Nat]
  BY DebitRowsType DEF TypeOK
<1>1. ASSUME NEW c \in Caller, NEW required \in Holds, CommitCreate(c, required)
      PROVE  Same
  <2>1. wallet'.balance = wallet.balance BY <1>0, <1>1 DEF CommitCreate
  <2>2. \E s, n : ledger' = Record(ledger, ReserveKey(s, n), required)
    BY <1>1 DEF CommitCreate
  <2>3. \A r \in Request : ledger'[DebitKey(r)] = ledger[DebitKey(r)]
    BY <1>0, <2>2, RecordElsewhere, KeysDiffer
  <2> QED BY <2>1, <2>3
<1>2. ASSUME NEW r \in Request, NEW id \in Expansions, NEW delta \in Holds,
             Expand(r, id, delta)
      PROVE  Same
  <2>1. wallet'.balance = wallet.balance BY <1>0, <1>2 DEF Expand
  <2>2. ledger' = Record(ledger, ExpandKey(r, id), delta) \/ ledger' = ledger
    BY <1>2 DEF Expand
  <2>3. \A s \in Request : ledger'[DebitKey(s)] = ledger[DebitKey(s)]
    BY <1>0, <2>2, RecordElsewhere, KeysDiffer
  <2> QED BY <2>1, <2>3
<1>3. ASSUME NEW r \in Request, Release(r) PROVE Same
  <2>1. wallet'.balance = wallet.balance BY <1>0, <1>3 DEF Release
  <2>2. charge[r].reserved \in Nat BY DEF TypeOK, Charge
  <2>3. \E n : ledger' = Record(ledger, ReleaseKey(r, n), charge[r].reserved)
    BY <1>3 DEF Release
  <2>4. \A s \in Request : ledger'[DebitKey(s)] = ledger[DebitKey(s)]
    BY <1>0, <2>2, <2>3, RecordElsewhere, KeysDiffer
  <2> QED BY <2>1, <2>4
<1>4. CASE RecoverStale
  <2>1. wallet'.balance = wallet.balance BY <1>0, <1>4 DEF RecoverStale
  <2>2. \A s \in Request : ledger'[DebitKey(s)] = ledger[DebitKey(s)]
    BY <1>0, <1>4, KeysDiffer DEF RecoverStale
  <2> QED BY <2>1, <2>2
<1>5. \/ UNCHANGED <<wallet, ledger>>
      \/ \E c \in Caller, required \in Holds : CommitCreate(c, required)
      \/ \E r \in Request :
            \/ \E id \in Expansions, delta \in Holds : Expand(r, id, delta)
            \/ \E cost, asked \in Costs : Settle(r, cost, asked)
            \/ Release(r)
      \/ RecoverStale
  BY DEF Next, vars, BeginCreate, AbortCreate, CommitExempt, CommitFree,
         CommitUnpaid, SettleExempt, ReleaseExempt, SettleFree, ReleaseFree,
         CloseUnpaid, Age, NewPeriod, SetLimit
<1> QED BY <1>1, <1>2, <1>3, <1>4, <1>5

\* Whatever creators of one charge race with each other, and whatever is
\* retried, expanded or recovered meanwhile, the wallet was debited for every
\* debit the ledger shows (settle_usage_reservation and _ledger).
THEOREM NeverOverstated == Spec => []LedgerNeverOverstates
<1>1. Init => LedgerNeverOverstates
  <2> SUFFICES ASSUME Init PROVE LedgerNeverOverstates
    OBVIOUS
  <2>1. Total(Request, DebitRows) = 0 BY NoDebitsAtFirst
  <2> QED BY <2>1 DEF Init, LedgerNeverOverstates
<1>2. TypeOK /\ TypeOK' /\ LedgerNeverOverstates /\ [Next]_vars
        => LedgerNeverOverstates'
  <2> SUFFICES ASSUME TypeOK, TypeOK', LedgerNeverOverstates, [Next]_vars
               PROVE  LedgerNeverOverstates'
    OBVIOUS
  <2>1. ASSUME NEW r \in Request, NEW cost \in Costs, NEW asked \in Costs,
               Settle(r, cost, asked)
        PROVE  LedgerNeverOverstates'
    BY <2>1, SettleKeepsBound
  <2> QED BY <2>1, OnlySettlementsDebit, NoDebitKeepsBound
<1> QED BY <1>1, <1>2, TypeCorrect, PTL DEF Spec

-----------------------------------------------------------------------------
(* Charges that are created one at a time. SnapshotsCurrent is a condition  *)
(* on the transactions; it follows from one on the clients.                *)

\* Of one request id a client has one call in flight.
OneCallPerRequest ==
    \A c, d \in Caller :
        pending[c] # Idle /\ pending[d] # Idle /\ pending[c].request = pending[d].request
            => c = d

\* What a transaction that creates a charge has read had no hold.
SeenHaveNoHold ==
    \A c \in Caller : pending[c] # Idle => pending[c].seen.status \in {"none", "released"}

\* A charge that has no hold is changed by its creators alone.
LEMMA OnlyCreatorsOpen ==
  ASSUME TypeOK, NEW r \in Request, charge[r].status \in {"none", "released"},
         [Next]_vars, charge'[r] # charge[r]
  PROVE  \E c \in Caller : /\ pending[c] # Idle
                           /\ pending[c].request = r
                           /\ pending' = [pending EXCEPT ![c] = Idle]
<1>1. charge \in [Request -> Charge] BY DEF TypeOK
<1>2. ASSUME NEW s \in Request,
             \/ \E id \in Expansions, delta \in Holds : Expand(s, id, delta)
             \/ \E cost, asked \in Costs : Settle(s, cost, asked)
             \/ Release(s)
             \/ SettleExempt(s) \/ ReleaseExempt(s) \/ SettleFree(s) \/ ReleaseFree(s)
             \/ Age(s)
      PROVE  charge'[r] = charge[r]
  BY <1>1, <1>2 DEF Expand, Settle, Release, SettleExempt, ReleaseExempt, SettleFree,
                    ReleaseFree, CloseUnpaid, Age, Active
<1>3. CASE RecoverStale BY <1>3 DEF RecoverStale, Stale, Active
<1>4. CASE NewPeriod \/ (\E new \in Limits : SetLimit(new)) \/ UNCHANGED vars
  BY <1>4 DEF NewPeriod, SetLimit, vars
<1>5. ASSUME NEW c \in Caller,
             \/ \E s \in Request : BeginCreate(c, s)
             \/ AbortCreate(c)
      PROVE  charge'[r] = charge[r]
  BY <1>5 DEF BeginCreate, AbortCreate
<1>6. ASSUME NEW c \in Caller,
             \/ \E required \in Holds : CommitCreate(c, required)
             \/ CommitExempt(c) \/ CommitFree(c)
      PROVE  /\ pending[c] # Idle
             /\ pending[c].request = r
             /\ pending' = [pending EXCEPT ![c] = Idle]
  <2>1. pending[c] # Idle /\ pending' = [pending EXCEPT ![c] = Idle]
    BY <1>6 DEF CommitCreate, CommitExempt, CommitFree, CommitUnpaid
  <2>2. \E row : charge' = [charge EXCEPT ![pending[c].request] = row]
    BY <1>6 DEF CommitCreate, CommitExempt, CommitFree, CommitUnpaid
  <2>3. pending[c].request = r
    BY <1>1, <2>2
  <2> QED BY <2>1, <2>3
<1> QED BY <1>2, <1>3, <1>4, <1>5, <1>6 DEF Next

\* What a transaction that creates a charge has read had no hold, whoever else
\* creates the charge.
LEMMA SeenHold == Spec => []SeenHaveNoHold
<1>1. Init => SeenHaveNoHold BY DEF Init, SeenHaveNoHold
<1>2. TypeOK /\ SeenHaveNoHold /\ [Next]_vars => SeenHaveNoHold'
  <2> SUFFICES ASSUME TypeOK, SeenHaveNoHold, [Next]_vars PROVE SeenHaveNoHold'
    OBVIOUS
  <2>1. pending \in [Caller -> {Idle} \cup [request: Request, seen: Charge]]
    BY DEF TypeOK
  <2>2. \/ UNCHANGED pending
        \/ \E c \in Caller : pending' = [pending EXCEPT ![c] = Idle]
        \/ \E c \in Caller, r \in Request : BeginCreate(c, r)
    BY DEF Next, vars, CommitCreate, AbortCreate, CommitExempt, CommitFree,
           CommitUnpaid, Expand, Settle, Release, SettleExempt, ReleaseExempt,
           SettleFree, ReleaseFree, CloseUnpaid, Age, RecoverStale, NewPeriod, SetLimit
  <2>3. ASSUME NEW c \in Caller, NEW r \in Request, BeginCreate(c, r)
        PROVE  SeenHaveNoHold'
    BY <2>1, <2>3 DEF BeginCreate, SeenHaveNoHold
  <2> QED BY <2>1, <2>2, <2>3 DEF SeenHaveNoHold
<1> QED BY <1>1, <1>2, TypeCorrect, PTL DEF Spec

\* Clients that keep one call per request id in flight see to it that no
\* transaction overwrites a charge it has not read: nothing but the creation
\* of a charge changes one that is not there or was released
\* (create_usage_reservation, prepare_web_turn).
THEOREM OneCallKeepsSnapshots ==
  Spec /\ []OneCallPerRequest => []SnapshotsCurrent
<1>1. Init => SnapshotsCurrent BY DEF Init, SnapshotsCurrent
<1>2. TypeOK /\ SeenHaveNoHold /\ OneCallPerRequest /\ SnapshotsCurrent /\ [Next]_vars
        => SnapshotsCurrent'
  <2> SUFFICES ASSUME TypeOK, SeenHaveNoHold, OneCallPerRequest, SnapshotsCurrent,
                      [Next]_vars, NEW d \in Caller, pending'[d] # Idle
               PROVE  pending'[d].seen = charge'[pending'[d].request]
    BY DEF SnapshotsCurrent
  <2>0. pending \in [Caller -> {Idle} \cup [request: Request, seen: Charge]]
    BY DEF TypeOK
  <2>1. CASE \E c \in Caller, r \in Request : BeginCreate(c, r)
    <3>1. PICK c \in Caller, r \in Request : BeginCreate(c, r) BY <2>1
    <3>2. charge' = charge /\ pending' = [pending EXCEPT ![c] = [request |-> r, seen |-> charge[r]]]
      BY <3>1 DEF BeginCreate
    <3> QED BY <2>0, <3>2 DEF SnapshotsCurrent
  <2>2. CASE \/ UNCHANGED pending
             \/ \E c \in Caller : pending' = [pending EXCEPT ![c] = Idle]
    <3>1. pending'[d] = pending[d] /\ pending[d] # Idle BY <2>0, <2>2
    <3> DEFINE r == pending[d].request
    <3>2. r \in Request /\ charge[r].status \in {"none", "released"} /\ pending[d].seen = charge[r]
      BY <2>0, <3>1 DEF SeenHaveNoHold, SnapshotsCurrent
    <3>3. charge'[r] = charge[r]
      <4>1. SUFFICES ASSUME charge'[r] # charge[r] PROVE FALSE
        OBVIOUS
      <4>2. PICK c \in Caller : /\ pending[c] # Idle
                                /\ pending[c].request = r
                                /\ pending' = [pending EXCEPT ![c] = Idle]
        BY <3>2, <4>1, OnlyCreatorsOpen
      <4>3. c = d BY <3>1, <4>2 DEF OneCallPerRequest
      <4> QED BY <2>0, <4>2, <4>3
    <3> QED BY <3>1, <3>2, <3>3
  <2>3. \/ UNCHANGED pending
        \/ \E c \in Caller : pending' = [pending EXCEPT ![c] = Idle]
        \/ \E c \in Caller, r \in Request : BeginCreate(c, r)
    BY DEF Next, vars, CommitCreate, AbortCreate, CommitExempt, CommitFree,
           CommitUnpaid, Expand, Settle, Release, SettleExempt, ReleaseExempt,
           SettleFree, ReleaseFree, CloseUnpaid, Age, RecoverStale, NewPeriod, SetLimit
  <2> QED BY <2>1, <2>2, <2>3
<1> QED BY <1>1, <1>2, TypeCorrect, SeenHold, PTL DEF Spec

-----------------------------------------------------------------------------
(* The wallet and its charges.                                             *)

HoldsInv == HoldsMatchCharges /\ SeenHaveNoHold

\* A step that touches one charge changes what is held by that charge's change.
LEMMA HeldChange ==
  ASSUME TypeOK, TypeOK', NEW r \in Request,
         \A s \in Request \ {r} : charge'[s] = charge[s]
  PROVE  /\ HeldMicros[r] \in Nat /\ HeldMicros'[r] \in Nat
         /\ Held \in Nat /\ HeldMicros[r] <= Held
         /\ Held' = Held - HeldMicros[r] + HeldMicros'[r]
<1>1. \A s \in Request : HeldMicros[s] \in Nat BY UsageType
<1>2. \A s \in Request : HeldMicros'[s] \in Nat
  <2>1. \A s \in Request : charge'[s].reserved \in Nat BY DEF TypeOK, Charge
  <2> QED BY <2>1 DEF HeldMicros
<1>3. \A s \in Request \ {r} : HeldMicros'[s] = HeldMicros[s]
  BY DEF HeldMicros, Active
<1>4. Total(Request, HeldMicros')
        = Total(Request, HeldMicros) - HeldMicros[r] + HeldMicros'[r]
  BY <1>1, <1>2, <1>3, TotalChange
<1>5. Total({r}, HeldMicros) = HeldMicros[r] BY <1>1, TotalOne
<1>6. Total({r}, HeldMicros) <= Total(Request, HeldMicros) BY <1>1, TotalPart
<1> QED BY <1>1, <1>2, <1>4, <1>5, <1>6, UsageType DEF Held

\* A creator's transaction, when its snapshot is current.
LEMMA CreateKeepsHolds ==
  ASSUME TypeOK, TypeOK', HoldsInv, SnapshotsCurrent, NEW c \in Caller,
         \/ \E required \in Holds : CommitCreate(c, required)
         \/ \E kind \in Kinds, open \in {"exempt_pending", "free_pending"} :
               CommitUnpaid(c, kind, open)
  PROVE  HoldsMatchCharges'
<1> DEFINE r    == pending[c].request
           seen == pending[c].seen
<1>1. /\ pending[c] # Idle /\ r \in Request /\ seen \in Charge /\ seen = charge[r]
      /\ seen.status \in {"none", "released"}
  BY DEF CommitCreate, CommitUnpaid, TypeOK, SnapshotsCurrent, HoldsInv, SeenHaveNoHold
<1>2. HeldMicros[r] = 0 BY <1>1 DEF HeldMicros, Active
<1>3. wallet.reserved = Held /\ wallet.reserved \in Nat
  BY DEF HoldsInv, HoldsMatchCharges, TypeOK
<1>4. ASSUME NEW required \in Holds, CommitCreate(c, required)
      PROVE  HoldsMatchCharges'
  <2> DEFINE new == [seen EXCEPT !.status = "reserved", !.attempt = NextAttempt(seen),
                                 !.reserved = required, !.settledIn = 0]
  <2>1. charge' = [charge EXCEPT ![r] = Flush(@, seen, new)]
    BY <1>4 DEF CommitCreate
  <2>2. new \in Charge
    <3>1. NextAttempt(seen) \in Nat BY <1>1 DEF NextAttempt, Attempt, Charge
    <3>2. required \in Nat OBVIOUS
    <3> HIDE DEF seen
    <3> QED BY <1>1, <3>1, <3>2 DEF Charge, Statuses
  <2>3. new.status = "reserved" /\ new.reserved = required
    <3> HIDE DEF seen
    <3> QED BY <1>1 DEF Charge
  <2>4. charge'[r] = new
    <3>1. charge \in [Request -> Charge] BY DEF TypeOK
    <3> HIDE DEF new, seen, r
    <3> QED BY <1>1, <2>1, <2>2, <3>1, FlushFresh
  <2>5. \A s \in Request \ {r} : charge'[s] = charge[s]
    <3> HIDE DEF new, seen, r
    <3> QED BY <2>1 DEF TypeOK
  <2>6. HeldMicros'[r] = required
    <3> HIDE DEF new, seen, r
    <3> QED BY <1>1, <2>3, <2>4 DEF HeldMicros, Active
  <2>7. wallet'.reserved = wallet.reserved + required
    BY <1>4 DEF CommitCreate, TypeOK
  <2>8. required \in Nat OBVIOUS
  <2>9. Held \in Nat /\ Held' = Held - HeldMicros[r] + HeldMicros'[r]
    <3> HIDE DEF new, seen, r
    <3> QED BY <1>1, <2>5, HeldChange
  <2> HIDE DEF new, seen, r
  <2> QED BY <1>2, <1>3, <2>6, <2>7, <2>8, <2>9 DEF HoldsMatchCharges
<1>5. ASSUME NEW kind \in Kinds, NEW open \in {"exempt_pending", "free_pending"},
             CommitUnpaid(c, kind, open)
      PROVE  HoldsMatchCharges'
  <2> DEFINE new == [NoCharge EXCEPT !.status = open]
  <2>1. charge' = [charge EXCEPT ![r] = Flush(@, seen, new)]
    BY <1>5 DEF CommitUnpaid
  <2>2. new \in Charge /\ new.status = open BY DEF NoCharge, Charge, Statuses
  <2>3. charge'[r] = new
    <3>1. charge \in [Request -> Charge] BY DEF TypeOK
    <3> HIDE DEF new, seen, r
    <3> QED BY <1>1, <2>1, <2>2, <3>1, FlushFresh
  <2>4. \A s \in Request \ {r} : charge'[s] = charge[s]
    <3> HIDE DEF new, seen, r
    <3> QED BY <2>1 DEF TypeOK
  <2>5. HeldMicros'[r] = 0
    <3> HIDE DEF new, seen, r
    <3> QED BY <1>1, <2>2, <2>3 DEF HeldMicros, Active
  <2>6. Held \in Nat /\ Held' = Held - HeldMicros[r] + HeldMicros'[r]
    <3> HIDE DEF new, seen, r
    <3> QED BY <1>1, <2>4, HeldChange
  <2>7. wallet' = wallet BY <1>5 DEF CommitUnpaid
  <2> HIDE DEF new, seen, r
  <2> QED BY <1>2, <1>3, <2>5, <2>6, <2>7 DEF HoldsMatchCharges
<1> QED BY <1>4, <1>5

\* A step of one charge that exists.
LEMMA ChargeKeepsHolds ==
  ASSUME TypeOK, TypeOK', HoldsInv, NEW r \in Request,
         \/ \E id \in Expansions, delta \in Holds : Expand(r, id, delta)
         \/ \E cost, asked \in Costs : Settle(r, cost, asked)
         \/ Release(r)
         \/ \E open \in {"exempt_pending", "free_pending"},
               closed \in {"released", "billing_exempt", "free"} :
                  CloseUnpaid(r, open, closed)
  PROVE  HoldsMatchCharges'
<1>1. wallet.reserved = Held /\ wallet \in [balance: Nat, reserved: Nat]
  BY DEF HoldsInv, HoldsMatchCharges, TypeOK
<1>2. charge \in [Request -> Charge] /\ charge[r].reserved \in Nat
  BY DEF TypeOK, Charge
<1>3. \A s \in Request \ {r} : charge'[s] = charge[s]
  BY <1>2 DEF Expand, Settle, Release, CloseUnpaid
<1>4. /\ HeldMicros[r] \in Nat /\ HeldMicros'[r] \in Nat
      /\ Held \in Nat /\ HeldMicros[r] <= Held
      /\ Held' = Held - HeldMicros[r] + HeldMicros'[r]
  BY <1>3, HeldChange
<1>5. ASSUME NEW id \in Expansions, NEW delta \in Holds, Expand(r, id, delta)
      PROVE  HoldsMatchCharges'
  <2>1. CASE UNCHANGED <<charge, wallet>>
    BY <1>1, <2>1 DEF HoldsMatchCharges, Held, HeldMicros, Active
  <2>2. CASE /\ charge' = [charge EXCEPT ![r].reserved = @ + delta]
             /\ wallet' = [wallet EXCEPT !.reserved = @ + delta]
    <3>1. Active(r) BY <1>5 DEF Expand
    <3>2. HeldMicros[r] = charge[r].reserved BY <3>1 DEF HeldMicros
    <3>3. HeldMicros'[r] = charge[r].reserved + delta
      BY <1>2, <2>2, <3>1 DEF HeldMicros, Active, Charge
    <3>4. wallet'.reserved = wallet.reserved + delta BY <1>1, <2>2
    <3>5. delta \in Nat OBVIOUS
    <3> QED BY <1>1, <1>2, <1>4, <3>2, <3>3, <3>4, <3>5 DEF HoldsMatchCharges
  <2> QED BY <1>5, <2>1, <2>2 DEF Expand
<1>6. CASE (\E cost, asked \in Costs : Settle(r, cost, asked)) \/ Release(r)
  <2>1. Active(r) BY <1>6 DEF Settle, Release
  <2>2. HeldMicros[r] = charge[r].reserved BY <2>1 DEF HeldMicros
  <2>3. charge'[r].status \in {"settled", "released"}
    BY <1>2, <1>6 DEF Settle, Release, Charge
  <2>4. HeldMicros'[r] = 0 BY <2>3 DEF HeldMicros, Active
  <2>5. wallet'.reserved = Max0(wallet.reserved - charge[r].reserved)
    BY <1>1, <1>6 DEF Settle, Release
  <2> QED BY <1>1, <1>2, <1>4, <2>2, <2>4, <2>5 DEF HoldsMatchCharges, Max0
<1>7. ASSUME NEW open \in {"exempt_pending", "free_pending"},
             NEW closed \in {"released", "billing_exempt", "free"},
             CloseUnpaid(r, open, closed)
      PROVE  HoldsMatchCharges'
  <2>1. HeldMicros[r] = 0 BY <1>7 DEF CloseUnpaid, HeldMicros, Active
  <2>2. charge'[r].status = closed BY <1>2, <1>7 DEF CloseUnpaid, Charge
  <2>3. HeldMicros'[r] = 0 BY <2>2 DEF HeldMicros, Active
  <2>4. wallet' = wallet BY <1>7 DEF CloseUnpaid
  <2> QED BY <1>1, <1>4, <2>1, <2>3, <2>4 DEF HoldsMatchCharges
<1> QED BY <1>5, <1>6, <1>7

\* The stale recovery gives back what the charges it releases hold.
LEMMA RecoverKeepsHolds ==
  ASSUME TypeOK, HoldsInv, RecoverStale
  PROVE  HoldsMatchCharges'
<1>1. Stale \subseteq Request /\ IsFiniteSet(Stale) /\ IsFiniteSet(Request \ Stale)
  BY FS_Subset DEF Stale
<1>2. \A r \in Request : HeldMicros[r] \in Nat BY UsageType
<1>3. Total(Request, HeldMicros)
        = Total(Stale, HeldMicros) + Total(Request \ Stale, HeldMicros)
  BY <1>1, <1>2, TotalSplit
<1>4. /\ Total(Stale, HeldMicros) \in Nat
      /\ Total(Request \ Stale, HeldMicros) \in Nat
  BY <1>1, <1>2, TotalType
<1>5. \A r \in Stale : HeldMicros'[r] = 0
  <2>1. charge \in [Request -> Charge] BY DEF TypeOK
  <2>2. \A r \in Stale : charge'[r].status = "released"
    BY <1>1, <2>1 DEF RecoverStale, Charge
  <2> QED BY <1>1, <2>2 DEF HeldMicros, Active
<1>6. \A r \in Request \ Stale : HeldMicros'[r] = HeldMicros[r]
  BY DEF RecoverStale, HeldMicros, Active
<1>7. Total(Request, HeldMicros')
        = Total(Stale, HeldMicros') + Total(Request \ Stale, HeldMicros')
  <2>1. \A r \in Request : HeldMicros'[r] \in Nat BY <1>2, <1>5, <1>6
  <2> QED BY <1>1, <2>1, TotalSplit
<1>8. Total(Request \ Stale, HeldMicros') = Total(Request \ Stale, HeldMicros)
  BY <1>6, TotalSame
<1>9. Total(Stale, HeldMicros') = 0
  <2>1. Micros(Stale, HeldMicros') = {} BY <1>5 DEF Micros
  <2> QED BY <2>1, FS_EmptySet DEF Total
<1>10. wallet'.reserved = Max0(wallet.reserved - Total(Stale, HeldMicros))
  BY DEF RecoverStale, TypeOK
<1>11. wallet.reserved = Total(Request, HeldMicros)
  BY DEF HoldsInv, HoldsMatchCharges, Held
<1> QED BY <1>3, <1>4, <1>7, <1>8, <1>9, <1>10, <1>11 DEF HoldsMatchCharges, Held, Max0

\* What the wallet has set aside is what its active charges hold, for any
\* number of requests, attempts and expansions, as long as no two
\* transactions that create one charge overlap (create_usage_reservation,
\* expand, settle, release and the stale recovery together).
THEOREM HoldsMatch == Spec /\ []SnapshotsCurrent => []HoldsMatchCharges
<1>1. Init => HoldsInv
  <2> SUFFICES ASSUME Init PROVE HoldsInv
    OBVIOUS
  <2>1. \A r \in Request : HeldMicros[r] = 0 BY DEF Init, HeldMicros, Active, NoCharge
  <2>2. Micros(Request, HeldMicros) = {} BY <2>1 DEF Micros
  <2>3. Held = 0 BY <2>2, FS_EmptySet DEF Held, Total
  <2> QED BY <2>3 DEF Init, HoldsInv, HoldsMatchCharges, SeenHaveNoHold
<1>2. TypeOK /\ TypeOK' /\ SnapshotsCurrent /\ SeenHaveNoHold' /\ HoldsInv /\ [Next]_vars
        => HoldsInv'
  <2> SUFFICES ASSUME TypeOK, TypeOK', SnapshotsCurrent, SeenHaveNoHold', HoldsInv,
                      [Next]_vars
               PROVE  HoldsInv'
    OBVIOUS
  <2>1. HoldsMatchCharges'
    <3>1. ASSUME NEW c \in Caller,
                 \/ \E required \in Holds : CommitCreate(c, required)
                 \/ CommitExempt(c) \/ CommitFree(c)
          PROVE  HoldsMatchCharges'
      <4>1. CASE \E required \in Holds : CommitCreate(c, required)
        BY <4>1, CreateKeepsHolds
      <4>2. CASE CommitExempt(c) \/ CommitFree(c)
        <5>1. \E kind \in Kinds, open \in {"exempt_pending", "free_pending"} :
                 CommitUnpaid(c, kind, open)
          BY <4>2 DEF CommitExempt, CommitFree, CommitUnpaid
        <5> QED BY <5>1, CreateKeepsHolds
      <4> QED BY <3>1, <4>1, <4>2
    <3>2. ASSUME NEW r \in Request,
                 \/ \E id \in Expansions, delta \in Holds : Expand(r, id, delta)
                 \/ \E cost, asked \in Costs : Settle(r, cost, asked)
                 \/ Release(r)
                 \/ SettleExempt(r) \/ ReleaseExempt(r)
                 \/ SettleFree(r) \/ ReleaseFree(r)
          PROVE  HoldsMatchCharges'
      BY <3>2, ChargeKeepsHolds DEF SettleExempt, ReleaseExempt, SettleFree, ReleaseFree
    <3>3. CASE RecoverStale BY <3>3, RecoverKeepsHolds
    <3>4. CASE UNCHANGED <<wallet, charge>>
      BY <3>4 DEF HoldsInv, HoldsMatchCharges, Held, HeldMicros, Active
    <3>5. \/ UNCHANGED <<wallet, charge>>
          \/ \E c \in Caller :
                \/ \E required \in Holds : CommitCreate(c, required)
                \/ CommitExempt(c) \/ CommitFree(c)
          \/ \E r \in Request :
                \/ \E id \in Expansions, delta \in Holds : Expand(r, id, delta)
                \/ \E cost, asked \in Costs : Settle(r, cost, asked)
                \/ Release(r)
                \/ SettleExempt(r) \/ ReleaseExempt(r)
                \/ SettleFree(r) \/ ReleaseFree(r)
          \/ RecoverStale
      BY DEF Next, vars, BeginCreate, AbortCreate, Age, NewPeriod, SetLimit
    <3> QED BY <3>1, <3>2, <3>3, <3>4, <3>5
  <2> QED BY <2>1 DEF HoldsInv
<1>3. HoldsInv => HoldsMatchCharges BY DEF HoldsInv
<1> QED BY <1>1, <1>2, <1>3, TypeCorrect, SeenHold, PTL DEF Spec

-----------------------------------------------------------------------------
(* What is closed stays closed, and the monthly limit.                     *)

\* A reservation that is committed: what it writes, when it has read the
\* charge that is there.
LEMMA ReservationWrites ==
  ASSUME TypeOK, SnapshotsCurrent, SeenHaveNoHold,
         NEW c \in Caller, NEW required \in Holds, CommitCreate(c, required)
  PROVE  \E r \in Request :
           /\ charge[r].status \in {"none", "released"}
           /\ \A s \in Request \ {r} : charge'[s] = charge[s]
           /\ charge'[r].status = "reserved"
           /\ charge'[r].attempt = NextAttempt(charge[r])
           /\ charge'[r].reserved = required
           /\ charge'[r].settledIn = 0
           /\ ledger' = Record(ledger, ReserveKey(r, NextAttempt(charge[r])), required)
           /\ pending[c].seen = charge[r]
<1>1. PICK r \in Request, seen \in Charge :
         /\ r = pending[c].request /\ seen = pending[c].seen
         /\ seen = charge[r] /\ seen.status \in {"none", "released"}
  BY DEF CommitCreate, TypeOK, SnapshotsCurrent, SeenHaveNoHold
<1> DEFINE new == [seen EXCEPT !.status = "reserved", !.attempt = NextAttempt(seen),
                               !.reserved = required, !.settledIn = 0]
<1>2. charge' = [charge EXCEPT ![r] = Flush(@, seen, new)] BY <1>1 DEF CommitCreate
<1>3. new \in Charge
  <2>1. NextAttempt(seen) \in Nat BY DEF NextAttempt, Attempt, Charge
  <2>2. required \in Nat OBVIOUS
  <2> QED BY <2>1, <2>2 DEF Charge, Statuses
<1>4. /\ new.status = "reserved" /\ new.attempt = NextAttempt(seen)
      /\ new.reserved = required /\ new.settledIn = 0
  BY DEF Charge
<1>5. charge \in [Request -> Charge] BY DEF TypeOK
<1>6. ledger' = Record(ledger, ReserveKey(r, NextAttempt(seen)), required)
  BY <1>1 DEF CommitCreate
<1> HIDE DEF new
<1>7. charge'[r] = new BY <1>1, <1>2, <1>3, <1>5, FlushFresh
<1>8. \A s \in Request \ {r} : charge'[s] = charge[s] BY <1>2, <1>5
<1> QED BY <1>1, <1>4, <1>6, <1>7, <1>8

\* A charge without money that is opened: the same.
LEMMA UnpaidWrites ==
  ASSUME TypeOK, SnapshotsCurrent, SeenHaveNoHold, NEW c \in Caller,
         CommitExempt(c) \/ CommitFree(c)
  PROVE  \E r \in Request :
           /\ charge[r].status \in {"none", "released"}
           /\ \A s \in Request \ {r} : charge'[s] = charge[s]
           /\ charge'[r].status \in {"exempt_pending", "free_pending"}
           /\ charge'[r].settledIn = 0
<1>1. PICK kind \in Kinds, open \in {"exempt_pending", "free_pending"} :
         CommitUnpaid(c, kind, open)
  BY DEF CommitExempt, CommitFree, CommitUnpaid
<1>2. PICK r \in Request, seen \in Charge :
         /\ r = pending[c].request /\ seen = pending[c].seen
         /\ seen = charge[r] /\ seen.status \in {"none", "released"}
  BY <1>1 DEF CommitUnpaid, TypeOK, SnapshotsCurrent, SeenHaveNoHold
<1> DEFINE new == [NoCharge EXCEPT !.status = open]
<1>3. charge' = [charge EXCEPT ![r] = Flush(@, seen, new)] BY <1>1, <1>2 DEF CommitUnpaid
<1>4. new \in Charge /\ new.status = open /\ new.settledIn = 0
  BY DEF NoCharge, Charge, Statuses
<1>5. charge \in [Request -> Charge] BY DEF TypeOK
<1> HIDE DEF new
<1>6. charge'[r] = new BY <1>2, <1>3, <1>4, <1>5, FlushFresh
<1>7. \A s \in Request \ {r} : charge'[s] = charge[s] BY <1>3, <1>5
<1> QED BY <1>2, <1>4, <1>6, <1>7

Closed == {"settled", "billing_exempt", "free"}

\* No step touches a closed charge.
LEMMA StepKeepsClosed ==
  ASSUME TypeOK, SnapshotsCurrent, SeenHaveNoHold, [Next]_vars,
         NEW r \in Request, charge[r].status \in Closed
  PROVE  charge'[r] = charge[r]
<1> USE DEF Closed
<1>1. charge \in [Request -> Charge] BY DEF TypeOK
<1>2. ASSUME NEW s \in Request,
             \/ \E id \in Expansions, delta \in Holds : Expand(s, id, delta)
             \/ \E cost, asked \in Costs : Settle(s, cost, asked)
             \/ Release(s)
             \/ SettleExempt(s) \/ ReleaseExempt(s) \/ SettleFree(s) \/ ReleaseFree(s)
             \/ Age(s)
      PROVE  charge'[r] = charge[r]
  BY <1>1, <1>2 DEF Expand, Settle, Release, SettleExempt, ReleaseExempt, SettleFree,
                    ReleaseFree, CloseUnpaid, Age, Active
<1>3. CASE RecoverStale BY <1>3 DEF RecoverStale, Stale, Active
<1>4. CASE NewPeriod \/ (\E new \in Limits : SetLimit(new)) \/ UNCHANGED vars
  BY <1>4 DEF NewPeriod, SetLimit, vars
<1>5. ASSUME NEW c \in Caller,
             \/ \E s \in Request : BeginCreate(c, s)
             \/ AbortCreate(c)
      PROVE  charge'[r] = charge[r]
  BY <1>5 DEF BeginCreate, AbortCreate
<1>6. ASSUME NEW c \in Caller,
             \/ \E required \in Holds : CommitCreate(c, required)
             \/ CommitExempt(c) \/ CommitFree(c)
      PROVE  charge'[r] = charge[r]
  BY <1>6, ReservationWrites, UnpaidWrites
<1> QED BY <1>2, <1>3, <1>4, <1>5, <1>6 DEF Next

\* A charge that is settled is never opened or debited again, by a late
\* settlement, a second release, the stale recovery or a retry of its id, as
\* long as no two transactions that create one charge overlap
\* (settle_usage_reservation, release_usage_reservation,
\* recover_stale_usage_reservations and the creation of charges).
THEOREM ClosedStays == Spec /\ []SnapshotsCurrent => ClosedIsFinal
<1>1. TypeOK /\ SnapshotsCurrent /\ SeenHaveNoHold /\ [Next]_vars
        => [\A r \in Request : charge[r].status \in {"settled", "billing_exempt", "free"}
                                 => charge'[r] = charge[r]]_vars
  BY StepKeepsClosed DEF Closed
<1> QED BY <1>1, TypeCorrect, SeenHold, PTL DEF Spec, ClosedIsFinal

\* The month of a settlement is no later month.
SettledInPast == \A r \in Request : charge[r].settledIn <= period

\* It is so in every state: a charge that is opened again has no month.
LEMMA PastHolds == Spec /\ []SnapshotsCurrent => []SettledInPast
<1>1. Init => SettledInPast BY DEF Init, SettledInPast, NoCharge
<1>2. TypeOK /\ SnapshotsCurrent /\ SeenHaveNoHold /\ SettledInPast /\ [Next]_vars
        => SettledInPast'
  <2> SUFFICES ASSUME TypeOK, SnapshotsCurrent, SeenHaveNoHold, SettledInPast, [Next]_vars
               PROVE  SettledInPast'
    OBVIOUS
  <2>1. /\ charge \in [Request -> Charge] /\ period \in Nat
        /\ \A r \in Request : charge[r].settledIn \in Nat /\ charge[r].settledIn <= period
    BY DEF TypeOK, Charge, SettledInPast
  <2>2. ASSUME NEW c \in Caller,
               \/ \E required \in Holds : CommitCreate(c, required)
               \/ CommitExempt(c) \/ CommitFree(c)
        PROVE  SettledInPast'
    <3>1. period' = period
      BY <2>2 DEF CommitCreate, CommitExempt, CommitFree, CommitUnpaid
    <3>2. \E r \in Request : /\ \A s \in Request \ {r} : charge'[s] = charge[s]
                             /\ charge'[r].settledIn = 0
      BY <2>2, ReservationWrites, UnpaidWrites
    <3> QED BY <2>1, <3>1, <3>2 DEF SettledInPast
  <2>3. ASSUME NEW r \in Request,
               \/ \E id \in Expansions, delta \in Holds : Expand(r, id, delta)
               \/ \E cost, asked \in Costs : Settle(r, cost, asked)
               \/ Release(r)
               \/ SettleExempt(r) \/ ReleaseExempt(r) \/ SettleFree(r) \/ ReleaseFree(r)
               \/ Age(r)
        PROVE  SettledInPast'
    <3>1. period' = period /\ \A s \in Request \ {r} : charge'[s] = charge[s]
      BY <2>1, <2>3 DEF Expand, Settle, Release, SettleExempt, ReleaseExempt, SettleFree,
                        ReleaseFree, CloseUnpaid, Age
    <3>2. charge'[r].settledIn \in {charge[r].settledIn, period}
      BY <2>1, <2>3 DEF Expand, Settle, Release, SettleExempt, ReleaseExempt, SettleFree,
                        ReleaseFree, CloseUnpaid, Age, Charge
    <3> QED BY <2>1, <3>1, <3>2 DEF SettledInPast
  <2>4. CASE RecoverStale
    <3>1. \A r \in Request : charge'[r].settledIn \in {charge[r].settledIn, period}
      BY <2>1, <2>4 DEF RecoverStale, Charge
    <3>2. period' = period BY <2>4 DEF RecoverStale
    <3> QED BY <2>1, <3>1, <3>2 DEF SettledInPast
  <2>5. CASE NewPeriod BY <2>1, <2>5 DEF NewPeriod, SettledInPast
  <2>6. CASE UNCHANGED <<charge, period>> BY <2>6 DEF SettledInPast
  <2> QED BY <2>2, <2>3, <2>4, <2>5, <2>6 DEF Next, vars, BeginCreate, AbortCreate, SetLimit
<1> QED BY <1>1, <1>2, TypeCorrect, SeenHold, PTL DEF Spec

\* A step of one charge changes the usage by that charge's change.
LEMMA UsageChange ==
  ASSUME TypeOK, TypeOK', NEW r \in Request, period' = period,
         \A s \in Request \ {r} : charge'[s] = charge[s]
  PROVE  /\ HeldMicros[r] \in Nat /\ HeldMicros'[r] \in Nat
         /\ SettledMicros[r] \in Nat /\ SettledMicros'[r] \in Nat
         /\ Usage \in Nat /\ HeldMicros[r] + SettledMicros[r] <= Usage
         /\ Usage' = Usage - HeldMicros[r] - SettledMicros[r]
                        + HeldMicros'[r] + SettledMicros'[r]
<1>1. /\ HeldMicros[r] \in Nat /\ HeldMicros'[r] \in Nat
      /\ Held \in Nat /\ HeldMicros[r] <= Held
      /\ Held' = Held - HeldMicros[r] + HeldMicros'[r]
  BY HeldChange
<1>2. \A s \in Request : SettledMicros[s] \in Nat BY UsageType
<1>3. \A s \in Request : SettledMicros'[s] \in Nat
  <2>1. \A s \in Request : charge'[s].debited \in Nat BY DEF TypeOK, Charge
  <2> QED BY <2>1 DEF SettledMicros
<1>4. \A s \in Request \ {r} : SettledMicros'[s] = SettledMicros[s]
  BY DEF SettledMicros
<1>5. Total(Request, SettledMicros')
        = Total(Request, SettledMicros) - SettledMicros[r] + SettledMicros'[r]
  BY <1>2, <1>3, <1>4, TotalChange
<1>6. Total({r}, SettledMicros) = SettledMicros[r] BY <1>2, TotalOne
<1>7. Total({r}, SettledMicros) <= Total(Request, SettledMicros) BY <1>2, TotalPart
<1>8. Total(Request, SettledMicros) \in Nat BY UsageType
<1> QED BY <1>1, <1>2, <1>3, <1>5, <1>6, <1>7, <1>8 DEF Usage

\* Charges that each count for no more than before count for no more together.
LEMMA UsageShrinks ==
  ASSUME TypeOK, TypeOK',
         \A r \in Request : /\ HeldMicros'[r] \in {0, HeldMicros[r]}
                            /\ SettledMicros'[r] \in {0, SettledMicros[r]}
  PROVE  Usage' <= Usage
<1>1. \A r \in Request : HeldMicros[r] \in Nat /\ SettledMicros[r] \in Nat BY UsageType
<1>2. Total(Request, HeldMicros') <= Total(Request, HeldMicros)
  BY <1>1, TotalMonotone
<1>3. Total(Request, SettledMicros') <= Total(Request, SettledMicros)
  BY <1>1, TotalMonotone
<1>4. \A r \in Request : HeldMicros'[r] \in Nat /\ SettledMicros'[r] \in Nat
  BY <1>1
<1>5. /\ Total(Request, HeldMicros) \in Nat /\ Total(Request, HeldMicros') \in Nat
      /\ Total(Request, SettledMicros) \in Nat /\ Total(Request, SettledMicros') \in Nat
  BY <1>1, <1>4, TotalType
<1> QED BY <1>2, <1>3, <1>5 DEF Usage, Held

\* What a step may do to the usage under a limit.
WithinLimit == Usage' > Usage /\ limit # NoLimit => Usage' <= limit

\* A charge that is created counts for what it reserves, which the limit
\* allowed; one without money counts for nothing.
LEMMA CreateWithinLimit ==
  ASSUME TypeOK, TypeOK', SnapshotsCurrent, SeenHaveNoHold, NEW c \in Caller,
         \/ \E required \in Holds : CommitCreate(c, required)
         \/ CommitExempt(c) \/ CommitFree(c)
  PROVE  WithinLimit
<1>1. limit # NoLimit => limit \in Nat BY DEF TypeOK
<1>2. ASSUME NEW required \in Holds, CommitCreate(c, required) PROVE WithinLimit
  <2>1. PICK r \in Request :
           /\ charge[r].status \in {"none", "released"}
           /\ \A s \in Request \ {r} : charge'[s] = charge[s]
           /\ charge'[r].status = "reserved"
           /\ charge'[r].reserved = required
    BY <1>2, ReservationWrites
  <2>2. period' = period /\ LimitAllows(required) BY <1>2 DEF CommitCreate
  <2>3. HeldMicros[r] = 0 /\ SettledMicros[r] = 0
    BY <2>1 DEF HeldMicros, SettledMicros, Active
  <2>4. HeldMicros'[r] = required /\ SettledMicros'[r] = 0
    BY <2>1 DEF HeldMicros, SettledMicros, Active
  <2>5. Usage \in Nat
        /\ Usage' = Usage - HeldMicros[r] - SettledMicros[r] + HeldMicros'[r] + SettledMicros'[r]
    BY <2>1, <2>2, UsageChange
  <2>6. Usage' = Usage + required
    <3>1. required \in Nat OBVIOUS
    <3> QED BY <2>3, <2>4, <2>5, <3>1
  <2> QED BY <1>1, <2>2, <2>6 DEF LimitAllows, WithinLimit
<1>3. CASE CommitExempt(c) \/ CommitFree(c)
  <2>1. PICK r \in Request :
           /\ charge[r].status \in {"none", "released"}
           /\ \A s \in Request \ {r} : charge'[s] = charge[s]
           /\ charge'[r].status \in {"exempt_pending", "free_pending"}
    BY <1>3, UnpaidWrites
  <2>2. period' = period BY <1>3 DEF CommitExempt, CommitFree, CommitUnpaid
  <2>3. /\ HeldMicros[r] = 0 /\ SettledMicros[r] = 0
        /\ HeldMicros'[r] = 0 /\ SettledMicros'[r] = 0
    BY <2>1 DEF HeldMicros, SettledMicros, Active
  <2>4. Usage \in Nat
        /\ Usage' = Usage - HeldMicros[r] - SettledMicros[r] + HeldMicros'[r] + SettledMicros'[r]
    BY <2>1, <2>2, UsageChange
  <2> QED BY <2>3, <2>4 DEF WithinLimit
<1> QED BY <1>2, <1>3

\* An expansion is allowed by the limit before it is looked up, and a
\* settlement debits no more than the limit leaves.
LEMMA ChargeWithinLimit ==
  ASSUME TypeOK, TypeOK', NEW r \in Request,
         \/ \E id \in Expansions, delta \in Holds : Expand(r, id, delta)
         \/ \E cost, asked \in Costs : Settle(r, cost, asked)
  PROVE  WithinLimit
<1>1. /\ charge \in [Request -> Charge]
      /\ limit # NoLimit => limit \in Nat
      /\ charge[r].reserved \in Nat /\ charge[r].debited \in Nat
  BY DEF TypeOK, Charge
<1>2. /\ \A s \in Request \ {r} : charge'[s] = charge[s]
      /\ period' = period /\ charge[r].status = "reserved"
  BY <1>1 DEF Expand, Settle, Active
<1>3. HeldMicros[r] = charge[r].reserved /\ SettledMicros[r] = 0
  BY <1>2 DEF HeldMicros, SettledMicros, Active
<1>4. /\ Usage \in Nat /\ HeldMicros[r] + SettledMicros[r] <= Usage
      /\ Usage' = Usage - HeldMicros[r] - SettledMicros[r] + HeldMicros'[r] + SettledMicros'[r]
  BY <1>2, UsageChange
<1>5. ASSUME NEW id \in Expansions, NEW delta \in Holds, Expand(r, id, delta)
      PROVE  WithinLimit
  <2>1. LimitAllows(delta) /\ delta \in Nat BY <1>5 DEF Expand
  <2>2. CASE UNCHANGED charge
    <3>1. HeldMicros'[r] = HeldMicros[r] /\ SettledMicros'[r] = SettledMicros[r]
      BY <1>2, <2>2 DEF HeldMicros, SettledMicros, Active
    <3> QED BY <1>1, <1>3, <1>4, <3>1 DEF WithinLimit
  <2>3. CASE charge' = [charge EXCEPT ![r].reserved = @ + delta]
    <3>1. charge'[r].reserved = charge[r].reserved + delta /\ charge'[r].status = "reserved"
      BY <1>1, <1>2, <2>3 DEF Charge
    <3>2. HeldMicros'[r] = charge[r].reserved + delta /\ SettledMicros'[r] = 0
      BY <3>1 DEF HeldMicros, SettledMicros, Active
    <3>3. Usage' = Usage + delta BY <1>1, <1>3, <1>4, <2>1, <3>2
    <3> QED BY <1>1, <2>1, <3>3 DEF LimitAllows, WithinLimit
  <2> QED BY <1>5, <2>2, <2>3 DEF Expand
<1>6. ASSUME NEW cost \in Costs, NEW asked \in Costs, Settle(r, cost, asked)
      PROVE  WithinLimit
  <2> SUFFICES ASSUME limit # NoLimit, Usage' > Usage PROVE Usage' <= limit
    BY DEF WithinLimit
  <2>1. PICK debit \in Nat : debit = Debit(r, cost, asked)
    BY DebitType
  <2>2. /\ charge'[r].status = "settled" /\ charge'[r].settledIn = period
        /\ charge'[r].debited = debit
    BY <1>1, <1>6, <2>1 DEF Settle
  <2>3. HeldMicros'[r] = 0 /\ SettledMicros'[r] = debit
    BY <1>2, <2>2 DEF HeldMicros, SettledMicros, Active
  <2>4. Usage' = Usage - charge[r].reserved + debit
    BY <1>1, <1>3, <1>4, <2>3
  <2>5. LimitLeft(r) \in Nat /\ debit <= LimitLeft(r)
    <3>1. wallet.balance \in Nat /\ LimitLeft(r) \in Nat
      BY <1>1, <1>4 DEF TypeOK, LimitLeft, Max0
    <3> QED BY <2>1, <3>1 DEF Debit, Lesser
  <2>6. debit > 0 BY <1>1, <1>4, <2>4
  <2>7. debit <= limit - (Usage - charge[r].reserved)
    BY <1>1, <1>4, <2>5, <2>6 DEF LimitLeft, Max0
  <2> QED BY <1>1, <1>4, <2>4, <2>7
<1> QED BY <1>5, <1>6

\* A release, and a new month, count no charge for more than before.
LEMMA RestWithinLimit ==
  ASSUME TypeOK, TypeOK', SettledInPast,
         \/ \E r \in Request :
               \/ Release(r) \/ Age(r)
               \/ SettleExempt(r) \/ ReleaseExempt(r) \/ SettleFree(r) \/ ReleaseFree(r)
         \/ RecoverStale
         \/ NewPeriod
         \/ UNCHANGED <<charge, period>>
  PROVE  WithinLimit
<1>1. /\ charge \in [Request -> Charge] /\ period \in Nat
      /\ \A r \in Request : charge[r].settledIn \in Nat /\ charge[r].settledIn <= period
  BY DEF TypeOK, Charge, SettledInPast
<1>2. ASSUME NEW s \in Request PROVE HeldMicros'[s] \in {0, HeldMicros[s]}
                                     /\ SettledMicros'[s] \in {0, SettledMicros[s]}
  <2>1. CASE charge'[s].status \notin {"reserved", "settled"}
    BY <2>1 DEF HeldMicros, SettledMicros, Active
  <2>2. CASE charge'[s] = charge[s]
    <3>1. HeldMicros'[s] = HeldMicros[s] BY <2>2 DEF HeldMicros, Active
    <3>2. CASE period' = period BY <2>2, <3>1, <3>2 DEF SettledMicros
    <3>3. CASE period' = period + 1
      <4>1. SettledMicros'[s] = 0 BY <1>1, <2>2, <3>3 DEF SettledMicros
      <4> QED BY <3>1, <4>1
    <3>4. period' \in {period, period + 1}
      BY DEF Release, Age, SettleExempt, ReleaseExempt, SettleFree, ReleaseFree,
             CloseUnpaid, RecoverStale, NewPeriod
    <3> QED BY <3>2, <3>3, <3>4
  <2>3. charge'[s] = charge[s] \/ charge'[s].status \notin {"reserved", "settled"}
    <3>1. ASSUME NEW r \in Request,
                 NEW closed \in {"released", "billing_exempt", "free"},
                 charge' = [charge EXCEPT ![r].status = closed, ![r].settledIn = period]
          PROVE  charge'[s] = charge[s] \/ charge'[s].status = closed
      BY <1>1, <3>1 DEF Charge
    <3>2. CASE \E r \in Request :
                  \/ Release(r) \/ Age(r)
                  \/ SettleExempt(r) \/ ReleaseExempt(r) \/ SettleFree(r) \/ ReleaseFree(r)
      BY <3>1, <3>2 DEF Release, Age, SettleExempt, ReleaseExempt, SettleFree, ReleaseFree,
                        CloseUnpaid
    <3>3. CASE RecoverStale BY <1>1, <3>3 DEF RecoverStale, Charge
    <3>4. CASE NewPeriod \/ UNCHANGED <<charge, period>> BY <3>4 DEF NewPeriod
    <3> QED BY <3>2, <3>3, <3>4
  <2> QED BY <2>1, <2>2, <2>3
<1>3. Usage' <= Usage BY <1>2, UsageShrinks
<1>4. Usage \in Nat BY UsageType
<1>5. Usage' \in Nat
  <2>1. \A r \in Request : HeldMicros'[r] \in Nat /\ SettledMicros'[r] \in Nat
    BY <1>2, UsageType
  <2>2. Total(Request, HeldMicros') \in Nat /\ Total(Request, SettledMicros') \in Nat
    BY <2>1, TotalType
  <2> QED BY <2>2 DEF Usage, Held
<1> QED BY <1>3, <1>4, <1>5 DEF WithinLimit

\* The monthly hard limit: a step that makes the month's usage larger leaves
\* it within the limit, for any number of requests, amounts and limits, also
\* when the limit was just lowered below what is used, as long as no two
\* transactions that create one charge overlap (enforce_usage_limit and
\* settlement_limit_available in usage_limits.py).
THEOREM LimitKept == Spec /\ []SnapshotsCurrent => LimitHolds
<1>1. TypeOK /\ TypeOK' /\ SnapshotsCurrent /\ SeenHaveNoHold /\ SettledInPast /\ [Next]_vars
        => [WithinLimit]_vars
  <2> SUFFICES ASSUME TypeOK, TypeOK', SnapshotsCurrent, SeenHaveNoHold, SettledInPast,
                      [Next]_vars
               PROVE  [WithinLimit]_vars
    OBVIOUS
  <2>1. CASE \E c \in Caller : \/ \E required \in Holds : CommitCreate(c, required)
                               \/ CommitExempt(c) \/ CommitFree(c)
    BY <2>1, CreateWithinLimit
  <2>2. CASE \E r \in Request : \/ \E id \in Expansions, delta \in Holds : Expand(r, id, delta)
                                \/ \E cost, asked \in Costs : Settle(r, cost, asked)
    BY <2>2, ChargeWithinLimit
  <2>3. CASE \/ \E r \in Request :
                   \/ Release(r) \/ Age(r)
                   \/ SettleExempt(r) \/ ReleaseExempt(r) \/ SettleFree(r) \/ ReleaseFree(r)
             \/ RecoverStale
             \/ NewPeriod
             \/ UNCHANGED <<charge, period>>
    BY <2>3, RestWithinLimit
  <2> QED BY <2>1, <2>2, <2>3 DEF Next, vars, BeginCreate, AbortCreate, SetLimit
<1> QED BY <1>1, TypeCorrect, SeenHold, PastHolds, PTL DEF Spec, LimitHolds, WithinLimit

-----------------------------------------------------------------------------
(* The ledger explains the wallet.                                         *)

\* Only what is settled has a debit row.
DebitsAreSettled ==
    \A r \in Request : ledger[DebitKey(r)] # NoRow => charge[r].status = "settled"

\* A settlement of a charge that has no debit row records what it debits.
LEMMA SettleExplains ==
  ASSUME TypeOK, TypeOK', LedgerExplainsBalance, DebitsAreSettled, NEW r \in Request,
         NEW cost \in Costs, NEW asked \in Costs, Settle(r, cost, asked)
  PROVE  LedgerExplainsBalance' /\ DebitsAreSettled'
<1>1. PICK debit \in Nat : debit = Debit(r, cost, asked) /\ debit <= wallet.balance
  BY DebitType
<1> DEFINE first == Record(ledger, DebitKey(r), debit)
           key   == ReleaseKey(r, Attempt(charge[r]))
<1>2. wallet'.balance = wallet.balance - debit BY <1>1 DEF Settle
<1>3. charge \in [Request -> Charge] /\ charge[r].reserved \in Nat BY DEF TypeOK, Charge
<1>4. ledger' = Record(first, key, charge[r].reserved) BY <1>1 DEF Settle
<1>5. ledger \in [Keys -> Nat \cup {NoRow}] /\ first \in [Keys -> Nat \cup {NoRow}]
  BY <1>1, RecordType DEF TypeOK
<1>6. \A s \in Request : ledger'[DebitKey(s)] = first[DebitKey(s)]
  <2> HIDE DEF first
  <2> QED BY <1>3, <1>4, <1>5, RecordElsewhere, KeysDiffer, DebitRowsType
<1>7. \A s \in Request \ {r} : first[DebitKey(s)] = ledger[DebitKey(s)]
  <2>1. \A s \in Request \ {r} : DebitKey(s) # DebitKey(r) BY DEF DebitKey
  <2> QED BY <1>1, <1>5, <2>1, RecordElsewhere, DebitRowsType
<1>8. ledger[DebitKey(r)] = NoRow BY DEF DebitsAreSettled, Settle, Active
<1>9. first[DebitKey(r)] = debit BY <1>5, <1>8, DebitRowsType DEF Record
<1> HIDE DEF first, key
<1>10. \A s \in Request \ {r} : DebitRows'[s] = DebitRows[s]
  BY <1>6, <1>7 DEF DebitRows
<1>11. DebitRows[r] = 0 /\ DebitRows'[r] = debit
  BY <1>1, <1>6, <1>8, <1>9 DEF DebitRows
<1>12. \A s \in Request : DebitRows[s] \in Nat /\ DebitRows'[s] \in Nat
  BY <1>10, <1>11, DebitRowsType
<1>13. Total(Request, DebitRows') = Total(Request, DebitRows) - DebitRows[r] + DebitRows'[r]
  BY <1>10, <1>12, TotalChange
<1>14. LedgerExplainsBalance'
  <2>1. wallet.balance \in Nat /\ Total(Request, DebitRows) \in Nat
    BY DebitRowsType DEF TypeOK
  <2> QED BY <1>1, <1>2, <1>11, <1>13, <2>1 DEF LedgerExplainsBalance
<1>15. DebitsAreSettled'
  <2>1. /\ \A s \in Request \ {r} : charge'[s] = charge[s]
        /\ charge'[r].status = "settled"
    BY <1>3 DEF Settle
  <2> QED BY <1>6, <1>7, <2>1 DEF DebitsAreSettled
<1> QED BY <1>14, <1>15

\* The append-only ledger explains the balance: every debit of the wallet has
\* its one row, for any number of requests, retries and recoveries, as long as
\* no two transactions that create one charge overlap
\* (settle_usage_reservation and _ledger).
THEOREM BalanceExplained == Spec /\ []SnapshotsCurrent => []LedgerExplainsBalance
<1> DEFINE Inv == LedgerExplainsBalance /\ DebitsAreSettled
<1>1. Init => Inv
  <2>1. Init => DebitsAreSettled BY DEF Init, DebitsAreSettled, DebitKey, Keys
  <2>2. Init => LedgerExplainsBalance BY NoDebitsAtFirst DEF Init, LedgerExplainsBalance
  <2> QED BY <2>1, <2>2
<1>2. TypeOK /\ TypeOK' /\ SnapshotsCurrent /\ SeenHaveNoHold /\ Inv /\ [Next]_vars => Inv'
  <2> SUFFICES ASSUME TypeOK, TypeOK', SnapshotsCurrent, SeenHaveNoHold, Inv, [Next]_vars
               PROVE  Inv'
    OBVIOUS
  <2>1. CASE \E r \in Request : \E cost, asked \in Costs : Settle(r, cost, asked)
    BY <2>1, SettleExplains
  <2>2. CASE /\ wallet'.balance = wallet.balance
             /\ \A r \in Request : ledger'[DebitKey(r)] = ledger[DebitKey(r)]
    <3>1. \A r \in Request : DebitRows'[r] = DebitRows[r] BY <2>2 DEF DebitRows
    <3>2. Total(Request, DebitRows') = Total(Request, DebitRows) BY <3>1, TotalSame
    <3>3. LedgerExplainsBalance' BY <2>2, <3>2 DEF LedgerExplainsBalance
    <3>4. DebitsAreSettled'
      BY <2>2, StepKeepsClosed DEF DebitsAreSettled, Closed
    <3> QED BY <3>3, <3>4
  <2> QED BY <2>1, <2>2, OnlySettlementsDebit
<1>3. Inv => LedgerExplainsBalance OBVIOUS
<1> QED BY <1>1, <1>2, <1>3, TypeCorrect, SeenHold, PTL DEF Spec

-----------------------------------------------------------------------------
(* The ledger explains what is set aside.                                  *)

\* A condition on the user: all requests are paid for. A request that changed
\* its kind would lose the number of its attempts, and with it the keys of its
\* rows.
PaidOnly == Kinds \subseteq {"paid"}

\* The rows of some kinds in a ledger, and their sum.
MicrosOf(rows, kinds) ==
    [k \in Keys |-> IF k[1] \in kinds /\ rows[k] # NoRow THEN rows[k] ELSE 0]

Sum(rows, kinds) == Total(Keys, MicrosOf(rows, kinds))

Taken == {"reserve", "expand"}

Given == {"release"}

\* What of an attempt is in the ledger: the rows of a charge are of attempts
\* up to its last, and that one has no release as long as it is reserved.
Recorded(r, c) ==
    /\ c.attempt <= MaxAttempts
    /\ c.status \in {"none", "reserved", "released"}
    /\ c.status = "none" <=> c.attempt = 0
    /\ \A n \in 1 .. MaxAttempts + 1 :
          /\ ledger[ReserveKey(r, n)] # NoRow => n <= c.attempt
          /\ ledger[ReleaseKey(r, n)] # NoRow =>
                n <= c.attempt /\ (c.status = "reserved" => n # c.attempt)

AttemptsRecorded ==
    \A r \in Request : charge[r].status = "settled" \/ Recorded(r, charge[r])

\* A creation has read a charge that may be attempted again.
SeenBelow == \A c \in Caller : pending[c] # Idle => pending[c].seen.attempt < MaxAttempts

\* There are finitely many keys.
LEMMA KeysFinite ==
  /\ IsFiniteSet(Keys)
  /\ \A r \in Request, n \in 1 .. MaxAttempts + 1 :
        ReserveKey(r, n) \in Keys /\ ReleaseKey(r, n) \in Keys
  /\ \A r \in Request, id \in Expansions : ExpandKey(r, id) \in Keys
<1> DEFINE A == {"reserve", "release"} \X Request \X (1 .. MaxAttempts + 1)
           B == {"expand"} \X Request \X Expansions
           C == {"debit"} \X Request \X {0}
           Flat(K, S) == (K \X Request) \X S
<1>1. /\ IsFiniteSet({"reserve", "release"}) /\ IsFiniteSet({"expand"})
      /\ IsFiniteSet({"debit"}) /\ IsFiniteSet({0})
      /\ IsFiniteSet(1 .. MaxAttempts + 1)
  <2>1. IsFiniteSet({"reserve"}) /\ IsFiniteSet({"release"}) BY FS_Singleton
  <2>2. \A a, b : IsFiniteSet({a}) /\ IsFiniteSet({b}) => IsFiniteSet({a, b})
    <3> SUFFICES ASSUME NEW a, NEW b, IsFiniteSet({a}), IsFiniteSet({b})
                 PROVE  IsFiniteSet({a, b})
      OBVIOUS
    <3> DEFINE both == {a} \cup {b}
    <3>1. IsFiniteSet(both) BY FS_Union
    <3>2. both = {a, b} OBVIOUS
    <3> HIDE DEF both
    <3> QED BY <3>1, <3>2
  <2>3. IsFiniteSet({"reserve", "release"}) BY <2>1, <2>2
  <2>4. IsFiniteSet(1 .. MaxAttempts + 1) BY FS_Interval
  <2> QED BY <2>3, <2>4, FS_Singleton
<1>2. ASSUME NEW K, NEW S, IsFiniteSet(K), IsFiniteSet(S)
      PROVE  IsFiniteSet(K \X Request \X S)
  <2> DEFINE T == K \X Request \X S
             P == (K \X Request) \X S
             f == [p \in P |-> <<p[1][1], p[1][2], p[2]>>]
  <2>1. IsFiniteSet(K \X Request) BY <1>2, FS_Product
  <2>2. IsFiniteSet(P) BY <1>2, <2>1, FS_Product
  <2>3. f \in [P -> T] OBVIOUS
  <2>4. \A t \in T : \E p \in P : f[p] = t
    <3> SUFFICES ASSUME NEW t \in T PROVE \E p \in P : f[p] = t
      OBVIOUS
    <3>1. PICK k \in K, r \in Request, i \in S : t = <<k, r, i>> OBVIOUS
    <3>2. <<<<k, r>>, i>> \in P OBVIOUS
    <3>3. f[<<<<k, r>>, i>>] = <<k, r, i>> BY <3>2
    <3> QED BY <3>1, <3>2, <3>3
  <2>5. f \in Surjection(P, T) BY <2>3, <2>4 DEF Surjection
  <2> HIDE DEF f
  <2> QED BY <2>2, <2>5, FS_Surjection
<1>3. IsFiniteSet(A) /\ IsFiniteSet(B) /\ IsFiniteSet(C) BY <1>1, <1>2
<1>4. Keys = (A \cup B) \cup C BY DEF Keys
<1>5. IsFiniteSet(A \cup B) BY <1>3, FS_Union
<1>6. IsFiniteSet(Keys)
  <2> HIDE DEF A, B, C
  <2> QED BY <1>3, <1>4, <1>5, FS_Union
<1>7. \A r \in Request, n \in 1 .. MaxAttempts + 1 :
         ReserveKey(r, n) \in Keys /\ ReleaseKey(r, n) \in Keys
  BY DEF Keys, ReserveKey, ReleaseKey
<1>8. \A r \in Request, id \in Expansions : ExpandKey(r, id) \in Keys
  BY DEF Keys, ExpandKey
<1> QED BY <1>6, <1>7, <1>8

\* A row that is recorded adds its micros to the sum of its kind.
LEMMA RecordAdds ==
  ASSUME NEW rows \in [Keys -> Nat \cup {NoRow}], NEW key \in Keys,
         NEW micros \in Nat, rows[key] = NoRow, NEW kinds
  PROVE  /\ Sum(rows, kinds) \in Nat
         /\ Sum(Record(rows, key, micros), kinds)
              = Sum(rows, kinds) + (IF key[1] \in kinds THEN micros ELSE 0)
<1> DEFINE f == MicrosOf(rows, kinds)
           g == MicrosOf(Record(rows, key, micros), kinds)
<1>1. Record(rows, key, micros) = [rows EXCEPT ![key] = micros] BY DEF Record
<1>2. \A k \in Keys : f[k] \in Nat BY DEF MicrosOf
<1>3. \A k \in Keys \ {key} : g[k] = f[k] BY <1>1 DEF MicrosOf
<1>4. f[key] = 0 /\ g[key] = IF key[1] \in kinds THEN micros ELSE 0
  BY <1>1 DEF MicrosOf
<1>5. \A k \in Keys : g[k] \in Nat BY <1>2, <1>3, <1>4
<1> HIDE DEF f, g
<1>6. Total(Keys, g) = Total(Keys, f) - f[key] + g[key]
  BY <1>2, <1>3, <1>5, KeysFinite, TotalChange
<1>7. Total(Keys, f) \in Nat BY <1>2, KeysFinite, TotalType
<1>8. Total(Keys, g) = Total(Keys, f) + (IF key[1] \in kinds THEN micros ELSE 0)
  BY <1>4, <1>6, <1>7
<1> QED BY <1>7, <1>8 DEF Sum, f, g

\* LedgerExplainsHolds, by these sums.
LEMMA HoldsAsSums ==
  /\ LedgerExplainsHolds <=> Sum(ledger, Taken) = wallet.reserved + Sum(ledger, Given)
  /\ LedgerExplainsHolds' <=> Sum(ledger', Taken) = wallet'.reserved + Sum(ledger', Given)
BY DEF LedgerExplainsHolds, Sum, Taken, Given, MicrosOf, RowMicros

\* The keys of attempts and expansions are different for different ones.
LEMMA KeysApart ==
  ASSUME NEW r, NEW n, NEW s, NEW m
  PROVE  /\ ReserveKey(r, n) = ReserveKey(s, m) => r = s /\ n = m
         /\ ReleaseKey(r, n) = ReleaseKey(s, m) => r = s /\ n = m
         /\ ReserveKey(r, n) # ReleaseKey(s, m)
         /\ ExpandKey(r, n) # ReserveKey(s, m) /\ ExpandKey(r, n) # ReleaseKey(s, m)
         /\ ReserveKey(r, n)[1] = "reserve" /\ ReleaseKey(r, n)[1] = "release"
         /\ ExpandKey(r, n)[1] = "expand" /\ DebitKey(r)[1] = "debit"
BY DEF ReserveKey, ReleaseKey, ExpandKey, DebitKey

\* A recorded row that takes or gives back what the wallet does.
LEMMA RowExplains ==
  ASSUME TypeOK, LedgerExplainsHolds, NEW key \in Keys, NEW micros \in Nat,
         ledger[key] = NoRow, ledger' = Record(ledger, key, micros),
         \/ key[1] \in Taken /\ key[1] \notin Given
            /\ wallet'.reserved = wallet.reserved + micros
         \/ key[1] \in Given /\ key[1] \notin Taken
            /\ micros <= wallet.reserved /\ wallet'.reserved = wallet.reserved - micros
  PROVE  LedgerExplainsHolds'
<1>1. ledger \in [Keys -> Nat \cup {NoRow}] /\ wallet.reserved \in Nat BY DEF TypeOK
<1>2. \A kinds : /\ Sum(ledger, kinds) \in Nat
                 /\ Sum(ledger', kinds)
                      = Sum(ledger, kinds) + (IF key[1] \in kinds THEN micros ELSE 0)
  BY <1>1, RecordAdds
<1>3. Sum(ledger, Taken) = wallet.reserved + Sum(ledger, Given) BY HoldsAsSums
<1>4. CASE key[1] \in Taken /\ key[1] \notin Given
           /\ wallet'.reserved = wallet.reserved + micros
  <2>1. /\ Sum(ledger', Taken) = Sum(ledger, Taken) + micros
        /\ Sum(ledger', Given) = Sum(ledger, Given) + 0
    BY <1>2, <1>4
  <2>2. Sum(ledger, Taken) \in Nat /\ Sum(ledger, Given) \in Nat BY <1>2
  <2>3. Sum(ledger', Taken) = wallet'.reserved + Sum(ledger', Given)
    BY <1>1, <1>3, <1>4, <2>1, <2>2
  <2> QED BY <2>3, HoldsAsSums
<1>5. CASE key[1] \in Given /\ key[1] \notin Taken
           /\ micros <= wallet.reserved /\ wallet'.reserved = wallet.reserved - micros
  <2>1. /\ Sum(ledger', Taken) = Sum(ledger, Taken) + 0
        /\ Sum(ledger', Given) = Sum(ledger, Given) + micros
    BY <1>2, <1>5
  <2>2. Sum(ledger, Taken) \in Nat /\ Sum(ledger, Given) \in Nat BY <1>2
  <2>3. Sum(ledger', Taken) = wallet'.reserved + Sum(ledger', Given)
    BY <1>1, <1>3, <1>5, <2>1, <2>2
  <2> QED BY <2>3, HoldsAsSums
<1> QED BY <1>4, <1>5

\* A charge that a step leaves alone has the rows it had.
LEMMA RecordedStays ==
  ASSUME NEW s \in Request, charge'[s] = charge[s],
         charge[s].status = "settled" \/ Recorded(s, charge[s]),
         \A n \in 1 .. MaxAttempts + 1 :
            /\ ledger'[ReserveKey(s, n)] = ledger[ReserveKey(s, n)]
            /\ ledger'[ReleaseKey(s, n)] = ledger[ReleaseKey(s, n)]
  PROVE  (charge[s].status = "settled" \/ Recorded(s, charge[s]))'
BY DEF Recorded

\* A reservation is recorded under the key of its attempt.
LEMMA CreateExplains ==
  ASSUME TypeOK, SnapshotsCurrent, SeenHaveNoHold, LedgerExplainsHolds, AttemptsRecorded,
         SeenBelow, NEW c \in Caller, NEW required \in Holds, CommitCreate(c, required)
  PROVE  LedgerExplainsHolds' /\ AttemptsRecorded'
<1>1. PICK r \in Request :
         /\ charge[r].status \in {"none", "released"}
         /\ \A s \in Request \ {r} : charge'[s] = charge[s]
         /\ charge'[r].status = "reserved"
         /\ charge'[r].attempt = NextAttempt(charge[r])
         /\ ledger' = Record(ledger, ReserveKey(r, NextAttempt(charge[r])), required)
         /\ pending[c].seen = charge[r]
  BY ReservationWrites
<1>2. charge[r].attempt \in Nat /\ charge[r].attempt < MaxAttempts
  <2>1. pending[c] # Idle BY DEF CommitCreate
  <2> QED BY <1>1, <2>1 DEF SeenBelow, TypeOK, Charge
<1>3. Recorded(r, charge[r]) BY <1>1 DEF AttemptsRecorded
<1>4. NextAttempt(charge[r]) = charge[r].attempt + 1
  BY <1>1, <1>2, <1>3 DEF Recorded, NextAttempt, Attempt
<1>5. PICK n \in 1 .. MaxAttempts : n = charge[r].attempt + 1 BY <1>2
<1>6. ReserveKey(r, n) \in Keys /\ ledger[ReserveKey(r, n)] = NoRow
  <2>1. n \in 1 .. MaxAttempts + 1 OBVIOUS
  <2> QED BY <1>2, <1>3, <1>5, <2>1, KeysFinite DEF Recorded
<1>7. required \in Nat OBVIOUS
<1>8. ledger' = Record(ledger, ReserveKey(r, n), required) BY <1>1, <1>4, <1>5
<1>9. LedgerExplainsHolds'
  <2>1. wallet'.reserved = wallet.reserved + required BY DEF CommitCreate, TypeOK
  <2>2. ReserveKey(r, n)[1] \in Taken /\ ReserveKey(r, n)[1] \notin Given
    BY KeysApart DEF Taken, Given
  <2> QED BY <1>6, <1>7, <1>8, <2>1, <2>2, RowExplains
<1>10. ledger \in [Keys -> Nat \cup {NoRow}] BY DEF TypeOK
<1>11. ASSUME NEW s \in Request, NEW m \in 1 .. MaxAttempts + 1
       PROVE  /\ s # r \/ m # n => ledger'[ReserveKey(s, m)] = ledger[ReserveKey(s, m)]
              /\ ledger'[ReleaseKey(s, m)] = ledger[ReleaseKey(s, m)]
  BY <1>7, <1>8, <1>10, KeysFinite, KeysApart, RecordElsewhere
<1>12. Recorded(r, charge[r])'
  BY <1>1, <1>2, <1>3, <1>4, <1>5, <1>11 DEF Recorded
<1>13. ASSUME NEW s \in Request \ {r}
       PROVE  (charge[s].status = "settled" \/ Recorded(s, charge[s]))'
  BY <1>1, <1>11, RecordedStays DEF AttemptsRecorded
<1> QED BY <1>9, <1>12, <1>13 DEF AttemptsRecorded

\* An expansion is recorded under its own key.
LEMMA ExpandExplains ==
  ASSUME TypeOK, LedgerExplainsHolds, AttemptsRecorded,
         NEW r \in Request, NEW id \in Expansions, NEW delta \in Holds, Expand(r, id, delta)
  PROVE  LedgerExplainsHolds' /\ AttemptsRecorded'
<1>1. charge \in [Request -> Charge] /\ ledger \in [Keys -> Nat \cup {NoRow}]
  BY DEF TypeOK
<1>2. \A s \in Request : /\ charge'[s].status = charge[s].status
                         /\ charge'[s].attempt = charge[s].attempt
  BY <1>1 DEF Expand, Charge
<1>3. CASE ledger[ExpandKey(r, id)] = NoRow
  <2>1. /\ ledger' = Record(ledger, ExpandKey(r, id), delta)
        /\ wallet'.reserved = wallet.reserved + delta
    BY <1>3 DEF Expand, TypeOK
  <2>2. ExpandKey(r, id) \in Keys /\ delta \in Nat BY KeysFinite
  <2>3. ExpandKey(r, id)[1] \in Taken /\ ExpandKey(r, id)[1] \notin Given
    BY KeysApart DEF Taken, Given
  <2>4. LedgerExplainsHolds' BY <1>3, <2>1, <2>2, <2>3, RowExplains
  <2>5. \A s \in Request, m \in 1 .. MaxAttempts + 1 :
           /\ ledger'[ReserveKey(s, m)] = ledger[ReserveKey(s, m)]
           /\ ledger'[ReleaseKey(s, m)] = ledger[ReleaseKey(s, m)]
    <3> SUFFICES ASSUME NEW s \in Request, NEW m \in 1 .. MaxAttempts + 1
                 PROVE  /\ ledger'[ReserveKey(s, m)] = ledger[ReserveKey(s, m)]
                        /\ ledger'[ReleaseKey(s, m)] = ledger[ReleaseKey(s, m)]
      OBVIOUS
    <3>1. ReserveKey(s, m) \in Keys /\ ReleaseKey(s, m) \in Keys BY KeysFinite
    <3>2. ReserveKey(s, m) # ExpandKey(r, id) /\ ReleaseKey(s, m) # ExpandKey(r, id)
      BY DEF ReserveKey, ReleaseKey, ExpandKey
    <3> QED BY <1>1, <2>1, <2>2, <3>1, <3>2, RecordElsewhere
  <2>6. AttemptsRecorded' BY <1>2, <2>5 DEF AttemptsRecorded, Recorded
  <2> QED BY <2>4, <2>6
<1>4. CASE ledger[ExpandKey(r, id)] # NoRow
  <2>1. UNCHANGED <<charge, wallet, ledger>> BY <1>4 DEF Expand
  <2>2. LedgerExplainsHolds' BY <2>1 DEF LedgerExplainsHolds, RowMicros
  <2> QED BY <2>1, <2>2 DEF AttemptsRecorded, Recorded
<1> QED BY <1>3, <1>4

\* The row of a release, of a charge that is active, is not there yet.
LEMMA ReleaseIsNew ==
  ASSUME TypeOK, AttemptsRecorded, NEW r \in Request, Active(r)
  PROVE  /\ Attempt(charge[r]) = charge[r].attempt
         /\ charge[r].attempt \in 1 .. MaxAttempts
         /\ charge[r].attempt \in 1 .. MaxAttempts + 1
         /\ ReleaseKey(r, charge[r].attempt) \in Keys
         /\ ledger[ReleaseKey(r, charge[r].attempt)] = NoRow
         /\ charge[r].reserved \in Nat
         /\ Recorded(r, charge[r])
<1>1. charge[r].attempt \in Nat /\ charge[r].reserved \in Nat BY DEF TypeOK, Charge
<1>2. Recorded(r, charge[r]) /\ charge[r].status = "reserved"
  BY DEF AttemptsRecorded, Active
<1>3. charge[r].attempt \in 1 .. MaxAttempts BY <1>1, <1>2 DEF Recorded
<1>4. charge[r].attempt \in 1 .. MaxAttempts + 1 BY <1>3
<1>5. Attempt(charge[r]) = charge[r].attempt BY <1>3 DEF Attempt
<1>6. ledger[ReleaseKey(r, charge[r].attempt)] = NoRow BY <1>2, <1>4 DEF Recorded
<1> QED BY <1>1, <1>2, <1>3, <1>4, <1>5, <1>6, KeysFinite

\* No charge holds more than the wallet has set aside.
LEMMA HeldByOne ==
  ASSUME TypeOK, HoldsMatchCharges, NEW r \in Request, Active(r)
  PROVE  charge[r].reserved <= wallet.reserved
<1>1. \A s \in Request : HeldMicros[s] \in Nat BY UsageType
<1>2. Total({r}, HeldMicros) = HeldMicros[r] BY <1>1, TotalOne
<1>3. Total({r}, HeldMicros) <= Total(Request, HeldMicros) BY <1>1, TotalPart
<1>4. HeldMicros[r] = charge[r].reserved BY DEF HeldMicros
<1> QED BY <1>2, <1>3, <1>4 DEF HoldsMatchCharges, Held

\* A release is recorded under the key of the attempt.
LEMMA ReleaseExplains ==
  ASSUME TypeOK, LedgerExplainsHolds, HoldsMatchCharges, AttemptsRecorded,
         NEW r \in Request, Release(r)
  PROVE  LedgerExplainsHolds' /\ AttemptsRecorded'
<1>1. Active(r) BY DEF Release
<1> DEFINE n == charge[r].attempt
           key == ReleaseKey(r, n)
<1>2. /\ key \in Keys /\ ledger[key] = NoRow /\ charge[r].reserved \in Nat
      /\ n \in 1 .. MaxAttempts + 1 /\ Recorded(r, charge[r])
      /\ ledger' = Record(ledger, key, charge[r].reserved)
  BY <1>1, ReleaseIsNew DEF Release
<1>3. charge[r].reserved <= wallet.reserved BY <1>1, HeldByOne
<1>4. wallet'.reserved = wallet.reserved - charge[r].reserved
  <2>1. wallet.reserved \in Nat
        /\ wallet' = [wallet EXCEPT !.reserved = Max0(@ - charge[r].reserved)]
    BY DEF Release, TypeOK
  <2>2. wallet'.reserved = Max0(wallet.reserved - charge[r].reserved)
    BY <2>1 DEF TypeOK
  <2> QED BY <1>2, <1>3, <2>1, <2>2 DEF Max0
<1>5. key[1] \in Given /\ key[1] \notin Taken BY KeysApart DEF Taken, Given
<1>6. LedgerExplainsHolds'
  <2> HIDE DEF key
  <2> QED BY <1>2, <1>3, <1>4, <1>5, RowExplains
<1>7. charge \in [Request -> Charge] /\ ledger \in [Keys -> Nat \cup {NoRow}]
  BY DEF TypeOK
<1>8. /\ charge'[r].status = "released" /\ charge'[r].attempt = n
      /\ \A s \in Request \ {r} : charge'[s] = charge[s]
  BY <1>7 DEF Release, Charge
<1>9. ASSUME NEW s \in Request, NEW m \in 1 .. MaxAttempts + 1
      PROVE  /\ ledger'[ReserveKey(s, m)] = ledger[ReserveKey(s, m)]
             /\ s # r \/ m # n => ledger'[ReleaseKey(s, m)] = ledger[ReleaseKey(s, m)]
  <2>1. ReserveKey(s, m) \in Keys /\ ReserveKey(s, m) # key
        /\ ReleaseKey(s, m) \in Keys /\ (s # r \/ m # n => ReleaseKey(s, m) # key)
    BY KeysFinite, KeysApart
  <2> HIDE DEF key
  <2> QED BY <1>2, <1>7, <2>1, RecordElsewhere
<1>10. Recorded(r, charge[r])'
  <2> n \in Nat BY <1>2
  <2> QED BY <1>1, <1>2, <1>8, <1>9 DEF Recorded, Active
<1>11. ASSUME NEW s \in Request \ {r}
       PROVE  (charge[s].status = "settled" \/ Recorded(s, charge[s]))'
  BY <1>8, <1>9, RecordedStays DEF AttemptsRecorded
<1> QED BY <1>6, <1>10, <1>11 DEF AttemptsRecorded

\* So is what a settlement gives back; its debit is another row.
LEMMA SettleExplainsHolds ==
  ASSUME TypeOK, LedgerExplainsHolds, HoldsMatchCharges, AttemptsRecorded,
         NEW r \in Request, NEW cost \in Costs, NEW asked \in Costs, Settle(r, cost, asked)
  PROVE  LedgerExplainsHolds' /\ AttemptsRecorded'
<1>1. Active(r) BY DEF Settle
<1>2. PICK debit \in Nat : debit = Debit(r, cost, asked) BY DebitType
<1> DEFINE n == charge[r].attempt
           held == charge[r].reserved
           key == ReleaseKey(r, n)
           first == Record(ledger, DebitKey(r), debit)
<1>3. /\ key \in Keys /\ ledger[key] = NoRow /\ held \in Nat
      /\ n \in 1 .. MaxAttempts + 1
      /\ ledger' = Record(first, key, held)
  BY <1>1, <1>2, ReleaseIsNew DEF Settle
<1>4. held <= wallet.reserved BY <1>1, HeldByOne
<1>5. wallet.reserved \in Nat /\ wallet'.reserved = wallet.reserved - held
  <2>1. wallet.reserved \in Nat BY DEF TypeOK
  <2>2. wallet'.reserved = Max0(wallet.reserved - held) BY DEF Settle
  <2> QED BY <1>3, <1>4, <2>1, <2>2 DEF Max0
<1>6. /\ ledger \in [Keys -> Nat \cup {NoRow}] /\ DebitKey(r) \in Keys
      /\ first \in [Keys -> Nat \cup {NoRow}]
  BY RecordType, DebitRowsType DEF TypeOK
<1>7. \A k \in Keys : k # DebitKey(r) => first[k] = ledger[k]
  BY <1>6, RecordElsewhere
<1>8. \A kinds : "debit" \notin kinds => Sum(first, kinds) = Sum(ledger, kinds)
  <2> SUFFICES ASSUME NEW kinds, "debit" \notin kinds
               PROVE  Sum(first, kinds) = Sum(ledger, kinds)
    OBVIOUS
  <2>1. DebitKey(r)[1] = "debit" BY KeysApart
  <2> HIDE DEF first
  <2>2. \A k \in Keys : MicrosOf(first, kinds)[k] = MicrosOf(ledger, kinds)[k]
    BY <1>7, <2>1 DEF MicrosOf
  <2> QED BY <2>2, TotalSame DEF Sum
<1>9. first[key] = NoRow
  <2>1. key # DebitKey(r) BY KeysDiffer
  <2> HIDE DEF key, first
  <2> QED BY <1>3, <1>7, <2>1
<1>10. LedgerExplainsHolds'
  <2>1. key[1] = "release" BY KeysApart
  <2> HIDE DEF key, first
  <2>2. \A kinds : Sum(ledger', kinds)
                     = Sum(first, kinds) + (IF key[1] \in kinds THEN held ELSE 0)
    BY <1>3, <1>6, <1>9, RecordAdds
  <2>3. /\ Sum(ledger', Taken) = Sum(ledger, Taken) + 0
        /\ Sum(ledger', Given) = Sum(ledger, Given) + held
    BY <1>8, <2>1, <2>2 DEF Taken, Given
  <2>4. Sum(ledger, Taken) \in Nat /\ Sum(ledger, Given) \in Nat
    BY <1>3, <1>6, RecordAdds
  <2>5. Sum(ledger, Taken) = wallet.reserved + Sum(ledger, Given) BY HoldsAsSums
  <2>6. Sum(ledger', Taken) = wallet'.reserved + Sum(ledger', Given)
    BY <1>3, <1>5, <2>3, <2>4, <2>5
  <2> QED BY <2>6, HoldsAsSums
<1>11. /\ charge'[r].status = "settled"
       /\ \A s \in Request \ {r} : charge'[s] = charge[s]
  BY DEF Settle, TypeOK
<1>12. ASSUME NEW s \in Request \ {r}
       PROVE  (charge[s].status = "settled" \/ Recorded(s, charge[s]))'
  <2>1. ASSUME NEW m \in 1 .. MaxAttempts + 1
        PROVE  /\ ledger'[ReserveKey(s, m)] = ledger[ReserveKey(s, m)]
               /\ ledger'[ReleaseKey(s, m)] = ledger[ReleaseKey(s, m)]
    <3>1. /\ ReserveKey(s, m) \in Keys /\ ReserveKey(s, m) # key
          /\ ReleaseKey(s, m) \in Keys /\ ReleaseKey(s, m) # key
          /\ ReserveKey(s, m) # DebitKey(r) /\ ReleaseKey(s, m) # DebitKey(r)
      BY KeysFinite, KeysApart, KeysDiffer
    <3> HIDE DEF key, first
    <3> QED BY <1>3, <1>6, <1>7, <3>1, RecordElsewhere
  <2> QED BY <1>11, <2>1, RecordedStays DEF AttemptsRecorded
<1> QED BY <1>10, <1>11, <1>12 DEF AttemptsRecorded

\* The recovery records a release of every stale charge.
LEMMA RecoverExplains ==
  ASSUME TypeOK, LedgerExplainsHolds, HoldsMatchCharges, AttemptsRecorded, RecoverStale
  PROVE  LedgerExplainsHolds' /\ AttemptsRecorded'
<1> DEFINE name == [r \in Stale |-> ReleaseKey(r, charge[r].attempt)]
           Fresh == {name[r] : r \in Stale}
<1>1. /\ charge \in [Request -> Charge] /\ ledger \in [Keys -> Nat \cup {NoRow}]
      /\ wallet \in [balance: Nat, reserved: Nat]
      /\ Stale \subseteq Request
  BY DEF TypeOK, Stale
<1>2. IsFiniteSet(Stale) BY <1>1, FS_Subset
<1>3. ASSUME NEW r \in Stale
      PROVE  /\ Active(r) /\ name[r] = ReleaseKey(r, charge[r].attempt)
             /\ Attempt(charge[r]) = charge[r].attempt
             /\ name[r] \in Keys /\ ledger[name[r]] = NoRow
             /\ charge[r].reserved \in Nat /\ Recorded(r, charge[r])
             /\ HeldMicros[r] = charge[r].reserved
             /\ name[r][1] = "release" /\ name[r][2] = r
             /\ ledger'[name[r]] = charge[r].reserved
  <2>1. Active(r) /\ name[r] = ReleaseKey(r, charge[r].attempt) BY DEF Stale
  <2>2. /\ Attempt(charge[r]) = charge[r].attempt
        /\ name[r] \in Keys /\ ledger[name[r]] = NoRow
        /\ charge[r].reserved \in Nat /\ Recorded(r, charge[r])
    BY <1>1, <2>1, ReleaseIsNew
  <2>3. HeldMicros[r] = charge[r].reserved BY <1>1, <2>1 DEF HeldMicros
  <2>4. name[r][1] = "release" /\ name[r][2] = r BY <2>1 DEF ReleaseKey
  <2> HIDE DEF name
  <2>5. ledger'[name[r]] = charge[r].reserved BY <2>1, <2>2, <2>4 DEF RecoverStale
  <2> QED BY <2>1, <2>2, <2>3, <2>4, <2>5
<1>4. ASSUME NEW k \in Keys \ Fresh PROVE ledger'[k] = ledger[k]
  <2>1. CASE /\ ledger[k] = NoRow /\ k[2] \in Stale
             /\ k = ReleaseKey(k[2], Attempt(charge[k[2]]))
    <3>1. k = name[k[2]] BY <1>3, <2>1
    <3> QED BY <2>1, <3>1
  <2>2. CASE ~ (/\ ledger[k] = NoRow /\ k[2] \in Stale
                /\ k = ReleaseKey(k[2], Attempt(charge[k[2]])))
    BY <2>2 DEF RecoverStale
  <2> QED BY <2>1, <2>2
<1>5. name \in Bijection(Stale, Fresh)
  <2>1. name \in [Stale -> Fresh] OBVIOUS
  <2>2. \A r, s \in Stale : name[r] = name[s] => r = s BY <1>3
  <2>3. \A k \in Fresh : \E r \in Stale : name[r] = k OBVIOUS
  <2> HIDE DEF name, Fresh
  <2> QED BY <2>1, <2>2, <2>3 DEF Bijection, Injection, Surjection, IsInjective
<1>6. Fresh \subseteq Keys BY <1>3
<1>7. \A k \in Fresh : \E r \in Stale : k = name[r] OBVIOUS
<1> HIDE DEF name, Fresh
<1> DEFINE f == MicrosOf(ledger, Given)
           g == MicrosOf(ledger', Given)
           T == Total(Stale, HeldMicros)
<1>8. \A r \in Request : HeldMicros[r] \in Nat BY UsageType
<1>9. Total(Fresh, g) = T
  <2>1. \A r \in Stale : g[name[r]] = HeldMicros[r]
    BY <1>3, SentinelAssumption DEF MicrosOf, Given
  <2> HIDE DEF g
  <2> QED BY <1>1, <1>2, <1>5, <1>8, <2>1, TotalRenamed
<1>10. Total(Fresh, f) = 0
  <2>1. \A k \in Fresh : f[k] = 0 BY <1>3, <1>6, <1>7 DEF MicrosOf
  <2>2. Micros(Fresh, f) = {} BY <2>1 DEF Micros
  <2> QED BY <2>2, FS_EmptySet DEF Total
<1>11. \A k \in Keys \ Fresh : g[k] = f[k] BY <1>4 DEF MicrosOf
<1>12. \A k \in Keys : f[k] \in Nat BY <1>1 DEF MicrosOf
<1>13. \A k \in Keys : g[k] \in Nat
  <2>1. \A k \in Fresh : g[k] \in Nat BY <1>3, <1>6, <1>7 DEF MicrosOf
  <2> QED BY <1>11, <1>12, <2>1
<1>14. Sum(ledger', Given) = Sum(ledger, Given) + T
  <2> HIDE DEF f, g
  <2>1. /\ Total(Keys, f) = Total(Fresh, f) + Total(Keys \ Fresh, f)
        /\ Total(Keys, g) = Total(Fresh, g) + Total(Keys \ Fresh, g)
    BY <1>6, <1>12, <1>13, KeysFinite, TotalSplit
  <2>2. Total(Keys \ Fresh, g) = Total(Keys \ Fresh, f) BY <1>11, TotalSame
  <2>3. Total(Keys \ Fresh, f) \in Nat
    <3>1. IsFiniteSet(Keys \ Fresh) BY KeysFinite, FS_Subset
    <3> QED BY <1>12, <3>1, TotalType
  <2>4. T \in Nat BY <1>1, <1>2, <1>8, TotalType
  <2>5. Total(Keys, g) = Total(Keys, f) + T BY <1>9, <1>10, <2>1, <2>2, <2>3, <2>4
  <2> QED BY <2>5 DEF Sum, f, g
<1>15. Sum(ledger', Taken) = Sum(ledger, Taken)
  <2>1. ASSUME NEW k \in Keys
        PROVE  MicrosOf(ledger', Taken)[k] = MicrosOf(ledger, Taken)[k]
    <3>1. CASE k \in Fresh BY <1>3, <1>7, <3>1 DEF MicrosOf, Taken
    <3>2. CASE k \notin Fresh BY <1>4, <3>2 DEF MicrosOf
    <3> QED BY <3>1, <3>2
  <2> QED BY <2>1, TotalSame DEF Sum
<1>16. wallet.reserved \in Nat /\ wallet'.reserved = wallet.reserved - T /\ T \in Nat
  <2>1. T \in Nat BY <1>1, <1>2, <1>8, TotalType
  <2>2. T <= Total(Request, HeldMicros) BY <1>1, <1>8, TotalPart
  <2>3. T <= wallet.reserved BY <2>2 DEF HoldsMatchCharges, Held
  <2>4. wallet'.reserved = Max0(wallet.reserved - T) BY <1>1 DEF RecoverStale
  <2> QED BY <1>1, <2>1, <2>3, <2>4 DEF Max0
<1>17. LedgerExplainsHolds'
  <2> HIDE DEF T
  <2>1. Sum(ledger, Taken) = wallet.reserved + Sum(ledger, Given) BY HoldsAsSums
  <2>2. Sum(ledger, Given) \in Nat BY <1>12, KeysFinite, TotalType DEF Sum
  <2>3. Sum(ledger', Taken) = wallet'.reserved + Sum(ledger', Given)
    BY <1>14, <1>15, <1>16, <2>1, <2>2
  <2> QED BY <2>3, HoldsAsSums
<1>18. ASSUME NEW s \in Request, NEW m \in 1 .. MaxAttempts + 1
       PROVE  /\ ledger'[ReserveKey(s, m)] = ledger[ReserveKey(s, m)]
              /\ s \notin Stale \/ m # charge[s].attempt =>
                    ledger'[ReleaseKey(s, m)] = ledger[ReleaseKey(s, m)]
  <2>1. ReserveKey(s, m) \in Keys /\ ReleaseKey(s, m) \in Keys BY KeysFinite
  <2>2. ReserveKey(s, m) \notin Fresh BY <1>3, <1>7, KeysApart
  <2>3. s \notin Stale \/ m # charge[s].attempt => ReleaseKey(s, m) \notin Fresh
    BY <1>3, <1>7, KeysApart
  <2> QED BY <1>4, <2>1, <2>2, <2>3
<1>19. ASSUME NEW s \in Stale PROVE Recorded(s, charge[s])'
  <2>1. charge'[s].status = "released" /\ charge'[s].attempt = charge[s].attempt
    BY <1>1 DEF RecoverStale, Charge
  <2>2. charge[s].attempt \in Nat /\ charge[s].status = "reserved"
    BY <1>1, <1>3 DEF Charge, Active
  <2> QED BY <1>1, <1>3, <1>18, <2>1, <2>2 DEF Recorded
<1>20. ASSUME NEW s \in Request \ Stale
       PROVE  (charge[s].status = "settled" \/ Recorded(s, charge[s]))'
  <2>1. charge'[s] = charge[s] BY DEF RecoverStale
  <2> QED BY <1>18, <2>1, RecordedStays DEF AttemptsRecorded
<1> QED BY <1>17, <1>19, <1>20 DEF AttemptsRecorded

\* At first nothing is recorded, and nothing set aside.
LEMMA HoldsExplainedInit == Init => LedgerExplainsHolds /\ AttemptsRecorded /\ SeenBelow
<1> SUFFICES ASSUME Init PROVE LedgerExplainsHolds /\ AttemptsRecorded /\ SeenBelow
  OBVIOUS
<1>1. \A kinds : Sum(ledger, kinds) = 0
  <2> SUFFICES ASSUME NEW kinds PROVE Sum(ledger, kinds) = 0
    OBVIOUS
  <2>1. \A k \in Keys : MicrosOf(ledger, kinds)[k] = 0 BY DEF Init, MicrosOf
  <2>2. Micros(Keys, MicrosOf(ledger, kinds)) = {} BY <2>1 DEF Micros
  <2> QED BY <2>2, FS_EmptySet DEF Sum, Total
<1>2. wallet.reserved = 0 BY DEF Init
<1>3. LedgerExplainsHolds BY <1>1, <1>2, HoldsAsSums
<1>4. AttemptsRecorded
  <2> SUFFICES ASSUME NEW r \in Request PROVE Recorded(r, charge[r])
    BY DEF AttemptsRecorded
  <2>1. charge[r].status = "none" /\ charge[r].attempt = 0 BY DEF Init, NoCharge
  <2>2. \A n \in 1 .. MaxAttempts + 1 :
           ledger[ReserveKey(r, n)] = NoRow /\ ledger[ReleaseKey(r, n)] = NoRow
    BY KeysFinite DEF Init
  <2> QED BY <2>1, <2>2 DEF Recorded
<1> QED BY <1>3, <1>4 DEF Init, SeenBelow

\* Creations keep reading charges that may be attempted.
LEMMA SeenBelowStep == ASSUME TypeOK, SeenBelow, [Next]_vars PROVE SeenBelow'
<1>1. pending \in [Caller -> {Idle} \cup [request: Request, seen: Charge]]
  BY DEF TypeOK
<1>2. \/ UNCHANGED pending
      \/ \E c \in Caller : pending' = [pending EXCEPT ![c] = Idle]
      \/ \E c \in Caller, r \in Request : BeginCreate(c, r)
  BY DEF Next, vars, CommitCreate, AbortCreate, CommitExempt, CommitFree,
         CommitUnpaid, Expand, Settle, Release, SettleExempt, ReleaseExempt,
         SettleFree, ReleaseFree, CloseUnpaid, Age, RecoverStale, NewPeriod, SetLimit
<1>3. ASSUME NEW c \in Caller, NEW r \in Request, BeginCreate(c, r) PROVE SeenBelow'
  BY <1>1, <1>3 DEF BeginCreate, SeenBelow
<1> QED BY <1>1, <1>2, <1>3 DEF SeenBelow

\* The reservation, expansion and release rows of the ledger add up to what
\* the wallet has set aside, for any number of requests, attempts and
\* expansions, as long as no two transactions that create one charge overlap
\* and no request changes its billing kind
\* (create, expand, settle, release and the stale recovery, by _ledger).
THEOREM HoldsExplained ==
  ASSUME PaidOnly
  PROVE  Spec /\ []SnapshotsCurrent => []LedgerExplainsHolds
<1> DEFINE Inv == LedgerExplainsHolds /\ AttemptsRecorded /\ SeenBelow
<1>1. Init => Inv BY HoldsExplainedInit
<1>2. TypeOK /\ SnapshotsCurrent /\ SeenHaveNoHold /\ HoldsMatchCharges /\ Inv /\ [Next]_vars
        => Inv'
  <2> SUFFICES ASSUME TypeOK, SnapshotsCurrent, SeenHaveNoHold, HoldsMatchCharges, Inv,
                      [Next]_vars
               PROVE  Inv'
    OBVIOUS
  <2>1. SeenBelow' BY SeenBelowStep
  <2>2. ASSUME NEW c \in Caller, NEW required \in Holds, CommitCreate(c, required)
        PROVE  Inv'
    BY <2>1, <2>2, CreateExplains
  <2>3. \A c \in Caller : ~CommitExempt(c) /\ ~CommitFree(c)
    BY PaidOnly DEF PaidOnly, CommitExempt, CommitFree, CommitUnpaid
  <2>4. ASSUME NEW r \in Request, NEW id \in Expansions, NEW delta \in Holds,
               Expand(r, id, delta)
        PROVE  Inv'
    BY <2>1, <2>4, ExpandExplains
  <2>5. ASSUME NEW r \in Request, NEW cost \in Costs, NEW asked \in Costs,
               Settle(r, cost, asked)
        PROVE  Inv'
    BY <2>1, <2>5, SettleExplainsHolds
  <2>6. ASSUME NEW r \in Request, Release(r) PROVE Inv'
    BY <2>1, <2>6, ReleaseExplains
  <2>7. CASE RecoverStale BY <2>1, <2>7, RecoverExplains
  <2>8. \A r \in Request : /\ ~SettleExempt(r) /\ ~ReleaseExempt(r)
                           /\ ~SettleFree(r) /\ ~ReleaseFree(r)
    BY DEF AttemptsRecorded, Recorded, SettleExempt, ReleaseExempt, SettleFree,
           ReleaseFree, CloseUnpaid
  <2>9. CASE UNCHANGED <<wallet, charge, ledger>>
    <3>1. LedgerExplainsHolds' BY <2>9 DEF LedgerExplainsHolds, RowMicros
    <3>2. AttemptsRecorded' BY <2>9 DEF AttemptsRecorded, Recorded
    <3> QED BY <2>1, <3>1, <3>2
  <2> HIDE DEF Inv
  <2> QED BY <2>2, <2>3, <2>4, <2>5, <2>6, <2>7, <2>8, <2>9
          DEF Next, vars, BeginCreate, AbortCreate, Age, NewPeriod, SetLimit
<1>3. Inv => LedgerExplainsHolds OBVIOUS
<1> QED BY <1>1, <1>2, <1>3, TypeCorrect, SeenHold, HoldsMatch, PTL DEF Spec
=============================================================================
