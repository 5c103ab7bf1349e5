-------------------------- MODULE UsageReservation --------------------------
(* The wallet of one user and credit bucket, and the usage charges that    *)
(* reserve it, debit it and give it back:                                  *)
(* backend/app/billing/service.py and backend/app/billing/usage_limits.py  *)
(*                                                                         *)
(* A request is charged in two halves, with a provider call in between: a  *)
(* reservation before the call and a settlement (or a release) after it.   *)
(* Every function of service.py runs in one database transaction, and what *)
(* it reads it locks, with one exception. A transaction that creates a     *)
(* charge has read the charge of its request WITHOUT a lock: in            *)
(* create_usage_reservation itself, and earlier in prepare_web_turn, whose *)
(* session keeps the row it loaded. Reading and committing are two actions *)
(* here; between them any other transaction may commit.                    *)
EXTENDS Totals

CONSTANTS
    Request,         \* request ids
    Caller,          \* transactions that may be creating a reservation
    Kinds,           \* billing kinds the user's requests may have
    Holds,           \* micros a reservation or an expansion may ask for
    Costs,           \* micros a provider may report
    Expansions,      \* expansion ids
    Limits,          \* values of the user's monthly hard limit
    NoLimit,         \* "no hard limit is configured"
    InitialBalance,  \* micros credited before the first request
    MaxAttempts,     \* bound: reservations of one request id
    MaxPeriods,      \* bound: calendar months
    NoRow,           \* "no ledger row has this idempotency key"
    Idle             \* "this caller is in no transaction"

ASSUME RequestAssumption  == IsFiniteSet(Request)
ASSUME AmountsAssumption  == /\ Holds \subseteq Nat \ {0}
                             /\ Costs \subseteq Nat
                             /\ InitialBalance \in Nat
ASSUME LimitsAssumption   == /\ Limits \subseteq Nat \cup {NoLimit}
                             /\ NoLimit \notin Nat
ASSUME BoundsAssumption   == /\ IsFiniteSet(Expansions)
                             /\ MaxAttempts \in Nat \ {0}
                             /\ MaxPeriods \in Nat \ {0}
ASSUME KindsAssumption    == Kinds \subseteq {"paid", "exempt", "free"}
ASSUME SentinelAssumption == NoRow \notin Nat

VARIABLES
    wallet,   \* WalletAccount: balance_micros and reserved_micros
    charge,   \* UsageCharge, by request id
    ledger,   \* WalletLedger: the amount recorded under each idempotency key
    limit,    \* WebUsagePreferences.hard_limit_micros
    period,   \* the calendar month
    pending,  \* what each create_usage_reservation read before it locked
    aged      \* charges created before the cutoff of the stale recovery

vars == <<wallet, charge, ledger, limit, period, pending, aged>>

-----------------------------------------------------------------------------
(* Rows and keys.                                                          *)

Statuses == {"none", "reserved", "released", "settled", "exempt_pending",
             "billing_exempt", "free_pending", "free"}

\* "none": the request has no charge yet. attempt is the reservation_attempt
\* of the pricing snapshot, 0 when the snapshot has none; settledIn is the
\* month of settled_at, 0 when it is null.
Charge == [status: Statuses, attempt: Nat, reserved: Nat, debited: Nat,
           settledIn: Nat]

NoCharge == [status |-> "none", attempt |-> 0, reserved |-> 0, debited |-> 0,
             settledIn |-> 0]

\* Mutant: one release row per request, however often it is attempted.
ReleaseKeyOnce(r, n) == <<"release", r, 1>>

\* usage-reserve:{r}:attempt:{n}, usage-expand:{r}:{id}, usage-debit:{r} and
\* usage-release:{r}:attempt:{n}.
ReserveKey(r, n) == <<"reserve", r, n>>
ExpandKey(r, id) == <<"expand", r, id>>
DebitKey(r)      == <<"debit", r, 0>>
ReleaseKey(r, n) == <<"release", r, n>>

Keys == ({"reserve", "release"} \X Request \X (1 .. MaxAttempts + 1))
            \cup ({"expand"} \X Request \X Expansions)
            \cup ({"debit"} \X Request \X {0})

\* _ledger: a key that is already there keeps its row.
Record(rows, key, micros) ==
    IF rows[key] = NoRow THEN [rows EXCEPT ![key] = micros] ELSE rows

\* _reservation_attempt: at least 1, also for a snapshot that has none.
Attempt(c) == IF c.attempt = 0 THEN 1 ELSE c.attempt

-----------------------------------------------------------------------------
(* _usage_totals: what counts against the monthly hard limit.              *)

Active(r) == charge[r].status = "reserved"

HeldMicros    == [r \in Request |-> IF Active(r) THEN charge[r].reserved ELSE 0]
SettledMicros == [r \in Request |->
                    IF charge[r].status = "settled" /\ charge[r].settledIn = period
                    THEN charge[r].debited ELSE 0]

Held  == Total(Request, HeldMicros)
Usage == Total(Request, SettledMicros) + Held

\* Mutant: the limit is compared with what is settled only.
LimitAllowsSettled(required) ==
    limit # NoLimit => Total(Request, SettledMicros) + required <= limit

\* enforce_usage_limit(required)
LimitAllows(required) == limit # NoLimit => Usage + required <= limit

\* settlement_limit_available, without the reservation of r itself
LimitLeft(r) == Max0(limit - (Usage - charge[r].reserved))

Available == wallet.balance - wallet.reserved

-----------------------------------------------------------------------------
Init ==
    /\ wallet = [balance |-> InitialBalance, reserved |-> 0]
    /\ charge = [r \in Request |-> NoCharge]
    /\ ledger = [k \in Keys |-> NoRow]
    /\ limit \in Limits
    /\ period = 1
    /\ pending = [c \in Caller |-> Idle]
    /\ aged = {}

-----------------------------------------------------------------------------
(* Creating a charge: create_usage_reservation for a paid request,         *)
(* create_billing_exempt_usage for an internal tester's and                *)
(* create_swico_free_usage for a free one.                                 *)

NextAttempt(seen) == IF seen.status = "none" THEN 1 ELSE Attempt(seen) + 1

\* The ORM's UPDATE writes the columns that differ from what was loaded, and
\* leaves the others at what the row holds by now.
Flush(row, seen, new) ==
    [f \in DOMAIN row |-> IF new[f] # seen[f] THEN new[f] ELSE row[f]]

\* The unlocked read. An existing charge that is not released is returned as
\* it is.
BeginCreate(c, r) ==
    /\ pending[c] = Idle
    /\ charge[r].status \in {"none", "released"}
    /\ charge[r].attempt < MaxAttempts
    /\ pending' = [pending EXCEPT ![c] = [request |-> r, seen |-> charge[r]]]
    /\ UNCHANGED <<wallet, charge, ledger, limit, period, aged>>

\* The wallet is locked, checked against the balance and the hard limit, and
\* the charge is inserted (request_id is unique) or overwritten.
CommitCreate(c, required) ==
    /\ "paid" \in Kinds
    /\ pending[c] # Idle
    /\ LET r    == pending[c].request
           seen == pending[c].seen
           n    == NextAttempt(seen)
           new  == [seen EXCEPT !.status = "reserved", !.attempt = n,
                                !.reserved = required, !.settledIn = 0]
       IN  /\ seen.status = "none" => charge[r].status = "none"
           /\ Available >= required
           /\ wallet.balance > 0
           /\ LimitAllows(required)
           /\ wallet' = [wallet EXCEPT !.reserved = @ + required]
           /\ charge' = [charge EXCEPT ![r] = Flush(@, seen, new)]
           /\ ledger' = Record(ledger, ReserveKey(r, n), required)
    /\ pending' = [pending EXCEPT ![c] = Idle]
    /\ UNCHANGED <<limit, period, aged>>

\* A charge without money: a fresh snapshot, without the attempt number, is
\* written over the row; the wallet and the limit are not touched.
CommitUnpaid(c, kind, open) ==
    /\ kind \in Kinds
    /\ pending[c] # Idle
    /\ LET r    == pending[c].request
           seen == pending[c].seen
           new  == [NoCharge EXCEPT !.status = open]
       IN  /\ seen.status = "none" => charge[r].status = "none"
           /\ charge' = [charge EXCEPT ![r] = Flush(@, seen, new)]
    /\ pending' = [pending EXCEPT ![c] = Idle]
    /\ UNCHANGED <<wallet, ledger, limit, period, aged>>

CommitExempt(c) == CommitUnpaid(c, "exempt", "exempt_pending")
CommitFree(c)   == CommitUnpaid(c, "free", "free_pending")

\* Insufficient credit, a limit reached, a duplicate request_id, a failure or
\* a crash later in the same transaction: it rolls back.
AbortCreate(c) ==
    /\ pending[c] # Idle
    /\ pending' = [pending EXCEPT ![c] = Idle]
    /\ UNCHANGED <<wallet, charge, ledger, limit, period, aged>>

-----------------------------------------------------------------------------
(* expand_usage_reservation: the limit is enforced before the idempotency  *)
(* key is looked up; a key that is already there changes nothing, and the  *)
(* caller is told that the expansion is held.                              *)

Expand(r, id, delta) ==
    /\ Active(r)
    /\ LimitAllows(delta)
    /\ \/ /\ ledger[ExpandKey(r, id)] = NoRow
          /\ Available >= delta
          /\ charge' = [charge EXCEPT ![r].reserved = @ + delta]
          /\ wallet' = [wallet EXCEPT !.reserved = @ + delta]
          /\ ledger' = Record(ledger, ExpandKey(r, id), delta)
       \/ /\ ledger[ExpandKey(r, id)] # NoRow
          /\ UNCHANGED <<charge, wallet, ledger>>
    /\ UNCHANGED <<limit, period, pending, aged>>

-----------------------------------------------------------------------------
(* settle_usage_reservation. cost is what the provider reported, asked what *)
(* the customer is to pay for it; what the debit does not cover, the       *)
(* platform absorbs. A settled charge is returned as it is.                *)

\* Mutant: an overage is debited whatever the balance.
DebitUncapped(r, cost, asked) ==
    Lesser(asked, IF limit = NoLimit THEN cost ELSE LimitLeft(r))

Debit(r, cost, asked) ==
    Lesser(asked, Lesser(wallet.balance,
                         IF limit = NoLimit THEN cost ELSE LimitLeft(r)))

\* Mutant: the ledger records what was asked, not what was debited.
SettleAsked(r, cost, asked) ==
    /\ Active(r)
    /\ wallet' = [balance  |-> wallet.balance - Debit(r, cost, asked),
                  reserved |-> Max0(wallet.reserved - charge[r].reserved)]
    /\ charge' = [charge EXCEPT ![r].status = "settled", ![r].reserved = 0,
                                ![r].settledIn = period]
    /\ ledger' = Record(ledger, DebitKey(r), asked)
    /\ UNCHANGED <<limit, period, pending, aged>>

Settle(r, cost, asked) ==
    /\ Active(r)
    /\ LET held  == charge[r].reserved
           debit == Debit(r, cost, asked)
           n     == Attempt(charge[r])
       IN  /\ wallet' = [balance  |-> wallet.balance - debit,
                         reserved |-> Max0(wallet.reserved - held)]
           /\ charge' = [charge EXCEPT ![r] =
                           [status |-> "settled", attempt |-> 0, reserved |-> 0,
                            debited |-> debit, settledIn |-> period]]
           /\ ledger' = Record(Record(ledger, DebitKey(r), debit),
                               ReleaseKey(r, n), held)
    /\ UNCHANGED <<limit, period, pending, aged>>

-----------------------------------------------------------------------------
(* release_usage_reservation. The row keeps the amount it had reserved.    *)

\* Mutant: whatever is not settled is released, a released charge again.
ReleaseAgain(r) ==
    /\ charge[r].status \in {"reserved", "released"}
    /\ wallet' = [wallet EXCEPT !.reserved = Max0(@ - charge[r].reserved)]
    /\ charge' = [charge EXCEPT ![r].status = "released", ![r].settledIn = period]
    /\ UNCHANGED <<ledger, limit, period, pending, aged>>

\* Mutant: a release does not look at the status of the charge.
ReleaseAny(r) ==
    /\ charge[r].status # "none"
    /\ wallet' = [wallet EXCEPT !.reserved = Max0(@ - charge[r].reserved)]
    /\ charge' = [charge EXCEPT ![r].status = "released", ![r].settledIn = period]
    /\ UNCHANGED <<ledger, limit, period, pending, aged>>

Release(r) ==
    /\ Active(r)
    /\ wallet' = [wallet EXCEPT !.reserved = Max0(@ - charge[r].reserved)]
    /\ charge' = [charge EXCEPT ![r].status = "released", ![r].settledIn = period]
    /\ ledger' = Record(ledger, ReleaseKey(r, Attempt(charge[r])), charge[r].reserved)
    /\ UNCHANGED <<limit, period, pending, aged>>

\* Mutant: the recovery looks for first attempts only.
StaleFirst == { r \in Request : Active(r) /\ r \in aged /\ Attempt(charge[r]) = 1 }

\* recover_stale_usage_reservations: one transaction releases every reserved
\* charge whose row is older than the cutoff.
Stale == { r \in Request : Active(r) /\ r \in aged }

RecoverStale ==
    /\ Stale # {}
    /\ wallet' = [wallet EXCEPT !.reserved = Max0(@ - Total(Stale, HeldMicros))]
    /\ charge' = [r \in Request |->
                    IF r \in Stale
                    THEN [charge[r] EXCEPT !.status = "released", !.settledIn = period]
                    ELSE charge[r]]
    /\ ledger' = [k \in Keys |->
                    IF /\ ledger[k] = NoRow
                       /\ k[2] \in Stale
                       /\ k = ReleaseKey(k[2], Attempt(charge[k[2]]))
                    THEN charge[k[2]].reserved ELSE ledger[k]]
    /\ UNCHANGED <<limit, period, pending, aged>>

-----------------------------------------------------------------------------
(* The end of a charge without money.                                      *)

\* settle_billing_exempt_usage, release_billing_exempt_usage,
\* settle_swico_free_usage and release_swico_free_usage.
CloseUnpaid(r, open, closed) ==
    /\ charge[r].status = open
    /\ charge' = [charge EXCEPT ![r].status = closed, ![r].settledIn = period]
    /\ UNCHANGED <<wallet, ledger, limit, period, pending, aged>>

SettleExempt(r)  == CloseUnpaid(r, "exempt_pending", "billing_exempt")
ReleaseExempt(r) == CloseUnpaid(r, "exempt_pending", "released")
SettleFree(r)    == CloseUnpaid(r, "free_pending", "free")
ReleaseFree(r)   == CloseUnpaid(r, "free_pending", "released")

-----------------------------------------------------------------------------
(* Time and settings.                                                      *)

\* created_at falls behind the cutoff. A retry reuses the row, and created_at
\* with it: the reservation it makes is younger than its row.
Age(r) ==
    /\ charge[r].status # "none"
    /\ r \notin aged
    /\ aged' = aged \cup {r}
    /\ UNCHANGED <<wallet, charge, ledger, limit, period, pending>>

NewPeriod ==
    /\ period < MaxPeriods
    /\ period' = period + 1
    /\ UNCHANGED <<wallet, charge, ledger, limit, pending, aged>>

\* PATCH /api/web/settings/usage: the limit may be set below what is used.
SetLimit(new) ==
    /\ new # limit
    /\ limit' = new
    /\ UNCHANGED <<wallet, charge, ledger, period, pending, aged>>

-----------------------------------------------------------------------------
Next ==
    \/ \E c \in Caller :
          \/ \E r \in Request : BeginCreate(c, r)
          \/ \E required \in Holds : CommitCreate(c, required)
          \/ AbortCreate(c)
          \/ CommitExempt(c)
          \/ CommitFree(c)
    \/ \E r \in Request :
          \/ \E id \in Expansions, delta \in Holds : Expand(r, id, delta)
          \/ \E cost, asked \in Costs : Settle(r, cost, asked)
          \/ Release(r)
          \/ SettleExempt(r)
          \/ ReleaseExempt(r)
          \/ SettleFree(r)
          \/ ReleaseFree(r)
          \/ Age(r)
    \/ RecoverStale
    \/ NewPeriod
    \/ \E new \in Limits : SetLimit(new)

Spec == Init /\ [][Next]_vars

\* The clock runs and the recovery is a scheduled job; nothing is assumed of
\* clients, workers or providers.
Fairness == WF_vars(RecoverStale) /\ \A r \in Request : WF_vars(Age(r))

FairSpec == Spec /\ Fairness

-----------------------------------------------------------------------------
(* Properties.                                                             *)

\* Every variable has its type. That the balance and the reserved amount are
\* naturals is the code's promise that "normal usage must never create a
\* negative balance" (settle_usage_reservation).
TypeOK ==
    /\ wallet \in [balance: Nat, reserved: Nat]
    /\ charge \in [Request -> Charge]
    /\ ledger \in [Keys -> Nat \cup {NoRow}]
    /\ limit \in Limits
    /\ period \in 1 .. MaxPeriods
    /\ pending \in [Caller -> {Idle} \cup [request: Request, seen: Charge]]
    /\ aged \subseteq Request

\* A condition, not a promise: no other transaction has touched a charge
\* between the unlocked read of its creation and the commit. The code does not
\* see to it: it holds when a client has one call per request id in flight.
SnapshotsCurrent ==
    \A c \in Caller :
        pending[c] # Idle => pending[c].seen = charge[pending[c].request]

\* What the wallet has set aside is what its active charges hold: nothing is
\* released twice, leaked, or settled for less than was set aside
\* (create, expand, settle, release and the stale recovery together).
HoldsMatchCharges == wallet.reserved = Held

DebitRows == [r \in Request |->
                IF ledger[DebitKey(r)] = NoRow THEN 0 ELSE ledger[DebitKey(r)]]

\* The append-only ledger explains the balance: each debit has its one row
\* usage-debit:{request_id}, and each row was debited.
LedgerExplainsBalance == wallet.balance + Total(Request, DebitRows) = InitialBalance

\* Whatever creators of one charge race with each other, the ledger never
\* claims a debit the wallet did not make.
LedgerNeverOverstates ==
    wallet.balance + Total(Request, DebitRows) <= InitialBalance

RowMicros(kinds) == [k \in Keys |->
                       IF k[1] \in kinds /\ ledger[k] # NoRow THEN ledger[k] ELSE 0]

\* The reservation and release rows of the ledger add up to what the wallet
\* has set aside: every attempt is given back under a key of its own.
LedgerExplainsHolds ==
    Total(Keys, RowMicros({"reserve", "expand"}))
        = wallet.reserved + Total(Keys, RowMicros({"release"}))

\* The monthly hard limit: a step that makes the month's usage larger leaves
\* it within the limit, whatever reservations, expansions and settlements of
\* other requests it interleaves with, and even if the limit was just lowered
\* below what is used.
LimitHolds == [][Usage' > Usage /\ limit # NoLimit => Usage' <= limit]_vars

\* A closed charge is never opened again and never debited again, by a late
\* settlement, a second release, the stale recovery or a retry of its id.
ClosedIsFinal ==
    [][\A r \in Request :
          charge[r].status \in {"settled", "billing_exempt", "free"}
              => charge'[r] = charge[r]]_vars

\* No reservation outlives the scheduled recovery: whatever clients and
\* providers do, a reserved charge is eventually settled or released.
ReservationsEnd == \A r \in Request : Active(r) ~> ~Active(r)

=============================================================================
