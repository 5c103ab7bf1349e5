--------------------------- MODULE FundingWindows ---------------------------
(* What a paid request is charged to when its user has more than a wallet: *)
(* the weekly windows of a prepaid subscription and the weekly credit of a *)
(* tester. backend/app/billing/subscriptions.py, tester_credit.py, and the *)
(* branches of service.py that call them.                                  *)
(*                                                                         *)
(* A reservation takes tester credit if it can, else subscription credit,  *)
(* else, with the user's consent, the wallet; it never mixes them.         *)
(*                                                                         *)
(* The transactions lock the rows they change, but active_window loads the *)
(* windows of an entitlement before it locks the one of this week, and the *)
(* ORM keeps the values it loaded. What it then adds to is the old value.  *)
(* So a reservation from a subscription reads and commits in two actions,  *)
(* and settlements and releases, which do not lock the entitlement, may    *)
(* come in between.                                                        *)
(*                                                                         *)
(* The charge itself is read first and without a lock, in an action of its *)
(* own, and never again: status and attempt are decided from that read, and*)
(* the flush writes the columns that differ from it.                       *)
EXTENDS Totals

CONSTANTS
    Request,          \* request ids of one user, all in one credit bucket
    Caller,           \* transactions that create reservations
    Overlap,          \* may two of them be about one request id?
    Holds,            \* micros a reservation or an expansion may ask for
    Costs,            \* micros a provider may report
    Expansions,       \* expansion ids
    Weeks,            \* bound: windows of the entitlement, and tester weeks
    FullAllowance,    \* allowance of a complete window
    LastAllowance,    \* allowance of the last window, prorated
    TesterAllowances, \* values the configuration gives the tester's week
    InitialBalance,   \* the wallet before the first request
    MaxAttempts,      \* bound: reservations of one request id
    MaxHold,          \* bound: micros one charge may come to hold
    NoRow,            \* "no row"
    Idle              \* "no transaction has read this"

ASSUME FundingSets    == /\ IsFiniteSet(Request)
                         /\ IsFiniteSet(Expansions)
                         /\ Holds \subseteq Nat \ {0}
                         /\ Costs \subseteq Nat
                         /\ TesterAllowances \subseteq Nat
ASSUME FundingAmounts == /\ FullAllowance \in Nat
                         /\ LastAllowance \in 0 .. FullAllowance
                         /\ InitialBalance \in Nat
ASSUME FundingBounds  == /\ Weeks \in Nat \ {0}
                         /\ MaxAttempts \in Nat \ {0}
                         /\ MaxHold \in Nat
                         /\ Overlap \in BOOLEAN

VARIABLES
    charge,    \* UsageCharge, by request id
    wallet,    \* WalletAccount: balance_micros and reserved_micros
    window,    \* SubscriptionUsageWindow, by window_index
    tester,    \* WeeklyTesterCreditWindow, by week
    marker,    \* the window in the ledger row of each expansion id
    covered,   \* attempts with a row subscription-reserve:{r}:attempt:{n}
    week,      \* the window of the entitlement that is current
    testerNow, \* the calendar week that is current
    allowance, \* the configured tester allowance; 0 switches the credit off
    pending,   \* the charge each creation has read, before it locks anything
    reader,    \* the transaction that holds the entitlement's lock
    mixed      \* history: windows whose charges hold more than they took

vars == <<charge, wallet, window, tester, marker, covered, week, testerNow,
          allowance, pending, reader, mixed>>

\* What only time and the configuration change.
clocks == <<week, testerNow, allowance>>

-----------------------------------------------------------------------------
Week == 1 .. Weeks

Sources == {"none", "wallet", "subscription", "tester_credit"}

\* window and tester are the foreign keys, 0 for null; attempt and expanded are
\* reservation_attempt and tester_expansions of the pricing snapshot.
Charge == [status: {"none", "reserved", "released", "settled"},
           source: Sources, window: 0 .. Weeks, tester: 0 .. Weeks,
           attempt: Nat, reserved: Nat, debited: Nat,
           expanded: SUBSET Expansions]

NoCharge == [status |-> "none", source |-> "none", window |-> 0, tester |-> 0,
             attempt |-> 0, reserved |-> 0, debited |-> 0, expanded |-> {}]

\* The window or the week that its source makes a charge belong to.
At(row) == CASE row.source = "subscription"  -> row.window
             [] row.source = "tester_credit" -> row.tester
             [] OTHER                        -> 0

\* weekly_allowance_micros, prorated for a partial last window.
Allowance(w) == IF w = Weeks THEN LastAllowance ELSE FullAllowance

Greater(m, n) == IF m > n THEN m ELSE n

\* The check constraints ck_subscription_window_not_overdrawn and
\* ck_tester_credit_nonnegative: a transaction that breaks one rolls back.
WindowCheck(w, row) == row.reserved + row.consumed <= Allowance(w)
TesterCheck(row)    == row.reserved + row.consumed <= row.allowance

Active(r) == charge[r].status = "reserved"

\* Of the transactions that read the windows, an expansion has locked its
\* charge, and a creation the tester's week that did not suffice.
LocksCharge(r) == reader # Idle /\ reader.kind = "expand" /\ reader.request = r
LocksTester(w) == reader # Idle /\ reader.tester = w

\* What a transaction keeps from its read of the windows to its commit.
Reader == [request: Request, by: Caller \cup {NoRow}, kind: {"create", "expand"},
           id: Expansions \cup {NoRow}, micros: Holds, at: Week,
           seen: [reserved: Nat, consumed: Nat], tester: Week \cup {NoRow}]

-----------------------------------------------------------------------------
Init ==
    /\ charge = [r \in Request |-> NoCharge]
    /\ wallet = [balance |-> InitialBalance, reserved |-> 0]
    /\ window = [w \in Week |-> [reserved |-> 0, consumed |-> 0]]
    /\ tester = [w \in Week |-> [allowance |-> 0, reserved |-> 0, consumed |-> 0]]
    /\ marker = [r \in Request |-> [e \in Expansions |-> NoRow]]
    /\ covered = [r \in Request |-> {}]
    /\ week = 1
    /\ testerNow = 1
    /\ allowance \in TesterAllowances
    /\ pending = [c \in Caller |-> Idle]
    /\ reader = Idle
    /\ mixed = {}

-----------------------------------------------------------------------------
(* create_usage_reservation                                                *)

\* A charge that is open or settled is returned as it is.
BeginCreate(c, r) ==
    /\ pending[c] = Idle
    /\ charge[r].status \in {"none", "released"}
    /\ charge[r].attempt < MaxAttempts
    /\ Overlap \/ \A d \in Caller : pending[d] # Idle => pending[d].request # r
    /\ pending' = [pending EXCEPT ![c] = [request |-> r, seen |-> charge[r]]]
    /\ UNCHANGED <<charge, wallet, window, tester, marker, covered, clocks,
                   reader, mixed>>

\* The creation of c has gone on to the windows.
Reading(c) == reader # Idle /\ reader.by = c

\* The row to insert, or the released one as it is written over.
Reserved(seen, source, at, micros) ==
    [seen EXCEPT !.status = "reserved", !.source = source,
                 !.window = IF source = "subscription" THEN at ELSE 0,
                 !.tester = IF source = "tester_credit" THEN at ELSE 0,
                 !.attempt = @ + 1, !.reserved = micros, !.expanded = {}]

\* The ORM writes the columns that differ from the values it has loaded. The
\* pricing snapshot, with attempt and expanded, always does.
Flush(row, seen, new) ==
    [f \in DOMAIN row |-> IF new[f] # seen[f] \/ f = "expanded" THEN new[f]
                          ELSE row[f]]

\* The end of a creation. It waits for the lock of an expansion, and of two
\* inserts the second breaks the unique request_id.
Write(c, source, at, micros) ==
    LET r    == pending[c].request
        seen == pending[c].seen
    IN  /\ seen.status = "none" => charge[r].status = "none"
        /\ ~LocksCharge(r)
        /\ charge' = [charge EXCEPT ![r] =
                        Flush(@, seen, Reserved(seen, source, at, micros))]
        /\ pending' = [pending EXCEPT ![c] = Idle]

\* _locked_window: the row of this week with the effective allowance.
TesterRow ==
    LET row == tester[testerNow]
    IN  [row EXCEPT !.allowance = Greater(allowance, row.reserved + row.consumed)]

TesterLeft(row) == row.allowance - row.reserved - row.consumed

\* reserve_tester_credit finds the whole amount.
ReserveTester(c, micros) ==
    /\ pending[c] # Idle /\ ~Reading(c)
    /\ ~LocksTester(testerNow)
    /\ allowance > 0
    /\ TesterLeft(TesterRow) >= micros
    /\ tester' = [tester EXCEPT ![testerNow] =
                    [TesterRow EXCEPT !.reserved = @ + micros]]
    /\ Write(c, "tester_credit", testerNow, micros)
    /\ UNCHANGED <<wallet, window, marker, covered, clocks, reader, mixed>>

\* Or it finds too little.
TesterFallsShort(micros) ==
    /\ allowance > 0
    /\ ~LocksTester(testerNow)
    /\ TesterLeft(TesterRow) < micros

\* Then, or if the request is not eligible, active_window locks the live
\* entitlement and reads its windows.
BeginReserve(c, micros, eligible) ==
    /\ pending[c] # Idle
    /\ reader = Idle
    /\ week \in Week
    /\ eligible => TesterFallsShort(micros)
    /\ reader' = [request |-> pending[c].request, by |-> c, kind |-> "create",
                  id |-> NoRow, micros |-> micros, at |-> week,
                  seen |-> window[week],
                  tester |-> IF eligible THEN testerNow ELSE NoRow]
    /\ UNCHANGED <<charge, wallet, window, tester, marker, covered, clocks,
                   pending, mixed>>

WalletFunds(micros) ==
    /\ wallet.balance - wallet.reserved >= micros
    /\ wallet.balance > 0

\* The wallet branch, which UsageReservation has in detail.
ReserveWallet(c, micros) ==
    /\ WalletFunds(micros)
    /\ wallet' = [wallet EXCEPT !.reserved = @ + micros]
    /\ Write(c, "wallet", 0, micros)

\* The effective allowance of a tester's week is written with the rest.
EffectiveAllowance(w) ==
    [tester EXCEPT ![w].allowance =
        Greater(allowance, tester[w].reserved + tester[w].consumed)]

\* No entitlement is live.
ReserveUnsubscribed(c, micros, eligible) ==
    /\ pending[c] # Idle /\ ~Reading(c)
    /\ week \notin Week
    /\ eligible => TesterFallsShort(micros)
    /\ tester' = IF eligible THEN EffectiveAllowance(testerNow) ELSE tester
    /\ ReserveWallet(c, micros)
    /\ UNCHANGED <<window, marker, covered, clocks, reader, mixed>>

\* What the transaction takes to be left, from the values it has loaded.
SeenLeft(x) == Max0(Allowance(x.at) - x.seen.reserved - x.seen.consumed)
Covers(x)   == SeenLeft(x) >= x.micros

\* Mutant: the reservation of the request replaces those of the others.
TakenAlone(x) == [window[x.at] EXCEPT !.reserved = x.micros]

\* It writes the reserved micros it has loaded plus its own; the consumed
\* micros, which it does not change, stay at what the row holds.
Taken(x) == [window[x.at] EXCEPT !.reserved = x.seen.reserved + x.micros]

KeepTesterRow ==
    tester' = IF reader.tester = NoRow THEN tester
              ELSE EffectiveAllowance(reader.tester)

\* The attempt in the key of the ledger row that marks a reservation.
NextAttempt(c) == pending[c].seen.attempt + 1

\* The window covers the request; or it does not, but there is a row for this
\* attempt, of another call: it is taken for the mark of a success.
CommitSubscription ==
    /\ reader # Idle /\ reader.kind = "create"
    /\ LET r == reader.request
           n == NextAttempt(reader.by)
       IN  /\ Covers(reader) \/ n \in covered[r]
           /\ Covers(reader) => WindowCheck(reader.at, Taken(reader))
           /\ window' = IF Covers(reader) THEN [window EXCEPT ![reader.at] = Taken(reader)]
                        ELSE window
           /\ covered' = [covered EXCEPT ![r] = @ \cup {n}]
    /\ Write(reader.by, "subscription", reader.at, reader.micros)
    /\ KeepTesterRow
    /\ reader' = Idle
    /\ UNCHANGED <<wallet, marker, clocks, mixed>>

\* It does not, and the wallet pays, if payg_fallback_enabled. The preference
\* is an input: nothing else reads it, and the user may set it at any time.
CommitFallback ==
    /\ reader # Idle /\ reader.kind = "create"
    /\ ~Covers(reader)
    /\ NextAttempt(reader.by) \notin covered[reader.request]
    /\ ReserveWallet(reader.by, reader.micros)
    /\ KeepTesterRow
    /\ reader' = Idle
    /\ UNCHANGED <<window, marker, covered, clocks, mixed>>

\* SubscriptionWeeklyLimitError, InsufficientCreditError, a failed check or a
\* failure anywhere in the transaction: it rolls back.
AbortCreate(c) ==
    /\ pending[c] # Idle
    /\ pending' = [pending EXCEPT ![c] = Idle]
    /\ reader' = IF Reading(c) THEN Idle ELSE reader
    /\ UNCHANGED <<charge, wallet, window, tester, marker, covered, clocks, mixed>>

-----------------------------------------------------------------------------
(* expand_usage_reservation, in the source of the charge.                  *)

\* The windows are read again, and of them the one that is current NOW.
BeginExpand(r, micros, e) ==
    /\ Active(r) /\ charge[r].source = "subscription"
    /\ charge[r].reserved + micros <= MaxHold
    /\ reader = Idle
    /\ week \in Week
    /\ reader' = [request |-> r, by |-> NoRow, kind |-> "expand", id |-> e,
                  micros |-> micros, at |-> week, seen |-> window[week],
                  tester |-> NoRow]
    /\ UNCHANGED <<charge, wallet, window, tester, marker, covered, clocks,
                   pending, mixed>>

Grow(r, micros) == charge' = [charge EXCEPT ![r].reserved = @ + micros]

\* The window covers it. The charge keeps its own window.
CommitExpand ==
    /\ reader # Idle /\ reader.kind = "expand"
    /\ Covers(reader)
    /\ WindowCheck(reader.at, Taken(reader))
    /\ LET r == reader.request
       IN  /\ window' = [window EXCEPT ![reader.at] = Taken(reader)]
           /\ Grow(r, reader.micros)
           /\ marker' = [marker EXCEPT ![r][reader.id] =
                            IF @ = NoRow THEN reader.at ELSE @]
           /\ mixed' = IF reader.at = charge[r].window THEN mixed
                       ELSE mixed \cup {reader.at, charge[r].window}
    /\ reader' = Idle
    /\ UNCHANGED <<wallet, tester, covered, clocks, pending>>

\* It does not, but there is a row under this expansion id: the row is taken
\* for the mark of a success, and the charge grows.
CommitExpandByMarker ==
    /\ reader # Idle /\ reader.kind = "expand"
    /\ ~Covers(reader)
    /\ marker[reader.request][reader.id] # NoRow
    /\ Grow(reader.request, reader.micros)
    /\ mixed' = mixed \cup {charge[reader.request].window}
    /\ reader' = Idle
    /\ UNCHANGED <<wallet, window, tester, marker, covered, clocks, pending>>

\* SubscriptionWeeklyLimitError, a failed check or a failure: it rolls back.
AbortExpand ==
    /\ reader # Idle /\ reader.kind = "expand"
    /\ reader' = Idle
    /\ UNCHANGED <<charge, wallet, window, tester, marker, covered, clocks,
                   pending, mixed>>

\* expand_tester_credit: once for each expansion id, in the charge's own week.
ExpandTester(r, micros, e) ==
    LET w   == charge[r].tester
        row == tester[w]
    IN  /\ Active(r) /\ charge[r].source = "tester_credit" /\ w \in Week
        /\ ~LocksTester(w)
        /\ e \notin charge[r].expanded
        /\ TesterLeft(row) >= micros
        /\ tester' = [tester EXCEPT ![w].reserved = @ + micros]
        /\ charge' = [charge EXCEPT ![r].reserved = @ + micros,
                                    ![r].expanded = @ \cup {e}]
        /\ UNCHANGED <<wallet, window, marker, covered, clocks, pending, reader,
                       mixed>>

-----------------------------------------------------------------------------
(* settle_usage_reservation                                                *)

\* Mutant: the charge records what it had reserved as its debit.
SettledAsReserved(r, micros) ==
    charge' = [charge EXCEPT ![r].status = "settled", ![r].reserved = 0,
                             ![r].debited = charge[r].reserved]

Settled(r, micros) ==
    charge' = [charge EXCEPT ![r].status = "settled", ![r].reserved = 0,
                             ![r].debited = micros]

\* settle_subscription_window: the platform absorbs what was not reserved.
DebitedWindow(r, cost) == Lesser(cost, charge[r].reserved)

\* Mutant: a settlement leaves the reservation in the window.
GiveBackNothing(row, micros) == row

\* Mutant: a window may be given back more than it holds.
GiveBackAll(row, micros) == [row EXCEPT !.reserved = @ - micros]

\* max(0, reserved_micros - reserved)
GiveBack(row, micros) == [row EXCEPT !.reserved = Max0(@ - micros)]

\* Without the window of its source a charge cannot be settled: it raises.
SettleSubscription(r, cost) ==
    LET w     == charge[r].window
        debit == DebitedWindow(r, cost)
        row   == [GiveBack(window[w], charge[r].reserved)
                    EXCEPT !.consumed = @ + debit]
    IN  /\ Active(r) /\ charge[r].source = "subscription" /\ w \in Week
        /\ ~LocksCharge(r)
        /\ WindowCheck(w, row)
        /\ window' = [window EXCEPT ![w] = row]
        /\ Settled(r, debit)
        /\ UNCHANGED <<wallet, tester, marker, covered, clocks, pending, reader,
                       mixed>>

\* settle_tester_credit: an overage may take what the week has not consumed,
\* and others may have reserved it.
DebitedTester(r, cost) ==
    LET row == tester[charge[r].tester]
    IN  Lesser(cost, Max0(row.allowance - row.consumed))

SettleTester(r, cost) ==
    LET w     == charge[r].tester
        debit == DebitedTester(r, cost)
        row   == [GiveBack(tester[w], charge[r].reserved)
                    EXCEPT !.consumed = @ + debit]
    IN  /\ Active(r) /\ charge[r].source = "tester_credit" /\ w \in Week
        /\ ~LocksTester(w)
        /\ TesterCheck(row)
        /\ tester' = [tester EXCEPT ![w] = row]
        /\ Settled(r, debit)
        /\ UNCHANGED <<wallet, window, marker, covered, clocks, pending, reader,
                       mixed>>

SettleWallet(r, cost) ==
    LET debit == Lesser(cost, wallet.balance)
    IN  /\ Active(r) /\ charge[r].source = "wallet"
        /\ wallet' = [balance  |-> wallet.balance - debit,
                      reserved |-> Max0(wallet.reserved - charge[r].reserved)]
        /\ Settled(r, debit)
        /\ UNCHANGED <<window, tester, marker, covered, clocks, pending, reader,
                       mixed>>

-----------------------------------------------------------------------------
(* release_usage_reservation: the charge keeps its reserved_micros.        *)

Released(r) == charge' = [charge EXCEPT ![r].status = "released"]

\* Without a window there is nothing to give back.
ReleaseSubscription(r) ==
    /\ Active(r) /\ charge[r].source = "subscription"
    /\ ~LocksCharge(r)
    /\ window' = [w \in Week |-> IF w = charge[r].window
                                 THEN GiveBack(window[w], charge[r].reserved)
                                 ELSE window[w]]
    /\ Released(r)
    /\ UNCHANGED <<wallet, tester, marker, covered, clocks, pending, reader, mixed>>

ReleaseTester(r) ==
    /\ Active(r) /\ charge[r].source = "tester_credit" /\ charge[r].tester \in Week
    /\ ~LocksTester(charge[r].tester)
    /\ tester' = [tester EXCEPT ![charge[r].tester] = GiveBack(@, charge[r].reserved)]
    /\ Released(r)
    /\ UNCHANGED <<wallet, window, marker, covered, clocks, pending, reader, mixed>>

ReleaseWallet(r) ==
    /\ Active(r) /\ charge[r].source = "wallet"
    /\ wallet' = [wallet EXCEPT !.reserved = Max0(@ - charge[r].reserved)]
    /\ Released(r)
    /\ UNCHANGED <<window, tester, marker, covered, clocks, pending, reader, mixed>>

-----------------------------------------------------------------------------
(* Time, the configuration and the user.                                   *)

\* The next window begins; after the last one no entitlement is live.
NextWindow ==
    /\ week \in Week
    /\ week' = week + 1
    /\ UNCHANGED <<charge, wallet, window, tester, marker, covered, testerNow,
                   allowance, pending, reader, mixed>>

NextTesterWeek ==
    /\ testerNow < Weeks
    /\ testerNow' = testerNow + 1
    /\ UNCHANGED <<charge, wallet, window, tester, marker, covered, week,
                   allowance, pending, reader, mixed>>

\* A deployment with another SWICO_WEEKLY_TESTER_ALLOWANCE_RUPEES.
Configure(a) ==
    /\ a # allowance
    /\ reader # Idle => reader.tester = NoRow
    /\ allowance' = a
    /\ UNCHANGED <<charge, wallet, window, tester, marker, covered, week,
                   testerNow, pending, reader, mixed>>

-----------------------------------------------------------------------------
Create(c) ==
    \/ \E r \in Request : BeginCreate(c, r)
    \/ \E micros \in Holds :
        \/ ReserveTester(c, micros)
        \/ \E eligible \in BOOLEAN :
            BeginReserve(c, micros, eligible) \/ ReserveUnsubscribed(c, micros, eligible)
    \/ AbortCreate(c)

Expand(r) == \E micros \in Holds, e \in Expansions :
    BeginExpand(r, micros, e) \/ ExpandTester(r, micros, e)

Commit == CommitSubscription \/ CommitFallback \/ CommitExpand
            \/ CommitExpandByMarker \/ AbortExpand

Settle(r) == \E cost \in Costs :
    SettleSubscription(r, cost) \/ SettleTester(r, cost) \/ SettleWallet(r, cost)

Release(r) == ReleaseSubscription(r) \/ ReleaseTester(r) \/ ReleaseWallet(r)

Next ==
    \/ \E c \in Caller : Create(c)
    \/ \E r \in Request : Expand(r) \/ Settle(r) \/ Release(r)
    \/ Commit
    \/ NextWindow \/ NextTesterWeek
    \/ \E a \in TesterAllowances : Configure(a)

Spec == Init /\ [][Next]_vars

-----------------------------------------------------------------------------
(* Properties                                                              *)

Held(source, at) ==
    Total({r \in Request : Active(r) /\ charge[r].source = source
                                     /\ At(charge[r]) = at},
          [r \in Request |-> charge[r].reserved])

\* Types of the rows; no amount is negative.
TypeOK ==
    /\ charge \in [Request -> Charge]
    /\ wallet \in [balance: Nat, reserved: Nat]
    /\ window \in [Week -> [reserved: Nat, consumed: Nat]]
    /\ tester \in [Week -> [allowance: Nat, reserved: Nat, consumed: Nat]]
    /\ marker \in [Request -> [Expansions -> Week \cup {NoRow}]]
    /\ covered \in [Request -> SUBSET Nat]
    /\ week \in 1 .. Weeks + 1 /\ testerNow \in Week
    /\ allowance \in TesterAllowances
    /\ pending \in [Caller -> {Idle} \cup [request: Request, seen: Charge]]
    /\ reader \in Reader \cup {Idle}
    /\ mixed \subseteq 0 .. Weeks

\* A condition, not a promise: no other transaction has touched a charge
\* since a creation read it without a lock. The code does not see to it: it
\* holds when a client has one call per request id in flight.
SnapshotsCurrent ==
    \A c \in Caller :
        pending[c] # Idle => pending[c].seen = charge[pending[c].request]

\* Whatever is open is backed by its source: the wallet and the tester's
\* week hold exactly what their open charges reserved, and a subscription
\* window no less than that (create, expand, settle and release of service.py,
\* while no two creations of one request id overlap).
HoldsAreBacked ==
    /\ wallet.reserved = Held("wallet", 0)
    /\ \A w \in Week :
        /\ tester[w].reserved = Held("tester_credit", w)
        /\ w \notin mixed => window[w].reserved >= Held("subscription", w)

\* A subscriber's week never costs more than its allowance: what is consumed
\* and what open charges may still consume fit in, also where a reservation
\* was computed from values that a settlement had changed (active_window).
WeekFits ==
    \A w \in Week \ mixed :
        window[w].consumed + Held("subscription", w) <= Allowance(w)

Paid(source, at) ==
    Total({r \in Request : charge[r].status = "settled" /\ At(charge[r]) = at
                             /\ charge[r].source = source},
          [r \in Request |-> charge[r].debited])

\* Settled charges explain what every source has paid, also the windows that
\* a reservation wrote from old values (settle_usage_reservation, while no two
\* creations of one request id overlap).
UseIsExplained ==
    /\ wallet.balance + Paid("wallet", 0) = InitialBalance
    /\ \A w \in Week : /\ window[w].consumed = Paid("subscription", w)
                       /\ tester[w].consumed = Paid("tester_credit", w)
=============================================================================
