------------------------ MODULE FundingWindows_proofs ------------------------
(* What FundingWindows guarantees for every set of requests and of          *)
(* transactions, any number of weeks, all allowances, amounts and bounds.   *)
EXTENDS FundingWindows, Totals_proofs

USE FundingSets, FundingAmounts, FundingBounds

-----------------------------------------------------------------------------
(* The invariants. The rows keep RowsInv whatever the transactions have    *)
(* read; the sums keep SumsInv while what creations have read is current.  *)

\* Since a transaction read its window, others have only given back to it; a
\* creation still has the charge it read, and an expansion its lock.
ReaderIsCurrent ==
    reader # Idle =>
        /\ window[reader.at].reserved <= reader.seen.reserved
        /\ reader.kind = "create" => /\ reader.by \in Caller
                                     /\ pending[reader.by] # Idle
                                     /\ pending[reader.by].request = reader.request
        /\ reader.kind = "expand" => /\ Active(reader.request)
                                     /\ charge[reader.request].source = "subscription"

\* What a creation has read was not open and not settled.
SeenAreClosed ==
    \A c \in Caller :
        pending[c] # Idle => pending[c].seen.status \in {"none", "released"}

\* ck_subscription_window_not_overdrawn
WindowsFit == \A w \in Week : WindowCheck(w, window[w])

RowsInv == TypeOK /\ ReaderIsCurrent /\ SeenAreClosed /\ WindowsFit

\* The ledger rows of a request mark reservations that it has made.
CoveredBelow == \A r \in Request : covered[r] \subseteq 1 .. charge[r].attempt

SumsInv == CoveredBelow /\ HoldsAreBacked /\ UseIsExplained

-----------------------------------------------------------------------------
(* Sums over the charges.                                                  *)

\* What each charge holds in a source, and what it has paid to it.
HeldMicros(source, at) ==
    [r \in Request |-> IF Active(r) /\ charge[r].source = source /\ At(charge[r]) = at
                       THEN charge[r].reserved ELSE 0]

PaidMicros(source, at) ==
    [r \in Request |-> IF /\ charge[r].status = "settled" /\ At(charge[r]) = at
                          /\ charge[r].source = source
                       THEN charge[r].debited ELSE 0]

\* The sum over some rows is the sum over all, with 0 for the others.
LEMMA TotalOver ==
  ASSUME NEW rows, NEW part, part \subseteq rows, NEW f, NEW g,
         \A i \in part : g[i] = f[i],
         \A i \in rows \ part : g[i] = 0
  PROVE  Total(part, f) = Total(rows, g)
<1>1. \A i \in rows \ part : 1 .. g[i] = {} OBVIOUS
<1>2. Micros(part, f) = Micros(rows, g) BY <1>1 DEF Micros
<1> QED BY <1>2 DEF Total

\* A sum over the charges of a source is one over all charges.
LEMMA HeldIsTotal ==
  ASSUME NEW source, NEW at
  PROVE  /\ Held(source, at) = Total(Request, HeldMicros(source, at))
         /\ Held(source, at)' = Total(Request, HeldMicros(source, at)')
<1> DEFINE rows  == {r \in Request : Active(r) /\ charge[r].source = source
                                               /\ At(charge[r]) = at}
           micros == [r \in Request |-> charge[r].reserved]
           part  == HeldMicros(source, at)
<1>1. Total(rows, micros) = Total(Request, part)
  <2>1. rows \subseteq Request OBVIOUS
  <2>2. \A r \in rows : part[r] = micros[r] BY DEF HeldMicros
  <2>3. \A r \in Request \ rows : part[r] = 0 BY DEF HeldMicros
  <2> HIDE DEF rows, micros, part
  <2> QED BY <2>1, <2>2, <2>3, TotalOver
<1>2. Total(rows', micros') = Total(Request, part')
  <2>1. rows' \subseteq Request OBVIOUS
  <2>2. \A r \in rows' : part'[r] = micros'[r] BY DEF HeldMicros
  <2>3. \A r \in Request \ rows' : part'[r] = 0 BY DEF HeldMicros
  <2> HIDE DEF rows, micros, part
  <2> QED BY <2>1, <2>2, <2>3, TotalOver
<1> QED BY <1>1, <1>2 DEF Held, Total

\* What the settled charges have paid to a source is a sum over all charges.
LEMMA PaidIsTotal ==
  ASSUME NEW source, NEW at
  PROVE  /\ Paid(source, at) = Total(Request, PaidMicros(source, at))
         /\ Paid(source, at)' = Total(Request, PaidMicros(source, at)')
<1> DEFINE rows  == {r \in Request : charge[r].status = "settled" /\ At(charge[r]) = at
                                       /\ charge[r].source = source}
           micros == [r \in Request |-> charge[r].debited]
           part  == PaidMicros(source, at)
<1>1. Total(rows, micros) = Total(Request, part)
  <2>1. rows \subseteq Request OBVIOUS
  <2>2. \A r \in rows : part[r] = micros[r] BY DEF PaidMicros
  <2>3. \A r \in Request \ rows : part[r] = 0 BY DEF PaidMicros
  <2> HIDE DEF rows, micros, part
  <2> QED BY <2>1, <2>2, <2>3, TotalOver
<1>2. Total(rows', micros') = Total(Request, part')
  <2>1. rows' \subseteq Request OBVIOUS
  <2>2. \A r \in rows' : part'[r] = micros'[r] BY DEF PaidMicros
  <2>3. \A r \in Request \ rows' : part'[r] = 0 BY DEF PaidMicros
  <2> HIDE DEF rows, micros, part
  <2> QED BY <2>1, <2>2, <2>3, TotalOver
<1> QED BY <1>1, <1>2 DEF Paid, Total

\* A step that touches one charge changes a sum by that charge's change.
LEMMA HeldChange ==
  ASSUME TypeOK, TypeOK', NEW r \in Request, NEW source, NEW at,
         \A s \in Request \ {r} : charge'[s] = charge[s]
  PROVE  /\ Held(source, at) \in Nat /\ Held(source, at)' \in Nat
         /\ HeldMicros(source, at)[r] <= Held(source, at)
         /\ Held(source, at)' = Held(source, at) - HeldMicros(source, at)[r]
                                  + HeldMicros(source, at)'[r]
<1> DEFINE f == HeldMicros(source, at)
           g == HeldMicros(source, at)'
<1>1. \A s \in Request : f[s] \in Nat BY DEF TypeOK, Charge, HeldMicros
<1>2. \A s \in Request : g[s] \in Nat BY DEF TypeOK, Charge, HeldMicros
<1>3. \A s \in Request \ {r} : g[s] = f[s] BY DEF HeldMicros, Active
<1>4. Held(source, at) = Total(Request, f) BY HeldIsTotal
<1>5. Held(source, at)' = Total(Request, g) BY HeldIsTotal
<1> HIDE DEF f, g
<1>6. Total(Request, g) = Total(Request, f) - f[r] + g[r] BY <1>1, <1>2, <1>3, TotalChange
<1>7. Total(Request, f) \in Nat /\ Total(Request, g) \in Nat BY <1>1, <1>2, TotalType
<1>8. f[r] <= Total(Request, f)
  <2>1. Total({r}, f) = f[r] BY <1>1, TotalOne
  <2>2. Total({r}, f) <= Total(Request, f) BY <1>1, TotalPart
  <2> QED BY <2>1, <2>2
<1> QED BY <1>4, <1>5, <1>6, <1>7, <1>8 DEF f, g

\* If one charge changes, what a source was paid changes by what it paid.
LEMMA PaidChange ==
  ASSUME TypeOK, TypeOK', NEW r \in Request, NEW source, NEW at,
         \A s \in Request \ {r} : charge'[s] = charge[s]
  PROVE  /\ Paid(source, at) \in Nat
         /\ Paid(source, at)' = Paid(source, at) - PaidMicros(source, at)[r]
                                  + PaidMicros(source, at)'[r]
<1> DEFINE f == PaidMicros(source, at)
           g == PaidMicros(source, at)'
<1>1. \A s \in Request : f[s] \in Nat BY DEF TypeOK, Charge, PaidMicros
<1>2. \A s \in Request : g[s] \in Nat BY DEF TypeOK, Charge, PaidMicros
<1>3. \A s \in Request \ {r} : g[s] = f[s] BY DEF PaidMicros
<1>4. Paid(source, at) = Total(Request, f) BY PaidIsTotal
<1>5. Paid(source, at)' = Total(Request, g) BY PaidIsTotal
<1> HIDE DEF f, g
<1>6. Total(Request, g) = Total(Request, f) - f[r] + g[r] BY <1>1, <1>2, <1>3, TotalChange
<1>7. Total(Request, f) \in Nat BY <1>1, TotalType
<1> QED BY <1>4, <1>5, <1>6, <1>7 DEF f, g

-----------------------------------------------------------------------------
(* The rows: what a creation writes.                                       *)

\* A flush writes columns of one charge over those of another.
LEMMA FlushType ==
  ASSUME NEW row \in Charge, NEW seen \in Charge, NEW new \in Charge
  PROVE  Flush(row, seen, new) \in Charge
BY DEF Flush, Charge

\* Over the charge that was read, it writes the new one.
LEMMA FlushFresh ==
  ASSUME NEW row \in Charge, NEW new \in Charge
  PROVE  Flush(row, row, new) = new
BY DEF Flush, Charge

\* A reservation's row is a charge, in the week that its source gives it.
LEMMA ReservedType ==
  ASSUME NEW seen \in Charge, NEW source \in Sources, NEW at \in 0 .. Weeks,
         NEW micros \in Nat
  PROVE  LET new == Reserved(seen, source, at, micros)
         IN  /\ new \in Charge
             /\ new.status = "reserved" /\ new.source = source
             /\ new.attempt = seen.attempt + 1 /\ new.reserved = micros
             /\ source \in {"subscription", "tester_credit"} \/ at = 0 => At(new) = at
<1> DEFINE new == Reserved(seen, source, at, micros)
           w1  == IF source = "subscription" THEN at ELSE 0
           w2  == IF source = "tester_credit" THEN at ELSE 0
<1>1. w1 \in 0 .. Weeks /\ w2 \in 0 .. Weeks OBVIOUS
<1>2. /\ new.status = "reserved" /\ new.source = source /\ new.window = w1
      /\ new.tester = w2 /\ new.attempt = seen.attempt + 1 /\ new.reserved = micros
  BY DEF Reserved, Charge
<1>3. new \in Charge
  <2> DEFINE row1 == [seen EXCEPT !.status = "reserved"]
             row2 == [row1 EXCEPT !.source = source]
             row3 == [row2 EXCEPT !.window = w1]
             row4 == [row3 EXCEPT !.tester = w2]
             row5 == [row4 EXCEPT !.attempt = seen.attempt + 1]
             row6 == [row5 EXCEPT !.reserved = micros]
             row7 == [row6 EXCEPT !.expanded = {}]
  <2>1. row1 \in Charge /\ seen.attempt \in Nat BY DEF Charge
  <2>2. new = row7 BY DEF Reserved, Charge
  <2> HIDE DEF new, w1, w2, row1
  <2>3. row2 \in Charge BY <2>1 DEF Charge
  <2> HIDE DEF row2
  <2>4. row3 \in Charge BY <1>1, <2>3 DEF Charge
  <2> HIDE DEF row3
  <2>5. row4 \in Charge BY <1>1, <2>4 DEF Charge
  <2> HIDE DEF row4
  <2>6. row5 \in Charge BY <2>1, <2>5 DEF Charge
  <2> HIDE DEF row5
  <2>7. row6 \in Charge BY <2>6 DEF Charge
  <2> HIDE DEF row6
  <2>8. row7 \in Charge BY <2>7 DEF Charge
  <2> QED BY <2>2, <2>8
<1>4. source \in {"subscription", "tester_credit"} \/ at = 0 => At(new) = at
  <2> HIDE DEF new
  <2> QED BY <1>2 DEF At, Sources
<1> QED BY <1>2, <1>3, <1>4

\* What a creation has read is a charge of its request.
LEMMA PendingType ==
  ASSUME TypeOK, NEW c \in Caller, pending[c] # Idle
  PROVE  pending[c].request \in Request /\ pending[c].seen \in Charge
<1>1. pending[c] \in [request: Request, seen: Charge] BY DEF TypeOK
<1> QED BY <1>1

\* A creation writes a charge, and over the one it has read that of its
\* reservation.
LEMMA WriteType ==
  ASSUME TypeOK, NEW c \in Caller, pending[c] # Idle,
         NEW source \in Sources, NEW at \in 0 .. Weeks, NEW micros \in Nat,
         Write(c, source, at, micros)
  PROVE  LET r    == pending[c].request
             seen == pending[c].seen
         IN  /\ r \in Request /\ seen \in Charge
             /\ charge' \in [Request -> Charge]
             /\ pending' \in [Caller -> {Idle} \cup [request: Request, seen: Charge]]
             /\ \A s \in Request \ {r} : charge'[s] = charge[s]
             /\ seen = charge[r] => charge'[r] = Reserved(seen, source, at, micros)
<1> DEFINE r    == pending[c].request
           seen == pending[c].seen
           new  == Reserved(seen, source, at, micros)
           row  == Flush(charge[r], seen, new)
<1>1. r \in Request /\ seen \in Charge BY PendingType
<1>2. new \in Charge BY <1>1, ReservedType
<1>3. charge \in [Request -> Charge] BY DEF TypeOK
<1>4. charge' = [charge EXCEPT ![r] = row] BY DEF Write
<1>5. pending' = [pending EXCEPT ![c] = Idle] BY DEF Write
<1>6. pending' \in [Caller -> {Idle} \cup [request: Request, seen: Charge]]
  BY <1>5 DEF TypeOK
<1> HIDE DEF r, seen, new
<1>7. row \in Charge BY <1>1, <1>2, <1>3, FlushType
<1>8. seen = charge[r] => row = new BY <1>1, <1>2, <1>3, FlushFresh
<1> HIDE DEF row
<1> QED BY <1>1, <1>3, <1>4, <1>6, <1>7, <1>8 DEF r, seen, new

\* A charge that has grown is a charge in the same week.
LEMMA GrownType ==
  ASSUME TypeOK, NEW r \in Request, NEW micros \in Nat, Grow(r, micros)
  PROVE  /\ charge' \in [Request -> Charge]
         /\ \A s \in Request : /\ charge'[s].status = charge[s].status
                              /\ charge'[s].source = charge[s].source
                              /\ charge'[s].attempt = charge[s].attempt
                              /\ At(charge'[s]) = At(charge[s])
         /\ \A s \in Request \ {r} : charge'[s] = charge[s]
         /\ charge'[r].reserved = charge[r].reserved + micros
<1> DEFINE row == [charge[r] EXCEPT !.reserved = @ + micros]
<1>1. charge[r] \in Charge BY DEF TypeOK
<1>2. row \in Charge BY <1>1 DEF Charge
<1>3. /\ row.status = charge[r].status /\ row.source = charge[r].source
      /\ row.window = charge[r].window /\ row.tester = charge[r].tester
      /\ row.attempt = charge[r].attempt
      /\ row.reserved = charge[r].reserved + micros
  BY <1>1 DEF Charge
<1>4. charge' = [charge EXCEPT ![r] = row] BY DEF Grow
<1> HIDE DEF row
<1>5. At(row) = At(charge[r]) BY <1>3 DEF At
<1> QED BY <1>2, <1>3, <1>4, <1>5 DEF TypeOK

\* max(0, ...) gives back at most what is there.
LEMMA GiveBackType ==
  ASSUME NEW row \in [reserved: Nat, consumed: Nat], NEW micros \in Nat
  PROVE  /\ GiveBack(row, micros) \in [reserved: Nat, consumed: Nat]
         /\ GiveBack(row, micros).consumed = row.consumed
         /\ GiveBack(row, micros).reserved = Max0(row.reserved - micros)
BY DEF GiveBack, Max0

\* A tester's week keeps its allowance when a hold is given back.
LEMMA GiveBackTesterType ==
  ASSUME NEW row \in [allowance: Nat, reserved: Nat, consumed: Nat], NEW micros \in Nat
  PROVE  /\ GiveBack(row, micros) \in [allowance: Nat, reserved: Nat, consumed: Nat]
         /\ GiveBack(row, micros).allowance = row.allowance
         /\ GiveBack(row, micros).consumed = row.consumed
         /\ GiveBack(row, micros).reserved = Max0(row.reserved - micros)
BY DEF GiveBack, Max0

\* The tester's row with its effective allowance.
LEMMA TesterRowType ==
  ASSUME TypeOK
  PROVE  /\ TesterRow \in [allowance: Nat, reserved: Nat, consumed: Nat]
         /\ TesterRow.reserved = tester[testerNow].reserved
         /\ TesterRow.consumed = tester[testerNow].consumed
BY DEF TypeOK, TesterRow, Greater

\* Its other writers keep the micros.
LEMMA EffectiveType ==
  ASSUME TypeOK, NEW a \in Week
  PROVE  LET rows == EffectiveAllowance(a)
         IN  /\ rows \in [Week -> [allowance: Nat, reserved: Nat, consumed: Nat]]
             /\ \A w \in Week : /\ rows[w].reserved = tester[w].reserved
                                /\ rows[w].consumed = tester[w].consumed
<1> DEFINE more == Greater(allowance, tester[a].reserved + tester[a].consumed)
           row  == [tester[a] EXCEPT !.allowance = more]
<1>1. tester \in [Week -> [allowance: Nat, reserved: Nat, consumed: Nat]]
  BY DEF TypeOK
<1>2. more \in Nat BY <1>1 DEF TypeOK, Greater
<1>3. EffectiveAllowance(a) = [tester EXCEPT ![a] = row]
  BY DEF EffectiveAllowance
<1> HIDE DEF more
<1>4. /\ row \in [allowance: Nat, reserved: Nat, consumed: Nat]
      /\ row.reserved = tester[a].reserved /\ row.consumed = tester[a].consumed
  BY <1>1, <1>2
<1> HIDE DEF row
<1> QED BY <1>1, <1>3, <1>4

\* So do the commits of a creation.
LEMMA KeepTesterRowType ==
  ASSUME TypeOK, reader # Idle, KeepTesterRow
  PROVE  /\ tester' \in [Week -> [allowance: Nat, reserved: Nat, consumed: Nat]]
         /\ \A w \in Week : /\ tester'[w].reserved = tester[w].reserved
                            /\ tester'[w].consumed = tester[w].consumed
<1>1. reader.tester \in Week \cup {NoRow} BY DEF TypeOK, Reader
<1>2. CASE reader.tester = NoRow BY <1>2 DEF KeepTesterRow, TypeOK
<1>3. CASE reader.tester # NoRow
  <2>1. tester' = EffectiveAllowance(reader.tester) BY <1>3 DEF KeepTesterRow
  <2> QED BY <1>1, <1>3, <2>1, EffectiveType
<1> QED BY <1>2, <1>3

\* A settlement closes a charge; a release does too, and keeps the amounts.
LEMMA SettledType ==
  ASSUME TypeOK, NEW r \in Request, NEW debit \in Nat, Settled(r, debit)
  PROVE  /\ charge' \in [Request -> Charge]
         /\ \A s \in Request \ {r} : charge'[s] = charge[s]
         /\ charge'[r].status = "settled" /\ charge'[r].debited = debit
         /\ charge'[r].source = charge[r].source /\ At(charge'[r]) = At(charge[r])
         /\ charge'[r].attempt = charge[r].attempt
<1> DEFINE row == [charge[r] EXCEPT !.status = "settled", !.reserved = 0, !.debited = debit]
<1>1. charge[r] \in Charge BY DEF TypeOK
<1>2. row \in Charge BY <1>1 DEF Charge
<1>3. /\ row.status = "settled" /\ row.debited = debit
      /\ row.source = charge[r].source /\ row.attempt = charge[r].attempt
      /\ row.window = charge[r].window /\ row.tester = charge[r].tester
  BY <1>1 DEF Charge
<1>4. charge' = [charge EXCEPT ![r] = row] BY DEF Settled, TypeOK
<1> HIDE DEF row
<1>5. At(row) = At(charge[r]) BY <1>3 DEF At
<1> QED BY <1>2, <1>3, <1>4, <1>5 DEF TypeOK

\* A release closes one charge, which keeps its source and its week.
LEMMA ReleasedType ==
  ASSUME TypeOK, NEW r \in Request, Released(r)
  PROVE  /\ charge' \in [Request -> Charge]
         /\ \A s \in Request \ {r} : charge'[s] = charge[s]
         /\ charge'[r].status = "released"
         /\ charge'[r].source = charge[r].source /\ At(charge'[r]) = At(charge[r])
         /\ charge'[r].attempt = charge[r].attempt
<1> DEFINE row == [charge[r] EXCEPT !.status = "released"]
<1>1. charge[r] \in Charge BY DEF TypeOK
<1>2. row \in Charge BY <1>1 DEF Charge
<1>3. /\ row.status = "released"
      /\ row.source = charge[r].source /\ row.attempt = charge[r].attempt
      /\ row.window = charge[r].window /\ row.tester = charge[r].tester
  BY <1>1 DEF Charge
<1>4. charge' = [charge EXCEPT ![r] = row] BY DEF Released
<1> HIDE DEF row
<1>5. At(row) = At(charge[r]) BY <1>3 DEF At
<1> QED BY <1>2, <1>3, <1>4, <1>5 DEF TypeOK

-----------------------------------------------------------------------------
(* The rows: type correctness of each action.                              *)

\* create_usage_reservation, but for its commits, keeps the types.
LEMMA CreateTypeOK == ASSUME TypeOK, NEW c \in Caller, Create(c) PROVE TypeOK'
<1>1. ASSUME NEW r \in Request, BeginCreate(c, r) PROVE TypeOK'
  <2> DEFINE new == [request |-> r, seen |-> charge[r]]
  <2>1. new \in [request: Request, seen: Charge] BY DEF TypeOK
  <2>2. pending' = [pending EXCEPT ![c] = new] BY <1>1 DEF BeginCreate
  <2> HIDE DEF new
  <2> QED BY <1>1, <2>1, <2>2 DEF BeginCreate, TypeOK, clocks
<1>2. ASSUME NEW micros \in Holds, ReserveTester(c, micros) PROVE TypeOK'
  <2> DEFINE row == [TesterRow EXCEPT !.reserved = @ + micros]
  <2>1. testerNow \in Week /\ testerNow \in 0 .. Weeks /\ micros \in Nat
    BY DEF TypeOK, Week
  <2>2. row \in [allowance: Nat, reserved: Nat, consumed: Nat] BY <2>1, TesterRowType
  <2>3. tester' = [tester EXCEPT ![testerNow] = row] BY <1>2 DEF ReserveTester
  <2> HIDE DEF row
  <2>4. tester' \in [Week -> [allowance: Nat, reserved: Nat, consumed: Nat]]
    BY <2>2, <2>3 DEF TypeOK
  <2>5. pending[c] # Idle /\ Write(c, "tester_credit", testerNow, micros)
    BY <1>2 DEF ReserveTester
  <2>6. /\ charge' \in [Request -> Charge]
        /\ pending' \in [Caller -> {Idle} \cup [request: Request, seen: Charge]]
    BY <2>1, <2>5, WriteType DEF Sources
  <2> QED BY <1>2, <2>4, <2>6 DEF ReserveTester, TypeOK, clocks
<1>3. ASSUME NEW micros \in Holds, NEW eligible \in BOOLEAN,
             BeginReserve(c, micros, eligible)
      PROVE  TypeOK'
  <2>1. pending[c].request \in Request BY <1>3, PendingType DEF BeginReserve
  <2>2. window[week] \in [reserved: Nat, consumed: Nat] BY <1>3 DEF BeginReserve, TypeOK
  <2>3. reader' \in Reader BY <1>3, <2>1, <2>2 DEF BeginReserve, Reader, TypeOK
  <2> QED BY <1>3, <2>3 DEF BeginReserve, TypeOK, clocks
<1>4. ASSUME NEW micros \in Holds, NEW eligible \in BOOLEAN,
             ReserveUnsubscribed(c, micros, eligible)
      PROVE  TypeOK'
  <2>1. micros \in Nat /\ testerNow \in Week BY DEF TypeOK
  <2>2. /\ pending[c] # Idle /\ Write(c, "wallet", 0, micros)
        /\ wallet' = [wallet EXCEPT !.reserved = @ + micros]
        /\ tester' = IF eligible THEN EffectiveAllowance(testerNow) ELSE tester
    BY <1>4 DEF ReserveUnsubscribed, ReserveWallet
  <2>3. wallet' \in [balance: Nat, reserved: Nat] BY <2>1, <2>2 DEF TypeOK
  <2>4. tester' \in [Week -> [allowance: Nat, reserved: Nat, consumed: Nat]]
    <3>1. tester \in [Week -> [allowance: Nat, reserved: Nat, consumed: Nat]]
      BY DEF TypeOK
    <3> QED BY <2>1, <2>2, <3>1, EffectiveType
  <2>5. /\ charge' \in [Request -> Charge]
        /\ pending' \in [Caller -> {Idle} \cup [request: Request, seen: Charge]]
    BY <2>1, <2>2, WriteType DEF Sources
  <2> QED BY <1>4, <2>3, <2>4, <2>5 DEF ReserveUnsubscribed, TypeOK, clocks
<1>5. CASE AbortCreate(c) BY <1>5 DEF AbortCreate, TypeOK, clocks
<1> QED BY <1>1, <1>2, <1>3, <1>4, <1>5 DEF Create

\* expand_usage_reservation does, but for its commits.
LEMMA ExpandTypeOK == ASSUME TypeOK, NEW r \in Request, Expand(r) PROVE TypeOK'
<1>1. ASSUME NEW micros \in Holds, NEW e \in Expansions, BeginExpand(r, micros, e)
      PROVE  TypeOK'
  <2>1. window[week] \in [reserved: Nat, consumed: Nat] BY <1>1 DEF BeginExpand, TypeOK
  <2>2. reader' \in Reader BY <1>1, <2>1 DEF BeginExpand, Reader, TypeOK
  <2> QED BY <1>1, <2>2 DEF BeginExpand, TypeOK, clocks
<1>2. ASSUME NEW micros \in Holds, NEW e \in Expansions, ExpandTester(r, micros, e)
      PROVE  TypeOK'
  <2> DEFINE new == [charge[r] EXCEPT !.reserved = @ + micros, !.expanded = @ \cup {e}]
             w   == charge[r].tester
             row == [tester[w] EXCEPT !.reserved = @ + micros]
  <2>1. w \in Week BY <1>2 DEF ExpandTester
  <2>2. charge[r] \in Charge /\ tester[w] \in [allowance: Nat, reserved: Nat, consumed: Nat]
    BY <2>1 DEF TypeOK
  <2>3. new \in Charge
    <3> DEFINE more == [charge[r] EXCEPT !.reserved = @ + micros]
    <3>1. more \in Charge /\ more.expanded = charge[r].expanded BY <2>2 DEF Charge
    <3> HIDE DEF more
    <3>2. [more EXCEPT !.expanded = @ \cup {e}] \in Charge BY <3>1 DEF Charge
    <3> QED BY <3>1, <3>2 DEF more
  <2>4. row \in [allowance: Nat, reserved: Nat, consumed: Nat] BY <2>2
  <2>5. charge' = [charge EXCEPT ![r] = new] BY <1>2 DEF ExpandTester, TypeOK
  <2>6. tester' = [tester EXCEPT ![w] = row] BY <1>2 DEF ExpandTester
  <2> HIDE DEF new, w, row
  <2>7. charge' \in [Request -> Charge] BY <2>3, <2>5 DEF TypeOK
  <2>8. tester' \in [Week -> [allowance: Nat, reserved: Nat, consumed: Nat]]
    BY <2>4, <2>6 DEF TypeOK
  <2> QED BY <1>2, <2>7, <2>8 DEF ExpandTester, TypeOK, clocks
<1> QED BY <1>1, <1>2 DEF Expand

\* What the transaction writes that has read the windows.
LEMMA ReaderType ==
  ASSUME TypeOK, reader # Idle
  PROVE  /\ reader.request \in Request /\ reader.micros \in Nat /\ reader.at \in Week
         /\ reader.kind \in {"create", "expand"}
         /\ reader.seen.reserved \in Nat
         /\ Taken(reader) \in [reserved: Nat, consumed: Nat]
         /\ Taken(reader).consumed = window[reader.at].consumed
         /\ Taken(reader).reserved = reader.seen.reserved + reader.micros
<1>1. reader \in Reader BY DEF TypeOK
<1>2. /\ reader.request \in Request /\ reader.micros \in Nat /\ reader.at \in Week
      /\ reader.kind \in {"create", "expand"} /\ reader.seen.reserved \in Nat
  BY <1>1 DEF Reader
<1>3. window[reader.at] \in [reserved: Nat, consumed: Nat] BY <1>2 DEF TypeOK
<1> QED BY <1>2, <1>3 DEF Taken

\* The commits keep the types.
LEMMA CommitTypeOK == ASSUME TypeOK, ReaderIsCurrent, Commit PROVE TypeOK'
<1>1. reader # Idle /\ reader' = Idle
  BY DEF Commit, CommitSubscription, CommitFallback, CommitExpand,
         CommitExpandByMarker, AbortExpand
<1> DEFINE r == reader.request
           c == reader.by
<1>2. /\ r \in Request /\ reader.micros \in Nat /\ reader.at \in Week
      /\ reader.at \in 0 .. Weeks
      /\ Taken(reader) \in [reserved: Nat, consumed: Nat]
  BY <1>1, ReaderType DEF Week
<1>3. window \in [Week -> [reserved: Nat, consumed: Nat]] BY DEF TypeOK
<1>4. CASE CommitSubscription
  <2>1. c \in Caller /\ pending[c] # Idle
    BY <1>1, <1>4 DEF CommitSubscription, ReaderIsCurrent
  <2>2. Write(c, "subscription", reader.at, reader.micros) BY <1>4 DEF CommitSubscription
  <2>3. /\ charge' \in [Request -> Charge]
        /\ pending' \in [Caller -> {Idle} \cup [request: Request, seen: Charge]]
    BY <1>2, <2>1, <2>2, WriteType DEF Sources
  <2>4. window' \in [Week -> [reserved: Nat, consumed: Nat]]
    <3>1. \/ window' = window
          \/ window' = [window EXCEPT ![reader.at] = Taken(reader)]
      BY <1>4 DEF CommitSubscription
    <3> QED BY <1>2, <1>3, <3>1
  <2>5. covered' \in [Request -> SUBSET Nat]
    <3> DEFINE n == NextAttempt(c)
    <3>1. pending[c].seen \in Charge BY <2>1, PendingType
    <3>2. n \in Nat BY <3>1 DEF NextAttempt, Charge
    <3>3. covered' = [covered EXCEPT ![r] = @ \cup {n}] BY <1>4 DEF CommitSubscription
    <3> HIDE DEF n
    <3> QED BY <3>2, <3>3 DEF TypeOK
  <2>6. tester' \in [Week -> [allowance: Nat, reserved: Nat, consumed: Nat]]
    BY <1>1, <1>4, KeepTesterRowType DEF CommitSubscription
  <2> QED BY <1>1, <1>4, <2>3, <2>4, <2>5, <2>6 DEF CommitSubscription, TypeOK, clocks
<1>5. CASE CommitFallback
  <2>1. c \in Caller /\ pending[c] # Idle
    BY <1>1, <1>5 DEF CommitFallback, ReaderIsCurrent
  <2>2. /\ Write(c, "wallet", 0, reader.micros)
        /\ wallet' = [wallet EXCEPT !.reserved = @ + reader.micros]
    BY <1>5 DEF CommitFallback, ReserveWallet
  <2>3. /\ charge' \in [Request -> Charge]
        /\ pending' \in [Caller -> {Idle} \cup [request: Request, seen: Charge]]
    BY <1>2, <2>1, <2>2, WriteType DEF Sources
  <2>4. wallet' \in [balance: Nat, reserved: Nat] BY <1>2, <2>2 DEF TypeOK
  <2>5. tester' \in [Week -> [allowance: Nat, reserved: Nat, consumed: Nat]]
    BY <1>1, <1>5, KeepTesterRowType DEF CommitFallback
  <2> QED BY <1>1, <1>5, <2>3, <2>4, <2>5 DEF CommitFallback, TypeOK, clocks
<1>6. CASE CommitExpand \/ CommitExpandByMarker
  <2>1. Grow(r, reader.micros) BY <1>6 DEF CommitExpand, CommitExpandByMarker
  <2>2. charge' \in [Request -> Charge] BY <1>2, <2>1, GrownType
  <2>3. window' \in [Week -> [reserved: Nat, consumed: Nat]]
    <3>1. \/ window' = window
          \/ window' = [window EXCEPT ![reader.at] = Taken(reader)]
      BY <1>6 DEF CommitExpand, CommitExpandByMarker
    <3> QED BY <1>2, <1>3, <3>1
  <2>4. marker' \in [Request -> [Expansions -> Week \cup {NoRow}]]
    <3>1. marker \in [Request -> [Expansions -> Week \cup {NoRow}]] BY DEF TypeOK
    <3>2. marker[r] \in [Expansions -> Week \cup {NoRow}] BY <1>2, <3>1
    <3> DEFINE row == [marker[r] EXCEPT ![reader.id] =
                          IF @ = NoRow THEN reader.at ELSE @]
    <3>3. row \in [Expansions -> Week \cup {NoRow}] BY <1>2, <3>2
    <3>4. [marker EXCEPT ![r] = row] \in [Request -> [Expansions -> Week \cup {NoRow}]]
      BY <3>1, <3>3
    <3>5. marker' = marker \/ marker' = [marker EXCEPT ![r] = row]
      BY <1>6 DEF CommitExpand, CommitExpandByMarker
    <3> HIDE DEF row
    <3> QED BY <3>1, <3>4, <3>5
  <2>5. mixed' \subseteq 0 .. Weeks
    <3>1. mixed \subseteq 0 .. Weeks BY DEF TypeOK
    <3>2. charge[r].window \in 0 .. Weeks BY <1>2 DEF TypeOK, Charge
    <3> QED BY <1>2, <1>6, <3>1, <3>2 DEF CommitExpand, CommitExpandByMarker
  <2> QED BY <1>1, <1>6, <2>2, <2>3, <2>4, <2>5
          DEF CommitExpand, CommitExpandByMarker, TypeOK, clocks
<1>7. CASE AbortExpand BY <1>1, <1>7 DEF AbortExpand, TypeOK, clocks
<1> QED BY <1>4, <1>5, <1>6, <1>7 DEF Commit

\* settle_usage_reservation keeps them.
LEMMA SettleTypeOK ==
  ASSUME TypeOK, NEW r \in Request, NEW cost \in Costs,
         \/ SettleSubscription(r, cost)
         \/ SettleTester(r, cost)
         \/ SettleWallet(r, cost)
  PROVE  TypeOK' /\ Active(r)
<1>1. charge[r] \in Charge /\ charge[r].reserved \in Nat BY DEF TypeOK, Charge
<1>2. CASE SettleSubscription(r, cost)
  <2> DEFINE w     == charge[r].window
             debit == DebitedWindow(r, cost)
             given == GiveBack(window[w], charge[r].reserved)
             row   == [given EXCEPT !.consumed = @ + debit]
  <2>1. w \in Week BY <1>2 DEF SettleSubscription
  <2>2. window[w] \in [reserved: Nat, consumed: Nat] BY <2>1 DEF TypeOK
  <2>3. debit \in Nat BY <1>1 DEF DebitedWindow, Lesser
  <2>4. given \in [reserved: Nat, consumed: Nat] BY <1>1, <2>2, GiveBackType
  <2>5. window' = [window EXCEPT ![w] = row] BY <1>2 DEF SettleSubscription
  <2>6. Settled(r, debit) BY <1>2 DEF SettleSubscription
  <2> HIDE DEF given, debit
  <2>7. row \in [reserved: Nat, consumed: Nat] BY <2>3, <2>4
  <2>8. window' \in [Week -> [reserved: Nat, consumed: Nat]] BY <2>5, <2>7 DEF TypeOK
  <2>9. charge' \in [Request -> Charge] BY <2>3, <2>6, SettledType
  <2> QED BY <1>2, <2>8, <2>9 DEF SettleSubscription, TypeOK, clocks
<1>3. CASE SettleTester(r, cost)
  <2> DEFINE w     == charge[r].tester
             debit == DebitedTester(r, cost)
             given == GiveBack(tester[w], charge[r].reserved)
             row   == [given EXCEPT !.consumed = @ + debit]
  <2>1. w \in Week BY <1>3 DEF SettleTester
  <2>2. tester[w] \in [allowance: Nat, reserved: Nat, consumed: Nat] BY <2>1 DEF TypeOK
  <2>3. debit \in Nat BY <2>2 DEF DebitedTester, Lesser, Max0
  <2>4. given \in [allowance: Nat, reserved: Nat, consumed: Nat]
    BY <1>1, <2>2, GiveBackTesterType
  <2>5. tester' = [tester EXCEPT ![w] = row] BY <1>3 DEF SettleTester
  <2>6. Settled(r, debit) BY <1>3 DEF SettleTester
  <2> HIDE DEF given, debit
  <2>7. row \in [allowance: Nat, reserved: Nat, consumed: Nat] BY <2>3, <2>4
  <2>8. tester' \in [Week -> [allowance: Nat, reserved: Nat, consumed: Nat]]
    BY <2>5, <2>7 DEF TypeOK
  <2>9. charge' \in [Request -> Charge] BY <2>3, <2>6, SettledType
  <2> QED BY <1>3, <2>8, <2>9 DEF SettleTester, TypeOK, clocks
<1>4. CASE SettleWallet(r, cost)
  <2> DEFINE debit == Lesser(cost, wallet.balance)
  <2>1. wallet \in [balance: Nat, reserved: Nat] BY DEF TypeOK
  <2>2. debit \in Nat /\ debit <= wallet.balance BY <2>1 DEF Lesser
  <2>3. Settled(r, debit) BY <1>4 DEF SettleWallet
  <2>4. wallet' = [balance  |-> wallet.balance - debit,
                   reserved |-> Max0(wallet.reserved - charge[r].reserved)]
    BY <1>4 DEF SettleWallet
  <2> HIDE DEF debit
  <2>5. wallet' \in [balance: Nat, reserved: Nat] BY <1>1, <2>1, <2>2, <2>4 DEF Max0
  <2>6. charge' \in [Request -> Charge] BY <2>2, <2>3, SettledType
  <2> QED BY <1>4, <2>5, <2>6 DEF SettleWallet, TypeOK, clocks
<1> QED BY <1>2, <1>3, <1>4

\* release_usage_reservation does.
LEMMA ReleaseTypeOK ==
  ASSUME TypeOK, NEW r \in Request, Release(r)
  PROVE  TypeOK' /\ Active(r)
<1>1. charge[r] \in Charge /\ charge[r].reserved \in Nat BY DEF TypeOK, Charge
<1>2. Active(r) /\ Released(r)
  BY DEF Release, ReleaseSubscription, ReleaseTester, ReleaseWallet
<1>3. charge' \in [Request -> Charge] BY <1>2, ReleasedType
<1>4. CASE ReleaseSubscription(r)
  <2>1. \A w \in Week : window'[w] \in [reserved: Nat, consumed: Nat]
    BY <1>1, <1>4, GiveBackType DEF ReleaseSubscription, TypeOK
  <2>2. window' \in [Week -> [reserved: Nat, consumed: Nat]]
    BY <1>4, <2>1 DEF ReleaseSubscription
  <2> QED BY <1>2, <1>3, <1>4, <2>2 DEF ReleaseSubscription, TypeOK, clocks
<1>5. CASE ReleaseTester(r)
  <2> DEFINE w   == charge[r].tester
             row == GiveBack(tester[w], charge[r].reserved)
  <2>1. w \in Week BY <1>5 DEF ReleaseTester
  <2>2. row \in [allowance: Nat, reserved: Nat, consumed: Nat]
    BY <1>1, <2>1, GiveBackTesterType DEF TypeOK
  <2>3. tester' = [tester EXCEPT ![w] = row] BY <1>5 DEF ReleaseTester, GiveBack
  <2> HIDE DEF row
  <2>4. tester' \in [Week -> [allowance: Nat, reserved: Nat, consumed: Nat]]
    BY <2>2, <2>3 DEF TypeOK
  <2> QED BY <1>2, <1>3, <1>5, <2>4 DEF ReleaseTester, TypeOK, clocks
<1>6. CASE ReleaseWallet(r)
  <2>1. wallet' \in [balance: Nat, reserved: Nat]
    BY <1>1, <1>6 DEF ReleaseWallet, TypeOK, Max0
  <2> QED BY <1>2, <1>3, <1>6, <2>1 DEF ReleaseWallet, TypeOK, clocks
<1> QED BY <1>2, <1>4, <1>5, <1>6 DEF Release

\* Time and the configuration do.
LEMMA ClockTypeOK ==
  ASSUME TypeOK, \/ NextWindow \/ NextTesterWeek
                 \/ \E a \in TesterAllowances : Configure(a)
                 \/ UNCHANGED vars
  PROVE  TypeOK'
<1>1. week \in 1 .. Weeks + 1 /\ testerNow \in Week /\ allowance \in TesterAllowances
  BY DEF TypeOK
<1>2. /\ week' \in 1 .. Weeks + 1 /\ testerNow' \in Week
      /\ allowance' \in TesterAllowances
  <2>1. CASE NextWindow BY <1>1, <2>1 DEF NextWindow, Week
  <2>2. CASE NextTesterWeek BY <1>1, <2>2 DEF NextTesterWeek, Week
  <2>3. CASE \E a \in TesterAllowances : Configure(a) BY <1>1, <2>3 DEF Configure
  <2>4. CASE UNCHANGED vars BY <1>1, <2>4 DEF vars, clocks
  <2> QED BY <2>1, <2>2, <2>3, <2>4
<1>3. UNCHANGED <<charge, wallet, window, tester, marker, covered, pending, reader, mixed>>
  BY DEF NextWindow, NextTesterWeek, Configure, vars
<1> QED BY <1>2, <1>3 DEF TypeOK

-----------------------------------------------------------------------------
(* The rows, whatever the creations have read.                             *)

\* A transaction that has read the windows goes on undisturbed: others only
\* give back to them, and leave the charge of an expansion alone.
LEMMA ReaderKept ==
  ASSUME TypeOK, ReaderIsCurrent, reader' = reader,
         \A w \in Week : /\ window'[w].reserved \in Nat
                         /\ window'[w].reserved <= window[w].reserved,
         \A r \in Request : LocksCharge(r) => /\ charge'[r].status = charge[r].status
                                              /\ charge'[r].source = charge[r].source,
         reader # Idle /\ reader.kind = "create" => pending'[reader.by] = pending[reader.by]
  PROVE  ReaderIsCurrent'
<1> SUFFICES ASSUME reader # Idle PROVE ReaderIsCurrent' BY DEF ReaderIsCurrent
<1>1. /\ reader.request \in Request /\ reader.at \in Week
      /\ reader.kind \in {"create", "expand"} /\ reader.seen.reserved \in Nat
  BY ReaderType
<1>2. window[reader.at].reserved \in Nat BY <1>1 DEF TypeOK
<1>3. window'[reader.at].reserved <= reader.seen.reserved
  BY <1>1, <1>2 DEF ReaderIsCurrent
<1>4. reader.kind = "expand" => LocksCharge(reader.request) BY DEF LocksCharge
<1> QED BY <1>1, <1>3, <1>4 DEF ReaderIsCurrent, Active

\* A creation writes a charge that no expansion has locked.
LEMMA WriteKeepsReader ==
  ASSUME TypeOK, ReaderIsCurrent, UNCHANGED <<window, reader>>,
         NEW c \in Caller, pending[c] # Idle, ~Reading(c),
         NEW source \in Sources, NEW at \in 0 .. Weeks, NEW micros \in Nat,
         Write(c, source, at, micros)
  PROVE  ReaderIsCurrent'
<1> DEFINE r == pending[c].request
<1>1. ~LocksCharge(r) BY DEF Write
<1>2. \A s \in Request \ {r} : charge'[s] = charge[s] BY WriteType
<1>3. pending' = [pending EXCEPT ![c] = Idle] BY DEF Write
<1>4. reader # Idle /\ reader.kind = "create" => pending'[reader.by] = pending[reader.by]
  BY <1>3 DEF Reading, ReaderIsCurrent, TypeOK
<1>5. \A w \in Week : window[w].reserved \in Nat BY DEF TypeOK
<1> QED BY <1>1, <1>2, <1>4, <1>5, ReaderKept

\* The other steps of a creation disturb no transaction.
LEMMA CreateReader ==
  ASSUME TypeOK, ReaderIsCurrent, NEW c \in Caller, Create(c)
  PROVE  ReaderIsCurrent' /\ window' = window
<1>1. window' = window
  BY DEF Create, BeginCreate, ReserveTester, BeginReserve, ReserveUnsubscribed, AbortCreate
<1>2. \A w \in Week : window[w].reserved \in Nat BY DEF TypeOK
<1>3. ASSUME NEW r \in Request, BeginCreate(c, r) PROVE ReaderIsCurrent'
  <2>1. /\ charge' = charge /\ reader' = reader /\ pending[c] = Idle
        /\ pending' = [pending EXCEPT ![c] = [request |-> r, seen |-> charge[r]]]
    BY <1>3 DEF BeginCreate
  <2>2. reader # Idle /\ reader.kind = "create" => pending'[reader.by] = pending[reader.by]
    BY <2>1 DEF ReaderIsCurrent, TypeOK
  <2> QED BY <1>1, <1>2, <2>1, <2>2, ReaderKept
<1>4. ASSUME NEW micros \in Holds, ReserveTester(c, micros) PROVE ReaderIsCurrent'
  <2>1. testerNow \in 0 .. Weeks /\ micros \in Nat BY DEF TypeOK, Week
  <2> QED BY <1>1, <1>4, <2>1, WriteKeepsReader DEF ReserveTester, Sources
<1>5. ASSUME NEW micros \in Holds, NEW eligible \in BOOLEAN,
             BeginReserve(c, micros, eligible)
      PROVE  ReaderIsCurrent'
  <2>1. week \in Week /\ pending' = pending /\ pending[c] # Idle
    BY <1>5 DEF BeginReserve
  <2>2. /\ reader'.at = week /\ reader'.seen = window[week] /\ reader'.by = c
        /\ reader'.kind = "create" /\ reader'.request = pending[c].request
    BY <1>5 DEF BeginReserve
  <2> QED BY <1>1, <1>2, <2>1, <2>2 DEF ReaderIsCurrent
<1>6. ASSUME NEW micros \in Holds, NEW eligible \in BOOLEAN,
             ReserveUnsubscribed(c, micros, eligible)
      PROVE  ReaderIsCurrent'
  <2>1. micros \in Nat /\ 0 \in 0 .. Weeks OBVIOUS
  <2> QED BY <1>1, <1>6, <2>1, WriteKeepsReader
          DEF ReserveUnsubscribed, ReserveWallet, Sources
<1>7. CASE AbortCreate(c)
  <2>1. CASE Reading(c) BY <1>7, <2>1 DEF AbortCreate, ReaderIsCurrent
  <2>2. CASE ~Reading(c)
    <3>1. /\ charge' = charge /\ reader' = reader
          /\ pending' = [pending EXCEPT ![c] = Idle]
      BY <1>7, <2>2 DEF AbortCreate
    <3>2. reader # Idle /\ reader.kind = "create" => pending'[reader.by] = pending[reader.by]
      BY <2>2, <3>1 DEF Reading, ReaderIsCurrent, TypeOK
    <3> QED BY <1>1, <1>2, <3>1, <3>2, ReaderKept
  <2> QED BY <2>1, <2>2
<1> QED BY <1>1, <1>3, <1>4, <1>5, <1>6, <1>7 DEF Create

\* Nor do those of an expansion.
LEMMA ExpandReader ==
  ASSUME TypeOK, ReaderIsCurrent, NEW r \in Request, Expand(r)
  PROVE  ReaderIsCurrent' /\ window' = window
<1>1. window' = window BY DEF Expand, BeginExpand, ExpandTester
<1>2. \A w \in Week : window[w].reserved \in Nat BY DEF TypeOK
<1>3. ASSUME NEW micros \in Holds, NEW e \in Expansions, BeginExpand(r, micros, e)
      PROVE  ReaderIsCurrent'
  <2>1. week \in Week /\ charge' = charge /\ Active(r) /\ charge[r].source = "subscription"
    BY <1>3 DEF BeginExpand
  <2>2. /\ reader'.at = week /\ reader'.seen = window[week]
        /\ reader'.kind = "expand" /\ reader'.request = r
    BY <1>3 DEF BeginExpand
  <2> QED BY <1>1, <1>2, <2>1, <2>2 DEF ReaderIsCurrent, Active
<1>4. ASSUME NEW micros \in Holds, NEW e \in Expansions, ExpandTester(r, micros, e)
      PROVE  ReaderIsCurrent'
  <2>1. charge' = [charge EXCEPT ![r].reserved = @ + micros, ![r].expanded = @ \cup {e}]
    BY <1>4 DEF ExpandTester
  <2>2. \A s \in Request : /\ charge'[s].status = charge[s].status
                           /\ charge'[s].source = charge[s].source
    BY <2>1 DEF TypeOK, Charge
  <2>3. pending' = pending /\ reader' = reader BY <1>4 DEF ExpandTester
  <2>4. \A w \in Week : /\ window'[w].reserved \in Nat
                        /\ window'[w].reserved <= window[w].reserved
    BY <1>1, <1>2
  <2> QED BY <2>2, <2>3, <2>4, ReaderKept
<1> QED BY <1>1, <1>3, <1>4 DEF Expand

\* The commits end the transaction, within ck_subscription_window_not_overdrawn.
LEMMA CommitFits ==
  ASSUME TypeOK, WindowsFit, Commit
  PROVE  WindowsFit' /\ ReaderIsCurrent'
<1>1. reader # Idle /\ reader' = Idle
  BY DEF Commit, CommitSubscription, CommitFallback, CommitExpand,
         CommitExpandByMarker, AbortExpand
<1>2. reader.at \in Week BY <1>1, ReaderType
<1>3. \/ window' = window
      \/ /\ WindowCheck(reader.at, Taken(reader))
         /\ window' = [window EXCEPT ![reader.at] = Taken(reader)]
  BY DEF Commit, CommitSubscription, CommitFallback, CommitExpand,
         CommitExpandByMarker, AbortExpand
<1> QED BY <1>1, <1>2, <1>3 DEF WindowsFit, WindowCheck, ReaderIsCurrent, TypeOK

\* A settlement and a release leave the charge of an expansion alone, and only
\* give back.
LEMMA CloseKeepsReader ==
  ASSUME TypeOK, ReaderIsCurrent, UNCHANGED <<pending, reader>>,
         NEW r \in Request, charge[r].source = "subscription" => ~LocksCharge(r),
         \A s \in Request \ {r} : charge'[s] = charge[s],
         \A w \in Week : /\ window'[w].reserved \in Nat
                         /\ window'[w].reserved <= window[w].reserved
  PROVE  ReaderIsCurrent'
<1>1. ~LocksCharge(r) BY DEF LocksCharge, ReaderIsCurrent
<1> QED BY <1>1, ReaderKept

\* settle_usage_reservation
LEMMA SettleFits ==
  ASSUME TypeOK, ReaderIsCurrent, WindowsFit, NEW r \in Request, NEW cost \in Costs,
         \/ SettleSubscription(r, cost)
         \/ SettleTester(r, cost)
         \/ SettleWallet(r, cost)
  PROVE  WindowsFit' /\ ReaderIsCurrent'
<1>1. charge[r].reserved \in Nat BY DEF TypeOK, Charge
<1>2. \A s \in Request \ {r} : charge'[s] = charge[s]
  BY DEF SettleSubscription, SettleTester, SettleWallet, Settled, TypeOK
<1>3. pending' = pending /\ reader' = reader
  BY DEF SettleSubscription, SettleTester, SettleWallet
<1>4. window \in [Week -> [reserved: Nat, consumed: Nat]] BY DEF TypeOK
<1>5. CASE SettleSubscription(r, cost)
  <2> DEFINE w     == charge[r].window
             debit == DebitedWindow(r, cost)
             given == GiveBack(window[w], charge[r].reserved)
             row   == [given EXCEPT !.consumed = @ + debit]
  <2>1. w \in Week /\ ~LocksCharge(r) BY <1>5 DEF SettleSubscription
  <2>2. /\ given \in [reserved: Nat, consumed: Nat]
        /\ given.reserved = Max0(window[w].reserved - charge[r].reserved)
    BY <1>1, <1>4, <2>1, GiveBackType
  <2>3. window' = [window EXCEPT ![w] = row] /\ WindowCheck(w, row)
    BY <1>5 DEF SettleSubscription
  <2>4. row.reserved = given.reserved BY <2>2
  <2> HIDE DEF w, given, row
  <2>5. WindowsFit' BY <1>4, <2>1, <2>3 DEF WindowsFit, WindowCheck
  <2>6. \A x \in Week : /\ window'[x].reserved \in Nat
                        /\ window'[x].reserved <= window[x].reserved
    BY <1>1, <1>4, <2>1, <2>2, <2>3, <2>4 DEF Max0
  <2> QED BY <1>2, <1>3, <2>1, <2>5, <2>6, CloseKeepsReader
<1>6. CASE SettleTester(r, cost) \/ SettleWallet(r, cost)
  <2>1. window' = window /\ charge[r].source # "subscription"
    BY <1>6 DEF SettleTester, SettleWallet
  <2>2. \A x \in Week : /\ window'[x].reserved \in Nat
                        /\ window'[x].reserved <= window[x].reserved
    BY <1>4, <2>1
  <2>3. WindowsFit' BY <2>1 DEF WindowsFit, WindowCheck
  <2> QED BY <1>2, <1>3, <2>1, <2>2, <2>3, CloseKeepsReader
<1> QED BY <1>5, <1>6

\* release_usage_reservation
LEMMA ReleaseFits ==
  ASSUME TypeOK, ReaderIsCurrent, WindowsFit, NEW r \in Request, Release(r)
  PROVE  WindowsFit' /\ ReaderIsCurrent'
<1>1. charge[r].reserved \in Nat BY DEF TypeOK, Charge
<1>2. \A s \in Request \ {r} : charge'[s] = charge[s]
  BY DEF Release, ReleaseSubscription, ReleaseTester, ReleaseWallet, Released, TypeOK
<1>3. pending' = pending /\ reader' = reader
  BY DEF Release, ReleaseSubscription, ReleaseTester, ReleaseWallet
<1>4. charge[r].source = "subscription" => ~LocksCharge(r)
  BY DEF Release, ReleaseSubscription, ReleaseTester, ReleaseWallet
<1>5. ASSUME NEW w \in Week
      PROVE  /\ window[w].reserved \in Nat /\ window[w].consumed \in Nat
             /\ window'[w].reserved \in Nat /\ window'[w].reserved <= window[w].reserved
             /\ window'[w].consumed = window[w].consumed
  <2>1. window[w] \in [reserved: Nat, consumed: Nat] BY DEF TypeOK
  <2>2. window'[w] = window[w] \/ window'[w] = GiveBack(window[w], charge[r].reserved)
    BY DEF Release, ReleaseSubscription, ReleaseTester, ReleaseWallet
  <2>3. CASE window'[w] = window[w] BY <2>1, <2>3
  <2>4. CASE window'[w] = GiveBack(window[w], charge[r].reserved)
    <3>1. /\ window'[w].consumed = window[w].consumed
          /\ window'[w].reserved = Max0(window[w].reserved - charge[r].reserved)
      BY <1>1, <2>1, <2>4, GiveBackType
    <3>2. window[w].reserved \in Nat /\ window[w].consumed \in Nat BY <2>1
    <3> QED BY <1>1, <3>1, <3>2 DEF Max0
  <2> QED BY <2>2, <2>3, <2>4
<1>6. WindowsFit'
  <2>1. \A w \in Week : Allowance(w) \in Nat BY DEF Allowance
  <2> QED BY <1>5, <2>1 DEF WindowsFit, WindowCheck, Allowance
<1> QED BY <1>2, <1>3, <1>4, <1>5, <1>6, CloseKeepsReader

\* Time and the configuration touch nothing of it.
LEMMA ClockFits ==
  ASSUME ReaderIsCurrent, WindowsFit,
         UNCHANGED <<charge, window, pending, reader>>
  PROVE  WindowsFit' /\ ReaderIsCurrent'
BY DEF WindowsFit, WindowCheck, ReaderIsCurrent, Active

\* A transaction goes on with what it has read, begins or ends.
LEMMA PendingSteps ==
  ASSUME TypeOK, ReaderIsCurrent, [Next]_vars
  PROVE  \/ UNCHANGED pending
         \/ \E c \in Caller : pending' = [pending EXCEPT ![c] = Idle]
         \/ \E c \in Caller, r \in Request : BeginCreate(c, r)
<1>1. ASSUME NEW c \in Caller, Create(c)
      PROVE  \/ UNCHANGED pending
             \/ pending' = [pending EXCEPT ![c] = Idle]
             \/ \E r \in Request : BeginCreate(c, r)
  BY <1>1 DEF Create, ReserveTester, BeginReserve, ReserveUnsubscribed, ReserveWallet,
              AbortCreate, Write
<1>2. CASE CommitSubscription \/ CommitFallback
  <2>1. reader.by \in Caller /\ pending' = [pending EXCEPT ![reader.by] = Idle]
    BY <1>2 DEF CommitSubscription, CommitFallback, ReserveWallet, Write, ReaderIsCurrent
  <2> QED BY <2>1
<1>3. CASE CommitExpand \/ CommitExpandByMarker \/ AbortExpand
  BY <1>3 DEF CommitExpand, CommitExpandByMarker, AbortExpand
<1>4. ASSUME NEW r \in Request, Expand(r) \/ Settle(r) \/ Release(r)
      PROVE  UNCHANGED pending
  BY <1>4 DEF Expand, BeginExpand, ExpandTester, Settle, SettleSubscription,
              SettleTester, SettleWallet, Release, ReleaseSubscription, ReleaseTester,
              ReleaseWallet
<1>5. CASE \/ NextWindow \/ NextTesterWeek
           \/ \E a \in TesterAllowances : Configure(a)
           \/ UNCHANGED vars
  BY <1>5 DEF NextWindow, NextTesterWeek, Configure, vars
<1> QED BY <1>1, <1>2, <1>3, <1>4, <1>5 DEF Next, Commit

\* It begins with a charge that is not open.
LEMMA SeenClosed ==
  ASSUME TypeOK, ReaderIsCurrent, SeenAreClosed, [Next]_vars
  PROVE  SeenAreClosed'
<1>1. pending \in [Caller -> {Idle} \cup [request: Request, seen: Charge]]
  BY DEF TypeOK
<1>2. ASSUME NEW c \in Caller, NEW r \in Request, BeginCreate(c, r)
      PROVE  SeenAreClosed'
  BY <1>1, <1>2 DEF BeginCreate, SeenAreClosed
<1>3. CASE UNCHANGED pending BY <1>3 DEF SeenAreClosed
<1>4. ASSUME NEW c \in Caller, pending' = [pending EXCEPT ![c] = Idle]
      PROVE  SeenAreClosed'
  BY <1>1, <1>4 DEF SeenAreClosed
<1> QED BY <1>2, <1>3, <1>4, PendingSteps

\* A charge has a source, a week of it or none, and an amount.
LEMMA AtType ==
  ASSUME TypeOK, NEW r \in Request
  PROVE  /\ charge[r].source \in Sources /\ charge[r].reserved \in Nat
         /\ At(charge[r]) \in 0 .. Weeks
<1>1. charge[r] \in Charge BY DEF TypeOK
<1>2. /\ charge[r].source \in Sources /\ charge[r].reserved \in Nat
      /\ charge[r].window \in 0 .. Weeks /\ charge[r].tester \in 0 .. Weeks
  BY <1>1 DEF Charge
<1> QED BY <1>2 DEF At

\* Every step keeps the rows.
LEMMA NextRows == RowsInv /\ [Next]_vars => RowsInv'
<1> SUFFICES ASSUME RowsInv, [Next]_vars PROVE RowsInv' OBVIOUS
<1>1. TypeOK /\ ReaderIsCurrent /\ SeenAreClosed /\ WindowsFit BY DEF RowsInv
<1>2. SeenAreClosed' BY <1>1, SeenClosed
<1>3. TypeOK' /\ WindowsFit' /\ ReaderIsCurrent'
  <2>1. ASSUME window' = window PROVE WindowsFit'
    BY <1>1, <2>1 DEF WindowsFit, WindowCheck
  <2>2. ASSUME NEW c \in Caller, Create(c)
        PROVE  TypeOK' /\ WindowsFit' /\ ReaderIsCurrent'
    BY <1>1, <2>1, <2>2, CreateTypeOK, CreateReader
  <2>3. ASSUME NEW r \in Request, Expand(r)
        PROVE  TypeOK' /\ WindowsFit' /\ ReaderIsCurrent'
    BY <1>1, <2>1, <2>3, ExpandTypeOK, ExpandReader
  <2>4. ASSUME NEW r \in Request, Settle(r)
        PROVE  TypeOK' /\ WindowsFit' /\ ReaderIsCurrent'
    BY <1>1, <2>4, SettleTypeOK, SettleFits DEF Settle
  <2>5. ASSUME NEW r \in Request, Release(r)
        PROVE  TypeOK' /\ WindowsFit' /\ ReaderIsCurrent'
    BY <1>1, <2>5, ReleaseTypeOK, ReleaseFits
  <2>6. CASE Commit BY <1>1, <2>6, CommitTypeOK, CommitFits
  <2>7. CASE \/ NextWindow \/ NextTesterWeek
             \/ \E a \in TesterAllowances : Configure(a)
             \/ UNCHANGED vars
    <3>1. UNCHANGED <<charge, window, pending, reader>>
      BY <2>7 DEF NextWindow, NextTesterWeek, Configure, vars
    <3> QED BY <1>1, <2>7, <3>1, ClockTypeOK, ClockFits
  <2> QED BY <2>2, <2>3, <2>4, <2>5, <2>6, <2>7 DEF Next
<1> QED BY <1>2, <1>3 DEF RowsInv

\* The rows are in order at the start.
LEMMA InitRows == Init => RowsInv
<1> SUFFICES ASSUME Init PROVE RowsInv OBVIOUS
<1>1. NoCharge \in Charge BY DEF NoCharge, Charge, Sources
<1>2. charge \in [Request -> Charge] BY <1>1 DEF Init
<1>3. TypeOK BY <1>2 DEF Init, TypeOK, Week
<1>4. ReaderIsCurrent /\ SeenAreClosed BY DEF Init, ReaderIsCurrent, SeenAreClosed
<1>5. WindowsFit BY DEF Init, WindowsFit, WindowCheck, Allowance
<1> QED BY <1>3, <1>4, <1>5 DEF RowsInv

\* The rows are in order in every reachable state.
LEMMA RowsInvariance == Spec => []RowsInv
BY InitRows, NextRows, PTL DEF Spec

-----------------------------------------------------------------------------
(* What an operation on one charge does to the sums.                       *)

\* The source and the week of a charge.
Own(r, source, at) == charge[r].source = source /\ At(charge[r]) = at

\* A reservation adds its micros to what its source holds.
LEMMA ReserveSums ==
  ASSUME TypeOK, TypeOK', NEW r \in Request,
         charge[r].status \in {"none", "released"}, charge'[r].status = "reserved",
         \A s \in Request \ {r} : charge'[s] = charge[s],
         NEW source, NEW at
  PROVE  /\ Held(source, at) \in Nat /\ Paid(source, at) \in Nat
         /\ Held(source, at)' = Held(source, at)
              + IF Own(r, source, at)' THEN charge'[r].reserved ELSE 0
         /\ Paid(source, at)' = Paid(source, at)
<1>1. HeldMicros(source, at)[r] = 0 BY DEF HeldMicros, Active
<1>2. HeldMicros(source, at)'[r] = IF Own(r, source, at)' THEN charge'[r].reserved ELSE 0
  BY DEF HeldMicros, Active, Own
<1>3. PaidMicros(source, at)[r] = 0 /\ PaidMicros(source, at)'[r] = 0 BY DEF PaidMicros
<1>4. charge'[r].reserved \in Nat BY DEF TypeOK, Charge
<1>5. /\ Held(source, at) \in Nat
      /\ Held(source, at)' = Held(source, at) - HeldMicros(source, at)[r]
                               + HeldMicros(source, at)'[r]
  BY HeldChange
<1>6. /\ Paid(source, at) \in Nat
      /\ Paid(source, at)' = Paid(source, at) - PaidMicros(source, at)[r]
                               + PaidMicros(source, at)'[r]
  BY PaidChange
<1> QED BY <1>1, <1>2, <1>3, <1>4, <1>5, <1>6

\* An expansion adds what the charge has grown by.
LEMMA GrowSums ==
  ASSUME TypeOK, TypeOK', NEW r \in Request, NEW micros \in Nat, Active(r),
         charge'[r].status = charge[r].status, charge'[r].source = charge[r].source,
         At(charge'[r]) = At(charge[r]), charge'[r].reserved = charge[r].reserved + micros,
         \A s \in Request \ {r} : charge'[s] = charge[s],
         NEW source, NEW at
  PROVE  /\ Held(source, at) \in Nat /\ Paid(source, at) \in Nat
         /\ Held(source, at)' = Held(source, at) + IF Own(r, source, at) THEN micros ELSE 0
         /\ Paid(source, at)' = Paid(source, at)
<1>1. HeldMicros(source, at)[r] = IF Own(r, source, at) THEN charge[r].reserved ELSE 0
  BY DEF HeldMicros, Active, Own
<1>2. HeldMicros(source, at)'[r]
        = IF Own(r, source, at) THEN charge[r].reserved + micros ELSE 0
  BY DEF HeldMicros, Active, Own
<1>3. PaidMicros(source, at)[r] = 0 /\ PaidMicros(source, at)'[r] = 0
  BY DEF PaidMicros, Active
<1>4. charge[r].reserved \in Nat BY DEF TypeOK, Charge
<1>5. /\ Held(source, at) \in Nat
      /\ Held(source, at)' = Held(source, at) - HeldMicros(source, at)[r]
                               + HeldMicros(source, at)'[r]
  BY HeldChange
<1>6. /\ Paid(source, at) \in Nat
      /\ Paid(source, at)' = Paid(source, at) - PaidMicros(source, at)[r]
                               + PaidMicros(source, at)'[r]
  BY PaidChange
<1> QED BY <1>1, <1>2, <1>3, <1>4, <1>5, <1>6

\* A settlement gives back what the charge holds and adds what it pays.
LEMMA SettleSums ==
  ASSUME TypeOK, TypeOK', NEW r \in Request, Active(r), charge'[r].status = "settled",
         charge'[r].source = charge[r].source, At(charge'[r]) = At(charge[r]),
         \A s \in Request \ {r} : charge'[s] = charge[s],
         NEW source, NEW at
  PROVE  /\ Held(source, at) \in Nat /\ Paid(source, at) \in Nat
         /\ Own(r, source, at) => charge[r].reserved <= Held(source, at)
         /\ Held(source, at)' = Held(source, at)
              - IF Own(r, source, at) THEN charge[r].reserved ELSE 0
         /\ Paid(source, at)' = Paid(source, at)
              + IF Own(r, source, at) THEN charge'[r].debited ELSE 0
<1>1. HeldMicros(source, at)[r] = IF Own(r, source, at) THEN charge[r].reserved ELSE 0
  BY DEF HeldMicros, Active, Own
<1>2. HeldMicros(source, at)'[r] = 0 BY DEF HeldMicros, Active
<1>3. /\ PaidMicros(source, at)[r] = 0
      /\ PaidMicros(source, at)'[r] = IF Own(r, source, at) THEN charge'[r].debited ELSE 0
  BY DEF PaidMicros, Active, Own
<1>4. charge[r].reserved \in Nat /\ charge'[r].debited \in Nat BY DEF TypeOK, Charge
<1>5. /\ Held(source, at) \in Nat /\ HeldMicros(source, at)[r] <= Held(source, at)
      /\ Held(source, at)' = Held(source, at) - HeldMicros(source, at)[r]
                               + HeldMicros(source, at)'[r]
  BY HeldChange
<1>6. /\ Paid(source, at) \in Nat
      /\ Paid(source, at)' = Paid(source, at) - PaidMicros(source, at)[r]
                               + PaidMicros(source, at)'[r]
  BY PaidChange
<1> QED BY <1>1, <1>2, <1>3, <1>4, <1>5, <1>6

\* A release only gives back.
LEMMA ReleaseSums ==
  ASSUME TypeOK, TypeOK', NEW r \in Request, Active(r), charge'[r].status = "released",
         \A s \in Request \ {r} : charge'[s] = charge[s],
         NEW source, NEW at
  PROVE  /\ Held(source, at) \in Nat /\ Paid(source, at) \in Nat
         /\ Own(r, source, at) => charge[r].reserved <= Held(source, at)
         /\ Held(source, at)' = Held(source, at)
              - IF Own(r, source, at) THEN charge[r].reserved ELSE 0
         /\ Paid(source, at)' = Paid(source, at)
<1>1. HeldMicros(source, at)[r] = IF Own(r, source, at) THEN charge[r].reserved ELSE 0
  BY DEF HeldMicros, Active, Own
<1>2. HeldMicros(source, at)'[r] = 0 BY DEF HeldMicros, Active
<1>3. PaidMicros(source, at)[r] = 0 /\ PaidMicros(source, at)'[r] = 0
  BY DEF PaidMicros, Active
<1>4. charge[r].reserved \in Nat BY DEF TypeOK, Charge
<1>5. /\ Held(source, at) \in Nat /\ HeldMicros(source, at)[r] <= Held(source, at)
      /\ Held(source, at)' = Held(source, at) - HeldMicros(source, at)[r]
                               + HeldMicros(source, at)'[r]
  BY HeldChange
<1>6. /\ Paid(source, at) \in Nat
      /\ Paid(source, at)' = Paid(source, at) - PaidMicros(source, at)[r]
                               + PaidMicros(source, at)'[r]
  BY PaidChange
<1> QED BY <1>1, <1>2, <1>3, <1>4, <1>5, <1>6

\* A creation that has read its charge as it is opens it in one source.
LEMMA WriteSums ==
  ASSUME TypeOK, TypeOK', SeenAreClosed, SnapshotsCurrent,
         NEW c \in Caller, pending[c] # Idle,
         NEW source \in Sources, NEW at \in 0 .. Weeks, NEW micros \in Nat,
         source \in {"subscription", "tester_credit"} \/ at = 0,
         Write(c, source, at, micros)
  PROVE  /\ \A src, a :
              /\ Held(src, a) \in Nat /\ Paid(src, a)' = Paid(src, a)
              /\ Held(src, a)' = Held(src, a)
                   + IF src = source /\ a = at THEN micros ELSE 0
         /\ charge'[pending[c].request].attempt = NextAttempt(c)
         /\ NextAttempt(c) = charge[pending[c].request].attempt + 1
         /\ \A s \in Request : charge'[s].attempt >= charge[s].attempt
<1>0. PICK r \in Request : pending[c].request = r BY PendingType
<1>1. pending[c].seen = charge[r] BY <1>0 DEF SnapshotsCurrent
<1>2. /\ charge[r] \in Charge
      /\ \A s \in Request \ {r} : charge'[s] = charge[s]
      /\ charge'[r] = Reserved(charge[r], source, at, micros)
  BY <1>0, <1>1, WriteType
<1>3. charge[r].status \in {"none", "released"} BY <1>1 DEF SeenAreClosed
<1>4. /\ charge'[r].status = "reserved" /\ charge'[r].source = source
      /\ charge'[r].attempt = charge[r].attempt + 1 /\ charge'[r].reserved = micros
      /\ At(charge'[r]) = at
  BY <1>2, ReservedType
<1>5. NextAttempt(c) = charge[r].attempt + 1 BY <1>1 DEF NextAttempt
<1>6. ASSUME NEW src, NEW a
      PROVE  /\ Held(src, a) \in Nat /\ Paid(src, a)' = Paid(src, a)
             /\ Held(src, a)' = Held(src, a) + IF src = source /\ a = at THEN micros ELSE 0
  <2>1. Own(r, src, a)' <=> src = source /\ a = at BY <1>4 DEF Own
  <2> QED BY <1>2, <1>3, <1>4, <2>1, ReserveSums
<1>7. \A s \in Request : charge'[s].attempt >= charge[s].attempt
  <2>1. \A s \in Request : charge[s].attempt \in Nat BY DEF TypeOK, Charge
  <2> QED BY <1>2, <1>4, <2>1
<1> QED BY <1>0, <1>4, <1>5, <1>6, <1>7

-----------------------------------------------------------------------------
(* The sums, while what creations have read is current.                    *)

\* Nothing is held or paid at the start.
LEMMA InitSums == Init => SumsInv
<1> SUFFICES ASSUME Init PROVE SumsInv OBVIOUS
<1>1. \A r \in Request : charge[r] = NoCharge BY DEF Init
<1>2. CoveredBelow BY DEF Init, CoveredBelow
<1>3. \A source, at : Held(source, at) = 0
  <2> TAKE source, at
  <2>1. {r \in Request : Active(r) /\ charge[r].source = source /\ At(charge[r]) = at} = {}
    BY <1>1 DEF Active, NoCharge
  <2> QED BY <2>1, TotalNone DEF Held
<1>4. \A source, at : Paid(source, at) = 0
  <2> TAKE source, at
  <2>1. {r \in Request : charge[r].status = "settled" /\ At(charge[r]) = at
                            /\ charge[r].source = source} = {}
    BY <1>1 DEF NoCharge
  <2> QED BY <2>1, TotalNone DEF Paid
<1>5. HoldsAreBacked BY <1>3 DEF Init, HoldsAreBacked
<1>6. UseIsExplained BY <1>4 DEF Init, UseIsExplained
<1> QED BY <1>2, <1>5, <1>6 DEF SumsInv

\* No ledger row comes to mark an attempt that was not made.
LEMMA CoveredKept ==
  ASSUME TypeOK, TypeOK', CoveredBelow, covered' = covered,
         \A s \in Request : charge'[s].attempt >= charge[s].attempt
  PROVE  CoveredBelow'
<1>1. \A s \in Request : charge[s].attempt \in Nat /\ charge'[s].attempt \in Nat
  BY DEF TypeOK, Charge
<1> QED BY <1>1 DEF CoveredBelow

\* A step that leaves the amounts alone keeps the sums.
LEMMA SumsKept ==
  ASSUME SumsInv, UNCHANGED <<charge, wallet, window, covered, mixed>>,
         \A w \in Week : /\ tester'[w].reserved = tester[w].reserved
                         /\ tester'[w].consumed = tester[w].consumed
  PROVE  SumsInv'
<1>1. \A source, at : Held(source, at)' = Held(source, at) BY DEF Held, Active
<1>2. \A source, at : Paid(source, at)' = Paid(source, at) BY DEF Paid
<1> QED BY <1>1, <1>2 DEF SumsInv, CoveredBelow, HoldsAreBacked, UseIsExplained

\* What a reservation writes to the window it has read is enough.
LEMMA TakenRow ==
  ASSUME TypeOK, ReaderIsCurrent, reader # Idle
  PROVE  Taken(reader).reserved >= window[reader.at].reserved + reader.micros
<1>1. /\ reader.at \in Week /\ reader.seen.reserved \in Nat /\ reader.micros \in Nat
      /\ Taken(reader).reserved = reader.seen.reserved + reader.micros
  BY ReaderType
<1>2. window[reader.at].reserved \in Nat BY <1>1 DEF TypeOK
<1>3. window[reader.at].reserved <= reader.seen.reserved BY DEF ReaderIsCurrent
<1> QED BY <1>1, <1>2, <1>3

\* A window that covers a request holds it from then on; there is no row of
\* another call to be taken for the mark of a success.
LEMMA CommitSubscriptionSums ==
  ASSUME RowsInv, RowsInv', SnapshotsCurrent, SumsInv, CommitSubscription
  PROVE  SumsInv'
<1>1. reader # Idle /\ reader.kind = "create" BY DEF CommitSubscription
<1>2. TypeOK /\ TypeOK' /\ SeenAreClosed /\ ReaderIsCurrent BY DEF RowsInv
<1>3. CoveredBelow /\ HoldsAreBacked /\ UseIsExplained BY DEF SumsInv
<1>4. PICK c \in Caller, micros \in Nat, a \in Week :
        /\ reader.by = c /\ reader.micros = micros /\ reader.at = a
        /\ pending[c] # Idle /\ pending[c].request = reader.request
        /\ Taken(reader).consumed = window[a].consumed
        /\ Taken(reader).reserved \in Nat
        /\ Taken(reader).reserved >= window[a].reserved + micros
  BY <1>1, <1>2, ReaderType, TakenRow DEF ReaderIsCurrent
<1> DEFINE r == reader.request
           n == NextAttempt(c)
<1>5. Write(c, "subscription", a, micros) BY <1>4 DEF CommitSubscription
<1>6. /\ \A source, at :
           /\ Held(source, at) \in Nat /\ Paid(source, at)' = Paid(source, at)
           /\ Held(source, at)' = Held(source, at)
                + IF source = "subscription" /\ at = a THEN micros ELSE 0
      /\ charge'[r].attempt = n /\ n = charge[r].attempt + 1
      /\ \A s \in Request : charge'[s].attempt >= charge[s].attempt
  <2>1. a \in 0 .. Weeks BY DEF Week
  <2> QED BY <1>2, <1>4, <1>5, <2>1, WriteSums DEF Sources
<1>7. /\ Covers(reader) \/ n \in covered[r]
      /\ window' = IF Covers(reader) THEN [window EXCEPT ![a] = Taken(reader)] ELSE window
      /\ covered' = [covered EXCEPT ![r] = @ \cup {n}]
      /\ wallet' = wallet /\ mixed' = mixed
  BY <1>4 DEF CommitSubscription
<1> HIDE DEF n
<1>8. r \in Request /\ charge[r].attempt \in Nat
  BY <1>1, <1>2, ReaderType DEF TypeOK, Charge
<1>9. n \notin covered[r] BY <1>3, <1>6, <1>8 DEF CoveredBelow
<1>10. window' = [window EXCEPT ![a] = Taken(reader)] BY <1>7, <1>9
<1>11. CoveredBelow'
  <2>1. \A s \in Request : charge[s].attempt \in Nat /\ charge'[s].attempt \in Nat
    BY <1>2 DEF TypeOK, Charge
  <2>2. covered \in [Request -> SUBSET Nat] BY <1>2 DEF TypeOK
  <2>3. \A s \in Request : covered'[s] \subseteq covered[s] \cup (IF s = r THEN {n} ELSE {})
    BY <1>7, <1>8, <2>2
  <2>4. \A s \in Request : covered[s] \subseteq 1 .. charge'[s].attempt
    BY <1>3, <1>6, <2>1 DEF CoveredBelow
  <2>5. n \in 1 .. charge'[r].attempt BY <1>6, <1>8
  <2> QED BY <2>3, <2>4, <2>5 DEF CoveredBelow
<1>12. \A w \in Week : /\ tester'[w].reserved = tester[w].reserved
                       /\ tester'[w].consumed = tester[w].consumed
  BY <1>1, <1>2, KeepTesterRowType DEF CommitSubscription
<1>13. window \in [Week -> [reserved: Nat, consumed: Nat]] BY <1>2 DEF TypeOK
<1>14. HoldsAreBacked'
  <2>1. wallet'.reserved = Held("wallet", 0)'
    BY <1>3, <1>6, <1>7 DEF HoldsAreBacked
  <2>2. ASSUME NEW w \in Week
        PROVE  /\ tester'[w].reserved = Held("tester_credit", w)'
               /\ w \notin mixed' => window'[w].reserved >= Held("subscription", w)'
    <3>1. tester'[w].reserved = Held("tester_credit", w)'
      BY <1>3, <1>6, <1>12 DEF HoldsAreBacked
    <3>2. w \notin mixed => window[w].reserved >= Held("subscription", w)
      BY <1>3 DEF HoldsAreBacked
    <3>3. CASE w = a
      <4>1. Held("subscription", w)' = Held("subscription", w) + micros BY <1>6, <3>3
      <4>2. /\ window'[w].reserved >= window[w].reserved + micros
            /\ window'[w].reserved \in Nat
        BY <1>4, <1>10, <1>13, <3>3
      <4>3. Held("subscription", w) \in Nat /\ window[w].reserved \in Nat
        BY <1>6, <1>13
      <4> QED BY <1>7, <3>1, <3>2, <4>1, <4>2, <4>3
    <3>4. CASE w # a
      <4>1. Held("subscription", w)' = Held("subscription", w) BY <1>6, <3>4
      <4>2. window'[w] = window[w] BY <1>10, <1>13, <3>4
      <4> QED BY <1>7, <3>1, <3>2, <4>1, <4>2
    <3> QED BY <3>3, <3>4
  <2> QED BY <2>1, <2>2 DEF HoldsAreBacked
<1>15. UseIsExplained'
  <2>1. \A w \in Week : window'[w].consumed = window[w].consumed BY <1>4, <1>10, <1>13
  <2> QED BY <1>3, <1>6, <1>7, <1>12, <2>1 DEF UseIsExplained
<1> QED BY <1>11, <1>14, <1>15 DEF SumsInv

\* The wallet holds what it reserves.
LEMMA ReserveWalletSums ==
  ASSUME RowsInv, RowsInv', SnapshotsCurrent, SumsInv,
         NEW c \in Caller, pending[c] # Idle, NEW micros \in Nat,
         ReserveWallet(c, micros), UNCHANGED <<window, covered, mixed>>,
         \A w \in Week : /\ tester'[w].reserved = tester[w].reserved
                         /\ tester'[w].consumed = tester[w].consumed
  PROVE  SumsInv'
<1>1. TypeOK /\ TypeOK' /\ SeenAreClosed BY DEF RowsInv
<1>2. CoveredBelow /\ HoldsAreBacked /\ UseIsExplained BY DEF SumsInv
<1>3. Write(c, "wallet", 0, micros) BY DEF ReserveWallet
<1>4. /\ \A source, at :
           /\ Held(source, at) \in Nat /\ Paid(source, at)' = Paid(source, at)
           /\ Held(source, at)' = Held(source, at)
                + IF source = "wallet" /\ at = 0 THEN micros ELSE 0
      /\ \A s \in Request : charge'[s].attempt >= charge[s].attempt
  BY <1>1, <1>3, WriteSums DEF Sources
<1>5. wallet'.reserved = wallet.reserved + micros /\ wallet'.balance = wallet.balance
  BY <1>1 DEF ReserveWallet, TypeOK
<1>6. CoveredBelow' BY <1>1, <1>2, <1>4, CoveredKept
<1>7. HoldsAreBacked'
  <2>1. wallet'.reserved = Held("wallet", 0)'
    BY <1>2, <1>4, <1>5 DEF HoldsAreBacked
  <2>2. \A w \in Week : /\ Held("tester_credit", w)' = Held("tester_credit", w)
                        /\ Held("subscription", w)' = Held("subscription", w)
    BY <1>4
  <2> QED BY <1>2, <2>1, <2>2 DEF HoldsAreBacked
<1>8. UseIsExplained' BY <1>2, <1>4, <1>5 DEF UseIsExplained
<1> QED BY <1>6, <1>7, <1>8 DEF SumsInv

\* The tester's week holds what is reserved of it, and what it grows by.
LEMMA TesterHolds ==
  ASSUME SumsInv, UNCHANGED <<wallet, window, mixed>>,
         NEW micros \in Nat, NEW a \in Week,
         \A source, at :
             /\ Held(source, at) \in Nat /\ Paid(source, at)' = Paid(source, at)
             /\ Held(source, at)' = Held(source, at)
                  + IF source = "tester_credit" /\ at = a THEN micros ELSE 0,
         \A w \in Week : /\ tester'[w].consumed = tester[w].consumed
                         /\ tester'[w].reserved = tester[w].reserved
                                                    + IF w = a THEN micros ELSE 0
  PROVE  HoldsAreBacked' /\ UseIsExplained'
<1>1. HoldsAreBacked /\ UseIsExplained BY DEF SumsInv
<1>2. HoldsAreBacked'
  <2>1. Held("wallet", 0)' = Held("wallet", 0) OBVIOUS
  <2>2. ASSUME NEW w \in Week
        PROVE  /\ tester'[w].reserved = Held("tester_credit", w)'
               /\ Held("subscription", w)' = Held("subscription", w)
    <3>1. tester[w].reserved = Held("tester_credit", w) BY <1>1 DEF HoldsAreBacked
    <3> QED BY <3>1
  <2> QED BY <1>1, <2>1, <2>2 DEF HoldsAreBacked
<1>3. UseIsExplained' BY <1>1 DEF UseIsExplained
<1> QED BY <1>2, <1>3

\* reserve_tester_credit, the wallet of a user without entitlement, and the
\* steps of a creation that only read.
LEMMA CreateSums ==
  ASSUME RowsInv, RowsInv', SnapshotsCurrent, SumsInv, NEW c \in Caller, Create(c)
  PROVE  SumsInv'
<1>1. TypeOK /\ TypeOK' /\ SeenAreClosed BY DEF RowsInv
<1>2. CASE (\E r \in Request : BeginCreate(c, r)) \/ AbortCreate(c)
           \/ \E micros \in Holds, eligible \in BOOLEAN : BeginReserve(c, micros, eligible)
  <2>1. UNCHANGED <<charge, wallet, window, tester, covered, mixed>>
    BY <1>2 DEF BeginCreate, AbortCreate, BeginReserve
  <2> QED BY <2>1, SumsKept
<1>3. ASSUME NEW micros \in Holds, ReserveTester(c, micros) PROVE SumsInv'
  <2>1. micros \in Nat /\ pending[c] # Idle BY <1>3 DEF ReserveTester
  <2>2. PICK a \in Week : testerNow = a BY <1>1 DEF TypeOK
  <2>3. Write(c, "tester_credit", a, micros) BY <1>3, <2>2 DEF ReserveTester
  <2>4. /\ \A source, at :
             /\ Held(source, at) \in Nat /\ Paid(source, at)' = Paid(source, at)
             /\ Held(source, at)' = Held(source, at)
                  + IF source = "tester_credit" /\ at = a THEN micros ELSE 0
        /\ \A s \in Request : charge'[s].attempt >= charge[s].attempt
    <3>1. a \in 0 .. Weeks BY DEF Week
    <3> QED BY <1>1, <2>1, <2>3, <3>1, WriteSums DEF Sources
  <2>5. \A w \in Week : /\ tester'[w].consumed = tester[w].consumed
                        /\ tester'[w].reserved = tester[w].reserved
                                                   + IF w = a THEN micros ELSE 0
    <3>1. tester' = [tester EXCEPT ![a] = [TesterRow EXCEPT !.reserved = @ + micros]]
      BY <1>3, <2>2 DEF ReserveTester
    <3>2. /\ TesterRow \in [allowance: Nat, reserved: Nat, consumed: Nat]
          /\ TesterRow.reserved = tester[a].reserved
          /\ TesterRow.consumed = tester[a].consumed
      BY <1>1, <2>2, TesterRowType
    <3> QED BY <1>1, <2>1, <3>1, <3>2 DEF TypeOK
  <2>6. UNCHANGED <<wallet, window, covered, mixed>> BY <1>3 DEF ReserveTester
  <2>7. HoldsAreBacked' /\ UseIsExplained' BY <2>1, <2>4, <2>5, <2>6, TesterHolds
  <2>8. CoveredBelow' BY <1>1, <2>4, <2>6, CoveredKept DEF SumsInv
  <2> QED BY <2>7, <2>8 DEF SumsInv
<1>4. ASSUME NEW micros \in Holds, NEW eligible \in BOOLEAN,
             ReserveUnsubscribed(c, micros, eligible)
      PROVE  SumsInv'
  <2>1. /\ micros \in Nat /\ pending[c] # Idle /\ ReserveWallet(c, micros)
        /\ UNCHANGED <<window, covered, mixed>>
        /\ tester' = IF eligible THEN EffectiveAllowance(testerNow) ELSE tester
    BY <1>4 DEF ReserveUnsubscribed
  <2>2. testerNow \in Week BY <1>1 DEF TypeOK
  <2>3. \A w \in Week : /\ tester'[w].reserved = tester[w].reserved
                        /\ tester'[w].consumed = tester[w].consumed
    BY <1>1, <2>1, <2>2, EffectiveType
  <2> QED BY <2>1, <2>3, ReserveWalletSums
<1> QED BY <1>2, <1>3, <1>4 DEF Create

\* The charge keeps its own window when another one covers its expansion:
\* both become mixed, and so does the charge's when a marker replaces a cover.
LEMMA CommitExpandSums ==
  ASSUME RowsInv, RowsInv', SumsInv, CommitExpand \/ CommitExpandByMarker
  PROVE  SumsInv'
<1>1. reader # Idle /\ reader.kind = "expand"
  BY DEF CommitExpand, CommitExpandByMarker
<1>2. TypeOK /\ TypeOK' /\ ReaderIsCurrent BY DEF RowsInv
<1>3. CoveredBelow /\ HoldsAreBacked /\ UseIsExplained BY DEF SumsInv
<1>4. PICK r \in Request, micros \in Nat, a \in Week, b \in 0 .. Weeks :
        /\ reader.request = r /\ reader.micros = micros /\ reader.at = a
        /\ charge[r].window = b
        /\ Taken(reader).consumed = window[a].consumed
        /\ Taken(reader).reserved \in Nat
        /\ Taken(reader).reserved >= window[a].reserved + micros
  BY <1>1, <1>2, ReaderType, TakenRow DEF TypeOK, Charge
<1>5. Grow(r, micros) BY <1>4 DEF CommitExpand, CommitExpandByMarker
<1>6. Active(r) /\ charge[r].source = "subscription" BY <1>1, <1>2, <1>4 DEF ReaderIsCurrent
<1>7. At(charge[r]) = b BY <1>4, <1>6 DEF At
<1>8. /\ charge'[r].status = charge[r].status /\ charge'[r].source = charge[r].source
      /\ At(charge'[r]) = At(charge[r]) /\ charge'[r].reserved = charge[r].reserved + micros
      /\ \A s \in Request \ {r} : charge'[s] = charge[s]
      /\ \A s \in Request : charge'[s].attempt = charge[s].attempt
  BY <1>2, <1>5, GrownType
<1>9. \A source, at :
        /\ Held(source, at) \in Nat /\ Paid(source, at)' = Paid(source, at)
        /\ Held(source, at)' = Held(source, at)
             + IF source = "subscription" /\ at = b THEN micros ELSE 0
  <2> TAKE source, at
  <2>1. Own(r, source, at) <=> source = "subscription" /\ at = b BY <1>6, <1>7 DEF Own
  <2> QED BY <1>2, <1>6, <1>8, <2>1, GrowSums
<1>10. wallet' = wallet /\ tester' = tester /\ covered' = covered
  BY DEF CommitExpand, CommitExpandByMarker
<1>11. window \in [Week -> [reserved: Nat, consumed: Nat]] BY <1>2 DEF TypeOK
<1>12. /\ \A w \in Week : window'[w].consumed = window[w].consumed
       /\ \A w \in Week : window'[w].reserved \in Nat
                           /\ window'[w].reserved >= window[w].reserved
  <2>1. CASE CommitExpand
    <3>1. window' = [window EXCEPT ![a] = Taken(reader)] BY <1>4, <2>1 DEF CommitExpand
    <3> QED BY <1>4, <1>11, <3>1
  <2>2. CASE CommitExpandByMarker
    <3>1. window' = window BY <2>2 DEF CommitExpandByMarker
    <3> QED BY <1>11, <3>1
  <2> QED BY <2>1, <2>2
<1>13. CoveredBelow'
  <2>1. \A s \in Request : charge[s].attempt \in Nat BY <1>2 DEF TypeOK, Charge
  <2> QED BY <1>2, <1>3, <1>8, <1>10, <2>1, CoveredKept
<1>14. HoldsAreBacked'
  <2>1. wallet'.reserved = Held("wallet", 0)' BY <1>3, <1>9, <1>10 DEF HoldsAreBacked
  <2>2. ASSUME NEW w \in Week
        PROVE  /\ tester'[w].reserved = Held("tester_credit", w)'
               /\ w \notin mixed' => window'[w].reserved >= Held("subscription", w)'
    <3>1. tester'[w].reserved = Held("tester_credit", w)'
      BY <1>3, <1>9, <1>10 DEF HoldsAreBacked
    <3>2. mixed \subseteq mixed' BY DEF CommitExpand, CommitExpandByMarker
    <3>3. w \notin mixed => window[w].reserved >= Held("subscription", w)
      BY <1>3 DEF HoldsAreBacked
    <3>4. Held("subscription", w) \in Nat /\ window[w].reserved \in Nat BY <1>9, <1>11
    <3>5. CASE w # b
      <4>1. Held("subscription", w)' = Held("subscription", w) BY <1>9, <3>5
      <4> QED BY <1>12, <3>1, <3>2, <3>3, <3>4, <4>1
    <3>6. CASE w = b /\ CommitExpandByMarker
      <4>1. w \in mixed' BY <1>4, <3>6 DEF CommitExpandByMarker
      <4> QED BY <3>1, <4>1
    <3>7. CASE w = b /\ CommitExpand
      <4>1. w # a => w \in mixed' BY <1>4, <3>7 DEF CommitExpand
      <4>2. window' = [window EXCEPT ![a] = Taken(reader)] BY <1>4, <3>7 DEF CommitExpand
      <4>3. w = a => window'[w].reserved >= window[w].reserved + micros
        BY <1>4, <1>11, <4>2
      <4>4. Held("subscription", w)' = Held("subscription", w) + micros BY <1>9, <3>7
      <4>5. window'[w].reserved \in Nat BY <1>12
      <4> QED BY <3>1, <3>2, <3>3, <3>4, <4>1, <4>3, <4>4, <4>5
    <3> QED BY <3>5, <3>6, <3>7
  <2> QED BY <2>1, <2>2 DEF HoldsAreBacked
<1>15. UseIsExplained' BY <1>3, <1>9, <1>10, <1>12 DEF UseIsExplained
<1> QED BY <1>13, <1>14, <1>15 DEF SumsInv

\* The transaction that had read the windows ends.
LEMMA CommitSums ==
  ASSUME RowsInv, RowsInv', SnapshotsCurrent, SumsInv, Commit PROVE SumsInv'
<1>1. CASE CommitSubscription BY <1>1, CommitSubscriptionSums
<1>2. CASE CommitFallback
  <2>1. reader # Idle /\ reader.kind = "create" BY <1>2 DEF CommitFallback
  <2>2. TypeOK /\ ReaderIsCurrent BY DEF RowsInv
  <2>3. PICK c \in Caller, micros \in Nat :
          reader.by = c /\ reader.micros = micros /\ pending[c] # Idle
    BY <2>1, <2>2, ReaderType DEF ReaderIsCurrent
  <2>4. ReserveWallet(c, micros) /\ UNCHANGED <<window, covered, mixed>>
    BY <1>2, <2>3 DEF CommitFallback
  <2>5. \A w \in Week : /\ tester'[w].reserved = tester[w].reserved
                        /\ tester'[w].consumed = tester[w].consumed
    BY <1>2, <2>1, <2>2, KeepTesterRowType DEF CommitFallback
  <2> QED BY <2>3, <2>4, <2>5, ReserveWalletSums
<1>3. CASE CommitExpand \/ CommitExpandByMarker BY <1>3, CommitExpandSums
<1>4. CASE AbortExpand BY <1>4, SumsKept DEF AbortExpand
<1> QED BY <1>1, <1>2, <1>3, <1>4 DEF Commit

\* expand_tester_credit
LEMMA ExpandSums ==
  ASSUME RowsInv, RowsInv', SumsInv, NEW r \in Request, Expand(r) PROVE SumsInv'
<1>1. TypeOK /\ TypeOK' BY DEF RowsInv
<1>2. ASSUME NEW micros \in Holds, NEW e \in Expansions, BeginExpand(r, micros, e)
      PROVE  SumsInv'
  BY <1>2, SumsKept DEF BeginExpand
<1>3. ASSUME NEW micros \in Holds, NEW e \in Expansions, ExpandTester(r, micros, e)
      PROVE  SumsInv'
  <2>1. Active(r) /\ charge[r].source = "tester_credit" /\ micros \in Nat
    BY <1>3 DEF ExpandTester
  <2>2. PICK a \in Week : charge[r].tester = a BY <1>3 DEF ExpandTester
  <2>3. At(charge[r]) = a BY <2>1, <2>2 DEF At
  <2> DEFINE new == [charge[r] EXCEPT !.reserved = @ + micros, !.expanded = @ \cup {e}]
  <2>4. charge' = [charge EXCEPT ![r] = new] BY <1>1, <1>3 DEF ExpandTester, TypeOK
  <2>5. /\ new.status = charge[r].status /\ new.source = charge[r].source
        /\ new.window = charge[r].window /\ new.tester = charge[r].tester
        /\ new.attempt = charge[r].attempt
        /\ new.reserved = charge[r].reserved + micros
    <3>1. charge[r] \in Charge BY <1>1 DEF TypeOK
    <3> QED BY <3>1 DEF Charge
  <2> HIDE DEF new
  <2>6. At(new) = At(charge[r]) BY <2>5 DEF At
  <2>7. /\ charge'[r] = new /\ \A s \in Request \ {r} : charge'[s] = charge[s]
    BY <1>1, <2>4 DEF TypeOK
  <2>8. \A source, at :
          /\ Held(source, at) \in Nat /\ Paid(source, at)' = Paid(source, at)
          /\ Held(source, at)' = Held(source, at)
               + IF source = "tester_credit" /\ at = a THEN micros ELSE 0
    <3> TAKE source, at
    <3>1. Own(r, source, at) <=> source = "tester_credit" /\ at = a
      BY <2>1, <2>3 DEF Own
    <3>2. /\ charge'[r].status = charge[r].status /\ charge'[r].source = charge[r].source
          /\ At(charge'[r]) = At(charge[r])
          /\ charge'[r].reserved = charge[r].reserved + micros
      BY <2>5, <2>6, <2>7
    <3> QED BY <1>1, <2>1, <2>7, <3>1, <3>2, GrowSums
  <2>9. \A w \in Week : /\ tester'[w].consumed = tester[w].consumed
                        /\ tester'[w].reserved = tester[w].reserved
                                                   + IF w = a THEN micros ELSE 0
    <3>1. tester' = [tester EXCEPT ![a] = [tester[a] EXCEPT !.reserved = @ + micros]]
      BY <1>3, <2>2 DEF ExpandTester
    <3> QED BY <1>1, <2>1, <3>1 DEF TypeOK
  <2>10. UNCHANGED <<wallet, window, covered, mixed>> BY <1>3 DEF ExpandTester
  <2>11. HoldsAreBacked' /\ UseIsExplained' BY <2>1, <2>8, <2>9, <2>10, TesterHolds
  <2>12. \A s \in Request : charge'[s].attempt >= charge[s].attempt
    <3>1. \A s \in Request : charge[s].attempt \in Nat BY <1>1 DEF TypeOK, Charge
    <3> QED BY <2>5, <2>7, <3>1
  <2>13. CoveredBelow' BY <1>1, <2>10, <2>12, CoveredKept DEF SumsInv
  <2> QED BY <2>11, <2>13 DEF SumsInv
<1> QED BY <1>2, <1>3 DEF Expand

\* What a close takes from one place of its source, and adds to it.
Freed(here, before, held) == IF here THEN Max0(before - held) ELSE before
Spent(here, debit)        == IF here THEN debit ELSE 0

\* A charge gives back what it holds and pays what it owes in its own source
\* and week, and nowhere else.
Closes(src, a, held, debit) ==
    /\ \A source, at :
        /\ Held(source, at) \in Nat /\ Paid(source, at) \in Nat
        /\ source = src /\ at = a => held <= Held(source, at)
        /\ Held(source, at)' = Held(source, at)
             - IF source = src /\ at = a THEN held ELSE 0
        /\ Paid(source, at)' = Paid(source, at)
             + IF source = src /\ at = a THEN debit ELSE 0
    /\ wallet'.reserved = Freed(src = "wallet" /\ a = 0, wallet.reserved, held)
    /\ wallet'.balance = wallet.balance - Spent(src = "wallet" /\ a = 0, debit)
    /\ \A w \in Week :
        /\ window'[w].reserved = Freed(src = "subscription" /\ a = w, window[w].reserved, held)
        /\ window'[w].consumed = window[w].consumed + Spent(src = "subscription" /\ a = w, debit)
        /\ tester'[w].reserved = Freed(src = "tester_credit" /\ a = w, tester[w].reserved, held)
        /\ tester'[w].consumed = tester[w].consumed + Spent(src = "tester_credit" /\ a = w, debit)

\* A close keeps the sums.
LEMMA CloseSums ==
  ASSUME TypeOK, SumsInv, mixed' = mixed,
         NEW src, NEW a, NEW held \in Nat, NEW debit \in Nat,
         Closes(src, a, held, debit)
  PROVE  HoldsAreBacked' /\ UseIsExplained'
<1>1. HoldsAreBacked /\ UseIsExplained BY DEF SumsInv
<1>2. /\ wallet.reserved \in Nat /\ wallet.balance \in Nat
      /\ \A w \in Week : /\ window[w].reserved \in Nat /\ window[w].consumed \in Nat
                         /\ tester[w].reserved \in Nat /\ tester[w].consumed \in Nat
  BY DEF TypeOK
<1>3. wallet'.reserved = Held("wallet", 0)'
  <2>1. wallet.reserved = Held("wallet", 0) BY <1>1 DEF HoldsAreBacked
  <2>2. CASE src = "wallet" /\ a = 0
    <3>1. /\ held <= Held("wallet", 0) /\ Held("wallet", 0)' = Held("wallet", 0) - held
          /\ wallet'.reserved = Max0(wallet.reserved - held)
      BY <2>2 DEF Freed, Closes
    <3> QED BY <1>2, <2>1, <3>1 DEF Max0
  <2>3. CASE ~(src = "wallet" /\ a = 0)
    <3>1. Held("wallet", 0)' = Held("wallet", 0) - 0 BY <2>3 DEF Closes
    <3>2. wallet'.reserved = wallet.reserved BY <2>3 DEF Freed, Closes
    <3> QED BY <1>2, <2>1, <3>1, <3>2
  <2> QED BY <2>2, <2>3
<1>4. ASSUME NEW w \in Week
      PROVE  tester'[w].reserved = Held("tester_credit", w)'
  <2>1. tester[w].reserved = Held("tester_credit", w) BY <1>1 DEF HoldsAreBacked
  <2>2. CASE src = "tester_credit" /\ a = w
    <3>1. /\ held <= Held("tester_credit", w)
          /\ Held("tester_credit", w)' = Held("tester_credit", w) - held
          /\ tester'[w].reserved = Max0(tester[w].reserved - held)
      BY <2>2 DEF Freed, Closes
    <3> QED BY <1>2, <2>1, <3>1 DEF Max0
  <2>3. CASE ~(src = "tester_credit" /\ a = w)
    <3>1. Held("tester_credit", w)' = Held("tester_credit", w) - 0 BY <2>3 DEF Closes
    <3>2. tester'[w].reserved = tester[w].reserved BY <2>3 DEF Freed, Closes
    <3> QED BY <1>2, <2>1, <3>1, <3>2
  <2> QED BY <2>2, <2>3
<1>5. ASSUME NEW w \in Week, w \notin mixed'
      PROVE  window'[w].reserved >= Held("subscription", w)'
  <2>1. window[w].reserved >= Held("subscription", w) BY <1>1, <1>5 DEF HoldsAreBacked
  <2>2. Held("subscription", w) \in Nat BY DEF Closes
  <2>3. CASE src = "subscription" /\ a = w
    <3>1. /\ held <= Held("subscription", w)
          /\ Held("subscription", w)' = Held("subscription", w) - held
          /\ window'[w].reserved = Max0(window[w].reserved - held)
      BY <2>3 DEF Freed, Closes
    <3> QED BY <1>2, <2>1, <2>2, <3>1 DEF Max0
  <2>4. CASE ~(src = "subscription" /\ a = w)
    <3>1. Held("subscription", w)' = Held("subscription", w) - 0 BY <2>4 DEF Closes
    <3>2. window'[w].reserved = window[w].reserved BY <2>4 DEF Freed, Closes
    <3> QED BY <2>1, <2>2, <3>1, <3>2
  <2> QED BY <2>3, <2>4
<1>6. wallet'.balance + Paid("wallet", 0)' = InitialBalance
  <2>1. wallet.balance + Paid("wallet", 0) = InitialBalance /\ Paid("wallet", 0) \in Nat
    BY <1>1 DEF UseIsExplained, Closes
  <2>2. /\ Paid("wallet", 0)' = Paid("wallet", 0) + Spent(src = "wallet" /\ a = 0, debit)
        /\ wallet'.balance = wallet.balance - Spent(src = "wallet" /\ a = 0, debit)
    BY DEF Spent, Closes
  <2>3. Spent(src = "wallet" /\ a = 0, debit) \in Nat BY DEF Spent
  <2> QED BY <1>2, <2>1, <2>2, <2>3
<1>7. \A w \in Week : /\ window'[w].consumed = Paid("subscription", w)'
                      /\ tester'[w].consumed = Paid("tester_credit", w)'
  BY <1>1 DEF UseIsExplained, Spent, Closes
<1>8. HoldsAreBacked' BY <1>3, <1>4, <1>5 DEF HoldsAreBacked
<1>9. UseIsExplained' BY <1>6, <1>7 DEF UseIsExplained
<1> QED BY <1>8, <1>9

\* settle_usage_reservation, in the source of the charge.
LEMMA SettleKeepsSums ==
  ASSUME RowsInv, RowsInv', SumsInv, NEW r \in Request, NEW cost \in Costs,
         \/ SettleSubscription(r, cost)
         \/ SettleTester(r, cost)
         \/ SettleWallet(r, cost)
  PROVE  SumsInv'
<1>1. Active(r) BY DEF SettleSubscription, SettleTester, SettleWallet
<1>2. TypeOK /\ TypeOK' BY DEF RowsInv
<1>3. covered' = covered /\ mixed' = mixed
  BY DEF SettleSubscription, SettleTester, SettleWallet
<1>4. PICK src \in Sources, a \in 0 .. Weeks, held \in Nat :
        charge[r].source = src /\ At(charge[r]) = a /\ charge[r].reserved = held
  BY <1>2, AtType
<1>5. ASSUME NEW debit \in Nat, Settled(r, debit)
      PROVE  /\ CoveredBelow'
             /\ \A source, at :
                  /\ Held(source, at) \in Nat /\ Paid(source, at) \in Nat
                  /\ source = src /\ at = a => held <= Held(source, at)
                  /\ Held(source, at)' = Held(source, at)
                       - IF source = src /\ at = a THEN held ELSE 0
                  /\ Paid(source, at)' = Paid(source, at)
                       + IF source = src /\ at = a THEN debit ELSE 0
  <2>1. /\ \A s \in Request \ {r} : charge'[s] = charge[s]
        /\ charge'[r].status = "settled" /\ charge'[r].debited = debit
        /\ charge'[r].source = charge[r].source /\ At(charge'[r]) = At(charge[r])
        /\ charge'[r].attempt = charge[r].attempt
    BY <1>2, <1>5, SettledType
  <2>2. ASSUME NEW source, NEW at
        PROVE  /\ Held(source, at) \in Nat /\ Paid(source, at) \in Nat
               /\ source = src /\ at = a => held <= Held(source, at)
               /\ Held(source, at)' = Held(source, at)
                    - IF source = src /\ at = a THEN held ELSE 0
               /\ Paid(source, at)' = Paid(source, at)
                    + IF source = src /\ at = a THEN debit ELSE 0
    <3>1. Own(r, source, at) <=> source = src /\ at = a BY <1>4 DEF Own
    <3> QED BY <1>1, <1>2, <1>4, <2>1, <3>1, SettleSums
  <2>3. CoveredBelow'
    <3>1. \A s \in Request : charge[s].attempt \in Nat BY <1>2 DEF TypeOK, Charge
    <3> QED BY <1>2, <1>3, <2>1, <3>1, CoveredKept DEF SumsInv
  <2> QED BY <2>2, <2>3
<1>6. CASE SettleSubscription(r, cost)
  <2>1. src = "subscription" /\ a \in Week /\ a = charge[r].window
    BY <1>4, <1>6 DEF SettleSubscription, At
  <2>2. PICK debit \in Nat : debit = DebitedWindow(r, cost)
    BY <1>4 DEF DebitedWindow, Lesser
  <2>3. Settled(r, debit) BY <2>2, <1>6 DEF SettleSubscription
  <2> DEFINE given == GiveBack(window[a], held)
             row   == [given EXCEPT !.consumed = @ + debit]
  <2>4. /\ given \in [reserved: Nat, consumed: Nat]
        /\ given.consumed = window[a].consumed
        /\ given.reserved = Max0(window[a].reserved - held)
    BY <1>2, <2>1, GiveBackType DEF TypeOK
  <2>5. window' = [window EXCEPT ![a] = row] BY <1>4, <1>6, <2>1, <2>2 DEF SettleSubscription
  <2> HIDE DEF given
  <2>6. /\ row.reserved = Max0(window[a].reserved - held)
        /\ row.consumed = window[a].consumed + debit
    BY <2>4
  <2> HIDE DEF row
  <2>7. wallet' = wallet /\ tester' = tester BY <1>6 DEF SettleSubscription
  <2>8. \A w \in Week :
          /\ window'[w].reserved = Freed(a = w, window[w].reserved, held)
          /\ window'[w].consumed = window[w].consumed + Spent(a = w, debit)
          /\ tester'[w].reserved = tester[w].reserved
          /\ tester'[w].consumed = tester[w].consumed + 0
    BY <1>2, <2>1, <2>5, <2>6, <2>7 DEF TypeOK, Freed, Spent
  <2>9. wallet'.reserved = wallet.reserved /\ wallet'.balance = wallet.balance - 0
    BY <1>2, <2>7 DEF TypeOK
  <2>10. HoldsAreBacked' /\ UseIsExplained'
    <3> USE DEF Freed, Spent
    <3>1. \A w \in Week :
            /\ window'[w].reserved = Freed(src = "subscription" /\ a = w, window[w].reserved, held)
            /\ window'[w].consumed = window[w].consumed + Spent(src = "subscription" /\ a = w, debit)
            /\ tester'[w].reserved = Freed(src = "tester_credit" /\ a = w, tester[w].reserved, held)
            /\ tester'[w].consumed = tester[w].consumed + Spent(src = "tester_credit" /\ a = w, debit)
      BY <2>1, <2>8
    <3>2. /\ wallet'.reserved = Freed(src = "wallet" /\ a = 0, wallet.reserved, held)
          /\ wallet'.balance = wallet.balance - Spent(src = "wallet" /\ a = 0, debit)
      BY <2>1, <2>9
    <3> HIDE DEF Freed, Spent
    <3>3. \A source, at :
            /\ Held(source, at) \in Nat /\ Paid(source, at) \in Nat
            /\ source = src /\ at = a => held <= Held(source, at)
            /\ Held(source, at)' = Held(source, at)
                 - IF source = src /\ at = a THEN held ELSE 0
            /\ Paid(source, at)' = Paid(source, at)
                 + IF source = src /\ at = a THEN debit ELSE 0
      BY <1>5, <2>3
    <3>4. Closes(src, a, held, debit) BY <3>1, <3>2, <3>3 DEF Closes
    <3> QED BY <1>2, <1>3, <3>4, CloseSums
  <2> QED BY <1>5, <2>3, <2>10 DEF SumsInv
<1>7. CASE SettleTester(r, cost)
  <2>1. src = "tester_credit" /\ a \in Week /\ a = charge[r].tester
    BY <1>4, <1>7 DEF SettleTester, At
  <2>2. PICK debit \in Nat : debit = DebitedTester(r, cost)
    <3>1. /\ tester[charge[r].tester].allowance \in Nat
          /\ tester[charge[r].tester].consumed \in Nat
      BY <1>2, <2>1 DEF TypeOK
    <3>2. DebitedTester(r, cost) \in Nat BY <3>1 DEF DebitedTester, Lesser, Max0
    <3> QED BY <3>2
  <2>3. Settled(r, debit) BY <2>2, <1>7 DEF SettleTester
  <2> DEFINE given == GiveBack(tester[a], held)
             row   == [given EXCEPT !.consumed = @ + debit]
  <2>4. /\ given \in [allowance: Nat, reserved: Nat, consumed: Nat]
        /\ given.consumed = tester[a].consumed
        /\ given.reserved = Max0(tester[a].reserved - held)
    BY <1>2, <2>1, GiveBackTesterType DEF TypeOK
  <2>5. tester' = [tester EXCEPT ![a] = row] BY <1>4, <1>7, <2>1, <2>2 DEF SettleTester
  <2> HIDE DEF given
  <2>6. /\ row.reserved = Max0(tester[a].reserved - held)
        /\ row.consumed = tester[a].consumed + debit
    BY <2>4
  <2> HIDE DEF row
  <2>7. wallet' = wallet /\ window' = window BY <1>7 DEF SettleTester
  <2>8. \A w \in Week :
          /\ tester'[w].reserved = Freed(a = w, tester[w].reserved, held)
          /\ tester'[w].consumed = tester[w].consumed + Spent(a = w, debit)
          /\ window'[w].reserved = window[w].reserved
          /\ window'[w].consumed = window[w].consumed + 0
    BY <1>2, <2>1, <2>5, <2>6, <2>7 DEF TypeOK, Freed, Spent
  <2>9. wallet'.reserved = wallet.reserved /\ wallet'.balance = wallet.balance - 0
    BY <1>2, <2>7 DEF TypeOK
  <2>10. HoldsAreBacked' /\ UseIsExplained'
    <3> USE DEF Freed, Spent
    <3>1. \A w \in Week :
            /\ window'[w].reserved = Freed(src = "subscription" /\ a = w, window[w].reserved, held)
            /\ window'[w].consumed = window[w].consumed + Spent(src = "subscription" /\ a = w, debit)
            /\ tester'[w].reserved = Freed(src = "tester_credit" /\ a = w, tester[w].reserved, held)
            /\ tester'[w].consumed = tester[w].consumed + Spent(src = "tester_credit" /\ a = w, debit)
      BY <2>1, <2>8
    <3>2. /\ wallet'.reserved = Freed(src = "wallet" /\ a = 0, wallet.reserved, held)
          /\ wallet'.balance = wallet.balance - Spent(src = "wallet" /\ a = 0, debit)
      BY <2>1, <2>9
    <3> HIDE DEF Freed, Spent
    <3>3. \A source, at :
            /\ Held(source, at) \in Nat /\ Paid(source, at) \in Nat
            /\ source = src /\ at = a => held <= Held(source, at)
            /\ Held(source, at)' = Held(source, at)
                 - IF source = src /\ at = a THEN held ELSE 0
            /\ Paid(source, at)' = Paid(source, at)
                 + IF source = src /\ at = a THEN debit ELSE 0
      BY <1>5, <2>3
    <3>4. Closes(src, a, held, debit) BY <3>1, <3>2, <3>3 DEF Closes
    <3> QED BY <1>2, <1>3, <3>4, CloseSums
  <2> QED BY <1>5, <2>3, <2>10 DEF SumsInv
<1>8. CASE SettleWallet(r, cost)
  <2>1. src = "wallet" /\ a = 0 BY <1>4, <1>8 DEF SettleWallet, At
  <2>2. PICK debit \in Nat : debit = Lesser(cost, wallet.balance)
    BY <1>2 DEF Lesser, TypeOK
  <2>3. Settled(r, debit) BY <1>8, <2>2 DEF SettleWallet
  <2>4. /\ wallet'.balance = wallet.balance - debit
        /\ wallet'.reserved = Max0(wallet.reserved - held)
        /\ window' = window /\ tester' = tester
    BY <1>4, <1>8, <2>2 DEF SettleWallet
  <2>5. \A w \in Week : /\ window[w].consumed + 0 = window[w].consumed
                        /\ tester[w].consumed + 0 = tester[w].consumed
    BY <1>2 DEF TypeOK
  <2>6. HoldsAreBacked' /\ UseIsExplained'
    <3> USE DEF Freed, Spent
    <3>1. \A w \in Week :
            /\ window'[w].reserved = Freed(src = "subscription" /\ a = w, window[w].reserved, held)
            /\ window'[w].consumed = window[w].consumed + Spent(src = "subscription" /\ a = w, debit)
            /\ tester'[w].reserved = Freed(src = "tester_credit" /\ a = w, tester[w].reserved, held)
            /\ tester'[w].consumed = tester[w].consumed + Spent(src = "tester_credit" /\ a = w, debit)
      BY <2>1, <2>4, <2>5
    <3>2. /\ wallet'.reserved = Freed(src = "wallet" /\ a = 0, wallet.reserved, held)
          /\ wallet'.balance = wallet.balance - Spent(src = "wallet" /\ a = 0, debit)
      BY <2>1, <2>4
    <3> HIDE DEF Freed, Spent
    <3>3. \A source, at :
            /\ Held(source, at) \in Nat /\ Paid(source, at) \in Nat
            /\ source = src /\ at = a => held <= Held(source, at)
            /\ Held(source, at)' = Held(source, at)
                 - IF source = src /\ at = a THEN held ELSE 0
            /\ Paid(source, at)' = Paid(source, at)
                 + IF source = src /\ at = a THEN debit ELSE 0
      BY <1>5, <2>3
    <3>4. Closes(src, a, held, debit) BY <3>1, <3>2, <3>3 DEF Closes
    <3> QED BY <1>2, <1>3, <3>4, CloseSums
  <2> QED BY <1>5, <2>3, <2>6 DEF SumsInv
<1> QED BY <1>6, <1>7, <1>8

\* release_usage_reservation, in the source of the charge.
LEMMA ReleaseKeepsSums ==
  ASSUME RowsInv, RowsInv', SumsInv, NEW r \in Request, Release(r) PROVE SumsInv'
<1>1. Active(r) BY DEF Release, ReleaseSubscription, ReleaseTester, ReleaseWallet
<1>2. TypeOK /\ TypeOK' BY DEF RowsInv
<1>3. covered' = covered /\ mixed' = mixed /\ Released(r)
  BY DEF Release, ReleaseSubscription, ReleaseTester, ReleaseWallet
<1>4. PICK src \in Sources, a \in 0 .. Weeks, held \in Nat :
        charge[r].source = src /\ At(charge[r]) = a /\ charge[r].reserved = held
  BY <1>2, AtType
<1>5. /\ \A s \in Request \ {r} : charge'[s] = charge[s]
      /\ charge'[r].status = "released" /\ charge'[r].attempt = charge[r].attempt
  BY <1>2, <1>3, ReleasedType
<1>6. \A source, at :
        /\ Held(source, at) \in Nat /\ Paid(source, at) \in Nat
        /\ source = src /\ at = a => held <= Held(source, at)
        /\ Held(source, at)' = Held(source, at)
             - IF source = src /\ at = a THEN held ELSE 0
        /\ Paid(source, at)' = Paid(source, at)
             + IF source = src /\ at = a THEN 0 ELSE 0
  <2> TAKE source, at
  <2>1. Own(r, source, at) <=> source = src /\ at = a BY <1>4 DEF Own
  <2> QED BY <1>1, <1>2, <1>4, <1>5, <2>1, ReleaseSums
<1>7. CoveredBelow'
  <2>1. \A s \in Request : charge[s].attempt \in Nat BY <1>2 DEF TypeOK, Charge
  <2> QED BY <1>2, <1>3, <1>5, <2>1, CoveredKept DEF SumsInv
<1>8. /\ wallet.balance \in Nat
      /\ \A w \in Week : /\ window[w] \in [reserved: Nat, consumed: Nat]
                         /\ window[w].consumed \in Nat
                         /\ tester[w] \in [allowance: Nat, reserved: Nat, consumed: Nat]
                         /\ tester[w].consumed \in Nat
  BY <1>2 DEF TypeOK
<1> USE DEF Freed, Spent
<1>9. \A w \in Week :
        /\ window'[w].reserved = Freed(src = "subscription" /\ a = w, window[w].reserved, held)
        /\ window'[w].consumed = window[w].consumed + Spent(src = "subscription" /\ a = w, 0)
  <2>1. CASE ReleaseSubscription(r)
    <3>1. src = "subscription" /\ a = charge[r].window
      BY <1>4, <2>1 DEF ReleaseSubscription, At
    <3> SUFFICES ASSUME NEW w \in Week
                 PROVE  /\ window'[w].reserved = Freed(a = w, window[w].reserved, held)
                        /\ window'[w].consumed = window[w].consumed + 0
      BY <3>1
    <3>2. window'[w] = IF w = a THEN GiveBack(window[w], held) ELSE window[w]
      BY <1>4, <2>1, <3>1 DEF ReleaseSubscription
    <3>3. CASE w = a
      <4>1. window'[w] = GiveBack(window[w], held) BY <3>2, <3>3
      <4>2. /\ window[w] \in [reserved: Nat, consumed: Nat]
            /\ window[w].consumed \in Nat
        BY <1>8
      <4>3. /\ GiveBack(window[w], held).consumed = window[w].consumed
            /\ GiveBack(window[w], held).reserved = Max0(window[w].reserved - held)
        BY <4>2, GiveBackType
      <4> QED BY <4>1, <3>3, <4>2, <4>3
    <3>4. CASE w # a BY <1>8, <3>2, <3>4
    <3> QED BY <3>3, <3>4
  <2>2. CASE ReleaseTester(r) \/ ReleaseWallet(r)
    <3>1. window' = window /\ src # "subscription"
      BY <1>4, <2>2 DEF ReleaseTester, ReleaseWallet
    <3> QED BY <1>8, <3>1
  <2> QED BY <2>1, <2>2 DEF Release
<1>10. \A w \in Week :
        /\ tester'[w].reserved = Freed(src = "tester_credit" /\ a = w, tester[w].reserved, held)
        /\ tester'[w].consumed = tester[w].consumed + Spent(src = "tester_credit" /\ a = w, 0)
  <2>1. CASE ReleaseTester(r)
    <3>1. src = "tester_credit" /\ a = charge[r].tester /\ a \in Week
      BY <1>4, <2>1 DEF ReleaseTester, At
    <3> SUFFICES ASSUME NEW w \in Week
                 PROVE  /\ tester'[w].reserved = Freed(a = w, tester[w].reserved, held)
                        /\ tester'[w].consumed = tester[w].consumed + 0
      BY <3>1
    <3>2. tester' = [tester EXCEPT ![a] = GiveBack(tester[a], held)]
      BY <1>4, <2>1, <3>1 DEF ReleaseTester, GiveBack
    <3>3. tester'[w] = IF w = a THEN GiveBack(tester[w], held) ELSE tester[w]
      BY <1>2, <3>2 DEF TypeOK
    <3>4. CASE w = a
      <4>1. tester'[w] = GiveBack(tester[w], held) BY <3>3, <3>4
      <4>2. /\ tester[w] \in [allowance: Nat, reserved: Nat, consumed: Nat]
            /\ tester[w].consumed \in Nat
        BY <1>8
      <4>3. /\ GiveBack(tester[w], held).consumed = tester[w].consumed
            /\ GiveBack(tester[w], held).reserved = Max0(tester[w].reserved - held)
        BY <4>2, GiveBackTesterType
      <4> QED BY <4>1, <3>4, <4>2, <4>3
    <3>5. CASE w # a BY <1>8, <3>3, <3>5
    <3> QED BY <3>4, <3>5
  <2>2. CASE ReleaseSubscription(r) \/ ReleaseWallet(r)
    <3>1. tester' = tester /\ src # "tester_credit"
      BY <1>4, <2>2 DEF ReleaseSubscription, ReleaseWallet
    <3> QED BY <1>8, <3>1
  <2> QED BY <2>1, <2>2 DEF Release
<1>11. /\ wallet'.reserved = Freed(src = "wallet" /\ a = 0, wallet.reserved, held)
       /\ wallet'.balance = wallet.balance - Spent(src = "wallet" /\ a = 0, 0)
  <2>1. CASE ReleaseWallet(r)
    <3>1. src = "wallet" /\ a = 0 BY <1>4, <2>1 DEF ReleaseWallet, At
    <3>2. /\ wallet'.balance = wallet.balance
          /\ wallet'.reserved = Max0(wallet.reserved - held)
      BY <1>2, <1>4, <2>1 DEF ReleaseWallet, TypeOK
    <3> QED BY <1>8, <3>1, <3>2
  <2>2. CASE ReleaseSubscription(r) \/ ReleaseTester(r)
    <3>1. wallet' = wallet /\ src # "wallet"
      BY <1>4, <2>2 DEF ReleaseSubscription, ReleaseTester
    <3> QED BY <1>8, <3>1
  <2> QED BY <2>1, <2>2 DEF Release
<1> HIDE DEF Freed, Spent
<1>12. Closes(src, a, held, 0) BY <1>6, <1>9, <1>10, <1>11 DEF Closes
<1>13. HoldsAreBacked' /\ UseIsExplained' BY <1>2, <1>3, <1>12, CloseSums
<1> QED BY <1>7, <1>13 DEF SumsInv

\* Every step keeps the sums, if what creations have read is current.
LEMMA NextSums == RowsInv /\ RowsInv' /\ SnapshotsCurrent /\ SumsInv /\ [Next]_vars => SumsInv'
<1> SUFFICES ASSUME RowsInv, RowsInv', SnapshotsCurrent, SumsInv, [Next]_vars
             PROVE  SumsInv'
  OBVIOUS
<1>1. ASSUME NEW c \in Caller, Create(c) PROVE SumsInv' BY <1>1, CreateSums
<1>2. ASSUME NEW r \in Request, Expand(r) PROVE SumsInv' BY <1>2, ExpandSums
<1>3. ASSUME NEW r \in Request, Settle(r) PROVE SumsInv'
  BY <1>3, SettleKeepsSums DEF Settle
<1>4. ASSUME NEW r \in Request, Release(r) PROVE SumsInv' BY <1>4, ReleaseKeepsSums
<1>5. CASE Commit BY <1>5, CommitSums
<1>6. CASE \/ NextWindow \/ NextTesterWeek
           \/ \E a \in TesterAllowances : Configure(a)
           \/ UNCHANGED vars
  BY <1>6, SumsKept DEF NextWindow, NextTesterWeek, Configure, vars
<1> QED BY <1>1, <1>2, <1>3, <1>4, <1>5, <1>6 DEF Next

\* The sums hold as long as what creations have read is current.
LEMMA SumsInvariance == Spec /\ []SnapshotsCurrent => []SumsInv
BY InitSums, NextSums, RowsInvariance, PTL DEF Spec

\* What the open charges of a week hold is in its window, and the window fits.
LEMMA HeldFits == RowsInv /\ SumsInv => WeekFits
<1> SUFFICES ASSUME RowsInv, SumsInv, NEW w \in Week \ mixed
             PROVE  window[w].consumed + Held("subscription", w) <= Allowance(w)
  BY DEF WeekFits
<1>1. window[w].reserved \in Nat /\ window[w].consumed \in Nat
  BY DEF RowsInv, TypeOK
<1>2. Held("subscription", w) \in Nat
  <2>1. \A r \in Request : HeldMicros("subscription", w)[r] \in Nat
    BY DEF RowsInv, TypeOK, Charge, HeldMicros
  <2> QED BY <2>1, HeldIsTotal, TotalType
<1>3. window[w].reserved >= Held("subscription", w) BY DEF SumsInv, HoldsAreBacked
<1>4. window[w].reserved + window[w].consumed <= Allowance(w)
  BY DEF RowsInv, WindowsFit, WindowCheck
<1>5. Allowance(w) \in Nat BY DEF Allowance
<1> QED BY <1>1, <1>2, <1>3, <1>4, <1>5

-----------------------------------------------------------------------------
(* When what creations have read is current.                               *)

\* Two transactions that have begun to create are about two requests.
OneCreation ==
    \A c, d \in Caller :
        pending[c] # Idle /\ pending[d] # Idle /\ pending[c].request = pending[d].request
            => c = d

\* A charge that is not open is changed by a transaction that creates it.
LEMMA OnlyCreatorsOpen ==
  ASSUME RowsInv, NEW r \in Request, charge[r].status \in {"none", "released"},
         [Next]_vars, charge'[r] # charge[r]
  PROVE  \E c \in Caller : /\ pending[c] # Idle
                           /\ pending[c].request = r
                           /\ pending' = [pending EXCEPT ![c] = Idle]
<1>1. charge \in [Request -> Charge] /\ ReaderIsCurrent BY DEF RowsInv, TypeOK
<1>2. ASSUME NEW c \in Caller, NEW source, NEW at, NEW micros, pending[c] # Idle,
             Write(c, source, at, micros)
      PROVE  /\ pending[c].request = r
             /\ pending' = [pending EXCEPT ![c] = Idle]
  <2>1. \E row : charge' = [charge EXCEPT ![pending[c].request] = row]
    BY <1>2 DEF Write
  <2>2. pending[c].request = r BY <1>1, <2>1
  <2> QED BY <1>2, <2>2 DEF Write
<1>3. ASSUME NEW c \in Caller, Create(c)
      PROVE  \E source, at, micros : pending[c] # Idle /\ Write(c, source, at, micros)
  BY <1>3 DEF Create, BeginCreate, ReserveTester, BeginReserve, ReserveUnsubscribed,
              ReserveWallet, AbortCreate
<1>4. CASE CommitSubscription \/ CommitFallback
  <2>1. reader.by \in Caller /\ pending[reader.by] # Idle
    BY <1>1, <1>4 DEF CommitSubscription, CommitFallback, ReaderIsCurrent
  <2>2. \E source, at, micros : Write(reader.by, source, at, micros)
    BY <1>4 DEF CommitSubscription, CommitFallback, ReserveWallet
  <2> QED BY <1>2, <2>1, <2>2
<1>5. CASE CommitExpand \/ CommitExpandByMarker
  <2>1. Active(reader.request)
    BY <1>1, <1>5 DEF CommitExpand, CommitExpandByMarker, ReaderIsCurrent
  <2> QED BY <1>1, <1>5, <2>1 DEF CommitExpand, CommitExpandByMarker, Grow, Active
<1>6. CASE AbortExpand BY <1>6 DEF AbortExpand
<1>7. ASSUME NEW s \in Request, Expand(s) \/ Settle(s) \/ Release(s)
      PROVE  charge'[r] = charge[r]
  BY <1>1, <1>7 DEF Expand, BeginExpand, ExpandTester, Settle, SettleSubscription,
                    SettleTester, SettleWallet, Settled, Release, ReleaseSubscription,
                    ReleaseTester, ReleaseWallet, Released, Active
<1>8. CASE \/ NextWindow \/ NextTesterWeek
           \/ \E a \in TesterAllowances : Configure(a)
           \/ UNCHANGED vars
  BY <1>8 DEF NextWindow, NextTesterWeek, Configure, vars
<1> QED BY <1>2, <1>3, <1>4, <1>5, <1>6, <1>7, <1>8 DEF Next, Commit

\* Of one request id at most one creation is under way.
LEMMA OneAtATime ==
  ASSUME ~Overlap
  PROVE  Spec => []OneCreation
<1>1. Init => OneCreation BY DEF Init, OneCreation
<1>2. RowsInv /\ OneCreation /\ [Next]_vars => OneCreation'
  <2> SUFFICES ASSUME RowsInv, OneCreation, [Next]_vars PROVE OneCreation'
    OBVIOUS
  <2>1. TypeOK /\ ReaderIsCurrent BY DEF RowsInv
  <2>2. pending \in [Caller -> {Idle} \cup [request: Request, seen: Charge]]
    BY <2>1 DEF TypeOK
  <2>3. ASSUME NEW c \in Caller, NEW r \in Request, BeginCreate(c, r)
        PROVE  OneCreation'
    <3>1. /\ pending' = [pending EXCEPT ![c] = [request |-> r, seen |-> charge[r]]]
          /\ \A d \in Caller : pending[d] # Idle => pending[d].request # r
      BY <2>3 DEF BeginCreate
    <3> QED BY <2>2, <3>1 DEF OneCreation
  <2>4. ASSUME NEW c \in Caller, pending' = [pending EXCEPT ![c] = Idle]
        PROVE  OneCreation'
    BY <2>2, <2>4 DEF OneCreation
  <2>5. CASE UNCHANGED pending BY <2>5 DEF OneCreation
  <2> QED BY <2>1, <2>3, <2>4, <2>5, PendingSteps
<1> QED BY <1>1, <1>2, RowsInvariance, PTL DEF Spec

-----------------------------------------------------------------------------
(* The theorems.                                                           *)

\* Rows keep their types, and no balance, hold or consumption is negative,
\* whatever the creations have read.
THEOREM TypeCorrect == Spec => []TypeOK
<1>1. RowsInv => TypeOK BY DEF RowsInv
<1> QED BY <1>1, RowsInvariance, PTL

\* If calls for one request id do not overlap, no creation writes over a charge
\* it has not read: nothing but a creation opens one that is not there or was
\* released (create_usage_reservation).
THEOREM OneCallKeepsSnapshots ==
  ASSUME ~Overlap
  PROVE  Spec => []SnapshotsCurrent
<1>1. Init => SnapshotsCurrent BY DEF Init, SnapshotsCurrent
<1>2. RowsInv /\ OneCreation /\ SnapshotsCurrent /\ [Next]_vars => SnapshotsCurrent'
  <2> SUFFICES ASSUME RowsInv, OneCreation, SnapshotsCurrent, [Next]_vars,
                      NEW d \in Caller, pending'[d] # Idle
               PROVE  pending'[d].seen = charge'[pending'[d].request]
    BY DEF SnapshotsCurrent
  <2>1. TypeOK /\ ReaderIsCurrent /\ SeenAreClosed BY DEF RowsInv
  <2>2. pending \in [Caller -> {Idle} \cup [request: Request, seen: Charge]]
    BY <2>1 DEF TypeOK
  <2>3. CASE \E c \in Caller, r \in Request : BeginCreate(c, r)
    <3>1. PICK c \in Caller, r \in Request : BeginCreate(c, r) BY <2>3
    <3>2. charge' = charge /\ pending' = [pending EXCEPT ![c] = [request |-> r, seen |-> charge[r]]]
      BY <3>1 DEF BeginCreate
    <3> QED BY <2>2, <3>2 DEF SnapshotsCurrent
  <2>4. CASE \/ UNCHANGED pending
             \/ \E c \in Caller : pending' = [pending EXCEPT ![c] = Idle]
    <3>1. pending'[d] = pending[d] /\ pending[d] # Idle BY <2>2, <2>4
    <3>2. PICK r \in Request : pending[d].request = r BY <2>1, <3>1, PendingType
    <3>3. charge[r].status \in {"none", "released"} /\ pending[d].seen = charge[r]
      BY <2>1, <3>1, <3>2 DEF SeenAreClosed, SnapshotsCurrent
    <3>4. charge'[r] = charge[r]
      <4>1. SUFFICES ASSUME charge'[r] # charge[r] PROVE FALSE
        OBVIOUS
      <4>2. PICK c \in Caller : /\ pending[c] # Idle
                                /\ pending[c].request = r
                                /\ pending' = [pending EXCEPT ![c] = Idle]
        BY <3>3, <4>1, OnlyCreatorsOpen
      <4>3. c = d BY <3>1, <3>2, <4>2 DEF OneCreation
      <4> QED BY <2>2, <3>1, <4>2, <4>3
    <3> QED BY <3>1, <3>2, <3>3, <3>4
  <2> QED BY <2>1, <2>3, <2>4, PendingSteps
<1> QED BY <1>1, <1>2, OneAtATime, RowsInvariance, PTL DEF Spec

\* Whatever is open is backed by its source (create_usage_reservation,
\* expand_usage_reservation, settle_usage_reservation, release_usage_reservation),
\* also where a reservation wrote a window from values it had read before a
\* settlement or a release; as long as the charge that a creation read without
\* a lock is the charge it writes over.
THEOREM HoldsBacked == Spec /\ []SnapshotsCurrent => []HoldsAreBacked
<1>1. SumsInv => HoldsAreBacked BY DEF SumsInv
<1> QED BY <1>1, SumsInvariance, PTL

\* On that condition, a subscriber's week that no expansion has mixed with
\* another never costs more than its allowance (active_window,
\* settle_subscription_window).
THEOREM WeeksFit == Spec /\ []SnapshotsCurrent => []WeekFits
BY HeldFits, RowsInvariance, SumsInvariance, PTL

\* On that condition, settled charges explain what every source has paid
\* (settle_usage_reservation).
THEOREM UseExplained == Spec /\ []SnapshotsCurrent => []UseIsExplained
<1>1. SumsInv => UseIsExplained BY DEF SumsInv
<1> QED BY <1>1, SumsInvariance, PTL
=============================================================================
