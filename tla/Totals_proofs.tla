---------------------------- MODULE Totals_proofs ----------------------------
(* The laws of Total, from those of Cardinality.                           *)
EXTENDS Totals, FiniteSetTheorems, TLAPS

\* The micros of finitely many rows are finitely many.
LEMMA MicrosFinite ==
  ASSUME NEW rows, IsFiniteSet(rows),
         NEW amount, \A i \in rows : amount[i] \in Nat
  PROVE  IsFiniteSet(Micros(rows, amount))
<1> DEFINE Op(i) == {i} \X (1 .. amount[i])
<1>1. IsFiniteSet({Op(i) : i \in rows})
  <2> DEFINE T == {Op(i) : i \in rows}
             f == [i \in rows |-> Op(i)]
  <2>1. f \in Surjection(rows, T) BY DEF Surjection
  <2> HIDE DEF f, T
  <2> QED BY <2>1, FS_Surjection DEF T
<1>2. ASSUME NEW i \in rows PROVE IsFiniteSet(Op(i))
  <2>1. IsFiniteSet({i}) BY FS_Singleton
  <2>2. IsFiniteSet(1 .. amount[i]) BY FS_Interval
  <2> QED BY <2>1, <2>2, FS_Product
<1>3. \A T \in {Op(i) : i \in rows} : IsFiniteSet(T) BY <1>2
<1> QED BY <1>1, <1>3, FS_UNION DEF Micros

\* A sum of naturals is a natural.
LEMMA TotalType ==
  ASSUME NEW rows, IsFiniteSet(rows),
         NEW amount, \A i \in rows : amount[i] \in Nat
  PROVE  Total(rows, amount) \in Nat
BY MicrosFinite, FS_CardinalityType DEF Total

\* The sum over one row is its amount.
LEMMA TotalOne ==
  ASSUME NEW i, NEW amount, amount[i] \in Nat
  PROVE  Total({i}, amount) = amount[i]
<1>1. Micros({i}, amount) = {i} \X (1 .. amount[i]) BY DEF Micros
<1>2. IsFiniteSet({i}) /\ Cardinality({i}) = 1 BY FS_Singleton
<1>3. IsFiniteSet(1 .. amount[i]) /\ Cardinality(1 .. amount[i]) = amount[i]
  BY FS_Interval
<1>4. Cardinality({i} \X (1 .. amount[i]))
         = Cardinality({i}) * Cardinality(1 .. amount[i])
  BY <1>2, <1>3, FS_Product
<1>5. Cardinality({i}) * Cardinality(1 .. amount[i]) = amount[i] BY <1>2, <1>3
<1> QED BY <1>1, <1>4, <1>5 DEF Total

\* The sum over no row is 0.
LEMMA TotalNone == ASSUME NEW amount PROVE Total({}, amount) = 0
BY FS_EmptySet DEF Total, Micros

\* Equal amounts have equal sums.
LEMMA TotalSame ==
  ASSUME NEW rows, NEW f, NEW g, \A i \in rows : f[i] = g[i]
  PROVE  Total(rows, f) = Total(rows, g)
BY DEF Total, Micros

\* A sum splits along any subset of its rows.
LEMMA TotalSplit ==
  ASSUME NEW rows, IsFiniteSet(rows), NEW part, part \subseteq rows,
         NEW amount, \A i \in rows : amount[i] \in Nat
  PROVE  Total(rows, amount) = Total(part, amount) + Total(rows \ part, amount)
<1> DEFINE A == Micros(part, amount)
           B == Micros(rows \ part, amount)
<1>1. IsFiniteSet(part) /\ IsFiniteSet(rows \ part) BY FS_Subset
<1>2. IsFiniteSet(A) /\ IsFiniteSet(B) BY <1>1, MicrosFinite
<1>3. Micros(rows, amount) = A \cup B BY DEF Micros
<1>4. A \cap B = {} BY DEF Micros
<1>5. Cardinality(A \cap B) = 0 BY <1>4, FS_EmptySet
<1>6. Cardinality(A \cup B) = Cardinality(A) + Cardinality(B) - Cardinality(A \cap B)
  BY <1>2, FS_Union
<1>7. Cardinality(A) \in Nat /\ Cardinality(B) \in Nat BY <1>2, FS_CardinalityType
<1> HIDE DEF A, B
<1> QED BY <1>3, <1>5, <1>6, <1>7 DEF Total, A, B

\* Changing the amount of one row changes the sum by the difference.
LEMMA TotalChange ==
  ASSUME NEW rows, IsFiniteSet(rows), NEW r \in rows,
         NEW f, \A i \in rows : f[i] \in Nat,
         NEW g, \A i \in rows : g[i] \in Nat,
         \A i \in rows \ {r} : g[i] = f[i]
  PROVE  Total(rows, g) = Total(rows, f) - f[r] + g[r]
<1>1. Total(rows, f) = Total({r}, f) + Total(rows \ {r}, f) BY TotalSplit
<1>2. Total(rows, g) = Total({r}, g) + Total(rows \ {r}, g) BY TotalSplit
<1>3. Total({r}, f) = f[r] /\ Total({r}, g) = g[r] BY TotalOne
<1>4. Total(rows \ {r}, g) = Total(rows \ {r}, f) BY TotalSame
<1>5. IsFiniteSet(rows \ {r}) BY FS_RemoveElement
<1>6. Total(rows \ {r}, f) \in Nat BY <1>5, TotalType
<1> QED BY <1>1, <1>2, <1>3, <1>4, <1>6

\* A part of a sum is at most the sum.
LEMMA TotalPart ==
  ASSUME NEW rows, IsFiniteSet(rows), NEW part, part \subseteq rows,
         NEW amount, \A i \in rows : amount[i] \in Nat
  PROVE  Total(part, amount) <= Total(rows, amount)
<1>1. IsFiniteSet(part) /\ IsFiniteSet(rows \ part) BY FS_Subset
<1>2. Total(part, amount) \in Nat /\ Total(rows \ part, amount) \in Nat
  BY <1>1, TotalType
<1> QED BY <1>2, TotalSplit

\* Smaller amounts have a smaller sum.
LEMMA TotalMonotone ==
  ASSUME NEW rows, IsFiniteSet(rows),
         NEW f, \A i \in rows : f[i] \in Nat,
         NEW g, \A i \in rows : g[i] \in Nat,
         \A i \in rows : g[i] <= f[i]
  PROVE  Total(rows, g) <= Total(rows, f)
<1>1. Micros(rows, g) \subseteq Micros(rows, f)
  <2> SUFFICES ASSUME NEW i \in rows, NEW n \in 1 .. g[i]
               PROVE  <<i, n>> \in Micros(rows, f)
    BY DEF Micros
  <2>1. n \in 1 .. f[i] OBVIOUS
  <2> QED BY <2>1 DEF Micros
<1>2. IsFiniteSet(Micros(rows, f)) BY MicrosFinite
<1> QED BY <1>1, <1>2, FS_Subset DEF Total

\* Rows that are named otherwise have the same sum.
LEMMA TotalRenamed ==
  ASSUME NEW rows, IsFiniteSet(rows), NEW others,
         NEW name \in Bijection(rows, others),
         NEW f, \A i \in rows : f[i] \in Nat,
         NEW g, \A i \in rows : g[name[i]] = f[i]
  PROVE  Total(others, g) = Total(rows, f)
<1> DEFINE A == Micros(rows, f)
           B == Micros(others, g)
           move == [m \in A |-> <<name[m[1]], m[2]>>]
<1>1. \A m : m \in A <=> \E i \in rows : \E n \in 1 .. f[i] : m = <<i, n>>
  BY DEF Micros
<1>2. \A m : m \in B <=> \E k \in others : \E n \in 1 .. g[k] : m = <<k, n>>
  BY DEF Micros
<1>3. /\ name \in [rows -> others]
      /\ \A i, k \in rows : name[i] = name[k] => i = k
      /\ \A k \in others : \E i \in rows : name[i] = k
  BY DEF Bijection, Injection, Surjection, IsInjective
<1>4. \A m \in A : move[m] = <<name[m[1]], m[2]>> OBVIOUS
<1> HIDE DEF A, B
<1>5. move \in [A -> B]
  <2> SUFFICES ASSUME NEW m \in A PROVE move[m] \in B
    OBVIOUS
  <2>1. PICK i \in rows : \E n \in 1 .. f[i] : m = <<i, n>> BY <1>1
  <2>2. PICK n \in 1 .. f[i] : m = <<i, n>> BY <2>1
  <2>3. move[m] = <<name[i], n>> BY <1>4, <2>2
  <2>4. name[i] \in others /\ g[name[i]] = f[i] BY <1>3
  <2> QED BY <1>2, <2>3, <2>4
<1>6. \A m, o \in A : move[m] = move[o] => m = o
  <2> SUFFICES ASSUME NEW m \in A, NEW o \in A, move[m] = move[o] PROVE m = o
    OBVIOUS
  <2>1. PICK i \in rows : \E n \in 1 .. f[i] : m = <<i, n>> BY <1>1
  <2>2. PICK k \in rows : \E p \in 1 .. f[k] : o = <<k, p>> BY <1>1
  <2>3. PICK n \in 1 .. f[i] : m = <<i, n>> BY <2>1
  <2>4. PICK p \in 1 .. f[k] : o = <<k, p>> BY <2>2
  <2>5. name[i] = name[k] /\ n = p BY <1>4, <2>3, <2>4
  <2> QED BY <1>3, <2>3, <2>4, <2>5
<1>7. \A o \in B : \E m \in A : move[m] = o
  <2> SUFFICES ASSUME NEW o \in B PROVE \E m \in A : move[m] = o
    OBVIOUS
  <2>1. PICK k \in others : \E n \in 1 .. g[k] : o = <<k, n>> BY <1>2
  <2>2. PICK n \in 1 .. g[k] : o = <<k, n>> BY <2>1
  <2>3. PICK i \in rows : name[i] = k BY <1>3
  <2>4. <<i, n>> \in A BY <1>1, <2>3
  <2> QED BY <1>4, <2>2, <2>3, <2>4
<1> HIDE DEF move
<1>8. move \in Bijection(A, B)
  BY <1>5, <1>6, <1>7 DEF Bijection, Injection, Surjection, IsInjective
<1>9. ExistsBijection(A, B) BY <1>8 DEF ExistsBijection
<1>10. IsFiniteSet(A) BY MicrosFinite DEF A
<1> QED BY <1>9, <1>10, FS_Bijection DEF Total, A, B
=============================================================================
