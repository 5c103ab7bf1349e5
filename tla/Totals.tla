------------------------------- MODULE Totals -------------------------------
(* Sums of micro-INR amounts over a finite set of rows: the SQL            *)
(* "sum(...) where ..." of the billing code.                               *)
(*                                                                         *)
(* A sum is the number of micros counted one by one, so that its laws      *)
(* follow from those of Cardinality.                                       *)
EXTENDS Integers, FiniteSets

Micros(rows, amount) == UNION { {i} \X (1 .. amount[i]) : i \in rows }

Total(rows, amount) == Cardinality(Micros(rows, amount))

Max0(n) == IF n > 0 THEN n ELSE 0

Lesser(m, n) == IF m < n THEN m ELSE n
=============================================================================
