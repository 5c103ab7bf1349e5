---------------------------- MODULE MCEntitlements ----------------------------
(* Two users who may refer each other, one with two orders.                  *)
EXTENDS Entitlements, TLC

CONSTANTS a, b, a1, a2, b1

MCOwner == a1 :> a @@ a2 :> a @@ b1 :> b

Others == {h \in Handlers : Busy(h) /\ job[h].task # "webhook"}

\* a1 is paid first, and is the one that is refunded, verified or reconciled;
\* users claim before the first payment, a before b.
Bounds ==
    /\ \A o \in Orders \ {a1} : issued[o] = 0
    /\ paid # {} => a1 \in paid
    /\ claiming # {} => paid = {}
    /\ referrer[b] # None => referrer[a] # None
    /\ \A h \in Others : Of(h) = a1
    /\ Cardinality(Others) <= 1

MCSpec == Init /\ [][Next /\ Bounds']_vars

Symmetry == Permutations(Handlers)
=============================================================================
