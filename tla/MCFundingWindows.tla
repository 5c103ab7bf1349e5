-------------------------- MODULE MCFundingWindows --------------------------
(* Instances of FundingWindows for TLC; requests are interchangeable, and  *)
(* so are the transactions.                                                *)
EXTENDS FundingWindows, TLC

RequestSymmetry == Permutations(Request) \cup Permutations(Caller)
=============================================================================
