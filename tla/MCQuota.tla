------------------------------- MODULE MCQuota -------------------------------
(* Small instances of Quota: the free plan allows one call a day and two a   *)
(* month, the pro plan two a day, and the business plan is not limited.      *)
EXTENDS Quota, TLC

MCLimits == [plan \in Plans |->
  CASE plan = "free" -> [rpd |-> 1, rmo |-> 2]
    [] plan = "pro" -> [rpd |-> 2, rmo |-> -1]
    [] OTHER -> [rpd |-> -1, rmo |-> -1]]
MCDayOf == [t \in Time |-> IF t = 0 THEN "monday" ELSE "tuesday"]
MCMonthOf == [t \in Time |-> "june"]
MCSymmetry == Permutations(Calls)
==============================================================================
