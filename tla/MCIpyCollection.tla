-------------------------- MODULE MCIpyCollection --------------------------
(* Constant values for the TLC runs of IpyCollection. *)
EXTENDS IpyCollection, TLC

SuiteItem == <<"(suite)">>

\* No name stands out.
Names == Permutations(Classes) \cup Permutations(Methods)
=============================================================================
