---------------------------- MODULE MCRemoteRun ----------------------------
(* Constant values for the TLC runs of RemoteRun. *)
EXTENDS RemoteRun

\* The host reports call and teardown of a CPython test separately.
TwoPhases == [i \in 1..N |-> IF i \in Ipy THEN {"call"} ELSE {"call", "teardown"}]
OnePhase == [i \in 1..N |-> {"call"}]

GoodAndBad == {"passed", "failed"}

\* A pass, and the words for which the client says another.
Translated == {"passed", "xfailed", "xpassed", "other"}
=============================================================================
