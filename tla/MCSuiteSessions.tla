-------------------------- MODULE MCSuiteSessions --------------------------
(* Constant values for the TLC runs of SuiteSessions. *)
EXTENDS SuiteSessions, TLC

CONSTANTS p1, p2, p3, kA, kB

TwoSuites == p1 :> kA @@ p2 :> kB
SameSuite == p1 :> kA @@ p2 :> kA
OneSuite == p1 :> kA @@ p2 :> kA @@ p3 :> kA

TwoVersions == 1 :> 1 @@ 2 :> 2
JustOne == 1 :> 1

\* kA takes any version; kB, where present, wants the newer one.
LooseAndNewer == kA :> AnyVersion @@ kB :> 2
Loose == kA :> AnyVersion
=============================================================================
