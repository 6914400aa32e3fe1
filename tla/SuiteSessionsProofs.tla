------------------------ MODULE SuiteSessionsProofs ------------------------
EXTENDS SuiteSessions, TLAPS

LEMMA InitType == Init => TypeOK
  BY HostsAssumption DEF Init, TypeOK, LeaseMap, MaybeHost, NoLeases, Labels, Held, ModeNames

LEMMA DropType ==
  ASSUME TypeOK, NEW p \in Procs, Drop(p)
  PROVE  /\ instances' \in [Procs -> SUBSET Hosts]
         /\ free' \in [Procs -> SUBSET Hosts]
         /\ target' \in [Procs -> MaybeHost]
  BY DEF TypeOK, Drop, MaybeHost

LEMMA LeaveType ==
  ASSUME TypeOK, NEW p \in Procs, Leave(p)
  PROVE  /\ pc' \in [Procs -> Labels]
         /\ mode' \in [Procs -> ModeNames]
         /\ leases' \in [Procs -> LeaseMap]
         /\ instances' \in [Procs -> SUBSET Hosts]
         /\ free' \in [Procs -> SUBSET Hosts]
         /\ target' \in [Procs -> MaybeHost]
<1>1. NoLeases \in LeaseMap
  BY DEF NoLeases, LeaseMap, MaybeHost
<1>2. Drop(p)
  BY DEF Leave
<1> QED
  BY <1>1, <1>2, DropType DEF TypeOK, Leave, Goto, Labels, ModeNames

LEMMA SpawnType ==
  ASSUME TypeOK, NEW h \in Hosts, Spawn(h)
  PROVE  /\ host' \in [Hosts -> {"none", "starting", "up", "dead"}]
         /\ recycled' \subseteq Hosts
  BY DEF TypeOK, Spawn

LEMMA ConnectType ==
  ASSUME TypeOK, NEW p \in Procs, NEW h \in Hosts, NEW l \in Labels, Connect(p, h, l)
  PROVE  TypeOK'
  BY DEF TypeOK, Connect, Goto, MaybeHost, shared

LEMMA SaveType ==
  ASSUME TypeOK, NEW p \in Procs, NEW copy \in LeaseMap, NEW l \in Labels, Save(p, copy, l)
  PROVE  TypeOK'
<1>1. CASE Leave(p) /\ leaseFile' = leaseFile
  BY <1>1, LeaveType DEF TypeOK, Save
<1>2. CASE Drop(p) /\ Goto(p, l) /\ leaseFile' = copy /\ mode' = mode
             /\ leases' = [leases EXCEPT ![p] = copy]
  BY <1>2, DropType DEF TypeOK, Save, Goto
<1> QED
  BY <1>1, <1>2 DEF Save

LEMMA FindFreeType ==
  ASSUME NEW p \in Procs, NEW found \in SUBSET Hosts
  PROVE  FindFree(p, found) \in SUBSET Hosts
  BY DEF FindFree

\* The labels that Goto and its callers name.
LEMMA LabelsAre ==
  /\ Held \subseteq Labels
  /\ {"off", "collected", "rejected", "closing", "released"} \subseteq Labels
  BY DEF Labels

LEMMA EndedType ==
  ASSUME TypeOK, NEW p \in Procs, Ended(p)
  PROVE  TypeOK'
<1>1. Drop(p)
  BY DEF Ended
<1>2. NoLeases \in LeaseMap
  BY DEF NoLeases, LeaseMap, MaybeHost
<1> QED
  BY <1>1, <1>2, DropType, LabelsAre DEF TypeOK, Ended, Goto, ModeNames, MaybeHost, shared

LEMMA SessionStepType ==
  ASSUME TypeOK, NEW p \in Procs, SessionStep(p)
  PROVE  TypeOK'
<1> USE LabelsAre, SuiteOfAssumption DEF shared, search
<1>1. CASE EndBeforeMutex(p) \/ CreateMutexFails(p) \/ CloseProbe(p) \/ HandshakeFails(p)
           \/ LaunchFails(p) \/ LaunchTimeout(p) \/ SkipAll(p) \/ FinishRun(p)
  <2>1. Leave(p) /\ UNCHANGED <<shared, conn>> /\ handle' \in [Procs -> {"none", "owner", "probe"}]
    BY <1>1 DEF TypeOK, EndBeforeMutex, CreateMutexFails, CloseProbe, HandshakeFails,
       LaunchFails, LaunchTimeout, SkipAll, FinishRun
  <2> QED
    BY <2>1, LeaveType DEF TypeOK
<1>2. CASE CreateMutex(p) \/ SkipMutex(p) \/ PipeAppears(p) \/ Start(p) \/ ReleaseMutex(p)
  BY <1>2 DEF TypeOK, CreateMutex, SkipMutex, PipeAppears, Start, ReleaseMutex, Goto, Held
<1>3. CASE ListInstances(p)
  <2>1. \A found \in Listings(SuiteOf[p]) : found \in SUBSET Hosts
    BY DEF Listings
  <2> QED
    BY <1>3, <2>1 DEF TypeOK, ListInstances, Goto, Held
<1>4. CASE CheckLease(p)
  BY <1>4 DEF TypeOK, CheckLease, Goto, Held, LeaseMap, MaybeHost
<1>5. CASE Reconnect(p) \/ ConnectLaunched(p) \/ ConnectFree(p) \/ ConnectExplicit(p)
  <2>1. PICK h \in MaybeHost, l \in {"assign", "attached"} : Connect(p, h, l)
    BY <1>5 DEF TypeOK, Reconnect, ConnectLaunched, ConnectFree, ConnectExplicit, MaybeHost
  <2>2. l \in Labels
    BY DEF Held
  <2> QED
    BY <2>1, <2>2 DEF TypeOK, Connect, Goto, MaybeHost
<1>6. CASE ReconnectRefused(p)
  BY <1>6 DEF TypeOK, ReconnectRefused, Goto, Held, MaybeHost
<1>7. CASE ClearSuite(p)
  <2>1. [leases[p] EXCEPT ![SuiteOf[p]] = NoHost] \in LeaseMap
    BY DEF TypeOK, LeaseMap, MaybeHost
  <2> QED
    BY <1>7, <2>1, SaveType DEF ClearSuite, Held
<1>8. CASE Assign(p)
  <2>1. [leases[p] EXCEPT ![SuiteOf[p]] = target[p]] \in LeaseMap
    BY DEF TypeOK, LeaseMap, MaybeHost
  <2> QED
    BY <1>8, <2>1, SaveType DEF Assign, Held
<1>9. CASE Relist(p)
  <2>1. \A found \in Listings(SuiteOf[p]) : found \in SUBSET Hosts /\ FindFree(p, found) \in SUBSET Hosts
    BY DEF Listings, FindFree
  <2> QED
    BY <1>9, <2>1 DEF TypeOK, Relist, Goto, Held
<1>10. CASE CandidateRefused(p)
  <2>1. CASE Leave(p)
    BY <1>10, <2>1, LeaveType DEF TypeOK, CandidateRefused
  <2>2. CASE ~Leave(p)
    BY <1>10, <2>2 DEF TypeOK, CandidateRefused
  <2> QED
    BY <2>1, <2>2
<1>11. CASE Launch(p)
  <2>1. PICK h \in Hosts : Spawn(h) /\ target' = [target EXCEPT ![p] = h]
    BY <1>11 DEF Launch
  <2> QED
    BY <1>11, <2>1, SpawnType DEF TypeOK, Launch, Goto, Held, MaybeHost
<1>12. CASE Disconnect(p)
  BY <1>12, EndedType DEF Disconnect
<1> QED
  BY <1>1, <1>2, <1>3, <1>4, <1>5, <1>6, <1>7, <1>8, <1>9, <1>10, <1>11, <1>12 DEF SessionStep

LEMMA NextType == TypeOK /\ [Next]_vars => TypeOK'
<1> SUFFICES ASSUME TypeOK, [Next]_vars PROVE TypeOK'
  OBVIOUS
<1>1. CASE UNCHANGED vars
  BY <1>1 DEF TypeOK, vars, shared, search
<1>2. ASSUME NEW p \in Procs, Configure(p) PROVE TypeOK'
  BY <1>2, LabelsAre, ModesAssumption
     DEF TypeOK, Configure, Goto, shared, search, LeaseMap, NoLeases, MaybeHost
<1>3. ASSUME NEW p \in Procs, SessionStep(p) PROVE TypeOK'
  BY <1>3, SessionStepType
<1>4. ASSUME NEW p \in Procs, Crash(p) PROVE TypeOK'
  BY <1>4, EndedType DEF Crash
<1>5. ASSUME NEW h \in Hosts, HostStep(h) PROVE TypeOK'
  BY <1>5, SpawnType DEF TypeOK, HostStep, OpenHost, HostReady, HostExit, search
<1> QED
  BY <1>1, <1>2, <1>3, <1>4, <1>5 DEF Next

\* Type correctness of every session, host and lease map, for any processes,
\* suites and hosts.
THEOREM TypeCorrect == Spec => []TypeOK
  BY InitType, NextType, PTL DEF Spec

-----------------------------------------------------------------------------
(* The inductive invariant. *)

\* Hosts never return to the state before their first start, and process ids
\* stay recycled.
Grows == /\ \A h \in Hosts : host[h] # "none" => host'[h] # "none"
         /\ recycled \subseteq recycled'

\* What session q owns stays as it is.
Still(q) == /\ pc'[q] = pc[q] /\ mode'[q] = mode[q] /\ handle'[q] = handle[q]
            /\ leases'[q] = leases[q] /\ instances'[q] = instances[q]
            /\ free'[q] = free[q] /\ target'[q] = target[q] /\ conn'[q] = conn[q]

LEMMA SpawnGrows ==
  ASSUME TypeOK, NEW h \in Hosts, Spawn(h)
  PROVE  Grows
  BY DEF TypeOK, Spawn, Grows

LEMMA NextGrows == TypeOK /\ [Next]_vars => Grows
<1> SUFFICES ASSUME TypeOK, [Next]_vars PROVE Grows
  OBVIOUS
<1> USE DEF shared
<1>1. CASE host' = host /\ recycled' = recycled
  BY <1>1 DEF Grows
<1>2. ASSUME NEW p \in Procs, Launch(p) PROVE Grows
  BY <1>2, SpawnGrows DEF Launch
<1>3. ASSUME NEW h \in Hosts, HostStep(h) PROVE Grows
  BY <1>3, SpawnGrows DEF HostStep, OpenHost, HostReady, HostExit, TypeOK, Grows
<1>4. ASSUME NEW p \in Procs, SessionStep(p), ~Launch(p) PROVE host' = host /\ recycled' = recycled
  BY <1>4 DEF SessionStep, EndBeforeMutex, CreateMutex, CreateMutexFails, CloseProbe,
     SkipMutex, ListInstances, CheckLease, Reconnect, ReconnectRefused, ClearSuite, Relist,
     ConnectFree, CandidateRefused, HandshakeFails, Assign, LaunchFails, PipeAppears,
     LaunchTimeout, ConnectLaunched, ConnectExplicit, Start, SkipAll, FinishRun,
     ReleaseMutex, Disconnect, Connect, Save, Ended
<1>5. ASSUME NEW p \in Procs, Configure(p) \/ Crash(p) PROVE host' = host /\ recycled' = recycled
  BY <1>5 DEF Configure, Crash, Ended
<1> QED
  BY <1>1, <1>2, <1>3, <1>4, <1>5 DEF Next, vars

LEMMA MoveStill ==
  ASSUME TypeOK, NEW p \in Procs, Configure(p) \/ SessionStep(p) \/ Crash(p)
  PROVE  \A q \in Procs \ {p} : Still(q)
<1> SUFFICES ASSUME NEW q \in Procs, q # p PROVE Still(q)
  OBVIOUS
<1> USE DEF TypeOK, Still, Goto, Drop, search
<1>1. CASE Configure(p) \/ CreateMutex(p) \/ SkipMutex(p) \/ ListInstances(p) \/ CheckLease(p)
           \/ ReconnectRefused(p) \/ Relist(p) \/ PipeAppears(p) \/ Start(p) \/ ReleaseMutex(p)
           \/ Launch(p)
  BY <1>1 DEF Configure, CreateMutex, SkipMutex, ListInstances, CheckLease,
     ReconnectRefused, Relist, PipeAppears, Start, ReleaseMutex, Launch
<1>2. CASE EndBeforeMutex(p) \/ CreateMutexFails(p) \/ CloseProbe(p) \/ HandshakeFails(p)
           \/ LaunchFails(p) \/ LaunchTimeout(p) \/ SkipAll(p) \/ FinishRun(p)
  BY <1>2 DEF Leave, EndBeforeMutex, CreateMutexFails, CloseProbe, HandshakeFails,
     LaunchFails, LaunchTimeout, SkipAll, FinishRun
<1>3. CASE Reconnect(p) \/ ConnectLaunched(p) \/ ConnectFree(p) \/ ConnectExplicit(p)
  BY <1>3 DEF Connect, Reconnect, ConnectLaunched, ConnectFree, ConnectExplicit
<1>4. CASE ClearSuite(p) \/ Assign(p)
  BY <1>4 DEF ClearSuite, Assign, Save, Leave
<1>5. CASE CandidateRefused(p)
  BY <1>5 DEF CandidateRefused, Leave
<1>6. CASE Disconnect(p) \/ Crash(p)
  BY <1>6 DEF Disconnect, Crash, Ended
<1> QED
  BY <1>1, <1>2, <1>3, <1>4, <1>5, <1>6 DEF SessionStep

\* A map stays injective and its hosts started, whatever the hosts do.
LEMMA MapFrame ==
  ASSUME TypeOK, Grows, NEW map \in LeaseMap, Injective(map), Known(map)
  PROVE  Injective(map)' /\ Known(map)'
  BY DEF Injective, Known, Grows, LeaseMap, MaybeHost

\* A session that does not move keeps its invariant.
LEMMA SessionFrame ==
  ASSUME TypeOK, Grows, NEW q \in Procs, Still(q), SessionInv(q)
  PROVE  SessionInv(q)'
<1>1. leases[q] \in LeaseMap
  BY DEF TypeOK
<1>2. \A h : LeasedElsewhere(q, h)' <=> LeasedElsewhere(q, h)
  BY DEF Still, LeasedElsewhere
<1>3. \A h : Safe(q, h) => Safe(q, h)'
  BY <1>2 DEF Safe, Grows
<1>4. Injective(leases[q])' /\ Known(leases[q])'
  BY <1>1 DEF Still, SessionInv, Injective, Known, Grows, LeaseMap, MaybeHost
<1> QED
  BY <1>2, <1>3, <1>4 DEF SessionInv, Still, At, Leasing, Guarded, Forced, UsesPipe

-----------------------------------------------------------------------------
(* Each action re-establishes the invariant of the session that takes it. *)

\* A session that has left holds nothing the invariant speaks of.
LEMMA LeaveInv ==
  ASSUME TypeOK, NEW p \in Procs, pc'[p] \in {"off", "closing"}, leases'[p] = NoLeases
  PROVE  SessionInv(p)'
  BY DEF SessionInv, Injective, Known, NoLeases, At, Leasing, Guarded, Attached, Held

LEMMA ConfigureInv ==
  ASSUME IInv, NEW p \in Procs, Configure(p)
  PROVE  SessionInv(p)'
<1>1. PICK view \in {leaseFile, NoLeases} : leases'[p] = view
  BY DEF IInv, TypeOK, Configure
<1>2. Injective(leases[p])' /\ Known(leases[p])'
  BY <1>1 DEF IInv, Configure, Injective, Known, NoLeases, shared
<1>3. pc'[p] = "collected"
  BY DEF IInv, TypeOK, Configure, Goto
<1> QED
  BY <1>2, <1>3 DEF SessionInv, At, Leasing, Guarded, Attached, Held

\* Steps that change neither a lease map nor a host.
LEMMA QuietInv ==
  ASSUME IInv, NEW p \in Procs,
         \/ CreateMutex(p) \/ SkipMutex(p) \/ ListInstances(p) \/ ReconnectRefused(p)
         \/ PipeAppears(p) \/ Start(p) \/ ReleaseMutex(p)
  PROVE  SessionInv(p)'
<1>1. UNCHANGED <<leaseFile, host, recycled, leases, mode>>
  BY DEF CreateMutex, SkipMutex, ListInstances, ReconnectRefused, PipeAppears, Start,
     ReleaseMutex, shared
<1>2. \A h : LeasedElsewhere(p, h)' <=> LeasedElsewhere(p, h)
  BY <1>1 DEF LeasedElsewhere
<1>3. \A h : Safe(p, h) => Safe(p, h)'
  BY <1>1, <1>2 DEF Safe
<1>4. Injective(leases[p])' /\ Known(leases[p])'
  BY <1>1 DEF IInv, SessionInv, Injective, Known
<1>5. SessionInv(p) /\ TypeOK
  BY DEF IInv
<1>6. CASE CreateMutex(p)
  BY <1>1, <1>4, <1>5, <1>6
     DEF SessionInv, TypeOK, CreateMutex, Goto, At, Leasing, Guarded, Attached, Held, Forced
<1>7. CASE SkipMutex(p)
  BY <1>1, <1>4, <1>5, <1>7
     DEF SessionInv, TypeOK, SkipMutex, Goto, At, Leasing, Guarded, Attached, Held, Forced,
         UsesPipe, ModeNames
<1>8. CASE ListInstances(p)
  BY <1>1, <1>4, <1>5, <1>8
     DEF SessionInv, TypeOK, ListInstances, Goto, At, Leasing, Guarded, Attached, Held,
         Forced, UsesPipe
<1>9. CASE ReconnectRefused(p)
  BY <1>1, <1>4, <1>5, <1>9
     DEF SessionInv, TypeOK, ReconnectRefused, Goto, At, Leasing, Guarded, Attached, Held,
         Forced, UsesPipe
<1>10. CASE PipeAppears(p)
  BY <1>1, <1>3, <1>4, <1>5, <1>10
     DEF SessionInv, TypeOK, PipeAppears, Goto, At, Leasing, Guarded, Attached, Held,
         Forced, UsesPipe, search
<1>11. CASE Start(p)
  BY <1>1, <1>4, <1>5, <1>11
     DEF SessionInv, TypeOK, Start, Goto, At, Leasing, Guarded, Attached, Held,
         Forced, UsesPipe
<1>12. CASE ReleaseMutex(p)
  BY <1>1, <1>4, <1>5, <1>12
     DEF SessionInv, TypeOK, ReleaseMutex, Goto, At, Leasing, Guarded, Attached, Held
<1> QED
  BY <1>6, <1>7, <1>8, <1>9, <1>10, <1>11, <1>12

\* The suite's own lease may be followed: no other suite has that host.
LEMMA CheckLeaseInv ==
  ASSUME IInv, NEW p \in Procs, CheckLease(p)
  PROVE  SessionInv(p)'
<1> DEFINE own == leases[p][SuiteOf[p]]
<1>1. SessionInv(p) /\ TypeOK
  BY DEF IInv
<1>2. UNCHANGED <<host, recycled, leases, mode, handle>>
  BY DEF CheckLease, shared
<1>3. own \in MaybeHost /\ SuiteOf[p] \in Suites
  BY <1>1, SuiteOfAssumption DEF TypeOK, LeaseMap
<1>4. own # NoHost => Safe(p, own)
  BY <1>1, <1>3 DEF SessionInv, Safe, LeasedElsewhere, Injective, Known, MaybeHost
<1>5. \A h : Safe(p, h) => Safe(p, h)'
  BY <1>2 DEF Safe, LeasedElsewhere
<1>6. pc'[p] \in {"relist", "clear", "reconnect"}
  BY <1>1 DEF CheckLease, Goto, TypeOK
<1>7. pc'[p] = "reconnect" => Safe(p, target[p])'
  <2>1. SUFFICES ASSUME pc'[p] = "reconnect" PROVE Safe(p, target[p])'
    OBVIOUS
  <2>2. own # NoHost /\ target'[p] = own
    BY <1>1, <2>1 DEF CheckLease, Goto, TypeOK
  <2> QED
    BY <1>4, <1>5, <2>2 DEF Safe, LeasedElsewhere
<1>8. Injective(leases[p])' /\ Known(leases[p])'
  BY <1>1, <1>2 DEF SessionInv, Injective, Known
<1>9. Guarded(p)' => handle'[p] = "owner"
  BY <1>1, <1>2 DEF CheckLease, SessionInv, Guarded, UsesPipe, At, Held
<1> QED
  BY <1>6, <1>7, <1>8, <1>9 DEF SessionInv, At, Leasing, Attached

LEMMA RelistInv ==
  ASSUME IInv, NEW p \in Procs, Relist(p)
  PROVE  SessionInv(p)'
<1>1. SessionInv(p) /\ TypeOK
  BY DEF IInv
<1>2. UNCHANGED <<host, recycled, leases, mode, handle>>
  BY DEF Relist, shared
<1>3. PICK found \in Listings(SuiteOf[p]) :
        /\ instances'[p] = found
        /\ free'[p] = FindFree(p, found)
        /\ pc'[p] = IF FindFree(p, found) = {} THEN "launch" ELSE "connectFree"
  BY <1>1 DEF Relist, Goto, TypeOK
<1>4. found \subseteq {h \in Hosts : host[h] = "up"}
  BY DEF Listings
<1>5. \A h \in FindFree(p, found) : Safe(p, h)
  BY <1>4 DEF FindFree, Safe
<1>6. \A h \in found : h \notin FindFree(p, found) => LeasedElsewhere(p, h)
  BY DEF FindFree
<1>7. \A h : LeasedElsewhere(p, h)' <=> LeasedElsewhere(p, h)
  BY <1>2 DEF LeasedElsewhere
<1>8. \A h : Safe(p, h) => Safe(p, h)'
  BY <1>2, <1>7 DEF Safe
<1>9. Injective(leases[p])' /\ Known(leases[p])'
  BY <1>1, <1>2 DEF SessionInv, Injective, Known
<1>10. Guarded(p)' => handle'[p] = "owner"
  BY <1>1, <1>2 DEF Relist, SessionInv, Guarded, UsesPipe, At, Held
<1>11. At(p, "connectFree")' => \A h \in free'[p] : Safe(p, h)'
  BY <1>3, <1>5, <1>8
<1>12. At(p, "launch")' => \A h \in instances'[p] : LeasedElsewhere(p, h)'
  BY <1>3, <1>6, <1>7 DEF At
<1> QED
  BY <1>3, <1>9, <1>10, <1>11, <1>12 DEF SessionInv, At, Leasing, Attached

\* A connected host is one the session may lease, unless it was named by the
\* user.
LEMMA ConnectInv ==
  ASSUME IInv, NEW p \in Procs,
         Reconnect(p) \/ ConnectLaunched(p) \/ ConnectFree(p) \/ ConnectExplicit(p)
  PROVE  SessionInv(p)'
<1>1. SessionInv(p) /\ TypeOK
  BY DEF IInv
<1>2. UNCHANGED <<host, recycled, leases, mode, handle>>
  BY DEF Reconnect, ConnectLaunched, ConnectFree, ConnectExplicit, Connect, shared
<1>3. Injective(leases[p])' /\ Known(leases[p])'
  BY <1>1, <1>2 DEF SessionInv, Injective, Known
<1>4. \A h : Safe(p, h) => Safe(p, h)'
  BY <1>2 DEF Safe, LeasedElsewhere
<1>5. Guarded(p)' => handle'[p] = "owner"
  BY <1>1, <1>2 DEF Reconnect, ConnectLaunched, ConnectFree, ConnectExplicit,
     SessionInv, Guarded, UsesPipe, At, Held
<1>6. CASE Reconnect(p) \/ ConnectLaunched(p) \/ ConnectFree(p)
  <2>1. PICK h \in MaybeHost : Safe(p, h) /\ Connect(p, h, "assign")
    BY <1>1, <1>6 DEF Reconnect, ConnectLaunched, ConnectFree, Highest, SessionInv, At,
       TypeOK, MaybeHost
  <2>2. pc'[p] = "assign" /\ target'[p] = h /\ conn'[p] = h
    BY <1>1, <2>1 DEF Connect, Goto, TypeOK
  <2>3. Safe(p, target[p])'
    BY <1>4, <2>1, <2>2 DEF Safe, LeasedElsewhere
  <2> QED
    BY <1>3, <1>5, <2>2, <2>3 DEF SessionInv, At, Leasing, Attached
<1>7. CASE ConnectExplicit(p)
  <2>1. pc'[p] = "attached" /\ mode'[p] = "pipe"
    BY <1>1, <1>2, <1>7 DEF ConnectExplicit, Connect, Goto, TypeOK, SessionInv, At
  <2> QED
    BY <1>3, <1>5, <2>1 DEF SessionInv, At, Leasing
<1> QED
  BY <1>6, <1>7

LEMMA RefusedInv ==
  ASSUME IInv, NEW p \in Procs, CandidateRefused(p), ~Leave(p)
  PROVE  SessionInv(p)'
<1>1. SessionInv(p) /\ TypeOK
  BY DEF IInv
<1>2. /\ UNCHANGED <<host, recycled, leases, mode, handle, pc>>
      /\ free'[p] \subseteq free[p] /\ pc[p] = "connectFree"
  BY <1>1 DEF CandidateRefused, shared, At, TypeOK
<1>3. \A h : Safe(p, h) => Safe(p, h)'
  BY <1>2 DEF Safe, LeasedElsewhere
<1>4. Injective(leases[p])' /\ Known(leases[p])'
  BY <1>1, <1>2 DEF SessionInv, Injective, Known
<1>5. Guarded(p)' => handle'[p] = "owner"
  BY <1>1, <1>2 DEF SessionInv, Guarded, UsesPipe
<1>6. At(p, "connectFree")' => \A h \in free'[p] : Safe(p, h)'
  BY <1>1, <1>2, <1>3 DEF SessionInv, At
<1> QED
  BY <1>2, <1>4, <1>5, <1>6 DEF SessionInv, At, Leasing, Attached

\* A fresh process id is in no lease map; a reused one is in recycled.
LEMMA LaunchInv ==
  ASSUME IInv, NEW p \in Procs, Launch(p)
  PROVE  SessionInv(p)'
<1>1. SessionInv(p) /\ TypeOK
  BY DEF IInv
<1>2. PICK h \in Hosts : Spawn(h) /\ target'[p] = h
  BY <1>1 DEF Launch, TypeOK
<1>3. UNCHANGED <<leases, mode, handle>> /\ pc'[p] = "waitPipe"
  BY <1>1 DEF Launch, Goto, TypeOK
<1>4. Grows
  BY <1>1, <1>2, SpawnGrows
<1>5. Injective(leases[p])' /\ Known(leases[p])'
  BY <1>1, <1>3, <1>4 DEF SessionInv, TypeOK, Injective, Known, Grows, LeaseMap, MaybeHost
<1>6. LeasedElsewhere(p, h) => h \in recycled'
  BY <1>1, <1>2, HostsAssumption DEF Spawn, LeasedElsewhere, SessionInv, Known
<1>7. Safe(p, target[p])'
  BY <1>1, <1>2, <1>3, <1>6 DEF Safe, Spawn, LeasedElsewhere, TypeOK
<1>8. Guarded(p)' => handle'[p] = "owner"
  BY <1>1, <1>3 DEF Launch, SessionInv, Guarded, UsesPipe, At, Held
<1> QED
  BY <1>3, <1>5, <1>7, <1>8 DEF SessionInv, At, Leasing, Attached

\* Both kinds of save write an injective map of started hosts.
LEMMA SaveInv ==
  ASSUME IInv, NEW p \in Procs, ClearSuite(p) \/ Assign(p)
  PROVE  SessionInv(p)' /\ Injective(leaseFile)' /\ Known(leaseFile)'
<1>1. SessionInv(p) /\ TypeOK /\ Injective(leaseFile) /\ Known(leaseFile)
  BY DEF IInv
<1>2. UNCHANGED <<host, recycled, handle, conn>>
  BY DEF ClearSuite, Assign, Save
<1>3. CASE Leave(p) /\ leaseFile' = leaseFile
  <2>1. pc'[p] = "closing" /\ leases'[p] = NoLeases
    BY <1>1, <1>3 DEF Leave, Goto, TypeOK
  <2> QED
    BY <1>1, <1>2, <1>3, <2>1, LeaveInv DEF Injective, Known
<1>4. CASE ClearSuite(p) /\ ~Leave(p)
  <2> DEFINE copy == [leases[p] EXCEPT ![SuiteOf[p]] = NoHost]
  <2>1. leaseFile' = copy /\ leases'[p] = copy /\ pc'[p] = "relist" /\ mode'[p] = mode[p]
    BY <1>1, <1>4 DEF ClearSuite, Save, Goto, TypeOK
  <2>2. Injective(copy) /\ Known(copy)
    BY <1>1, SuiteOfAssumption DEF SessionInv, Injective, Known, TypeOK, LeaseMap
  <2>3. Guarded(p)' => handle'[p] = "owner"
    BY <1>1, <1>2, <1>4, <2>1 DEF ClearSuite, SessionInv, Guarded, UsesPipe, At, Held
  <2> QED
    BY <1>2, <2>1, <2>2, <2>3 DEF SessionInv, At, Leasing, Attached, Injective, Known
<1>5. CASE Assign(p) /\ ~Leave(p)
  <2> DEFINE copy == [leases[p] EXCEPT ![SuiteOf[p]] = target[p]]
  <2>1. leaseFile' = copy /\ leases'[p] = copy /\ pc'[p] = "attached" /\ mode'[p] = mode[p]
    BY <1>1, <1>5 DEF Assign, Save, Goto, TypeOK
  <2>2. Safe(p, target[p]) /\ conn[p] = target[p]
    BY <1>1, <1>5 DEF Assign, SessionInv, At
  <2>3. /\ copy[SuiteOf[p]] = target[p]
        /\ \A k \in Suites \ {SuiteOf[p]} : copy[k] = leases[p][k]
    BY <1>1, SuiteOfAssumption DEF TypeOK, LeaseMap
  <2>4. Injective(copy) /\ Known(copy)
    BY <1>1, <2>2, <2>3 DEF SessionInv, Injective, Known, Safe, LeasedElsewhere
  <2>5. Guarded(p)' => handle'[p] = "owner"
    BY <1>1, <1>2, <1>5, <2>1 DEF Assign, SessionInv, Guarded, UsesPipe, At, Held
  <2>6. conn'[p] \in Hosts /\ leases'[p][SuiteOf[p]] = conn'[p]
    BY <1>2, <2>1, <2>2, <2>3 DEF Safe
  <2> QED
    BY <1>2, <2>1, <2>4, <2>5, <2>6 DEF SessionInv, At, Injective, Known
<1>6. Leave(p) => leaseFile' = leaseFile
  BY <1>1 DEF ClearSuite, Assign, Save, Leave, Goto, TypeOK
<1> QED
  BY <1>3, <1>4, <1>5, <1>6

LEMMA SessionStepInv ==
  ASSUME IInv, NEW p \in Procs, Configure(p) \/ SessionStep(p) \/ Crash(p)
  PROVE  SessionInv(p)' /\ Injective(leaseFile)' /\ Known(leaseFile)'
<1>1. TypeOK /\ Injective(leaseFile) /\ Known(leaseFile)
  BY DEF IInv
<1>2. CASE ClearSuite(p) \/ Assign(p)
  BY <1>2, SaveInv
<1>3. CASE ~(ClearSuite(p) \/ Assign(p))
  <2>1. leaseFile' = leaseFile
    BY <1>3 DEF shared, Configure, Crash, Ended, SessionStep, EndBeforeMutex, CreateMutex,
       CreateMutexFails, CloseProbe, SkipMutex, ListInstances, CheckLease, Reconnect,
       ReconnectRefused, Relist, ConnectFree, CandidateRefused, HandshakeFails, Launch,
       LaunchFails, PipeAppears, LaunchTimeout, ConnectLaunched, ConnectExplicit, Start,
       SkipAll, FinishRun, ReleaseMutex, Disconnect, Connect
  <2>2. Grows
    BY <1>1, NextGrows DEF Next
  <2>3. leaseFile \in LeaseMap
    BY <1>1 DEF TypeOK
  <2>4. Injective(leaseFile)' /\ Known(leaseFile)'
    BY <1>1, <2>1, <2>2, <2>3 DEF Injective, Known, Grows, LeaseMap, MaybeHost
  <2>5. SessionInv(p)'
    <3>1. CASE Leave(p)
      BY <1>1, <3>1, LeaveInv DEF Leave, Goto, TypeOK
    <3>2. CASE Ended(p)
      BY <1>1, <3>2, LeaveInv DEF Ended, Goto, TypeOK
    <3>3. CASE Configure(p)
      BY <3>3, ConfigureInv
    <3>4. CASE CheckLease(p)
      BY <3>4, CheckLeaseInv
    <3>5. CASE Relist(p)
      BY <3>5, RelistInv
    <3>6. CASE Reconnect(p) \/ ConnectLaunched(p) \/ ConnectFree(p) \/ ConnectExplicit(p)
      BY <3>6, ConnectInv
    <3>7. CASE CandidateRefused(p) /\ ~Leave(p)
      BY <3>7, RefusedInv
    <3>8. CASE Launch(p)
      BY <3>8, LaunchInv
    <3>9. CASE \/ CreateMutex(p) \/ SkipMutex(p) \/ ListInstances(p) \/ ReconnectRefused(p)
               \/ PipeAppears(p) \/ Start(p) \/ ReleaseMutex(p)
      BY <3>9, QuietInv
    <3> QED
      BY <1>3, <3>1, <3>2, <3>3, <3>4, <3>5, <3>6, <3>7, <3>8, <3>9
         DEF SessionStep, Crash, Disconnect, EndBeforeMutex, CreateMutexFails, CloseProbe,
             HandshakeFails, LaunchFails, LaunchTimeout, SkipAll, FinishRun
  <2> QED
    BY <2>4, <2>5
<1> QED
  BY <1>2, <1>3

\* Only CreateMutex makes an owner, and only of a suite nobody has a handle on.
LEMMA OwnerStep ==
  ASSUME TypeOK, NEW p \in Procs, Configure(p) \/ SessionStep(p) \/ Crash(p)
  PROVE  \/ handle'[p] # "owner"
         \/ handle'[p] = handle[p]
         \/ ~MutexExists(SuiteOf[p])
<1>1. CASE CreateMutex(p)
  BY <1>1 DEF CreateMutex, TypeOK
<1>2. CASE CloseProbe(p) \/ ReleaseMutex(p) \/ Disconnect(p) \/ Crash(p)
  BY <1>2 DEF CloseProbe, ReleaseMutex, Disconnect, Crash, Ended, TypeOK
<1>3. CASE \/ Configure(p)
           \/ /\ SessionStep(p)
              /\ ~CreateMutex(p) /\ ~CloseProbe(p) /\ ~ReleaseMutex(p) /\ ~Disconnect(p)
  BY <1>3 DEF SessionStep, Configure, EndBeforeMutex, CreateMutexFails, SkipMutex,
     ListInstances, CheckLease, Reconnect, ReconnectRefused, Relist, ConnectFree,
     CandidateRefused, HandshakeFails, Launch, LaunchFails, PipeAppears, LaunchTimeout,
     ConnectLaunched, ConnectExplicit, Start, SkipAll, FinishRun, Connect, ClearSuite,
     Assign, Save
<1> QED
  BY <1>1, <1>2, <1>3

LEMMA OneOwnerStep ==
  ASSUME TypeOK, OneOwner, NEW p \in Procs, Configure(p) \/ SessionStep(p) \/ Crash(p)
  PROVE  OneOwner'
<1>1. \A q \in Procs \ {p} : handle'[q] = handle[q]
  BY MoveStill DEF Still
<1> QED
  BY <1>1, OwnerStep DEF OneOwner, MutexExists

LEMMA InitInv == Init => IInv
  BY InitType DEF Init, IInv, Injective, Known, NoLeases, OneOwner, SessionInv, At,
     Leasing, Guarded, Attached, Held

LEMMA NextInv == IInv /\ [Next]_vars => IInv'
<1> SUFFICES ASSUME IInv, [Next]_vars PROVE IInv'
  OBVIOUS
<1>1. TypeOK /\ OneOwner /\ Injective(leaseFile) /\ Known(leaseFile)
      /\ leaseFile \in LeaseMap /\ \A q \in Procs : SessionInv(q)
  BY DEF IInv, TypeOK
<1>2. TypeOK' /\ Grows
  BY <1>1, NextType, NextGrows
<1>3. ASSUME NEW p \in Procs, Configure(p) \/ SessionStep(p) \/ Crash(p) PROVE IInv'
  <2>1. \A q \in Procs \ {p} : SessionInv(q)'
    BY <1>1, <1>2, <1>3, MoveStill, SessionFrame
  <2> QED
    BY <1>1, <1>2, <1>3, <2>1, SessionStepInv, OneOwnerStep DEF IInv
<1>4. CASE UNCHANGED <<leaseFile, pc, mode, handle, leases, search, conn>>
  <2>1. \A q \in Procs : Still(q)
    BY <1>4 DEF Still, search
  <2>2. \A q \in Procs : SessionInv(q)'
    BY <1>1, <1>2, <2>1, SessionFrame
  <2>3. Injective(leaseFile)' /\ Known(leaseFile)' /\ OneOwner'
    BY <1>1, <1>2, <1>4 DEF Injective, Known, Grows, LeaseMap, MaybeHost, OneOwner
  <2> QED
    BY <1>2, <2>2, <2>3 DEF IInv
<1>5. (\E h \in Hosts : HostStep(h)) \/ UNCHANGED vars
        => UNCHANGED <<leaseFile, pc, mode, handle, leases, search, conn>>
  BY DEF HostStep, OpenHost, HostReady, HostExit, vars, shared
<1> QED
  BY <1>3, <1>4, <1>5 DEF Next

\* The strengthening behind the theorems below: what each session relies on
\* at every call of ensure_bridge, for any processes, suites and hosts.
THEOREM InductiveInvariant == Spec => []IInv
  BY InitInv, NextInv, PTL DEF Spec

\* Two processes of one suite are never both between the mutex and their
\* teardown (_ensure_bridge, SuiteMutex.acquire).
THEOREM MutualExclusion == Spec => []SuiteExclusive
<1>1. IInv => SuiteExclusive
  BY DEF IInv, SessionInv, OneOwner, SuiteExclusive
<1> QED
  BY <1>1, InductiveInvariant, PTL

\* No lease map, in the file or in a process, gives one host process to two
\* suites (find_free, assign, clear_suite).
THEOREM LeasesStayInjective == Spec => []LeasesInjective
<1>1. IInv => LeasesInjective
  BY DEF IInv, SessionInv, LeasesInjective
<1> QED
  BY <1>1, InductiveInvariant, PTL

\* Sessions of two suites share a host only when neither copy of the lease
\* map shows the other's lease.
THEOREM SharingComesFromStaleCopies == Spec => []SharingIsBlind
<1>1. IInv => SharingIsBlind
  BY SuiteOfAssumption, HostsAssumption DEF IInv, SessionInv, SharingIsBlind, Injective
<1> QED
  BY <1>1, InductiveInvariant, PTL

\* A session launches a host of its own accord only when every host it listed
\* is leased to other suites (_connect_discovered_or_launched).
THEOREM LaunchIsLastResort == Spec => []LaunchesOnlyWhenAllTaken
<1>1. IInv => LaunchesOnlyWhenAllTaken
  BY DEF IInv, SessionInv, LaunchesOnlyWhenAllTaken
<1> QED
  BY <1>1, InductiveInvariant, PTL

-----------------------------------------------------------------------------
(* The mutex implements SuiteLock. *)

LEMMA HoldersStep ==
  ASSUME TypeOK, NEW p \in Procs, Configure(p) \/ SessionStep(p) \/ Crash(p)
  PROVE  [Lock!Next]_Holders
<1> DEFINE k == SuiteOf[p]
<1>1. k \in Suites /\ Holders' = [j \in Suites |-> {q \in Procs : SuiteOf[q] = j /\ handle'[q] = "owner"}]
  BY SuiteOfAssumption DEF Holders
<1>2. \A q \in Procs \ {p} : handle'[q] = handle[q]
  BY MoveStill DEF Still
<1>3. CASE (handle'[p] = "owner") <=> (handle[p] = "owner")
  <2>1. Holders' = Holders
    BY <1>2, <1>3 DEF Holders
  <2> QED
    BY <2>1
<1>4. CASE handle'[p] # "owner" /\ handle[p] = "owner"
  <2>1. p \in Holders[k]
    BY <1>1, <1>4 DEF Holders
  <2>2. Holders' = [Holders EXCEPT ![k] = @ \ {p}]
    BY <1>1, <1>2, <1>4 DEF Holders
  <2> QED
    BY <1>1, <2>1, <2>2 DEF Lock!Next, Lock!Release
<1>5. CASE handle'[p] = "owner" /\ handle[p] # "owner"
  <2>1. \A q \in Procs : SuiteOf[q] = k => handle[q] # "owner"
    BY <1>5, OwnerStep DEF MutexExists
  <2>2. Holders[k] = {}
    BY <1>1, <2>1 DEF Holders
  <2>3. Holders' = [Holders EXCEPT ![k] = {p}]
    BY <1>1, <1>2, <1>5, <2>1 DEF Holders
  <2> QED
    BY <1>1, <2>2, <2>3 DEF Lock!Next, Lock!Acquire
<1> QED
  BY <1>3, <1>4, <1>5

\* SuiteMutex with its probe handles is a try-lock per suite.
THEOREM ImplementsLock == Spec => LockSpec
<1>1. Init => Lock!Init
  BY DEF Init, Lock!Init, Holders
<1>2. TypeOK /\ [Next]_vars => [Lock!Next]_Holders
  <2> SUFFICES ASSUME TypeOK, [Next]_vars PROVE [Lock!Next]_Holders
    OBVIOUS
  <2>1. CASE handle' = handle
    BY <2>1 DEF Holders
  <2>2. (\E h \in Hosts : HostStep(h)) \/ UNCHANGED vars => handle' = handle
    BY DEF HostStep, OpenHost, HostReady, HostExit, vars
  <2> QED
    BY <2>1, <2>2, HoldersStep DEF Next
<1> QED
  BY <1>1, <1>2, TypeCorrect, PTL DEF Spec, LockSpec, Lock!Spec

-----------------------------------------------------------------------------
(* A session never goes back. *)

\* Every step of a session that is under way brings it nearer to its end.
LEMMA StepNearer ==
  ASSUME TypeOK, NEW p \in Procs, SessionStep(p) \/ Crash(p)
  PROVE  Nearer(p)
<1>1. pc \in [Procs -> Labels] /\ free \in [Procs -> SUBSET Hosts]
  BY DEF TypeOK
<1>2. ASSUME NEW l \in Labels, Goto(p, l), Left[l] < Left[pc[p]] PROVE Nearer(p)
  BY <1>1, <1>2 DEF Goto, Nearer
<1>3. ASSUME pc[p] \in Labels \ {"off", "closing", "released"}, Leave(p) PROVE Nearer(p)
  <2>1. Left["closing"] < Left[pc[p]]
    BY <1>3 DEF Left, Labels, Held
  <2> QED
    BY <1>2, <1>3, <2>1 DEF Leave, Labels
<1>4. CASE EndBeforeMutex(p) \/ CreateMutexFails(p) \/ CloseProbe(p) \/ HandshakeFails(p)
           \/ LaunchFails(p) \/ LaunchTimeout(p) \/ SkipAll(p) \/ FinishRun(p)
  <2>1. Leave(p) /\ pc[p] \notin {"off", "closing", "released"}
    BY <1>4 DEF EndBeforeMutex, CreateMutexFails, CloseProbe, HandshakeFails, LaunchFails,
       LaunchTimeout, SkipAll, FinishRun, At
  <2> QED
    BY <1>1, <1>3, <2>1
<1>5. CASE CreateMutex(p) \/ SkipMutex(p) \/ PipeAppears(p) \/ Start(p) \/ ReleaseMutex(p)
           \/ Launch(p)
  <2>1. PICK l \in Labels : Goto(p, l) /\ Left[l] < Left[pc[p]]
    BY <1>5
    DEF CreateMutex, SkipMutex, PipeAppears, Start, ReleaseMutex, Launch, At, Left, Labels, Held
  <2> QED
    BY <1>2, <2>1
<1>6. CASE ListInstances(p) \/ CheckLease(p) \/ ReconnectRefused(p) \/ Relist(p)
  <2>1. PICK l \in Labels : Goto(p, l) /\ Left[l] < Left[pc[p]]
    BY <1>6 DEF ListInstances, CheckLease, ReconnectRefused, Relist, At, Left, Labels, Held
  <2> QED
    BY <1>2, <2>1
<1>7. CASE Reconnect(p) \/ ConnectLaunched(p) \/ ConnectFree(p) \/ ConnectExplicit(p)
  <2>1. PICK l \in Labels : Goto(p, l) /\ Left[l] < Left[pc[p]]
    BY <1>7 DEF Reconnect, ConnectLaunched, ConnectFree, ConnectExplicit, Connect, At, Left,
       Labels, Held
  <2> QED
    BY <1>2, <2>1
<1>8. CASE ClearSuite(p) \/ Assign(p)
  <2>1. Leave(p) \/ \E l \in Labels : Goto(p, l) /\ Left[l] < Left[pc[p]]
    BY <1>8 DEF ClearSuite, Assign, Save, At, Left, Labels, Held
  <2>2. pc[p] \notin {"off", "closing", "released"}
    BY <1>8 DEF ClearSuite, Assign, At
  <2> QED
    BY <1>1, <1>2, <1>3, <2>1, <2>2
<1>9. CASE CandidateRefused(p)
  <2>1. PICK h \in Hosts :
          /\ h \in free[p]
          /\ Leave(p) \/ (free' = [free EXCEPT ![p] = @ \ {h}] /\ pc' = pc)
    BY <1>9 DEF CandidateRefused, Highest
  <2>2. CASE Leave(p)
    BY <1>1, <1>3, <1>9, <2>2 DEF CandidateRefused, At
  <2>3. CASE free' = [free EXCEPT ![p] = @ \ {h}] /\ pc' = pc
    BY <1>1, <2>1, <2>3 DEF Nearer
  <2> QED
    BY <2>1, <2>2, <2>3
<1>10. CASE Disconnect(p) \/ Crash(p)
  <2>1. Goto(p, "off") /\ pc[p] # "off"
    BY <1>10 DEF Disconnect, Crash, Ended, At
  <2>2. "off" \in Labels /\ Left["off"] < Left[pc[p]]
    BY <1>1, <2>1 DEF Left, Labels, Held
  <2> QED
    BY <1>2, <2>1, <2>2
<1> QED
  BY <1>4, <1>5, <1>6, <1>7, <1>8, <1>9, <1>10 DEF SessionStep

\* No session ever goes back: it follows its lease once, tries no candidate twice and
\* launches one host at most, whatever the hosts and the other sessions do.
THEOREM SessionsAdvance == Spec => NoWayBack
<1>1. ASSUME TypeOK, [Next]_vars, NEW q \in Procs
      PROVE  pc[q] = "off" \/ UNCHANGED Own(q) \/ Nearer(q)
  <2>1. Still(q) => UNCHANGED Own(q)
    BY DEF Still, Own
  <2>2. ASSUME NEW p \in Procs, Configure(p) \/ SessionStep(p) \/ Crash(p)
        PROVE  pc[q] = "off" \/ UNCHANGED Own(q) \/ Nearer(q)
    <3>1. CASE p = q
      BY <1>1, <2>2, <3>1, StepNearer DEF Configure, At
    <3>2. CASE p # q
      BY <1>1, <2>1, <2>2, <3>2, MoveStill
    <3> QED
      BY <3>1, <3>2
  <2>3. (\E h \in Hosts : HostStep(h)) \/ UNCHANGED vars => Still(q)
    BY DEF HostStep, OpenHost, HostReady, HostExit, Still, vars, search
  <2> QED
    BY <1>1, <2>1, <2>2, <2>3 DEF Next
<1>2. TypeOK /\ [Next]_vars
        => [\A p \in Procs : pc[p] = "off" \/ UNCHANGED Own(p) \/ Nearer(p)]_vars
  BY <1>1
<1> QED
  BY <1>2, TypeCorrect, PTL DEF Spec, NoWayBack

-----------------------------------------------------------------------------
(* Sessions and versions. *)

\* What a session finds, follows and uses is of the wanted version, unless it was
\* given its pipe.
VersionInv ==
  \A p \in Procs :
    /\ \A h \in instances[p] \cup free[p] : VersionFits(SuiteOf[p], h)
    /\ At(p, "off") => target[p] = NoHost
    /\ mode[p] # "pipe" /\ target[p] # NoHost => VersionFits(SuiteOf[p], target[p])
    /\ Leasing(p) => VersionFits(SuiteOf[p], conn[p])

LEMMA VersionStep ==
  ASSUME IInv, VersionInv, NEW p \in Procs, Configure(p) \/ SessionStep(p) \/ Crash(p)
  PROVE  /\ \A h \in instances'[p] \cup free'[p] : VersionFits(SuiteOf[p], h)
         /\ pc'[p] = "off" => target'[p] = NoHost
         /\ mode'[p] # "pipe" /\ target'[p] # NoHost => VersionFits(SuiteOf[p], target'[p])
         /\ pc'[p] \in Attached /\ mode'[p] # "pipe" => VersionFits(SuiteOf[p], conn'[p])
<1>1. TypeOK /\ SessionInv(p)
  BY DEF IInv
<1>2. /\ \A h \in instances[p] \cup free[p] : VersionFits(SuiteOf[p], h)
      /\ At(p, "off") => target[p] = NoHost
      /\ mode[p] # "pipe" /\ target[p] # NoHost => VersionFits(SuiteOf[p], target[p])
      /\ pc[p] \in Attached /\ mode[p] # "pipe" => VersionFits(SuiteOf[p], conn[p])
  BY DEF VersionInv, Leasing
<1> USE DEF TypeOK, Goto, At, Attached
<1>3. CASE Configure(p) \/ CreateMutex(p) \/ SkipMutex(p) \/ ReconnectRefused(p)
           \/ PipeAppears(p) \/ Start(p) \/ ReleaseMutex(p)
  BY <1>1, <1>2, <1>3 DEF Configure, CreateMutex, SkipMutex, ReconnectRefused, PipeAppears,
     Start, ReleaseMutex, search
<1>4. ASSUME Leave(p) \/ Ended(p)
      PROVE  /\ instances'[p] = {} /\ free'[p] = {} /\ target'[p] = NoHost
             /\ pc'[p] \in {"closing", "off"}
  BY <1>1, <1>4 DEF Leave, Ended, Drop
<1>5. CASE EndBeforeMutex(p) \/ CreateMutexFails(p) \/ CloseProbe(p) \/ HandshakeFails(p)
           \/ LaunchFails(p) \/ LaunchTimeout(p) \/ SkipAll(p) \/ FinishRun(p)
           \/ Disconnect(p) \/ Crash(p)
  BY <1>4, <1>5 DEF EndBeforeMutex, CreateMutexFails, CloseProbe, HandshakeFails, LaunchFails,
     LaunchTimeout, SkipAll, FinishRun, Disconnect, Crash
<1>6. CASE ListInstances(p) \/ Relist(p)
  <2>1. PICK found \in Listings(SuiteOf[p]) :
          /\ instances'[p] = found /\ free'[p] \subseteq free[p] \cup found
          /\ target' = target /\ mode' = mode /\ ~At(p, "off")
          /\ pc'[p] \in {"launch", "leased", "connectFree"}
    BY <1>1, <1>6 DEF ListInstances, Relist, FindFree
  <2>2. \A h \in found : VersionFits(SuiteOf[p], h)
    BY DEF Listings
  <2> QED
    BY <1>2, <2>1, <2>2
<1>7. CASE CheckLease(p)
  <2>1. /\ target'[p] \in instances[p] \cup {NoHost} /\ instances'[p] = {} /\ free' = free
        /\ pc'[p] \in {"relist", "reconnect", "clear"} /\ mode' = mode
    BY <1>1, <1>7 DEF CheckLease
  <2> QED
    BY <1>2, <2>1
<1>8. CASE Reconnect(p) \/ ConnectLaunched(p) \/ ConnectFree(p)
  <2>1. PICK h \in Hosts \cup {target[p]} : Connect(p, h, "assign") /\ h \in free[p] \cup {target[p]}
    BY <1>8 DEF Reconnect, ConnectLaunched, ConnectFree, Highest
  <2>2. instances'[p] = {} /\ free'[p] = {} /\ target'[p] = h /\ mode' = mode /\ pc'[p] = "assign"
    BY <1>1, <2>1 DEF Connect
  <2> QED
    BY <1>2, <2>1, <2>2
<1>9. CASE ConnectExplicit(p)
  <2>1. mode[p] = "pipe"
    BY <1>1, <1>9 DEF ConnectExplicit, SessionInv
  <2>2. instances'[p] = {} /\ free'[p] = {} /\ mode' = mode /\ pc'[p] = "attached"
    BY <1>1, <1>9 DEF ConnectExplicit, Connect
  <2> QED
    BY <2>1, <2>2
<1>10. CASE ClearSuite(p) \/ Assign(p)
  <2>1. /\ instances'[p] = {} /\ free'[p] = {} /\ target'[p] = NoHost /\ conn' = conn
        /\ pc'[p] \in {"relist", "attached", "closing"}
        /\ pc'[p] = "attached" => At(p, "assign") /\ mode' = mode
    BY <1>1, <1>10 DEF ClearSuite, Assign, Save, Leave, Drop
  <2>2. At(p, "assign") => conn[p] = target[p] /\ Safe(p, target[p])
    BY <1>1 DEF SessionInv
  <2>3. At(p, "assign") => conn[p] # NoHost
    BY <2>2, HostsAssumption DEF Safe
  <2> QED
    BY <1>2, <2>1, <2>2, <2>3
<1>11. CASE CandidateRefused(p)
  <2>1. \/ Leave(p)
        \/ free'[p] \subseteq free[p] /\ UNCHANGED <<pc, mode, instances, target>>
    BY <1>1, <1>11 DEF CandidateRefused
  <2>2. At(p, "connectFree")
    BY <1>11 DEF CandidateRefused
  <2> QED
    BY <1>2, <1>4, <2>1, <2>2
<1>12. CASE Launch(p)
  <2>1. PICK h \in Hosts : Launches(p, h) /\ target' = [target EXCEPT ![p] = h]
    BY <1>12 DEF Launch
  <2>2. VersionFits(SuiteOf[p], h)
    BY <2>1 DEF Launches, VersionFits
  <2>3. instances'[p] = {} /\ free' = free /\ mode' = mode /\ pc'[p] = "waitPipe"
    BY <1>1, <1>12 DEF Launch
  <2> QED
    BY <1>1, <1>2, <2>1, <2>2, <2>3
<1> QED
  BY <1>3, <1>5, <1>6, <1>7, <1>8, <1>9, <1>10, <1>11, <1>12 DEF SessionStep

\* A session that was given no pipe runs in a host of the version it wants, be it
\* leased, free or launched.
THEOREM SuitsVersion == Spec => []RightVersion
<1>1. Init => VersionInv
  BY DEF Init, VersionInv, Leasing, Attached
<1>2. ASSUME IInv, VersionInv, [Next]_vars PROVE VersionInv'
  <2> SUFFICES ASSUME NEW q \in Procs
               PROVE  /\ \A h \in instances'[q] \cup free'[q] : VersionFits(SuiteOf[q], h)
                      /\ pc'[q] = "off" => target'[q] = NoHost
                      /\ mode'[q] # "pipe" /\ target'[q] # NoHost =>
                           VersionFits(SuiteOf[q], target'[q])
                      /\ pc'[q] \in Attached /\ mode'[q] # "pipe" =>
                           VersionFits(SuiteOf[q], conn'[q])
    BY DEF VersionInv, Leasing, At, VersionFits
  <2>1. Still(q) => /\ conn'[q] = conn[q] /\ pc'[q] = pc[q] /\ mode'[q] = mode[q]
                    /\ instances'[q] = instances[q] /\ free'[q] = free[q] /\ target'[q] = target[q]
    BY DEF Still
  <2>2. ASSUME NEW p \in Procs, Configure(p) \/ SessionStep(p) \/ Crash(p)
        PROVE  p = q \/ Still(q)
    BY <1>2, <2>2, MoveStill DEF IInv
  <2>3. (\E h \in Hosts : HostStep(h)) \/ UNCHANGED vars => Still(q)
    BY DEF HostStep, OpenHost, HostReady, HostExit, Still, vars, search
  <2>4. Still(q) \/ Configure(q) \/ SessionStep(q) \/ Crash(q)
    BY <1>2, <2>2, <2>3 DEF Next
  <2>5. CASE Still(q)
    BY <1>2, <2>1, <2>5 DEF VersionInv, Leasing, At
  <2> QED
    BY <1>2, <2>4, <2>5, VersionStep
<1>3. VersionInv => RightVersion
  BY DEF VersionInv, RightVersion
<1> QED
  BY <1>1, <1>2, <1>3, InductiveInvariant, PTL DEF Spec

-----------------------------------------------------------------------------
(* How far the violated promises hold. *)

\* No session is given an explicit pipe.
NoPipes == Modes \subseteq {"discover", "force"}

NoPipesInv == \A p \in Procs : ~UsesPipe(p)

LEMMA NoPipesInvariant == ASSUME NoPipes PROVE Spec => []NoPipesInv
<1>1. Init => NoPipesInv
  BY DEF Init, NoPipesInv, UsesPipe
<1>2. ASSUME TypeOK, NoPipesInv, [Next]_vars PROVE NoPipesInv'
  <2> SUFFICES ASSUME NEW q \in Procs PROVE mode'[q] \notin {"pipe", "pipeForce"}
    BY DEF NoPipesInv, UsesPipe
  <2>1. mode[q] \notin {"pipe", "pipeForce"}
    BY <1>2 DEF NoPipesInv, UsesPipe
  <2>2. ASSUME NEW p \in Procs, Configure(p) \/ SessionStep(p) \/ Crash(p)
        PROVE  mode'[q] \notin {"pipe", "pipeForce"}
    <3>1. \/ UNCHANGED mode
          \/ \E m \in {"discover", "force"} : mode' = [mode EXCEPT ![p] = m]
      <4>1. CASE Configure(p) \/ Disconnect(p) \/ Crash(p)
        BY <4>1 DEF Configure, Disconnect, Crash, Ended, NoPipes
      <4>2. CASE \/ EndBeforeMutex(p) \/ CreateMutexFails(p) \/ CloseProbe(p) \/ HandshakeFails(p)
                 \/ LaunchFails(p) \/ LaunchTimeout(p) \/ SkipAll(p) \/ FinishRun(p)
                 \/ CandidateRefused(p) \/ ClearSuite(p) \/ Assign(p)
        BY <4>2 DEF EndBeforeMutex, CreateMutexFails, CloseProbe, HandshakeFails, LaunchFails,
           LaunchTimeout, SkipAll, FinishRun, CandidateRefused, ClearSuite, Assign, Save, Leave
      <4>3. CASE \/ CreateMutex(p) \/ SkipMutex(p) \/ ListInstances(p) \/ CheckLease(p)
                 \/ Reconnect(p) \/ ReconnectRefused(p) \/ Relist(p) \/ ConnectFree(p) \/ Launch(p)
                 \/ PipeAppears(p) \/ ConnectLaunched(p) \/ ConnectExplicit(p) \/ Start(p)
                 \/ ReleaseMutex(p)
        BY <4>3 DEF CreateMutex, SkipMutex, ListInstances, CheckLease, Reconnect,
           ReconnectRefused, Relist, ConnectFree, Launch, PipeAppears, ConnectLaunched,
           ConnectExplicit, Start, ReleaseMutex, Connect
      <4> QED
        BY <2>2, <4>1, <4>2, <4>3 DEF SessionStep
    <3> QED
      BY <1>2, <2>1, <3>1 DEF TypeOK
  <2>3. (\E h \in Hosts : HostStep(h)) \/ UNCHANGED vars => UNCHANGED mode
    BY DEF HostStep, OpenHost, HostReady, HostExit, vars
  <2> QED
    BY <1>2, <2>1, <2>2, <2>3 DEF Next
<1> QED
  BY <1>1, <1>2, TypeCorrect, PTL DEF Spec

\* What the changelog promises of a host, that only one session runs in it, holds
\* among suites that each want a version of their own, and so within one suite:
\* sharing takes two suites that may use one host, or an explicit pipe.
THEOREM ExclusiveByVersion ==
  ASSUME NoPipes,
         \A j, k \in Suites : j # k => /\ Wanted[j] # AnyVersion /\ Wanted[k] # AnyVersion
                                       /\ Wanted[j] # Wanted[k]
  PROVE  Spec => []HostExclusive
<1>1. TypeOK /\ NoPipesInv /\ SuiteExclusive /\ RightVersion => HostExclusive
  <2> SUFFICES ASSUME TypeOK, NoPipesInv, SuiteExclusive, RightVersion,
                      NEW p \in Procs, NEW q \in Procs,
                      pc[p] = "running", pc[q] = "running", conn[p] = conn[q]
               PROVE  p = q
    BY DEF HostExclusive
  <2>1. Guarded(p) /\ Guarded(q) /\ Leasing(p) /\ Leasing(q)
    BY DEF NoPipesInv, Guarded, Leasing, Held, Attached, UsesPipe
  <2>2. SuiteOf[p] = SuiteOf[q]
    BY <2>1, SuiteOfAssumption DEF RightVersion, VersionFits
  <2> QED
    BY <2>1, <2>2 DEF SuiteExclusive
<1> QED
  BY <1>1, TypeCorrect, NoPipesInvariant, MutualExclusion, SuitsVersion, PTL

\* A session with a bridge owns the mutex, until it releases it.
BridgeInv ==
  \A p \in Procs : conn[p] # NoHost =>
    /\ pc[p] \in {"assign", "attached", "running", "closing", "released"}
    /\ pc[p] # "released" => handle[p] = "owner"

LEMMA BridgeStep ==
  ASSUME IInv, NoPipesInv, BridgeInv, NEW p \in Procs,
         Configure(p) \/ SessionStep(p) \/ Crash(p)
  PROVE  conn'[p] # NoHost =>
           /\ pc'[p] \in {"assign", "attached", "running", "closing", "released"}
           /\ pc'[p] # "released" => handle'[p] = "owner"
<1>1. TypeOK /\ SessionInv(p) /\ mode[p] \notin {"pipe", "pipeForce"}
  BY DEF IInv, NoPipesInv, UsesPipe
<1>2. conn[p] # NoHost =>
        /\ pc[p] \in {"assign", "attached", "running", "closing", "released"}
        /\ pc[p] # "released" => handle[p] = "owner"
  BY DEF BridgeInv
<1> USE DEF TypeOK, Goto, At
<1>3. CASE Configure(p) \/ CreateMutex(p) \/ SkipMutex(p) \/ ListInstances(p) \/ CheckLease(p)
           \/ ReconnectRefused(p) \/ Relist(p) \/ PipeAppears(p) \/ Start(p) \/ ReleaseMutex(p)
           \/ Launch(p)
  BY <1>1, <1>2, <1>3 DEF Configure, CreateMutex, SkipMutex, ListInstances, CheckLease,
     ReconnectRefused, Relist, PipeAppears, Start, ReleaseMutex, Launch
<1>4. CASE EndBeforeMutex(p) \/ CreateMutexFails(p) \/ CloseProbe(p) \/ HandshakeFails(p)
           \/ LaunchFails(p) \/ LaunchTimeout(p) \/ SkipAll(p) \/ FinishRun(p)
  <2>1. pc'[p] = "closing" /\ conn' = conn /\ (At(p, "rejected") \/ handle' = handle)
        /\ ~At(p, "released")
    BY <1>1, <1>4 DEF Leave, EndBeforeMutex, CreateMutexFails, CloseProbe, HandshakeFails,
       LaunchFails, LaunchTimeout, SkipAll, FinishRun
  <2> QED
    BY <1>2, <2>1
<1>5. CASE Reconnect(p) \/ ConnectLaunched(p) \/ ConnectFree(p)
  <2>1. handle[p] = "owner"
    BY <1>1, <1>5
    DEF Reconnect, ConnectLaunched, ConnectFree, SessionInv, Guarded, Held, UsesPipe
  <2> QED
    BY <1>1, <1>5, <2>1 DEF Connect, Reconnect, ConnectLaunched, ConnectFree
<1>6. CASE ConnectExplicit(p)
  BY <1>1, <1>6 DEF ConnectExplicit, SessionInv
<1>7. CASE ClearSuite(p) \/ Assign(p)
  <2>1. conn' = conn /\ handle' = handle /\ pc'[p] \in {"relist", "attached", "closing"}
        /\ (At(p, "clear") \/ (At(p, "assign") /\ pc'[p] # "relist"))
    BY <1>1, <1>7 DEF ClearSuite, Assign, Save, Leave
  <2> QED
    BY <1>2, <2>1
<1>8. CASE CandidateRefused(p)
  <2>1. conn' = conn /\ At(p, "connectFree")
    BY <1>8 DEF CandidateRefused
  <2> QED
    BY <1>2, <2>1
<1>9. CASE Disconnect(p) \/ Crash(p)
  BY <1>1, <1>9 DEF Disconnect, Crash, Ended
<1> QED
  BY <1>3, <1>4, <1>5, <1>6, <1>7, <1>8, <1>9 DEF SessionStep

\* Two sessions of one suite both have a bridge only in the teardown of one of them.
OverlapInTeardown ==
  \A p, q \in Procs :
    conn[p] # NoHost /\ conn[q] # NoHost /\ SuiteOf[p] = SuiteOf[q] /\ p # q =>
      At(p, "released") \/ At(q, "released")

\* What suite_lock.py promises of a suite fails in the teardown only: of two sessions
\* of one suite with a bridge, one has released the mutex and is about to disconnect.
THEOREM OnlyTeardownOverlaps == ASSUME NoPipes PROVE Spec => []OverlapInTeardown
<1>1. Init => BridgeInv
  BY DEF Init, BridgeInv
<1>2. ASSUME IInv, NoPipesInv, BridgeInv, [Next]_vars PROVE BridgeInv'
  <2> SUFFICES ASSUME NEW q \in Procs
               PROVE  conn'[q] # NoHost =>
                        /\ pc'[q] \in {"assign", "attached", "running", "closing", "released"}
                        /\ pc'[q] # "released" => handle'[q] = "owner"
    BY DEF BridgeInv
  <2>1. Still(q) => conn'[q] = conn[q] /\ pc'[q] = pc[q] /\ handle'[q] = handle[q]
    BY DEF Still
  <2>2. ASSUME NEW p \in Procs, Configure(p) \/ SessionStep(p) \/ Crash(p)
        PROVE  p = q \/ Still(q)
    BY <1>2, <2>2, MoveStill DEF IInv
  <2>3. (\E h \in Hosts : HostStep(h)) \/ UNCHANGED vars => Still(q)
    BY DEF HostStep, OpenHost, HostReady, HostExit, Still, vars, search
  <2>4. Still(q) \/ Configure(q) \/ SessionStep(q) \/ Crash(q)
    BY <1>2, <2>2, <2>3 DEF Next
  <2> QED
    BY <1>2, <2>1, <2>4, BridgeStep DEF BridgeInv
<1>3. IInv /\ BridgeInv => OverlapInTeardown
  BY DEF IInv, OneOwner, BridgeInv, OverlapInTeardown, At
<1> QED
  BY <1>1, <1>2, <1>3, InductiveInvariant, NoPipesInvariant, PTL DEF Spec
=============================================================================
