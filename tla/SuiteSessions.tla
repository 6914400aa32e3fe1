--------------------------- MODULE SuiteSessions ---------------------------
(***************************************************************************)
(* Several pytest processes share one machine, its CAD host processes and  *)
(* one lease file.  Each process configures the plugin (plugin.py), takes  *)
(* the mutex of its suite (suite_lock.py), finds, reuses or launches a     *)
(* host (connection.py, discovery.py), records the choice in the lease     *)
(* file (suite_leasing.py), runs its tests there and tears down.           *)
(*                                                                         *)
(* One host application is modelled (leases of another application never   *)
(* meet these).  A host is identified by its process id; hosts are         *)
(* numbered in the order find_free sorts them, (version, pid).             *)
(***************************************************************************)
EXTENDS Naturals

CONSTANTS
  Procs,      \* pytest processes
  Suites,     \* suite keys: host + version + workspace root
  SuiteOf,    \* the suite each pytest process is started in
  Hosts,      \* host process ids, as numbers in (version, pid) order
  Version,    \* the product version of each host
  Wanted,     \* the --host-version of each suite, or AnyVersion
  AnyVersion, \* a suite started without --host-version
  NoHost,     \* no lease, no target, no connection
  Modes       \* the option combinations in use, see ModeNames

\* "discover": neither --revit-pipe nor --force-launch; the other three give
\* one of them or both.
ModeNames == {"discover", "force", "pipe", "pipeForce"}

ASSUME SuiteOfAssumption == SuiteOf \in [Procs -> Suites]
ASSUME HostsAssumption == Hosts \subseteq Nat /\ NoHost \notin Hosts
ASSUME VersionAssumption ==
  /\ Version \in [Hosts -> Nat]
  /\ \A g, h \in Hosts : g < h => Version[g] <= Version[h]
ASSUME WantedAssumption == Wanted \in [Suites -> Nat \cup {AnyVersion}]
ASSUME ModesAssumption == Modes \subseteq ModeNames /\ "discover" \in Modes

VARIABLES
  leaseFile,  \* suite-leases.json: the host leased to each suite
  host,       \* each host process
  recycled,   \* history: process ids the system has given out twice
  pc,         \* where each pytest process is
  mode,       \* its options
  handle,     \* its handle on its suite's mutex: none, the owner's, a probe
  leases,     \* its copy of the lease map (SuiteLeaseStore._leases)
  instances,  \* the hosts in its last pipe listing
  free,       \* the candidates it still has to try
  target,     \* the host it is about to connect to or lease
  conn        \* the host its bridge is connected to

shared == <<leaseFile, host, recycled>>
search == <<instances, free, target>>
vars == <<shared, pc, mode, handle, leases, search, conn>>

MaybeHost == Hosts \cup {NoHost}
LeaseMap == [Suites -> MaybeHost]
NoLeases == [k \in Suites |-> NoHost]

\* Control points.  In Held the process has passed the mutex and not started
\* its teardown; in Attached it has a bridge.
Held == {"list", "leased", "reconnect", "clear", "relist",
         "connectFree", "assign", "launch", "waitPipe", "connectLaunched",
         "explicit", "attached", "running"}
Attached == {"attached", "running"}
Labels == Held \cup {"off", "collected", "rejected", "closing", "released"}

TypeOK ==
  /\ leaseFile \in LeaseMap
  /\ host \in [Hosts -> {"none", "starting", "up", "dead"}]
  /\ recycled \subseteq Hosts
  /\ pc \in [Procs -> Labels]
  /\ mode \in [Procs -> ModeNames]
  /\ handle \in [Procs -> {"none", "owner", "probe"}]
  /\ leases \in [Procs -> LeaseMap]
  /\ instances \in [Procs -> SUBSET Hosts]
  /\ free \in [Procs -> SUBSET Hosts]
  /\ target \in [Procs -> MaybeHost]
  /\ conn \in [Procs -> MaybeHost]

Init ==
  /\ leaseFile = NoLeases
  /\ host = [h \in Hosts |-> "none"]
  /\ recycled = {}
  /\ pc = [p \in Procs |-> "off"]
  /\ mode = [p \in Procs |-> "discover"]
  /\ handle = [p \in Procs |-> "none"]
  /\ leases = [p \in Procs |-> NoLeases]
  /\ instances = [p \in Procs |-> {}]
  /\ free = [p \in Procs |-> {}]
  /\ target = [p \in Procs |-> NoHost]
  /\ conn = [p \in Procs |-> NoHost]

-----------------------------------------------------------------------------
At(p, l) == pc[p] = l
Goto(p, l) == pc' = [pc EXCEPT ![p] = l]

\* An exception, pytest.exit or the end of the test loop: pytest goes to
\* pytest_unconfigure.  What the search kept is never read again and reset.
Drop(p) ==
  /\ instances' = [instances EXCEPT ![p] = {}]
  /\ free' = [free EXCEPT ![p] = {}]
  /\ target' = [target EXCEPT ![p] = NoHost]
Leave(p) ==
  /\ Goto(p, "closing")
  /\ mode' = [mode EXCEPT ![p] = "discover"]
  /\ leases' = [leases EXCEPT ![p] = NoLeases]
  /\ Drop(p)

UsesPipe(p) == mode[p] \in {"pipe", "pipeForce"}
Forced(p) == mode[p] \in {"force", "pipeForce"}

\* Mutant: a mutex name that differs from process to process.
PrivateMutex(k) == FALSE

\* The named mutex of suite k exists while any process has a handle on it.
MutexExists(k) == \E p \in Procs : SuiteOf[p] = k /\ handle[p] # "none"

VersionFits(k, h) == Wanted[k] \in {AnyVersion, Version[h]}

\* Mutant: the wanted version is not looked at.
ListAll(k) == {{h \in Hosts : host[h] = "up"}, {}}

\* instances_for_version: the pipes of the wanted version, or nothing at all
\* when the pipe directory cannot be listed.
Listings(k) == {{h \in Hosts : host[h] = "up" /\ VersionFits(k, h)}, {}}

\* find_free: a host that the process's own copy leases to another suite is
\* not a candidate.
LeasedElsewhere(p, h) ==
  \E k \in Suites \ {SuiteOf[p]} : leases[p][k] = h
\* Mutants: every listed host is free; the process's own lease is the one
\* taken out.
FindAny(p, listing) == listing
FindForeign(p, listing) == {h \in listing : leases[p][SuiteOf[p]] # h}
FindFree(p, listing) == {h \in listing : ~LeasedElsewhere(p, h)}

\* The versions auto_launch may start: the wanted one, or else the newest
\* one in the last listing.
Launches(p, h) ==
  \/ Wanted[SuiteOf[p]] = Version[h]
  \/ /\ Wanted[SuiteOf[p]] = AnyVersion
     /\ \E i \in instances[p] : /\ Version[i] = Version[h]
                                /\ \A j \in instances[p] : Version[j] <= Version[i]

-----------------------------------------------------------------------------
(* Configuration and the suite mutex. *)

\* pytest_configure: the lease map is read here, before the mutex is taken.
\* Any error while reading gives the empty map.
Configure(p) ==
  /\ At(p, "off")
  /\ \E m \in Modes, view \in {leaseFile, NoLeases} :
       /\ mode' = [mode EXCEPT ![p] = m]
       /\ leases' = [leases EXCEPT ![p] = view]
  /\ Goto(p, "collected")
  /\ UNCHANGED <<shared, handle, search, conn>>

\* --collect-only, the disabling environment variable, two conftest suites.
EndBeforeMutex(p) ==
  /\ At(p, "collected")
  /\ Leave(p)
  /\ UNCHANGED <<shared, handle, conn>>

\* SuiteMutex.acquire: CreateMutexW opens or creates the named object.
CreateMutex(p) ==
  /\ At(p, "collected") /\ ~UsesPipe(p)
  /\ IF MutexExists(SuiteOf[p])
       THEN Goto(p, "rejected") /\ handle' = [handle EXCEPT ![p] = "probe"]
       ELSE Goto(p, "list") /\ handle' = [handle EXCEPT ![p] = "owner"]
  /\ UNCHANGED <<shared, mode, leases, search, conn>>

CreateMutexFails(p) ==
  /\ At(p, "collected") /\ ~UsesPipe(p)
  /\ Leave(p)
  /\ UNCHANGED <<shared, handle, conn>>

\* CloseHandle on ERROR_ALREADY_EXISTS, then pytest.exit.
CloseProbe(p) ==
  /\ At(p, "rejected")
  /\ handle' = [handle EXCEPT ![p] = "none"]
  /\ Leave(p)
  /\ UNCHANGED <<shared, conn>>

\* An explicit pipe needs no mutex; with --force-launch it is then ignored.
SkipMutex(p) ==
  /\ At(p, "collected") /\ UsesPipe(p)
  /\ Goto(p, IF Forced(p) THEN "list" ELSE "explicit")
  /\ UNCHANGED <<shared, mode, handle, leases, search, conn>>

-----------------------------------------------------------------------------
(* ensure_bridge: reuse, find or launch a host. *)

ListInstances(p) ==
  /\ At(p, "list")
  /\ \E found \in Listings(SuiteOf[p]) : instances' = [instances EXCEPT ![p] = found]
  /\ Goto(p, IF Forced(p) THEN "launch" ELSE "leased")
  /\ UNCHANGED <<shared, mode, handle, leases, free, target, conn>>

\* _try_reconnect_leased up to the connection: the suite's own lease is
\* followed if its process lives and its pipe was in the listing.
CheckLease(p) ==
  LET own == leases[p][SuiteOf[p]]
      live == own \in instances[p] /\ host[own] \in {"starting", "up"}
  IN /\ At(p, "leased")
     /\ target' = [target EXCEPT ![p] = IF live THEN own ELSE NoHost]
     /\ instances' = [instances EXCEPT ![p] = {}]
     /\ Goto(p, IF own = NoHost THEN "relist" ELSE IF live THEN "reconnect" ELSE "clear")
     /\ UNCHANGED <<shared, mode, handle, leases, free, conn>>

\* connect_pipe on a live host: connected and compatible.
Connect(p, h, after) ==
  /\ host[h] = "up"
  /\ target' = [target EXCEPT ![p] = h]
  /\ conn' = [conn EXCEPT ![p] = h]
  /\ instances' = [instances EXCEPT ![p] = {}]
  /\ free' = [free EXCEPT ![p] = {}]
  /\ Goto(p, after)
  /\ UNCHANGED <<shared, mode, handle, leases>>

\* Any other exception of the handshake, or an incompatible host: not a
\* ConnectionError, so no further candidate is tried.  (A silent host raises nothing,
\* see Waits.)  After a launch or for an explicit pipe a ConnectionError ends the session
\* just the same.
HandshakeFails(p) ==
  /\ pc[p] \in {"reconnect", "connectFree", "connectLaunched", "explicit"}
  /\ Leave(p)
  /\ UNCHANGED <<shared, handle, conn>>

Reconnect(p) == At(p, "reconnect") /\ Connect(p, target[p], "assign")

\* Mutant: the listing and the lease are looked at again.
LookAgain(p) ==
  /\ At(p, "reconnect")
  /\ Goto(p, "list")
  /\ target' = [target EXCEPT ![p] = NoHost]
  /\ UNCHANGED <<shared, mode, handle, leases, instances, free, conn>>

\* ConnectionError on the leased host.
ReconnectRefused(p) ==
  /\ At(p, "reconnect")
  /\ Goto(p, "clear")
  /\ target' = [target EXCEPT ![p] = NoHost]
  /\ UNCHANGED <<shared, mode, handle, leases, instances, free, conn>>

\* _save_leases: the whole new copy replaces the file, unless every retry ends
\* in a PermissionError, which nobody catches.
Save(p, copy, after) ==
  /\ \/ /\ leases' = [leases EXCEPT ![p] = copy]
        /\ leaseFile' = copy
        /\ Goto(p, after)
        /\ Drop(p)
        /\ UNCHANGED mode
     \/ Leave(p) /\ UNCHANGED leaseFile
  /\ UNCHANGED <<host, recycled, handle, conn>>

\* Mutant: the entry stays, with the process id 0 that from_dict defaults to.
ZeroSuite(p) ==
  /\ At(p, "clear")
  /\ Save(p, [leases[p] EXCEPT ![SuiteOf[p]] = 0], "relist")

ClearSuite(p) ==
  /\ At(p, "clear")
  /\ Save(p, [leases[p] EXCEPT ![SuiteOf[p]] = NoHost], "relist")

Relist(p) ==
  /\ At(p, "relist")
  /\ \E found \in Listings(SuiteOf[p]) :
       /\ instances' = [instances EXCEPT ![p] = found]
       /\ free' = [free EXCEPT ![p] = FindFree(p, found)]
       /\ Goto(p, IF FindFree(p, found) = {} THEN "launch" ELSE "connectFree")
  /\ UNCHANGED <<shared, mode, handle, leases, target, conn>>

\* _connect_first_available: candidates from the highest (version, pid) down.
Highest(p, h) == h \in free[p] /\ \A g \in free[p] : g <= h

ConnectFree(p) ==
  /\ At(p, "connectFree")
  /\ \E h \in Hosts : Highest(p, h) /\ Connect(p, h, "assign")

\* Mutant: with no candidate left the session goes on to launch a host.
LaunchWhenRefused(p) ==
  /\ At(p, "connectFree")
  /\ \E h \in Hosts :
       /\ Highest(p, h)
       /\ free' = [free EXCEPT ![p] = @ \ {h}]
       /\ Goto(p, IF free[p] = {h} THEN "launch" ELSE "connectFree")
  /\ UNCHANGED <<shared, mode, leases, instances, target, handle, conn>>

\* ConnectionError: on to the next candidate.  With none left, the error ends
\* the session.
CandidateRefused(p) ==
  /\ At(p, "connectFree")
  /\ \E h \in Hosts :
       /\ Highest(p, h)
       /\ IF free[p] = {h}
            THEN Leave(p)
            ELSE /\ free' = [free EXCEPT ![p] = @ \ {h}]
                 /\ UNCHANGED <<pc, mode, leases, instances, target>>
  /\ UNCHANGED <<shared, handle, conn>>

\* Mutant: a target that is recorded only in the file's lease of the suite,
\* not in the process's copy.
AssignFileOnly(p) ==
  /\ At(p, "assign")
  /\ leaseFile' = [leases[p] EXCEPT ![SuiteOf[p]] = target[p]]
  /\ Goto(p, "attached")
  /\ Drop(p)
  /\ UNCHANGED <<host, recycled, mode, handle, leases, conn>>

\* SuiteLeaseStore.assign.
Assign(p) ==
  /\ At(p, "assign")
  /\ Save(p, [leases[p] EXCEPT ![SuiteOf[p]] = target[p]], "attached")

\* A new host process; the system may reuse the id of one that has ended.
Spawn(h) ==
  /\ host[h] \in {"none", "dead"}
  /\ host' = [host EXCEPT ![h] = "starting"]
  /\ recycled' = IF host[h] = "dead" THEN recycled \cup {h} ELSE recycled

\* auto_launch up to start_host.
Launch(p) ==
  /\ At(p, "launch")
  /\ \E h \in Hosts : /\ Launches(p, h)
                      /\ Spawn(h)
                      /\ target' = [target EXCEPT ![p] = h]
  /\ instances' = [instances EXCEPT ![p] = {}]
  /\ Goto(p, "waitPipe")
  /\ UNCHANGED <<leaseFile, mode, handle, leases, free, conn>>

\* No version to launch, not installed, or the process cannot be started.
LaunchFails(p) ==
  /\ At(p, "launch")
  /\ Leave(p)
  /\ UNCHANGED <<shared, handle, conn>>

\* wait_for_host_pipe: the launched process's pipe, or the launch timeout.
PipeAppears(p) ==
  /\ At(p, "waitPipe")
  /\ host[target[p]] = "up"
  /\ Goto(p, "connectLaunched")
  /\ UNCHANGED <<shared, mode, handle, leases, search, conn>>

\* Mutant: the wait for the pipe has no deadline.
KeepPolling(p) == At(p, "waitPipe") /\ UNCHANGED vars

LaunchTimeout(p) ==
  /\ At(p, "waitPipe")
  /\ Leave(p)
  /\ UNCHANGED <<shared, handle, conn>>

ConnectLaunched(p) == At(p, "connectLaunched") /\ Connect(p, target[p], "assign")

\* --revit-pipe: the named host, whatever its version or lease; no lease is
\* taken.
ConnectExplicit(p) ==
  /\ At(p, "explicit")
  /\ \E h \in Hosts : Connect(p, h, "attached")

-----------------------------------------------------------------------------
(* The run and the teardown. *)

\* Mutant: the mutex guards only the search.
StartUnlocked(p) ==
  /\ At(p, "attached")
  /\ host[conn[p]] = "up"
  /\ Goto(p, "running")
  /\ handle' = [handle EXCEPT ![p] = "none"]
  /\ UNCHANGED <<shared, mode, leases, search, conn>>

\* ConnectionResult.ok peeks at the pipe; a dead one skips every item.
Start(p) ==
  /\ At(p, "attached")
  /\ host[conn[p]] = "up"
  /\ Goto(p, "running")
  /\ UNCHANGED <<shared, mode, handle, leases, search, conn>>

SkipAll(p) ==
  /\ At(p, "attached")
  /\ host[conn[p]] # "up"
  /\ Leave(p)
  /\ UNCHANGED <<shared, handle, conn>>

\* _dispatch_remote_run, as one step; RemoteRun looks inside.
FinishRun(p) ==
  /\ At(p, "running")
  /\ Leave(p)
  /\ UNCHANGED <<shared, handle, conn>>

\* pytest_unconfigure: first the mutex ...
ReleaseMutex(p) ==
  /\ At(p, "closing")
  /\ handle' = [handle EXCEPT ![p] = "none"]
  /\ Goto(p, "released")
  /\ UNCHANGED <<shared, mode, leases, search, conn>>

\* The process is gone and with it everything it held.
Ended(p) ==
  /\ Goto(p, "off")
  /\ mode' = [mode EXCEPT ![p] = "discover"]
  /\ leases' = [leases EXCEPT ![p] = NoLeases]
  /\ Drop(p)
  /\ handle' = [handle EXCEPT ![p] = "none"]
  /\ conn' = [conn EXCEPT ![p] = NoHost]
  /\ UNCHANGED shared

\* ... then, after the dialog resolver's thread, the bridge.
Disconnect(p) == At(p, "released") /\ Ended(p)

\* The process is killed at any point: the kernel closes its handles.
Crash(p) == pc[p] # "off" /\ Ended(p)

-----------------------------------------------------------------------------
(* Host processes, outside the plugin. *)

OpenHost(h) == Spawn(h) /\ UNCHANGED <<leaseFile, pc, mode, handle, leases, search, conn>>

HostReady(h) ==
  /\ host[h] = "starting"
  /\ host' = [host EXCEPT ![h] = "up"]
  /\ UNCHANGED <<leaseFile, recycled, pc, mode, handle, leases, search, conn>>

HostExit(h) ==
  /\ host[h] \in {"starting", "up"}
  /\ host' = [host EXCEPT ![h] = "dead"]
  /\ UNCHANGED <<leaseFile, recycled, pc, mode, handle, leases, search, conn>>

-----------------------------------------------------------------------------
\* What a started session does by itself.
SessionStep(p) ==
  \/ EndBeforeMutex(p) \/ CreateMutex(p) \/ CreateMutexFails(p) \/ CloseProbe(p)
  \/ SkipMutex(p) \/ ListInstances(p) \/ CheckLease(p)
  \/ Reconnect(p) \/ ReconnectRefused(p) \/ ClearSuite(p)
  \/ Relist(p) \/ ConnectFree(p) \/ CandidateRefused(p) \/ HandshakeFails(p)
  \/ Assign(p) \/ Launch(p) \/ LaunchFails(p) \/ PipeAppears(p) \/ LaunchTimeout(p)
  \/ ConnectLaunched(p) \/ ConnectExplicit(p)
  \/ Start(p) \/ SkipAll(p) \/ FinishRun(p) \/ ReleaseMutex(p) \/ Disconnect(p)

HostStep(h) == OpenHost(h) \/ HostReady(h) \/ HostExit(h)

Next == \/ \E p \in Procs : Configure(p) \/ SessionStep(p) \/ Crash(p)
        \/ \E h \in Hosts : HostStep(h)

Spec == Init /\ [][Next]_vars

\* The session is in a request to a host that is up, instance_info of a handshake or
\* the run: ReadFile has no timeout, so it goes on only if the host answers or goes.
Waits(p) ==
  \E h \in Hosts :
    /\ host[h] = "up"
    /\ \/ pc[p] \in {"reconnect", "connectLaunched"} /\ h = target[p]
       \/ At(p, "connectFree") /\ Highest(p, h)
       \/ At(p, "explicit")
       \/ At(p, "running") /\ h = conn[p]

\* A process that runs takes its next step, unless it waits for a host's answer, which
\* may never come: no other call waits for a host or another session.  The fairness is
\* strong, for a read whose host has gone ends even if another takes over its id.
Fairness == \A p \in Procs : SF_vars(~Waits(p) /\ SessionStep(p))
FairSpec == Spec /\ Fairness

-----------------------------------------------------------------------------
(* Properties. *)

\* Two processes of one suite are never both between the mutex and their
\* teardown, unless one was given an explicit pipe (_ensure_bridge).
Guarded(p) == pc[p] \in Held /\ ~UsesPipe(p)
SuiteExclusive ==
  \A p, q \in Procs : Guarded(p) /\ Guarded(q) /\ SuiteOf[p] = SuiteOf[q] => p = q

\* Neither the lease file nor any process's copy ever leases one host process
\* to two suites, however many sessions overwrite the file with stale copies
\* (find_free, assign, clear_suite).  Only a reused process id escapes.
Injective(map) ==
  \A j, k \in Suites : j # k /\ map[j] = map[k] /\ map[j] # NoHost => map[j] \in recycled
LeasesInjective ==
  /\ Injective(leaseFile)
  /\ \A p \in Procs : Injective(leases[p])

\* When two sessions of different suites nevertheless drive one host, each
\* one's copy of the lease map misses the other's lease: sharing comes from a
\* stale copy and from nothing else in the search.
Leasing(p) == pc[p] \in Attached /\ mode[p] # "pipe"
SharingIsBlind ==
  \A p, q \in Procs :
    /\ Leasing(p) /\ Leasing(q)
    /\ SuiteOf[p] # SuiteOf[q]
    /\ conn[p] = conn[q] /\ conn[p] \notin recycled
    => leases[p][SuiteOf[q]] # conn[p]

\* A session that was given no pipe runs in a host of the version its suite wants, be
\* it leased, free or launched, whatever comes and goes on the way to it (ensure_bridge).
RightVersion == \A p \in Procs : Leasing(p) => VersionFits(SuiteOf[p], conn[p])

\* A session that was not told to launch does so only when it has failed with
\* no candidate: every host in its last listing is, to its knowledge, leased
\* to another suite (_connect_discovered_or_launched).
LaunchesOnlyWhenAllTaken ==
  \A p \in Procs : At(p, "launch") /\ ~Forced(p)
                     => \A h \in instances[p] : LeasedElsewhere(p, h)

\* The mutex implements the abstract try-lock.
Holders == [k \in Suites |-> {p \in Procs : SuiteOf[p] = k /\ handle[p] = "owner"}]
Lock == INSTANCE SuiteLock WITH holders <- Holders
LockSpec == Lock!Spec

\* A session never goes back: with every step of its own it comes nearer to its end,
\* or drops a candidate.  So it follows its lease once, tries no candidate twice and
\* launches at most one host, whatever the others do (_connect_discovered_or_launched).
Left == [collected |-> 17, rejected |-> 16, list |-> 15, explicit |-> 14, leased |-> 13,
         reconnect |-> 12, clear |-> 11, relist |-> 10, connectFree |-> 9, launch |-> 8,
         waitPipe |-> 7, connectLaunched |-> 6, assign |-> 5, attached |-> 4, running |-> 3,
         closing |-> 2, released |-> 1, off |-> 0]
Own(p) == <<pc[p], mode[p], handle[p], leases[p], instances[p], free[p], target[p], conn[p]>>
Nearer(p) ==
  \/ Left[pc'[p]] < Left[pc[p]]
  \/ pc'[p] = pc[p] /\ free'[p] \subseteq free[p] /\ free'[p] # free[p]
NoWayBack == [][\A p \in Procs : pc[p] = "off" \/ UNCHANGED Own(p) \/ Nearer(p)]_vars

\* Every session comes to its end, whatever the others do and whatever fails, or waits
\* for ever for a host that is up and does not answer, in the handshake of
\* connect_pipe or in the run.
SessionEnds == \A p \in Procs : []<>(pc[p] = "off") \/ <>[]Waits(p)

\* The inductive invariant behind the five invariants above.  Known: a leased
\* host has been started.  Safe: a host the process may lease to its suite.
Known(map) == \A k \in Suites : map[k] # NoHost => host[map[k]] # "none"
Safe(p, h) == /\ h \in Hosts
              /\ host[h] # "none"
              /\ LeasedElsewhere(p, h) => h \in recycled

SessionInv(p) ==
  /\ Injective(leases[p]) /\ Known(leases[p])
  /\ pc[p] \in {"reconnect", "assign", "waitPipe", "connectLaunched"} => Safe(p, target[p])
  /\ At(p, "connectFree") => \A h \in free[p] : Safe(p, h)
  /\ At(p, "assign") => conn[p] = target[p]
  /\ At(p, "explicit") => mode[p] = "pipe"
  /\ Leasing(p) => conn[p] \in Hosts /\ leases[p][SuiteOf[p]] = conn[p]
  /\ Guarded(p) => handle[p] = "owner"
  /\ At(p, "launch") /\ ~Forced(p) => \A h \in instances[p] : LeasedElsewhere(p, h)

OneOwner ==
  \A p, q \in Procs :
    handle[p] = "owner" /\ handle[q] = "owner" /\ SuiteOf[p] = SuiteOf[q] => p = q

\* The conjunction that every step preserves; what it says of a session is
\* what the code relies on at each of its calls.
IInv ==
  /\ TypeOK
  /\ Injective(leaseFile) /\ Known(leaseFile)
  /\ OneOwner
  /\ \A p \in Procs : SessionInv(p)

\* CHANGELOG.md:148 promises that no two pytest processes are connected to
\* the same host instance; stated for sessions that search for their host.
HostExclusive ==
  \A p, q \in Procs :
    pc[p] = "running" /\ pc[q] = "running" /\ conn[p] = conn[q] => p = q

\* suite_lock.py:3 promises one process at a time per suite; here, that no
\* two processes of a suite have a bridge open.
OneSessionPerSuite ==
  \A p, q \in Procs :
    conn[p] # NoHost /\ conn[q] # NoHost /\ SuiteOf[p] = SuiteOf[q] => p = q

\* suite_lock.py:31 and the message at plugin.py:251: a process is turned
\* away at the mutex because another process holds it.
RejectedOnlyIfHeld ==
  [][\A p \in Procs : pc'[p] = "rejected" /\ pc[p] # "rejected"
                        => Holders[SuiteOf[p]] # {}]_vars
=============================================================================
