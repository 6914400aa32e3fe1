# TLA+ models of revitdevtool_pytest

`revitdevtool_pytest` is a pytest plugin that collects tests on the developer's
machine and runs them inside a CAD host (Revit, AutoCAD, ...). It finds a
running host or launches one, talks to it over a Windows named pipe, and turns
what the host sends into pytest reports. This directory holds TLA+ models of
the plugin, the TLC configurations that check them on small instances, and
proofs checked by TLAPS for instances of any size.

All paths below are relative to `src/src/revitdevtool_pytest/`.

## Inventory

| part | state | operations | talks to |
|---|---|---|---|
| Suite mutex, `suite_lock.py` | the handle of a named Windows mutex | `acquire` (a try-lock, never waits), `release`; the key from host, version and workspace | other pytest processes, through the kernel object |
| Lease store, `suite_leasing.py` | `_leases`, a copy of `suite-leases.json` taken at configuration | `find_free`, `assign`, `clear_suite`, load, whole-map save with retries | other pytest processes, through the file |
| Connection manager, `connection.py` | none of its own | `ensure_bridge`: explicit pipe, leased host, free host, launch | lease store, discovery, bridge |
| Discovery, `discovery.py` | none | list the pipes, start a host, wait for its pipe | the pipe directory, host processes |
| Plugin, `plugin.py` | module globals (`_bridge`, `_dialog_resolver`, `_lease_store`, `_suite_mutex`) and four stash entries | the pytest hooks: configure, runtestloop, runtest_protocol, unconfigure | everything |
| Bridge, `bridge.py` | the pipe handle | `connect`, `disconnect`, `_request` (one frame out, frames in until a response) | the host |
| Reporting, `reporting.py` | the set of streamed items of a request | streaming callback, batch reports, collection errors, outcome normalisation | pytest's report hooks |
| Dialog resolver, `dialog_resolver.py` | a thread, a stop event, the clicked buttons | `start`, `stop`, scan loop | windows of the launched host |
| Protocol check, `protocol.py` | none | range comparison of protocol versions | - |
| IronPython collection, `ipy_collect.py` | none between files | a scan over the lines of `test_*_ipy.py` for class and def lines; items made of it; `fan_suite_results` hands the host's results to them | pytest's collection, reporting |
| Host registry, `hosts/` | none | find installed hosts | registry, file system |

What is hard here:

* Several pytest processes share the lease file and the hosts, and only
  processes of one suite exclude each other. The file is read long before it
  is written, as a whole, from a copy.
* Mutex, lease and connection are three resources taken in one order, given
  back in another, and each of them can fail on its own.
* Hosts start, open their pipe, exit and reuse process ids at any moment.
* The pipe protocol has no matching of responses, and its deadline is looked
  at only between reads.
* One result may reach the client twice, as a notification and in the response,
  or in one of the two ways, or not at all; two requests share one session.
* A hook of another plugin may raise in the middle of a streamed report.
* A thread clicks buttons in windows that come and go, through handles the
  system may give to other windows, while the session starts, runs and stops.
  A click is a synchronous message: it lasts as long as its handler.
* IronPython tests are found by two regular expressions; what runs is decided by
  unittest on the host. Nothing compares the two.

What makes each part correct:

* mutex: at most one session of a suite between mutex and teardown; a try-lock
  that nobody waits for; it survives the death of its holder.
* leases: one host is never leased to two suites, neither in the file nor in
  anyone's copy; the plugin launches a host only when it must.
* session: it gets a host of the version it wants, and it ends, whatever other
  sessions do, unless it waits for ever for a host that is up and does not answer.
* remote run: no frame is taken for another request's; every item is reported,
  no phase of a test twice; no failure of the host becomes a pass; `-x` stops.
* dialog resolver: it presses the button that it chose, in the dialog it chose it
  for, once; every dialog gets its turn, but for one whose best button has a handle
  that it remembers; it never holds up the end of the session.
* IronPython collection: for classes that keep the conventions of a line scan
  (see IpyCollection), the items are the tests that unittest runs, each once.

## Modules

| module | what it is |
|---|---|
| `SuiteLock` | abstract specification: a try-lock per suite, one variable |
| `SuiteSessions` | any number of pytest processes, suites and hosts, the lease file, the mutexes; implements `SuiteLock` |
| `SuiteSessionsProofs` | its theorems |
| `MCSuiteSessions` | constants for TLC |
| `RemoteRun` | one session on one connected host: requests, notifications, responses, reports |
| `RemoteRunProofs` | its theorems |
| `TestReports` | abstract specification: what a remote run owes pytest, without requests, frames and failures; implemented by `RemoteRun` |
| `RemoteRunRefinement` | the proof that it is |
| `MCRemoteRun` | constants for TLC |
| `DialogResolver` | the resolver's thread, the session that starts and stops it, the desktop |
| `DialogResolverProofs` | its theorems |
| `MCDialogResolver` | constants for TLC |
| `IpyCollection` | a file written line by line, the scan beside it, items and results |
| `IpyCollectionProofs` | its theorems |
| `MCIpyCollection` | constants for TLC |

`SuiteSessions` and `RemoteRun` meet at `FinishRun` of `SuiteSessions`, which is a whole
execution of `RemoteRun`: to the other sessions, a run is only the time during
which mutex, lease and bridge are held. `DialogResolver` belongs to a session that
launches its host: its `Connect` stands for the steps of `SuiteSessions` from
`waitPipe` to `running`, its `running` for a `RemoteRun`. `IpyCollection` yields
the IronPython items that `RemoteRun` takes as a constant.

### SuiteSessions

A process's `pc` names the call it is in. From `off` it goes through
`pytest_configure` (`Configure`, where the lease map is read), collection and
the mutex (`CreateMutex`, `CloseProbe`), then `ensure_bridge`:

    list -> leased -> reconnect -> assign -> attached -> running
              |          |            ^
              v          v            |
            relist <-- clear          |
              |                       |
              +-> connectFree --------+
              |                       |
              +-> launch -> waitPipe -> connectLaunched

with `explicit` as the path of `--host-pipe`, and `closing`, `released` for the
two parts of `pytest_unconfigure`. Each action is one call whose effects other
processes can see: reading the file, creating or closing a kernel handle,
listing the pipes, opening a pipe, replacing the file, starting a process.
Everything a call does besides is part of the action; what only the process
itself sees is never a step of its own.

* `leaseFile` is the content of `suite-leases.json`, `leases[p]` the `_leases`
  of process `p`. A lease is a host's process id, the only field the code
  decides by (the pipe name is derived from it). `Save` writes the copy as a
  whole or ends in the `PermissionError` that is left after the last retry.
* `handle[p]` is the process's handle on the mutex object: the owner's, or the
  handle that a rejected process holds between `CreateMutexW` and
  `CloseHandle`. The object exists while any process has either.
* Hosts are numbers in the order in which `find_free` sorts them, (version,
  pid). `host[h]` is `none`, `starting`, `up` (its pipe exists) or `dead`.
  A host may exit at any time, and `Spawn` may reuse a dead process's id;
  `recycled` remembers that this has happened. It is history, read only by
  properties.
* A connection attempt succeeds on a host that is up; it may also fail at any
  time with a `ConnectionError` (`ReconnectRefused`, `CandidateRefused`) or
  with another exception (`HandshakeFails`: incompatible host, a broken reply, a
  closed pipe). The three retries inside `connect_pipe` are one step.
* A connection ends with `instance_info`, a request with the same `ReadFile`
  without timeout as the run's. `Waits` says when a session is in such a request
  to a host that is up: then it may stay there for ever, and no step of it is
  assumed to happen.
* `Crash` kills a process anywhere: the kernel closes its handles, the file
  stays as it is.

### RemoteRun

`pc` is the client's position: `dispatch` (which request is next), `send`,
`wait` (about to look at the deadline), `read` (inside `ReadFile`), `report`
(the loop over `session.items`), `done`. `wire` is the pipe from host to
client. Every frame carries, as history, the request it answers; the client's
actions do not look at it. Requests `py` and `ipy` are `tests/run` and
`ipytests/run`, in this order.

* A '(suite)' item (`Suites`) stands for a whole IronPython file in which the scan
  found no test. `fan_suite_results` gathers the results of all the file's nodeids
  under it, and each of them becomes a report of the item. So a result and a report say
  which test of the item they are about (`TestsOf`); any other item has one test.
  `Place` orders what an item may be reported for, by test and phase.
* `streamed`, `results` and `failed` are the local variables of
  `_dispatch_remote_run`, later the stash entries. `reports[i]` lists the
  reports item `i` got. `failures` is pytest's `testsfailed`; `ShouldFail` is
  its `shouldfail`, which `--maxfail` sets.
* Outcomes are the words of the protocol; `other` stands for `error` and every
  unknown word. `Normalize` is `_normalize_outcome`, including the `wasxfail`
  mark that keeps a report from being counted.
* The host (external) runs the items of a request in order, test by test and phase by
  phase (`Phases` says which phases it reports for an item's tests),
  sends a notification or does not, and answers with all it has recorded, with
  or without a collection error; it may stop at any item or close its pipe.
* A deadline may pass at any moment the client looks at it: `Timeout` before a
  frame, `TimeoutInFrame` between two pieces of one.
* `HookRaises`: another plugin's hook raises once the report of a notification is
  logged. The bridge swallows the exception, the report stays counted, and the item
  is not marked as streamed. `raised` is the history of such items.
* `Owed` reads a run as `TestReports`: the host's record is `recorded`, the streamed
  items are `marked`, and everything before the batch loop is `running`. There, an item
  gets single reports of results that the host recorded, in the order in which it
  recorded them; then the items not marked get all their results or one error, in
  collection order. What `TestReports` does not promise the code does not give: a
  marked item may lack results, and the results of any item may be replaced by an error.
  In particular a session passes if each item was streamed in part, as passed, and the
  request then fails.

### DialogResolver

`pc` is the thread's position: `check` (head of the loop), `enum`, `scan`
(the loop over the dialogs listed, `todo`), `sent` (inside `SendMessageW`),
`pressed` (the click's handler has opened a dialog of its own and waits for
it), `wait`, `ended`. `main` is the session's: `launched`, `connecting`,
`running`, `joining` (inside `join(timeout=5)`), `gone`.

* Listing the dialogs (`Enumerate`) and looking at one (`Look`) are different
  steps. In between, a window may close and its handle go to a new one; `fresh`
  remembers the windows that were opened since the listing. Reading a title and
  finding the button are one step.
* A click sent is handled later (`Press`, `PressOpens`, `Miss`), after any number
  of steps of others. The handler closes the dialog, or does not, or opens another
  dialog and returns when that one is closed (`HandlerReturns`).
* A button's text is one of `Texts`. `Exact` and `Within` say which keyword it is
  equal to and which is the first that occurs in it, `Blocked` whether a blocked
  keyword does. A text does not change while its button exists.
* A window is of a kind: the host's with a whitelisted title, the host's without,
  or another program's (or a hidden one) with such a title. The listing looks at
  the process, the scan at the title alone.
* `clicked` only grows, as `_clicked` does, also with a click that missed its button.
  A dialog is `Due` when it has a button to click and none was pressed; if the handle of
  its best button is remembered from earlier, `_scan` never clicks it (`Overlooked`).
  That is the code's behaviour, and the exception that `ScanServes` and `Served` state.
* `LaunchRaises`: when the wait for the pipe or anything after it raises, nobody
  has a reference to the resolver; it goes on until the process ends.
  The thread is a daemon, so the end of the process is its end.

### IpyCollection

Every state is a complete file: a behaviour adds one line at a time, at a level
that the lines before it allow (`ModuleClass`, `InnerClass`, `Def`, `Other`). Beside
the scanner's local variables stands what the lines mean to Python and
unittest: the module's classes, which are test cases, the methods each has or inherits.

* A class line ends in one of six ways (`Heads`), as far as the scanner or
  unittest can tell the difference; beside a base of the file, imported bases may
  bring tests (`inherited`). `ClassIndent` counts characters, `DefIndent`
  columns, as the code does; `tabs` says how the file is indented.
* `odd` is the set of classes with a line that breaks a convention. The
  conventions: the list of bases is on the class line; the class is a test case
  exactly if `TestCase` stands in that list, so it neither derives from a test case by
  another name, of the file or imported, nor has a base with that word in its name that
  is none; no base, of the file or imported, brings tests; no two classes, and no
  two tests of a class, have one name; no class and no test is defined inside another
  test, function or class. No document of the repository states them: they are what the
  scan takes for granted. Each is needed: for a file that breaks it alone, one of the
  properties fails.
* `Items` is `IpyTestFile.collect`, `ResultsOf` what `fan_suite_results` hands to
  an item.

Definitions marked "Mutant" are wrong variants of the definition after them,
each with a mistake the code could have. `PROJECT.json` pairs every property of
a passing run with one, under which TLC finds the property violated. The
specification does not use them.

## Runs

Properties that hold:

| run | instance | shows |
|---|---|---|
| `suites_two` | 2 processes of different suites, one with `--host-version` and one without, 2 hosts of different versions, with and without `--host-pipe` | `IInv`, the inductive invariant of the proofs; `LeasesInjective`; `SharingIsBlind`; `RightVersion`; `LaunchesOnlyWhenAllTaken`; `NoWayBack` |
| `suites_same` | 2 processes of one suite, 1 host, all four option combinations | `SuiteExclusive`; `LockSpec` (refinement of `SuiteLock`); `SessionEnds`, the exception of a silent host included |
| `run_stream` | 3 items, the second a '(suite)' item with two tests, the others with two phases, streaming, `--maxfail=1` | `FramesBelongToRequest`, `NoDoubleReport`, `NeverSilent`, `AnswerToCome`, `StopIsFinal`, `OwedSpec` (refinement of `TestReports`), `Ends` |
| `run_batch` | a CPython item with two phases and a '(suite)' item with two tests, streaming, no `--maxfail`, a pass and every word that the client translates | `NeverGreenOnFailure`, `ReportsComeFromHost`, `ResultsKept`, `ComesNearer` |
| `dialogs` | 2 window handles, 2 button handles, the texts "Always Load Add-in", "Load" and "Do Not Load" with the default keywords | `OneScanAfterStop`, `ScanServes`, `PressedAsChosen`, `NoSecondPress`, `Served`, `StopReturns` |
| `ipy` | every file of up to 6 lines and 3 levels with 2 class and 2 method names | `NothingMissed`, `NothingInvented`, `NothingTwice`, `RefusedOnlyWithoutCase` |

Places where a document says more than the code does, each with a run in which
TLC finds the execution:

| run | the document | the execution |
|---|---|---|
| `suites_shared` | `CHANGELOG.md:148`: no two processes in one Revit | both processes read the lease file at configuration; suites differ, so mutexes differ; both find the host free |
| `suites_teardown` | `suite_lock.py:3`: one process at a time per suite | the first process has released its mutex and not yet its bridge |
| `suites_rejected` | `suite_lock.py:31`: refused if another process holds it | the holder leaves while a refused process still has its probe handle; a third process is refused |
| `run_partial` | `README.md:162`: results are mapped to reports | one phase was streamed, the other came only in the response |
| `run_override` | the same | the CPython results are in, then the IronPython request fails |
| `run_silent` | `README.md:115`: the wait is bounded | the host neither answers nor goes away |

`suites_shared` takes for granted that the host's pipe server accepts two clients;
the server is not in this repository. Where it accepts one only, the second
session's `connect` fails and the session goes on to the next candidate.

### Bounds

* Two processes of different suites reach every interleaving of load, save,
  clear and assign of two copies; a lost update needs no third. Sharing and
  double leasing are relations between two sessions. `suites_rejected` needs a
  third process and has it.
* Two hosts are the least with which a search has a second candidate, one host
  can be leased elsewhere while another is free, and a launch can yield a host
  that is newer than the one listed. Process ids are reused without bound.
* `suites_same` has one host, since exclusion, refinement and termination
  do not depend on which host is found.
* Three items give a CPython item before and after an IronPython one; two
  phases let one item be streamed in part; `--maxfail=1` lets the session stop
  in a stream, between the requests and in the batch loop. Each run of the
  protocol is finite: the host records at most one result per phase of a test.
  Two tests beneath a '(suite)' item (`Children`) are the least of which one can fail
  and the other pass, or be reported in place of it. `run_stream` has two words,
  as its properties do not depend on the word but on whether a report counts;
  `run_batch` has those that `Normalize` does not pass on unchanged ("passed" beside
  them; "failed" and "skipped" are passed on as it is), and both a streamed item and one
  left to the batch loop, with hooks that raise.
* Two windows give a dialog and one that its click's handler opens, or a dialog
  and one that takes over its handle. Two buttons let a dialog have a choice, or two
  dialogs have one each. The three texts are one that contains the best keyword, one
  that is equal to a worse one and therefore preferred, and one that contains a keyword
  and is blocked.
* Six lines hold two classes with two tests each, or a class with an inner class and
  tests after it; three levels (0 to 2) are module, class and method body. Two
  names of each kind are enough for namesakes.
* No module but `IpyCollection` (`MaxLines`, `MaxLevel`) and `DialogResolver`
  has a counter that needs a cap; the latter counts listings in `late` up to the 2
  that would violate the property. `RemoteRun` and `DialogResolver` run with
  `CHECK_DEADLOCK FALSE` because a session that is over has no next step,
  `IpyCollection` because a file at its length bound has no further line;
  `SuiteSessions` never stops, sessions and hosts may always start anew.

### Fairness

`SessionEnds` assumes that a process takes its next step (`SessionStep`) as long as it
does not wait for a host that is up (`Waits`), and nothing of hosts, crashes or of
sessions being started. The code justifies it: no call of a session waits for another
session (the mutex is a try-lock), and waiting for a launched host's pipe is bounded by
the launch timeout. The handshake and the run are requests that end in `ReadFile`
without a timeout; of them nothing is assumed while the host is up, and
`SessionEnds` excepts a session that stays in one for ever. Without the exception TLC
finds such a session. The fairness is strong because hosts come and go: the read ends
when its host has gone, although another one may be up under its id a moment
later. `RemoteRun` examines the run (`FinishRun`) from within. There, `Ends` needs the client's steps to be fair and the host to answer or to
close its pipe (`WF_vars(HostResponds)`). `run_silent` shows that the second
assumption cannot be dropped: under `ClientSpec`, which has only the first, the
client may wait for ever in `ReadFile`. The deadline is not assumed to pass.

`Served` and `StopReturns` assume that the resolver's thread and the session's
calls proceed (each of them is a bounded call) and that the host handles the
messages sent to its windows (`HostAnswers`). Closing a window is assumed of nobody, so a click
whose handler waits for its own dialog may last for ever: `Served` excepts this
case beside that of an overlooked dialog, `StopReturns` does not, since `join` has a timeout. Nothing is assumed of
`Stop`, for the tests may take as long as they like; if they had to end, every
dialog would be "served" by the end of the session.

## Proofs

TLAPS checks every theorem for all values of the constants, from these named
assumptions: the types of the constants, hosts are naturals ordered like their
versions, `NoHost` is no host, at least one item, at least one test beneath a '(suite)'
item and such items among the IronPython ones, `Nothing` is no window, button,
text or class, the whole-file item is no test, and a text equal to a keyword
contains one. The proofs use no further assumption, but three theorems are about a part
of the instances, and say which: `NoPipes` (no session is given a pipe), in one of them
with suites that want different versions, and `OneBatch` (one request, no streaming).

`SuiteSessionsProofs`:

* `InductiveInvariant`: `Spec => []IInv`. None of the properties of this
  module is inductive alone. That a save keeps the file injective depends on
  the saver's copy, so the invariant is about every copy; that `assign` keeps a
  copy injective depends on the host picked three calls earlier, so `Safe`
  follows the target from the listing to the save; a freshly launched host is
  safe because no lease names a process id that was never given out (`Known`)
  unless it has been reused (`recycled`). The mutex part needs `OneOwner`,
  which follows from the object's existence while a handle is open. The proof
  has one lemma per part and one step per action.
* `MutualExclusion`, `LeasesStayInjective`, `SharingComesFromStaleCopies`,
  `LaunchIsLastResort` follow from `IInv`.
* `ImplementsLock`: every step is an `Acquire`, a `Release` or a stutter of
  `SuiteLock` under `Holders`. A step that closes a probe handle is a stutter;
  `CreateMutex` is an `Acquire` because an object without handles has no
  holder.
* `SessionsAdvance`: with each step of its own a session gets to a later call, or stays
  in the search with a candidate less (`NoWayBack`). Every call appears once in that
  order, so a session follows its lease once and launches at most one host.
* `SuitsVersion`: what a session lists is of the wanted version, and every host it
  follows, tries or launches comes from such a listing or is launched for it
  (`VersionInv`), except a pipe it was given.
* `ExclusiveByVersion` and `OnlyTeardownOverlaps` say how far two of the violated
  promises hold when no session is given a pipe (`NoPipes`). If suites want different
  versions, and so within one suite, only one session runs in a host; the run
  `suites_shared` needs two suites that may use the same one. Two sessions of one suite
  both have a bridge only if one of them has released the mutex and not yet
  disconnected; this needs that a session with a bridge owns the mutex until it
  releases it (`BridgeInv`). An explicit pipe avoids the mutex, so neither holds with one.

`RemoteRunProofs`:

* `NoStaleFrames`: responses are not matched by id, yet no frame of an earlier
  request is read as the answer to a later one. The reason is an invariant
  across both requests: a request that ended without its response has set
  `failed`, and no request follows one that failed; one that ended with its
  response has left the pipe empty, because the response is the host's last
  frame.
* `EveryItemReported`: every item that the batch loop has passed has a report,
  and a streamed item has one before it is called streamed.
* `MaxFailIsFinal`: at the first dispatch nothing has been counted, so a
  request is never on its way once `ShouldFail` holds.
* `HostReportsAreTrue`: a result keeps its source on each part of its way, the
  pipe, `results_by_nodeid`, the report (`WireTrue`, `ResultsTrue`,
  `ReportsTrue`), while the host's record only grows.

* `ReportedOnce`: a report of a phase of a test may come from a notification or from the
  response. `OnceInv` adds what keeps the two apart: no notification in the pipe is
  for one already reported or notified (`NotesNew`), the results of an item are
  for distinct tests or phases (`ResultsDistinct`), the several tests of a '(suite)' item
  included, and an item that the batch loop has not
  come to has no reports unless it was streamed (`BatchNew`). An item whose hook
  raised is excepted: it has a report and is not marked, so the batch loop reports it again.
* `FailureIsReported`: an item's result is in `results_by_nodeid` only when the
  host has finished the item's request, so it is all the host knows of the item
  (`GreenInv`); an item without result gets an error.
  A streamed item is not covered: `run_partial` shows what it may lose.
* `ResultsAreKept`: what `run_partial` and `run_override` show are the only ways to lose
  a result that came in a response. For each item that the batch loop has passed, all
  its results are reported, unless a request failed or the item was streamed
  (`KeptInv`). `OneBatchReportsAll`: with one request and without streaming
  (`OneBatch`) neither can happen, since a request that fails leaves no results
  (`OneBatchInv`); then the README's promise holds as it stands.
* `NeverWaitsInVain`: whenever the client is about to read or reads, its response is in
  the pipe, or the host works on the request, or the pipe is closed. Nothing in the
  client can eat a response and go on waiting.
* `NothingGoesBack`: every step of client or host descends in a lexicographic order:
  the client's way (`Way`), the batch loop, what the host has still to record
  (`ToRecord`) or to answer, the frames in the pipe, the read. `ToRecord` shrinks because
  the host records the tests of an item, and their phases, in order. Together the two theorems are the
  argument for `Ends`, but for the step from fairness to progress.

`RemoteRunRefinement`:

* `ImplementsReports`: every step of `RemoteRun` is a step of `TestReports` or changes
  nothing that it sees. Requests, frames, timeouts, and what is in `results_by_nodeid`
  are hidden by it, so the proof needs what the other proofs found out about them: the
  results of an item not streamed are all that the host has recorded for it
  (`GreenInv`), and a report belongs to a result of the host (`TruthInv`). That streamed
  reports keep the host's order needs `OrderInv`: the host records an item's tests and
  phases in order, and the notifications in the pipe are for later places than what is
  reported, the earlier frame for the earlier one (`NotesAhead`).

`DialogResolverProofs`:

* `OneMoreScan`: a listing under way when `stop` is called is the last, as the
  head of the loop looks at the event (`LateInv`).
* `PressedOnce`: a pressed button that exists is in `clicked`, or is the one whose
  handler is running; `SendMessageW` returning and remembering are one step of one
  thread.
* `PressedWell`: what was chosen stays acceptable until the click arrives, unless
  its window is `fresh` (`ChosenInv`). This needs that the dialogs listed are the
  host's or `fresh` (`ListedInv`), for the scan does not ask again, and that a button
  that exists is in a window that does (`ParentInv`), for otherwise a new window
  could come by an old button.
* `NoDialogLeftOut`: a dialog that was open when the dialogs were listed and is due is
  still to be looked at, or its click is on its way, or it is overlooked
  (`ScanServes`). What opens meanwhile is `fresh`, and what closes or is clicked cannot
  make another dialog due. That a click has pressed a button of its dialog when it
  returns needs that a button whose handler is running is pressed, or its handle taken by
  a fresh window (`PressedInv`). A dialog counts if any of its buttons may be
  clicked; that one of them is then the best, for any scores, is `SomeIsBest`, from the
  least of a set of numbers (`LeastNumber`).

`IpyCollectionProofs`:

* `CollectsEveryTest`, `CollectsOnlyTests`, `CollectsOnce`, `RefusesRightly` for files
  of any length, depth and names. Their invariant `ScanInv` says where the scanner is when
  the file's last class keeps the conventions: its current class is that class if it
  is a test case and none otherwise, at indentation 0 (`LastInStep`); and for each class that
  keeps them, what has been collected is what it has (`InStep`). A current class
  other than the last one is odd (`StrayIsOdd`), so that a def that the scan
  collects for a wrong class is collected for an odd one.

Model-checked only: `SessionEnds`, `Ends`, `Served` and `StopReturns` (liveness under
fairness, and `ENABLED`, are out of the prover's reach), and the six violations. The
safety part of the first three is proved: `SessionsAdvance`; `NothingGoesBack` with
`NeverWaitsInVain`; `NoDialogLeftOut`.

`OverlapInTeardown` of `OnlyTeardownOverlaps` is a theorem and in no run: it holds without
explicit pipes only, and the runs have sessions with one.

## Not modelled

* The bytes of a frame: reassembly in `_read_exact`, invalid lengths, JSON. The
  properties tell frames apart, not their pieces; what goes wrong in them is an
  exception, and `TimeoutInFrame` and a closed pipe are its cases in `RemoteRun`.
* The clock: every deadline may pass whenever it is looked at. So nothing is said
  of how long anything takes, such as a frame whose header and body are each given
  the whole remaining time.
* Option parsing and precedence, wording of reports, captured output.
* The protocol check: three comparisons and a message; its outcome is a cause of
  `HandshakeFails`.
* The host registry: reads install paths; not found is a cause of `LaunchFails`.
* The order of versions as strings: versions are numbers here.
* The grammar of pipe names, and the `ImportError` branch of `auto_launch`, in which
  a host is launched without a resolver.
* Hooks that raise in the batch loop: pytest ends the session with an internal error.
* The host's side of the pipe beyond what the client can observe. It is taken to give one
  result per phase of a test: were it to repeat one, the client would report it again.
* A process id that a host of another version takes over: `wait_for_host_pipe`
  (`discovery.py:98`) looks at the id alone, and `SuiteSessions` gives an id one version.
* `CreateMutexW` and `GetLastError` are one step, though they are two calls.
* In `DialogResolver`: windows whose texts change, minimised hosts, focus. When the five
  seconds of `join` end is open: `Exit` may happen at any time after `Stop`.
* In `IpyCollection`: the file-name pattern, blocks around classes (`if`, `with`),
  strings and docstrings that look like class or def lines, tests made at run time
  (`load_tests`, `setattr`, decorators), the order of items, and a host that reports
  tests of other files.

## Plan

In place: sessions with mutex, leases, search, launch and teardown; the remote
run and what it owes; the dialog resolver; the IronPython collection. What could follow:

1. An abstract specification of the resolver (each dialog of the host gets one click at
   most, before the session is over) and the proof that `DialogResolver` implements it.
2. An abstract specification of the lease file, a set of claims that its sessions make and
   drop, to state which claims a save from a stale copy may undo.
3. `SuiteSessions` with a launched host's resolver, to relate the orphaned resolver of
   a failed launch to the host that another session connects to.
4. A model of `_read_exact` with a discrete clock, for the time one request may take.
5. Pure functions against reference definitions over bounded inputs:
   `explain_mismatch`, `nearest_conftest`, option precedence, the order of
   version strings.
