----------------------------- MODULE RemoteRun -----------------------------
(***************************************************************************)
(* One test session on one connected host (plugin.py, reporting.py,        *)
(* bridge.py).  The CPython items go out as one tests/run request, then    *)
(* the IronPython items as one ipytests/run request, over the same pipe.   *)
(* While a request runs, progress notifications are turned into reports as *)
(* they arrive (streaming); afterwards every item not streamed is reported *)
(* from the responses, in collection order.                                *)
(*                                                                         *)
(* The host is external: what it sends is modelled from how the client     *)
(* reads it.  Frames carry the request they answer as history; the client  *)
(* does not look at it, as it does not look at response ids.               *)
(***************************************************************************)
EXTENDS Naturals, Sequences, FiniteSets

CONSTANTS
  N,         \* number of collected items, numbered in collection order
  Ipy,       \* the IronPython items among them
  Suites,    \* those that stand for a whole file, the '(suite)' items
  Children,  \* bound: number of tests beneath such an item
  Streaming, \* no IDE adapter is active
  MaxFail,   \* --maxfail, 0 when not given
  Phases,    \* the phases of an item's tests the host reports, see PhaseOrder
  Outcomes   \* the outcomes the host gives, see OutcomeNames

\* "other" stands for "error" and for every word the client does not know.
OutcomeNames == {"passed", "failed", "skipped", "xfailed", "xpassed", "other"}
PhaseOrder == <<"setup", "call", "teardown">>
PhaseNames == {"setup", "call", "teardown"}

ASSUME ItemsAssumption == /\ N \in Nat \ {0} /\ Children \in Nat \ {0}
                          /\ Ipy \subseteq 1..N /\ Suites \subseteq Ipy
ASSUME OptionsAssumption == Streaming \in BOOLEAN /\ MaxFail \in Nat
ASSUME HostAssumption == /\ Phases \in [1..N -> SUBSET PhaseNames]
                         /\ Outcomes \subseteq OutcomeNames

VARIABLES
  \* the client
  pc,       \* where the client is
  req,      \* the request it sends or waits for
  results,  \* results_by_nodeid: per item, what the responses brought
  streamed, \* items reported while their request ran
  failed,   \* collection_failed
  failures, \* failed reports pytest has counted (Session.testsfailed)
  reports,  \* the reports each item got, in order
  raised,   \* history: items a hook raised for while their report was streamed
  next,     \* the item the batch loop is at
  \* the pipe and the host
  wire,     \* frames on their way to the client
  job,      \* the request the host works on
  alive,    \* whether the host's end of the pipe is open
  outcome   \* the results the host has recorded for each item

counts == <<failures, reports, streamed, raised>>
hostvars == <<job, alive, outcome>>
vars == <<pc, req, results, failed, next, counts, wire, hostvars>>

Items == 1..N
Requests == {"py", "ipy"}
ItemsOf(r) == IF r = "ipy" THEN Ipy ELSE Items \ Ipy

\* fan_suite_results: an item gets the results of its own nodeid, a '(suite)' item
\* those of every nodeid of its file.
Tests == 1..Children
TestsOf(i) == IF i \in Suites THEN Tests ELSE {1}

\* A result is one phase of one test of an item.  (Records list their fields in one
\* order throughout: TLC's workers then never have to sort a record they share.)
Result == [outcome : OutcomeNames, phase : PhaseNames, test : Tests]
NoResults == [i \in Items |-> <<>>]

\* A report names the item; which of its tests it is about is history.
Report == [outcome : {"passed", "failed", "skipped"}, phase : PhaseNames,
           test : Tests, xfail : BOOLEAN, by : {"host", "client"}]

Note == [req : Requests, kind : {"note"}, item : Items, result : Result]
Response == [req : Requests, results : [Items -> Seq(Result)],
             kind : {"response"}, error : BOOLEAN]

TypeOK ==
  /\ pc \in {"dispatch", "send", "wait", "read", "report", "done"}
  /\ req \in Requests
  /\ results \in [Items -> Seq(Result)]
  /\ streamed \subseteq Items /\ raised \subseteq Items
  /\ failed \in BOOLEAN
  /\ failures \in Nat
  /\ reports \in [Items -> Seq(Report)]
  /\ next \in 1..N + 1
  /\ wire \in Seq(Note \cup Response)
  /\ job \in Requests \cup {"idle"}
  /\ alive \in BOOLEAN
  /\ outcome \in [Items -> Seq(Result)]

Init ==
  /\ pc = "dispatch" /\ req = "py"
  /\ results = NoResults
  /\ streamed = {} /\ raised = {}
  /\ failed = FALSE
  /\ failures = 0
  /\ reports = NoResults
  /\ next = 1
  /\ wire = <<>>
  /\ job = "idle"
  /\ alive = TRUE
  /\ outcome = NoResults

-----------------------------------------------------------------------------
(* From a result to a report. *)

\* Mutant: the words the client does not know count as skips.
NormalizeLeniently(o) ==
  CASE o = "xfailed" -> [outcome |-> "skipped", xfail |-> TRUE]
    [] o = "xpassed" -> [outcome |-> "failed", xfail |-> TRUE]
    [] o = "other" -> [outcome |-> "skipped", xfail |-> FALSE]
    [] OTHER -> [outcome |-> o, xfail |-> FALSE]

\* _normalize_outcome: the report's outcome, and whether it carries wasxfail.
Normalize(o) ==
  CASE o = "xfailed" -> [outcome |-> "skipped", xfail |-> TRUE]
    [] o = "xpassed" -> [outcome |-> "failed", xfail |-> TRUE]
    [] o = "other" -> [outcome |-> "failed", xfail |-> FALSE]
    [] OTHER -> [outcome |-> o, xfail |-> FALSE]

ReportOf(r) == [outcome |-> Normalize(r.outcome).outcome, phase |-> r.phase,
                test |-> r.test, xfail |-> Normalize(r.outcome).xfail, by |-> "host"]

\* make_error_report.
ErrorReport == [outcome |-> "failed", phase |-> "call",
                test |-> 1, xfail |-> FALSE, by |-> "client"]

\* What pytest counts as a failure, and when it stops a session for it.
Counts(report) == report.outcome = "failed" /\ ~report.xfail
ShouldFail == MaxFail > 0 /\ failures >= MaxFail

\* pytest_runtest_logreport for each report of a sequence.
Log(i, new) ==
  /\ reports' = [reports EXCEPT ![i] = @ \o new]
  /\ failures' = failures + Cardinality({n \in DOMAIN new : Counts(new[n])})

-----------------------------------------------------------------------------
(* The client: one request after the other, then the batch reports. *)

\* Mutants: the second request does not ask whether the first one failed, or
\* whether the session is to stop.
RequestAfterFailure == req = "ipy" => ~ShouldFail
RequestAfterStop == req = "ipy" => ~failed

\* _dispatch_remote_run: a request goes out if it has items; the second one
\* only if the first has not failed and the session is not to stop.
MayRequest == req = "ipy" => ~failed /\ ~ShouldFail
Dispatch ==
  /\ pc = "dispatch"
  /\ IF ItemsOf(req) # {} /\ MayRequest
       THEN pc' = "send" /\ req' = req
       ELSE IF req = "py" THEN pc' = pc /\ req' = "ipy"
                          ELSE pc' = "report" /\ req' = req
  /\ UNCHANGED <<results, failed, next, counts, wire, hostvars>>

\* A request is over; whatever is left of it is no longer looked at.
NextRequest == IF req = "py" THEN pc' = "dispatch" /\ req' = "ipy"
                             ELSE pc' = "report" /\ req' = req

\* _request_remote_run turns every exception into no response.
Fail == failed' = TRUE /\ NextRequest /\ UNCHANGED <<results, next>>

\* _write_frame.
Send ==
  /\ pc = "send" /\ alive
  /\ pc' = "wait"
  /\ job' = req
  /\ UNCHANGED <<req, results, failed, next, counts, wire, alive, outcome>>

SendFails ==
  /\ pc = "send" /\ ~alive
  /\ Fail
  /\ UNCHANGED <<counts, wire, hostvars>>

\* Mutants: a timeout sends the request again, or is forgotten with its frame.
SendAgain ==
  /\ pc = "wait"
  /\ pc' = "send"
  /\ UNCHANGED <<req, results, failed, next, counts, wire, hostvars>>

ForgetFrame ==
  /\ pc = "read" /\ wire # <<>>
  /\ wire' = Tail(wire)
  /\ pc' = "wait"
  /\ UNCHANGED <<req, results, failed, next, counts, hostvars>>

\* _request's loop: before each frame the deadline is looked at ...
BeginRead ==
  /\ pc = "wait"
  /\ pc' = "read"
  /\ UNCHANGED <<req, results, failed, next, counts, wire, hostvars>>

Timeout ==
  /\ pc = "wait"
  /\ Fail
  /\ UNCHANGED <<counts, wire, hostvars>>

\* ... then ReadFile blocks until the host sends something or is gone.
\* _read_exact looks at the deadline again between two pieces of one frame.
TimeoutInFrame ==
  /\ pc = "read" /\ wire # <<>>
  /\ wire' = Tail(wire)
  /\ Fail
  /\ UNCHANGED <<counts, hostvars>>

\* Mutant: an empty read is tried again.
ReadAgain ==
  /\ pc = "read" /\ ~alive
  /\ UNCHANGED vars

\* A broken pipe; what the host had written may be lost with it.
ReadFails ==
  /\ pc = "read" /\ ~alive
  /\ Fail
  /\ UNCHANGED <<counts, wire, hostvars>>

Receive(kind) == pc = "read" /\ wire # <<>> /\ Head(wire).kind = kind /\ wire' = Tail(wire)

\* A notification becomes a report if this request streams and knows the item
\* (_emit_streaming_report) ...
Streams == Streaming /\ req = "py" /\ Head(wire).item \in ItemsOf("py")
TakeNote ==
  /\ Receive("note")
  /\ IF Streams
       THEN /\ Log(Head(wire).item, <<ReportOf(Head(wire).result)>>)
            /\ streamed' = streamed \cup {Head(wire).item}
            /\ UNCHANGED raised
       ELSE UNCHANGED counts
  /\ pc' = "wait"
  /\ UNCHANGED <<req, results, failed, next, hostvars>>

\* ... and an exception is swallowed: one while the report is made, or one that a
\* hook of another plugin raises after the report was logged.
DropNote ==
  /\ Receive("note")
  /\ pc' = "wait"
  /\ UNCHANGED <<req, results, failed, next, counts, hostvars>>

HookRaises ==
  /\ Receive("note") /\ Streams
  /\ Log(Head(wire).item, <<ReportOf(Head(wire).result)>>)
  /\ raised' = raised \cup {Head(wire).item}
  /\ pc' = "wait"
  /\ UNCHANGED <<req, results, failed, next, streamed, hostvars>>

\* Mutant: one result per nodeid, the last one.
LastOnly(new) == [i \in Items |-> IF new[i] # <<>> THEN <<new[i][Len(new[i])]>> ELSE results[i]]

\* Mutant: without fan_suite_results, the results of an item's own nodeid.
Own(r) == r.test = 1
OwnOnly(new) == [i \in Items |-> IF new[i] # <<>> THEN SelectSeq(new[i], Own) ELSE results[i]]

\* results_by_nodeid.update, once the results of each nodeid are gathered under the
\* item they belong to (TestsOf), test by test as they are in the host's record.
Updated(new) == [i \in Items |-> IF new[i] # <<>> THEN new[i] ELSE results[i]]

\* The first frame that is no notification is taken for the response.  Each
\* collection error is a failed CollectReport; with no result beside it the
\* request has failed (_is_global_collection_failure).  An error response is
\* the same as a collection error without results.
TakeResponse ==
  /\ Receive("response")
  /\ LET f == Head(wire) IN
       /\ failures' = failures + IF f.error THEN 1 ELSE 0
       /\ IF f.error /\ f.results = NoResults
            THEN failed' = TRUE /\ UNCHANGED results
            ELSE results' = Updated(f.results) /\ UNCHANGED failed
  /\ NextRequest
  /\ UNCHANGED <<next, reports, streamed, raised, hostvars>>

\* Mutants: streamed items are reported again; an item without results is
\* passed over; of several results only the first is reported.
ReportAgain(i) ==
  IF failed \/ results[i] = <<>> THEN <<ErrorReport>>
                                 ELSE [n \in 1..Len(results[i]) |-> ReportOf(results[i][n])]
ReportResultsOnly(i) ==
  CASE i \in streamed -> <<>>
    [] i \notin streamed /\ failed -> <<ErrorReport>>
    [] OTHER -> [n \in 1..Len(results[i]) |-> ReportOf(results[i][n])]

ReportFirst(i) ==
  CASE i \in streamed -> <<>>
    [] i \notin streamed /\ (failed \/ results[i] = <<>>) -> <<ErrorReport>>
    [] OTHER -> <<ReportOf(results[i][1])>>

\* pytest_runtest_protocol for the next item: nothing if it was streamed, one
\* error if collection failed or no result came, else all its results.
BatchReports(i) ==
  CASE i \in streamed -> <<>>
    [] i \notin streamed /\ (failed \/ results[i] = <<>>) -> <<ErrorReport>>
    [] OTHER -> [n \in 1..Len(results[i]) |-> ReportOf(results[i][n])]

\* Mutant: a streamed item is counted twice.
ReportItemAndSkip ==
  /\ pc = "report" /\ next <= N /\ ~ShouldFail
  /\ Log(next, BatchReports(next))
  /\ next' = next + (IF next \in streamed THEN 2 ELSE 1)
  /\ UNCHANGED <<pc, req, results, failed, streamed, raised, wire, hostvars>>

ReportItem ==
  /\ pc = "report" /\ next <= N /\ ~ShouldFail
  /\ Log(next, BatchReports(next))
  /\ next' = next + 1
  /\ UNCHANGED <<pc, req, results, failed, streamed, raised, wire, hostvars>>

EndSession ==
  /\ pc = "report" /\ (next > N \/ ShouldFail)
  /\ pc' = "done"
  /\ UNCHANGED <<req, results, failed, next, counts, wire, hostvars>>

ClientStep ==
  \/ Dispatch \/ Send \/ SendFails \/ BeginRead \/ Timeout \/ TimeoutInFrame \/ ReadFails
  \/ TakeNote \/ DropNote \/ HookRaises \/ TakeResponse \/ ReportItem \/ EndSession

-----------------------------------------------------------------------------
(* The host (external). *)

Rank(phase) == CHOOSE n \in 1..3 : PhaseOrder[n] = phase
Place(r) == 3 * r.test + Rank(r.phase)

\* The host runs the items of a request in order, the tests of an item one after the
\* other and each test phase by phase; a notification of the result is optional.
HostRuns(i, r) ==
  /\ alive /\ job # "idle" /\ i \in ItemsOf(job) /\ r.test \in TestsOf(i)
  /\ \A j \in ItemsOf(job) : j > i => outcome[j] = <<>>
  /\ \A n \in DOMAIN outcome[i] : Place(outcome[i][n]) < Place(r)
  /\ outcome' = [outcome EXCEPT ![i] = Append(@, r)]
  /\ \/ wire' = Append(wire, [req |-> job, kind |-> "note", item |-> i, result |-> r])
     \/ UNCHANGED wire
  /\ UNCHANGED <<pc, req, results, failed, next, counts, job, alive>>

\* The response holds every result recorded for the request.  Items may be
\* missing: --maxfail, a collection error, an error response.
HostResponds ==
  /\ alive /\ job # "idle"
  /\ \E err \in BOOLEAN :
       wire' = Append(wire, [req |-> job,
                             results |-> [i \in Items |-> IF i \in ItemsOf(job)
                                                            THEN outcome[i] ELSE <<>>],
                             kind |-> "response", error |-> err])
  /\ job' = "idle"
  /\ UNCHANGED <<pc, req, results, failed, next, counts, alive, outcome>>

HostDies ==
  /\ alive
  /\ alive' = FALSE
  /\ UNCHANGED <<pc, req, results, failed, next, counts, wire, job, outcome>>

HostStep ==
  \/ \E i \in Items : \E ph \in Phases[i], o \in Outcomes, t \in Tests :
        HostRuns(i, [outcome |-> o, phase |-> ph, test |-> t])
  \/ HostResponds
  \/ HostDies

-----------------------------------------------------------------------------
Next == ClientStep \/ HostStep

Spec == Init /\ [][Next]_vars

\* The client's process runs; while it does not wait for the host it moves on.
ClientSpec == Spec /\ WF_vars(ClientStep)

\* In addition the host answers a request it has, unless its pipe closes.
FairSpec == ClientSpec /\ WF_vars(HostResponds)

-----------------------------------------------------------------------------
(* Properties. *)

\* Whenever the client reads, every frame in the pipe belongs to the request
\* it waits for, although responses are not matched by id (_request).  It
\* holds because no request follows one that failed (_dispatch_remote_run).
FramesBelongToRequest ==
  pc \in {"wait", "read"} => \A n \in DOMAIN wire : wire[n].req = req

\* The client never waits in vain: as long as the pipe is open, its response is in
\* the pipe or the host still works on the request (_request, ReadFile in _read_exact).
AnswerToCome ==
  pc \in {"wait", "read"} =>
    ~alive \/ job = req \/ \E n \in DOMAIN wire : wire[n].kind = "response"

\* No phase of a test is reported twice: streaming and the batch loop never both
\* report an item (pytest_runtest_protocol), unless a hook raised while a report of the
\* item was streamed: then it is not marked (_emit_streaming_report).  A '(suite)' item
\* gets one report per phase of each of its tests.
NoDoubleReport ==
  \A i \in Items \ raised : \A m, n \in DOMAIN reports[i] :
    Place(reports[i][m]) = Place(reports[i][n]) => m = n

\* Every report in the host's name is one the host recorded, for that item, test and
\* phase, and no outcome is turned into a better one: only "passed" passes, and
\* only what was skipped or expected to fail counts as skipped.
ReportsComeFromHost ==
  \A i \in Items : \A n \in DOMAIN reports[i] :
    LET p == reports[i][n] IN
    p.by = "host" =>
      \E m \in DOMAIN outcome[i] :
        /\ Place(outcome[i][m]) = Place(p)
        /\ p.outcome = "passed" => outcome[i][m].outcome = "passed"
        /\ p.outcome = "skipped" => outcome[i][m].outcome \in {"skipped", "xfailed"}

\* A session that was not stopped early reports every item it collected, with
\* at least an error (emit_item_reports).
NeverSilent ==
  pc = "done" /\ ~ShouldFail => \A i \in Items : reports[i] # <<>>

\* An item the host recorded a failure for never ends with passing reports
\* only, if it is left to the batch loop.  Failure here: what is not passed,
\* skipped or an expected failure.
HostFailed(i) ==
  \E n \in DOMAIN outcome[i] : outcome[i][n].outcome \in {"failed", "xpassed", "other"}
NeverGreenOnFailure ==
  pc = "done" /\ ~ShouldFail =>
    \A i \in Items \ streamed : HostFailed(i) =>
      \E n \in DOMAIN reports[i] : reports[i][n].outcome = "failed"

\* Unless the session was stopped, a result that came in a response is lost in two
\* ways only: its item was streamed in part, or a request failed and takes the results
\* of the other with it (pytest_runtest_protocol, collection_failed).
Reported(i) == \A n \in DOMAIN results[i] :
  \E m \in DOMAIN reports[i] : reports[i][m] = ReportOf(results[i][n])
ResultsKept == pc = "done" /\ ~ShouldFail /\ ~failed => \A i \in Items \ streamed : Reported(i)

\* Once --maxfail is reached nothing new is begun: no request is on its way
\* and the batch loop reports no further item (_dispatch_remote_run).
StopIsFinal ==
  [][ShouldFail => pc' # "send" /\ (pc = "report" => UNCHANGED reports)]_vars

\* Nothing sends the session back: with every step the client gets further, or the
\* batch loop, or what the host may still do becomes less, or what is in the pipe.
\* So no execution goes on for ever, whatever fails and times out (_dispatch_remote_run).
Way == [dispatch |-> 5, send |-> 4, wait |-> 3, read |-> 3, report |-> 1, done |-> 0][pc]
       + IF req = "py" THEN 3 ELSE 0
ToRecord ==
  {x \in Items \X (4..3 * Children + 3) :
     \A n \in DOMAIN outcome[x[1]] : Place(outcome[x[1]][n]) # x[2]}
HostNearer ==
  \/ ToRecord' \subseteq ToRecord /\ ToRecord' # ToRecord
  \/ UNCHANGED ToRecord /\ job # "idle" /\ job' = "idle" /\ alive' = alive
  \/ UNCHANGED <<ToRecord, job>> /\ alive /\ ~alive'
ComesNearer == [][
  \/ Way' < Way
  \/ Way' = Way /\ next' > next
  \/ UNCHANGED <<Way, next>> /\ HostNearer
  \/ UNCHANGED <<Way, next, hostvars>> /\ Len(wire') < Len(wire)
  \/ UNCHANGED <<Way, next, hostvars, wire>> /\ pc = "wait" /\ pc' = "read"]_vars

\* With a host that answers or goes away, the session ends.
Ends == <>(pc = "done")

\* The session owes pytest what TestReports says: an item is settled by streaming,
\* by all the host's results or by an error, in collection order, and a failure
\* that was counted is never forgotten (_dispatch_remote_run, emit_item_reports).
Translation == [r \in Result |-> ReportOf(r)]
Failing == {p \in Report : Counts(p)}
Stage == CASE pc = "report" -> "settling" [] pc = "done" -> "over" [] OTHER -> "running"
Owed == INSTANCE TestReports WITH
  Said <- Translation, Error <- ErrorReport, Red <- Failing, MayStop <- (MaxFail > 0),
  recorded <- outcome, marked <- streamed, red <- (failures > 0), phase <- Stage
OwedSpec == Owed!Spec

\* README.md:115: the wait on the pipe is bounded by the per-test budget times
\* the number of tests; so every read ends, whatever the host does.
WaitIsBounded == pc = "read" ~> pc # "read"

\* README.md:162: the plugin maps each CaseResult to a pytest report.  Every
\* result that came in a response is reported, unless the session was stopped.
EveryResultReported ==
  pc = "done" /\ ~ShouldFail => \A i \in Items : Reported(i)
=============================================================================
