-------------------------- MODULE RemoteRunProofs --------------------------
(* Theorems about RemoteRun, for any items, options and outcomes. *)
EXTENDS RemoteRun, FiniteSetTheorems, TLAPS

Frame == Note \cup Response

LEMMA NormalizeType ==
  ASSUME NEW o \in OutcomeNames
  PROVE  Normalize(o) \in [outcome : {"passed", "failed", "skipped"}, xfail : BOOLEAN]
  BY DEF Normalize, OutcomeNames

LEMMA ReportType ==
  ASSUME NEW r \in Result
  PROVE  ReportOf(r) \in Report /\ Place(ReportOf(r)) = Place(r) /\ ReportOf(r).by = "host"
  BY NormalizeType DEF ReportOf, Result, Report, Place

\* The host's results come in the order of their places.
LEMMA PlaceType ==
  ASSUME NEW r, r.phase \in PhaseNames, r.test \in Tests
  PROVE  Place(r) \in 4..3 * Children + 3
<1>1. PhaseOrder[1] = "setup" /\ PhaseOrder[2] = "call" /\ PhaseOrder[3] = "teardown"
  BY DEF PhaseOrder
<1>2. \E n \in 1..3 : PhaseOrder[n] = r.phase
  BY <1>1 DEF PhaseNames
<1>3. Rank(r.phase) \in 1..3
  BY <1>2 DEF Rank
<1> QED
  BY <1>3, ItemsAssumption DEF Place, Tests

LEMMA PlacesApart ==
  ASSUME NEW i \in Items, NEW r \in Result, HostRuns(i, r)
  PROVE  \A n \in DOMAIN outcome[i] : Place(outcome[i][n]) # Place(r)
<1>1. Place(r) \in 4..3 * Children + 3
  BY PlaceType DEF Result
<1>2. \A n \in DOMAIN outcome[i] : Place(outcome[i][n]) < Place(r)
  BY DEF HostRuns
<1> QED
  BY <1>1, <1>2, ItemsAssumption

\* A result that the host may record.
LEMMA RunsType ==
  ASSUME NEW i \in Items, NEW ph \in Phases[i], NEW o \in Outcomes, NEW t \in Tests
  PROVE  [outcome |-> o, phase |-> ph, test |-> t] \in Result
  BY HostAssumption DEF Result, Items

LEMMA BatchType ==
  ASSUME TypeOK, NEW i \in Items
  PROVE  BatchReports(i) \in Seq(Report)
<1>1. <<>> \in Seq(Report) /\ <<ErrorReport>> \in Seq(Report)
  BY ItemsAssumption DEF ErrorReport, Report, PhaseNames, Tests
<1>2. results[i] \in Seq(Result)
  BY DEF TypeOK
<1>3. [n \in 1..Len(results[i]) |-> ReportOf(results[i][n])] \in Seq(Report)
  BY <1>2, ReportType
<1> QED
  BY <1>1, <1>3 DEF BatchReports

LEMMA BatchNotEmpty ==
  ASSUME TypeOK, NEW i \in Items, i \notin streamed
  PROVE  BatchReports(i) # <<>>
<1>1. results[i] \in Seq(Result)
  BY DEF TypeOK
<1>2. results[i] # <<>> => Len([n \in 1..Len(results[i]) |-> ReportOf(results[i][n])]) # 0
  BY <1>1
<1> QED
  BY <1>1, <1>2 DEF BatchReports

LEMMA LogType ==
  ASSUME TypeOK, NEW i \in Items, NEW new \in Seq(Report), Log(i, new)
  PROVE  reports' \in [Items -> Seq(Report)] /\ failures' \in Nat
<1> DEFINE S == {n \in DOMAIN new : Counts(new[n])}
<1>1. DOMAIN new = 1..Len(new) /\ Len(new) \in Nat
  OBVIOUS
<1>2. S \in SUBSET (1..Len(new))
  BY <1>1
<1>3. IsFiniteSet(1..Len(new))
  BY <1>1, FS_Interval
<1>4. Cardinality(S) \in Nat
  BY <1>2, <1>3, FS_Subset, FS_CardinalityType
<1> QED
  BY <1>4 DEF TypeOK, Log

LEMMA InitType == Init => TypeOK
<1> SUFFICES ASSUME Init PROVE TypeOK
  OBVIOUS
<1>1. NoResults \in [Items -> Seq(Result)] /\ NoResults \in [Items -> Seq(Report)]
  BY DEF NoResults
<1>2. <<>> \in Seq(Note \cup Response) /\ 1 \in 1..N + 1
  BY ItemsAssumption
<1> QED
  BY <1>1, <1>2 DEF Init, TypeOK, Requests

\* A frame taken from the pipe, and the frames left in it.
LEMMA ReceiveType ==
  ASSUME TypeOK, wire # <<>>
  PROVE  /\ Head(wire) \in Frame /\ Tail(wire) \in Seq(Frame)
         /\ \A n \in DOMAIN Tail(wire) : n + 1 \in DOMAIN wire /\ Tail(wire)[n] = wire[n + 1]
         /\ 1 \in DOMAIN wire /\ Head(wire) = wire[1]
         /\ Len(Tail(wire)) = Len(wire) - 1
  BY DEF TypeOK, Frame

LEMMA ClientType ==
  ASSUME TypeOK, ClientStep
  PROVE  TypeOK'
<1> USE DEF Requests, counts, hostvars
<1>1. CASE Dispatch \/ Send \/ SendFails \/ BeginRead \/ Timeout \/ ReadFails \/ EndSession
  BY <1>1 DEF TypeOK, Dispatch, Send, SendFails, BeginRead, Timeout, ReadFails, EndSession,
     Fail, NextRequest
<1>2. CASE TimeoutInFrame
  BY <1>2, ReceiveType DEF TypeOK, TimeoutInFrame, Fail, NextRequest, Frame
<1>3. CASE DropNote
  BY <1>3, ReceiveType DEF TypeOK, DropNote, Receive, Frame
<1>4. CASE TakeNote \/ HookRaises
  <2>1. Head(wire) \in Note /\ wire' \in Seq(Frame)
    BY <1>4, ReceiveType DEF TakeNote, HookRaises, Receive, Frame, Note, Response
  <2>2. <<ReportOf(Head(wire).result)>> \in Seq(Report) /\ Head(wire).item \in Items
    BY <2>1, ReportType DEF Note
  <2>3. /\ reports' \in [Items -> Seq(Report)] /\ failures' \in Nat
        /\ streamed' \subseteq Items /\ raised' \subseteq Items
    BY <1>4, <2>2, LogType DEF TakeNote, HookRaises, TypeOK
  <2> QED
    BY <1>4, <2>1, <2>3 DEF TypeOK, TakeNote, HookRaises, Frame
<1>5. CASE TakeResponse
  <2>1. Head(wire) \in Response /\ wire' \in Seq(Frame)
    BY <1>5, ReceiveType DEF TakeResponse, Receive, Frame, Note, Response
  <2>2. results' \in [Items -> Seq(Result)] /\ failed' \in BOOLEAN /\ failures' \in Nat
    <3>1. Head(wire).results \in [Items -> Seq(Result)] /\ Head(wire).error \in BOOLEAN
      BY <2>1 DEF Response
    <3>2. failures' \in Nat
      BY <1>5 DEF TakeResponse, Updated, TypeOK
    <3>3. failed' \in BOOLEAN
      BY <1>5, ZenonT(30) DEF TakeResponse, Updated, TypeOK
    <3>4. [i \in Items |-> IF Head(wire).results[i] # <<>> THEN Head(wire).results[i]
                                                        ELSE results[i]] \in [Items -> Seq(Result)]
      BY <3>1 DEF TypeOK
    <3>5. results' \in [Items -> Seq(Result)]
      BY <1>5, <3>4 DEF TakeResponse, Updated, TypeOK
    <3> QED
      BY <3>2, <3>3, <3>5
  <2> QED
    BY <1>5, <2>1, <2>2 DEF TypeOK, TakeResponse, NextRequest, Frame
<1>6. CASE ReportItem
  <2>1. next \in Items /\ next + 1 \in 1..N + 1
    BY <1>6, ItemsAssumption DEF ReportItem, TypeOK, Items
  <2>2. reports' \in [Items -> Seq(Report)] /\ failures' \in Nat
    BY <1>6, <2>1, BatchType, LogType DEF ReportItem
  <2> QED
    BY <1>6, <2>1, <2>2 DEF TypeOK, ReportItem
<1> QED
  BY <1>1, <1>2, <1>3, <1>4, <1>5, <1>6 DEF ClientStep

LEMMA HostType ==
  ASSUME TypeOK, HostStep
  PROVE  TypeOK'
<1> USE DEF counts
<1>1. ASSUME NEW i \in Items, NEW ph \in Phases[i], NEW o \in Outcomes, NEW t \in Tests,
             HostRuns(i, [outcome |-> o, phase |-> ph, test |-> t])
      PROVE  TypeOK'
  <2> DEFINE r == [outcome |-> o, phase |-> ph, test |-> t]
  <2>1. r \in Result
    BY RunsType
  <2>2. outcome' \in [Items -> Seq(Result)]
    BY <1>1, <2>1 DEF HostRuns, TypeOK
  <2>3. job \in Requests
    BY <1>1 DEF HostRuns, TypeOK
  <2>4. [req |-> job, kind |-> "note", item |-> i, result |-> r] \in Note
    BY <2>1, <2>3 DEF Note
  <2>5. wire' \in Seq(Note \cup Response)
    <3> DEFINE f == [req |-> job, kind |-> "note", item |-> i, result |-> r]
    <3>1. wire' = Append(wire, f) \/ wire' = wire
      BY <1>1 DEF HostRuns
    <3>2. wire \in Seq(Note \cup Response) /\ f \in Note \cup Response
      BY <2>4 DEF TypeOK
    <3> HIDE DEF f
    <3> QED
      BY <3>1, <3>2
  <2> QED
    BY <1>1, <2>2, <2>5 DEF TypeOK, HostRuns
<1>2. CASE HostResponds
  <2>1. PICK err \in BOOLEAN :
          wire' = Append(wire, [req |-> job,
                                results |-> [i \in Items |-> IF i \in ItemsOf(job)
                                                               THEN outcome[i] ELSE <<>>],
                                kind |-> "response", error |-> err])
    BY <1>2 DEF HostResponds
  <2>2. [i \in Items |-> IF i \in ItemsOf(job) THEN outcome[i] ELSE <<>>] \in [Items -> Seq(Result)]
    BY DEF TypeOK
  <2>3. job \in Requests
    BY <1>2 DEF HostResponds, TypeOK
  <2>4. wire' \in Seq(Note \cup Response)
    BY <2>1, <2>2, <2>3 DEF TypeOK, Response
  <2> QED
    BY <1>2, <2>4 DEF TypeOK, HostResponds
<1>3. CASE HostDies
  BY <1>3 DEF TypeOK, HostDies
<1> QED
  BY <1>1, <1>2, <1>3 DEF HostStep

LEMMA NextType == TypeOK /\ [Next]_vars => TypeOK'
<1>1. TypeOK /\ UNCHANGED vars => TypeOK'
  BY DEF TypeOK, vars, counts, hostvars
<1> QED
  BY <1>1, ClientType, HostType DEF Next

\* Type correctness of the client, the pipe and the host.
THEOREM TypeCorrect == Spec => []TypeOK
  BY InitType, NextType, PTL DEF Spec

-----------------------------------------------------------------------------
(* Frames belong to the request the client waits for. *)

\* Between requests the pipe is empty and the host idle, unless the last
\* request failed; while a request runs, its frames are the only ones and its
\* response the last of them.
Quiet == wire = <<>> /\ job = "idle"
FramesInv ==
  /\ pc = "dispatch" /\ ~failed => Quiet
  /\ pc = "dispatch" /\ req = "py" => ~failed
  /\ pc = "send" => Quiet /\ ~failed
  /\ pc \in {"wait", "read"} =>
       /\ job \in {req, "idle"}
       /\ \A n \in DOMAIN wire : wire[n].req = req
       /\ \A n \in DOMAIN wire :
            wire[n].kind = "response" => n = Len(wire) /\ job = "idle"

LEMMA FramesClient ==
  ASSUME TypeOK, FramesInv, ClientStep
  PROVE  FramesInv'
<1> USE DEF counts, hostvars
<1>1. CASE Dispatch
  BY <1>1 DEF Dispatch, MayRequest, FramesInv, Quiet, TypeOK, Requests
<1>2. CASE Send
  BY <1>2 DEF Send, FramesInv, Quiet, TypeOK
<1>3. CASE BeginRead
  BY <1>3 DEF BeginRead, FramesInv, TypeOK
<1>4. CASE SendFails \/ Timeout \/ TimeoutInFrame \/ ReadFails
  BY <1>4 DEF SendFails, Timeout, TimeoutInFrame, ReadFails, Fail, NextRequest, FramesInv
<1>5. CASE TakeNote \/ DropNote \/ HookRaises
  <2>1. /\ pc = "read" /\ pc' = "wait" /\ wire # <<>> /\ wire' = Tail(wire)
        /\ job' = job /\ req' = req
    BY <1>5 DEF TakeNote, DropNote, HookRaises, Receive
  <2>2. /\ \A n \in DOMAIN wire' : n + 1 \in DOMAIN wire /\ wire'[n] = wire[n + 1]
        /\ Len(wire') = Len(wire) - 1
    BY <2>1, ReceiveType
  <2>3. \A n \in DOMAIN wire' : n \in Nat
    BY <2>1, ReceiveType
  <2>4. Len(wire) \in Nat
    BY DEF TypeOK
  <2> QED
    BY <2>1, <2>2, <2>3, <2>4 DEF FramesInv
<1>6. CASE TakeResponse
  <2>1. pc = "read" /\ wire # <<>> /\ wire' = Tail(wire) /\ Head(wire).kind = "response"
    BY <1>6 DEF TakeResponse, Receive
  <2>2. 1 = Len(wire) /\ job = "idle"
    BY <2>1, ReceiveType DEF FramesInv
  <2>3. wire' = <<>>
    BY <2>1, <2>2, ReceiveType DEF TypeOK
  <2>4. job' = "idle" /\ ((pc' = "dispatch" /\ req' = "ipy") \/ pc' = "report")
    BY <1>6, <2>2 DEF TakeResponse, NextRequest
  <2> QED
    BY <2>3, <2>4 DEF FramesInv, Quiet
<1>7. CASE ReportItem \/ EndSession
  BY <1>7 DEF ReportItem, EndSession, FramesInv
<1> QED
  BY <1>1, <1>2, <1>3, <1>4, <1>5, <1>6, <1>7 DEF ClientStep

\* The host adds a frame of its request; it has one only while the client
\* waits, or after a request that failed.
LEMMA FramesHost ==
  ASSUME TypeOK, FramesInv, HostStep
  PROVE  FramesInv'
<1> USE DEF counts
<1>1. ASSUME NEW f, wire' = Append(wire, f), f.req = job,
             job # "idle", job' \in {job, "idle"},
             f.kind = "response" => job' = "idle",
             UNCHANGED <<pc, req, failed>>
      PROVE  FramesInv'
  <2>1. /\ Len(wire') = Len(wire) + 1 /\ Len(wire) \in Nat
        /\ DOMAIN wire' = 1..Len(wire) + 1 /\ DOMAIN wire = 1..Len(wire)
        /\ \A n \in DOMAIN wire : wire'[n] = wire[n]
        /\ wire'[Len(wire) + 1] = f
    BY <1>1 DEF TypeOK
  <2>2. pc \in {"wait", "read"} => \A n \in DOMAIN wire : wire[n].kind # "response"
    BY <1>1 DEF FramesInv
  <2> QED
    BY <1>1, <2>1, <2>2 DEF FramesInv, Quiet
<1>2. CASE wire' = wire /\ UNCHANGED <<pc, req, failed, job>>
  BY <1>2 DEF FramesInv, Quiet
<1>3. ASSUME NEW i \in Items, NEW r, HostRuns(i, r) PROVE FramesInv'
  BY <1>1, <1>2, <1>3 DEF HostRuns
<1>4. CASE HostResponds
  BY <1>1, <1>4 DEF HostResponds
<1>5. CASE HostDies
  BY <1>2, <1>5 DEF HostDies
<1> QED
  BY <1>3, <1>4, <1>5 DEF HostStep

LEMMA FramesInvariant == Spec => []FramesInv
<1>1. Init => FramesInv
  BY DEF Init, FramesInv, Quiet
<1>2. TypeOK /\ FramesInv /\ [Next]_vars => FramesInv'
  <2>1. UNCHANGED vars /\ FramesInv => FramesInv'
    BY DEF vars, hostvars, FramesInv, Quiet
  <2> QED
    BY <2>1, FramesClient, FramesHost DEF Next
<1> QED
  BY <1>1, <1>2, TypeCorrect, PTL DEF Spec

\* Although _request does not match ids, every frame in the pipe while the
\* client waits belongs to the request it waits for.
THEOREM NoStaleFrames == Spec => []FramesBelongToRequest
<1>1. FramesInv => FramesBelongToRequest
  BY DEF FramesInv, FramesBelongToRequest
<1> QED
  BY <1>1, FramesInvariant, PTL

-----------------------------------------------------------------------------
(* No item ends without a report. *)

SilentInv ==
  /\ \A i \in streamed : reports[i] # <<>>
  /\ \A i \in Items : i < next => reports[i] # <<>>
  /\ pc \notin {"report", "done"} => next = 1
  /\ pc = "done" /\ ~ShouldFail => next = N + 1

LEMMA LogKeeps ==
  ASSUME TypeOK, NEW i \in Items, NEW new \in Seq(Report), Log(i, new)
  PROVE  /\ \A j \in Items : reports[j] # <<>> => reports'[j] # <<>>
         /\ new # <<>> => reports'[i] # <<>>
<1>1. reports[i] \in Seq(Report)
  BY DEF TypeOK
<1>2. reports[i] # <<>> \/ new # <<>> => reports[i] \o new # <<>>
  BY <1>1
<1> QED
  BY <1>2 DEF TypeOK, Log

LEMMA SilentNext ==
  ASSUME TypeOK, TypeOK', SilentInv, [Next]_vars
  PROVE  SilentInv'
<1> USE DEF counts, hostvars
<1>1. CASE Dispatch \/ Send \/ SendFails \/ BeginRead \/ Timeout \/ TimeoutInFrame
           \/ ReadFails \/ DropNote \/ HostStep \/ UNCHANGED vars
  <2>1. UNCHANGED <<failures, reports, streamed, next>>
    BY <1>1 DEF Dispatch, Send, SendFails, BeginRead, Timeout, TimeoutInFrame, ReadFails,
       DropNote, HostStep, HostRuns, HostResponds, HostDies, Fail, vars
  <2>2. \/ pc' = pc \/ pc' = "report"
        \/ /\ pc' # "done"
           /\ pc \notin {"report", "done"}
    BY <1>1 DEF Dispatch, Send, SendFails, BeginRead, Timeout, TimeoutInFrame, ReadFails,
       DropNote, Receive, HostStep, HostRuns, HostResponds, HostDies, Fail, NextRequest, vars
  <2> QED
    BY <2>1, <2>2 DEF SilentInv, ShouldFail
<1>2. CASE TakeNote \/ HookRaises
  <2>1. Head(wire) \in Note
    BY <1>2, ReceiveType DEF TakeNote, HookRaises, Receive, Frame, Note, Response
  <2>2. <<ReportOf(Head(wire).result)>> \in Seq(Report) /\ Head(wire).item \in Items
    BY <2>1, ReportType DEF Note
  <2>3. <<ReportOf(Head(wire).result)>> # <<>>
    OBVIOUS
  <2>4. /\ \A j \in Items : reports[j] # <<>> => reports'[j] # <<>>
        /\ \A j \in streamed' \ streamed : reports'[j] # <<>>
    BY <1>2, <2>2, <2>3, LogKeeps DEF TakeNote, HookRaises
  <2>5. pc = "read" /\ pc' = "wait" /\ next' = next /\ streamed \subseteq Items
    BY <1>2 DEF TakeNote, HookRaises, Receive, TypeOK
  <2> QED
    BY <2>4, <2>5 DEF SilentInv
<1>3. CASE TakeResponse
  <2>1. UNCHANGED <<reports, streamed, next>> /\ pc = "read" /\ pc' # "done"
    BY <1>3 DEF TakeResponse, Receive, NextRequest
  <2> QED
    BY <2>1 DEF SilentInv
<1>4. CASE ReportItem
  <2>1. next \in Items /\ pc = "report" /\ pc' = "report" /\ streamed' = streamed /\ next' = next + 1
    BY <1>4, ItemsAssumption DEF ReportItem, TypeOK, Items
  <2>2. Log(next, BatchReports(next)) /\ BatchReports(next) \in Seq(Report)
    BY <1>4, <2>1, BatchType DEF ReportItem
  <2>3. \A j \in Items : reports[j] # <<>> => reports'[j] # <<>>
    BY <2>1, <2>2, LogKeeps
  <2>4. reports'[next] # <<>>
    <3>1. CASE next \in streamed
      BY <2>1, <2>3, <3>1 DEF SilentInv
    <3>2. CASE next \notin streamed
      BY <2>1, <2>2, <3>2, BatchNotEmpty, LogKeeps
    <3> QED
      BY <3>1, <3>2
  <2>5. \A i \in Items : i < next' => i < next \/ i = next
    BY <2>1 DEF Items
  <2> QED
    BY <2>1, <2>3, <2>4, <2>5 DEF SilentInv, TypeOK
<1>5. CASE EndSession
  BY <1>5, ItemsAssumption DEF EndSession, SilentInv, ShouldFail, TypeOK
<1> QED
  BY <1>1, <1>2, <1>3, <1>4, <1>5 DEF Next, ClientStep

LEMMA SilentInvariant == Spec => []SilentInv
<1>1. Init => SilentInv
  BY ItemsAssumption DEF Init, SilentInv, Items
<1> QED
  BY <1>1, SilentNext, NextType, TypeCorrect, PTL DEF Spec

\* A session that was not stopped early reports every collected item.
THEOREM EveryItemReported == Spec => []NeverSilent
<1>1. SilentInv => NeverSilent
  BY ItemsAssumption DEF SilentInv, NeverSilent, Items
<1> QED
  BY <1>1, SilentInvariant, PTL

-----------------------------------------------------------------------------
(* Nothing begins after the session is to stop. *)

StopInv ==
  /\ pc = "dispatch" /\ req = "py" => failures = 0
  /\ pc = "send" => ~ShouldFail

LEMMA StopNext ==
  ASSUME TypeOK, StopInv, [Next]_vars
  PROVE  StopInv'
<1> USE DEF counts, hostvars
<1>1. CASE Dispatch
  <2>1. pc' = "send" => ~ShouldFail
    BY <1>1, OptionsAssumption DEF Dispatch, MayRequest, StopInv, ShouldFail, TypeOK, Requests
  <2>2. failures' = failures /\ (pc' = "dispatch" => req' = "ipy")
    BY <1>1 DEF Dispatch
  <2> QED
    BY <2>1, <2>2 DEF StopInv, ShouldFail
<1>2. CASE Send \/ SendFails \/ BeginRead \/ Timeout \/ TimeoutInFrame \/ ReadFails \/ TakeNote
           \/ DropNote \/ HookRaises \/ TakeResponse \/ ReportItem \/ EndSession
  <2>1. pc' # "send" /\ (pc' = "dispatch" => req' = "ipy")
    BY <1>2 DEF Send, SendFails, BeginRead, Timeout, TimeoutInFrame, ReadFails, TakeNote,
       DropNote, HookRaises, TakeResponse, ReportItem, EndSession, Receive, Fail, NextRequest
  <2> QED
    BY <2>1 DEF StopInv
<1>3. CASE HostStep \/ UNCHANGED vars
  <2>1. UNCHANGED <<pc, req, failures>>
    BY <1>3 DEF HostStep, HostRuns, HostResponds, HostDies, vars
  <2> QED
    BY <2>1 DEF StopInv, ShouldFail
<1> QED
  BY <1>1, <1>2, <1>3 DEF Next, ClientStep

\* After --maxfail no request goes out and no further item is reported.
THEOREM MaxFailIsFinal == Spec => StopIsFinal
<1> DEFINE Stops == ShouldFail => pc' # "send" /\ (pc = "report" => UNCHANGED reports)
<1>1. Init => StopInv
  BY DEF Init, StopInv
<1>2. StopInv /\ StopInv' /\ [Next]_vars => [Stops]_vars
  <2> SUFFICES ASSUME StopInv, StopInv', Next, ShouldFail
               PROVE  pc' # "send" /\ (pc = "report" => UNCHANGED reports)
    OBVIOUS
  <2> USE DEF counts, hostvars
  <2>1. pc = "report" => UNCHANGED reports
    BY DEF Next, ClientStep, Dispatch, Send, SendFails, BeginRead, Timeout, TimeoutInFrame,
       ReadFails, TakeNote, DropNote, HookRaises, TakeResponse, ReportItem, EndSession, Receive,
       HostStep, HostRuns, HostResponds, HostDies
  <2>2. pc' # "send" \/ failures' = failures
    BY DEF Next, ClientStep, Dispatch, Send, SendFails, BeginRead, Timeout, TimeoutInFrame,
       ReadFails, TakeNote, DropNote, HookRaises, TakeResponse, ReportItem, EndSession, Receive,
       HostStep, HostRuns, HostResponds, HostDies, Fail, NextRequest
  <2> QED
    BY <2>1, <2>2 DEF StopInv, ShouldFail
<1> QED
  BY <1>1, <1>2, StopNext, TypeCorrect, PTL DEF Spec, StopIsFinal

-----------------------------------------------------------------------------
(* What is reported in the host's name, the host has recorded. *)

Recorded(i, r) == \E m \in DOMAIN outcome[i] : outcome[i][m] = r

AllRecorded(res) == \A i \in Items : \A n \in DOMAIN res[i] : Recorded(i, res[i][n])

FrameRecorded(f) ==
  /\ f.kind = "note" => Recorded(f.item, f.result)
  /\ f.kind = "response" => AllRecorded(f.results)

\* A result keeps its source on its way: pipe, results_by_nodeid, report.
WireTrue == \A n \in DOMAIN wire : FrameRecorded(wire[n])
ResultsTrue == \A i \in Items : \A n \in DOMAIN results[i] : Recorded(i, results[i][n])
ReportsTrue ==
  \A i \in Items : \A n \in DOMAIN reports[i] :
    reports[i][n].by = "host" => \E r \in Result : Recorded(i, r) /\ reports[i][n] = ReportOf(r)
TruthInv == WireTrue /\ ResultsTrue /\ ReportsTrue

\* What is recorded stays recorded.
LEMMA RecordedStays ==
  ASSUME TypeOK, Next \/ UNCHANGED vars, NEW i \in Items, NEW r, Recorded(i, r)
  PROVE  Recorded(i, r)'
<1>1. CASE outcome' = outcome
  BY <1>1 DEF Recorded
<1>2. ASSUME NEW j \in Items, NEW x, HostRuns(j, x)
      PROVE  Recorded(i, r)'
  <2>1. outcome[i] \in Seq(Result) /\ outcome' = [outcome EXCEPT ![j] = Append(@, x)]
    BY <1>2 DEF TypeOK, HostRuns
  <2>2. \A m \in DOMAIN outcome[i] : m \in DOMAIN outcome'[i] /\ outcome'[i][m] = outcome[i][m]
    BY <2>1 DEF TypeOK
  <2> QED
    BY <2>2 DEF Recorded
<1>3. outcome' = outcome \/ \E j \in Items : \E x : HostRuns(j, x)
  BY DEF Next, ClientStep, HostStep, Dispatch, Send, SendFails, BeginRead, Timeout,
     TimeoutInFrame, ReadFails, TakeNote, DropNote, HookRaises, TakeResponse, ReportItem,
     EndSession, HostResponds, HostDies, vars, hostvars
<1> QED
  BY <1>1, <1>2, <1>3

LEMMA FramesStay ==
  ASSUME TypeOK, Next \/ UNCHANGED vars, NEW f \in Frame, FrameRecorded(f)
  PROVE  FrameRecorded(f)'
<1>1. f.kind = "note" => f.item \in Items
  BY DEF Frame, Note, Response
<1> QED
  BY <1>1, RecordedStays DEF FrameRecorded, AllRecorded

LEMMA ReportsStay ==
  ASSUME TypeOK, Next \/ UNCHANGED vars, ReportsTrue, reports' = reports
  PROVE  ReportsTrue'
  BY RecordedStays DEF ReportsTrue

LEMMA ReportsGrow ==
  ASSUME TypeOK, Next, ReportsTrue, NEW i \in Items, NEW new \in Seq(Report), Log(i, new),
         \A n \in DOMAIN new :
           new[n].by = "host" => \E r \in Result : Recorded(i, r) /\ new[n] = ReportOf(r)
  PROVE  ReportsTrue'
<1> SUFFICES ASSUME NEW j \in Items, NEW n \in DOMAIN reports'[j], reports'[j][n].by = "host"
             PROVE  \E r \in Result : Recorded(j, r)' /\ reports'[j][n] = ReportOf(r)
  BY DEF ReportsTrue
<1>1. reports[j] \in Seq(Report) /\ reports'[j] = IF j = i THEN reports[j] \o new ELSE reports[j]
  BY DEF TypeOK, Log
<1>2. \/ n \in DOMAIN reports[j] /\ reports'[j][n] = reports[j][n]
      \/ j = i /\ \E m \in DOMAIN new : reports'[j][n] = new[m]
  <2>1. CASE j = i
    <3>1. n \in 1..Len(reports[j]) + Len(new)
      BY <1>1, <2>1
    <3>2. CASE n <= Len(reports[j])
      BY <1>1, <2>1, <3>1, <3>2
    <3>3. CASE ~(n <= Len(reports[j]))
      BY <1>1, <2>1, <3>1, <3>3
    <3> QED
      BY <3>2, <3>3
  <2>2. CASE j # i
    BY <1>1, <2>2
  <2> QED
    BY <2>1, <2>2
<1>3. PICK r \in Result : Recorded(j, r) /\ reports'[j][n] = ReportOf(r)
  BY <1>2 DEF ReportsTrue
<1> QED
  BY <1>3, RecordedStays

LEMMA TruthNext ==
  ASSUME TypeOK, TruthInv, [Next]_vars
  PROVE  TruthInv'
<1> USE DEF counts, hostvars
<1>0. WireTrue /\ ResultsTrue /\ ReportsTrue /\ (Next \/ UNCHANGED vars)
  BY DEF TruthInv
<1>1. WireTrue' /\ ResultsTrue' /\ ReportsTrue' => TruthInv'
  BY DEF TruthInv
<1>2. wire' = wire => WireTrue'
  <2>1. \A n \in DOMAIN wire : wire[n] \in Frame /\ FrameRecorded(wire[n])
    BY <1>0 DEF TypeOK, Frame, WireTrue
  <2> QED
    BY <1>0, <2>1, FramesStay DEF WireTrue
<1>3. wire # <<>> /\ wire' = Tail(wire) => WireTrue'
  <2>1. \A n \in DOMAIN wire : wire[n] \in Frame /\ FrameRecorded(wire[n])
    BY <1>0 DEF TypeOK, Frame, WireTrue
  <2> QED
    BY <1>0, <2>1, FramesStay, ReceiveType DEF WireTrue
<1>4. results' = results => ResultsTrue'
  BY <1>0, RecordedStays DEF ResultsTrue
<1>5. CASE \/ Dispatch \/ Send \/ SendFails \/ BeginRead \/ Timeout \/ TimeoutInFrame
           \/ ReadFails \/ DropNote \/ EndSession \/ HostDies \/ UNCHANGED vars
  <2>1. results' = results /\ reports' = reports
    BY <1>5 DEF Dispatch, Send, SendFails, BeginRead, Timeout, TimeoutInFrame, ReadFails,
       DropNote, EndSession, HostDies, Fail, vars
  <2>2. wire' = wire \/ (wire # <<>> /\ wire' = Tail(wire))
    BY <1>5 DEF Dispatch, Send, SendFails, BeginRead, Timeout, TimeoutInFrame, ReadFails,
       DropNote, EndSession, HostDies, Receive, vars
  <2> QED
    BY <1>0, <1>1, <1>2, <1>3, <1>4, <2>1, <2>2, ReportsStay
<1>6. CASE TakeNote \/ HookRaises
  <2>1. /\ wire # <<>> /\ wire' = Tail(wire) /\ Head(wire).kind = "note" /\ results' = results
    BY <1>6 DEF TakeNote, HookRaises, Receive
  <2>2. Head(wire) \in Note /\ FrameRecorded(Head(wire))
    BY <1>0, <2>1, ReceiveType DEF Frame, Note, Response, WireTrue
  <2> DEFINE i == Head(wire).item
             r == Head(wire).result
  <2>3. i \in Items /\ r \in Result /\ Recorded(i, r) /\ <<ReportOf(r)>> \in Seq(Report)
    BY <2>1, <2>2, ReportType DEF Note, FrameRecorded
  <2>4. reports' = reports \/ Log(i, <<ReportOf(r)>>)
    BY <1>6 DEF TakeNote, HookRaises
  <2>5. \A n \in DOMAIN <<ReportOf(r)>> : <<ReportOf(r)>>[n] = ReportOf(r)
    OBVIOUS
  <2> HIDE DEF i, r
  <2>6. Next
    BY <1>6 DEF Next, ClientStep
  <2>7. ReportsTrue'
    BY <1>0, <2>3, <2>4, <2>5, <2>6, ReportsStay, ReportsGrow
  <2> QED
    BY <1>1, <1>3, <1>4, <2>1, <2>7
<1>7. CASE TakeResponse
  <2>1. /\ wire # <<>> /\ wire' = Tail(wire) /\ Head(wire).kind = "response" /\ reports' = reports
        /\ outcome' = outcome
    BY <1>7 DEF TakeResponse, Receive
  <2>2. Head(wire) \in Response /\ AllRecorded(Head(wire).results)
    BY <1>0, <2>1, ReceiveType DEF Frame, Note, Response, WireTrue, FrameRecorded
  <2>3. \A i \in Items : results'[i] \in {results[i], Head(wire).results[i]}
    BY <1>7 DEF TakeResponse, Updated
  <2>4. ResultsTrue'
    <3>1. \A i \in Items : \A n \in DOMAIN results'[i] : Recorded(i, results'[i][n])
      BY <1>0, <2>2, <2>3 DEF AllRecorded, ResultsTrue
    <3> QED
      BY <2>1, <3>1 DEF ResultsTrue, Recorded
  <2> QED
    BY <1>0, <1>1, <1>3, <2>1, <2>4, ReportsStay
<1>8. CASE ReportItem
  <2>1. next \in Items /\ wire' = wire /\ results' = results /\ Log(next, BatchReports(next)) /\ Next
    BY <1>8, ItemsAssumption DEF ReportItem, TypeOK, Items, Next, ClientStep
  <2>2. results[next] \in Seq(Result) /\ \A n \in DOMAIN results[next] :
          results[next][n] \in Result /\ Recorded(next, results[next][n])
    BY <1>0, <2>1 DEF TypeOK, ResultsTrue
  <2>3. \A n \in DOMAIN BatchReports(next) : BatchReports(next)[n].by = "host" =>
          \E r \in Result : Recorded(next, r) /\ BatchReports(next)[n] = ReportOf(r)
    <3>1. CASE BatchReports(next) \in {<<>>, <<ErrorReport>>}
      BY <3>1 DEF ErrorReport
    <3>2. CASE BatchReports(next) = [n \in 1..Len(results[next]) |-> ReportOf(results[next][n])]
      BY <2>2, <3>2
    <3> QED
      BY <3>1, <3>2 DEF BatchReports
  <2>4. ReportsTrue'
    BY <1>0, <2>1, <2>3, BatchType, ReportsGrow
  <2> QED
    BY <1>1, <1>2, <1>4, <2>1, <2>4
<1>9. ASSUME NEW f \in Frame, wire' = Append(wire, f) \/ wire' = wire, FrameRecorded(f)',
             UNCHANGED <<results, reports>>
      PROVE  TruthInv'
  <2>1. \A n \in DOMAIN wire : \A g : g = wire[n] => FrameRecorded(g)'
    BY <1>0, FramesStay DEF TypeOK, Frame, WireTrue
  <2>2. wire \in Seq(Frame)
    BY DEF TypeOK, Frame
  <2>3. \A n \in DOMAIN wire' : wire'[n] = f \/ (n \in DOMAIN wire /\ wire'[n] = wire[n])
    BY <1>9, <2>2
  <2> QED
    BY <1>0, <1>1, <1>4, <1>9, <2>1, <2>3, ReportsStay DEF WireTrue
<1>10. ASSUME NEW i \in Items, NEW ph \in Phases[i], NEW o \in Outcomes, NEW t \in Tests,
              HostRuns(i, [outcome |-> o, phase |-> ph, test |-> t])
       PROVE  TruthInv'
  <2> DEFINE r == [outcome |-> o, phase |-> ph, test |-> t]
             f == [req |-> job, kind |-> "note", item |-> i, result |-> r]
  <2>1. r \in Result /\ job \in Requests
    BY <1>10, RunsType DEF HostRuns, TypeOK
  <2>2. f \in Frame
    BY <2>1 DEF Frame, Note
  <2>3. outcome[i] \in Seq(Result) /\ outcome'[i] = Append(outcome[i], r)
    BY <1>10 DEF HostRuns, TypeOK
  <2>4. Recorded(i, r)'
    BY <2>3 DEF Recorded
  <2>5. FrameRecorded(f)'
    BY <2>4 DEF FrameRecorded
  <2> QED
    BY <1>9, <1>10, <2>2, <2>5 DEF HostRuns
<1>11. CASE HostResponds
  <2> DEFINE res == [i \in Items |-> IF i \in ItemsOf(job) THEN outcome[i] ELSE <<>>]
  <2>1. PICK err \in BOOLEAN :
          wire' = Append(wire, [req |-> job, results |-> res, kind |-> "response", error |-> err])
    BY <1>11 DEF HostResponds
  <2> DEFINE f == [req |-> job, results |-> res, kind |-> "response", error |-> err]
  <2>2. job \in Requests /\ res \in [Items -> Seq(Result)] /\ outcome' = outcome
    BY <1>11 DEF HostResponds, TypeOK
  <2>3. f \in Frame
    BY <2>2 DEF Frame, Response
  <2>4. ASSUME NEW g, g = f PROVE FrameRecorded(g)'
    <3>1. \A i \in Items : \A n \in DOMAIN g.results[i] : Recorded(i, g.results[i][n])
      BY <2>4 DEF Recorded
    <3> QED
      BY <2>2, <2>4, <3>1 DEF FrameRecorded, AllRecorded, Recorded
  <2>5. results' = results /\ reports' = reports
    BY <1>11 DEF HostResponds
  <2> HIDE DEF f
  <2> QED
    BY <1>9, <2>1, <2>3, <2>4, <2>5 DEF f
<1> QED
  BY <1>5, <1>6, <1>7, <1>8, <1>10, <1>11 DEF Next, ClientStep, HostStep

LEMMA TruthInvariant == Spec => []TruthInv
<1>1. Init => TruthInv
  BY DEF Init, TruthInv, WireTrue, ResultsTrue, ReportsTrue, NoResults
<1> QED
  BY <1>1, TruthNext, TypeCorrect, PTL DEF Spec

\* Every report in the host's name is one that the host has recorded for that
\* item, test and phase, with an outcome that is no better.
THEOREM HostReportsAreTrue == Spec => []ReportsComeFromHost
<1>1. TruthInv => ReportsComeFromHost
  <2>1. \A r \in Result :
          /\ Place(ReportOf(r)) = Place(r)
          /\ ReportOf(r).outcome = "passed" => r.outcome = "passed"
          /\ ReportOf(r).outcome = "skipped" => r.outcome \in {"skipped", "xfailed"}
    BY ReportType DEF ReportOf, Normalize, Result, OutcomeNames
  <2> QED
    BY <2>1 DEF TruthInv, ReportsTrue, Recorded, ReportsComeFromHost
<1> QED
  BY <1>1, TruthInvariant, PTL

-----------------------------------------------------------------------------
(* No item is reported twice. *)

Waiting == pc \in {"wait", "read"}
Distinct(s) == \A m, n \in DOMAIN s : Place(s[m]) = Place(s[n]) => m = n

\* One result for each phase of a test, wherever results are kept.
ResultsDistinct ==
  /\ \A i \in Items : Distinct(outcome[i]) /\ Distinct(results[i])
  /\ \A n \in DOMAIN wire : wire[n].kind = "response" =>
       \A i \in Items : Distinct(wire[n].results[i])

\* A notification that will be read tells a phase of a test that was not reported and that
\* no other notification tells.
NotesNew ==
  Waiting =>
    \A n \in DOMAIN wire : wire[n].kind = "note" =>
      /\ \A k \in DOMAIN reports[wire[n].item] :
           Place(reports[wire[n].item][k]) # Place(wire[n].result)
      /\ \A m \in DOMAIN wire :
           wire[m].kind = "note" /\ wire[m].item = wire[n].item /\ m # n =>
             Place(wire[m].result) # Place(wire[n].result)

\* What the batch loop has not come to was reported by streaming only.
BatchNew ==
  /\ \A i \in Items : i \notin streamed \cup raised /\ i >= next => reports[i] = <<>>
  /\ pc \notin {"report", "done"} =>
       \A i \in Items : \A k \in DOMAIN reports[i] : reports[i][k].by = "host"

OnceInv == ResultsDistinct /\ NotesNew /\ BatchNew /\ NoDoubleReport

LEMMA LogMembers ==
  ASSUME TypeOK, NEW i \in Items, NEW new \in Seq(Report), Log(i, new)
  PROVE  /\ \A j \in Items : j # i => reports'[j] = reports[j]
         /\ \A n \in DOMAIN reports[i] :
              n \in DOMAIN reports'[i] /\ reports'[i][n] = reports[i][n]
         /\ \A m \in DOMAIN new : \E n \in DOMAIN reports'[i] : reports'[i][n] = new[m]
         /\ reports[i] = <<>> => reports'[i] = new
         /\ new = <<>> => reports'[i] = reports[i]
<1>1. reports[i] \in Seq(Report) /\ reports'[i] = reports[i] \o new
  BY DEF TypeOK, Log
<1>2. \A j \in Items : j # i => reports'[j] = reports[j]
  BY DEF TypeOK, Log
<1>3. \A n \in DOMAIN reports[i] : n \in DOMAIN reports'[i] /\ reports'[i][n] = reports[i][n]
  BY <1>1
<1>4. ASSUME NEW m \in DOMAIN new
      PROVE  \E n \in DOMAIN reports'[i] : reports'[i][n] = new[m]
  <2>1. Len(reports[i]) + m \in DOMAIN reports'[i] /\ reports'[i][Len(reports[i]) + m] = new[m]
    BY <1>1
  <2> QED
    BY <2>1
<1>5. reports[i] = <<>> => reports'[i] = new
  BY <1>1
<1>6. new = <<>> => reports'[i] = reports[i]
  BY <1>1
<1> QED
  BY <1>2, <1>3, <1>4, <1>5, <1>6

LEMMA LogOne ==
  ASSUME TypeOK, NEW i \in Items, NEW x \in Report, Log(i, <<x>>)
  PROVE  /\ DOMAIN reports'[i] = DOMAIN reports[i] \cup {Len(reports[i]) + 1}
         /\ DOMAIN reports[i] = 1..Len(reports[i]) /\ Len(reports[i]) \in Nat
         /\ \A n \in DOMAIN reports[i] : reports'[i][n] = reports[i][n]
         /\ reports'[i][Len(reports[i]) + 1] = x
<1>1. reports[i] \in Seq(Report) /\ reports'[i] = reports[i] \o <<x>>
  BY DEF TypeOK, Log
<1>2. <<x>> \in Seq(Report) /\ Len(<<x>>) = 1 /\ <<x>>[1] = x
  OBVIOUS
<1>3. Len(reports'[i]) = Len(reports[i]) + 1 /\ reports'[i] \in Seq(Report)
  BY <1>1, <1>2
<1> QED
  BY <1>1, <1>2, <1>3

\* A notification is taken from the pipe.
LEMMA OnceNote ==
  ASSUME TypeOK, OnceInv, TakeNote \/ DropNote \/ HookRaises
  PROVE  OnceInv'
<1> USE DEF counts, hostvars
<1>1. /\ pc = "read" /\ pc' = "wait" /\ wire # <<>> /\ wire' = Tail(wire)
      /\ Head(wire).kind = "note" /\ UNCHANGED <<results, outcome, next>>
  BY DEF TakeNote, DropNote, HookRaises, Receive
<1>2. /\ Head(wire) \in Note /\ 1 \in DOMAIN wire /\ wire[1] = Head(wire)
      /\ \A n \in DOMAIN wire' : n + 1 \in DOMAIN wire /\ n + 1 # 1 /\ wire'[n] = wire[n + 1]
      /\ \A n \in DOMAIN wire' : n \in Nat
      /\ \A n \in DOMAIN wire : wire[n].kind = "note" => wire[n].item \in Items
  <2>1. Head(wire) \in Note
    BY <1>1, ReceiveType DEF Frame, Note, Response
  <2>2. \A n \in DOMAIN wire : wire[n].kind = "note" => wire[n].item \in Items
    <3> SUFFICES ASSUME NEW n \in DOMAIN wire, wire[n].kind = "note" PROVE wire[n].item \in Items
      OBVIOUS
    <3>1. wire[n] \in Note \cup Response
      BY DEF TypeOK
    <3> QED
      BY <3>1 DEF Note, Response
  <2>3. wire \in Seq(Frame) /\ Tail(wire) \in Seq(Frame)
    BY <1>1, ReceiveType DEF TypeOK, Frame
  <2>4. DOMAIN Tail(wire) = 1..Len(Tail(wire)) /\ Len(Tail(wire)) \in Nat
    BY <2>3
  <2> QED
    BY <1>1, <2>1, <2>2, <2>4, ReceiveType
<1> DEFINE i == Head(wire).item
           r == Head(wire).result
<1>3. i \in Items /\ r \in Result /\ ReportOf(r) \in Report
  BY <1>2, ReportType DEF Note
<1>4. Place(ReportOf(r)) = Place(r) /\ ReportOf(r).by = "host"
  BY <1>3, ReportType
<1>5. ResultsDistinct'
  BY <1>1, <1>2 DEF OnceInv, ResultsDistinct, Distinct
<1>6. ASSUME NEW n \in DOMAIN wire', wire'[n].kind = "note"
      PROVE  /\ wire'[n].item \in Items
             /\ \A k \in DOMAIN reports[wire'[n].item] :
                  Place(reports[wire'[n].item][k]) # Place(wire'[n].result)
             /\ \A m \in DOMAIN wire' :
                  wire'[m].kind = "note" /\ wire'[m].item = wire'[n].item /\ m # n =>
                    Place(wire'[m].result) # Place(wire'[n].result)
  <2>1. n + 1 \in DOMAIN wire /\ wire'[n] = wire[n + 1] /\ wire[n + 1].kind = "note"
    BY <1>2, <1>6
  <2>2. /\ wire[n + 1].item \in Items
        /\ \A k \in DOMAIN reports[wire[n + 1].item] :
             Place(reports[wire[n + 1].item][k]) # Place(wire[n + 1].result)
        /\ \A m \in DOMAIN wire :
             wire[m].kind = "note" /\ wire[m].item = wire[n + 1].item /\ m # n + 1 =>
               Place(wire[m].result) # Place(wire[n + 1].result)
    BY <1>1, <1>2, <2>1 DEF OnceInv, NotesNew, Waiting
  <2>3. ASSUME NEW m \in DOMAIN wire', wire'[m].kind = "note",
               wire'[m].item = wire'[n].item, m # n
        PROVE  Place(wire'[m].result) # Place(wire'[n].result)
    <3>1. m + 1 \in DOMAIN wire /\ wire'[m] = wire[m + 1] /\ m + 1 # n + 1
      BY <1>2, <2>3
    <3> QED
      BY <2>1, <2>2, <2>3, <3>1
  <2>4. wire'[n].item \in Items /\ \A k \in DOMAIN reports[wire'[n].item] :
          Place(reports[wire'[n].item][k]) # Place(wire'[n].result)
    BY <2>1, <2>2
  <2> QED
    BY <2>3, <2>4
<1>7. CASE reports' = reports
  <2>1. UNCHANGED <<streamed, raised>>
    <3>1. CASE UNCHANGED counts
      BY <3>1
    <3>2. CASE Log(i, <<ReportOf(r)>>)
      BY <1>3, <1>7, <3>2, LogOne
    <3> QED
      BY <3>1, <3>2 DEF TakeNote, DropNote, HookRaises
  <2>2. NotesNew'
    BY <1>7, <1>6 DEF NotesNew
  <2> QED
    BY <1>1, <1>5, <1>7, <2>1, <2>2 DEF OnceInv, BatchNew, NoDoubleReport
<1>8. CASE reports' # reports
  <2>1. Log(i, <<ReportOf(r)>>)
    BY <1>8 DEF TakeNote, DropNote, HookRaises
  <2>2. streamed' \cup raised' = streamed \cup raised \cup {i} /\ raised \subseteq raised'
    BY <1>8 DEF TakeNote, DropNote, HookRaises
  <2>3. \A j \in Items : j # i => reports'[j] = reports[j]
    BY <1>3, <2>1 DEF TypeOK, Log
  <2>4. \A k \in DOMAIN reports'[i] :
          (k \in DOMAIN reports[i] /\ reports'[i][k] = reports[i][k]) \/ reports'[i][k] = ReportOf(r)
    BY <1>3, <2>1, LogOne
  <2>5. \A k \in DOMAIN reports[i] : Place(reports[i][k]) # Place(r)
    <3>1. NotesNew /\ Waiting
      BY <1>1 DEF OnceInv, Waiting
    <3>2. \A k \in DOMAIN reports[wire[1].item] : Place(reports[wire[1].item][k]) # Place(wire[1].result)
      BY <1>1, <1>2, <3>1 DEF NotesNew
    <3> QED
      BY <1>2, <3>2
  <2>6. \A n \in DOMAIN wire' : wire'[n].kind = "note" /\ wire'[n].item = i =>
          Place(wire'[n].result) # Place(r)
    <3> SUFFICES ASSUME NEW n \in DOMAIN wire', wire'[n].kind = "note", wire'[n].item = i
                 PROVE  Place(wire'[n].result) # Place(r)
      OBVIOUS
    <3>1. n + 1 \in DOMAIN wire /\ n + 1 # 1 /\ wire'[n] = wire[n + 1]
      BY <1>2
    <3>2. \A m \in DOMAIN wire : wire[m].kind = "note" /\ wire[m].item = i /\ m # 1 =>
            Place(wire[m].result) # Place(r)
      BY <1>1, <1>2 DEF OnceInv, NotesNew, Waiting
    <3> QED
      BY <3>1, <3>2
  <2> HIDE DEF i, r
  <2>7. NotesNew'
    <3>1. ASSUME NEW n \in DOMAIN wire', wire'[n].kind = "note",
                 NEW k \in DOMAIN reports'[wire'[n].item]
          PROVE  Place(reports'[wire'[n].item][k]) # Place(wire'[n].result)
      <4>1. CASE wire'[n].item = i
        BY <1>4, <1>6, <2>4, <2>6, <3>1, <4>1
      <4>2. CASE wire'[n].item # i
        BY <1>6, <2>3, <3>1, <4>2
      <4> QED
        BY <4>1, <4>2
    <3>2. ASSUME NEW n \in DOMAIN wire', NEW m \in DOMAIN wire', m # n,
                 wire'[n].kind = "note", wire'[m].kind = "note", wire'[m].item = wire'[n].item
          PROVE  Place(wire'[m].result) # Place(wire'[n].result)
      BY <1>6, <3>2
    <3> QED
      BY <3>1, <3>2 DEF NotesNew
  <2>8. BatchNew'
    <3>1. \A j \in Items : \A k \in DOMAIN reports'[j] : reports'[j][k].by = "host"
      BY <1>1, <1>4, <2>3, <2>4 DEF OnceInv, BatchNew
    <3>2. \A j \in Items : j \notin streamed' \cup raised' /\ j >= next' => reports'[j] = <<>>
      BY <1>1, <2>2, <2>3 DEF OnceInv, BatchNew
    <3> QED
      BY <3>1, <3>2 DEF BatchNew
  <2>9. NoDoubleReport'
    <3>1. ASSUME NEW m \in DOMAIN reports'[i], NEW n \in DOMAIN reports'[i], i \notin raised',
                 Place(reports'[i][m]) = Place(reports'[i][n])
          PROVE  m = n
      <4>1. CASE m \in DOMAIN reports[i] /\ n \in DOMAIN reports[i]
        BY <1>3, <2>1, <2>2, <3>1, <4>1, LogOne DEF OnceInv, NoDoubleReport
      <4>2. CASE m \notin DOMAIN reports[i] \/ n \notin DOMAIN reports[i]
        BY <1>3, <1>4, <2>1, <2>5, <3>1, <4>2, LogOne
      <4> QED
        BY <4>1, <4>2
    <3> QED
      BY <2>2, <2>3, <3>1 DEF OnceInv, NoDoubleReport
  <2> QED
    BY <1>5, <2>7, <2>8, <2>9 DEF OnceInv
<1> QED
  BY <1>7, <1>8

\* The batch loop reports an item that has no report yet.
LEMMA OnceItem ==
  ASSUME TypeOK, OnceInv, ReportItem
  PROVE  OnceInv'
<1>1. next \in Items /\ next' = next + 1 /\ pc = "report" /\ pc' = "report"
  BY ItemsAssumption DEF ReportItem, TypeOK, Items
<1>2. /\ Log(next, BatchReports(next)) /\ BatchReports(next) \in Seq(Report)
      /\ UNCHANGED <<streamed, raised, wire, results, outcome>>
  BY <1>1, BatchType DEF ReportItem, hostvars
<1>3. ResultsDistinct' /\ NotesNew'
  BY <1>1, <1>2 DEF OnceInv, ResultsDistinct, Distinct, NotesNew, Waiting
<1>4. \A j \in Items : j # next => reports'[j] = reports[j]
  BY <1>1, <1>2, LogMembers
<1>5. BatchNew'
  BY <1>1, <1>2, <1>4 DEF OnceInv, BatchNew, Items
<1>6. ASSUME next \notin raised,
             NEW m \in DOMAIN reports'[next], NEW n \in DOMAIN reports'[next],
             Place(reports'[next][m]) = Place(reports'[next][n])
      PROVE  m = n
  <2>1. CASE next \in streamed
    <3>1. reports'[next] = reports[next]
      BY <1>1, <1>2, <2>1, LogMembers DEF BatchReports
    <3> QED
      BY <1>1, <1>6, <3>1 DEF OnceInv, NoDoubleReport
  <2>2. CASE next \notin streamed
    <3>1. reports[next] = <<>>
      BY <1>1, <1>6, <2>2 DEF OnceInv, BatchNew, Items
    <3>2. reports'[next] = BatchReports(next)
      BY <1>1, <1>2, <3>1, LogMembers
    <3>3. CASE BatchReports(next) = <<ErrorReport>>
      BY <1>6, <3>2, <3>3
    <3>4. CASE BatchReports(next) = [k \in 1..Len(results[next]) |-> ReportOf(results[next][k])]
      <4>1. results[next] \in Seq(Result) /\ Distinct(results[next])
        BY <1>1 DEF OnceInv, ResultsDistinct, TypeOK
      <4>2. /\ m \in DOMAIN results[next] /\ n \in DOMAIN results[next]
            /\ Place(reports'[next][m]) = Place(results[next][m])
            /\ Place(reports'[next][n]) = Place(results[next][n])
        BY <3>2, <3>4, <4>1, ReportType
      <4> QED
        BY <1>6, <4>1, <4>2 DEF Distinct
    <3> QED
      BY <2>2, <3>3, <3>4 DEF BatchReports
  <2> QED
    BY <2>1, <2>2
<1>7. NoDoubleReport'
  BY <1>1, <1>2, <1>4, <1>6 DEF OnceInv, NoDoubleReport
<1> QED
  BY <1>3, <1>5, <1>7 DEF OnceInv

\* The host runs one phase of a test after the other, and one test of an item after
\* the other, so a result it sends was neither reported nor sent before.
LEMMA OnceRuns ==
  ASSUME TypeOK, TypeOK', OnceInv, TruthInv, NEW i \in Items, NEW r \in Result, HostRuns(i, r)
  PROVE  OnceInv'
<1> USE DEF counts
<1>1. /\ outcome[i] \in Seq(Result) /\ outcome'[i] = Append(outcome[i], r)
      /\ \A j \in Items : j # i => outcome'[j] = outcome[j]
      /\ UNCHANGED <<pc, results, next, reports, streamed, raised>>
  BY DEF HostRuns, TypeOK
<1>2. \A m \in DOMAIN outcome[i] : Place(outcome[i][m]) # Place(r)
  BY PlacesApart
<1>3. \A x : Recorded(i, x) => Place(x) # Place(r)
  BY <1>2 DEF Recorded
<1>4. Distinct(outcome'[i])
  <2>1. \A m \in DOMAIN outcome'[i] :
          \/ m \in DOMAIN outcome[i] /\ outcome'[i][m] = outcome[i][m]
          \/ m = Len(outcome[i]) + 1 /\ outcome'[i][m] = r
    BY <1>1
  <2> QED
    BY <1>2, <2>1 DEF OnceInv, ResultsDistinct, Distinct
<1> DEFINE f == [req |-> job, kind |-> "note", item |-> i, result |-> r]
<1>5. f.kind = "note" /\ f.item = i /\ f.result = r
  OBVIOUS
<1>6. wire' = Append(wire, f) \/ wire' = wire
  BY DEF HostRuns
<1> HIDE DEF f
<1>7. \A n \in DOMAIN wire' :
        (n \in DOMAIN wire /\ wire'[n] = wire[n]) \/ (n = Len(wire) + 1 /\ wire'[n] = f)
  <2>1. CASE wire' = Append(wire, f)
    <3>1. /\ DOMAIN wire' = 1..Len(wire) + 1 /\ DOMAIN wire = 1..Len(wire)
          /\ Len(wire) \in Nat
          /\ \A n \in DOMAIN wire : wire'[n] = wire[n]
          /\ wire'[Len(wire) + 1] = f
      BY <2>1 DEF TypeOK
    <3> QED
      BY <3>1
  <2> QED
    BY <1>6, <2>1
<1>8. ResultsDistinct'
  BY <1>1, <1>4, <1>5, <1>7 DEF OnceInv, ResultsDistinct
<1>9. Waiting => \A k \in DOMAIN reports[i] : Place(reports[i][k]) # Place(r)
  <2> SUFFICES ASSUME Waiting, NEW k \in DOMAIN reports[i] PROVE Place(reports[i][k]) # Place(r)
    OBVIOUS
  <2>1. PICK x \in Result : Recorded(i, x) /\ reports[i][k] = ReportOf(x)
    BY DEF OnceInv, BatchNew, Waiting, TruthInv, ReportsTrue
  <2> QED
    BY <1>3, <2>1, ReportType
<1>10. \A n \in DOMAIN wire : wire[n].kind = "note" /\ wire[n].item = i =>
         Place(wire[n].result) # Place(r)
  <2> SUFFICES ASSUME NEW n \in DOMAIN wire, wire[n].kind = "note", wire[n].item = i
               PROVE  Place(wire[n].result) # Place(r)
    OBVIOUS
  <2>1. FrameRecorded(wire[n])
    BY DEF TruthInv, WireTrue
  <2>2. Recorded(i, wire[n].result)
    BY <2>1 DEF FrameRecorded
  <2> QED
    BY <1>3, <2>2
<1>11. NotesNew'
  <2> SUFFICES ASSUME Waiting, NEW n \in DOMAIN wire', wire'[n].kind = "note"
               PROVE  /\ \A k \in DOMAIN reports[wire'[n].item] :
                           Place(reports[wire'[n].item][k]) # Place(wire'[n].result)
                      /\ \A m \in DOMAIN wire' :
                           wire'[m].kind = "note" /\ wire'[m].item = wire'[n].item /\ m # n =>
                             Place(wire'[m].result) # Place(wire'[n].result)
    BY <1>1 DEF NotesNew, Waiting
  <2>1. CASE n \in DOMAIN wire /\ wire'[n] = wire[n]
    BY <1>5, <1>7, <1>10, <2>1 DEF OnceInv, NotesNew
  <2>2. CASE n = Len(wire) + 1 /\ wire'[n] = f
    BY <1>5, <1>7, <1>9, <1>10, <2>2
  <2> QED
    BY <1>7, <2>1, <2>2
<1> QED
  BY <1>1, <1>8, <1>11 DEF OnceInv, BatchNew, NoDoubleReport

LEMMA OnceNext ==
  ASSUME TypeOK, TypeOK', FramesInv, TruthInv, OnceInv, [Next]_vars
  PROVE  OnceInv'
<1> USE DEF counts, hostvars
<1>1. CASE \/ Dispatch \/ SendFails \/ Timeout \/ TimeoutInFrame \/ ReadFails \/ EndSession
  <2>1. /\ UNCHANGED <<results, outcome, reports, streamed, raised, next>>
        /\ wire' = wire \/ (wire # <<>> /\ wire' = Tail(wire))
        /\ pc' \notin {"wait", "read"}
        /\ pc \in {"report", "done"} => pc' \in {"report", "done"}
    BY <1>1 DEF Dispatch, SendFails, Timeout, TimeoutInFrame, ReadFails, EndSession, Fail,
       NextRequest
  <2>2. \A n \in DOMAIN wire' : \E m \in DOMAIN wire : wire'[n] = wire[m]
    BY <2>1, ReceiveType
  <2>3. ResultsDistinct'
    BY <2>1, <2>2 DEF OnceInv, ResultsDistinct, Distinct
  <2> QED
    BY <2>1, <2>3 DEF OnceInv, NotesNew, Waiting, BatchNew, NoDoubleReport
<1>2. CASE Send
  <2>1. wire = <<>> /\ wire' = wire /\ DOMAIN wire = {}
    BY <1>2 DEF Send, FramesInv, Quiet
  <2> QED
    BY <1>2, <2>1
    DEF Send, OnceInv, ResultsDistinct, Distinct, NotesNew, BatchNew, NoDoubleReport
<1>3. CASE BeginRead \/ HostDies \/ UNCHANGED vars
  <2>1. /\ UNCHANGED <<results, outcome, reports, streamed, raised, next, wire>>
        /\ pc' = pc \/ (pc = "wait" /\ pc' = "read")
    BY <1>3 DEF BeginRead, HostDies, vars
  <2> QED
    BY <2>1 DEF OnceInv, ResultsDistinct, Distinct, NotesNew, Waiting, BatchNew, NoDoubleReport
<1>4. CASE TakeNote \/ DropNote \/ HookRaises
  BY <1>4, OnceNote
<1>5. CASE TakeResponse
  <2>1. /\ UNCHANGED <<outcome, reports, streamed, raised, next>>
        /\ wire # <<>> /\ wire' = Tail(wire) /\ Head(wire).kind = "response"
        /\ pc = "read" /\ pc' \notin {"wait", "read"}
    BY <1>5 DEF TakeResponse, Receive, NextRequest
  <2>2. \A i \in Items : results'[i] \in {results[i], Head(wire).results[i]}
    BY <1>5 DEF TakeResponse, Updated
  <2>3. ResultsDistinct'
    BY <2>1, <2>2, ReceiveType DEF OnceInv, ResultsDistinct, Distinct
  <2> QED
    BY <2>1, <2>3 DEF OnceInv, NotesNew, Waiting, BatchNew, NoDoubleReport
<1>6. CASE ReportItem
  BY <1>6, OnceItem
<1>7. ASSUME NEW i \in Items, NEW ph \in Phases[i], NEW o \in Outcomes, NEW t \in Tests,
             HostRuns(i, [outcome |-> o, phase |-> ph, test |-> t])
      PROVE  OnceInv'
  <2>1. [outcome |-> o, phase |-> ph, test |-> t] \in Result
    BY RunsType
  <2> QED
    BY <1>7, <2>1, OnceRuns
<1>8. CASE HostResponds
  <2> DEFINE res == [i \in Items |-> IF i \in ItemsOf(job) THEN outcome[i] ELSE <<>>]
  <2>1. PICK err \in BOOLEAN :
          wire' = Append(wire, [req |-> job, results |-> res, kind |-> "response", error |-> err])
    BY <1>8 DEF HostResponds
  <2> DEFINE f == [req |-> job, results |-> res, kind |-> "response", error |-> err]
  <2>2. f.kind = "response" /\ f.results = res
    OBVIOUS
  <2>3. \A i \in Items : Distinct(res[i])
    BY DEF OnceInv, ResultsDistinct, Distinct
  <2>4. UNCHANGED <<pc, results, outcome, reports, streamed, raised, next>>
    BY <1>8 DEF HostResponds
  <2> HIDE DEF f, res
  <2>5. \A n \in DOMAIN wire' : (n \in DOMAIN wire /\ wire'[n] = wire[n]) \/ wire'[n] = f
    BY <2>1 DEF TypeOK, f
  <2>6. ResultsDistinct'
    BY <2>2, <2>3, <2>4, <2>5 DEF OnceInv, ResultsDistinct, Distinct
  <2>7. NotesNew'
    BY <2>2, <2>4, <2>5 DEF OnceInv, NotesNew, Waiting
  <2> QED
    BY <2>4, <2>6, <2>7 DEF OnceInv, BatchNew, NoDoubleReport
<1> QED
  BY <1>1, <1>2, <1>3, <1>4, <1>5, <1>6, <1>7, <1>8 DEF Next, ClientStep, HostStep

LEMMA OnceInvariant == Spec => []OnceInv
<1>1. Init => OnceInv
  BY DEF Init, OnceInv, ResultsDistinct, Distinct, NotesNew, BatchNew, NoDoubleReport, Waiting,
     NoResults
<1> QED
  BY <1>1, OnceNext, NextType, TypeCorrect, FramesInvariant, TruthInvariant, PTL DEF Spec

\* No phase of a test is reported twice, however streaming and responses mix, unless a
\* hook raised while a report of its item was streamed.  An item has one test, or as
\* many as a '(suite)' item has nodeids beneath it.
THEOREM ReportedOnce == Spec => []NoDoubleReport
<1>1. OnceInv => NoDoubleReport
  BY DEF OnceInv
<1> QED
  BY <1>1, OnceInvariant, PTL

-----------------------------------------------------------------------------
(* No failure goes unnoticed. *)

Final(i) == job = "idle" \/ i \notin ItemsOf(job)
GreenInv ==
  /\ pc \notin {"report", "done"} =>
       \A i \in Items : results[i] # <<>> => req = "ipy" /\ i \in ItemsOf("py")
  /\ \A i \in Items : results[i] # <<>> => results[i] = outcome[i] /\ Final(i)
  /\ Waiting =>
       \A n \in DOMAIN wire : wire[n].kind = "response" =>
         \A i \in Items : wire[n].results[i] # <<>> =>
           i \in ItemsOf(wire[n].req) /\ wire[n].results[i] = outcome[i]
  /\ \A i \in Items \ streamed : i < next =>
       \/ \E n \in DOMAIN reports[i] : reports[i][n].outcome = "failed"
       \/ /\ results[i] # <<>>
          /\ \A n \in DOMAIN results[i] : \E m \in DOMAIN reports[i] :
               reports[i][m] = ReportOf(results[i][n])

\* The host's results for an item whose results are in are final.
LEMMA GreenHost ==
  ASSUME TypeOK, FramesInv, GreenInv, NEW i \in Items, NEW r, HostRuns(i, r)
  PROVE  GreenInv'
<1> USE DEF counts
<1>1. /\ job # "idle" /\ i \in ItemsOf(job) /\ job' = job
      /\ outcome' = [outcome EXCEPT ![i] = Append(@, r)]
      /\ UNCHANGED <<pc, req, results, next, reports, streamed>>
  BY DEF HostRuns
<1>2. \A j \in Items : j # i => outcome'[j] = outcome[j]
  BY <1>1 DEF TypeOK
<1>3. results[i] = <<>>
  BY <1>1 DEF GreenInv, Final
<1>4. \A j \in Items : results'[j] # <<>> => results'[j] = outcome'[j] /\ Final(j)'
  BY <1>1, <1>2, <1>3 DEF GreenInv, Final
<1>5. Waiting => \A n \in DOMAIN wire' : wire'[n].kind = "note"
  <2> SUFFICES ASSUME Waiting, NEW n \in DOMAIN wire' PROVE wire'[n].kind = "note"
    OBVIOUS
  <2>1. \A m \in DOMAIN wire : wire[m].kind = "note"
    <3> SUFFICES ASSUME NEW m \in DOMAIN wire PROVE wire[m].kind = "note"
      OBVIOUS
    <3>1. wire[m] \in Note \cup Response /\ wire[m].kind # "response"
      BY <1>1 DEF FramesInv, Waiting, TypeOK
    <3> QED
      BY <3>1 DEF Note, Response
  <2> DEFINE f == [req |-> job, kind |-> "note", item |-> i, result |-> r]
  <2>2. f.kind = "note"
    OBVIOUS
  <2>3. wire' = Append(wire, f) \/ wire' = wire
    BY DEF HostRuns
  <2> HIDE DEF f
  <2>4. CASE wire' = Append(wire, f)
    <3>1. /\ DOMAIN wire' = 1..Len(wire) + 1 /\ DOMAIN wire = 1..Len(wire)
          /\ Len(wire) \in Nat
          /\ \A m \in DOMAIN wire : wire'[m] = wire[m]
          /\ wire'[Len(wire) + 1] = f
      BY <2>4 DEF TypeOK
    <3> QED
      BY <2>1, <2>2, <3>1
  <2> QED
    BY <2>1, <2>3, <2>4
<1> QED
  BY <1>1, <1>4, <1>5 DEF GreenInv, Waiting

\* What the batch loop has reported stays reported.
LEMMA GreenReports ==
  ASSUME TypeOK, GreenInv, NEW i \in Items, NEW new \in Seq(Report), Log(i, new),
         UNCHANGED <<results, next>>, streamed \subseteq streamed'
  PROVE  \A j \in Items \ streamed' : j < next =>
           \/ \E n \in DOMAIN reports'[j] : reports'[j][n].outcome = "failed"
           \/ /\ results'[j] # <<>>
              /\ \A n \in DOMAIN results'[j] : \E m \in DOMAIN reports'[j] :
                   reports'[j][m] = ReportOf(results'[j][n])
<1>1. \A j \in Items : \A n \in DOMAIN reports[j] :
        n \in DOMAIN reports'[j] /\ reports'[j][n] = reports[j][n]
  BY LogMembers
<1> QED
  BY <1>1 DEF GreenInv

LEMMA GreenItem ==
  ASSUME TypeOK, GreenInv, ReportItem
  PROVE  GreenInv'
<1>1. /\ next \in Items /\ next' = next + 1 /\ pc = "report" /\ pc' = "report"
      /\ UNCHANGED <<results, streamed, outcome, job, req, wire>>
  BY ItemsAssumption DEF ReportItem, TypeOK, Items, hostvars
<1>2. Log(next, BatchReports(next)) /\ BatchReports(next) \in Seq(Report)
  BY <1>1, BatchType DEF ReportItem
<1>3. \A j \in Items : \A n \in DOMAIN reports[j] :
        n \in DOMAIN reports'[j] /\ reports'[j][n] = reports[j][n]
  BY <1>1, <1>2, LogMembers
<1>4. \A m \in DOMAIN BatchReports(next) :
        \E n \in DOMAIN reports'[next] : reports'[next][n] = BatchReports(next)[m]
  BY <1>1, <1>2, LogMembers
<1>5. next \notin streamed =>
        \/ \E n \in DOMAIN reports'[next] : reports'[next][n].outcome = "failed"
        \/ /\ results[next] # <<>>
           /\ \A n \in DOMAIN results[next] : \E m \in DOMAIN reports'[next] :
                reports'[next][m] = ReportOf(results[next][n])
  <2> SUFFICES ASSUME next \notin streamed
               PROVE  \/ \E n \in DOMAIN reports'[next] : reports'[next][n].outcome = "failed"
                      \/ /\ results[next] # <<>>
                         /\ \A n \in DOMAIN results[next] : \E m \in DOMAIN reports'[next] :
                              reports'[next][m] = ReportOf(results[next][n])
    OBVIOUS
  <2>1. CASE failed \/ results[next] = <<>>
    <3>1. BatchReports(next) = <<ErrorReport>>
      BY <2>1 DEF BatchReports
    <3>2. 1 \in DOMAIN <<ErrorReport>> /\ <<ErrorReport>>[1].outcome = "failed"
      BY DEF ErrorReport
    <3> QED
      BY <1>4, <3>1, <3>2
  <2>2. CASE ~failed /\ results[next] # <<>>
    <3>1. BatchReports(next) = [n \in 1..Len(results[next]) |-> ReportOf(results[next][n])]
      BY <2>2 DEF BatchReports
    <3>2. DOMAIN results[next] = 1..Len(results[next])
      BY <1>1 DEF TypeOK
    <3> QED
      BY <1>4, <2>2, <3>1, <3>2
  <2> QED
    BY <2>1, <2>2
<1>6. \A j \in Items : j < next' => j < next \/ j = next
  BY <1>1 DEF Items
<1>7. \A j \in Items \ streamed' : j < next' =>
        \/ \E n \in DOMAIN reports'[j] : reports'[j][n].outcome = "failed"
        \/ /\ results'[j] # <<>>
           /\ \A n \in DOMAIN results'[j] : \E m \in DOMAIN reports'[j] :
                reports'[j][m] = ReportOf(results'[j][n])
  BY <1>1, <1>3, <1>5, <1>6 DEF GreenInv
<1> QED
  BY <1>1, <1>7 DEF GreenInv, Final, Waiting

LEMMA GreenResponse ==
  ASSUME TypeOK, FramesInv, SilentInv, GreenInv, TakeResponse
  PROVE  GreenInv'
<1>1. /\ UNCHANGED <<outcome, job, reports, streamed, next>>
      /\ wire # <<>> /\ Head(wire).kind = "response" /\ pc = "read"
      /\ (req = "py" /\ pc' = "dispatch" /\ req' = "ipy") \/ (req # "py" /\ pc' = "report")
  BY DEF TakeResponse, Receive, NextRequest, hostvars
<1>2. Head(wire).req = req /\ job = "idle"
  BY <1>1, ReceiveType DEF FramesInv
<1>3. \A i \in Items : Head(wire).results[i] # <<>> =>
        i \in ItemsOf(req) /\ Head(wire).results[i] = outcome[i]
  BY <1>1, <1>2, ReceiveType DEF GreenInv, Waiting
<1>4. \A i \in Items : results'[i] = results[i]
                       \/ (results'[i] # <<>> /\ results'[i] = Head(wire).results[i])
  BY DEF TakeResponse, Updated
<1>5. \A i \in Items : results'[i] # <<>> => results'[i] = outcome'[i] /\ Final(i)'
  BY <1>1, <1>2, <1>3, <1>4 DEF GreenInv, Final
<1>6. pc' = "dispatch" => \A i \in Items : results'[i] # <<>> => i \in ItemsOf("py")
  BY <1>1, <1>3, <1>4 DEF GreenInv
<1>7. next = 1
  BY <1>1 DEF SilentInv
<1> QED
  BY <1>1, <1>5, <1>6, <1>7 DEF GreenInv, Waiting, Items

LEMMA GreenNext ==
  ASSUME TypeOK, FramesInv, SilentInv, GreenInv, [Next]_vars
  PROVE  GreenInv'
<1> USE DEF counts, hostvars
<1>1. CASE \/ Dispatch \/ SendFails \/ Timeout \/ TimeoutInFrame \/ ReadFails \/ EndSession
  <2>1. /\ UNCHANGED <<results, outcome, job, reports, streamed, next>>
        /\ pc' \notin {"wait", "read"}
        /\ pc \in {"report", "done"} => pc' \in {"report", "done"}
        /\ req = "ipy" => req' = "ipy" \/ pc' = "report"
    BY <1>1 DEF Dispatch, SendFails, Timeout, TimeoutInFrame, ReadFails, EndSession, Fail,
       NextRequest
  <2> QED
    BY <2>1 DEF GreenInv, Final, Waiting
<1>2. CASE Send
  <2>1. wire = <<>> /\ wire' = wire /\ DOMAIN wire = {}
    BY <1>2 DEF Send, FramesInv, Quiet
  <2>2. /\ UNCHANGED <<results, outcome, reports, streamed, next, req>>
        /\ job' = req /\ pc = "send" /\ pc' = "wait"
    BY <1>2 DEF Send
  <2>3. \A i \in Items : results[i] # <<>> => req = "ipy" /\ i \in ItemsOf("py")
    BY <2>2 DEF GreenInv
  <2>4. \A i \in Items : results[i] # <<>> => Final(i)'
    BY <2>2, <2>3 DEF Final, ItemsOf
  <2> QED
    BY <2>1, <2>2, <2>4 DEF GreenInv, Waiting
<1>3. CASE BeginRead \/ HostDies \/ UNCHANGED vars
  <2>1. /\ UNCHANGED <<results, outcome, job, reports, streamed, next, wire, req>>
        /\ pc' = pc \/ (pc = "wait" /\ pc' = "read")
    BY <1>3 DEF BeginRead, HostDies, vars
  <2> QED
    BY <2>1 DEF GreenInv, Final, Waiting
<1>4. CASE TakeNote \/ DropNote \/ HookRaises
  <2>1. /\ pc = "read" /\ pc' = "wait" /\ wire # <<>> /\ wire' = Tail(wire)
        /\ UNCHANGED <<results, outcome, job, next, req>> /\ streamed \subseteq streamed'
    BY <1>4 DEF TakeNote, DropNote, HookRaises, Receive
  <2>2. \A n \in DOMAIN wire' : n + 1 \in DOMAIN wire /\ wire'[n] = wire[n + 1]
    BY <2>1, ReceiveType
  <2>3. ASSUME NEW n \in DOMAIN wire', wire'[n].kind = "response",
               NEW i \in Items, wire'[n].results[i] # <<>>
        PROVE  i \in ItemsOf(wire'[n].req) /\ wire'[n].results[i] = outcome[i]
    <3>1. n + 1 \in DOMAIN wire /\ wire'[n] = wire[n + 1]
      BY <2>2
    <3> QED
      BY <2>1, <2>3, <3>1 DEF GreenInv, Waiting
  <2>4. next = 1
    BY <2>1 DEF SilentInv
  <2> QED
    BY <2>1, <2>3, <2>4 DEF GreenInv, Final, Waiting, Items
<1>5. CASE TakeResponse
  BY <1>5, GreenResponse
<1>6. CASE ReportItem
  BY <1>6, GreenItem
<1>7. ASSUME NEW i \in Items, NEW r, HostRuns(i, r) PROVE GreenInv'
  BY <1>7, GreenHost
<1>8. CASE HostResponds
  <2> DEFINE res == [i \in Items |-> IF i \in ItemsOf(job) THEN outcome[i] ELSE <<>>]
  <2>1. PICK err \in BOOLEAN :
          wire' = Append(wire, [req |-> job, results |-> res, kind |-> "response", error |-> err])
    BY <1>8 DEF HostResponds
  <2> DEFINE f == [req |-> job, results |-> res, kind |-> "response", error |-> err]
  <2>2. f.req = job /\ f.results = res
    OBVIOUS
  <2>3. \A i \in Items : res[i] # <<>> => i \in ItemsOf(job) /\ res[i] = outcome[i]
    OBVIOUS
  <2>4. UNCHANGED <<pc, req, results, outcome, reports, streamed, next>> /\ job' = "idle"
    BY <1>8 DEF HostResponds
  <2> HIDE DEF f, res
  <2>5. \A n \in DOMAIN wire' : (n \in DOMAIN wire /\ wire'[n] = wire[n]) \/ wire'[n] = f
    BY <2>1 DEF TypeOK, f
  <2> QED
    BY <2>2, <2>3, <2>4, <2>5 DEF GreenInv, Final, Waiting
<1> QED
  BY <1>1, <1>2, <1>3, <1>4, <1>5, <1>6, <1>7, <1>8 DEF Next, ClientStep, HostStep

LEMMA GreenInvariant == Spec => []GreenInv
<1>1. Init => GreenInv
  BY ItemsAssumption DEF Init, GreenInv, Waiting, NoResults, Items
<1> QED
  BY <1>1, GreenNext, TypeCorrect, FramesInvariant, SilentInvariant, PTL DEF Spec

\* An item left to the batch loop never ends with passing reports only if the
\* host recorded a failure for it, whatever goes wrong on the way.
THEOREM FailureIsReported == Spec => []NeverGreenOnFailure
<1>1. ASSUME TypeOK, SilentInv, GreenInv PROVE NeverGreenOnFailure
  <2> SUFFICES ASSUME pc = "done", ~ShouldFail, NEW i \in Items \ streamed, HostFailed(i)
               PROVE  \E n \in DOMAIN reports[i] : reports[i][n].outcome = "failed"
    BY DEF NeverGreenOnFailure
  <2>1. i < next
    BY <1>1, ItemsAssumption DEF SilentInv, Items
  <2>2. CASE /\ results[i] # <<>>
             /\ \A n \in DOMAIN results[i] : \E m \in DOMAIN reports[i] :
                  reports[i][m] = ReportOf(results[i][n])
    <3>1. results[i] = outcome[i]
      BY <1>1, <2>2 DEF GreenInv
    <3>2. PICK n \in DOMAIN results[i] : results[i][n].outcome \in {"failed", "xpassed", "other"}
      BY <3>1 DEF HostFailed
    <3>3. ReportOf(results[i][n]).outcome = "failed"
      BY <3>2 DEF ReportOf, Normalize
    <3> QED
      BY <2>2, <3>3
  <2> QED
    BY <1>1, <2>1, <2>2 DEF GreenInv
<1> QED
  BY <1>1, GreenInvariant, TypeCorrect, SilentInvariant, PTL

-----------------------------------------------------------------------------
(* No result of a response is lost, but in known ways. *)

KeptInv == ~failed => \A i \in Items \ streamed : i < next => Reported(i)

LEMMA KeptItem ==
  ASSUME TypeOK, KeptInv, ReportItem
  PROVE  KeptInv'
<1>1. next \in Items /\ next' = next + 1 /\ UNCHANGED <<results, streamed, failed>>
  BY ItemsAssumption DEF ReportItem, TypeOK, Items
<1>2. Log(next, BatchReports(next)) /\ BatchReports(next) \in Seq(Report)
  BY <1>1, BatchType DEF ReportItem
<1>3. \A j \in Items : \A n \in DOMAIN reports[j] :
        n \in DOMAIN reports'[j] /\ reports'[j][n] = reports[j][n]
  BY <1>1, <1>2, LogMembers
<1>4. \A m \in DOMAIN BatchReports(next) :
        \E n \in DOMAIN reports'[next] : reports'[next][n] = BatchReports(next)[m]
  BY <1>1, <1>2, LogMembers
<1>5. ASSUME ~failed, next \notin streamed, NEW n \in DOMAIN results[next]
      PROVE  \E m \in DOMAIN reports'[next] : reports'[next][m] = ReportOf(results[next][n])
  <2>1. results[next] \in Seq(Result) /\ results[next] # <<>>
    BY <1>1, <1>5 DEF TypeOK
  <2>2. BatchReports(next) = [k \in 1..Len(results[next]) |-> ReportOf(results[next][k])]
    BY <1>5, <2>1 DEF BatchReports
  <2>3. n \in DOMAIN BatchReports(next) /\ BatchReports(next)[n] = ReportOf(results[next][n])
    BY <1>5, <2>1, <2>2
  <2> QED
    BY <1>4, <2>3
<1>6. \A j \in Items : j < next' => j < next \/ j = next
  BY <1>1 DEF Items
<1> QED
  BY <1>1, <1>3, <1>5, <1>6 DEF KeptInv, Reported

LEMMA KeptInvariant == Spec => []KeptInv
<1>1. Init => KeptInv
  BY ItemsAssumption DEF Init, KeptInv, Items
<1>2. ASSUME TypeOK, SilentInv, KeptInv, [Next]_vars PROVE KeptInv'
  <2>1. CASE ReportItem
    BY <1>2, <2>1, KeptItem
  <2>2. CASE pc \notin {"report", "done"} /\ next' = next
    <3>1. next' = 1
      BY <1>2, <2>2 DEF SilentInv
    <3> QED
      BY <3>1 DEF KeptInv, Items
  <2>3. CASE UNCHANGED <<results, streamed, failed, reports, next>>
    BY <1>2, <2>3 DEF KeptInv, Reported
  <2>4. ReportItem \/ (pc \notin {"report", "done"} /\ next' = next)
                   \/ UNCHANGED <<results, streamed, failed, reports, next>>
    <3>1. CASE Dispatch \/ Send \/ SendFails \/ BeginRead \/ Timeout
      BY <3>1 DEF Dispatch, Send, SendFails, BeginRead, Timeout, Fail
    <3>2. CASE TimeoutInFrame \/ ReadFails
      BY <3>2 DEF TimeoutInFrame, ReadFails, Fail
    <3>3. CASE TakeNote \/ DropNote \/ HookRaises \/ TakeResponse
      BY <3>3 DEF TakeNote, DropNote, HookRaises, TakeResponse, Receive
    <3>4. CASE EndSession \/ UNCHANGED vars
      BY <3>4 DEF EndSession, vars, counts
    <3>5. CASE HostStep
      <4>1. ASSUME NEW i \in Items, NEW r, HostRuns(i, r)
            PROVE  UNCHANGED <<results, failed, next, counts>>
        BY <4>1 DEF HostRuns
      <4>2. CASE HostResponds \/ HostDies
        BY <4>2 DEF HostResponds, HostDies, counts
      <4>3. CASE UNCHANGED <<results, failed, next, counts>>
        BY <4>3 DEF counts
      <4> QED
        BY <3>5, <4>1, <4>2, <4>3 DEF HostStep
    <3> QED
      BY <1>2, <3>1, <3>2, <3>3, <3>4, <3>5 DEF Next, ClientStep
  <2> QED
    BY <2>1, <2>2, <2>3, <2>4
<1> QED
  BY <1>1, <1>2, TypeCorrect, SilentInvariant, PTL DEF Spec

\* In a session that was not stopped, a result that came in a response is lost only
\* if its item was streamed in part or a request failed.
THEOREM ResultsAreKept == Spec => []ResultsKept
<1>1. SilentInv /\ KeptInv => ResultsKept
  BY ItemsAssumption DEF SilentInv, KeptInv, ResultsKept, Items
<1> QED
  BY <1>1, SilentInvariant, KeptInvariant, PTL

\* With one request there are no results when it fails.
OneBatch == ~Streaming /\ Ipy \in {{}, Items}
OneBatchInv ==
  /\ streamed = {}
  /\ pc \in {"send", "wait", "read"} => ItemsOf(req) # {} /\ ~failed
  /\ failed => \A i \in Items : results[i] = <<>>

LEMMA OneBatchNext ==
  ASSUME OneBatch, TypeOK, FramesInv, GreenInv, OneBatchInv, [Next]_vars
  PROVE  OneBatchInv'
<1> USE DEF counts, hostvars
<1>1. pc \in {"send", "wait", "read"} => \A i \in Items : results[i] = <<>>
  BY DEF OneBatch, OneBatchInv, GreenInv, ItemsOf
<1>2. CASE Dispatch
  BY <1>2 DEF Dispatch, MayRequest, FramesInv, OneBatchInv, TypeOK, Requests
<1>3. CASE Send \/ BeginRead
  BY <1>3 DEF Send, BeginRead, OneBatchInv
<1>4. CASE SendFails \/ Timeout \/ TimeoutInFrame \/ ReadFails
  BY <1>1, <1>4 DEF SendFails, Timeout, TimeoutInFrame, ReadFails, Fail, NextRequest, OneBatchInv
<1>5. CASE TakeNote \/ DropNote \/ HookRaises
  BY <1>5 DEF TakeNote, DropNote, HookRaises, Receive, Streams, OneBatch, OneBatchInv
<1>6. CASE TakeResponse
  BY <1>1, <1>6 DEF TakeResponse, Updated, Receive, NextRequest, OneBatchInv
<1>7. CASE ReportItem \/ EndSession
  BY <1>7 DEF ReportItem, EndSession, OneBatchInv
<1>8. CASE HostStep \/ UNCHANGED vars
  <2>1. UNCHANGED <<pc, req, results, failed, streamed>>
    BY <1>8 DEF HostStep, HostRuns, HostResponds, HostDies, vars
  <2> QED
    BY <2>1 DEF OneBatchInv
<1> QED
  BY <1>2, <1>3, <1>4, <1>5, <1>6, <1>7, <1>8 DEF Next, ClientStep

\* Where neither can happen, with one request and without streaming, every result of
\* a response is reported, as the README says.
THEOREM OneBatchReportsAll == ASSUME OneBatch PROVE Spec => []EveryResultReported
<1>1. Init => OneBatchInv
  BY DEF Init, OneBatchInv
<1>2. TypeOK /\ FramesInv /\ GreenInv /\ OneBatchInv /\ [Next]_vars => OneBatchInv'
  BY OneBatchNext
<1>3. OneBatchInv /\ ResultsKept => EveryResultReported
  BY DEF OneBatchInv, ResultsKept, EveryResultReported, Reported
<1> QED
  BY <1>1, <1>2, <1>3, TypeCorrect, FramesInvariant, GreenInvariant, ResultsAreKept, PTL DEF Spec

-----------------------------------------------------------------------------
(* The session comes to its end, if the host answers. *)

LEMMA Appended ==
  ASSUME NEW S, NEW s \in Seq(S), NEW e, NEW t, t = Append(s, e)
  PROVE  /\ \A n \in DOMAIN s : n \in DOMAIN t /\ t[n] = s[n]
         /\ \E n \in DOMAIN t : t[n] = e
<1>1. /\ Len(t) = Len(s) + 1 /\ Len(s) \in Nat
      /\ DOMAIN t = 1..Len(s) + 1 /\ DOMAIN s = 1..Len(s)
      /\ \A n \in DOMAIN s : t[n] = s[n]
      /\ t[Len(s) + 1] = e
  OBVIOUS
<1> QED
  BY <1>1

LEMMA AnswerNext ==
  ASSUME TypeOK, AnswerToCome, [Next]_vars
  PROVE  AnswerToCome'
<1> USE DEF counts, hostvars
<1>1. CASE Dispatch \/ SendFails \/ Timeout \/ TimeoutInFrame \/ ReadFails \/ TakeResponse
           \/ ReportItem \/ EndSession
  <2>1. pc' \notin {"wait", "read"}
    BY <1>1 DEF Dispatch, SendFails, Timeout, TimeoutInFrame, ReadFails, TakeResponse, Fail,
       NextRequest, ReportItem, EndSession
  <2> QED
    BY <2>1 DEF AnswerToCome
<1>2. CASE Send \/ BeginRead \/ HostDies \/ UNCHANGED vars
  BY <1>2 DEF Send, BeginRead, HostDies, vars, AnswerToCome
<1>3. CASE TakeNote \/ DropNote \/ HookRaises
  <2>1. /\ pc = "read" /\ wire # <<>> /\ wire' = Tail(wire) /\ Head(wire).kind = "note"
        /\ UNCHANGED <<job, alive, req>>
    BY <1>3 DEF TakeNote, DropNote, HookRaises, Receive
  <2>2. ASSUME NEW n \in DOMAIN wire, wire[n].kind = "response"
        PROVE  n - 1 \in DOMAIN wire' /\ wire'[n - 1].kind = "response"
    <3>1. n # 1
      BY <2>1, <2>2 DEF TypeOK
    <3> QED
      BY <2>1, <2>2, <3>1 DEF TypeOK
  <2> QED
    BY <2>1, <2>2 DEF AnswerToCome
<1>4. ASSUME NEW i \in Items, NEW r, HostRuns(i, r) PROVE AnswerToCome'
  <2>1. \A n \in DOMAIN wire : n \in DOMAIN wire' /\ wire'[n] = wire[n]
    BY <1>4, Appended DEF HostRuns, TypeOK
  <2> QED
    BY <1>4, <2>1 DEF HostRuns, AnswerToCome
<1>5. CASE HostResponds
  <2>1. \E n \in DOMAIN wire' : wire'[n].kind = "response"
    <3>1. PICK f : wire' = Append(wire, f) /\ f.kind = "response"
      BY <1>5 DEF HostResponds
    <3> QED
      BY <3>1, Appended DEF TypeOK
  <2> QED
    BY <2>1 DEF AnswerToCome
<1> QED
  BY <1>1, <1>2, <1>3, <1>4, <1>5 DEF Next, ClientStep, HostStep

\* Whenever the client blocks in ReadFile, its answer is in the pipe, or the host
\* still owes it, or the read is about to fail.
THEOREM NeverWaitsInVain == Spec => []AnswerToCome
<1>1. Init => AnswerToCome
  BY DEF Init, AnswerToCome
<1> QED
  BY <1>1, AnswerNext, TypeCorrect, PTL DEF Spec

\* A result that the host records is one of those it could still record.
LEMMA RecordsLess ==
  ASSUME TypeOK, NEW i \in Items, NEW r \in Result, HostRuns(i, r)
  PROVE  ToRecord' \subseteq ToRecord /\ ToRecord' # ToRecord
<1>1. outcome[i] \in Seq(Result) /\ outcome' = [outcome EXCEPT ![i] = Append(@, r)]
  BY DEF HostRuns, TypeOK
<1>2. /\ \A j \in Items : \A n \in DOMAIN outcome[j] : n \in DOMAIN outcome'[j]
                                                         /\ outcome'[j][n] = outcome[j][n]
      /\ \E n \in DOMAIN outcome'[i] : outcome'[i][n] = r
  <2>1. outcome'[i] = Append(outcome[i], r) /\ \A j \in Items \ {i} : outcome'[j] = outcome[j]
    BY <1>1 DEF TypeOK
  <2> QED
    BY <1>1, <2>1, Appended
<1>3. \A n \in DOMAIN outcome[i] : Place(outcome[i][n]) # Place(r)
  BY PlacesApart
<1>4. <<i, Place(r)>> \in ToRecord /\ <<i, Place(r)>> \notin ToRecord'
  <2>1. Place(r) \in 4..3 * Children + 3
    BY PlaceType DEF Result
  <2> QED
    BY <1>2, <1>3, <2>1 DEF ToRecord
<1>5. ToRecord' \subseteq ToRecord
  BY <1>2 DEF ToRecord
<1> QED
  BY <1>4, <1>5

LEMMA StepComesNearer ==
  ASSUME TypeOK, Next
  PROVE  \/ Way' < Way
         \/ Way' = Way /\ next' > next
         \/ UNCHANGED <<Way, next>> /\ HostNearer
         \/ UNCHANGED <<Way, next, hostvars>> /\ Len(wire') < Len(wire)
         \/ UNCHANGED <<Way, next, hostvars, wire>> /\ pc = "wait" /\ pc' = "read"
<1> USE DEF counts, hostvars
<1>1. CASE Dispatch \/ Send \/ SendFails \/ Timeout \/ TimeoutInFrame \/ ReadFails
           \/ TakeResponse \/ EndSession
  <2>1. \/ pc = "dispatch" /\ pc' = "send" /\ req' = req
        \/ pc = "dispatch" /\ pc' = "dispatch" /\ req = "py" /\ req' = "ipy"
        \/ pc = "dispatch" /\ pc' = "report" /\ req' = req
        \/ pc = "send" /\ pc' = "wait" /\ req' = req
        \/ pc \in {"send", "wait", "read"} /\ pc' = "dispatch" /\ req = "py" /\ req' = "ipy"
        \/ pc \in {"send", "wait", "read"} /\ pc' = "report" /\ req' = req
        \/ pc = "report" /\ pc' = "done" /\ req' = req
    BY <1>1 DEF Dispatch, Send, SendFails, Timeout, TimeoutInFrame, ReadFails, TakeResponse,
       Receive, EndSession, Fail, NextRequest
  <2> QED
    BY <2>1 DEF Way
<1>2. CASE BeginRead
  BY <1>2 DEF BeginRead, Way
<1>3. CASE TakeNote \/ DropNote \/ HookRaises
  <2>1. /\ pc = "read" /\ pc' = "wait" /\ UNCHANGED <<req, next, hostvars>>
        /\ wire # <<>> /\ wire' = Tail(wire)
    BY <1>3 DEF TakeNote, DropNote, HookRaises, Receive
  <2>2. Len(wire') < Len(wire)
    BY <2>1 DEF TypeOK
  <2> QED
    BY <2>1, <2>2 DEF Way
<1>4. CASE ReportItem
  <2>1. UNCHANGED Way /\ next' = next + 1 /\ next \in Nat
    BY <1>4, ItemsAssumption DEF ReportItem, Way, TypeOK
  <2> QED
    BY <2>1
<1>5. CASE HostStep
  <2>1. UNCHANGED <<pc, req, next>>
    BY <1>5 DEF HostStep, HostRuns, HostResponds, HostDies
  <2>2. HostNearer
    <3>1. ASSUME NEW i \in Items, NEW ph \in Phases[i], NEW o \in Outcomes, NEW t \in Tests,
                 HostRuns(i, [outcome |-> o, phase |-> ph, test |-> t])
          PROVE  HostNearer
      BY <3>1, RecordsLess, RunsType DEF HostNearer
    <3>2. CASE HostResponds \/ HostDies
      BY <3>2 DEF HostResponds, HostDies, HostNearer, ToRecord
    <3> QED
      BY <1>5, <3>1, <3>2 DEF HostStep
  <2> QED
    BY <2>1, <2>2 DEF Way
<1> QED
  BY <1>1, <1>2, <1>3, <1>4, <1>5 DEF Next, ClientStep

\* The order in which every step descends has no endless descent, so the session
\* ends if the client and the host that owes it an answer go on (Ends).
THEOREM NothingGoesBack == Spec => ComesNearer
<1>1. TypeOK /\ [Next]_vars =>
        [\/ Way' < Way
         \/ Way' = Way /\ next' > next
         \/ UNCHANGED <<Way, next>> /\ HostNearer
         \/ UNCHANGED <<Way, next, hostvars>> /\ Len(wire') < Len(wire)
         \/ UNCHANGED <<Way, next, hostvars, wire>> /\ pc = "wait" /\ pc' = "read"]_vars
  BY StepComesNearer
<1> QED
  BY <1>1, TypeCorrect, PTL DEF Spec, ComesNearer
=============================================================================
