------------------------ MODULE RemoteRunRefinement ------------------------
(* RemoteRun implements TestReports: what the client does with requests,     *)
(* frames and responses is, for pytest, one of the few steps of TestReports. *)
EXTENDS RemoteRunProofs

-----------------------------------------------------------------------------
(* Streaming keeps the order in which the host recorded the results. *)

Ordered(s) == \A m, n \in DOMAIN s : m < n => Place(s[m]) < Place(s[n])

\* A notification that will be read tells a later test or phase than every report of its
\* item and than every notification of its item in front of it.
NotesAhead ==
  Waiting =>
    \A n \in DOMAIN wire : wire[n].kind = "note" =>
      /\ \A k \in DOMAIN reports[wire[n].item] :
           Place(reports[wire[n].item][k]) < Place(wire[n].result)
      /\ \A m \in DOMAIN wire :
           m < n /\ wire[m].kind = "note" /\ wire[m].item = wire[n].item =>
             Place(wire[m].result) < Place(wire[n].result)

OrderInv == (\A i \in Items : Ordered(outcome[i])) /\ NotesAhead

LEMMA NoteType ==
  ASSUME TypeOK, NEW n \in DOMAIN wire, wire[n].kind = "note"
  PROVE  wire[n].item \in Items /\ wire[n].result \in Result
<1>1. wire[n] \in Note \cup Response
  BY DEF TypeOK
<1> QED
  BY <1>1 DEF Note, Response

\* A notification is taken from the front of the pipe, so it is the earliest of
\* its item.
LEMMA OrderNote ==
  ASSUME TypeOK, OrderInv, TakeNote \/ DropNote \/ HookRaises
  PROVE  OrderInv'
<1> USE DEF counts, hostvars
<1>1. /\ pc = "read" /\ wire # <<>> /\ wire' = Tail(wire)
      /\ Head(wire).kind = "note" /\ outcome' = outcome
  BY DEF TakeNote, DropNote, HookRaises, Receive
<1>2. /\ 1 \in DOMAIN wire /\ Head(wire) = wire[1]
      /\ \A n \in DOMAIN wire' : n + 1 \in DOMAIN wire /\ wire'[n] = wire[n + 1]
      /\ \A n \in DOMAIN wire' : n \in Nat /\ 1 < n + 1
  <2>1. wire' \in Seq(Frame)
    BY <1>1, ReceiveType
  <2> QED
    BY <1>1, <2>1, ReceiveType
<1> DEFINE i == Head(wire).item
           r == Head(wire).result
<1>3. i \in Items /\ ReportOf(r) \in Report /\ Place(ReportOf(r)) = Place(r)
  BY <1>1, <1>2, NoteType, ReportType
<1>4. reports' = reports \/ Log(i, <<ReportOf(r)>>)
  BY DEF TakeNote, DropNote, HookRaises
<1>5. NotesAhead /\ Waiting
  BY <1>1 DEF OrderInv, Waiting
<1>6. ASSUME NEW n \in DOMAIN wire', wire'[n].kind = "note"
      PROVE  /\ \A k \in DOMAIN reports[wire'[n].item] :
                  Place(reports[wire'[n].item][k]) < Place(wire'[n].result)
             /\ \A m \in DOMAIN wire' :
                  m < n /\ wire'[m].kind = "note" /\ wire'[m].item = wire'[n].item =>
                    Place(wire'[m].result) < Place(wire'[n].result)
             /\ wire'[n].item = i => Place(r) < Place(wire'[n].result)
             /\ wire'[n].item \in Items
  <2>1. n + 1 \in DOMAIN wire /\ wire'[n] = wire[n + 1] /\ wire[n + 1].kind = "note" /\ 1 < n + 1
    BY <1>2, <1>6
  <2>2. /\ \A k \in DOMAIN reports[wire[n + 1].item] :
             Place(reports[wire[n + 1].item][k]) < Place(wire[n + 1].result)
        /\ \A m \in DOMAIN wire :
             m < n + 1 /\ wire[m].kind = "note" /\ wire[m].item = wire[n + 1].item =>
               Place(wire[m].result) < Place(wire[n + 1].result)
    BY <1>5, <2>1 DEF NotesAhead
  <2>3. ASSUME NEW m \in DOMAIN wire', m < n, wire'[m].kind = "note",
               wire'[m].item = wire'[n].item
        PROVE  Place(wire'[m].result) < Place(wire'[n].result)
    <3>1. m + 1 \in DOMAIN wire /\ wire'[m] = wire[m + 1] /\ m + 1 < n + 1
      BY <1>2, <2>3
    <3> QED
      BY <2>1, <2>2, <2>3, <3>1
  <2>4. wire[n + 1].item = i => Place(r) < Place(wire[n + 1].result)
    BY <1>1, <1>2, <2>1, <2>2
  <2>5. wire[n + 1].item \in Items
    BY <2>1, NoteType
  <2> QED
    BY <2>1, <2>2, <2>3, <2>4, <2>5
<1> HIDE DEF i, r
<1>7. ASSUME NEW n \in DOMAIN wire', wire'[n].kind = "note",
             NEW k \in DOMAIN reports'[wire'[n].item]
      PROVE  Place(reports'[wire'[n].item][k]) < Place(wire'[n].result)
  <2>1. CASE reports' = reports
    BY <1>6, <1>7, <2>1
  <2>2. CASE Log(i, <<ReportOf(r)>>) /\ wire'[n].item # i
    <3>1. reports'[wire'[n].item] = reports[wire'[n].item]
      BY <1>3, <1>6, <1>7, <2>2 DEF Log, TypeOK
    <3> QED
      BY <1>6, <1>7, <3>1
  <2>3. CASE Log(i, <<ReportOf(r)>>) /\ wire'[n].item = i
    <3>1. (k \in DOMAIN reports[i] /\ reports'[i][k] = reports[i][k]) \/ reports'[i][k] = ReportOf(r)
      BY <1>3, <1>7, <2>3, LogOne
    <3> QED
      BY <1>3, <1>6, <1>7, <2>3, <3>1
  <2> QED
    BY <1>4, <2>1, <2>2, <2>3
<1>8. NotesAhead'
  BY <1>6, <1>7 DEF NotesAhead
<1> QED
  BY <1>1, <1>8 DEF OrderInv

\* The host records, and tells, a later test or phase than all it has recorded.
LEMMA OrderRuns ==
  ASSUME TypeOK, OnceInv, TruthInv, OrderInv, NEW i \in Items, NEW r \in Result, HostRuns(i, r)
  PROVE  OrderInv'
<1> USE DEF counts
<1>1. /\ outcome[i] \in Seq(Result) /\ outcome'[i] = Append(outcome[i], r)
      /\ \A j \in Items : j # i => outcome'[j] = outcome[j]
      /\ UNCHANGED <<pc, reports>>
  BY DEF HostRuns, TypeOK
<1>2. \A x : Recorded(i, x) => Place(x) < Place(r)
  BY DEF Recorded, HostRuns
<1>3. Ordered(outcome'[i])
  <2>1. \A m \in DOMAIN outcome'[i] :
          \/ m \in DOMAIN outcome[i] /\ m <= Len(outcome[i]) /\ outcome'[i][m] = outcome[i][m]
          \/ m = Len(outcome[i]) + 1 /\ outcome'[i][m] = r
    BY <1>1
  <2>2. \A m \in DOMAIN outcome[i] : Place(outcome[i][m]) < Place(r)
    BY DEF HostRuns
  <2>3. Len(outcome[i]) \in Nat /\ DOMAIN outcome'[i] \subseteq Nat
    BY <1>1
  <2> QED
    BY <2>1, <2>2, <2>3 DEF OrderInv, Ordered
<1> DEFINE f == [req |-> job, kind |-> "note", item |-> i, result |-> r]
<1>4. f.kind = "note" /\ f.item = i /\ f.result = r
  OBVIOUS
<1>5. wire' = Append(wire, f) \/ wire' = wire
  BY DEF HostRuns
<1> HIDE DEF f
<1>6. \A n \in DOMAIN wire' :
        \/ n \in DOMAIN wire /\ n <= Len(wire) /\ wire'[n] = wire[n]
        \/ n = Len(wire) + 1 /\ wire'[n] = f
  <2>1. wire \in Seq(Frame) /\ DOMAIN wire = 1..Len(wire) /\ Len(wire) \in Nat
    BY DEF TypeOK, Frame
  <2>2. CASE wire' = Append(wire, f)
    BY <2>1, <2>2
  <2> QED
    BY <1>5, <2>1, <2>2
<1>7. Len(wire) \in Nat /\ DOMAIN wire' \subseteq Nat
  BY <1>5 DEF TypeOK
<1>8. Waiting => \A k \in DOMAIN reports[i] : Place(reports[i][k]) < Place(r)
  <2> SUFFICES ASSUME Waiting, NEW k \in DOMAIN reports[i]
               PROVE  Place(reports[i][k]) < Place(r)
    OBVIOUS
  <2>1. PICK x \in Result : Recorded(i, x) /\ reports[i][k] = ReportOf(x)
    BY DEF OnceInv, BatchNew, Waiting, TruthInv, ReportsTrue
  <2> QED
    BY <1>2, <2>1, ReportType
<1>9. \A n \in DOMAIN wire : wire[n].kind = "note" /\ wire[n].item = i =>
        Place(wire[n].result) < Place(r)
  BY <1>2 DEF TruthInv, WireTrue, FrameRecorded
<1>10. NotesAhead'
  <2> SUFFICES ASSUME Waiting, NEW n \in DOMAIN wire', wire'[n].kind = "note"
               PROVE  /\ \A k \in DOMAIN reports[wire'[n].item] :
                           Place(reports[wire'[n].item][k]) < Place(wire'[n].result)
                      /\ \A m \in DOMAIN wire' :
                           m < n /\ wire'[m].kind = "note" /\ wire'[m].item = wire'[n].item =>
                             Place(wire'[m].result) < Place(wire'[n].result)
    BY <1>1 DEF NotesAhead, Waiting
  <2>1. CASE n \in DOMAIN wire /\ n <= Len(wire) /\ wire'[n] = wire[n]
    <3>1. \A m \in DOMAIN wire' : m < n => m \in DOMAIN wire /\ wire'[m] = wire[m]
      BY <1>6, <1>7, <2>1
    <3> QED
      BY <2>1, <3>1 DEF OrderInv, NotesAhead
  <2>2. CASE n = Len(wire) + 1 /\ wire'[n] = f
    <3>1. \A m \in DOMAIN wire' : m < n => m \in DOMAIN wire /\ wire'[m] = wire[m]
      BY <1>6, <1>7, <2>2
    <3> QED
      BY <1>4, <1>8, <1>9, <2>2, <3>1
  <2> QED
    BY <1>6, <2>1, <2>2
<1> QED
  BY <1>1, <1>3, <1>10 DEF OrderInv

LEMMA OrderNext ==
  ASSUME TypeOK, FramesInv, TruthInv, OnceInv, OrderInv, [Next]_vars
  PROVE  OrderInv'
<1> USE DEF counts, hostvars
<1>1. CASE \/ Dispatch \/ SendFails \/ Timeout \/ TimeoutInFrame \/ ReadFails \/ TakeResponse
           \/ ReportItem \/ EndSession
  <2>1. outcome' = outcome /\ pc' \notin {"wait", "read"}
    BY <1>1 DEF Dispatch, SendFails, Timeout, TimeoutInFrame, ReadFails, TakeResponse,
       ReportItem, EndSession, Fail, NextRequest
  <2> QED
    BY <2>1 DEF OrderInv, NotesAhead, Waiting
<1>2. CASE Send
  <2>1. wire' = <<>> /\ DOMAIN wire' = {} /\ outcome' = outcome
    BY <1>2 DEF Send, FramesInv, Quiet
  <2> QED
    BY <2>1 DEF OrderInv, NotesAhead
<1>3. CASE BeginRead \/ HostDies \/ UNCHANGED vars
  <2>1. UNCHANGED <<outcome, reports, wire>> /\ (pc' = pc \/ (pc = "wait" /\ pc' = "read"))
    BY <1>3 DEF BeginRead, HostDies, vars
  <2> QED
    BY <2>1 DEF OrderInv, NotesAhead, Waiting
<1>4. CASE TakeNote \/ DropNote \/ HookRaises
  BY <1>4, OrderNote
<1>5. ASSUME NEW i \in Items, NEW ph \in Phases[i], NEW o \in Outcomes, NEW t \in Tests,
             HostRuns(i, [outcome |-> o, phase |-> ph, test |-> t])
      PROVE  OrderInv'
  <2>1. [outcome |-> o, phase |-> ph, test |-> t] \in Result
    BY RunsType
  <2> QED
    BY <1>5, <2>1, OrderRuns
<1>6. CASE HostResponds
  <2>1. PICK f : wire' = Append(wire, f) /\ f.kind = "response"
    BY <1>6 DEF HostResponds
  <2>2. \A n \in DOMAIN wire' : (n \in DOMAIN wire /\ wire'[n] = wire[n]) \/ wire'[n] = f
    BY <2>1 DEF TypeOK
  <2>3. UNCHANGED <<outcome, reports, pc>>
    BY <1>6 DEF HostResponds
  <2>4. ASSUME NEW n \in DOMAIN wire', wire'[n].kind = "note"
        PROVE  n \in DOMAIN wire /\ wire'[n] = wire[n]
    BY <2>1, <2>2, <2>4
  <2> QED
    BY <2>3, <2>4 DEF OrderInv, NotesAhead, Waiting
<1> QED
  BY <1>1, <1>2, <1>3, <1>4, <1>5, <1>6 DEF Next, ClientStep, HostStep

LEMMA OrderInvariant == Spec => []OrderInv
<1>1. Init => OrderInv
  BY DEF Init, OrderInv, Ordered, NotesAhead, Waiting, NoResults
<1> QED
  BY <1>1, OrderNext, TypeCorrect, FramesInvariant, TruthInvariant, OnceInvariant, PTL DEF Spec

-----------------------------------------------------------------------------
(* The steps. *)

\* pytest has counted a failure after new reports if it had before, or if one of
\* them is one.
LEMMA LogRed ==
  ASSUME TypeOK, NEW i \in Items, NEW new \in Seq(Report), Log(i, new)
  PROVE  failures' > 0 <=> failures > 0 \/ \E n \in DOMAIN new : new[n] \in Failing
<1> DEFINE S == {n \in DOMAIN new : Counts(new[n])}
<1>1. DOMAIN new = 1..Len(new) /\ Len(new) \in Nat /\ \A n \in DOMAIN new : new[n] \in Report
  OBVIOUS
<1>2. S \in SUBSET (1..Len(new)) /\ IsFiniteSet(1..Len(new))
  BY <1>1, FS_Interval
<1>3. IsFiniteSet(S)
  BY <1>2, FS_Subset
<1>4. Cardinality(S) \in Nat /\ (Cardinality(S) = 0 <=> S = {})
  BY <1>3, FS_CardinalityType, FS_EmptySet
<1>5. S # {} <=> \E n \in DOMAIN new : new[n] \in Failing
  BY <1>1 DEF Failing
<1>6. failures' = failures + Cardinality(S) /\ failures \in Nat
  BY DEF Log, TypeOK
<1> HIDE DEF S
<1> QED
  BY <1>4, <1>5, <1>6

LEMMA LogTells ==
  ASSUME TypeOK, NEW i \in Items, NEW new \in Seq(Report), Log(i, new)
  PROVE  Owed!Tell(i, new)
<1>1. reports' = [reports EXCEPT ![i] = @ \o new]
  BY DEF Log
<1>2. (failures' > 0) = ((failures > 0) \/ \E n \in DOMAIN new : new[n] \in Failing)
  BY LogRed
<1> QED
  BY <1>1, <1>2, Zenon DEF Owed!Tell

\* A notification that becomes a report.
LEMMA NoteStreams ==
  ASSUME TypeOK, TruthInv, OrderInv, pc = "read", wire # <<>>, Head(wire).kind = "note",
         Log(Head(wire).item, <<ReportOf(Head(wire).result)>>),
         streamed' \in {streamed, streamed \cup {Head(wire).item}},
         pc' = "wait", UNCHANGED <<outcome, next>>
  PROVE  \E i \in Items : Owed!Stream(i)
<1>1. 1 \in DOMAIN wire /\ Head(wire) = wire[1]
  BY ReceiveType
<1> DEFINE i == Head(wire).item
           r == Head(wire).result
<1>2. i \in Items /\ r \in Result /\ Recorded(i, r)
  BY <1>1, NoteType DEF TruthInv, WireTrue, FrameRecorded
<1>3. PICK n \in DOMAIN outcome[i] : outcome[i][n] = r
  BY <1>2 DEF Recorded
<1>4. outcome[i] \in Seq(Result)
  BY <1>2 DEF TypeOK
<1>5. \A k \in DOMAIN reports[i] : Place(reports[i][k]) < Place(r)
  BY <1>1 DEF OrderInv, NotesAhead, Waiting
<1> HIDE DEF i, r
<1>6. ASSUME NEW k \in DOMAIN reports[i], NEW m \in DOMAIN outcome[i],
             reports[i][k] = Translation[outcome[i][m]]
      PROVE  m < n
  <2>1. outcome[i][m] \in Result /\ m \in Nat /\ n \in Nat
    BY <1>3, <1>4
  <2>2. Place(reports[i][k]) = Place(outcome[i][m])
    BY <1>6, <2>1, ReportType DEF Translation
  <2>3. Place(outcome[i][m]) < Place(outcome[i][n])
    BY <1>3, <1>5, <2>2
  <2>4. Place(outcome[i][m]) \in Nat /\ Place(outcome[i][n]) \in Nat
    BY <1>3, <1>2, <2>1, PlaceType, ItemsAssumption DEF Result
  <2>5. n < m => Place(outcome[i][n]) < Place(outcome[i][m])
    BY <1>2 DEF OrderInv, Ordered
  <2> QED
    BY <2>1, <2>3, <2>4, <2>5
<1>7. Translation[outcome[i][n]] = ReportOf(r)
  BY <1>2, <1>3 DEF Translation
<1>8. <<ReportOf(r)>> \in Seq(Report)
  BY <1>2, ReportType
<1>9. Owed!Tell(i, <<Translation[outcome[i][n]]>>)
  BY <1>2, <1>7, <1>8, LogTells DEF i, r
<1>10. Stage = "running" /\ Stage' = "running"
  BY DEF Stage
<1> QED
  BY <1>2, <1>3, <1>6, <1>9, <1>10 DEF Owed!Stream, i

\* The next item of the batch loop.
LEMMA ItemSettles ==
  ASSUME TypeOK, GreenInv, ReportItem
  PROVE  Owed!Settle
<1>1. /\ next \in Items /\ next <= N /\ next' = next + 1 /\ pc = "report" /\ pc' = "report"
      /\ UNCHANGED <<outcome, streamed>>
  BY ItemsAssumption DEF ReportItem, TypeOK, Items, hostvars
<1>2. Log(next, BatchReports(next)) /\ BatchReports(next) \in Seq(Report)
  BY <1>1, BatchType DEF ReportItem
<1>3. Owed!Tell(next, BatchReports(next))
  BY <1>1, <1>2, LogTells
<1>4. next \in streamed => UNCHANGED <<reports, failures>>
  <2> SUFFICES ASSUME next \in streamed PROVE UNCHANGED <<reports, failures>>
    OBVIOUS
  <2>1. BatchReports(next) = <<>>
    BY DEF BatchReports
  <2>2. reports' = reports
    BY <1>1, <1>2, <2>1 DEF Log, TypeOK
  <2>3. {n \in DOMAIN <<>> : Counts(<<>>[n])} = {} /\ Cardinality({}) = 0
    BY FS_EmptySet
  <2>4. failures' = failures
    BY <1>2, <2>1, <2>3 DEF Log, TypeOK
  <2> QED
    BY <2>2, <2>4
<1>5. next \notin streamed => BatchReports(next) \in {<<ErrorReport>>, Owed!All(next)} \ {<<>>}
  <2> SUFFICES ASSUME next \notin streamed
               PROVE  BatchReports(next) \in {<<ErrorReport>>, Owed!All(next)} \ {<<>>}
    OBVIOUS
  <2>1. BatchReports(next) # <<>>
    BY <1>1, BatchNotEmpty
  <2>2. CASE failed \/ results[next] = <<>>
    BY <2>1, <2>2 DEF BatchReports
  <2>3. CASE ~failed /\ results[next] # <<>>
    <3>1. results[next] = outcome[next] /\ outcome[next] \in Seq(Result)
      BY <1>1, <2>3 DEF GreenInv, TypeOK
    <3>2. BatchReports(next) = [n \in DOMAIN outcome[next] |-> ReportOf(outcome[next][n])]
      <4>1. BatchReports(next) = [n \in 1..Len(results[next]) |-> ReportOf(results[next][n])]
        BY <2>3 DEF BatchReports
      <4>2. DOMAIN outcome[next] = 1..Len(outcome[next])
        BY <3>1
      <4> QED
        BY <3>1, <4>1, <4>2
    <3>3. \A n \in DOMAIN outcome[next] :
            Translation[outcome[next][n]] = ReportOf(outcome[next][n])
      BY <3>1 DEF Translation
    <3> QED
      BY <2>1, <3>2, <3>3 DEF Owed!All
  <2> QED
    BY <2>2, <2>3
<1>6. Stage = "settling" /\ Stage' = "settling"
  BY <1>1 DEF Stage
<1> QED
  BY <1>1, <1>3, <1>4, <1>5, <1>6 DEF Owed!Settle

\* The client and the host, seen as TestReports: every step is one of its steps or
\* changes nothing that TestReports sees.
LEMMA OwedStep ==
  ASSUME TypeOK, TruthInv, OrderInv, GreenInv, [Next]_vars
  PROVE  [Owed!Next]_(Owed!vars)
<1> USE DEF counts, hostvars
<1>1. CASE Dispatch \/ SendFails \/ Timeout \/ TimeoutInFrame \/ ReadFails
  <2>1. /\ pc \notin {"report", "done"} /\ pc' # "done"
        /\ UNCHANGED <<outcome, reports, streamed, failures, next>>
    BY <1>1 DEF Dispatch, SendFails, Timeout, TimeoutInFrame, ReadFails, Fail, NextRequest
  <2>2. Stage = "running" /\ Stage' \in {"running", "settling"}
    BY <2>1 DEF Stage
  <2>3. Owed!Answer
    BY <2>1, <2>2 DEF Owed!Answer
  <2> QED
    BY <2>3 DEF Owed!Next
<1>2. CASE TakeResponse
  <2>1. /\ pc = "read" /\ pc' \in {"dispatch", "report"}
        /\ UNCHANGED <<outcome, reports, streamed, next>>
    BY <1>2 DEF TakeResponse, Receive, NextRequest
  <2>2. Stage = "running" /\ Stage' \in {"running", "settling"}
    BY <2>1 DEF Stage
  <2>3. (failures' > 0) = (failures > 0) \/ (failures' > 0) = TRUE
    BY <1>2 DEF TakeResponse, Updated, TypeOK
  <2>4. Owed!Answer
    BY <2>1, <2>2, <2>3, Zenon DEF Owed!Answer
  <2> QED
    BY <2>4 DEF Owed!Next
<1>3. CASE Send \/ BeginRead \/ DropNote \/ HostResponds \/ HostDies \/ UNCHANGED vars
  <2>1. /\ pc' = pc \/ {pc, pc'} \cap {"report", "done"} = {}
        /\ UNCHANGED <<outcome, reports, streamed, failures, next>>
    BY <1>3 DEF Send, BeginRead, DropNote, HostResponds, HostDies, Receive, vars
  <2>2. Stage' = Stage
    BY <2>1 DEF Stage
  <2> QED
    BY <2>1, <2>2 DEF Owed!vars
<1>4. CASE TakeNote \/ HookRaises
  <2>1. /\ pc = "read" /\ wire # <<>> /\ Head(wire).kind = "note"
        /\ pc' = "wait" /\ UNCHANGED <<outcome, next>>
    BY <1>4 DEF TakeNote, HookRaises, Receive
  <2>2. \/ UNCHANGED counts
        \/ /\ Log(Head(wire).item, <<ReportOf(Head(wire).result)>>)
           /\ streamed' \in {streamed, streamed \cup {Head(wire).item}}
    BY <1>4 DEF TakeNote, HookRaises
  <2>3. CASE UNCHANGED counts
    <3>1. Stage' = Stage
      BY <2>1 DEF Stage
    <3> QED
      BY <2>1, <2>3, <3>1 DEF Owed!vars
  <2>4. CASE /\ Log(Head(wire).item, <<ReportOf(Head(wire).result)>>)
             /\ streamed' \in {streamed, streamed \cup {Head(wire).item}}
    BY <2>1, <2>4, NoteStreams DEF Owed!Next, Owed!Items, Items
  <2> QED
    BY <2>2, <2>3, <2>4
<1>5. CASE ReportItem
  BY <1>5, ItemSettles DEF Owed!Next
<1>6. CASE EndSession
  <2>1. /\ pc = "report" /\ pc' = "done" /\ (next > N \/ (MaxFail > 0 /\ failures > 0))
        /\ UNCHANGED <<outcome, reports, streamed, failures, next>>
    BY <1>6, OptionsAssumption DEF EndSession, ShouldFail, TypeOK
  <2>2. Stage = "settling" /\ Stage' = "over"
    BY <2>1 DEF Stage
  <2>3. Owed!End
    BY <2>1, <2>2 DEF Owed!End
  <2> QED
    BY <2>3 DEF Owed!Next
<1>7. ASSUME NEW i \in Items, NEW ph \in Phases[i], NEW o \in Outcomes, NEW t \in Tests,
             HostRuns(i, [outcome |-> o, phase |-> ph, test |-> t])
      PROVE  Owed!Next
  <2> DEFINE r == [outcome |-> o, phase |-> ph, test |-> t]
  <2>1. r \in DOMAIN Translation
    BY RunsType DEF Translation
  <2>2. /\ outcome' = [outcome EXCEPT ![i] = Append(@, r)]
        /\ UNCHANGED <<reports, streamed, failures, next, pc>>
    BY <1>7 DEF HostRuns
  <2>3. Stage' = Stage
    BY <2>2 DEF Stage
  <2>4. Owed!Record(i, r)
    BY <2>2, <2>3 DEF Owed!Record
  <2> QED
    BY <2>1, <2>4 DEF Owed!Next, Owed!Items, Items
<1> QED
  BY <1>1, <1>2, <1>3, <1>4, <1>5, <1>6, <1>7 DEF Next, ClientStep, HostStep

\* Whatever requests, frames, timeouts and failures there are, pytest gets what
\* TestReports owes it: streamed results in the order the host recorded them, then
\* for each other item, in collection order, all of the host's results or one error.
THEOREM ImplementsReports == Spec => OwedSpec
<1>1. Init => Owed!Init
  BY DEF Init, Owed!Init, NoResults, Items, Owed!Items, Stage
<1> QED
  BY <1>1, OwedStep, TypeCorrect, TruthInvariant, OrderInvariant, GreenInvariant, PTL
  DEF Spec, OwedSpec, Owed!Spec
=============================================================================
