------------------------ MODULE DialogResolverProofs ------------------------
(* Theorems about DialogResolver: any dialogs, buttons, texts and keywords. *)
EXTENDS DialogResolver, WellFoundedInduction, TLAPS

\* A click is sent to a button.
HasTarget == pc \in {"sent", "pressed"} => target \in Buttons

Typed == TypeOK /\ HasTarget

-----------------------------------------------------------------------------
(* Types. *)

\* What windows and buttons are.
DesktopOK ==
  /\ dialog \in [Windows -> Kinds \cup {"none"}]
  /\ parent \in [Buttons -> Windows \cup {Nothing}]
  /\ text \in [Buttons -> Texts \cup {Nothing}]
  /\ \A b \in Buttons : parent[b] = Nothing <=> text[b] = Nothing
  /\ nested \in Windows \cup {Nothing}

LEMMA OpenType ==
  ASSUME TypeOK, NEW w \in Windows, NEW kind \in Kinds, NEW B \in SUBSET Buttons,
         NEW new \in [B -> Texts], OpenWindow(w, kind, new), nested' \in {w, nested}
  PROVE  DesktopOK' /\ fresh' \subseteq Windows
<1>1. DOMAIN new = B
  OBVIOUS
<1>2. dialog' \in [Windows -> Kinds \cup {"none"}]
  BY DEF TypeOK, OpenWindow
<1>3. parent' \in [Buttons -> Windows \cup {Nothing}]
  BY DEF TypeOK, OpenWindow
<1>4. text' \in [Buttons -> Texts \cup {Nothing}]
  BY <1>1 DEF TypeOK, OpenWindow
<1>5. \A b \in Buttons : parent'[b] = Nothing <=> text'[b] = Nothing
  BY <1>1, HandlesAssumption DEF TypeOK, OpenWindow
<1> QED
  BY <1>2, <1>3, <1>4, <1>5 DEF TypeOK, DesktopOK, OpenWindow

LEMMA CloseType ==
  ASSUME TypeOK, NEW w \in Windows, Close(w)
  PROVE  DesktopOK' /\ pressed' \subseteq Buttons
<1>1. parent' \in [Buttons -> Windows \cup {Nothing}]
  BY DEF TypeOK, Close
<1>2. text' \in [Buttons -> Texts \cup {Nothing}]
  BY DEF TypeOK, Close
<1>3. \A b \in Buttons : parent'[b] = Nothing <=> text'[b] = Nothing
  BY DEF TypeOK, Close
<1> QED
  BY <1>1, <1>2, <1>3 DEF TypeOK, DesktopOK, Close

LEMMA DesktopUnchanged == ASSUME TypeOK, UNCHANGED desktop PROVE DesktopOK'
  BY DEF TypeOK, DesktopOK, desktop

LEMMA InitType == Init => Typed
<1> SUFFICES ASSUME Init PROVE Typed
  OBVIOUS
<1>1. DesktopOK
  BY DEF Init, DesktopOK
<1>2. pc = "unborn" /\ late = 0 /\ todo = {} /\ clicked = {} /\ fresh = {} /\ pressed = {}
  BY DEF Init
<1>3. target = Nothing /\ main = "launched"
  BY DEF Init
<1>4. stop \in BOOLEAN
  BY DEF Init
<1> QED
  BY <1>1, <1>2, <1>3, <1>4 DEF DesktopOK, Typed, TypeOK, HasTarget

LEMMA ThreadType == ASSUME Typed, ThreadStep PROVE Typed'
<1>1. CASE Loop
  BY <1>1 DEF Loop, Typed, TypeOK, HasTarget, session, desktop, history
<1>2. CASE Enumerate
  BY <1>2 DEF Enumerate, Typed, TypeOK, HasTarget, session, desktop
<1>3. ASSUME NEW w \in Windows, Look(w) PROVE Typed'
  <2>1. Best(w) \subseteq Buttons
    BY DEF Best, ButtonsOf
  <2> QED
    BY <1>3, <2>1
    DEF Look, ClickBest, Typed, TypeOK, HasTarget, session, desktop, history
<1>4. CASE EndScan
  BY <1>4 DEF EndScan, Typed, TypeOK, HasTarget, session, desktop
<1>5. CASE Wake
  BY <1>5 DEF Wake, Typed, TypeOK, HasTarget, session, desktop, history
<1> QED
  BY <1>1, <1>2, <1>3, <1>4, <1>5 DEF ThreadStep

LEMMA SessionType == ASSUME Typed, SessionStep PROVE Typed'
<1>1. CASE StartResolver \/ Connect \/ Stop
  BY <1>1
  DEF StartResolver, Connect, Stop, Typed, TypeOK, HasTarget, thread, desktop, history
<1>2. CASE LaunchRaises \/ Exit
  BY <1>2 DEF LaunchRaises, Exit, EndProcess, Typed, TypeOK, HasTarget, desktop
<1> QED
  BY <1>1, <1>2 DEF SessionStep

LEMMA DesktopType == ASSUME Typed, Open \/ CloseWindow PROVE Typed'
<1>1. CASE Open
  <2>1. PICK w \in Windows, kind \in Kinds, B \in SUBSET Buttons :
          \E new \in [B -> Texts] : OpenWindow(w, kind, new)
    BY <1>1 DEF Open
  <2>2. PICK new \in [B -> Texts] : OpenWindow(w, kind, new)
    BY <2>1
  <2>3. DesktopOK' /\ fresh' \subseteq Windows
    BY <1>1, <2>2, OpenType DEF Typed, Open
  <2> QED
    BY <1>1, <2>3 DEF Open, DesktopOK, Typed, TypeOK, HasTarget, thread, session
<1>2. CASE CloseWindow
  <2>1. PICK w \in Windows : Close(w)
    BY <1>2 DEF CloseWindow
  <2>2. DesktopOK' /\ pressed' \subseteq Buttons
    BY <2>1, CloseType DEF Typed
  <2> QED
    BY <1>2, <2>2 DEF CloseWindow, DesktopOK, Typed, TypeOK, HasTarget, thread, session
<1> QED
  BY <1>1, <1>2

LEMMA AnswerType == ASSUME Typed, HostAnswers PROVE Typed'
<1>1. target \in Buttons
  BY DEF HostAnswers, Press, PressOpens, HandlerReturns, Miss, Typed, HasTarget
<1>2. parent[target] # Nothing => parent[target] \in Windows
  BY <1>1 DEF Typed, TypeOK
<1>3. CASE Press
  <2>1. DesktopOK' /\ pressed' \subseteq Buttons
    BY <1>1, <1>2, <1>3, CloseType, DesktopUnchanged DEF Press, Typed, TypeOK
  <2> QED
    BY <1>1, <1>3, <2>1 DEF Press, Remember, DesktopOK, Typed, TypeOK, HasTarget, session
<1>4. CASE PressOpens
  <2>1. PICK w \in Windows, kind \in Kinds \ {"alien"}, B \in SUBSET Buttons :
          \E new \in [B -> Texts] : OpenWindow(w, kind, new) /\ nested' = w
    BY <1>4 DEF PressOpens
  <2>2. PICK new \in [B -> Texts] : OpenWindow(w, kind, new) /\ nested' = w
    BY <2>1
  <2>3. DesktopOK' /\ fresh' \subseteq Windows
    BY <2>2, OpenType DEF Typed
  <2> QED
    BY <1>1, <1>4, <2>3 DEF PressOpens, DesktopOK, Typed, TypeOK, HasTarget, session
<1>5. CASE HandlerReturns
  <2>1. DesktopOK' /\ pressed' \subseteq Buttons
    BY <1>2, <1>5, CloseType, DesktopUnchanged DEF HandlerReturns, Typed, TypeOK
  <2> QED
    BY <1>1, <1>5, <2>1
    DEF HandlerReturns, Remember, DesktopOK, Typed, TypeOK, HasTarget, session
<1>6. CASE Miss
  BY <1>1, <1>6
  DEF Miss, Remember, Typed, TypeOK, HasTarget, session, desktop, history
<1> QED
  BY <1>3, <1>4, <1>5, <1>6 DEF HostAnswers

LEMMA TypeInvariant == Spec => []Typed
<1>1. ASSUME Typed, [Next]_vars PROVE Typed'
  <2>1. CASE UNCHANGED vars
    BY <1>1, <2>1 DEF vars, thread, session, desktop, history, Typed, TypeOK, HasTarget
  <2> QED
    BY <1>1, <2>1, ThreadType, SessionType, DesktopType, AnswerType DEF Next
<1> QED
  BY <1>1, InitType, PTL DEF Spec

\* Every variable keeps its type.
THEOREM TypeCorrect == Spec => []TypeOK
<1>1. Typed => TypeOK
  BY DEF Typed
<1> QED
  BY <1>1, TypeInvariant, PTL

-----------------------------------------------------------------------------
(* What happens after stop. *)

\* Once the dialogs were listed with the event set, the loop ends at its head.
LateInv == late < 2 /\ (late > 0 => stop /\ pc \notin {"enum", "unborn"})

\* After stop was called, the dialogs are listed once more at most.
THEOREM OneMoreScan == Spec => []OneScanAfterStop
<1>1. Init => LateInv
  BY DEF Init, LateInv
<1>2. ASSUME Typed, LateInv, [Next]_vars PROVE LateInv'
  <2> late \in 0..2
    BY <1>2 DEF Typed, TypeOK
  <2>1. CASE ThreadStep
    BY <1>2, <2>1
    DEF ThreadStep, Loop, Enumerate, Look, ClickBest, EndScan, Wake, LateInv, session, history
  <2>2. CASE SessionStep
    BY <1>2, <2>2
    DEF SessionStep, StartResolver, Connect, LaunchRaises, Stop, Exit, EndProcess, LateInv,
        thread, history
  <2>3. CASE Open \/ CloseWindow
    BY <1>2, <2>3 DEF Open, CloseWindow, LateInv, thread, session
  <2>4. CASE HostAnswers
    BY <1>2, <2>4
    DEF HostAnswers, Press, PressOpens, HandlerReturns, Miss, Remember, LateInv, session,
        history
  <2>5. CASE UNCHANGED vars
    BY <1>2, <2>5 DEF vars, thread, session, history, LateInv
  <2> QED
    BY <1>2, <2>1, <2>2, <2>3, <2>4, <2>5 DEF Next
<1>3. LateInv => OneScanAfterStop
  BY DEF LateInv, OneScanAfterStop
<1> QED
  BY <1>1, <1>2, <1>3, TypeInvariant, PTL DEF Spec

-----------------------------------------------------------------------------
(* No button is pressed twice. *)

\* As long as the resolver runs, it remembers what it pressed, but for a click
\* that has not returned.
PressInv ==
  /\ pc # "ended" => pressed \subseteq clicked \cup (IF pc = "pressed" THEN {target} ELSE {})
  /\ pc = "sent" => target \notin clicked

\* No button is pressed twice as long as it exists.
THEOREM PressedOnce == Spec => NoSecondPress
<1>1. Init => PressInv
  BY DEF Init, PressInv
<1>2. ASSUME Typed, PressInv, [Next]_vars PROVE PressInv'
  <2>1. CASE ThreadStep
    BY <1>2, <2>1
    DEF ThreadStep, Loop, Enumerate, Look, ClickBest, EndScan, Wake, PressInv, history
  <2>2. CASE SessionStep
    BY <1>2, <2>2
    DEF SessionStep, StartResolver, Connect, LaunchRaises, Stop, Exit, EndProcess, PressInv,
        thread, history
  <2>3. CASE Open \/ CloseWindow
    <3>1. pressed' \subseteq pressed
      BY <2>3 DEF Open, CloseWindow, Close
    <3> QED
      BY <1>2, <2>3, <3>1 DEF Open, CloseWindow, PressInv, thread
  <2>4. CASE HostAnswers
    <3>1. CASE Press
      <4>1. pressed' \subseteq pressed \cup {target}
        BY <3>1 DEF Press, Close
      <4> QED
        BY <1>2, <3>1, <4>1 DEF Press, Remember, PressInv
    <3>2. CASE PressOpens
      BY <1>2, <3>2 DEF PressOpens, PressInv
    <3>3. CASE HandlerReturns
      <4>1. pressed' \subseteq pressed
        BY <3>3 DEF HandlerReturns, Close
      <4> QED
        BY <1>2, <3>3, <4>1 DEF HandlerReturns, Remember, PressInv
    <3>4. CASE Miss
      BY <1>2, <3>4 DEF Miss, Remember, PressInv, history
    <3> QED
      BY <2>4, <3>1, <3>2, <3>3, <3>4 DEF HostAnswers
  <2>5. CASE UNCHANGED vars
    BY <1>2, <2>5 DEF vars, thread, history, PressInv
  <2> QED
    BY <1>2, <2>1, <2>2, <2>3, <2>4, <2>5 DEF Next
<1>3. PressInv => (Pressing => target \notin pressed)
  BY DEF PressInv, Pressing
<1> QED
  BY <1>1, <1>2, <1>3, TypeInvariant, PTL DEF Spec, NoSecondPress

-----------------------------------------------------------------------------
(* The button that is pressed. *)

\* Only a window that opened after the dialogs were listed can be another
\* process's.
ListedInv ==
  /\ pc \notin {"scan", "sent", "pressed"} => todo = {}
  /\ \A w \in todo : dialog[w] = "alien" => w \in fresh

\* Buttons are in windows that are open.
ParentInv == \A b \in Buttons : parent[b] # Nothing => dialog[parent[b]] # "none"

\* The button a click is sent to stays as it was found; or it is gone, or a new
\* window has its handle.
ChosenInv ==
  pc = "sent" => parent[target] = Nothing \/ parent[target] \in fresh \/ Acceptable(target)

ChoiceInv == ListedInv /\ ParentInv /\ ChosenInv

\* The score puts an equal text before every text that contains a keyword only.
LEMMA BestIsAcceptable ==
  ASSUME Typed, NEW w \in Windows, dialog[w] = "known", NEW b \in Best(w)
  PROVE  Acceptable(b)
<1>1. b \in Buttons /\ parent[b] = w /\ text[b] \in Texts
  BY HandlesAssumption DEF Best, ButtonsOf, Typed, TypeOK
<1>2. text[b] \notin Blocked /\ Within[text[b]] # 0
  BY DEF Best, Clickable
<1>3. ASSUME NEW c \in ButtonsOf(w), text[c] \notin Blocked, Exact[text[c]] # 0
      PROVE  Exact[text[b]] \in 1..Exact[text[c]]
  <2>1. text[c] \in Texts
    BY <1>3, HandlesAssumption DEF ButtonsOf, Typed, TypeOK
  <2>2. /\ Exact[text[b]] \in 0..K /\ Within[text[b]] \in 0..K
        /\ Exact[text[c]] \in 0..K /\ Within[text[c]] # 0
    BY <1>1, <1>3, <2>1, TextsAssumption
  <2>3. Score(text[b]) <= Exact[text[c]]
    BY <1>3, <2>2 DEF Best, Clickable, Score
  <2> QED
    BY <1>2, <1>3, <2>2, <2>3, TextsAssumption DEF Score
<1> QED
  BY <1>1, <1>2, <1>3 DEF Acceptable

\* Another window's coming or going changes nothing for a button.
LEMMA AcceptableKept ==
  ASSUME Typed, NEW b \in Buttons, NEW w \in Windows, parent[b] = w,
         Acceptable(b),
         dialog'[w] = dialog[w], parent'[b] = w,
         \A c \in Buttons : parent'[c] = w => parent[c] = w,
         \A c \in Buttons : parent[c] = w => text'[c] = text[c]
  PROVE  Acceptable(b)'
  BY DEF Acceptable, ButtonsOf

LEMMA OpenKeepsChoice ==
  ASSUME Typed, ParentInv, NEW w \in Windows, NEW kind \in Kinds, NEW B \in SUBSET Buttons,
         NEW new \in [B -> Texts], OpenWindow(w, kind, new)
  PROVE  /\ ParentInv'
         /\ fresh \subseteq fresh' /\ (pc \in {"scan", "sent", "pressed"} => w \in fresh')
         /\ \A v \in Windows \ {w} : dialog'[v] = dialog[v]
         /\ \A b \in Buttons : parent'[b] # parent[b] => parent'[b] = w /\ parent[b] = Nothing
         /\ \A b \in Buttons : text'[b] # text[b] => parent'[b] = w /\ parent[b] = Nothing
<1>1. DOMAIN new = B
  OBVIOUS
<1>2. /\ \A v \in Windows \ {w} : dialog'[v] = dialog[v]
      /\ dialog'[w] # "none"
  BY DEF OpenWindow, Kinds, Typed, TypeOK
<1>3. /\ \A b \in Buttons : parent'[b] # parent[b] => parent'[b] = w /\ parent[b] = Nothing
      /\ \A b \in Buttons : text'[b] # text[b] => parent'[b] = w /\ parent[b] = Nothing
  BY <1>1 DEF OpenWindow
<1>4. ParentInv'
  BY <1>2, <1>3 DEF ParentInv, Typed, TypeOK
<1> QED
  BY <1>2, <1>3, <1>4 DEF OpenWindow

LEMMA OpenKeepsAcceptable ==
  ASSUME Typed, ParentInv, NEW w \in Windows, NEW kind \in Kinds, NEW B \in SUBSET Buttons,
         NEW new \in [B -> Texts], OpenWindow(w, kind, new),
         NEW b \in Buttons, parent[b] # Nothing, Acceptable(b)
  PROVE  parent'[b] = parent[b] /\ Acceptable(b)'
<1>1. parent[b] \in Windows /\ parent[b] # w
  BY DEF Typed, TypeOK, ParentInv, OpenWindow
<1> QED
  BY <1>1, OpenKeepsChoice, AcceptableKept, HandlesAssumption

LEMMA CloseKeepsChoice ==
  ASSUME Typed, ParentInv, NEW w \in Windows, Close(w)
  PROVE  /\ ParentInv'
         /\ \A v \in Windows : dialog'[v] \in {dialog[v], "none"}
<1>1. /\ \A v \in Windows : dialog'[v] = IF v = w THEN "none" ELSE dialog[v]
      /\ \A b \in Buttons : parent'[b] = IF parent[b] = w THEN Nothing ELSE parent[b]
  BY DEF Close, Typed, TypeOK
<1> QED
  BY <1>1, HandlesAssumption DEF ParentInv, Typed, TypeOK

LEMMA CloseKeepsAcceptable ==
  ASSUME Typed, NEW w \in Windows, Close(w), NEW b \in Buttons, parent[b] # Nothing,
         Acceptable(b)
  PROVE  parent'[b] = Nothing \/ (parent'[b] = parent[b] /\ Acceptable(b)')
<1>1. CASE parent[b] = w
  BY <1>1 DEF Close
<1>2. CASE parent[b] # w
  <2>1. /\ parent[b] \in Windows /\ parent'[b] = parent[b] /\ dialog'[parent[b]] = dialog[parent[b]]
        /\ \A c \in Buttons : parent'[c] = parent[b] => parent[c] = parent[b]
        /\ \A c \in Buttons : parent[c] = parent[b] => text'[c] = text[c]
    BY <1>2, HandlesAssumption DEF Close, Typed, TypeOK
  <2> QED
    BY <2>1, AcceptableKept
<1> QED
  BY <1>1, <1>2

LEMMA LookChooses ==
  ASSUME Typed, ChoiceInv, NEW w \in Windows, Look(w)
  PROVE  ChoiceInv'
<1>1. UNCHANGED <<dialog, parent, text, fresh>> /\ w \in todo
  BY DEF Look, desktop, history
<1>2. ListedInv' /\ ParentInv'
  BY <1>1 DEF ChoiceInv, ListedInv, ParentInv, Look, ClickBest
<1>3. ASSUME pc' = "sent"
      PROVE  parent[target'] \in fresh \/ Acceptable(target')
  <2>1. target' \in Best(w) /\ dialog[w] \in {"known", "alien"}
    BY <1>3 DEF Look, ClickBest, Whitelisted
  <2>2. parent[target'] = w
    BY <2>1 DEF Best, ButtonsOf
  <2> QED
    BY <1>1, <2>1, <2>2, BestIsAcceptable DEF ChoiceInv, ListedInv
<1>4. ChosenInv'
  BY <1>1, <1>3 DEF ChosenInv, Acceptable, ButtonsOf
<1> QED
  BY <1>2, <1>4 DEF ChoiceInv

\* A button that is pressed is the best one of a dialog of the host, or in a
\* window that opened after the dialogs were listed.
THEOREM PressedWell == Spec => PressedAsChosen
<1>1. Init => ChoiceInv
  BY DEF Init, ChoiceInv, ListedInv, ParentInv, ChosenInv
<1>2. ASSUME Typed, ChoiceInv, [Next]_vars PROVE ChoiceInv'
  <2> USE <1>2
  <2>1. CASE Loop \/ Enumerate \/ EndScan \/ Wake
    <3>1. UNCHANGED desktop /\ pc' # "sent"
      BY <2>1 DEF Loop, Enumerate, EndScan, Wake
    <3>2. ListedInv'
      BY <2>1, <3>1
      DEF Loop, Enumerate, EndScan, Wake, history, desktop, ChoiceInv, ListedInv
    <3> QED
      BY <3>1, <3>2 DEF desktop, ChoiceInv, ParentInv, ChosenInv
  <2>2. ASSUME NEW w \in Windows, Look(w) PROVE ChoiceInv'
    BY <2>2, LookChooses
  <2>3. CASE SessionStep
    <3>1. UNCHANGED desktop
      BY <2>3
      DEF SessionStep, StartResolver, Connect, LaunchRaises, Stop, Exit, EndProcess
    <3>2. \/ UNCHANGED <<todo, target, fresh>> /\ (pc' = pc \/ (pc = "unborn" /\ pc' = "check"))
          \/ pc' = "ended" /\ todo' = {}
      BY <2>3
      DEF SessionStep, StartResolver, Connect, LaunchRaises, Stop, Exit, EndProcess, thread,
          history
    <3> QED
      BY <3>1, <3>2
      DEF desktop, ChoiceInv, ListedInv, ParentInv, ChosenInv, Acceptable, ButtonsOf
  <2>4. ASSUME Open \/ PressOpens PROVE ChoiceInv'
    <3>1. PICK w \in Windows, kind \in Kinds, B \in SUBSET Buttons :
            \E new \in [B -> Texts] : OpenWindow(w, kind, new)
      BY <2>4 DEF Open, PressOpens
    <3>2. PICK new \in [B -> Texts] : OpenWindow(w, kind, new)
      BY <3>1
    <3>3. UNCHANGED <<todo, target>> /\ (pc' = pc \/ (pc = "sent" /\ pc' = "pressed"))
      BY <2>4 DEF Open, PressOpens, thread
    <3>4. ParentInv'
      BY <3>2, OpenKeepsChoice DEF ChoiceInv
    <3>5. ListedInv'
      BY <3>2, <3>3, OpenKeepsChoice DEF ChoiceInv, ListedInv, Typed, TypeOK
    <3>6. ASSUME pc' = "sent"
          PROVE  parent'[target] = Nothing \/ parent'[target] \in fresh' \/ Acceptable(target)'
      <4>1. pc = "sent" /\ target \in Buttons
        BY <3>3, <3>6 DEF Typed, HasTarget
      <4>2. CASE parent[target] = Nothing
        BY <3>2, <4>1, <4>2, OpenKeepsChoice DEF ChoiceInv
      <4>3. CASE parent[target] # Nothing /\ parent[target] \in fresh
        BY <3>2, <4>1, <4>3, OpenKeepsChoice DEF ChoiceInv
      <4>4. CASE parent[target] # Nothing /\ Acceptable(target)
        <5>1. PICK b \in Buttons : b = target /\ b = target'
          BY <3>3, <4>1
        <5>2. Acceptable(b)'
          BY <3>2, <4>4, <5>1, OpenKeepsAcceptable DEF ChoiceInv
        <5> QED
          BY <5>1, <5>2 DEF Acceptable, ButtonsOf
      <4> QED
        BY <4>1, <4>2, <4>3, <4>4 DEF ChoiceInv, ChosenInv
    <3>7. ChosenInv'
      BY <3>3, <3>6 DEF ChosenInv
    <3> QED
      BY <3>4, <3>5, <3>7 DEF ChoiceInv
  <2>5. ASSUME CloseWindow \/ Press \/ HandlerReturns \/ Miss PROVE ChoiceInv'
    <3>1. \/ UNCHANGED desktop
          \/ \E w \in Windows : Close(w)
      BY <2>5 DEF CloseWindow, Press, HandlerReturns, Miss, desktop, Typed, TypeOK, HasTarget
    <3>2. ParentInv' /\ \A v \in Windows : dialog'[v] \in {dialog[v], "none"}
      BY <3>1, CloseKeepsChoice DEF ChoiceInv, desktop, ParentInv
    <3>3. /\ fresh' = fresh /\ todo' = todo
          /\ \/ pc' = pc /\ target' = target /\ \E w \in Windows : Close(w)
             \/ pc' = "scan" /\ pc \in {"sent", "pressed"}
      BY <2>5
      DEF CloseWindow, Press, HandlerReturns, Miss, Remember, thread, history
    <3>4. ListedInv'
      BY <3>2, <3>3 DEF ChoiceInv, ListedInv, Typed, TypeOK
    <3>5. ASSUME pc' = "sent"
          PROVE  parent'[target] = Nothing \/ parent'[target] \in fresh' \/ Acceptable(target)'
      <4>1. PICK w \in Windows : Close(w)
        BY <3>3, <3>5
      <4>2. pc = "sent" /\ target \in Buttons
        BY <3>3, <3>5 DEF Typed, HasTarget
      <4>3. parent'[target] \in {parent[target], Nothing}
        BY <4>1, <4>2 DEF Close
      <4>4. CASE parent[target] = Nothing \/ parent[target] \in fresh
        BY <3>3, <4>3, <4>4
      <4>5. CASE parent[target] # Nothing /\ Acceptable(target)
        <5>1. PICK b \in Buttons : b = target /\ b = target'
          BY <3>3, <3>5, <4>2
        <5>2. parent'[b] = Nothing \/ Acceptable(b)'
          BY <4>1, <4>5, <5>1, CloseKeepsAcceptable
        <5> QED
          BY <5>1, <5>2 DEF Acceptable, ButtonsOf
      <4> QED
        BY <4>2, <4>4, <4>5 DEF ChoiceInv, ChosenInv
    <3>6. ChosenInv'
      BY <3>3, <3>5 DEF ChosenInv
    <3> QED
      BY <3>2, <3>4, <3>6 DEF ChoiceInv
  <2>6. CASE UNCHANGED vars
    BY <2>6
    DEF vars, thread, desktop, history, ChoiceInv, ListedInv, ParentInv, ChosenInv, Acceptable,
        ButtonsOf
  <2> QED
    BY <2>1, <2>2, <2>3, <2>4, <2>5, <2>6 DEF Next, ThreadStep, HostAnswers
<1>3. ChoiceInv => (Pressing => Acceptable(target) \/ parent[target] \in fresh)
  BY DEF ChoiceInv, ChosenInv, Pressing
<1> QED
  BY <1>1, <1>2, <1>3, TypeInvariant, PTL DEF Spec, PressedAsChosen

-----------------------------------------------------------------------------
(* A scan leaves no dialog out. *)

LEMMA MinimalNumber ==
  ASSUME NEW R, IsWellFoundedOn(R, Nat), NEW T, T \subseteq Nat, T # {}
  PROVE  \E m \in T : \A n \in T : ~ (<<n, m>> \in R)
  BY WFMin

LEMMA LeastByRelation ==
  ASSUME NEW R, IsWellFoundedOn(R, Nat), \A m, n \in Nat : m < n => <<m, n>> \in R,
         NEW T, T \subseteq Nat, T # {}
  PROVE  \E m \in T : \A n \in T : m <= n
<1>1. PICK m \in T : \A n \in T : ~ (<<n, m>> \in R)
  BY MinimalNumber
<1>2. ASSUME NEW n \in T PROVE m <= n
  <2>1. m \in Nat /\ n \in Nat
    OBVIOUS
  <2>2. ~(n < m)
    BY <1>1, <2>1
  <2> QED
    BY <2>1, <2>2
<1> QED
  BY <1>2

LEMMA LeastNumber ==
  ASSUME NEW T, T \subseteq Nat, T # {}
  PROVE  \E m \in T : \A n \in T : m <= n
<1>1. IsWellFoundedOn(OpToRel(<, Nat), Nat)
  BY NatLessThanWellFounded
<1>2. \A m, n \in Nat : m < n => <<m, n>> \in OpToRel(<, Nat)
  BY DEF OpToRel
<1> QED
  BY <1>1, <1>2, LeastByRelation

\* A dialog with a button that may be clicked has a best one, for there is a least
\* score among them.
LEMMA SomeIsBest ==
  ASSUME Typed, NEW w \in Windows, NEW b \in ButtonsOf(w), Clickable(text[b])
  PROVE  Best(w) # {}
<1> DEFINE C == {c \in ButtonsOf(w) : Clickable(text[c])}
           T == {Score(text[c]) : c \in C}
<1>1. ASSUME NEW c \in C PROVE Score(text[c]) \in Nat
  <2>1. text[c] \in Texts
    BY HandlesAssumption DEF ButtonsOf, Typed, TypeOK
  <2> QED
    BY <2>1, TextsAssumption DEF Score
<1>2. T \subseteq Nat /\ T # {}
  BY <1>1
<1>3. PICK m \in T : \A n \in T : m <= n
  BY <1>2, LeastNumber
<1>4. PICK c \in C : m = Score(text[c])
  BY <1>3
<1>5. c \in Best(w)
  BY <1>3, <1>4 DEF Best
<1> QED
  BY <1>5

\* A dialog that a scan owes a click.
Unserved(v) == Due(v) /\ ~Overlooked(v)

\* A click is only waited for once its button is pressed; and where the button's handle
\* is in use again, the window is a fresh one.
PressedInv ==
  pc = "pressed" /\ parent[target] # Nothing => target \in pressed \/ parent[target] \in fresh

LEMMA PressedStep == ASSUME Typed, PressedInv, [Next]_vars PROVE PressedInv'
<1>1. ASSUME pc = "pressed", pc' = "pressed", target' = target, fresh' = fresh, pressed' = pressed,
             parent' = parent
      PROVE  PressedInv'
  BY <1>1 DEF PressedInv
<1>2. CASE ThreadStep \/ Stop \/ Connect \/ UNCHANGED vars
  BY <1>1, <1>2
  DEF ThreadStep, Loop, Enumerate, Look, ClickBest, EndScan, Wake, Stop, Connect, vars, thread,
      desktop, history, PressedInv
<1>3. CASE StartResolver \/ LaunchRaises \/ Exit
  BY <1>3 DEF StartResolver, LaunchRaises, Exit, EndProcess, PressedInv
<1>4. CASE Press \/ HandlerReturns \/ Miss
  BY <1>4 DEF Press, HandlerReturns, Miss, Remember, PressedInv
<1>5. ASSUME NEW w \in Windows, NEW kind \in Kinds, NEW B \in SUBSET Buttons,
             NEW new \in [B -> Texts], OpenWindow(w, kind, new), pc' = "pressed",
             target' = target, (pc = "pressed" /\ pressed' = pressed) \/ target \in pressed'
      PROVE  PressedInv'
  <2>1. SUFFICES ASSUME parent'[target] # Nothing, target \notin pressed'
                 PROVE  parent'[target] \in fresh'
    BY <1>5 DEF PressedInv
  <2>2. pc = "pressed" /\ target \in Buttons /\ target \notin pressed
    BY <1>5, <2>1 DEF Typed, HasTarget
  <2>3. fresh' = fresh \cup {w}
    BY <1>5, <2>2 DEF OpenWindow
  <2>4. parent'[target] \in {w, parent[target]}
    BY <1>5, <2>2 DEF OpenWindow
  <2> QED
    BY <2>1, <2>2, <2>3, <2>4 DEF PressedInv
<1>6. CASE Open \/ PressOpens
  <2>1. PICK w \in Windows, kind \in Kinds, B \in SUBSET Buttons :
          \E new \in [B -> Texts] : OpenWindow(w, kind, new)
    BY <1>6 DEF Open, PressOpens
  <2>2. PICK new \in [B -> Texts] : OpenWindow(w, kind, new)
    BY <2>1
  <2>3. /\ target' = target
        /\ \/ pc' = pc /\ pressed' = pressed
           \/ pc' = "pressed" /\ target \in pressed'
    BY <1>6 DEF Open, PressOpens, thread
  <2>4. CASE pc' = "pressed"
    BY <1>5, <2>2, <2>3, <2>4
  <2> QED
    BY <2>4 DEF PressedInv
<1>7. CASE CloseWindow
  <2>1. PICK w \in Windows : Close(w)
    BY <1>7 DEF CloseWindow
  <2>2. UNCHANGED <<pc, target, fresh>>
    BY <1>7 DEF CloseWindow, thread
  <2>3. SUFFICES ASSUME pc = "pressed", parent'[target] # Nothing
                 PROVE  target \in pressed' \/ parent'[target] \in fresh
    BY <2>2 DEF PressedInv
  <2>4. target \in Buttons
    BY <2>3 DEF Typed, HasTarget
  <2>5. parent'[target] = parent[target] /\ parent[target] # w
    BY <2>1, <2>3, <2>4 DEF Close
  <2>6. pressed' = pressed \ ButtonsOf(w)
    BY <2>1 DEF Close
  <2> QED
    BY <2>3, <2>5, <2>6 DEF PressedInv, ButtonsOf
<1> QED
  BY <1>2, <1>3, <1>4, <1>6, <1>7 DEF Next, SessionStep, HostAnswers

\* Nothing that leaves a dialog and its buttons alone makes it unserved.
LEMMA StaysServed ==
  ASSUME NEW v \in Windows, dialog'[v] = dialog[v], clicked \subseteq clicked',
         \A b \in Buttons : parent[b] = v /\ b \in pressed => b \in pressed',
         \A b \in Buttons : parent'[b] = v <=> parent[b] = v,
         \A b \in Buttons : parent[b] = v => text'[b] = text[b],
         Unserved(v)'
  PROVE  Unserved(v)
<1>1. ButtonsOf(v)' = ButtonsOf(v)
  BY DEF ButtonsOf
<1>2. \A b \in ButtonsOf(v) : text'[b] = text[b] /\ (b \in pressed => b \in pressed')
  BY DEF ButtonsOf
<1>3. Best(v)' = Best(v)
  BY <1>1, <1>2 DEF Best
<1>4. Due(v)
  BY <1>1, <1>2 DEF Unserved, Due
<1>5. ~Overlooked(v)
  BY <1>3 DEF Unserved, Overlooked
<1> QED
  BY <1>4, <1>5 DEF Unserved

\* Windows that open are fresh, and leave the others alone.
LEMMA OpenServes ==
  ASSUME Typed, ScanServes, NEW w \in Windows, NEW kind \in Kinds, NEW B \in SUBSET Buttons,
         NEW new \in [B -> Texts], OpenWindow(w, kind, new), UNCHANGED <<todo, target, clicked>>,
         pressed \subseteq pressed', pc' = pc \/ (pc = "sent" /\ pc' = "pressed")
  PROVE  ScanServes'
<1> SUFFICES ASSUME pc' \in {"scan", "sent", "pressed"}, NEW v \in Windows \ (todo' \cup fresh'),
                    Unserved(v)'
             PROVE  pc' # "scan" /\ parent'[target'] = v
  BY DEF ScanServes, Unserved
<1>1. pc \in {"scan", "sent", "pressed"} /\ (pc = "scan" <=> pc' = "scan")
  OBVIOUS
<1>2. v # w /\ v \notin todo \cup fresh
  BY <1>1 DEF OpenWindow
<1>3. /\ dialog'[v] = dialog[v]
      /\ \A b \in Buttons : parent'[b] = v <=> parent[b] = v
      /\ \A b \in Buttons : parent[b] = v => text'[b] = text[b]
  BY <1>2, HandlesAssumption DEF OpenWindow, Typed, TypeOK
<1>4. Unserved(v)
  BY <1>3, StaysServed
<1>5. pc # "scan" /\ parent[target] = v
  BY <1>1, <1>2, <1>4 DEF ScanServes, Unserved
<1>6. target \in Buttons
  BY <1>1, <1>5 DEF Typed, HasTarget
<1> QED
  BY <1>1, <1>3, <1>5, <1>6

\* So do windows that close.
LEMMA CloseKeeps ==
  ASSUME Typed, NEW w \in Windows, Close(w), NEW v \in Windows, clicked \subseteq clicked',
         Unserved(v)'
  PROVE  Unserved(v) /\ v # w /\ \A b \in Buttons : parent'[b] = v <=> parent[b] = v
<1>1. v # w
  BY DEF Close, Unserved, Due, Typed, TypeOK
<1>2. /\ dialog'[v] = dialog[v]
      /\ \A b \in Buttons : parent'[b] = v <=> parent[b] = v
      /\ \A b \in Buttons : parent[b] = v => text'[b] = text[b]
      /\ \A b \in Buttons : parent[b] = v /\ b \in pressed => b \in pressed'
  BY <1>1, HandlesAssumption DEF Close, Typed, TypeOK, ButtonsOf
<1> QED
  BY <1>1, <1>2, StaysServed

LEMMA LookServes ==
  ASSUME Typed, ScanServes, NEW w \in Windows, Look(w)
  PROVE  ScanServes'
<1> SUFFICES ASSUME NEW v \in Windows \ (todo' \cup fresh'), Unserved(v)'
             PROVE  pc' # "scan" /\ parent'[target'] = v
  BY DEF ScanServes, Unserved
<1>1. /\ UNCHANGED <<clicked, dialog, parent, text, fresh, pressed>>
      /\ todo' = todo \ {w} /\ pc = "scan" /\ ClickBest(w)
  BY DEF Look, desktop, history
<1>2. Unserved(v)
  BY <1>1, StaysServed
<1>3. v = w
  BY <1>1, <1>2 DEF ScanServes, Unserved
<1>4. Best(w) \subseteq ButtonsOf(w)
  BY DEF Best
<1>5. ~(~Whitelisted(w) \/ Best(w) = {} \/ Best(w) \cap clicked # {})
  BY <1>2, <1>3, SomeIsBest DEF Unserved, Due, Overlooked, Whitelisted
<1>6. pc' = "sent" /\ target' \in Best(w)
  BY <1>1, <1>5 DEF ClickBest
<1> QED
  BY <1>1, <1>3, <1>4, <1>6 DEF ButtonsOf

\* A click that has returned has pressed a button of its dialog, if that still stands.
LEMMA ReturnServes ==
  ASSUME Typed, ScanServes, PressedInv, Press \/ HandlerReturns \/ Miss
  PROVE  ScanServes'
<1>1. /\ pc \in {"sent", "pressed"} /\ Remember /\ fresh' = fresh
      /\ \/ UNCHANGED desktop /\ pressed \subseteq pressed'
         \/ parent[target] # Nothing /\ Close(parent[target])
  BY DEF Press, HandlerReturns, Miss, history
<1> SUFFICES ASSUME NEW v \in Windows \ (todo \cup fresh), Unserved(v)'
             PROVE  FALSE
  BY <1>1 DEF ScanServes, Unserved, Remember
<1>2. target \in Buttons /\ clicked' = clicked \cup {target}
  BY <1>1 DEF Typed, HasTarget, Remember
<1>3. CASE parent[target] # Nothing /\ Close(parent[target])
  <2>1. parent[target] \in Windows
    BY <1>2, <1>3 DEF Typed, TypeOK
  <2>2. Unserved(v) /\ v # parent[target]
    BY <1>2, <1>3, <2>1, CloseKeeps
  <2> QED
    BY <1>1, <2>2 DEF ScanServes, Unserved
<1>4. CASE UNCHANGED desktop /\ pressed \subseteq pressed'
  <2>1. Unserved(v)
    BY <1>2, <1>4, StaysServed DEF desktop
  <2>2. parent[target] = v
    BY <1>1, <2>1 DEF ScanServes, Unserved
  <2>3. v # Nothing
    BY HandlesAssumption
  <2>4. target \in pressed' \/ Close(parent[target])
    BY <1>1, <1>4, <2>2, <2>3 DEF Press, HandlerReturns, Miss, PressedInv
  <2>5. CASE target \in pressed'
    <3>1. target \in ButtonsOf(v)'
      BY <1>2, <1>4, <2>2 DEF ButtonsOf, desktop
    <3> QED
      BY <2>5, <3>1 DEF Unserved, Due
  <2> QED
    BY <1>3, <2>2, <2>3, <2>4, <2>5
<1> QED
  BY <1>1, <1>3, <1>4

\* Whatever opens and closes while a scan goes on: a dialog of the host that was listed
\* when it began, that has a button to click and that had none pressed is clicked, unless
\* the handle of the button chosen is remembered from an earlier click (_scan).
THEOREM NoDialogLeftOut == Spec => []ScanServes
<1>1. Init => ScanServes
  BY DEF Init, ScanServes
<1>2. ASSUME Typed, ScanServes, PressedInv, [Next]_vars PROVE ScanServes'
  <2> USE <1>2
  <2>1. CASE Enumerate
    <3>1. dialog' = dialog /\ todo' = {w \in Windows : dialog[w] \in {"known", "unknown"}}
      BY <2>1 DEF Enumerate, desktop
    <3> QED
      BY <3>1 DEF ScanServes, Due
  <2>2. ASSUME NEW w \in Windows, Look(w) PROVE ScanServes'
    BY <2>2, LookServes
  <2>3. CASE Loop \/ EndScan \/ Wake \/ SessionStep
    <3>1. \/ pc' \notin {"scan", "sent", "pressed"}
          \/ UNCHANGED <<pc, todo, target, clicked, desktop, fresh, pressed>>
      BY <2>3
      DEF Loop, EndScan, Wake, SessionStep, StartResolver, Connect, LaunchRaises, Stop, Exit,
          EndProcess, thread, history
    <3>2. CASE pc' \notin {"scan", "sent", "pressed"}
      BY <3>2 DEF ScanServes
    <3>3. CASE UNCHANGED <<pc, todo, target, clicked, desktop, fresh, pressed>>
      BY <3>3, StaysServed DEF ScanServes, Unserved, desktop
    <3> QED
      BY <3>1, <3>2, <3>3
  <2>4. ASSUME Open \/ PressOpens PROVE ScanServes'
    <3>1. PICK w \in Windows, kind \in Kinds, B \in SUBSET Buttons :
            \E new \in [B -> Texts] : OpenWindow(w, kind, new)
      BY <2>4 DEF Open, PressOpens
    <3>2. PICK new \in [B -> Texts] : OpenWindow(w, kind, new)
      BY <3>1
    <3>3. /\ UNCHANGED <<todo, target, clicked>> /\ pressed \subseteq pressed'
          /\ pc' = pc \/ (pc = "sent" /\ pc' = "pressed")
      BY <2>4 DEF Open, PressOpens, thread
    <3> QED
      BY <3>2, <3>3, OpenServes
  <2>5. CASE CloseWindow
    <3>1. PICK w \in Windows : Close(w)
      BY <2>5 DEF CloseWindow
    <3>2. UNCHANGED <<pc, todo, target, clicked, fresh>>
      BY <2>5 DEF CloseWindow, thread
    <3>3. ASSUME pc \in {"scan", "sent", "pressed"}, NEW v \in Windows \ (todo \cup fresh),
                 Unserved(v)'
          PROVE  pc # "scan" /\ parent'[target] = v
      <4>1. Unserved(v) /\ \A b \in Buttons : parent'[b] = v <=> parent[b] = v
        BY <3>1, <3>2, <3>3, CloseKeeps
      <4>2. pc # "scan" /\ parent[target] = v
        BY <3>3, <4>1 DEF ScanServes, Unserved
      <4>3. target \in Buttons
        BY <3>3, <4>2 DEF Typed, HasTarget
      <4> QED
        BY <4>1, <4>2, <4>3
    <3> QED
      BY <3>2, <3>3 DEF ScanServes, Unserved
  <2>6. CASE Press \/ HandlerReturns \/ Miss
    BY <2>6, ReturnServes
  <2>7. CASE UNCHANGED vars
    BY <2>7, StaysServed DEF vars, thread, desktop, history, ScanServes, Unserved
  <2> QED
    BY <2>1, <2>2, <2>3, <2>4, <2>5, <2>6, <2>7 DEF Next, ThreadStep, HostAnswers
<1>3. Init => PressedInv
  BY DEF Init, PressedInv
<1> QED
  BY <1>1, <1>2, <1>3, PressedStep, TypeInvariant, PTL DEF Spec
=============================================================================
