--------------------------- MODULE DialogResolver ---------------------------
(***************************************************************************)
(* The thread that dismisses dialogs of a launched host                    *)
(* (dialog_resolver.py), beside the pytest session that starts and stops   *)
(* it (connection.py, plugin.py).                                          *)
(*                                                                         *)
(* The thread enumerates the host's dialogs, then looks at each of them    *)
(* and clicks its best button.  A click is a synchronous message: the      *)
(* thread waits until the window has handled it.  Windows come and go      *)
(* meanwhile, and the system may give a handle to a new one.               *)
(***************************************************************************)
EXTENDS Naturals

CONSTANTS
  Windows,  \* handles of dialog windows
  Buttons,  \* handles of buttons
  Nothing,  \* no handle
  Texts,    \* what a button may say
  K,        \* number of preferred keywords, numbered in order of preference
  Exact,    \* per text, the keyword it is equal to, or 0
  Within,   \* per text, the first keyword that occurs in it, or 0
  Blocked   \* the texts in which a blocked keyword occurs

ASSUME HandlesAssumption == Nothing \notin Windows \cup Buttons \cup Texts
ASSUME TextsAssumption ==
  /\ K \in Nat /\ Blocked \subseteq Texts
  /\ Exact \in [Texts -> 0..K] /\ Within \in [Texts -> 0..K]
  /\ \A t \in Texts : Within[t] = 0 => Exact[t] = 0

VARIABLES
  \* the resolver
  pc,      \* where its thread is
  todo,    \* dialogs of this scan not looked at yet
  target,  \* the button a click is sent to
  clicked, \* _clicked
  stop,    \* _stop
  \* the pytest session
  main,    \* where its main thread is
  \* the desktop
  dialog,  \* what a window handle stands for, see Kinds
  parent,  \* per button, the dialog it is in
  text,    \* per button that exists, what it says
  nested,  \* the dialog a click's handler has opened and waits for
  \* history, read by properties only
  fresh,   \* windows opened since the dialogs of this scan were listed
  pressed, \* buttons pressed since they were created
  late     \* enumerations begun after stop was called, up to 2

thread == <<pc, todo, target, clicked>>
session == <<stop, main>>
desktop == <<dialog, parent, text, nested>>
history == <<fresh, pressed, late>>
vars == <<thread, session, desktop, history>>

\* A dialog of the host with a title on the whitelist, or without; and one with
\* such a title that belongs to another process or is hidden.
Kinds == {"known", "unknown", "alien"}

TypeOK ==
  /\ pc \in {"unborn", "check", "enum", "scan", "sent", "pressed", "wait", "ended"}
  /\ todo \subseteq Windows
  /\ target \in Buttons \cup {Nothing}
  /\ clicked \subseteq Buttons
  /\ stop \in BOOLEAN
  /\ main \in {"launched", "connecting", "running", "joining", "gone"}
  /\ dialog \in [Windows -> Kinds \cup {"none"}]
  /\ parent \in [Buttons -> Windows \cup {Nothing}]
  /\ text \in [Buttons -> Texts \cup {Nothing}]
  /\ \A b \in Buttons : parent[b] = Nothing <=> text[b] = Nothing
  /\ nested \in Windows \cup {Nothing}
  /\ fresh \subseteq Windows /\ pressed \subseteq Buttons /\ late \in 0..2

\* start_host has returned.
Init ==
  /\ pc = "unborn" /\ todo = {} /\ target = Nothing /\ clicked = {}
  /\ main = "launched" /\ stop = FALSE
  /\ dialog = [w \in Windows |-> "none"]
  /\ parent = [b \in Buttons |-> Nothing]
  /\ text = [b \in Buttons |-> Nothing]
  /\ nested = Nothing
  /\ fresh = {} /\ pressed = {} /\ late = 0

-----------------------------------------------------------------------------
(* Which button of a dialog is clicked. *)

ButtonsOf(w) == {b \in Buttons : parent[b] = w}

\* Mutant: blocked keywords are not looked at.
ClickableLeniently(t) == Within[t] # 0

\* _get_button_score: whether a text has a score, and which.
Clickable(t) == t \notin Blocked /\ Within[t] # 0
Score(t) == IF Exact[t] # 0 THEN Exact[t] ELSE Within[t] + K

\* _find_button: the buttons of least score; among several the first in window
\* order, which is any.
Best(w) ==
  {b \in ButtonsOf(w) :
     /\ Clickable(text[b])
     /\ \A c \in ButtonsOf(w) : Clickable(text[c]) => Score(text[b]) <= Score(text[c])}

-----------------------------------------------------------------------------
(* The resolver's thread. *)

\* Mutant: the loop does not look at the event.
LoopForever ==
  /\ pc = "check"
  /\ pc' = "enum"
  /\ UNCHANGED <<todo, target, clicked, session, desktop, history>>

\* The head of the loop in _run.
Loop ==
  /\ pc = "check"
  /\ pc' = IF stop THEN "ended" ELSE "enum"
  /\ UNCHANGED <<todo, target, clicked, session, desktop, history>>

\* _enum_dialog_windows.
Enumerate ==
  /\ pc = "enum"
  /\ pc' = "scan"
  /\ todo' = {w \in Windows : dialog[w] \in {"known", "unknown"}}
  /\ late' = IF stop /\ late < 2 THEN late + 1 ELSE late
  /\ UNCHANGED <<target, clicked, session, desktop, fresh, pressed>>

\* The title of a window is read again, its process is not.
Whitelisted(w) == dialog[w] \in {"known", "alien"}

\* The body of _scan's loop: nothing to click, or the button found was clicked
\* before, or a click is sent.
ClickBest(w) ==
  \/ /\ ~Whitelisted(w) \/ Best(w) = {} \/ Best(w) \cap clicked # {}
     /\ UNCHANGED <<pc, target>>
  \/ /\ Whitelisted(w)
     /\ target' \in Best(w) \ clicked
     /\ pc' = "sent"

\* Mutant: a title that is not on the list ends the scan.
LookAndReturn(w) ==
  /\ pc = "scan" /\ w \in todo /\ ClickBest(w)
  /\ todo' = IF Whitelisted(w) THEN todo \ {w} ELSE {}
  /\ UNCHANGED <<clicked, session, desktop, history>>

Look(w) ==
  /\ pc = "scan" /\ w \in todo /\ ClickBest(w)
  /\ todo' = todo \ {w}
  /\ UNCHANGED <<clicked, session, desktop, history>>

EndScan ==
  /\ pc = "scan" /\ todo = {}
  /\ pc' = "wait"
  /\ fresh' = {}
  /\ UNCHANGED <<todo, target, clicked, session, desktop, pressed, late>>

\* The poll interval is over, or the event is set.
Wake ==
  /\ pc = "wait"
  /\ pc' = "check"
  /\ UNCHANGED <<todo, target, clicked, session, desktop, history>>

ThreadStep == Loop \/ Enumerate \/ (\E w \in Windows : Look(w)) \/ EndScan \/ Wake

\* Mutants: the click is not remembered; the dialog is remembered.
ForgetClick == pc' = "scan" /\ target' = Nothing /\ UNCHANGED <<todo, clicked>>
RememberDialog == pc' = "scan" /\ clicked' = clicked \cup {parent[target]} /\ target' = Nothing
                  /\ UNCHANGED todo

\* SendMessageW has returned.
Remember == pc' = "scan" /\ clicked' = clicked \cup {target} /\ target' = Nothing
            /\ UNCHANGED todo

-----------------------------------------------------------------------------
(* The pytest session: auto_launch, _ensure_bridge, pytest_unconfigure. *)

StartResolver ==
  /\ main = "launched" /\ pc = "unborn"
  /\ main' = "connecting" /\ pc' = "check"
  /\ UNCHANGED <<todo, target, clicked, stop, desktop, history>>

\* ensure_bridge returns the resolver, with a bridge or with the error that ends
\* the session, and _ensure_bridge keeps it.
Connect ==
  /\ main = "connecting"
  /\ main' = "running"
  /\ UNCHANGED <<thread, stop, desktop, history>>

\* pytest_unconfigure calls stop.
Stop ==
  /\ main = "running"
  /\ main' = "joining" /\ stop' = TRUE
  /\ UNCHANGED <<thread, desktop, history>>

\* The thread is a daemon: the end of the process is its end, wherever it is.
EndProcess ==
  /\ main' = "gone" /\ pc' = "ended"
  /\ todo' = {} /\ target' = Nothing /\ clicked' = {} /\ fresh' = {}
  /\ UNCHANGED <<stop, desktop, pressed, late>>

\* wait_for_host_pipe times out: pytest.exit, with nobody to refer to the
\* resolver any more.  So does any exception that connecting and leasing raise.
LaunchRaises == main = "connecting" /\ EndProcess

\* Mutant: join without a timeout.
ExitWhenJoined == main = "joining" /\ pc = "ended" /\ EndProcess

\* join returns when the thread has ended or five seconds are over.
Exit == main = "joining" /\ EndProcess

SessionStep == StartResolver \/ Connect \/ LaunchRaises \/ Stop \/ Exit

-----------------------------------------------------------------------------
(* The desktop (external). *)

\* A window opens with some buttons, on handles that are not in use.
OpenWindow(w, kind, new) ==
  /\ main # "gone" /\ dialog[w] = "none"
  /\ \A b \in DOMAIN new : parent[b] = Nothing
  /\ dialog' = [dialog EXCEPT ![w] = kind]
  /\ parent' = [b \in Buttons |-> IF b \in DOMAIN new THEN w ELSE parent[b]]
  /\ text' = [b \in Buttons |-> IF b \in DOMAIN new THEN new[b] ELSE text[b]]
  /\ fresh' = IF pc \in {"scan", "sent", "pressed"} THEN fresh \cup {w} ELSE fresh

\* A window closes, its buttons with it.
Close(w) ==
  /\ dialog' = [dialog EXCEPT ![w] = "none"]
  /\ parent' = [b \in Buttons |-> IF parent[b] = w THEN Nothing ELSE parent[b]]
  /\ text' = [b \in Buttons |-> IF parent[b] = w THEN Nothing ELSE text[b]]
  /\ nested' = IF nested = w THEN Nothing ELSE nested
  /\ pressed' = pressed \ ButtonsOf(w)

Open ==
  /\ \E w \in Windows, kind \in Kinds, B \in SUBSET Buttons : \E new \in [B -> Texts] :
        OpenWindow(w, kind, new)
  /\ UNCHANGED <<thread, session, nested, pressed, late>>

\* The user or the host closes a window.
CloseWindow ==
  /\ main # "gone"
  /\ \E w \in Windows : dialog[w] # "none" /\ Close(w)
  /\ UNCHANGED <<thread, session, fresh, late>>

\* The click reaches its button.  Its handler closes the dialog or does not,
\* and SendMessageW returns ...
Press ==
  /\ pc = "sent" /\ parent[target] # Nothing
  /\ Remember
  /\ \/ Close(parent[target])
     \/ UNCHANGED desktop /\ pressed' = pressed \cup {target}
  /\ UNCHANGED <<session, fresh, late>>

\* ... or it opens another dialog and waits for that one.
PressOpens ==
  /\ pc = "sent" /\ parent[target] # Nothing
  /\ \E w \in Windows, kind \in Kinds \ {"alien"}, B \in SUBSET Buttons :
       \E new \in [B -> Texts] : OpenWindow(w, kind, new) /\ nested' = w
  /\ pc' = "pressed"
  /\ pressed' = pressed \cup {target}
  /\ UNCHANGED <<todo, target, clicked, session, late>>

HandlerReturns ==
  /\ pc = "pressed" /\ nested = Nothing
  /\ Remember
  /\ \/ parent[target] # Nothing /\ Close(parent[target])
     \/ UNCHANGED <<desktop, pressed>>
  /\ UNCHANGED <<session, fresh, late>>

\* The button is gone by then.
Miss ==
  /\ pc = "sent" /\ parent[target] = Nothing
  /\ Remember
  /\ UNCHANGED <<session, desktop, history>>

HostAnswers == Press \/ PressOpens \/ HandlerReturns \/ Miss

-----------------------------------------------------------------------------
Next == ThreadStep \/ SessionStep \/ Open \/ CloseWindow \/ HostAnswers

Spec == Init /\ [][Next]_vars

\* Both threads run, but the tests may take as long as they like; the host
\* handles the messages sent to its windows.
FairSpec ==
  /\ Spec
  /\ WF_vars(ThreadStep) /\ WF_vars(HostAnswers)
  /\ WF_vars(StartResolver) /\ WF_vars(Connect \/ LaunchRaises) /\ WF_vars(Exit)

-----------------------------------------------------------------------------
(* Properties. *)

\* A step in which the click that was sent reaches its button.
Pressing == pc = "sent" /\ pc' \in {"scan", "pressed"} /\ parent[target] # Nothing

\* A button that is pressed is in a dialog of the host with a title on the
\* whitelist, shows a preferred keyword and no blocked one, and no other button
\* of its dialog is equal to a better keyword; unless it is in a window that
\* opened after the handles of the scan were listed (_scan, _find_button).
Acceptable(b) ==
  LET w == parent[b] IN
  /\ dialog[w] = "known" /\ text[b] \notin Blocked /\ Within[text[b]] # 0
  /\ \A c \in ButtonsOf(w) :
       text[c] \notin Blocked /\ Exact[text[c]] # 0 => Exact[text[b]] \in 1..Exact[text[c]]
PressedAsChosen == [][Pressing => Acceptable(target) \/ parent[target] \in fresh]_vars

\* No button is pressed twice as long as it exists, although the loop finds an
\* open dialog anew in every scan (_clicked).
NoSecondPress == [][Pressing => target \notin pressed]_vars

\* After stop was called, the dialogs are listed once more at most (_run).
OneScanAfterStop == late < 2

\* A dialog is due: it has a button that may be clicked, and none of its buttons was
\* pressed.  It is overlooked if the handle of its best button is remembered all the
\* same, from a button that had it before or from a click that found none: _clicked
\* forgets nothing, so _scan never clicks that button.
Due(w) ==
  /\ dialog[w] = "known" /\ \E b \in ButtonsOf(w) : Clickable(text[b])
  /\ ButtonsOf(w) \cap pressed = {}
Overlooked(w) == Best(w) \cap clicked # {}

\* A scan leaves no dialog out but those overlooked: one that was open when the dialogs
\* were listed and is due is still to be looked at, or a click to it is on its way,
\* whatever opens and closes meanwhile (_scan).
ScanServes ==
  pc \in {"scan", "sent", "pressed"} =>
    \A w \in Windows \ (todo \cup fresh) :
      Due(w) => Overlooked(w) \/ (pc # "scan" /\ parent[target] = w)

\* A dialog that is due gets a button pressed, or closes, as long as the resolver runs;
\* unless it is overlooked, or the resolver waits for ever for a click whose handler has
\* opened a dialog of its own (_scan, _send_click).
Served ==
  \A w \in Windows :
    (pc # "ended" /\ ~stop /\ Due(w)) ~>
      (pc = "ended" \/ stop \/ ~Due(w) \/ Overlooked(w) \/ [](pc = "pressed"))

\* The session ends once it calls stop, whatever a click in flight waits for.
StopReturns == main = "joining" ~> main = "gone"
=============================================================================
