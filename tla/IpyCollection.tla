--------------------------- MODULE IpyCollection ---------------------------
(***************************************************************************)
(* How the tests of an IronPython file are collected (ipy_collect.py).     *)
(* The file is never imported or parsed: a scan over its lines looks for   *)
(* class and def lines and remembers the last class.  Whether that finds   *)
(* what unittest runs on the host depends on how the file is written.      *)
(*                                                                         *)
(* A behaviour writes a legal file line by line.  Next to the scanner's    *)
(* variables stands what the lines mean to Python and unittest.  Every     *)
(* state is a complete file, since a class or def may end on its line.     *)
(***************************************************************************)
EXTENDS Naturals, Sequences

CONSTANTS
  Classes,  \* names of classes
  Methods,  \* names of methods that begin with "test"
  Nothing,  \* no class
  Suite,    \* the item of a whole file
  MaxLines, \* bound on the file's length
  MaxLevel  \* bound on the depth of its blocks

ASSUME NamesAssumption == Nothing \notin Classes /\ Suite \notin Classes \X Methods
ASSUME BoundAssumption == MaxLines \in Nat /\ MaxLevel \in Nat

\* How a class line ends, up to what tells the scanner or unittest apart:
\*   case     (unittest.TestCase), or other bases with it
\*   alike    bases of which one has TestCase in its name and is none
\*   other    other bases
\*   foreign  other bases, of which an imported one is a test case by another name
\*   split    bases with TestCase, and the list ends on a later line
\*   bare     no list
Heads == {"case", "alike", "other", "foreign", "split", "bare"}
Listed(head) == head \in {"case", "alike", "other", "foreign"}

VARIABLES
  \* the scanner
  current_class, class_indent, has_case, tests,
  \* the file, as Python reads it
  tabs,    \* indented with tabs, otherwise with four spaces
  lines,   \* number of lines
  depth,   \* the deepest level the next line may have
  top,     \* the module's class in whose body the next lines of level 1 are
  last,    \* the last class of the module
  defined, \* the module's classes
  cases,   \* those that are test cases
  methods, \* the test methods of each class of the module, inherited ones too
  \* history
  odd      \* classes with a line in them that breaks a convention, see Breaks

scanner == <<current_class, class_indent, has_case, tests>>
file == <<tabs, lines, depth, top, last, defined, cases, methods>>
vars == <<scanner, file, odd>>

TypeOK ==
  /\ current_class \in Classes \cup {Nothing} /\ class_indent \in Nat
  /\ has_case \in BOOLEAN /\ tests \in Seq(Classes \X Methods)
  /\ tabs \in BOOLEAN /\ lines \in 0..MaxLines /\ depth \in Nat
  /\ top \in {last, Nothing} /\ last \in Classes \cup {Nothing}
  /\ defined \subseteq Classes /\ cases \subseteq defined /\ methods \in [Classes -> SUBSET Methods]
  /\ odd \subseteq Classes

Init ==
  /\ current_class = Nothing /\ class_indent = 0 /\ has_case = FALSE /\ tests = <<>>
  /\ tabs \in BOOLEAN /\ lines = 0 /\ depth = 0
  /\ top = Nothing /\ last = Nothing
  /\ defined = {} /\ cases = {} /\ methods = [c \in Classes |-> {}]
  /\ odd = {}

-----------------------------------------------------------------------------
(* scan_ipy_tests *)

\* Mutant: a class is as deep as its body.
BodyIndent(level) == 4 * (level + 1)

\* The indentation of a class is counted in characters, that of a def in columns.
ClassIndent(level) == IF tabs THEN level ELSE 4 * level
DefIndent(level) == 4 * level

\* Every variant of ScanClass differs in the class that is current after it.
ScanHead(now, level, head) ==
  /\ current_class' = now
  /\ class_indent' = IF head \in {"case", "alike"} THEN ClassIndent(level) ELSE class_indent
  /\ has_case' = (has_case \/ head \in {"case", "alike"})
  /\ UNCHANGED tests

\* Mutants: a class that is no test case leaves the one before it current; the
\* first test case stays current; the last class decides whether there is one.
KeepClass(c, level, head) ==
  ScanHead(IF head \in {"case", "alike"} THEN c ELSE current_class, level, head)
KeepFirst(c, level, head) == ScanHead(IF has_case THEN current_class ELSE c, level, head)
LastDecides(c, level, head) ==
  /\ current_class' = c /\ has_case' = (head \in {"case", "alike"})
  /\ UNCHANGED <<class_indent, tests>>

\* A class line.  _CLASS does not match it without a list of bases on the line.
ScanClass(c, level, head) ==
  ScanHead(CASE head \in {"case", "alike"} -> c
             [] head \in {"other", "foreign"} -> Nothing
             [] OTHER -> current_class, level, head)

\* Mutant: a def needs no class.
ScanAnyDef(m, level) ==
  /\ tests' = IF DefIndent(level) > class_indent THEN Append(tests, <<current_class, m>>)
                                                 ELSE tests
  /\ UNCHANGED <<current_class, class_indent, has_case>>

\* A line that _DEF matches.
ScanDef(m, level) ==
  /\ tests' = IF current_class # Nothing /\ DefIndent(level) > class_indent
                THEN Append(tests, <<current_class, m>>) ELSE tests
  /\ UNCHANGED <<current_class, class_indent, has_case>>

-----------------------------------------------------------------------------
(* The file (external). *)

\* Another line, at a level that the lines before it allow.
Line(level, opens) ==
  /\ lines < MaxLines /\ lines' = lines + 1
  /\ depth' = IF opens THEN level + 1 ELSE level
  /\ UNCHANGED tabs

\* The classes in which a line breaks a convention.
Breaks(marked) == odd' = odd \cup (marked \ {Nothing})

\* A base of the file that makes its class a test case or gives it tests.
Brings(base) == base # Nothing /\ (base \in cases \/ methods[base] # {})

\* A class line of the module, with a base of the file and the tests that imported
\* bases bring.  unittest runs the class if it is a test case, with the tests it
\* inherits.  The conventions: the list of bases is on the line; the class is a test
\* case exactly if TestCase is in that text; no base, of the file or imported, brings
\* tests; and the class has no namesake before it.
ModuleClass(c, head, base, inherited) ==
  /\ Line(0, TRUE)
  /\ ScanClass(c, 0, head)
  /\ top' = c /\ last' = c /\ defined' = defined \cup {c}
  /\ cases' = IF head \in {"case", "foreign", "split"} \/ base \in cases THEN cases \cup {c}
                                                                        ELSE cases \ {c}
  /\ methods' = [methods EXCEPT
                   ![c] = inherited \cup IF base = Nothing THEN {} ELSE methods[base]]
  /\ Breaks((IF ~Listed(head) THEN {c, last} ELSE {})
            \cup (IF \/ head \in {"alike", "foreign"} \/ Brings(base) \/ inherited # {}
                     \/ c \in defined
                    THEN {c} ELSE {}))

\* A class line in the body of a class or function: unittest does not run it, and
\* a convention rules it out.
InnerClass(c, level, head) ==
  /\ level \in 1..depth
  /\ Line(level, TRUE)
  /\ ScanClass(c, level, head)
  /\ Breaks({c, last})
  /\ UNCHANGED <<top, last, defined, cases, methods>>

\* A def line with a test's name.  A method is at level 1 of a class; by
\* convention there is no other one with its name, and none deeper or in the
\* body of a function.
Def(m, level) ==
  /\ level \in 0..depth
  /\ Line(level, TRUE)
  /\ ScanDef(m, level)
  /\ top' = IF level = 0 THEN Nothing ELSE top
  /\ methods' = IF level = 1 /\ top # Nothing THEN [methods EXCEPT ![top] = @ \cup {m}]
                                             ELSE methods
  /\ Breaks(IF level > 0 /\ (level > 1 \/ top = Nothing \/ m \in methods[top]) THEN {last}
                                                                           ELSE {})
  /\ UNCHANGED <<last, defined, cases>>

\* Any other line; a def with another name opens a block, too.
Other(level, opens) ==
  /\ level \in 0..depth
  /\ Line(level, opens)
  /\ top' = IF level = 0 THEN Nothing ELSE top
  /\ UNCHANGED <<scanner, last, defined, cases, methods, odd>>

Next ==
  \/ \E c \in Classes, head \in Heads, base \in defined \cup {Nothing},
        inherited \in SUBSET Methods :
        /\ head = "bare" => base = Nothing /\ inherited = {}
        /\ ModuleClass(c, head, base, inherited)
  \/ \E c \in Classes, level \in 1..MaxLevel, head \in Heads : InnerClass(c, level, head)
  \/ \E m \in Methods, level \in 0..MaxLevel : Def(m, level)
  \/ \E level \in 0..MaxLevel, opens \in BOOLEAN : Other(level, opens)

Spec == Init /\ [][Next]_vars

-----------------------------------------------------------------------------
(* From the scan to the reports. *)

\* IpyTestFile.collect: no item for a file without a test case (CollectError),
\* one for the whole file if no test was found, otherwise one for each test.
Collected == {tests[n] : n \in DOMAIN tests}
Items ==
  CASE ~has_case -> {}
    [] has_case /\ tests = <<>> -> {Suite}
    [] OTHER -> Collected

\* What unittest runs on the host: the tests of the module's test cases.
HostTests == {t \in Classes \X Methods : t[1] \in cases /\ t[2] \in methods[t[1]]}

\* fan_suite_results: the host's tests whose results an item reports.  Results
\* for any other nodeid are dropped.
ResultsOf(item) == IF item = Suite THEN HostTests ELSE {item} \cap HostTests

-----------------------------------------------------------------------------
(* Properties.  A class is odd if its own line, or one up to the next class   *)
(* with a list of bases, breaks a convention (see ModuleClass, InnerClass and *)
(* Def); what the other classes of the file do does not matter.               *)

\* Every test that unittest runs is reported by an item, if its class keeps the
\* conventions (scan_ipy_tests).
NothingMissed ==
  \A t \in HostTests : t[1] \notin odd => \E i \in Items : t \in ResultsOf(i)

\* Every item has a result to report, if its class keeps the conventions;
\* otherwise it would be reported as an error (emit_item_reports).
NothingInvented == \A i \in Items \ {Suite} : i[1] \notin odd => ResultsOf(i) # {}

\* No test is collected twice, if its class keeps the conventions: items with one
\* nodeid would report its results twice.
NothingTwice ==
  \A m, n \in DOMAIN tests : tests[m] = tests[n] => m = n \/ tests[m][1] \in odd

\* A file is refused only if it has no test case that keeps the conventions; one that
\* derives from an imported test case by another name does not (IpyTestFile.collect).
RefusedOnlyWithoutCase == ~has_case => cases \subseteq odd
=============================================================================
