------------------------ MODULE IpyCollectionProofs ------------------------
(* Theorems about IpyCollection: files of any length, depth and names. *)
EXTENDS IpyCollection, TLAPS

LEMMA BreaksType ==
  ASSUME odd \subseteq Classes, NEW marked \in SUBSET (Classes \cup {Nothing}), Breaks(marked)
  PROVE  odd' \subseteq Classes /\ odd \subseteq odd'
  BY DEF Breaks

LEMMA IndentType ==
  ASSUME NEW level \in Nat, tabs \in BOOLEAN
  PROVE  ClassIndent(level) \in Nat /\ ClassIndent(0) = 0
         /\ DefIndent(level) \in Nat /\ DefIndent(0) = 0 /\ DefIndent(1) = 4
  BY DEF ClassIndent, DefIndent

LEMMA ScanClassType ==
  ASSUME TypeOK, NEW c \in Classes, NEW level \in Nat, NEW head \in Heads,
         ScanClass(c, level, head)
  PROVE  /\ current_class' \in Classes \cup {Nothing} /\ class_indent' \in Nat
         /\ has_case' \in BOOLEAN /\ tests' \in Seq(Classes \X Methods)
  BY IndentType DEF TypeOK, ScanClass, ScanHead

LEMMA ScanDefType ==
  ASSUME TypeOK, NEW m \in Methods, NEW level \in Nat, ScanDef(m, level)
  PROVE  /\ current_class' \in Classes \cup {Nothing} /\ class_indent' \in Nat
         /\ has_case' \in BOOLEAN /\ tests' \in Seq(Classes \X Methods)
  BY DEF TypeOK, ScanDef

LEMMA LineType ==
  ASSUME TypeOK, NEW level \in Nat, NEW opens \in BOOLEAN, Line(level, opens)
  PROVE  lines' \in 0..MaxLines /\ depth' \in Nat /\ tabs' = tabs
  BY BoundAssumption DEF TypeOK, Line

LEMMA NextType == ASSUME TypeOK, [Next]_vars PROVE TypeOK'
<1>1. ASSUME NEW c \in Classes, NEW head \in Heads, NEW base \in defined \cup {Nothing},
             NEW inherited \in SUBSET Methods, ModuleClass(c, head, base, inherited)
      PROVE  TypeOK'
  <2>1. 0 \in Nat /\ TRUE \in BOOLEAN /\ base \in Classes \cup {Nothing}
    BY DEF TypeOK
  <2>2. lines' \in 0..MaxLines /\ depth' \in Nat /\ tabs' = tabs
    BY <1>1, <2>1, LineType DEF ModuleClass
  <2>3. /\ current_class' \in Classes \cup {Nothing} /\ class_indent' \in Nat
        /\ has_case' \in BOOLEAN /\ tests' \in Seq(Classes \X Methods)
    BY <1>1, <2>1, ScanClassType DEF ModuleClass
  <2>4. odd' \subseteq Classes
    BY <1>1 DEF TypeOK, ModuleClass, Breaks
  <2>5. methods' \in [Classes -> SUBSET Methods]
    BY <1>1, <2>1 DEF TypeOK, ModuleClass
  <2> QED
    BY <1>1, <2>2, <2>3, <2>4, <2>5 DEF TypeOK, ModuleClass
<1>2. ASSUME NEW c \in Classes, NEW level \in 1..MaxLevel, NEW head \in Heads,
             InnerClass(c, level, head)
      PROVE  TypeOK'
  <2>1. level \in Nat /\ TRUE \in BOOLEAN
    BY BoundAssumption
  <2>2. lines' \in 0..MaxLines /\ depth' \in Nat /\ tabs' = tabs
    BY <1>2, <2>1, LineType DEF InnerClass
  <2>3. /\ current_class' \in Classes \cup {Nothing} /\ class_indent' \in Nat
        /\ has_case' \in BOOLEAN /\ tests' \in Seq(Classes \X Methods)
    BY <1>2, <2>1, ScanClassType DEF InnerClass
  <2> QED
    BY <1>2, <2>2, <2>3 DEF TypeOK, InnerClass, Breaks
<1>3. ASSUME NEW m \in Methods, NEW level \in 0..MaxLevel, Def(m, level)
      PROVE  TypeOK'
  <2>1. level \in Nat /\ TRUE \in BOOLEAN
    BY BoundAssumption
  <2>2. lines' \in 0..MaxLines /\ depth' \in Nat /\ tabs' = tabs
    BY <1>3, <2>1, LineType DEF Def
  <2>3. /\ current_class' \in Classes \cup {Nothing} /\ class_indent' \in Nat
        /\ has_case' \in BOOLEAN /\ tests' \in Seq(Classes \X Methods)
    BY <1>3, <2>1, ScanDefType DEF Def
  <2>4. methods' \in [Classes -> SUBSET Methods]
    BY <1>3 DEF TypeOK, Def
  <2>5. odd' \subseteq Classes
    BY <1>3 DEF TypeOK, Def, Breaks
  <2> QED
    BY <1>3, <2>2, <2>3, <2>4, <2>5 DEF TypeOK, Def
<1>4. ASSUME NEW level \in 0..MaxLevel, NEW opens \in BOOLEAN, Other(level, opens)
      PROVE  TypeOK'
  <2>1. level \in Nat
    BY BoundAssumption
  <2> QED
    BY <1>4, <2>1, LineType DEF TypeOK, Other, scanner
<1>5. CASE UNCHANGED vars
  BY <1>5 DEF TypeOK, vars, scanner, file
<1> QED
  BY <1>1, <1>2, <1>3, <1>4, <1>5 DEF Next

LEMMA InitType == Init => TypeOK
<1> SUFFICES ASSUME Init PROVE TypeOK
  OBVIOUS
<1>1. tests \in Seq(Classes \X Methods)
  BY DEF Init
<1>2. lines \in 0..MaxLines
  BY BoundAssumption DEF Init
<1> QED
  BY <1>1, <1>2 DEF Init, TypeOK

\* Every variable keeps its type.
THEOREM TypeCorrect == Spec => []TypeOK
  BY InitType, NextType, PTL DEF Spec

-----------------------------------------------------------------------------
(* The scanner agrees with Python about the last class and about every      *)
(* class before it, as long as they are not odd.                            *)

LastIsDefined == last \in defined \cup {Nothing}

\* The current class is the last one, if that is a test case; ...
LastInStep ==
  last \notin odd /\ last # Nothing =>
    /\ current_class = IF last \in cases THEN last ELSE Nothing
    /\ last \in cases => class_indent = 0

\* ... a test of any other class can only be collected for an odd one.
StrayIsOdd == current_class \in odd \cup {Nothing, last}

\* What was collected for a class is what unittest runs.
InStep ==
  \A c \in Classes \ odd, m \in Methods :
    <<c, m>> \in Collected <=> c \in cases /\ m \in methods[c]

ScanInv ==
  TypeOK /\ LastIsDefined /\ LastInStep /\ StrayIsOdd /\ InStep /\ NothingTwice
  /\ RefusedOnlyWithoutCase

-----------------------------------------------------------------------------
(* Init and the steps that collect nothing. *)

LEMMA InitScan == Init => ScanInv
<1> SUFFICES ASSUME Init PROVE ScanInv
  OBVIOUS
<1>1. DOMAIN <<>> = {}
  OBVIOUS
<1>2. TypeOK
  BY InitType
<1>3. Collected = {}
  BY <1>1 DEF Init, Collected
<1>4. NothingTwice
  BY <1>1 DEF Init, NothingTwice
<1> QED
  BY <1>2, <1>3, <1>4
  DEF Init, ScanInv, LastIsDefined, LastInStep, StrayIsOdd, InStep, RefusedOnlyWithoutCase

\* As long as nothing is collected, no class but odd ones may change.
LEMMA KeepInStep ==
  ASSUME InStep, NothingTwice, odd \subseteq odd', UNCHANGED tests,
         \A c \in Classes \ odd' : (c \in cases' <=> c \in cases) /\ methods'[c] = methods[c]
  PROVE  InStep' /\ NothingTwice'
<1>1. Collected' = Collected
  BY DEF Collected
<1>2. InStep'
  BY <1>1 DEF InStep
<1>3. NothingTwice'
  BY DEF NothingTwice
<1> QED
  BY <1>2, <1>3

LEMMA ModuleClassScan ==
  ASSUME ScanInv, TypeOK', NEW c \in Classes, NEW head \in Heads,
         NEW base \in defined \cup {Nothing}, NEW inherited \in SUBSET Methods,
         ModuleClass(c, head, base, inherited)
  PROVE  ScanInv'
<1>1. /\ tests' = tests /\ last' = c /\ defined' = defined \cup {c} /\ odd \subseteq odd'
      /\ c # Nothing
  BY NamesAssumption DEF ModuleClass, ScanClass, ScanHead, Breaks
<1>2. CASE c \in odd'
  <2>1. \A d \in Classes \ odd' : (d \in cases' <=> d \in cases) /\ methods'[d] = methods[d]
    BY <1>2 DEF ScanInv, TypeOK, ModuleClass
  <2> QED
    BY <1>1, <2>1, KeepInStep, <1>2
    DEF ScanInv, ModuleClass, ScanClass, ScanHead, Listed, Heads, Breaks, LastIsDefined,
        LastInStep, StrayIsOdd, RefusedOnlyWithoutCase
<1>3. CASE c \notin odd'
  <2>1. head \in {"case", "other"} /\ ~Brings(base) /\ inherited = {} /\ c \notin defined
    BY <1>3, <1>1 DEF ModuleClass, Breaks, Heads, Listed
  <2>2. /\ cases' = IF head = "case" THEN cases \cup {c} ELSE cases
        /\ methods' = [methods EXCEPT ![c] = {}]
    <3>1. base \notin cases /\ c \notin cases
      BY <2>1, NamesAssumption DEF ScanInv, TypeOK, Brings
    <3>2. base # Nothing => methods[base] = {}
      BY <2>1 DEF Brings
    <3> QED
      BY <2>1, <3>1, <3>2 DEF ModuleClass
  <2>3. /\ current_class' = IF head = "case" THEN c ELSE Nothing
        /\ class_indent' = IF head = "case" THEN ClassIndent(0) ELSE class_indent
        /\ has_case' = (has_case \/ head = "case")
    BY <2>1 DEF ModuleClass, ScanClass, ScanHead
  <2>4. ClassIndent(0) = 0
    BY DEF ClassIndent
  <2>5. Collected' = Collected
    BY <1>1 DEF Collected
  <2>6. \A m \in Methods : <<c, m>> \notin Collected
    BY <1>1, <1>3, <2>1 DEF ScanInv, TypeOK, InStep
  <2>7. InStep'
    BY <1>1, <2>2, <2>5, <2>6 DEF ScanInv, TypeOK, InStep
  <2>8. NothingTwice'
    BY <1>1 DEF ScanInv, NothingTwice
  <2>9. RefusedOnlyWithoutCase'
    BY <1>1, <2>2, <2>3 DEF ScanInv, RefusedOnlyWithoutCase
  <2>10. c \in cases' <=> head = "case"
    BY <2>1, <2>2 DEF ScanInv, TypeOK
  <2> QED
    BY <1>1, <2>3, <2>4, <2>7, <2>8, <2>9, <2>10
    DEF ScanInv, LastIsDefined, LastInStep, StrayIsOdd
<1> QED
  BY <1>2, <1>3

LEMMA InnerClassScan ==
  ASSUME ScanInv, TypeOK', NEW c \in Classes, NEW level \in 1..MaxLevel, NEW head \in Heads,
         InnerClass(c, level, head)
  PROVE  ScanInv'
<1>1. odd \subseteq odd' /\ c \in odd' /\ (last = Nothing \/ last \in odd')
  BY NamesAssumption DEF InnerClass, Breaks
<1>2. UNCHANGED <<tests, last, defined, cases, methods>>
  BY DEF InnerClass, ScanClass, ScanHead
<1>3. InStep' /\ NothingTwice'
  BY <1>1, <1>2, KeepInStep DEF ScanInv
<1> QED
  BY <1>1, <1>2, <1>3
  DEF ScanInv, InnerClass, ScanClass, ScanHead, LastIsDefined, LastInStep, StrayIsOdd,
      RefusedOnlyWithoutCase

LEMMA OtherScan ==
  ASSUME ScanInv, TypeOK', NEW level \in 0..MaxLevel, NEW opens \in BOOLEAN,
         Other(level, opens)
  PROVE  ScanInv'
<1>1. InStep' /\ NothingTwice'
  BY KeepInStep DEF ScanInv, Other, scanner
<1> QED
  BY <1>1
  DEF ScanInv, Other, scanner, LastIsDefined, LastInStep, StrayIsOdd, RefusedOnlyWithoutCase

-----------------------------------------------------------------------------
(* A def line. *)

LEMMA AppendCollects ==
  ASSUME NEW S, tests \in Seq(S), NEW x \in S, tests' = Append(tests, x)
  PROVE  /\ Collected' = Collected \cup {x}
         /\ NothingTwice /\ odd \subseteq odd' /\ (x \notin Collected \/ x[1] \in odd')
              => NothingTwice'
<1>1. /\ DOMAIN tests = 1..Len(tests) /\ DOMAIN tests' = 1..(Len(tests) + 1)
      /\ Len(tests) \in Nat
  OBVIOUS
<1>2. \A n \in 1..Len(tests) : tests'[n] = tests[n]
  OBVIOUS
<1>3. tests'[Len(tests) + 1] = x
  OBVIOUS
<1>4. \A n \in DOMAIN tests' : n \in DOMAIN tests \/ n = Len(tests) + 1
  BY <1>1
<1>5. Collected' = Collected \cup {x}
  BY <1>1, <1>2, <1>3 DEF Collected
<1>6. ASSUME NothingTwice, odd \subseteq odd', x \notin Collected \/ x[1] \in odd'
      PROVE  NothingTwice'
  <2> SUFFICES ASSUME NEW m \in DOMAIN tests', NEW n \in DOMAIN tests', tests'[m] = tests'[n]
               PROVE  m = n \/ tests'[m][1] \in odd'
    BY DEF NothingTwice
  <2>1. CASE m \in DOMAIN tests /\ n \in DOMAIN tests
    BY <2>1, <1>1, <1>2, <1>6 DEF NothingTwice
  <2>2. CASE m = Len(tests) + 1 /\ n = Len(tests) + 1
    BY <2>2
  <2>3. CASE m \in DOMAIN tests /\ n = Len(tests) + 1
    BY <2>3, <1>1, <1>2, <1>3, <1>6 DEF Collected
  <2>4. CASE m = Len(tests) + 1 /\ n \in DOMAIN tests
    BY <2>4, <1>1, <1>2, <1>3, <1>6 DEF Collected
  <2> QED
    BY <1>4, <2>1, <2>2, <2>3, <2>4
<1> QED
  BY <1>5, <1>6

LEMMA DefScan ==
  ASSUME ScanInv, TypeOK', NEW m \in Methods, NEW level \in 0..MaxLevel, Def(m, level)
  PROVE  ScanInv'
<1>1. /\ level \in Nat /\ odd \subseteq odd'
      /\ UNCHANGED <<last, defined, cases, current_class, class_indent, has_case>>
  BY BoundAssumption DEF Def, ScanDef, Breaks
<1>2. LastIsDefined' /\ LastInStep' /\ StrayIsOdd' /\ RefusedOnlyWithoutCase'
  BY <1>1 DEF ScanInv, LastIsDefined, LastInStep, StrayIsOdd, RefusedOnlyWithoutCase
<1>3. DefIndent(level) \in Nat /\ DefIndent(0) = 0 /\ class_indent \in Nat
      /\ (level > 0 => DefIndent(level) > 0)
  BY <1>1 DEF DefIndent, ScanInv, TypeOK
<1>4. CASE level = 0
  <2>1. tests' = tests /\ methods' = methods
    BY <1>3, <1>4 DEF Def, ScanDef
  <2> QED
    BY <1>1, <1>2, <2>1, KeepInStep DEF ScanInv
<1>5. CASE level > 0 /\ (last = Nothing \/ last \in odd')
  <2>1. current_class = Nothing \/ current_class \in odd'
    BY <1>1, <1>5 DEF ScanInv, StrayIsOdd
  <2>2. methods' = methods \/ (last \in odd' /\ \E S : methods' = [methods EXCEPT ![last] = S])
    BY <1>5, NamesAssumption DEF Def, ScanInv, TypeOK
  <2>3. \A c \in Classes \ odd' : methods'[c] = methods[c]
    BY <2>2 DEF ScanInv, TypeOK
  <2>4. CASE tests' = tests
    BY <1>1, <1>2, <2>3, <2>4, KeepInStep DEF ScanInv
  <2>5. CASE tests' # tests
    <3>1. current_class # Nothing /\ tests' = Append(tests, <<current_class, m>>)
      BY <2>5 DEF Def, ScanDef
    <3>2. <<current_class, m>> \in Classes \X Methods
      BY <3>1 DEF ScanInv, TypeOK
    <3>3. Collected' = Collected \cup {<<current_class, m>>} /\ NothingTwice'
      BY <1>1, <2>1, <3>1, <3>2, AppendCollects DEF ScanInv, TypeOK
    <3>4. InStep'
      BY <1>1, <2>1, <2>3, <3>1, <3>3 DEF ScanInv, InStep
    <3> QED
      BY <1>2, <3>3, <3>4 DEF ScanInv
  <2> QED
    BY <2>4, <2>5
<1>6. CASE level > 0 /\ last # Nothing /\ last \notin odd'
  <2>1. level = 1 /\ top = last /\ m \notin methods[last]
    BY <1>6, <1>1 DEF Def, Breaks, ScanInv, TypeOK
  <2>2. methods' = [methods EXCEPT ![last] = @ \cup {m}]
    BY <1>6, <2>1 DEF Def
  <2>3. last \in Classes /\ last \notin odd
    BY <1>1, <1>6 DEF ScanInv, TypeOK
  <2>4. CASE last \in cases
    <3>1. tests' = Append(tests, <<last, m>>)
      BY <1>3, <1>6, <2>3, <2>4, NamesAssumption DEF Def, ScanDef, ScanInv, LastInStep
    <3>2. <<last, m>> \in Classes \X Methods /\ <<last, m>> \notin Collected
      BY <2>1, <2>3 DEF ScanInv, InStep
    <3>3. Collected' = Collected \cup {<<last, m>>} /\ NothingTwice'
      BY <1>1, <3>1, <3>2, AppendCollects DEF ScanInv, TypeOK
    <3>4. InStep'
      BY <1>1, <2>2, <2>3, <2>4, <3>3 DEF ScanInv, TypeOK, InStep
    <3> QED
      BY <1>2, <3>3, <3>4 DEF ScanInv
  <2>5. CASE last \notin cases
    <3>1. tests' = tests
      BY <1>6, <2>3, <2>5 DEF Def, ScanDef, ScanInv, LastInStep
    <3>2. Collected' = Collected /\ NothingTwice'
      BY <1>1, <3>1 DEF Collected, NothingTwice, ScanInv
    <3>3. InStep'
      BY <1>1, <2>2, <2>5, <3>2 DEF ScanInv, TypeOK, InStep
    <3> QED
      BY <1>2, <3>2, <3>3 DEF ScanInv
  <2> QED
    BY <2>4, <2>5
<1> QED
  BY <1>1, <1>4, <1>5, <1>6

-----------------------------------------------------------------------------
LEMMA ScanInvariant == Spec => []ScanInv
<1>1. ASSUME ScanInv, [Next]_vars PROVE ScanInv'
  <2>1. TypeOK'
    BY <1>1, NextType DEF ScanInv
  <2>2. CASE UNCHANGED vars
    <3>1. Collected' = Collected
      BY <2>2 DEF vars, scanner, Collected
    <3> QED
      BY <1>1, <2>1, <2>2, <3>1
      DEF vars, scanner, file, ScanInv, LastIsDefined, LastInStep, StrayIsOdd, InStep,
          NothingTwice, RefusedOnlyWithoutCase
  <2>3. CASE Next
    BY <1>1, <2>1, <2>3, ModuleClassScan, InnerClassScan, DefScan, OtherScan DEF Next
  <2> QED
    BY <1>1, <2>2, <2>3
<1> QED
  BY <1>1, InitScan, PTL DEF Spec

\* Whatever file is collected, however long: every test that unittest runs on the
\* host is reported by an item, if its class keeps the conventions.
THEOREM CollectsEveryTest == Spec => []NothingMissed
<1>1. ASSUME ScanInv PROVE NothingMissed
  <2> SUFFICES ASSUME NEW t \in HostTests, t[1] \notin odd
               PROVE  \E i \in Items : t \in ResultsOf(i)
    BY DEF NothingMissed
  <2>1. /\ t[1] \in Classes /\ t[2] \in Methods /\ t = <<t[1], t[2]>>
        /\ t[1] \in cases /\ t[2] \in methods[t[1]] /\ t # Suite
    BY NamesAssumption DEF HostTests
  <2>2. t \in Collected
    BY <1>1, <2>1 DEF ScanInv, InStep
  <2>3. has_case /\ tests # <<>>
    BY <1>1, <2>1, <2>2 DEF ScanInv, RefusedOnlyWithoutCase, Collected
  <2>4. Items = Collected
    BY <2>3 DEF Items
  <2> QED
    BY <2>1, <2>2, <2>4 DEF ResultsOf
<1> QED
  BY <1>1, ScanInvariant, PTL

\* Every item has a result on the host to report, if its class keeps the
\* conventions.
THEOREM CollectsOnlyTests == Spec => []NothingInvented
<1>1. ASSUME ScanInv PROVE NothingInvented
  <2> SUFFICES ASSUME NEW i \in Items \ {Suite}, i[1] \notin odd PROVE ResultsOf(i) # {}
    BY DEF NothingInvented
  <2>1. i \in Collected
    BY DEF Items
  <2>2. i \in Classes \X Methods
    BY <1>1, <2>1 DEF ScanInv, TypeOK, Collected
  <2>3. i \in HostTests
    BY <1>1, <2>1, <2>2 DEF ScanInv, InStep, HostTests
  <2> QED
    BY <2>3 DEF ResultsOf
<1> QED
  BY <1>1, ScanInvariant, PTL

\* No test is collected twice, if its class keeps the conventions.
THEOREM CollectsOnce == Spec => []NothingTwice
<1>1. ScanInv => NothingTwice
  BY DEF ScanInv
<1> QED
  BY <1>1, ScanInvariant, PTL

\* A file is refused only if it has no test case that keeps the conventions.
THEOREM RefusesRightly == Spec => []RefusedOnlyWithoutCase
<1>1. ScanInv => RefusedOnlyWithoutCase
  BY DEF ScanInv
<1> QED
  BY <1>1, ScanInvariant, PTL
=============================================================================
