---------------------------- MODULE StartupProofs ----------------------------
(***************************************************************************)
(* Proofs about CommandLine and Startup.                                   *)
(*                                                                         *)
(* CommandLine, for command lines of every length and words of every kind: *)
(* reading argument by argument gives what the line says as a whole.  The  *)
(* invariant says that of the words before the next one.                   *)
(*                                                                         *)
(* Startup, for texts of every length: break_string finds the words of a   *)
(* text, the configuration block tells settings apart but for characters   *)
(* 0, and so the lists hold the words of the file and the notice of a      *)
(* search is right.  The proofs follow both loops over a text with one     *)
(* notion, that a list of words and a last one are what has been read.     *)
(***************************************************************************)
EXTENDS Startup, SequenceTheorems, NumberLemmas

-----------------------------------------------------------------------------
(* Which words are values *)

Line == Seq(STRING)

\* What the word before k says about k.
LEMMA ValuesRule ==
  ASSUME NEW line \in Line, NEW k \in DOMAIN line
  PROVE  k \in Values(line) <=> k > 1 /\ line[k - 1] \in Takes /\ k - 1 \notin Values(line)
<1> DEFINE N == Len(line)
           step == [w \in (1 .. N) \X BOOLEAN |-> w[1] > 1 /\ line[w[1] - 1] \in Takes /\ ~ w[2]]
           eqn(f) == f = [j \in 0 .. Len(line) |-> j > 1 /\ line[j - 1] \in Takes /\ ~ f[j - 1]]
           isValue == CHOOSE f : eqn(f)
<1>1. N \in Nat /\ DOMAIN line = 1 .. N
  BY DEF Line
<1>2. step \in Steps(N, BOOLEAN)
  BY DEF Steps
<1>3. PICK f : IsLoop(f, N, BOOLEAN, FALSE, step)
  <2> HIDE DEF step
  <2> QED BY <1>1, <1>2, LoopDefined
<1>4. eqn(f)
  <2>1. f \in [0 .. N -> BOOLEAN] /\ f[0] = FALSE
    BY <1>3 DEF IsLoop
  <2>2. ASSUME NEW j \in 0 .. N PROVE f[j] = (j > 1 /\ line[j - 1] \in Takes /\ ~ f[j - 1])
    <3>1. CASE j = 0
      BY <2>1, <3>1
    <3>2. CASE j # 0
      <4>1. j \in 1 .. N /\ j - 1 \in 0 .. N
        BY <1>1, <3>2
      <4>2. f[j] = step[<< j, f[j - 1] >>]
        BY <1>3, <4>1, Zenon DEF IsLoop
      <4> QED BY <2>1, <4>1, <4>2
    <3> QED BY <3>1, <3>2
  <2> QED BY <2>1, <2>2
<1>5. eqn(isValue)
  BY <1>4
<1> HIDE DEF isValue
<1>6. \A j \in 0 .. N : isValue[j] = (j > 1 /\ line[j - 1] \in Takes /\ ~ isValue[j - 1])
  BY <1>5
<1>7. Values(line) = {j \in DOMAIN line : isValue[j]}
  BY Zenon DEF Values, isValue
<1>8. k \in 1 .. N /\ k \in 0 .. N /\ (k > 1 => k - 1 \in DOMAIN line)
  BY <1>1
<1> QED BY <1>6, <1>7, <1>8

\* The word before j is no option that j would be the value of.
Boundary(line, j) == j > 1 /\ line[j - 1] \in Takes => j - 1 \in Values(line)

\* Those of the positions ks that are before j.
Before(ks, j) == {k \in ks : k < j}

\* With the words at js, the positions before j become those before l.
Grows(ks, j, l, js) == Before(ks, l) = Before(ks, j) \cup js

If(b, k) == IF b THEN {k} ELSE {}

LEMMA NextIsNoValue ==
  ASSUME NEW line \in Line, NEW j \in DOMAIN line, Boundary(line, j)
  PROVE  j \notin Values(line)
BY ValuesRule DEF Boundary

\* After a word that takes no value.
LEMMA PassWord ==
  ASSUME NEW line \in Line, NEW j \in DOMAIN line, Boundary(line, j), line[j] \notin Takes
  PROVE  /\ Boundary(line, j + 1)
         /\ \A words : Grows(Options(line, words), j, j + 1, If(line[j] \in words, j))
         /\ \A o \in Takes : Grows(ValuesOf(line, o), j, j + 1, {})
         /\ Grows(MethodsOf(line), j, j + 1, {})
         /\ Grows(SymbolsOf(line), j, j + 1, If(line[j] \notin Dashed /\ line[j] # "", j))
         /\ Grows(EmptyWords(line), j, j + 1, If(line[j] = "", j))
<1>1. j \notin Values(line)
  BY NextIsNoValue
<1>2. DOMAIN line \in SUBSET Nat /\ j \in Nat
  BY DEF Line
<1>3. \A k \in DOMAIN line : k < j + 1 <=> k < j \/ k = j
  BY <1>2
<1>4. Boundary(line, j + 1)
  BY <1>2 DEF Boundary
<1>5. ASSUME NEW words PROVE Grows(Options(line, words), j, j + 1, If(line[j] \in words, j))
  BY <1>1, <1>3 DEF Grows, Before, Options, If
<1>6. ASSUME NEW o \in Takes PROVE Grows(ValuesOf(line, o), j, j + 1, {})
  <2>1. ASSUME NEW k \in Options(line, {o}), k + 1 < j + 1 PROVE k + 1 < j
    <3>1. k \in DOMAIN line /\ line[k] \in Takes /\ k \notin Values(line)
      BY DEF Options
    <3>2. k \in Nat
      BY <1>2, <3>1
    <3>3. k + 1 # j
      <4>1. j \in Values(line) <=> j > 1 /\ line[j - 1] \in Takes /\ j - 1 \notin Values(line)
        BY ValuesRule
      <4>2. j - 1 # k
        <5>1. 1 <= k
          BY <3>1, DOMAIN line = 1 .. Len(line) DEF Line
        <5>2. j - 1 = k => j > 1
          BY <1>2, <3>2, <5>1
        <5> QED BY <1>1, <3>1, <4>1, <5>2
      <4> QED BY <1>2, <3>2, <4>2
    <3> QED BY <1>2, <2>1, <3>2, <3>3
  <2>2. \A k \in Options(line, {o}) : k \in Nat
    BY <1>2 DEF Options
  <2> QED BY <1>2, <2>1, <2>2 DEF Grows, Before, ValuesOf
<1>7. Grows(MethodsOf(line), j, j + 1, {})
  <2>1. Grows(ValuesOf(line, "-m"), j, j + 1, {})
    BY <1>6 DEF Takes
  <2> QED BY <2>1 DEF Grows, Before, MethodsOf
<1>8. Grows(SymbolsOf(line), j, j + 1, If(line[j] \notin Dashed /\ line[j] # "", j))
  BY <1>1, <1>3 DEF Grows, Before, SymbolsOf, If
<1>9. Grows(EmptyWords(line), j, j + 1, If(line[j] = "", j))
  BY <1>1, <1>3 DEF Grows, Before, EmptyWords, If
<1> QED BY <1>4, <1>5, <1>6, <1>7, <1>8, <1>9

\* After an option with its value.
LEMMA PassOption ==
  ASSUME NEW line \in Line, NEW j \in DOMAIN line, Boundary(line, j), line[j] \in Takes,
         j + 1 \in DOMAIN line
  PROVE  /\ Boundary(line, j + 2)
         /\ \A words : Grows(Options(line, words), j, j + 2, If(line[j] \in words, j))
         /\ \A o \in Takes : Grows(ValuesOf(line, o), j, j + 2, If(line[j] = o, j + 1))
         /\ Grows(MethodsOf(line), j, j + 2, If(line[j] = "-m" /\ line[j + 1] \in Methods, j + 1))
         /\ Grows(SymbolsOf(line), j, j + 2, {})
         /\ Grows(EmptyWords(line), j, j + 2, {})
<1>1. j \notin Values(line)
  BY NextIsNoValue
<1>2. DOMAIN line \in SUBSET Nat /\ j \in Nat
  BY DEF Line
<1>3. \A k \in DOMAIN line : k < j + 2 <=> k < j \/ k = j \/ k = j + 1
  BY <1>2
<1>4. j + 1 \in Values(line)
  <2>1. j + 1 > 1 /\ (j + 1) - 1 = j
    BY <1>2, DOMAIN line = 1 .. Len(line) DEF Line
  <2> QED BY <1>1, <2>1, ValuesRule
<1>5. Boundary(line, j + 2)
  <2>1. (j + 2) - 1 = j + 1
    BY <1>2
  <2> QED BY <1>4, <2>1 DEF Boundary
<1>6. ASSUME NEW words PROVE Grows(Options(line, words), j, j + 2, If(line[j] \in words, j))
  BY <1>1, <1>3, <1>4 DEF Grows, Before, Options, If
<1>7. ASSUME NEW o \in Takes PROVE Grows(ValuesOf(line, o), j, j + 2, If(line[j] = o, j + 1))
  <2>1. ASSUME NEW k \in Options(line, {o}) PROVE k + 1 < j + 2 <=> k + 1 < j \/ k = j
    <3>1. k \in DOMAIN line /\ line[k] \in Takes /\ k \notin Values(line)
      BY DEF Options
    <3>2. k \in Nat
      BY <1>2, <3>1
    <3>3. k + 1 # j
      <4>1. j \in Values(line) <=> j > 1 /\ line[j - 1] \in Takes /\ j - 1 \notin Values(line)
        BY ValuesRule
      <4>2. j - 1 # k
        <5>1. 1 <= k
          BY <3>1, DOMAIN line = 1 .. Len(line) DEF Line
        <5>2. j - 1 = k => j > 1
          BY <1>2, <3>2, <5>1
        <5> QED BY <1>1, <3>1, <4>1, <5>2
      <4> QED BY <1>2, <3>2, <4>2
    <3> QED BY <1>2, <2>1, <3>2, <3>3
  <2>2. \A k \in Options(line, {o}) : k \in Nat
    BY <1>2 DEF Options
  <2>3. j \in Options(line, {o}) <=> line[j] = o
    BY <1>1 DEF Options
  <2> QED BY <1>2, <2>1, <2>2, <2>3 DEF Grows, Before, ValuesOf, If
<1>8. Grows(MethodsOf(line), j, j + 2, If(line[j] = "-m" /\ line[j + 1] \in Methods, j + 1))
  <2>1. Grows(ValuesOf(line, "-m"), j, j + 2, If(line[j] = "-m", j + 1))
    BY <1>7 DEF Takes
  <2> QED BY <2>1 DEF Grows, Before, MethodsOf, If
<1>9. Grows(SymbolsOf(line), j, j + 2, {})
  <2>1. line[j] \in Dashed
    BY DEF Takes, Dashed
  <2> QED BY <1>1, <1>3, <1>4, <2>1 DEF Grows, Before, SymbolsOf
<1>10. Grows(EmptyWords(line), j, j + 2, {})
  <2>1. line[j] # ""
    BY DEF Takes
  <2> QED BY <1>1, <1>3, <1>4, <2>1 DEF Grows, Before, EmptyWords
<1> QED BY <1>5, <1>6, <1>7, <1>8, <1>9, <1>10

-----------------------------------------------------------------------------
(* What the words before the next one say *)

SearchWords(line) == Options(line, {"-r", "-f"}) \cup ValuesOf(line, "--search-type")

VisibilityOf(w) == IF w \in DOMAIN Visibility THEN Visibility[w] ELSE Unset

\* Nothing before j makes the line one not to be taken.
LegalBefore(line, j) ==
  /\ Before(Options(line, {"-d", "-x"}), j) = {}
  /\ \A k \in Before(ValuesOf(line, "--search-type"), j) : line[k] \in SearchTypes
  /\ \A k \in Before(ValuesOf(line, "--symbol-visibility"), j) : line[k] \in DOMAIN Visibility
  /\ \A k \in Before(MethodsOf(line), j), l \in Before(Options(line, {"-m"}), j) : l < k
  /\ \A k \in Before(SymbolsOf(line), j), l \in Before(SymbolsOf(line), j) : k = l
  /\ \A k \in Before(SymbolsOf(line), j), l \in Before(EmptyWords(line), j) : l < k

\* o says what the words before j say.
MeansBefore(line, j, o) ==
  /\ o.print_help = (Before(Options(line, {"-h"}), j) # {})
  /\ o.show_version = (Before(Options(line, {"-v"}), j) # {})
  /\ o.debug_mode = FALSE
  /\ o.running_method = LastWord(line, Before(MethodsOf(line), j), Unset)
  /\ o.search_type = SearchOf(LastWord(line, Before(SearchWords(line), j), Unset))
  /\ o.visibility = VisibilityOf(LastWord(line, Before(ValuesOf(line, "--symbol-visibility"), j), Unset))
  /\ o.scan_root_path = LastWord(line, Before(ValuesOf(line, "-s"), j), "")
  /\ o.symbol = LastWord(line, Before(SymbolsOf(line), j), "")

IsOptions(o) ==
  /\ o = [running_method |-> o.running_method, search_type |-> o.search_type,
          visibility |-> o.visibility, scan_root_path |-> o.scan_root_path, symbol |-> o.symbol,
          debug_mode |-> o.debug_mode, show_version |-> o.show_version, print_help |-> o.print_help]
  /\ o.show_version \in BOOLEAN /\ o.print_help \in BOOLEAN

\* The loop has read the words before j and made o of them.
Reading(line, j, o) ==
  /\ line # << >> /\ j \in 1 .. Len(line) + 1
  /\ Boundary(line, j) /\ LegalBefore(line, j) /\ MeansBefore(line, j, o)

\* What the loop passes when it goes from j to l: the word at j and, if value,
\* the one behind it as its value.
Passes(line, j, l, value) ==
  /\ \A words : Grows(Options(line, words), j, l, If(line[j] \in words, j))
  /\ \A o \in Takes : Grows(ValuesOf(line, o), j, l, If(value /\ line[j] = o, j + 1))
  /\ Grows(SearchWords(line), j, l,
           If(line[j] \in {"-r", "-f"}, j) \cup If(value /\ line[j] = "--search-type", j + 1))
  /\ Grows(MethodsOf(line), j, l, If(value /\ line[j] = "-m" /\ line[j + 1] \in Methods, j + 1))
  /\ Grows(SymbolsOf(line), j, l, If(~ value /\ line[j] \notin Dashed /\ line[j] # "", j))
  /\ Grows(EmptyWords(line), j, l, If(~ value /\ line[j] = "", j))

LEMMA WordPassed ==
  ASSUME NEW line \in Line, NEW j \in DOMAIN line, Boundary(line, j), line[j] \notin Takes
  PROVE  Boundary(line, j + 1) /\ Passes(line, j, j + 1, FALSE)
<1>1. Grows(SearchWords(line), j, j + 1, If(line[j] \in {"-r", "-f"}, j))
  <2>1. Grows(Options(line, {"-r", "-f"}), j, j + 1, If(line[j] \in {"-r", "-f"}, j))
    BY PassWord
  <2>2. Grows(ValuesOf(line, "--search-type"), j, j + 1, {})
    BY PassWord DEF Takes
  <2> QED BY <2>1, <2>2 DEF Grows, Before, SearchWords
<1>2. \A k : If(FALSE, k) = {}
  BY DEF If
<1>3. ASSUME NEW o \in Takes PROVE Grows(ValuesOf(line, o), j, j + 1, If(FALSE /\ line[j] = o, j + 1))
  <2>1. Grows(ValuesOf(line, o), j, j + 1, {})
    BY PassWord
  <2> QED BY <2>1 DEF If
<1>4. Grows(SearchWords(line), j, j + 1,
            If(line[j] \in {"-r", "-f"}, j) \cup If(FALSE /\ line[j] = "--search-type", j + 1))
  BY <1>1 DEF If
<1>5. Grows(MethodsOf(line), j, j + 1, If(FALSE /\ line[j] = "-m" /\ line[j + 1] \in Methods, j + 1))
  <2>1. Grows(MethodsOf(line), j, j + 1, {})
    BY PassWord
  <2> QED BY <2>1 DEF If
<1>6. /\ Grows(SymbolsOf(line), j, j + 1, If(~ FALSE /\ line[j] \notin Dashed /\ line[j] # "", j))
      /\ Grows(EmptyWords(line), j, j + 1, If(~ FALSE /\ line[j] = "", j))
  BY PassWord, Zenon
<1>7. /\ Boundary(line, j + 1)
      /\ \A words : Grows(Options(line, words), j, j + 1, If(line[j] \in words, j))
  BY PassWord
<1> QED BY <1>3, <1>4, <1>5, <1>6, <1>7, Zenon DEF Passes

LEMMA OptionPassed ==
  ASSUME NEW line \in Line, NEW j \in DOMAIN line, Boundary(line, j), line[j] \in Takes,
         j + 1 \in DOMAIN line
  PROVE  Boundary(line, j + 2) /\ Passes(line, j, j + 2, TRUE)
<1>1. Grows(SearchWords(line), j, j + 2,
            If(line[j] \in {"-r", "-f"}, j) \cup If(TRUE /\ line[j] = "--search-type", j + 1))
  <2>1. Grows(Options(line, {"-r", "-f"}), j, j + 2, If(line[j] \in {"-r", "-f"}, j))
    BY PassOption
  <2>2. Grows(ValuesOf(line, "--search-type"), j, j + 2, If(line[j] = "--search-type", j + 1))
    BY PassOption DEF Takes
  <2>3. If(TRUE /\ line[j] = "--search-type", j + 1) = If(line[j] = "--search-type", j + 1)
    BY DEF If
  <2> QED BY <2>1, <2>2, <2>3 DEF Grows, Before, SearchWords
<1>2. ASSUME NEW o \in Takes PROVE Grows(ValuesOf(line, o), j, j + 2, If(TRUE /\ line[j] = o, j + 1))
  <2>1. Grows(ValuesOf(line, o), j, j + 2, If(line[j] = o, j + 1))
    BY PassOption
  <2> QED BY <2>1 DEF If
<1>3. Grows(MethodsOf(line), j, j + 2, If(TRUE /\ line[j] = "-m" /\ line[j + 1] \in Methods, j + 1))
  <2>1. Grows(MethodsOf(line), j, j + 2, If(line[j] = "-m" /\ line[j + 1] \in Methods, j + 1))
    BY PassOption
  <2> QED BY <2>1 DEF If
<1>4. Grows(SymbolsOf(line), j, j + 2, If(~ TRUE /\ line[j] \notin Dashed /\ line[j] # "", j))
  <2>1. Grows(SymbolsOf(line), j, j + 2, {})
    BY PassOption
  <2> QED BY <2>1 DEF If
<1>5. Grows(EmptyWords(line), j, j + 2, If(~ TRUE /\ line[j] = "", j))
  <2>1. Grows(EmptyWords(line), j, j + 2, {})
    BY PassOption
  <2> QED BY <2>1 DEF If
<1>6. /\ Boundary(line, j + 2)
      /\ \A words : Grows(Options(line, words), j, j + 2, If(line[j] \in words, j))
  BY PassOption
<1> QED BY <1>1, <1>2, <1>3, <1>4, <1>5, <1>6, Zenon DEF Passes

\* What is passed leaves the line legal so far, if no option is unknown, no
\* value is none of the option's words, and no method or symbol is a second one.
LEMMA StaysLegal ==
  ASSUME NEW line \in Line, NEW j \in DOMAIN line, NEW l \in Nat, NEW value \in BOOLEAN,
         Passes(line, j, l, value), LegalBefore(line, j),
         line[j] \notin {"-d", "-x"},
         value /\ line[j] = "--search-type" => line[j + 1] \in SearchTypes,
         value /\ line[j] = "--symbol-visibility" => line[j + 1] \in DOMAIN Visibility,
         line[j] = "-m" => Before(MethodsOf(line), j) = {},
         ~ value /\ line[j] \notin Dashed => Before(SymbolsOf(line), j) = {}
  PROVE  LegalBefore(line, l)
<1>0. DOMAIN line \in SUBSET Nat /\ j \in Nat
  BY DEF Line
<1>1. Before(Options(line, {"-d", "-x"}), l) = {}
  <2>1. Grows(Options(line, {"-d", "-x"}), j, l, If(line[j] \in {"-d", "-x"}, j))
    BY Zenon DEF Passes
  <2> QED BY <2>1 DEF Grows, If, LegalBefore
<1>2. \A k \in Before(ValuesOf(line, "--search-type"), l) : line[k] \in SearchTypes
  <2>1. Grows(ValuesOf(line, "--search-type"), j, l, If(value /\ line[j] = "--search-type", j + 1))
    BY Zenon DEF Passes, Takes
  <2>2. \A k \in Before(ValuesOf(line, "--search-type"), j) : line[k] \in SearchTypes
    BY DEF LegalBefore
  <2> QED BY <2>1, <2>2 DEF Grows, If
<1>3. \A k \in Before(ValuesOf(line, "--symbol-visibility"), l) : line[k] \in DOMAIN Visibility
  <2>1. Grows(ValuesOf(line, "--symbol-visibility"), j, l, If(value /\ line[j] = "--symbol-visibility", j + 1))
    BY Zenon DEF Passes, Takes
  <2>2. \A k \in Before(ValuesOf(line, "--symbol-visibility"), j) : line[k] \in DOMAIN Visibility
    BY DEF LegalBefore
  <2> QED BY <2>1, <2>2 DEF Grows, If
<1>4. \A k \in Before(MethodsOf(line), l), n \in Before(Options(line, {"-m"}), l) : n < k
  <2>1. Grows(MethodsOf(line), j, l, If(value /\ line[j] = "-m" /\ line[j + 1] \in Methods, j + 1))
    BY Zenon DEF Passes
  <2>2. Grows(Options(line, {"-m"}), j, l, If(line[j] \in {"-m"}, j))
    BY Zenon DEF Passes
  <2>3. \A k \in Before(MethodsOf(line), j), n \in Before(Options(line, {"-m"}), j) : n < k
    BY DEF LegalBefore
  <2>4. \A n \in Before(Options(line, {"-m"}), j) : n \in Nat /\ n < j
    BY <1>0 DEF Before, Options
  <2>5. CASE line[j] = "-m"
    <3>1. Before(MethodsOf(line), l) \subseteq {j + 1}
      BY <2>1, <2>5 DEF Grows, If
    <3>2. \A n \in Before(Options(line, {"-m"}), l) : n \in Nat /\ n <= j
      BY <1>0, <2>2, <2>4 DEF Grows, If
    <3> QED BY <1>0, <3>1, <3>2
  <2>6. CASE line[j] # "-m"
    BY <2>1, <2>2, <2>3, <2>6 DEF Grows, If
  <2> QED BY <2>5, <2>6
<1>5. Grows(SymbolsOf(line), j, l, If(~ value /\ line[j] \notin Dashed /\ line[j] # "", j))
  BY Zenon DEF Passes
<1>6. \A k \in Before(SymbolsOf(line), l), n \in Before(SymbolsOf(line), l) : k = n
  <2>1. \A k \in Before(SymbolsOf(line), j), n \in Before(SymbolsOf(line), j) : k = n
    BY DEF LegalBefore
  <2> QED BY <1>5, <2>1 DEF Grows, If
<1>7. \A k \in Before(SymbolsOf(line), l), n \in Before(EmptyWords(line), l) : n < k
  <2>1. Grows(EmptyWords(line), j, l, If(~ value /\ line[j] = "", j))
    BY Zenon DEF Passes
  <2>2. \A k \in Before(SymbolsOf(line), j), n \in Before(EmptyWords(line), j) : n < k
    BY DEF LegalBefore
  <2>3. \A n \in Before(EmptyWords(line), j) : n < j
    BY DEF Before
  <2>4. "" \notin Dashed
    BY DEF Dashed
  <2> QED BY <1>5, <2>1, <2>2, <2>3, <2>4 DEF Grows, If
<1> QED BY <1>1, <1>2, <1>3, <1>4, <1>6, <1>7, Zenon DEF LegalBefore

\* A later word replaces an earlier one.
LEMMA LastOf ==
  ASSUME NEW line \in Line, NEW ks \in SUBSET Nat, NEW j \in Nat, NEW l \in Nat, NEW n \in Nat,
         NEW b \in BOOLEAN, NEW default, j <= n, Grows(ks, j, l, If(b, n))
  PROVE  LastWord(line, Before(ks, l), default)
           = IF b THEN line[n] ELSE LastWord(line, Before(ks, j), default)
<1>1. CASE ~ b
  <2>1. Before(ks, l) = Before(ks, j)
    BY <1>1 DEF Grows, If
  <2> QED BY <1>1, <2>1
<1>2. CASE b
  <2>1. PICK S : S = Before(ks, l)
    OBVIOUS
  <2>2. n \in S /\ \A k \in S : k \in Nat /\ k <= n
    BY <1>2, <2>1 DEF Grows, If, Before
  <2>3. Max(S) = n
    <3>1. \E x \in S : \A y \in S : x >= y
      BY <2>2
    <3>2. Max(S) \in S /\ \A y \in S : Max(S) >= y
      BY <3>1 DEF Max
    <3>3. PICK m : m = Max(S)
      OBVIOUS
    <3>4. m \in Nat /\ m <= n /\ m >= n
      BY <2>2, <3>2, <3>3
    <3> QED BY <3>3, <3>4
  <2> QED BY <1>2, <2>1, <2>2, <2>3 DEF LastWord
<1> QED BY <1>1, <1>2

\* What the options o become by what is passed.
Told(line, j, value, o, p) ==
  /\ p.print_help = (o.print_help \/ line[j] = "-h")
  /\ p.show_version = (o.show_version \/ line[j] = "-v")
  /\ p.debug_mode = o.debug_mode
  /\ p.running_method = IF value /\ line[j] = "-m" /\ line[j + 1] \in Methods
                          THEN line[j + 1] ELSE o.running_method
  /\ p.search_type = IF line[j] \in {"-r", "-f"} THEN SearchOf(line[j])
                     ELSE IF value /\ line[j] = "--search-type" THEN SearchOf(line[j + 1])
                     ELSE o.search_type
  /\ p.visibility = IF value /\ line[j] = "--symbol-visibility"
                      THEN VisibilityOf(line[j + 1]) ELSE o.visibility
  /\ p.scan_root_path = IF value /\ line[j] = "-s" THEN line[j + 1] ELSE o.scan_root_path
  /\ p.symbol = IF ~ value /\ line[j] \notin Dashed /\ line[j] # "" THEN line[j] ELSE o.symbol

LEMMA KeepsMeaning ==
  ASSUME NEW line \in Line, NEW j \in DOMAIN line, NEW l \in Nat, NEW value \in BOOLEAN,
         NEW o, NEW p, Passes(line, j, l, value), MeansBefore(line, j, o), Told(line, j, value, o, p)
  PROVE  MeansBefore(line, l, p)
<1>0. DOMAIN line \in SUBSET Nat /\ j \in Nat /\ j + 1 \in Nat /\ j <= j + 1 /\ j <= j
  BY DEF Line
<1>01. ASSUME NEW ks \in SUBSET Nat, NEW n \in {j, j + 1}, NEW b \in BOOLEAN, NEW default, 
              Grows(ks, j, l, If(b, n))
       PROVE  LastWord(line, Before(ks, l), default)
                = IF b THEN line[n] ELSE LastWord(line, Before(ks, j), default)
  <2>1. n \in Nat /\ j <= n
    BY <1>0
  <2> QED BY <1>0, <1>01, <2>1, LastOf
<1>1. p.print_help = (Before(Options(line, {"-h"}), l) # {})
  <2>1. Grows(Options(line, {"-h"}), j, l, If(line[j] \in {"-h"}, j))
    BY Zenon DEF Passes
  <2> QED BY <2>1 DEF Grows, If, MeansBefore, Told
<1>2. p.show_version = (Before(Options(line, {"-v"}), l) # {})
  <2>1. Grows(Options(line, {"-v"}), j, l, If(line[j] \in {"-v"}, j))
    BY Zenon DEF Passes
  <2> QED BY <2>1 DEF Grows, If, MeansBefore, Told
<1>3. p.debug_mode = FALSE
  BY DEF MeansBefore, Told
<1>4. \A option : ValuesOf(line, option) \in SUBSET Nat
  BY <1>0 DEF ValuesOf, Options
<1>5. p.running_method = LastWord(line, Before(MethodsOf(line), l), Unset)
  <2>1. MethodsOf(line) \in SUBSET Nat
    BY <1>0 DEF MethodsOf
  <2>2. PICK b \in BOOLEAN : b = (value /\ line[j] = "-m" /\ line[j + 1] \in Methods)
    OBVIOUS
  <2>3. Grows(MethodsOf(line), j, l, If(b, j + 1))
    BY <2>2, Zenon DEF Passes
  <2>4. LastWord(line, Before(MethodsOf(line), l), Unset)
          = IF b THEN line[j + 1] ELSE LastWord(line, Before(MethodsOf(line), j), Unset)
    BY <1>0, <2>1, <2>3, <1>01
  <2> QED BY <2>2, <2>4 DEF MeansBefore, Told
<1>6. p.visibility = VisibilityOf(LastWord(line, Before(ValuesOf(line, "--symbol-visibility"), l), Unset))
  <2>1. PICK b \in BOOLEAN : b = (value /\ line[j] = "--symbol-visibility")
    OBVIOUS
  <2>2. Grows(ValuesOf(line, "--symbol-visibility"), j, l, If(b, j + 1))
    BY <2>1, Zenon DEF Passes, Takes
  <2>3. LastWord(line, Before(ValuesOf(line, "--symbol-visibility"), l), Unset)
          = IF b THEN line[j + 1] ELSE LastWord(line, Before(ValuesOf(line, "--symbol-visibility"), j), Unset)
    BY <1>4, <2>1, <2>2, <1>01
  <2> QED BY <2>1, <2>3 DEF MeansBefore, Told
<1>7. p.scan_root_path = LastWord(line, Before(ValuesOf(line, "-s"), l), "")
  <2>1. PICK b \in BOOLEAN : b = (value /\ line[j] = "-s")
    OBVIOUS
  <2>2. Grows(ValuesOf(line, "-s"), j, l, If(b, j + 1))
    BY <2>1, Zenon DEF Passes, Takes
  <2>3. LastWord(line, Before(ValuesOf(line, "-s"), l), "")
          = IF b THEN line[j + 1] ELSE LastWord(line, Before(ValuesOf(line, "-s"), j), "")
    BY <1>4, <2>1, <2>2, <1>01
  <2> QED BY <2>1, <2>3 DEF MeansBefore, Told
<1>8. p.symbol = LastWord(line, Before(SymbolsOf(line), l), "")
  <2>1. SymbolsOf(line) \in SUBSET Nat
    BY <1>0 DEF SymbolsOf
  <2>2. PICK b \in BOOLEAN : b = (~ value /\ line[j] \notin Dashed /\ line[j] # "")
    OBVIOUS
  <2>3. Grows(SymbolsOf(line), j, l, If(b, j))
    BY <2>2, Zenon DEF Passes
  <2>4. LastWord(line, Before(SymbolsOf(line), l), "")
          = IF b THEN line[j] ELSE LastWord(line, Before(SymbolsOf(line), j), "")
    BY <1>4, <2>1, <2>3, <1>01
  <2> QED BY <2>2, <2>4 DEF MeansBefore, Told
<1>9. p.search_type = SearchOf(LastWord(line, Before(SearchWords(line), l), Unset))
  <2>1. SearchWords(line) \in SUBSET Nat
    BY <1>0, <1>4 DEF SearchWords, Options
  <2>2. Grows(SearchWords(line), j, l,
              If(line[j] \in {"-r", "-f"}, j) \cup If(value /\ line[j] = "--search-type", j + 1))
    BY Zenon DEF Passes
  <2>3. CASE line[j] \in {"-r", "-f"}
    <3>1. PICK b \in BOOLEAN : b = TRUE
      OBVIOUS
    <3>2. Grows(SearchWords(line), j, l, If(b, j))
      BY <2>2, <2>3, <3>1 DEF If
    <3>4. LastWord(line, Before(SearchWords(line), l), Unset) = line[j]
      BY <1>01, <2>1, <3>1, <3>2
    <3> QED BY <2>3, <3>4 DEF Told
  <2>4. CASE line[j] \notin {"-r", "-f"}
    <3>1. PICK b \in BOOLEAN : b = (value /\ line[j] = "--search-type")
      OBVIOUS
    <3>2. Grows(SearchWords(line), j, l, If(b, j + 1))
      BY <2>2, <2>4, <3>1 DEF If
    <3>3. LastWord(line, Before(SearchWords(line), l), Unset)
            = IF b THEN line[j + 1] ELSE LastWord(line, Before(SearchWords(line), j), Unset)
      BY <1>0, <2>1, <3>2, <1>01
    <3> QED BY <2>4, <3>1, <3>3 DEF MeansBefore, Told
  <2> QED BY <2>3, <2>4
<1> QED BY <1>1, <1>2, <1>3, <1>5, <1>6, <1>7, <1>8, <1>9, Zenon DEF MeansBefore

LEMMA TakesWord ==
  ASSUME NEW line \in Line, NEW j \in DOMAIN line, NEW o, NEW p, Reading(line, j, o),
         line[j] \notin Takes, line[j] \notin {"-d", "-x"},
         line[j] \notin Dashed => Before(SymbolsOf(line), j) = {},
         Told(line, j, FALSE, o, p)
  PROVE  Reading(line, j + 1, p)
<1>1. Boundary(line, j) /\ LegalBefore(line, j) /\ MeansBefore(line, j, o) /\ line # << >>
  BY DEF Reading
<1>2. Boundary(line, j + 1) /\ Passes(line, j, j + 1, FALSE)
  BY <1>1, WordPassed
<1>3. j + 1 \in Nat /\ j + 1 \in 1 .. Len(line) + 1
  BY DOMAIN line = 1 .. Len(line), Len(line) \in Nat DEF Line
<1>4. line[j] # "-m"
  BY DEF Takes
<1>5. LegalBefore(line, j + 1)
  BY <1>1, <1>2, <1>3, <1>4, StaysLegal
<1>6. MeansBefore(line, j + 1, p)
  BY <1>1, <1>2, <1>3, KeepsMeaning
<1> QED BY <1>1, <1>2, <1>3, <1>5, <1>6 DEF Reading

LEMMA TakesOption ==
  ASSUME NEW line \in Line, NEW j \in DOMAIN line, NEW o, NEW p, Reading(line, j, o),
         line[j] \in Takes, j + 1 \in DOMAIN line,
         line[j] = "--search-type" => line[j + 1] \in SearchTypes,
         line[j] = "--symbol-visibility" => line[j + 1] \in DOMAIN Visibility,
         line[j] = "-m" => Before(MethodsOf(line), j) = {},
         Told(line, j, TRUE, o, p)
  PROVE  Reading(line, j + 2, p)
<1>1. Boundary(line, j) /\ LegalBefore(line, j) /\ MeansBefore(line, j, o) /\ line # << >>
  BY DEF Reading
<1>2. Boundary(line, j + 2) /\ Passes(line, j, j + 2, TRUE)
  BY <1>1, OptionPassed
<1>3. j + 2 \in Nat /\ j + 2 \in 1 .. Len(line) + 1
  BY DOMAIN line = 1 .. Len(line), Len(line) \in Nat DEF Line
<1>4. line[j] \notin {"-d", "-x"}
  BY DEF Takes
<1>5. LegalBefore(line, j + 2)
  BY <1>1, <1>2, <1>3, <1>4, StaysLegal
<1>6. MeansBefore(line, j + 2, p)
  BY <1>1, <1>2, <1>3, KeepsMeaning
<1> QED BY <1>1, <1>2, <1>3, <1>5, <1>6 DEF Reading

LEMMA VisibilityWords ==
  /\ DOMAIN Visibility =
       {"defined", "runtime", "both", "only_defined", "only_runtime", "show_both"}
  /\ Visibility["only_defined"] = "only_defined"
  /\ Visibility["only_runtime"] = "only_runtime"
  /\ Visibility["show_both"] = "show_both"
  /\ Visibility["defined"] = "only_defined"
  /\ Visibility["runtime"] = "only_runtime"
  /\ Visibility["both"] = "show_both"
BY DEF Visibility

\* Before its first word a line says nothing.
LEMMA NothingRead ==
  ASSUME NEW line \in Line, line # << >>
  PROVE  Reading(line, 1, NoOptions)
<1>1. DOMAIN line = 1 .. Len(line) /\ Len(line) \in Nat
  BY DEF Line
<1>2. \A words : Before(Options(line, words), 1) = {}
  BY <1>1 DEF Before, Options
<1>3. \A option : Before(ValuesOf(line, option), 1) = {}
  BY <1>1 DEF Before, ValuesOf, Options
<1>4. Before(SearchWords(line), 1) = {}
  BY <1>2, <1>3 DEF Before, SearchWords
<1>5. Before(MethodsOf(line), 1) = {}
  BY <1>1 DEF Before, MethodsOf
<1>6. Before(SymbolsOf(line), 1) = {} /\ Before(EmptyWords(line), 1) = {}
  <2>1. SymbolsOf(line) \subseteq DOMAIN line /\ EmptyWords(line) \subseteq DOMAIN line
    BY DEF SymbolsOf, EmptyWords
  <2> QED BY <1>1, <2>1 DEF Before
<1>7. ASSUME NEW default PROVE LastWord(line, {}, default) = default
  BY Zenon DEF LastWord
<1>8. SearchOf(Unset) = Unset
  BY DEF SearchOf, Unset
<1>9. VisibilityOf(Unset) = Unset
  BY VisibilityWords DEF VisibilityOf, Unset
<1>10. LegalBefore(line, 1)
  BY <1>2, <1>3, <1>5, <1>6 DEF LegalBefore
<1>11. MeansBefore(line, 1, NoOptions)
  BY <1>2, <1>3, <1>4, <1>5, <1>6, <1>7, <1>8, <1>9 DEF MeansBefore, NoOptions
<1>12. Boundary(line, 1) /\ 1 \in 1 .. Len(line) + 1
  BY <1>1 DEF Boundary
<1> QED BY <1>10, <1>11, <1>12 DEF Reading

\* Behind the last word, what has been read is the whole line.
LEMMA AllRead ==
  ASSUME NEW line \in Line, NEW j, j = Len(line) + 1, Boundary(line, j)
  PROVE  /\ \A words : Before(Options(line, words), j) = Options(line, words)
         /\ \A o \in Takes : /\ ValuesOf(line, o) \subseteq DOMAIN line
                             /\ Before(ValuesOf(line, o), j) = ValuesOf(line, o)
         /\ Before(SearchWords(line), j) = SearchWords(line)
         /\ Before(MethodsOf(line), j) = MethodsOf(line)
         /\ Before(SymbolsOf(line), j) = SymbolsOf(line)
         /\ Before(EmptyWords(line), j) = EmptyWords(line)
<1>1. DOMAIN line = 1 .. Len(line) /\ Len(line) \in Nat
  BY DEF Line
<1>2. \A ks : ks \subseteq DOMAIN line => Before(ks, j) = ks
  BY <1>1 DEF Before
<1>3. \A words : Options(line, words) \subseteq DOMAIN line
  BY DEF Options
<1>4. ASSUME NEW o \in Takes PROVE ValuesOf(line, o) \subseteq DOMAIN line
  <2> SUFFICES ASSUME NEW k \in Options(line, {o}) PROVE k + 1 \in DOMAIN line
    BY DEF ValuesOf
  <2>1. k \in DOMAIN line /\ line[k] \in Takes /\ k \notin Values(line)
    BY DEF Options
  <2>2. k # Len(line)
    <3>1. SUFFICES ASSUME k = Len(line) PROVE FALSE
      OBVIOUS
    <3>2. j - 1 = k /\ j > 1
      BY <1>1, <2>1, <3>1
    <3> QED BY <2>1, <3>2 DEF Boundary
  <2> QED BY <1>1, <2>1, <2>2
<1>5. SearchWords(line) \subseteq DOMAIN line
  BY <1>3, <1>4 DEF SearchWords, Takes
<1>6. MethodsOf(line) \subseteq DOMAIN line /\ SymbolsOf(line) \subseteq DOMAIN line
        /\ EmptyWords(line) \subseteq DOMAIN line
  BY DEF MethodsOf, SymbolsOf, EmptyWords
<1> QED BY <1>2, <1>3, <1>4, <1>5, <1>6

-----------------------------------------------------------------------------
(* What the verdict says *)

\* What the loop and the checks after it let pass.
IsTaken(line) ==
  /\ line # << >>
  /\ Options(line, {"-d", "-x"}) = {}
  /\ UNION {ValuesOf(line, o) : o \in Takes} \subseteq DOMAIN line
  /\ \A k \in ValuesOf(line, "--search-type") : line[k] \in SearchTypes
  /\ \A k \in ValuesOf(line, "--symbol-visibility") : line[k] \in DOMAIN Visibility
  /\ \A k \in MethodsOf(line), l \in Options(line, {"-m"}) : l < k
  /\ Cardinality(SymbolsOf(line)) <= 1
  /\ \A k \in SymbolsOf(line), l \in EmptyWords(line) : l < k
  /\ \/ AsksForHelp(line)
     \/ SymbolsOf(line) # {}
     \/ \E k \in MethodsOf(line) : line[k] = "build_db"

AcceptedIsTaken ==
  /\ verdict = "accepted" => IsTaken(argv)
  /\ verdict \in {"refused", "aborted"} => ~ IsTaken(argv)

\* A set with one element at most.
LEMMA FewAreOne ==
  ASSUME NEW S, IsFiniteSet(S)
  PROVE  Cardinality(S) <= 1 <=> \A k, l \in S : k = l
<1>1. ASSUME NEW k \in S, NEW l \in S, k # l PROVE ~ (Cardinality(S) <= 1)
  <2>1. Cardinality({k, l}) = 2
    <3>1. Cardinality({k}) = 1 /\ IsFiniteSet({k})
      BY FS_Singleton
    <3>2. l \notin {k} /\ {k} \cup {l} = {k, l}
      BY <1>1
    <3>3. Cardinality({k} \cup {l}) = Cardinality({k}) + 1
      BY <3>1, <3>2, FS_AddElement, Zenon
    <3> QED BY <3>1, <3>2, <3>3
  <2>2. Cardinality({k, l}) <= Cardinality(S) /\ Cardinality(S) \in Nat
    BY FS_Subset, FS_CardinalityType, {k, l} \subseteq S
  <2> QED BY <2>1, <2>2
<1>2. ASSUME \A k, l \in S : k = l PROVE Cardinality(S) <= 1
  <2>1. CASE S = {}
    BY <2>1, FS_EmptySet
  <2>2. CASE S # {}
    <3>1. PICK k : S = {k}
      BY <1>2, <2>2
    <3>2. Cardinality({k}) = 1
      BY FS_Singleton
    <3> QED BY <3>1, <3>2
  <2> QED BY <2>1, <2>2
<1> QED BY <1>1, <1>2

\* A line with two symbols, or with an empty word behind its symbol, is not taken.
LEMMA OneSymbol ==
  ASSUME NEW line \in Line, IsTaken(line), NEW k \in SymbolsOf(line), NEW n \in DOMAIN line,
         n \notin Values(line), line[n] \notin Dashed, k < n
  PROVE  FALSE
<1>1. DOMAIN line = 1 .. Len(line) /\ Len(line) \in Nat
  BY DEF Line
<1>2. SymbolsOf(line) \subseteq 1 .. Len(line)
  BY <1>1 DEF SymbolsOf
<1>3. CASE line[n] = ""
  <2>1. n \in EmptyWords(line)
    BY <1>3 DEF EmptyWords
  <2>2. n < k
    BY <2>1 DEF IsTaken
  <2>3. k \in Nat /\ n \in Nat
    BY <1>1, <1>2
  <2> QED BY <2>2, <2>3
<1>4. CASE line[n] # ""
  <2>1. n \in SymbolsOf(line)
    BY <1>4 DEF SymbolsOf
  <2>2. k # n
    BY <1>1, <1>2
  <2>3. IsFiniteSet(SymbolsOf(line))
    <3>1. IsFiniteSet(1 .. Len(line))
      BY Len(line) \in Nat, FS_Interval DEF Line
    <3>2. SymbolsOf(line) \subseteq 1 .. Len(line)
      BY <1>1, <1>2
    <3> QED BY <3>1, <3>2, FS_Subset
  <2>4. Cardinality(SymbolsOf(line)) <= 1
    BY DEF IsTaken
  <2> QED BY <2>1, <2>2, <2>3, <2>4, FewAreOne
<1> QED BY <1>3, <1>4

\* Behind the last word, a line is taken just when it asks for help, has a
\* symbol, or has a database built.
LEMMA LegalAtEnd ==
  ASSUME NEW line \in Line, NEW j, j = Len(line) + 1, NEW o, Reading(line, j, o)
  PROVE  IsTaken(line) <=> \/ AsksForHelp(line)
                           \/ SymbolsOf(line) # {}
                           \/ \E k \in MethodsOf(line) : line[k] = "build_db"
<1>1. line # << >> /\ Boundary(line, j) /\ LegalBefore(line, j)
  BY DEF Reading
<1>2. Options(line, {"-d", "-x"}) = {}
  BY <1>1, AllRead DEF LegalBefore
<1>3. UNION {ValuesOf(line, option) : option \in Takes} \subseteq DOMAIN line
  <2>1. \A option \in Takes : ValuesOf(line, option) \subseteq DOMAIN line
    BY <1>1, AllRead
  <2> QED BY <2>1
<1>4. \A k \in ValuesOf(line, "--search-type") : line[k] \in SearchTypes
  BY <1>1, AllRead DEF LegalBefore, Takes
<1>5. \A k \in ValuesOf(line, "--symbol-visibility") : line[k] \in DOMAIN Visibility
  BY <1>1, AllRead DEF LegalBefore, Takes
<1>6. \A k \in MethodsOf(line), l \in Options(line, {"-m"}) : l < k
  BY <1>1, AllRead DEF LegalBefore
<1>7. \A k \in SymbolsOf(line), l \in EmptyWords(line) : l < k
  BY <1>1, AllRead DEF LegalBefore
<1>8. Cardinality(SymbolsOf(line)) <= 1
  <2>1. \A k \in SymbolsOf(line), l \in SymbolsOf(line) : k = l
    BY <1>1, AllRead DEF LegalBefore
  <2>2. IsFiniteSet(SymbolsOf(line))
    <3>1. DOMAIN line = 1 .. Len(line) /\ Len(line) \in Nat
      BY DEF Line
    <3>2. IsFiniteSet(1 .. Len(line))
      BY <3>1, FS_Interval
    <3>3. SymbolsOf(line) \subseteq 1 .. Len(line)
      BY <3>1 DEF SymbolsOf
    <3> QED BY <3>2, <3>3, FS_Subset
  <2>3. Cardinality(SymbolsOf(line)) <= 1 <=> \A k, l \in SymbolsOf(line) : k = l
    BY <2>2, FewAreOne, Zenon
  <2> QED BY <2>1, <2>3, Zenon
<1> QED BY <1>1, <1>2, <1>3, <1>4, <1>5, <1>6, <1>7, <1>8 DEF IsTaken

\* The last of the positions ks is one of them.
LEMMA LastIsOne ==
  ASSUME NEW N \in Nat, NEW ks \in SUBSET (1 .. N), ks # {}
  PROVE  Max(ks) \in ks
<1> DEFINE T == {m \in Nat : \A k \in ks : k <= m}
<1>1. N \in T
  OBVIOUS
<1>2. PICK m \in T : \A l \in T : m <= l
  BY <1>1, LeastElement
<1>3. m \in ks
  <2>1. SUFFICES ASSUME m \notin ks PROVE FALSE
    OBVIOUS
  <2>2. \A k \in ks : k \in Nat /\ 1 <= k /\ k <= m - 1
    <3>1. m \in Nat /\ \A k \in ks : k <= m
      OBVIOUS
    <3>2. ASSUME NEW k \in ks PROVE k \in Nat /\ 1 <= k /\ k # m
      BY <2>1
    <3> QED BY <3>1, <3>2
  <2>3. m - 1 \in Nat
    <3>1. PICK k \in ks : TRUE
      OBVIOUS
    <3> QED BY <2>2, <3>1
  <2>4. m - 1 \in T
    BY <2>2, <2>3
  <2> QED BY <1>2, <2>4
<1>4. \E x \in ks : \A y \in ks : x >= y
  BY <1>2, <1>3
<1> HIDE DEF T
<1> QED BY <1>4 DEF Max

\* A line's last word of a kind is a word of the kind; the default counts only
\* if there is none.
LEMMA LastIsThere ==
  ASSUME NEW line \in Line, NEW ks \in SUBSET DOMAIN line, NEW default, NEW other
  PROVE  LastWord(line, ks, default) =
           IF ks = {} THEN default ELSE LastWord(line, ks, other)
BY DEF LastWord

LEMMA LastOfKind ==
  ASSUME NEW line \in Line, NEW ks \in SUBSET DOMAIN line, ks # {}, NEW default
  PROVE  \E k \in ks : LastWord(line, ks, default) = line[k]
<1>1. DOMAIN line = 1 .. Len(line) /\ Len(line) \in Nat
  BY DEF Line
<1>2. Max(ks) \in ks
  BY <1>1, LastIsOne
<1> QED BY <1>2, Zenon DEF LastWord

\* Behind the last word, the options say what the line says, but for the
\* defaults and the scan path.
LEMMA MeaningAtEnd ==
  ASSUME NEW line \in Line, NEW j, j = Len(line) + 1, NEW o, IsOptions(o), Reading(line, j, o),
         ~ o.print_help, ~ o.show_version,
         NEW p, IsOptions(p),
         p.print_help = o.print_help, p.show_version = o.show_version, p.debug_mode = o.debug_mode,
         p.running_method = Default(o.running_method, "read_db"),
         p.search_type = Default(o.search_type, "default"),
         p.visibility = Default(o.visibility, "only_defined"),
         p.scan_root_path = KeptScanPath(o.scan_root_path, p.running_method),
         p.symbol = o.symbol
  PROVE  p = Meaning(line)
<1>1. Boundary(line, j) /\ LegalBefore(line, j) /\ MeansBefore(line, j, o)
  BY DEF Reading
<1>2. \A option \in Takes : ValuesOf(line, option) \in SUBSET DOMAIN line
  BY <1>1, AllRead
<1>3. p.running_method = LastWord(line, MethodsOf(line), "read_db")
  <2>1. PICK ks \in SUBSET DOMAIN line : ks = MethodsOf(line)
    BY DEF MethodsOf
  <2>2. o.running_method = LastWord(line, ks, Unset)
    BY <1>1, <2>1, AllRead DEF MeansBefore
  <2>3. CASE ks = {}
    BY <2>1, <2>2, <2>3, LastIsThere DEF Default
  <2>4. CASE ks # {}
    <3>1. PICK k \in ks : LastWord(line, ks, Unset) = line[k]
      BY <2>4, LastOfKind
    <3>2. line[k] # Unset
      BY <2>1 DEF MethodsOf, Methods, Unset
    <3>3. LastWord(line, ks, "read_db") = LastWord(line, ks, Unset)
      BY <2>4, LastIsThere
    <3> QED BY <2>1, <2>2, <3>1, <3>2, <3>3 DEF Default
  <2> QED BY <2>3, <2>4
<1>4. p.search_type = SearchOf(LastWord(line, SearchWords(line), "default"))
  <2>1. PICK ks \in SUBSET DOMAIN line : ks = SearchWords(line)
    BY <1>2 DEF SearchWords, Options, Takes
  <2>2. o.search_type = SearchOf(LastWord(line, ks, Unset))
    BY <1>1, <2>1, AllRead DEF MeansBefore
  <2>3. CASE ks = {}
    <3>1. LastWord(line, ks, Unset) = Unset /\ LastWord(line, ks, "default") = "default"
      BY <2>3, LastIsThere
    <3>2. SearchOf(Unset) = Unset /\ SearchOf("default") = "default"
      BY DEF SearchOf, Unset
    <3> QED BY <2>1, <2>2, <3>1, <3>2 DEF Default
  <2>4. CASE ks # {}
    <3>1. PICK k \in ks : LastWord(line, ks, Unset) = line[k]
      BY <2>4, LastOfKind
    <3>2. line[k] \in {"-r", "-f"} \cup SearchTypes
      <4>1. k \in Options(line, {"-r", "-f"}) => line[k] \in {"-r", "-f"}
        BY DEF Options
      <4>2. k \in ValuesOf(line, "--search-type") => line[k] \in SearchTypes
        BY <1>1, AllRead DEF LegalBefore, Takes
      <4> QED BY <2>1, <4>1, <4>2 DEF SearchWords
    <3>3. SearchOf(line[k]) # Unset
      BY <3>2 DEF SearchOf, SearchTypes, Unset
    <3>4. LastWord(line, ks, "default") = LastWord(line, ks, Unset)
      BY <2>4, LastIsThere
    <3> QED BY <2>1, <2>2, <3>1, <3>3, <3>4 DEF Default
  <2> QED BY <2>3, <2>4
<1>5. p.visibility = Visibility[LastWord(line, ValuesOf(line, "--symbol-visibility"), "defined")]
  <2>1. PICK ks \in SUBSET DOMAIN line : ks = ValuesOf(line, "--symbol-visibility")
    BY <1>2 DEF Takes
  <2>2. o.visibility = VisibilityOf(LastWord(line, ks, Unset))
    BY <1>1, <2>1, AllRead DEF MeansBefore, Takes
  <2>3. CASE ks = {}
    <3>1. LastWord(line, ks, Unset) = Unset /\ LastWord(line, ks, "defined") = "defined"
      BY <2>3, LastIsThere
    <3>2. VisibilityOf(Unset) = Unset
      BY VisibilityWords DEF VisibilityOf, Unset
    <3> QED BY <2>1, <2>2, <3>1, <3>2, VisibilityWords DEF Default
  <2>4. CASE ks # {}
    <3>1. PICK k \in ks : LastWord(line, ks, Unset) = line[k]
      BY <2>4, LastOfKind
    <3>2. line[k] \in DOMAIN Visibility
      BY <1>1, <2>1, AllRead DEF LegalBefore, Takes
    <3>3. VisibilityOf(line[k]) = Visibility[line[k]] /\ Visibility[line[k]] # Unset
      BY <3>2, VisibilityWords DEF VisibilityOf, Unset
    <3>4. LastWord(line, ks, "defined") = LastWord(line, ks, Unset)
      BY <2>4, LastIsThere
    <3> QED BY <2>1, <2>2, <3>1, <3>3, <3>4 DEF Default
  <2> QED BY <2>3, <2>4
<1>6. p.scan_root_path = IF p.running_method = "free_run"
                           THEN LastWord(line, ValuesOf(line, "-s"), "") ELSE ""
  BY <1>1, AllRead DEF MeansBefore, Takes, KeptScanPath
<1>7. p.symbol = LastWord(line, SymbolsOf(line), "")
  BY <1>1, AllRead DEF MeansBefore
<1>8. p.debug_mode = FALSE /\ p.print_help = FALSE /\ p.show_version = FALSE
  BY <1>1 DEF MeansBefore, IsOptions
<1> QED
  <2>1. p = [running_method |-> p.running_method, search_type |-> p.search_type,
             visibility |-> p.visibility, scan_root_path |-> p.scan_root_path,
             symbol |-> p.symbol, debug_mode |-> FALSE, show_version |-> FALSE,
             print_help |-> FALSE]
    BY <1>8 DEF IsOptions
  <2>2. PICK m, t, v, s, y :
             /\ m = LastWord(line, MethodsOf(line), "read_db")
             /\ t = SearchOf(LastWord(line, SearchWords(line), "default"))
             /\ v = Visibility[LastWord(line, ValuesOf(line, "--symbol-visibility"), "defined")]
             /\ s = LastWord(line, ValuesOf(line, "-s"), "")
             /\ y = LastWord(line, SymbolsOf(line), "")
    OBVIOUS
  <2>3. Meaning(line) = [NoOptions EXCEPT
          !.running_method = m, !.search_type = t, !.visibility = v, !.symbol = y,
          !.scan_root_path = IF m = "free_run" THEN s ELSE ""]
    BY <2>2, Zenon DEF Meaning, SearchWords
  <2>4. Meaning(line) = [running_method |-> m, search_type |-> t, visibility |-> v,
                         scan_root_path |-> IF m = "free_run" THEN s ELSE "", symbol |-> y,
                         debug_mode |-> FALSE, show_version |-> FALSE, print_help |-> FALSE]
    BY <2>3 DEF NoOptions
  <2> QED BY <1>3, <1>4, <1>5, <1>6, <1>7, <2>1, <2>2, <2>4

-----------------------------------------------------------------------------
(* The invariant *)

CommandInv ==
  /\ argv \in Line /\ IsOptions(opt)
  /\ verdict = "reading" => Reading(argv, i, opt)
  /\ AcceptedIsTaken
  /\ OptionsMeanWhatWasSaid

LEMMA TakenKeeps ==
  ASSUME CommandInv, argv' = argv, verdict' = "reading", IsOptions(opt'),
         Reading(argv, i', opt')
  PROVE  CommandInv'
<1>1. argv' \in Line /\ Reading(argv', i', opt')
  BY Zenon DEF CommandInv
<1> QED BY <1>1 DEF CommandInv, AcceptedIsTaken, OptionsMeanWhatWasSaid

LEMMA RefusalKeeps ==
  ASSUME CommandInv, argv' = argv, verdict' \in {"refused", "aborted"}, IsOptions(opt'),
         ~ IsTaken(argv)
  PROVE  CommandInv'
<1>1. argv' \in Line /\ ~ IsTaken(argv')
  BY Zenon DEF CommandInv
<1> QED BY <1>1 DEF CommandInv, AcceptedIsTaken, OptionsMeanWhatWasSaid

LEMMA AtWord ==
  ASSUME CommandInv, verdict = "reading", i <= Len(argv)
  PROVE  /\ argv \in Line /\ i \in DOMAIN argv
         /\ Reading(argv, i, opt) /\ i \notin Values(argv)
         /\ HasValue => i + 1 \in DOMAIN argv
         /\ ~ HasValue => i + 1 \notin DOMAIN argv
<1>1. argv \in Line /\ Reading(argv, i, opt)
  BY DEF CommandInv
<1>2. DOMAIN argv = 1 .. Len(argv) /\ Len(argv) \in Nat
  BY <1>1 DEF Line
<1>3. i \in 1 .. Len(argv) + 1 /\ Boundary(argv, i)
  BY <1>1 DEF Reading
<1>4. i \in DOMAIN argv
  BY <1>2, <1>3
<1>5. i \notin Values(argv)
  BY <1>1, <1>3, <1>4, NextIsNoValue
<1> QED BY <1>1, <1>2, <1>3, <1>4, <1>5 DEF HasValue

LEMMA ReadHelpKeeps == ASSUME CommandInv, ReadHelp PROVE CommandInv'
<1>1. /\ verdict = "reading" /\ i <= Len(argv) /\ argv[i] = "-h"
      /\ argv' = argv /\ verdict' = verdict /\ i' = i + 1
      /\ opt' = [opt EXCEPT !.print_help = TRUE]
  BY DEF ReadHelp, At, Take
<1>2. IsOptions(opt)
  BY DEF CommandInv
<1>3. IsOptions(opt')
  BY <1>1, <1>2 DEF IsOptions
<1>4. Told(argv, i, FALSE, opt, opt')
  BY <1>1, <1>2 DEF Told, IsOptions, Dashed
<1>5. Reading(argv, i + 1, opt')
  BY <1>1, <1>4, AtWord, TakesWord DEF Takes, Dashed
<1> QED BY <1>1, <1>3, <1>5, TakenKeeps

LEMMA ReadVersionKeeps == ASSUME CommandInv, ReadVersion PROVE CommandInv'
<1>1. /\ verdict = "reading" /\ i <= Len(argv) /\ argv[i] = "-v"
      /\ argv' = argv /\ verdict' = verdict /\ i' = i + 1
      /\ opt' = [opt EXCEPT !.show_version = TRUE]
  BY DEF ReadVersion, At, Take
<1>2. IsOptions(opt)
  BY DEF CommandInv
<1>3. IsOptions(opt')
  BY <1>1, <1>2 DEF IsOptions
<1>4. Told(argv, i, FALSE, opt, opt')
  BY <1>1, <1>2 DEF Told, IsOptions, Dashed
<1>5. Reading(argv, i + 1, opt')
  BY <1>1, <1>4, AtWord, TakesWord DEF Takes, Dashed
<1> QED BY <1>1, <1>3, <1>5, TakenKeeps

LEMMA ReadShortcutKeeps == ASSUME CommandInv, ReadShortcut PROVE CommandInv'
<1>1. /\ verdict = "reading" /\ i <= Len(argv) /\ argv[i] \in {"-r", "-f"}
      /\ argv' = argv /\ verdict' = verdict /\ i' = i + 1
      /\ opt' = [opt EXCEPT !.search_type = SearchOf(argv[i])]
  <2>1. SearchOf("-r") = "regex" /\ SearchOf("-f") = "fuzzy"
    BY DEF SearchOf
  <2> QED BY <2>1 DEF ReadShortcut, At, Take
<1>2. IsOptions(opt)
  BY DEF CommandInv
<1>3. IsOptions(opt')
  BY <1>1, <1>2 DEF IsOptions
<1>4. Told(argv, i, FALSE, opt, opt')
  BY <1>1, <1>2 DEF Told, IsOptions, Dashed
<1>5. Reading(argv, i + 1, opt')
  BY <1>1, <1>4, AtWord, TakesWord DEF Takes, Dashed
<1> QED BY <1>1, <1>3, <1>5, TakenKeeps

LEMMA ReadSearchTypeKeeps == ASSUME CommandInv, ReadSearchType PROVE CommandInv'
<1>1. /\ verdict = "reading" /\ i <= Len(argv) /\ argv[i] = "--search-type" /\ HasValue
      /\ argv[i + 1] \in SearchTypes
      /\ argv' = argv /\ verdict' = verdict /\ i' = i + 2
      /\ opt' = [opt EXCEPT !.search_type = argv[i + 1]]
  BY DEF ReadSearchType, At, Take, Value, ParseSearchType, SearchTypes, Unknown
<1>2. IsOptions(opt)
  BY DEF CommandInv
<1>3. IsOptions(opt')
  BY <1>1, <1>2, AtWord DEF IsOptions
<1>4. SearchOf(argv[i + 1]) = argv[i + 1]
  BY <1>1 DEF SearchOf, SearchTypes
<1>5. Told(argv, i, TRUE, opt, opt')
  BY <1>1, <1>2, <1>4 DEF Told, IsOptions
<1>6. Reading(argv, i + 2, opt')
  BY <1>1, <1>5, AtWord, TakesOption DEF Takes
<1> QED BY <1>1, <1>3, <1>6, TakenKeeps

LEMMA ReadVisibilityKeeps == ASSUME CommandInv, ReadVisibility PROVE CommandInv'
<1>1. /\ verdict = "reading" /\ i <= Len(argv) /\ argv[i] = "--symbol-visibility" /\ HasValue
      /\ argv[i + 1] \in DOMAIN Visibility
      /\ argv' = argv /\ verdict' = verdict /\ i' = i + 2
      /\ opt' = [opt EXCEPT !.visibility = Visibility[argv[i + 1]]]
  <2>1. /\ verdict = "reading" /\ i <= Len(argv) /\ argv[i] = "--symbol-visibility" /\ HasValue
        /\ ParseVisibility(argv[i + 1]) # Unknown
        /\ argv' = argv /\ verdict' = verdict /\ i' = i + 2
        /\ opt' = [opt EXCEPT !.visibility = ParseVisibility(argv[i + 1])]
    BY DEF ReadVisibility, At, Take, Value
  <2>2. /\ argv[i + 1] \in DOMAIN Visibility
        /\ ParseVisibility(argv[i + 1]) = Visibility[argv[i + 1]]
    BY <2>1, Zenon DEF ParseVisibility
  <2> QED BY <2>1, <2>2
<1>2. IsOptions(opt)
  BY DEF CommandInv
<1>4. IsOptions(opt')
  BY <1>1, <1>2 DEF IsOptions
<1>5. VisibilityOf(argv[i + 1]) = Visibility[argv[i + 1]]
  BY <1>1 DEF VisibilityOf
<1>6. Told(argv, i, TRUE, opt, opt')
  BY <1>1, <1>2, <1>5 DEF Told, IsOptions
<1>7. Reading(argv, i + 2, opt')
  BY <1>1, <1>6, AtWord, TakesOption DEF Takes
<1> QED BY <1>1, <1>4, <1>7, TakenKeeps

LEMMA ReadScanPathKeeps == ASSUME CommandInv, ReadScanPath PROVE CommandInv'
<1>1. /\ verdict = "reading" /\ i <= Len(argv) /\ argv[i] = "-s" /\ HasValue
      /\ argv' = argv /\ verdict' = verdict /\ i' = i + 2
      /\ opt' = [opt EXCEPT !.scan_root_path = argv[i + 1]]
  BY DEF ReadScanPath, At, Take, Value
<1>2. IsOptions(opt)
  BY DEF CommandInv
<1>3. IsOptions(opt')
  BY <1>1, <1>2, AtWord DEF IsOptions
<1>4. Told(argv, i, TRUE, opt, opt')
  BY <1>1, <1>2 DEF Told, IsOptions
<1>5. Reading(argv, i + 2, opt')
  BY <1>1, <1>4, AtWord, TakesOption DEF Takes
<1> QED BY <1>1, <1>3, <1>5, TakenKeeps

\* No method has been set yet: there was no word for one.
LEMMA NoMethodYet ==
  ASSUME NEW line \in Line, NEW j, NEW o, MeansBefore(line, j, o)
  PROVE  o.running_method = Unset <=> Before(MethodsOf(line), j) = {}
<1>1. PICK ks \in SUBSET DOMAIN line : ks = Before(MethodsOf(line), j)
  BY DEF Before, MethodsOf
<1>2. o.running_method = LastWord(line, ks, Unset)
  BY <1>1 DEF MeansBefore
<1>3. CASE ks = {}
  <2>1. LastWord(line, ks, Unset) = Unset
    BY <1>3, LastIsThere
  <2> QED BY <1>1, <1>2, <1>3, <2>1
<1>4. CASE ks # {}
  <2>1. PICK k \in ks : LastWord(line, ks, Unset) = line[k]
    BY <1>4, LastOfKind
  <2>2. line[k] # Unset
    BY <1>1 DEF Before, MethodsOf, Methods, Unset
  <2> QED BY <1>1, <1>2, <1>4, <2>1, <2>2
<1> QED BY <1>3, <1>4

LEMMA NoSymbolYet ==
  ASSUME NEW line \in Line, NEW j, NEW o, MeansBefore(line, j, o)
  PROVE  o.symbol = "" <=> Before(SymbolsOf(line), j) = {}
<1>1. PICK ks \in SUBSET DOMAIN line : ks = Before(SymbolsOf(line), j)
  BY DEF Before, SymbolsOf
<1>2. o.symbol = LastWord(line, ks, "")
  BY <1>1 DEF MeansBefore
<1>3. CASE ks = {}
  <2>1. LastWord(line, ks, "") = ""
    BY <1>3, LastIsThere
  <2> QED BY <1>1, <1>2, <1>3, <2>1
<1>4. CASE ks # {}
  <2>1. PICK k \in ks : LastWord(line, ks, "") = line[k]
    BY <1>4, LastOfKind
  <2>2. line[k] # ""
    BY <1>1 DEF Before, SymbolsOf
  <2> QED BY <1>1, <1>2, <1>4, <2>1, <2>2
<1> QED BY <1>3, <1>4

\* Any word is taken for a method, as no method has a bit of "not_set".
LEMMA ReadMethodKeeps == ASSUME CommandInv, ReadMethod PROVE CommandInv'
<1>1. /\ verdict = "reading" /\ i <= Len(argv) /\ argv[i] = "-m" /\ HasValue
      /\ opt.running_method = Unset
      /\ argv' = argv /\ verdict' = verdict /\ i' = i + 2
      /\ opt' = [opt EXCEPT !.running_method = ParseMethod(argv[i + 1])]
  <2>1. MethodBits[Unset] = {}
    BY DEF MethodBits, Unset
  <2>2. \A bits : bits \cap {} = {}
    OBVIOUS
  <2> QED BY <2>1, <2>2 DEF ReadMethod, At, Take, Value
<1>2. IsOptions(opt)
  BY DEF CommandInv
<1>3. IsOptions(opt')
  BY <1>1, <1>2 DEF IsOptions
<1>4. Told(argv, i, TRUE, opt, opt')
  BY <1>1, <1>2 DEF Told, IsOptions, ParseMethod
<1>5. Before(MethodsOf(argv), i) = {}
  BY <1>1, AtWord, NoMethodYet DEF Reading
<1>6. Reading(argv, i + 2, opt')
  BY <1>1, <1>4, <1>5, AtWord, TakesOption DEF Takes
<1> QED BY <1>1, <1>3, <1>6, TakenKeeps

LEMMA RefuseSecondMethodKeeps == ASSUME CommandInv, RefuseSecondMethod PROVE CommandInv'
<1>1. /\ verdict = "reading" /\ i <= Len(argv) /\ argv[i] = "-m"
      /\ opt.running_method # Unset
      /\ argv' = argv /\ verdict' = "refused" /\ opt' = opt
  BY DEF RefuseSecondMethod, At, Refuse
<1>2. IsOptions(opt')
  BY <1>1, Zenon DEF CommandInv
<1>3. PICK k : k \in MethodsOf(argv) /\ k < i
  <2>1. Before(MethodsOf(argv), i) # {}
    BY <1>1, AtWord, NoMethodYet DEF Reading
  <2> QED BY <2>1 DEF Before
<1>4. i \in Options(argv, {"-m"})
  BY <1>1, AtWord DEF Options
<1>5. ~ IsTaken(argv)
  <2>1. SUFFICES ASSUME IsTaken(argv) PROVE FALSE
    OBVIOUS
  <2>2. i < k
    BY <1>3, <1>4, <2>1 DEF IsTaken
  <2>3. k \in Int /\ i \in Int
    BY <1>1, <1>3, AtWord, DOMAIN argv = 1 .. Len(argv) DEF MethodsOf, Line
  <2> QED BY <1>3, <2>2, <2>3
<1> QED BY <1>1, <1>2, <1>5, RefusalKeeps

LEMMA AbortMethodKeeps == ASSUME CommandInv, AbortMethod PROVE CommandInv'
<1>1. /\ verdict = "reading" /\ i <= Len(argv) /\ argv[i] = "-m" /\ ~ HasValue
      /\ argv' = argv /\ verdict' = "aborted" /\ opt' = opt
  BY DEF AbortMethod, At
<1>2. IsOptions(opt')
  BY <1>1, Zenon DEF CommandInv
<1>3. i + 1 \in ValuesOf(argv, "-m") /\ i + 1 \notin DOMAIN argv
  BY <1>1, AtWord DEF Options, ValuesOf
<1>4. ~ IsTaken(argv)
  BY <1>3 DEF IsTaken, Takes
<1> QED BY <1>1, <1>2, <1>4, RefusalKeeps

LEMMA RefuseValueKeeps == ASSUME CommandInv, RefuseValue PROVE CommandInv'
<1>1. /\ verdict = "reading" /\ i <= Len(argv)
      /\ argv[i] \in {"--search-type", "--symbol-visibility", "-s"}
      /\ argv' = argv /\ verdict' = "refused" /\ opt' = opt
  BY DEF RefuseValue, At, Refuse
<1>2. IsOptions(opt')
  BY <1>1, Zenon DEF CommandInv
<1>3. i + 1 \in ValuesOf(argv, argv[i]) /\ argv[i] \in Takes
  BY <1>1, AtWord DEF Options, ValuesOf, Takes
<1>4. CASE ~ HasValue
  <2>1. i + 1 \notin DOMAIN argv
    BY <1>1, <1>4, AtWord
  <2>2. ~ IsTaken(argv)
    BY <1>3, <2>1 DEF IsTaken
  <2> QED BY <1>1, <1>2, <2>2, RefusalKeeps
<1>5. CASE argv[i] = "--search-type" /\ ParseSearchType(argv[i + 1]) = Unknown
  <2>1. argv[i + 1] \notin SearchTypes
    BY <1>5 DEF ParseSearchType, SearchTypes, Unknown
  <2>2. ~ IsTaken(argv)
    BY <1>3, <1>5, <2>1 DEF IsTaken
  <2> QED BY <1>1, <1>2, <2>2, RefusalKeeps
<1>6. CASE argv[i] = "--symbol-visibility" /\ ParseVisibility(argv[i + 1]) = Unknown
  <2>1. \A w \in DOMAIN Visibility : Visibility[w] # Unknown
    BY VisibilityWords DEF Unknown
  <2>2. argv[i + 1] \notin DOMAIN Visibility
    BY <1>6, <2>1, Zenon DEF ParseVisibility
  <2>3. ~ IsTaken(argv)
    BY <1>3, <1>6, <2>2 DEF IsTaken
  <2> QED BY <1>1, <1>2, <2>3, RefusalKeeps
<1> QED BY <1>4, <1>5, <1>6 DEF RefuseValue, At, Value

LEMMA ReadSymbolKeeps == ASSUME CommandInv, ReadSymbol PROVE CommandInv'
<1>1. /\ verdict = "reading" /\ i <= Len(argv) /\ argv[i] \notin Dashed
      /\ argv' = argv
  BY DEF ReadSymbol, Take, Refuse
<1>2. IsOptions(opt)
  BY DEF CommandInv
<1>3. CASE opt.symbol # ""
  <2>1. verdict' = "refused" /\ opt' = opt
    BY <1>3 DEF ReadSymbol, Refuse
  <2>2. PICK k : k \in SymbolsOf(argv) /\ k < i
    <3>1. Before(SymbolsOf(argv), i) # {}
      BY <1>1, <1>3, AtWord, NoSymbolYet DEF Reading
    <3> QED BY <3>1 DEF Before
  <2>3. argv \in Line /\ i \in DOMAIN argv /\ i \notin Values(argv)
    BY <1>1, AtWord
  <2>4. ~ IsTaken(argv)
    BY <1>1, <2>2, <2>3, OneSymbol
  <2>5. IsOptions(opt')
    BY <1>2, <2>1, Zenon
  <2> QED BY <1>1, <2>1, <2>4, <2>5, RefusalKeeps
<1>4. CASE opt.symbol = ""
  <2>1. verdict' = verdict /\ i' = i + 1 /\ opt' = [opt EXCEPT !.symbol = argv[i]]
    BY <1>4 DEF ReadSymbol, Take
  <2>2. IsOptions(opt')
    BY <1>2, <2>1 DEF IsOptions
  <2>3. Told(argv, i, FALSE, opt, opt')
    <3>1. argv[i] \notin {"-h", "-v", "-r", "-f"}
      BY <1>1 DEF Dashed
    <3> QED BY <1>1, <1>2, <1>4, <2>1, <3>1 DEF Told, IsOptions
  <2>4. Before(SymbolsOf(argv), i) = {}
    BY <1>1, <1>4, AtWord, NoSymbolYet DEF Reading
  <2>5. argv[i] \notin Takes /\ argv[i] \notin {"-d", "-x"}
    BY <1>1 DEF Takes, Dashed
  <2>6. Reading(argv, i + 1, opt')
    BY <1>1, <2>3, <2>4, <2>5, AtWord, TakesWord
  <2> QED BY <1>1, <2>1, <2>2, <2>6, TakenKeeps
<1> QED BY <1>3, <1>4

LEMMA RefuseOptionKeeps == ASSUME CommandInv, RefuseOption PROVE CommandInv'
<1>1. /\ verdict = "reading" /\ i <= Len(argv) /\ argv[i] \in {"-d", "-x"}
      /\ argv' = argv /\ verdict' = "refused"
      /\ opt' = [opt EXCEPT !.debug_mode = @ \/ argv[i] = "-d"]
  BY DEF RefuseOption, At
<1>2. IsOptions(opt)
  BY DEF CommandInv
<1>3. IsOptions(opt')
  BY <1>1, <1>2 DEF IsOptions
<1>4. i \in Options(argv, {"-d", "-x"})
  BY <1>1, AtWord DEF Options
<1>5. ~ IsTaken(argv)
  BY <1>4 DEF IsTaken
<1> QED BY <1>1, <1>3, <1>5, RefusalKeeps

\* A second method would have its option behind the first.
LEMMA OneMethod ==
  ASSUME NEW line \in Line, NEW j, j = Len(line) + 1, NEW o, Reading(line, j, o),
         NEW k \in MethodsOf(line), NEW n \in MethodsOf(line)
  PROVE  k = n
<1>1. \A m \in MethodsOf(line), l \in Options(line, {"-m"}) : l < m
  BY AllRead DEF Reading, LegalBefore
<1>2. \A m \in MethodsOf(line) : m \in Int /\ m - 1 \in Options(line, {"-m"})
  <2>1. \A l \in Options(line, {"-m"}) : l \in Int
    BY DOMAIN line = 1 .. Len(line) DEF Options, Line
  <2> QED BY <2>1 DEF MethodsOf, ValuesOf
<1>3. k \in Int /\ n \in Int /\ k - 1 < n /\ n - 1 < k
  BY <1>1, <1>2
<1> QED BY <1>3

LEMMA FinishKeeps == ASSUME CommandInv, FinishArguments PROVE CommandInv'
<1> DEFINE method == Default(opt.running_method, "read_db")
<1>1. /\ verdict = "reading" /\ i > Len(argv) /\ argv' = argv
      /\ argv \in Line /\ IsOptions(opt) /\ Reading(argv, i, opt)
  BY DEF FinishArguments, CommandInv
<1>2. i = Len(argv) + 1
  BY <1>1 DEF Reading, Line
<1>3. Boundary(argv, i) /\ MeansBefore(argv, i, opt)
  BY <1>1 DEF Reading
<1>4. AsksForHelp(argv) <=> opt.print_help \/ opt.show_version
  <2>1. opt.print_help = (Options(argv, {"-h"}) # {}) /\ opt.show_version = (Options(argv, {"-v"}) # {})
    BY <1>1, <1>2, <1>3, AllRead DEF MeansBefore
  <2>2. Options(argv, {"-h", "-v"}) = Options(argv, {"-h"}) \cup Options(argv, {"-v"})
    BY DEF Options
  <2> QED BY <2>1, <2>2 DEF AsksForHelp
<1>5. opt.symbol = "" <=> SymbolsOf(argv) = {}
  BY <1>1, <1>2, <1>3, AllRead, NoSymbolYet
<1>6. method = "build_db" <=> \E k \in MethodsOf(argv) : argv[k] = "build_db"
  <2>1. PICK ks \in SUBSET DOMAIN argv : ks = MethodsOf(argv)
    BY DEF MethodsOf
  <2>2. opt.running_method = LastWord(argv, ks, Unset)
    BY <1>1, <1>2, <1>3, <2>1, AllRead DEF MeansBefore
  <2>3. CASE ks = {}
    <3>1. LastWord(argv, ks, Unset) = Unset
      BY <1>1, <2>3, LastIsThere
    <3> QED BY <2>1, <2>2, <2>3, <3>1 DEF Default
  <2>4. CASE ks # {}
    <3>1. PICK k \in ks : LastWord(argv, ks, Unset) = argv[k]
      BY <1>1, <2>4, LastOfKind
    <3>2. argv[k] # Unset
      BY <2>1 DEF MethodsOf, Methods, Unset
    <3>3. \A n \in ks : n = k
      BY <1>1, <1>2, <2>1, OneMethod
    <3> QED BY <2>1, <2>2, <3>1, <3>2, <3>3 DEF Default
  <2> QED BY <2>3, <2>4
<1>7. IsTaken(argv) <=> AsksForHelp(argv) \/ opt.symbol # "" \/ method = "build_db"
  BY <1>1, <1>2, <1>5, <1>6, LegalAtEnd
<1> HIDE DEF method
<1>8. CASE /\ opt.print_help \/ opt.show_version
           /\ verdict' = "accepted" /\ opt' = opt
  <2>1. AsksForHelp(argv') /\ IsTaken(argv') /\ argv' \in Line /\ IsOptions(opt')
    BY <1>1, <1>4, <1>7, <1>8, Zenon
  <2> QED BY <1>8, <2>1 DEF CommandInv, AcceptedIsTaken, OptionsMeanWhatWasSaid
<1>9. CASE /\ ~ (opt.print_help \/ opt.show_version)
           /\ opt.symbol = "" /\ method # "build_db"
           /\ verdict' = "refused" /\ opt' = [opt EXCEPT !.running_method = method]
  <2>1. ~ IsTaken(argv)
    BY <1>4, <1>7, <1>9
  <2>2. IsOptions(opt')
    BY <1>1, <1>9 DEF IsOptions
  <2> QED BY <1>1, <1>9, <2>1, <2>2, RefusalKeeps
<1>10. CASE /\ ~ (opt.print_help \/ opt.show_version)
            /\ opt.symbol # "" \/ method = "build_db"
            /\ verdict' = "accepted"
            /\ opt' = [opt EXCEPT
                 !.running_method = method,
                 !.search_type = Default(@, "default"),
                 !.visibility = Default(@, "only_defined"),
                 !.scan_root_path = KeptScanPath(@, method)]
  <2>1. IsTaken(argv)
    BY <1>7, <1>10
  <2>2. IsOptions(opt')
    BY <1>1, <1>10 DEF IsOptions
  <2>3. /\ opt'.print_help = opt.print_help /\ opt'.show_version = opt.show_version
        /\ opt'.debug_mode = opt.debug_mode
        /\ opt'.running_method = method
        /\ opt'.search_type = Default(opt.search_type, "default")
        /\ opt'.visibility = Default(opt.visibility, "only_defined")
        /\ opt'.scan_root_path = KeptScanPath(opt.scan_root_path, method)
        /\ opt'.symbol = opt.symbol
    BY <1>1, <1>10 DEF IsOptions
  <2>4. opt' = Meaning(argv)
    <3>1. PICK p : p = opt'
      OBVIOUS
    <3> QED BY <1>1, <1>2, <1>10, <2>2, <2>3, <3>1, MeaningAtEnd DEF method
  <2>5. IsTaken(argv') /\ argv' \in Line /\ opt' = Meaning(argv')
    BY <1>1, <2>1, <2>4, Zenon
  <2> QED BY <1>10, <2>2, <2>5 DEF CommandInv, AcceptedIsTaken, OptionsMeanWhatWasSaid
<1> QED BY <1>8, <1>9, <1>10 DEF FinishArguments, method

LEMMA ExecuteKeeps ==
  ASSUME NEW line \in CommandLines, Execute(line)
  PROVE  CommandInv'
<1>1. argv' = line /\ i' = 1 /\ opt' = NoOptions /\ line \in Line
      /\ verdict' = IF line = << >> THEN "refused" ELSE "reading"
  BY CommandLineAssumption DEF Execute, Line
<1>2. IsOptions(opt')
  BY <1>1 DEF IsOptions, NoOptions
<1>3. verdict' = "reading" => Reading(argv', i', opt')
  BY <1>1, NothingRead
<1>4. verdict' \in {"refused", "aborted"} => ~ IsTaken(argv')
  BY <1>1 DEF IsTaken
<1>5. verdict' # "accepted"
  BY <1>1
<1> QED BY <1>1, <1>2, <1>3, <1>4, <1>5 DEF CommandInv, AcceptedIsTaken, OptionsMeanWhatWasSaid

LEMMA ArgStarts ==
  ASSUME ArgInit
  PROVE  CommandInv
<1>1. << >> \in Line
  BY DEF Line
<1>2. IsOptions(NoOptions)
  BY DEF IsOptions, NoOptions
<1> QED BY <1>1, <1>2 DEF ArgInit, CommandInv, AcceptedIsTaken, OptionsMeanWhatWasSaid

\* What has been read of the command line is always what it says so far.
THEOREM LineReadRight == ArgSpec => []CommandInv
<1>1. ArgInit => CommandInv
  BY ArgStarts
<1>2. CommandInv /\ [ArgNext]_argVars => CommandInv'
  <2> SUFFICES ASSUME CommandInv, [ArgNext]_argVars PROVE CommandInv'
    OBVIOUS
  <2>1. CASE UNCHANGED argVars
    BY <2>1, Zenon DEF argVars, CommandInv, AcceptedIsTaken, OptionsMeanWhatWasSaid
  <2>2. CASE ArgNext
    BY <2>2, ExecuteKeeps, ReadHelpKeeps, ReadVersionKeeps, ReadMethodKeeps,
       RefuseSecondMethodKeeps, AbortMethodKeeps, ReadShortcutKeeps, ReadSearchTypeKeeps,
       ReadVisibilityKeeps, ReadScanPathKeeps, RefuseValueKeeps, ReadSymbolKeeps,
       RefuseOptionKeeps, FinishKeeps, Zenon DEF ArgNext, ParseArguments
  <2> QED BY <2>1, <2>2
<1> QED BY <1>1, <1>2, PTL DEF ArgSpec

\* The lines that are taken are the sound ones without -d, but for words that
\* come where they are not overlooked.
LEMMA TakenIsLegal ==
  ASSUME NEW line \in Line
  PROVE  IsTaken(line) <=>
           Options(line, {"-d"}) = {} /\ (IsLegal(line) \/ Overlooked(line))
<1> PICK methods, junk, asked : /\ methods = MethodsOf(line) /\ junk = JunkMethods(line)
                                /\ asked = Options(line, {"-m"})
  OBVIOUS
<1>1. DOMAIN line = 1 .. Len(line) /\ Len(line) \in Nat
  BY DEF Line
<1>2. Options(line, {"-d", "-x"}) = Options(line, {"-d"}) \cup Options(line, {"-x"})
  BY DEF Options
<1>3. asked \subseteq Int /\ methods \subseteq Int /\ junk \subseteq Int
  BY <1>1 DEF Options, MethodsOf, JunkMethods
<1>4. methods \subseteq ValuesOf(line, "-m") /\ junk \subseteq ValuesOf(line, "-m")
      /\ methods \cap junk = {}
      /\ (ValuesOf(line, "-m") \subseteq DOMAIN line => ValuesOf(line, "-m") = methods \cup junk)
  BY DEF MethodsOf, JunkMethods
<1>5. ValuesOf(line, "-m") = {l + 1 : l \in asked}
  BY DEF ValuesOf
<1>6. ASSUME ValuesOf(line, "-m") \subseteq DOMAIN line
      PROVE  (\A k \in methods, l \in asked : l < k) <=>
               (\A k, l \in methods : k = l) /\ (\A k \in methods, l \in junk : l < k)
  <2>1. ASSUME \A k \in methods, l \in asked : l < k
        PROVE  (\A k, l \in methods : k = l) /\ (\A k \in methods, l \in junk : l < k)
    <3>1. ASSUME NEW k \in methods, NEW n \in methods \cup junk PROVE n <= k
      <4>1. PICK l \in asked : n = l + 1
        BY <1>4, <1>5, <3>1
      <4> QED BY <1>3, <2>1, <3>1, <4>1
    <3>2. \A k, l \in methods : k = l
      BY <1>3, <3>1
    <3>3. \A k \in methods, l \in junk : l < k
      BY <1>3, <1>4, <3>1
    <3> QED BY <3>2, <3>3
  <2>2. ASSUME \A k, l \in methods : k = l, \A k \in methods, l \in junk : l < k,
               NEW k \in methods, NEW l \in asked
        PROVE  l < k
    <3>1. l + 1 \in methods \cup junk
      BY <1>4, <1>5, <1>6
    <3> QED BY <1>3, <2>2, <3>1
  <2> QED BY <2>1, <2>2
<1>7. UNION {ValuesOf(line, o) : o \in Takes} \subseteq DOMAIN line
        => ValuesOf(line, "-m") \subseteq DOMAIN line
  BY DEF Takes
<1>8. Cardinality(SymbolsOf(line)) <= 1 <=> \A k, l \in SymbolsOf(line) : k = l
  <2>1. IsFiniteSet(SymbolsOf(line))
    <3>1. IsFiniteSet(1 .. Len(line))
      BY <1>1, FS_Interval
    <3>2. SymbolsOf(line) \subseteq 1 .. Len(line)
      BY <1>1 DEF SymbolsOf
    <3> QED BY <3>1, <3>2, FS_Subset
  <2> QED BY <2>1, FewAreOne
<1>9. IsTaken(line) <=> IsSound(line) /\ Options(line, {"-d"}) = {}
                         /\ (\A k \in methods, l \in junk : l < k)
                         /\ (\A k \in SymbolsOf(line), l \in EmptyWords(line) : l < k)
  BY <1>2, <1>6, <1>7, <1>8 DEF IsTaken, IsSound
<1> QED BY <1>9 DEF IsLegal, Overlooked

\* parse_arguments accepts just the legal command lines without -d, and those
\* whose junk it overlooks, of whatever length.
THEOREM AcceptedAreLegal == ArgSpec => []AcceptedIsLegal
<1>1. CommandInv => AcceptedIsLegal
  BY TakenIsLegal DEF CommandInv, AcceptedIsTaken, AcceptedIsLegal
<1> QED BY <1>1, LineReadRight, PTL

\* The options main goes by are those that the accepted line as a whole asks for.
THEOREM MeantAsSaid == ArgSpec => []OptionsMeanWhatWasSaid
<1>1. CommandInv => OptionsMeanWhatWasSaid
  BY DEF CommandInv
<1> QED BY <1>1, LineReadRight, PTL

-----------------------------------------------------------------------------
(* Sequences *)

\* Induction over sequences, like that over numbers for a set.
LEMMA SeqInduction ==
  ASSUME NEW S, NEW Q, << >> \in Q, \A s \in Seq(S), e \in S : s \in Q => Append(s, e) \in Q
  PROVE  Seq(S) \subseteq Q
<1> DEFINE P == {n \in Nat : \A s \in Seq(S) : Len(s) = n => s \in Q}
<1>1. 0 \in P
  <2>1. \A s \in Seq(S) : Len(s) = 0 => s = << >>
    BY EmptySeq
  <2> QED BY <2>1
<1>2. ASSUME NEW n \in Nat, n \in P PROVE n + 1 \in P
  <2> SUFFICES ASSUME NEW s \in Seq(S), Len(s) = n + 1 PROVE s \in Q
    OBVIOUS
  <2>1. s # << >>
    BY EmptySeq
  <2>2. PICK r \in Seq(S), e \in S : s = Append(r, e)
    BY <2>1, SequenceEmptyOrAppend
  <2>3. Len(r) = n
    BY <2>2, AppendProperties, LenProperties
  <2> QED BY <1>2, <2>2, <2>3
<1>3. Nat \subseteq P
  <2> HIDE DEF P
  <2> QED BY <1>1, <1>2, InductiveSetHasAll
<1>4. ASSUME NEW s \in Seq(S) PROVE s \in Q
  <2>1. Len(s) \in P
    BY <1>3, LenProperties
  <2> QED BY <2>1
<1> QED BY <1>4

-----------------------------------------------------------------------------
(* The words of a text *)

\* A longer text has the same parts where it is the same.
LEMMA PartOfLonger ==
  ASSUME NEW S, NEW T \in Seq(S), NEW ch \in S, NEW a \in 1 .. Len(T), NEW b \in 1 .. Len(T)
  PROVE  SubSeq(Append(T, ch), a, b) = SubSeq(T, a, b)
<1>1. << ch >> \in Seq(S) /\ Append(T, ch) = T \o << ch >>
  BY AppendIsConcat
<1> QED BY <1>1, SubSeqOfConcat1

\* A mark behind a text adds no word.
LEMMA MarkAddsNoPlace ==
  ASSUME NEW S, NEW T \in Seq(S), NEW mark \in S
  PROVE  WordPlaces(Append(T, mark), mark) = WordPlaces(T, mark)
<1>1. PICK n \in Nat : n = Len(T)
  BY LenProperties
<1>2. PICK t : t = Append(T, mark)
  OBVIOUS
<1>3. Len(t) = n + 1 /\ t[n + 1] = mark /\ \A k \in 1 .. n : t[k] = T[k]
  BY <1>1, <1>2, AppendProperties
<1>4. ASSUME NEW w \in WordPlaces(T, mark) PROVE w \in WordPlaces(t, mark)
  <2>1. /\ w \in (1 .. n) \X (1 .. n) /\ w[1] <= w[2]
        /\ \A k \in w[1] .. w[2] : T[k] # mark
        /\ w[1] > 1 => T[w[1] - 1] = mark
        /\ w[2] < n => T[w[2] + 1] = mark
    BY <1>1 DEF WordPlaces
  <2>2. w \in (1 .. n + 1) \X (1 .. n + 1)
    BY <2>1
  <2>3. \A k \in w[1] .. w[2] : k \in 1 .. n
    BY <2>1
  <2>4. \A k \in w[1] .. w[2] : t[k] # mark
    BY <1>3, <2>1, <2>3
  <2>5. w[1] > 1 => t[w[1] - 1] = mark
    BY <1>3, <2>1
  <2>6. t[w[2] + 1] = mark
    BY <1>3, <2>1
  <2> QED BY <1>3, <2>1, <2>2, <2>4, <2>5, <2>6 DEF WordPlaces
<1>5. ASSUME NEW w \in WordPlaces(t, mark) PROVE w \in WordPlaces(T, mark)
  <2>1. /\ w \in (1 .. n + 1) \X (1 .. n + 1) /\ w[1] <= w[2]
        /\ \A k \in w[1] .. w[2] : t[k] # mark
        /\ w[1] > 1 => t[w[1] - 1] = mark
        /\ w[2] < n + 1 => t[w[2] + 1] = mark
    BY <1>3 DEF WordPlaces
  <2>2. w[2] # n + 1
    BY <1>3, <2>1
  <2>3. w \in (1 .. n) \X (1 .. n)
    BY <2>1, <2>2
  <2>4. \A k \in w[1] .. w[2] : k \in 1 .. n
    BY <2>1, <2>3
  <2>5. \A k \in w[1] .. w[2] : T[k] # mark
    BY <1>3, <2>1, <2>4
  <2>6. w[1] > 1 => T[w[1] - 1] = mark
    BY <1>3, <2>1, <2>3
  <2>7. w[2] < n => T[w[2] + 1] = mark
    BY <1>3, <2>1, <2>3
  <2> QED BY <1>1, <2>1, <2>3, <2>5, <2>6, <2>7 DEF WordPlaces
<1> QED BY <1>2, <1>4, <1>5

\* Nor does it change which they are.
LEMMA MarkAddsNoWord ==
  ASSUME NEW S, NEW T \in Seq(S), NEW mark \in S, NEW list, ListsWords(list, T, mark)
  PROVE  ListsWords(list, Append(T, mark), mark)
<1>1. PICK t : t = Append(T, mark)
  OBVIOUS
<1>2. WordPlaces(t, mark) = WordPlaces(T, mark)
  BY <1>1, MarkAddsNoPlace
<1>3. PICK place \in [DOMAIN list -> WordPlaces(T, mark)] :
        /\ WordPlaces(T, mark) = {place[n] : n \in DOMAIN list}
        /\ \A m, n \in DOMAIN list : m < n => place[m][2] < place[n][1]
        /\ \A n \in DOMAIN list : list[n] = SubSeq(T, place[n][1], place[n][2])
  BY Zenon DEF ListsWords
<1>4. ASSUME NEW n \in DOMAIN list PROVE list[n] = SubSeq(t, place[n][1], place[n][2])
  <2>1. place[n] \in WordPlaces(T, mark)
    BY <1>3
  <2>2. PICK a \in 1 .. Len(T), b \in 1 .. Len(T) : a = place[n][1] /\ b = place[n][2]
    BY <2>1 DEF WordPlaces
  <2>3. SubSeq(t, a, b) = SubSeq(T, a, b)
    BY <1>1, PartOfLonger
  <2> QED BY <1>3, <2>2, <2>3
<1>5. place \in [DOMAIN list -> WordPlaces(t, mark)] /\ WordPlaces(t, mark) = {place[n] : n \in DOMAIN list}
  BY <1>2, <1>3
<1> QED BY <1>1, <1>3, <1>4, <1>5, Zenon DEF ListsWords

\* A letter behind a mark, or at the beginning, begins a word.
LEMMA NewPlace ==
  ASSUME NEW S, NEW T \in Seq(S), NEW mark, NEW ch \in S, ch # mark,
         T # << >> => T[Len(T)] = mark
  PROVE  WordPlaces(Append(T, ch), mark) = WordPlaces(T, mark) \cup {<< Len(T) + 1, Len(T) + 1 >>}
<1>1. PICK n \in Nat : n = Len(T)
  BY LenProperties
<1>2. PICK t : t = Append(T, ch)
  OBVIOUS
<1>3. Len(t) = n + 1 /\ t[n + 1] = ch /\ \A k \in 1 .. n : t[k] = T[k]
  BY <1>1, <1>2, AppendProperties
<1>4. n > 0 => T[n] = mark /\ t[n] = mark
  BY <1>1, <1>3, EmptySeq
<1>5. ASSUME NEW w \in WordPlaces(T, mark) PROVE w \in WordPlaces(t, mark)
  <2>1. /\ w \in (1 .. n) \X (1 .. n) /\ w[1] <= w[2]
        /\ \A k \in w[1] .. w[2] : T[k] # mark
        /\ w[1] > 1 => T[w[1] - 1] = mark
        /\ w[2] < n => T[w[2] + 1] = mark
    BY <1>1 DEF WordPlaces
  <2>2. w[2] < n
    BY <1>4, <2>1
  <2>3. w \in (1 .. n + 1) \X (1 .. n + 1)
    BY <2>1
  <2>4. \A k \in w[1] .. w[2] : k \in 1 .. n
    BY <2>1
  <2>5. \A k \in w[1] .. w[2] : t[k] # mark
    BY <1>3, <2>1, <2>4
  <2>6. w[1] > 1 => t[w[1] - 1] = mark
    BY <1>3, <2>1
  <2>7. t[w[2] + 1] = mark
    BY <1>3, <2>1, <2>2
  <2> QED BY <1>3, <2>1, <2>3, <2>5, <2>6, <2>7 DEF WordPlaces
<1>6. << n + 1, n + 1 >> \in WordPlaces(t, mark)
  <2>1. << n + 1, n + 1 >> \in (1 .. n + 1) \X (1 .. n + 1)
    BY <1>1
  <2>2. \A k \in n + 1 .. n + 1 : t[k] # mark
    BY <1>3
  <2>3. n + 1 > 1 => t[(n + 1) - 1] = mark
    BY <1>4
  <2> QED BY <1>3, <2>1, <2>2, <2>3 DEF WordPlaces
<1>7. ASSUME NEW w \in WordPlaces(t, mark) PROVE w \in WordPlaces(T, mark) \/ w = << n + 1, n + 1 >>
  <2>1. /\ w \in (1 .. n + 1) \X (1 .. n + 1) /\ w[1] <= w[2]
        /\ \A k \in w[1] .. w[2] : t[k] # mark
        /\ w[1] > 1 => t[w[1] - 1] = mark
        /\ w[2] < n + 1 => t[w[2] + 1] = mark
    BY <1>3 DEF WordPlaces
  <2>2. n > 0 => n \notin w[1] .. w[2]
    BY <1>4, <2>1
  <2>3. CASE w[2] = n + 1
    <3>1. w[1] = n + 1
      BY <2>1, <2>2, <2>3
    <3> QED BY <2>1, <2>3, <3>1
  <2>4. CASE w[2] # n + 1
    <3>1. w \in (1 .. n) \X (1 .. n) /\ w[2] < n
      BY <2>1, <2>2, <2>4
    <3>2. \A k \in w[1] .. w[2] : k \in 1 .. n
      BY <3>1
    <3>3. \A k \in w[1] .. w[2] : T[k] # mark
      BY <1>3, <2>1, <3>2
    <3>4. (w[1] > 1 => T[w[1] - 1] = mark) /\ T[w[2] + 1] = mark
      BY <1>3, <2>1, <3>1
    <3> QED BY <1>1, <2>1, <3>1, <3>3, <3>4 DEF WordPlaces
  <2> QED BY <2>3, <2>4
<1> QED BY <1>1, <1>2, <1>5, <1>6, <1>7

LEMMA NewWord ==
  ASSUME NEW S, NEW T \in Seq(S), NEW mark, NEW ch \in S, ch # mark,
         T # << >> => T[Len(T)] = mark,
         NEW list \in Seq(Seq(S)), ListsWords(list, T, mark)
  PROVE  ListsWords(Append(list, << ch >>), Append(T, ch), mark)
<1>1. PICK n \in Nat, m \in Nat : n = Len(T) /\ m = Len(list)
  BY LenProperties
<1>2. PICK t, longer : t = Append(T, ch) /\ longer = Append(list, << ch >>)
  OBVIOUS
<1>3. Len(t) = n + 1 /\ t[n + 1] = ch /\ t \in Seq(S)
  BY <1>1, <1>2, AppendProperties
<1>4. /\ DOMAIN longer = 1 .. m + 1 /\ longer[m + 1] = << ch >>
      /\ \A k \in 1 .. m : longer[k] = list[k]
      /\ DOMAIN list = 1 .. m
  <2>1. << ch >> \in Seq(S)
    OBVIOUS
  <2>2. /\ longer \in Seq(Seq(S)) /\ Len(longer) = m + 1 /\ longer[m + 1] = << ch >>
        /\ \A k \in 1 .. m : longer[k] = list[k]
    BY <1>1, <1>2, <2>1, AppendProperties
  <2> QED BY <1>1, <2>2, LenProperties
<1>5. PICK place \in [1 .. m -> WordPlaces(T, mark)] :
        /\ WordPlaces(T, mark) = {place[k] : k \in 1 .. m}
        /\ \A j, k \in 1 .. m : j < k => place[j][2] < place[k][1]
        /\ \A k \in 1 .. m : list[k] = SubSeq(T, place[k][1], place[k][2])
  BY <1>4, Zenon DEF ListsWords
<1> DEFINE last == << n + 1, n + 1 >>
           places == [k \in 1 .. m + 1 |-> IF k = m + 1 THEN last ELSE place[k]]
<1>6. WordPlaces(t, mark) = WordPlaces(T, mark) \cup {last}
  BY <1>1, <1>2, NewPlace
<1>7. places[m + 1] = last /\ \A k \in 1 .. m : places[k] = place[k]
  OBVIOUS
<1>8. \A k \in 1 .. m + 1 : k = m + 1 \/ k \in 1 .. m
  OBVIOUS
<1>9. places \in [1 .. m + 1 -> WordPlaces(t, mark)]
  BY <1>5, <1>6
<1> HIDE DEF places
<1>10. WordPlaces(t, mark) = {places[k] : k \in 1 .. m + 1}
  <2>1. \A k \in 1 .. m : k \in 1 .. m + 1
    OBVIOUS
  <2>2. m + 1 \in 1 .. m + 1
    OBVIOUS
  <2> QED BY <1>5, <1>6, <1>7, <1>8, <2>1, <2>2
<1>11. \A k \in 1 .. m : place[k] \in (1 .. n) \X (1 .. n)
  BY <1>1, <1>5 DEF WordPlaces
<1>12. ASSUME NEW j \in 1 .. m + 1, NEW k \in 1 .. m + 1, j < k PROVE places[j][2] < places[k][1]
  <2>1. j \in 1 .. m
    BY <1>12
  <2>2. CASE k = m + 1
    <3>1. places[k][1] = n + 1 /\ places[j] = place[j]
      BY <1>7, <2>1, <2>2
    <3> QED BY <1>11, <2>1, <3>1
  <2>3. CASE k \in 1 .. m
    BY <1>5, <1>7, <1>12, <2>1, <2>3
  <2> QED BY <1>8, <2>2, <2>3
<1>13. ASSUME NEW k \in 1 .. m + 1 PROVE longer[k] = SubSeq(t, places[k][1], places[k][2])
  <2>1. CASE k = m + 1
    <3>1. SubSeq(t, n + 1, n + 1) = << ch >>
      <4>1. PICK e : e = n + 1
        OBVIOUS
      <4>2. e \in 1 .. Len(t) /\ t[e] = ch
        BY <1>3, <4>1
      <4>3. SubSeq(t, e, e) = << t[e] >> \o SubSeq(t, e + 1, e)
        BY <1>3, <4>2, SubSeqRecursiveFirst
      <4>4. SubSeq(t, e + 1, e) = << >>
        BY <4>1
      <4>5. << ch >> \o << >> = << ch >>
        BY ConcatEmptySeq, << ch >> \in Seq(S)
      <4> QED BY <4>1, <4>2, <4>3, <4>4, <4>5
    <3>2. places[k][1] = n + 1 /\ places[k][2] = n + 1
      BY <1>7, <2>1
    <3> QED BY <1>4, <2>1, <3>1, <3>2
  <2>2. CASE k \in 1 .. m
    <3>1. PICK a \in 1 .. Len(T), b \in 1 .. Len(T) : a = place[k][1] /\ b = place[k][2]
      BY <1>1, <1>11, <2>2
    <3>2. SubSeq(t, a, b) = SubSeq(T, a, b)
      BY <1>2, PartOfLonger
    <3> QED BY <1>4, <1>5, <1>7, <2>2, <3>1, <3>2
  <2> QED BY <1>8, <2>1, <2>2
<1>14. \A j, k \in 1 .. m + 1 : j < k => places[j][2] < places[k][1]
  BY <1>12
<1>15. \A k \in 1 .. m + 1 : longer[k] = SubSeq(t, places[k][1], places[k][2])
  BY <1>13
<1> QED BY <1>2, <1>4, <1>9, <1>10, <1>14, <1>15, Zenon DEF ListsWords

\* The last word of T begins at a, and ch makes it longer.
LastWordFrom(a, T, ch, mark) ==
  /\ << a, Len(T) >> \in WordPlaces(T, mark)
  /\ WordPlaces(Append(T, ch), mark) =
       (WordPlaces(T, mark) \ {<< a, Len(T) >>}) \cup {<< a, Len(T) + 1 >>}
  /\ \A w \in WordPlaces(T, mark) : w[2] = Len(T) => w = << a, Len(T) >>

\* A letter behind a letter makes the last word longer.
LEMMA LongerPlace ==
  ASSUME NEW S, NEW T \in Seq(S), NEW mark, NEW ch \in S, ch # mark,
         T # << >>, T[Len(T)] # mark
  PROVE  \E a \in 1 .. Len(T) : LastWordFrom(a, T, ch, mark)
<1>1. PICK n \in Nat \ {0} : n = Len(T)
  BY EmptySeq
<1>2. PICK t : t = Append(T, ch)
  OBVIOUS
<1>3. Len(t) = n + 1 /\ t[n + 1] = ch /\ \A k \in 1 .. n : t[k] = T[k]
  BY <1>1, <1>2, AppendProperties
<1> DEFINE From == {k \in 1 .. n : \A l \in k .. n : T[l] # mark}
<1>4. PICK a \in From : \A k \in From : a <= k
  <2>1. n \in From /\ From \in SUBSET Nat
    BY <1>1
  <2> HIDE DEF From
  <2> QED BY <2>1, LeastElement
<1>5. a \in 1 .. n /\ \A l \in a .. n : T[l] # mark
  BY <1>4
<1>6. a > 1 => T[a - 1] = mark
  <2> SUFFICES ASSUME a > 1, T[a - 1] # mark PROVE FALSE
    OBVIOUS
  <2>1. a - 1 \in 1 .. n
    BY <1>5
  <2>2. \A l \in a - 1 .. n : l = a - 1 \/ l \in a .. n
    BY <1>5
  <2>3. a - 1 \in From
    BY <1>5, <2>1, <2>2
  <2>4. a <= a - 1
    BY <1>4, <2>3
  <2> QED BY <1>5, <2>4
<1> HIDE DEF From
<1>7. << a, n >> \in WordPlaces(T, mark)
  BY <1>1, <1>5, <1>6 DEF WordPlaces
<1>8. << a, n + 1 >> \in WordPlaces(t, mark)
  <2>1. << a, n + 1 >> \in (1 .. n + 1) \X (1 .. n + 1) /\ a <= n + 1
    BY <1>5
  <2>2. \A l \in a .. n + 1 : l = n + 1 \/ l \in a .. n
    BY <1>5
  <2>3. \A l \in a .. n : l \in 1 .. n
    BY <1>5
  <2>4. \A l \in a .. n + 1 : t[l] # mark
    BY <1>3, <1>5, <2>2, <2>3
  <2>5. a > 1 => t[a - 1] = mark
    BY <1>3, <1>5, <1>6
  <2> QED BY <1>3, <2>1, <2>4, <2>5 DEF WordPlaces
\* A word that ends at n begins at a, in either text.
<1>9. ASSUME NEW b \in 1 .. n, \A l \in b .. n : T[l] # mark, b > 1 => T[b - 1] = mark PROVE b = a
  <2>1. ~ b < a
    <3> SUFFICES ASSUME b < a PROVE FALSE
      OBVIOUS
    <3>1. a > 1 /\ a - 1 \in b .. n
      BY <1>5
    <3> QED BY <1>6, <1>9, <3>1
  <2>2. ~ a < b
    <3> SUFFICES ASSUME a < b PROVE FALSE
      OBVIOUS
    <3>1. b > 1 /\ b - 1 \in a .. n
      BY <1>5
    <3> QED BY <1>5, <1>9, <3>1
  <2> QED BY <1>5, <2>1, <2>2
<1>10. ASSUME NEW w \in WordPlaces(T, mark)
       PROVE  w = << a, n >> \/ (w \in WordPlaces(t, mark) /\ w[2] < n)
  <2>1. /\ w \in (1 .. n) \X (1 .. n) /\ w[1] <= w[2]
        /\ \A k \in w[1] .. w[2] : T[k] # mark
        /\ w[1] > 1 => T[w[1] - 1] = mark
        /\ w[2] < n => T[w[2] + 1] = mark
    BY <1>1 DEF WordPlaces
  <2>2. CASE w[2] = n
    <3>1. PICK b \in 1 .. n : b = w[1]
      BY <2>1
    <3>2. b = a
      BY <1>9, <2>1, <2>2, <3>1
    <3>3. w = << w[1], w[2] >>
      BY <2>1
    <3> QED BY <2>2, <3>1, <3>2, <3>3
  <2>3. CASE w[2] # n
    <3>1. w[2] < n /\ w \in (1 .. n + 1) \X (1 .. n + 1)
      BY <2>1, <2>3
    <3>2. \A k \in w[1] .. w[2] : k \in 1 .. n
      BY <2>1
    <3>3. \A k \in w[1] .. w[2] : t[k] # mark
      BY <1>3, <2>1, <3>2
    <3>4. (w[1] > 1 => t[w[1] - 1] = mark) /\ t[w[2] + 1] = mark
      BY <1>3, <2>1, <3>1
    <3> QED BY <1>3, <2>1, <3>1, <3>3, <3>4 DEF WordPlaces
  <2> QED BY <2>2, <2>3
<1>11. ASSUME NEW w \in WordPlaces(t, mark)
       PROVE  w = << a, n + 1 >> \/ (w \in WordPlaces(T, mark) /\ w # << a, n >>)
  <2>1. /\ w \in (1 .. n + 1) \X (1 .. n + 1) /\ w[1] <= w[2]
        /\ \A k \in w[1] .. w[2] : t[k] # mark
        /\ w[1] > 1 => t[w[1] - 1] = mark
        /\ w[2] < n + 1 => t[w[2] + 1] = mark
    BY <1>3 DEF WordPlaces
  <2>2. t[n] # mark /\ t[n + 1] # mark
    BY <1>1, <1>3
  <2>3. CASE w[2] = n + 1
    <3>1. w[1] # n + 1
      <4>1. w[1] = n + 1 => w[1] - 1 = n /\ w[1] > 1
        BY <1>1
      <4> QED BY <2>1, <2>2, <4>1
    <3>2. PICK b \in 1 .. n : b = w[1]
      BY <2>1, <3>1
    <3>3. \A l \in b .. n : l \in w[1] .. w[2] /\ l \in 1 .. n
      BY <2>3, <3>2
    <3>4. \A l \in b .. n : T[l] # mark
      BY <1>3, <2>1, <3>3
    <3>5. b > 1 => T[b - 1] = mark
      BY <1>3, <2>1, <3>2
    <3>6. b = a
      BY <1>9, <3>4, <3>5
    <3>7. w = << w[1], w[2] >>
      BY <2>1
    <3> QED BY <2>3, <3>2, <3>6, <3>7
  <2>4. CASE w[2] # n + 1
    <3>1. w \in (1 .. n) \X (1 .. n)
      BY <2>1, <2>4
    <3>2. w[2] # n
      BY <2>1, <2>2, <3>1
    <3>3. \A k \in w[1] .. w[2] : k \in 1 .. n
      BY <3>1
    <3>4. \A k \in w[1] .. w[2] : T[k] # mark
      BY <1>3, <2>1, <3>3
    <3>5. (w[1] > 1 => T[w[1] - 1] = mark) /\ T[w[2] + 1] = mark
      BY <1>3, <2>1, <3>1, <3>2
    <3>6. w \in WordPlaces(T, mark)
      BY <1>1, <2>1, <3>1, <3>4, <3>5 DEF WordPlaces
    <3> QED BY <3>2, <3>6
  <2> QED BY <2>3, <2>4
<1>12. WordPlaces(t, mark) = (WordPlaces(T, mark) \ {<< a, n >>}) \cup {<< a, n + 1 >>}
  BY <1>8, <1>10, <1>11
<1>13. \A w \in WordPlaces(T, mark) : w[2] = n => w = << a, n >>
  BY <1>10
<1>14. a \in 1 .. Len(T) /\ LastWordFrom(a, T, ch, mark)
  BY <1>1, <1>2, <1>5, <1>7, <1>12, <1>13 DEF LastWordFrom
<1> QED BY <1>14

LEMMA LongerWord ==
  ASSUME NEW S, NEW T \in Seq(S), NEW mark, NEW ch \in S, ch # mark,
         T # << >>, T[Len(T)] # mark,
         NEW list \in Seq(Seq(S)), NEW word \in Seq(S),
         ListsWords(Append(list, word), T, mark)
  PROVE  ListsWords(Append(list, Append(word, ch)), Append(T, ch), mark)
<1>1. PICK n \in Nat, m \in Nat : n = Len(T) /\ m = Len(list)
  BY LenProperties
<1>2. PICK t, old, new, longer :
        /\ t = Append(T, ch) /\ longer = Append(word, ch)
        /\ old = Append(list, word) /\ new = Append(list, longer)
  OBVIOUS
<1>3. Len(t) = n + 1 /\ t[n + 1] = ch /\ t \in Seq(S) /\ longer \in Seq(S)
  BY <1>1, <1>2, AppendProperties
<1>4. /\ DOMAIN old = 1 .. m + 1 /\ old[m + 1] = word
      /\ DOMAIN new = 1 .. m + 1 /\ new[m + 1] = longer
      /\ \A k \in 1 .. m : new[k] = old[k]
  <2>1. /\ old \in Seq(Seq(S)) /\ Len(old) = m + 1 /\ old[m + 1] = word
        /\ \A k \in 1 .. m : old[k] = list[k]
    BY <1>1, <1>2, AppendProperties
  <2>2. /\ new \in Seq(Seq(S)) /\ Len(new) = m + 1 /\ new[m + 1] = longer
        /\ \A k \in 1 .. m : new[k] = list[k]
    BY <1>1, <1>2, <1>3, AppendProperties
  <2> QED BY <2>1, <2>2, LenProperties
<1>5. PICK place \in [1 .. m + 1 -> WordPlaces(T, mark)] :
        /\ WordPlaces(T, mark) = {place[k] : k \in 1 .. m + 1}
        /\ \A j, k \in 1 .. m + 1 : j < k => place[j][2] < place[k][1]
        /\ \A k \in 1 .. m + 1 : old[k] = SubSeq(T, place[k][1], place[k][2])
  BY <1>2, <1>4, Zenon DEF ListsWords
<1>6. PICK a \in 1 .. n :
        /\ << a, n >> \in WordPlaces(T, mark)
        /\ WordPlaces(t, mark) = (WordPlaces(T, mark) \ {<< a, n >>}) \cup {<< a, n + 1 >>}
        /\ \A w \in WordPlaces(T, mark) : w[2] = n => w = << a, n >>
  <2>1. PICK a \in 1 .. Len(T) : LastWordFrom(a, T, ch, mark)
    BY LongerPlace
  <2> QED BY <1>1, <1>2, <2>1 DEF LastWordFrom
<1>7. \A k \in 1 .. m + 1 : place[k] \in (1 .. n) \X (1 .. n) /\ place[k][1] <= place[k][2]
  BY <1>1, <1>5 DEF WordPlaces
<1>8. place[m + 1] = << a, n >>
  <2>1. PICK k \in 1 .. m + 1 : place[k] = << a, n >>
    BY <1>5, <1>6
  <2>2. ~ k < m + 1
    <3> SUFFICES ASSUME k < m + 1 PROVE FALSE
      OBVIOUS
    <3>1. m + 1 \in 1 .. m + 1
      OBVIOUS
    <3>2. place[k][2] < place[m + 1][1] /\ place[m + 1] \in (1 .. n) \X (1 .. n)
      BY <1>5, <1>7, <3>1
    <3>3. place[k][2] = n
      BY <2>1
    <3> QED BY <3>2, <3>3
  <2>3. k = m + 1
    BY <2>2
  <2> QED BY <2>1, <2>3
<1> DEFINE last == << a, n + 1 >>
           places == [k \in 1 .. m + 1 |-> IF k = m + 1 THEN last ELSE place[k]]
<1>9. places[m + 1] = last /\ \A k \in 1 .. m : places[k] = place[k]
  OBVIOUS
<1>10. /\ \A k \in 1 .. m + 1 : k = m + 1 \/ k \in 1 .. m
       /\ \A k \in 1 .. m : k \in 1 .. m + 1 /\ k < m + 1
       /\ m + 1 \in 1 .. m + 1
  OBVIOUS
<1>11. \A k \in 1 .. m : place[k] # << a, n >>
  <2> SUFFICES ASSUME NEW k \in 1 .. m, place[k] = << a, n >> PROVE FALSE
    OBVIOUS
  <2>1. place[k][2] < place[m + 1][1]
    BY <1>5, <1>10
  <2>2. place[k][2] = n /\ place[m + 1][1] = a
    BY <1>8
  <2> QED BY <2>1, <2>2
<1>12. places \in [1 .. m + 1 -> WordPlaces(t, mark)]
  <2>1. \A k \in 1 .. m : place[k] \in WordPlaces(t, mark)
    BY <1>5, <1>6, <1>10, <1>11
  <2>2. last \in WordPlaces(t, mark)
    BY <1>6
  <2> HIDE DEF last
  <2> QED BY <1>10, <2>1, <2>2
<1> HIDE DEF places
<1>13. WordPlaces(t, mark) = {places[k] : k \in 1 .. m + 1}
  <2>1. ASSUME NEW w \in WordPlaces(t, mark) PROVE \E k \in 1 .. m + 1 : w = places[k]
    <3>1. CASE w = last
      BY <1>9, <1>10, <3>1
    <3>2. CASE w # last
      <4>1. w \in WordPlaces(T, mark) /\ w # << a, n >>
        BY <1>6, <3>2
      <4>2. PICK k \in 1 .. m + 1 : w = place[k]
        BY <1>5, <4>1
      <4>3. k \in 1 .. m
        BY <1>8, <1>10, <4>1, <4>2
      <4> QED BY <1>9, <4>2, <4>3
    <3> QED BY <3>1, <3>2
  <2>2. \A k \in 1 .. m + 1 : places[k] \in WordPlaces(t, mark)
    BY <1>12
  <2> QED BY <2>1, <2>2
<1>14. \A j, k \in 1 .. m + 1 : j < k => places[j][2] < places[k][1]
  <2> SUFFICES ASSUME NEW j \in 1 .. m + 1, NEW k \in 1 .. m + 1, j < k
               PROVE  places[j][2] < places[k][1]
    OBVIOUS
  <2>3. j \in 1 .. m
    OBVIOUS
  <2>1. j \in 1 .. m /\ places[j] = place[j]
    BY <1>9, <2>3
  <2>2. places[k][1] = place[k][1]
    BY <1>8, <1>9, <1>10
  <2> QED BY <1>5, <2>1, <2>2
<1>15. \A k \in 1 .. m + 1 : new[k] = SubSeq(t, places[k][1], places[k][2])
  <2> SUFFICES ASSUME NEW k \in 1 .. m + 1 PROVE new[k] = SubSeq(t, places[k][1], places[k][2])
    OBVIOUS
  <2>1. PICK b \in 1 .. Len(T), c \in 1 .. Len(T) : b = place[k][1] /\ c = place[k][2]
    BY <1>1, <1>7
  <2>2. SubSeq(t, b, c) = SubSeq(T, b, c)
    BY <1>2, PartOfLonger
  <2>3. CASE k \in 1 .. m
    BY <1>4, <1>5, <1>9, <2>1, <2>2, <2>3
  <2>4. CASE k = m + 1
    <3>8. place[k] = << a, n >> /\ old[k] = word
      BY <1>4, <1>8, <2>4
    <3>9. b = a /\ c = n
      BY <2>1, <3>8
    <3>10. old[k] = SubSeq(T, place[k][1], place[k][2])
      BY <1>5
    <3>1. word = SubSeq(t, a, n)
      BY <2>1, <2>2, <3>8, <3>9, <3>10
    <3>2. PICK e : e = n + 1
      OBVIOUS
    <3>3. a \in 1 .. Len(t) /\ e \in a .. Len(t) /\ e - 1 = n /\ t[e] = ch
      BY <1>3, <3>2
    <3>4. SubSeq(t, a, e) = SubSeq(t, a, e - 1) \o << t[e] >>
      BY <1>3, <3>3, SubSeqRecursiveSecond
    <3>5. longer = word \o << ch >>
      BY <1>2, AppendIsConcat
    <3>6. longer = SubSeq(t, a, n + 1)
      BY <3>1, <3>2, <3>3, <3>4, <3>5
    <3>7. places[k] = << a, n + 1 >>
      BY <1>9, <2>4
    <3>11. new[k] = longer
      BY <1>4, <2>4
    <3> QED BY <3>6, <3>7, <3>11
  <2> QED BY <1>10, <2>3, <2>4
<1> QED BY <1>2, <1>4, <1>12, <1>13, <1>14, <1>15, Zenon DEF ListsWords

\* A text has one list of words.
LEMMA OneListOfWords ==
  ASSUME NEW S, NEW T \in Seq(S), NEW mark, NEW p \in Seq(Seq(S)), NEW q \in Seq(Seq(S)),
         ListsWords(p, T, mark), ListsWords(q, T, mark)
  PROVE  p = q
<1>1. PICK n \in Nat, m \in Nat : n = Len(p) /\ m = Len(q)
  BY LenProperties
<1>2. DOMAIN p = 1 .. n /\ DOMAIN q = 1 .. m
  BY <1>1, LenProperties
<1> DEFINE W == WordPlaces(T, mark)
<1>3. PICK f \in [1 .. n -> W] :
        /\ W = {f[k] : k \in 1 .. n}
        /\ \A j, k \in 1 .. n : j < k => f[j][2] < f[k][1]
        /\ \A k \in 1 .. n : p[k] = SubSeq(T, f[k][1], f[k][2])
  BY <1>2, Zenon DEF ListsWords
<1>4. PICK g \in [1 .. m -> W] :
        /\ W = {g[k] : k \in 1 .. m}
        /\ \A j, k \in 1 .. m : j < k => g[j][2] < g[k][1]
        /\ \A k \in 1 .. m : q[k] = SubSeq(T, g[k][1], g[k][2])
  BY <1>2, Zenon DEF ListsWords
<1>5. \A w \in W : w[1] \in Nat /\ w[2] \in Nat /\ w[1] <= w[2]
  BY LenProperties DEF WordPlaces
<1> HIDE DEF W
<1>6. \A k \in 1 .. n : f[k] \in W
  BY <1>3
<1>7. \A k \in 1 .. m : g[k] \in W
  BY <1>4
<1> DEFINE Q == {k \in Nat : k \in 1 .. n => k <= m /\ f[k] = g[k]}
           R == {k \in Nat : \A j \in 1 .. k : j \in Q}
<1>8. ASSUME NEW k \in Nat, \A j \in 1 .. k : j \in Q PROVE k + 1 \in Q
  <2> SUFFICES ASSUME k + 1 \in 1 .. n PROVE k + 1 <= m /\ f[k + 1] = g[k + 1]
    OBVIOUS
  <2>1. \A j \in 1 .. k : j \in 1 .. n /\ j \in 1 .. m /\ f[j] = g[j]
    BY <1>8
  <2>2. PICK e : e = k + 1
    OBVIOUS
  <2>9. f[e] \in W
    BY <1>6, <2>2
  <2>3. PICK j \in 1 .. m : f[e] = g[j]
    BY <1>4, <2>9
  <2>4. j >= e
    <3> SUFFICES ASSUME j < e PROVE FALSE
      BY <2>2
    <3>1. j \in 1 .. k
      BY <2>2
    <3>2. f[j] = f[e] /\ j \in 1 .. n /\ e \in 1 .. n
      BY <2>1, <2>2, <2>3, <3>1
    <3>3. f[j][2] < f[e][1]
      BY <1>3, <3>2
    <3> QED BY <1>5, <1>6, <3>2, <3>3
  <2>5. e \in 1 .. m
    BY <2>2, <2>4
  <2>6. PICK l \in 1 .. n : f[l] = g[e]
    BY <1>3, <1>4, <2>5
  <2>7. l >= e
    <3> SUFFICES ASSUME l < e PROVE FALSE
      BY <2>2
    <3>1. l \in 1 .. k
      BY <2>2
    <3>2. g[l] = g[e] /\ l \in 1 .. m
      BY <2>1, <2>6, <3>1
    <3>3. g[l][2] < g[e][1]
      BY <1>4, <2>5, <3>2
    <3> QED BY <1>5, <1>7, <3>2, <3>3
  <2>8. j = e
    <3> SUFFICES ASSUME e < j PROVE FALSE
      BY <2>4, <2>5
    <3>1. g[e][2] < g[j][1]
      BY <1>4, <2>5
    <3>2. ~ e < l
      <4> SUFFICES ASSUME e < l PROVE FALSE
        OBVIOUS
      <4>1. f[e][2] < f[l][1] /\ e \in 1 .. n
        BY <1>3, <2>2
      <4>2. f[e] \in W /\ f[l] \in W /\ f[l] = g[e] /\ f[e] = g[j]
        BY <1>6, <2>3, <2>6, <4>1
      <4>3. /\ f[e][1] \in Nat /\ f[e][2] \in Nat /\ f[e][1] <= f[e][2]
            /\ f[l][1] \in Nat /\ f[l][2] \in Nat /\ f[l][1] <= f[l][2]
        BY <1>5, <4>2
      <4>4. f[l][2] < f[e][1]
        BY <3>1, <4>2
      <4> QED BY <4>1, <4>3, <4>4
    <3>3. l = e
      BY <2>5, <2>7, <3>2
    <3>4. g[e] = g[j] /\ g[e] \in W
      BY <1>7, <2>3, <2>5, <2>6, <3>3
    <3> QED BY <1>5, <3>1, <3>4
  <2> QED BY <2>2, <2>3, <2>5, <2>8
<1>9. Nat \subseteq R
  <2>1. 0 \in R
    OBVIOUS
  <2>2. ASSUME NEW k \in Nat, k \in R PROVE k + 1 \in R
    <3>1. k + 1 \in Q
      BY <1>8, <2>2
    <3>2. \A j \in 1 .. k + 1 : j \in 1 .. k \/ j = k + 1
      OBVIOUS
    <3> HIDE DEF Q
    <3> QED BY <2>2, <3>1, <3>2
  <2> HIDE DEF R
  <2> QED BY <2>1, <2>2, InductiveSetHasAll
<1>10. \A k \in 1 .. n : k \in 1 .. m /\ f[k] = g[k]
  <2> SUFFICES ASSUME NEW k \in 1 .. n PROVE k \in 1 .. m /\ f[k] = g[k]
    OBVIOUS
  <2>1. k \in Nat /\ k \in 1 .. k
    OBVIOUS
  <2>3. k \in R
    <3> HIDE DEF R
    <3> QED BY <1>9, <2>1
  <2>2. k \in Q
    <3> HIDE DEF Q
    <3> QED BY <2>1, <2>3
  <2> QED BY <2>2
<1>11. n = m
  <2>1. n <= m
    <3>1. n = 0 \/ n \in 1 .. n
      BY <1>1
    <3> QED BY <1>1, <1>10, <3>1
  <2>2. ~ n < m
    <3> SUFFICES ASSUME n < m PROVE FALSE
      OBVIOUS
    <3>1. m \in 1 .. m
      BY <1>1
    <3>2. PICK k \in 1 .. n : f[k] = g[m]
      BY <1>3, <1>4, <3>1
    <3>3. k \in 1 .. m /\ g[k] = g[m] /\ k < m
      BY <1>1, <1>10, <3>2
    <3>4. g[k][2] < g[m][1] /\ g[k] \in W
      BY <1>4, <1>7, <3>1, <3>3
    <3> QED BY <1>5, <3>3, <3>4
  <2> QED BY <1>1, <2>1, <2>2
<1>12. \A k \in 1 .. Len(p) : p[k] = q[k]
  BY <1>1, <1>3, <1>4, <1>10
<1> QED BY <1>1, <1>11, <1>12, SeqEqual

-----------------------------------------------------------------------------
(* The loops over texts and lists *)

Char == Letters \cup {NUL, Space}
Word == Seq(Char)

\* f has the other characters of word up to each place.
LeavesOthers(f, word, N) ==
  /\ f[0] = << >>
  /\ \A k \in 1 .. N : f[k] = IF word[k] = NUL THEN f[k - 1] ELSE Append(f[k - 1], word[k])
  /\ WithoutNULs(word) = f[N]

\* Its characters 0 leave a word one by one.
LEMMA WithoutNULsSteps ==
  ASSUME NEW word \in Word, NEW N, N = Len(word)
  PROVE  \E f \in [0 .. N -> Word] : LeavesOthers(f, word, N)
<1> DEFINE E(k, l) == IF word[k] = NUL THEN l ELSE Append(l, word[k])
           step == [w \in (1 .. N) \X Word |-> E(w[1], w[2])]
<1>1. N \in Nat /\ << >> \in Word
  BY LenProperties, EmptySeq DEF Word
<1>2. ASSUME NEW k \in 1 .. N, NEW l \in Word PROVE E(k, l) \in Word
  <2>1. word[k] \in Char
    BY ElementOfSeq DEF Word
  <2>2. Append(l, word[k]) \in Word
    BY <2>1, AppendProperties DEF Word
  <2> QED BY <2>2
<1>3. step \in Steps(N, Word)
  BY <1>2 DEF Steps
<1>4. \A k \in 1 .. N, l \in Word : step[<< k, l >>] = E(k, l)
  OBVIOUS
<1> HIDE DEF step, E
<1>5. PICK f : IsLoop(f, N, Word, << >>, step)
  BY <1>1, <1>3, LoopDefined
<1>6. /\ f \in [0 .. N -> Word] /\ f[0] = << >>
      /\ \A k \in 1 .. N : f[k] = E(k, f[k - 1])
  <2>1. f \in [0 .. N -> Word] /\ f[0] = << >>
    BY <1>5 DEF IsLoop
  <2>2. ASSUME NEW k \in 1 .. N PROVE f[k] = E(k, f[k - 1])
    <3>1. k - 1 \in 0 .. N
      BY <1>1
    <3>2. f[k] = step[<< k, f[k - 1] >>]
      BY <1>5 DEF IsLoop
    <3> QED BY <1>4, <2>1, <3>1, <3>2
  <2> QED BY <2>1, <2>2
<1> DEFINE eqn(g) == g = [k \in 0 .. N |-> IF k = 0 THEN << >> ELSE E(k, g[k - 1])]
           g == CHOOSE g : eqn(g)
<1>7. eqn(g)
  <2>1. \A k \in 0 .. N : f[k] = IF k = 0 THEN << >> ELSE E(k, f[k - 1])
    BY <1>1, <1>6
  <2>2. eqn(f)
    BY <1>6, <2>1
  <2> QED BY <2>2
<1>8. WithoutNULs(word) = g[N]
  BY Zenon DEF WithoutNULs, E
<1> HIDE DEF g
<1>9. \A k \in 0 .. N : f[k] = g[k]
  <2>1. \A k \in 0 .. N : g[k] = IF k = 0 THEN << >> ELSE E(k, g[k - 1])
    BY <1>7
  <2>2. f[0] = g[0]
    BY <1>1, <1>6, <2>1
  <2>3. ASSUME NEW k \in 1 .. N, f[k - 1] = g[k - 1] PROVE f[k] = g[k]
    <3>1. k \in 0 .. N /\ k # 0
      BY <1>1
    <3>2. f[k] = E(k, f[k - 1]) /\ g[k] = E(k, g[k - 1])
      BY <1>6, <2>1, <3>1
    <3> QED BY <2>3, <3>2
  <2>4. GoAlike(f, g, N)
    BY <2>2, <2>3 DEF GoAlike
  <2> HIDE DEF eqn
  <2> QED BY <1>1, <2>4, AgreeUpTo
<1>10. WithoutNULs(word) = f[N]
  BY <1>1, <1>8, <1>9
<1> QED BY <1>6, <1>10, Zenon DEF E, LeavesOthers

LEMMA WithoutNULsType ==
  ASSUME NEW word \in Word
  PROVE  WithoutNULs(word) \in Word /\ WithoutNULs(<< >>) = << >>
<1>1. PICK N \in Nat : N = Len(word)
  BY LenProperties DEF Word
<1>2. PICK f \in [0 .. N -> Word] : LeavesOthers(f, word, N)
  BY <1>1, WithoutNULsSteps, Zenon
<1>7. WithoutNULs(word) = f[N]
  BY <1>2 DEF LeavesOthers
<1>3. N \in 0 .. N
  BY <1>1
<1>4. PICK M, w : M = Len(w) /\ M = 0 /\ w = << >> /\ w \in Word
  BY EmptySeq DEF Word
<1>5. PICK g \in [0 .. M -> Word] : LeavesOthers(g, w, M)
  BY <1>4, WithoutNULsSteps, Zenon
<1>6. g[0] = << >> /\ WithoutNULs(w) = g[M]
  BY <1>5 DEF LeavesOthers
<1> QED BY <1>3, <1>4, <1>6, <1>7

\* f has the words of list up to each place.
GathersWords(f, list, N) ==
  /\ f[0] = << >>
  /\ \A k \in 1 .. N : f[k] = IF WithoutNULs(list[k]) = << >> THEN f[k - 1] ELSE Append(f[k - 1], WithoutNULs(list[k]))
  /\ WordsIn(list) = f[N]

\* The words of a list are gathered one by one.
LEMMA WordsInSteps ==
  ASSUME NEW list \in Seq(Word), NEW N, N = Len(list)
  PROVE  \E f \in [0 .. N -> Seq(Word)] : GathersWords(f, list, N)
<1> DEFINE E(k, l) == IF WithoutNULs(list[k]) = << >> THEN l ELSE Append(l, WithoutNULs(list[k]))
           step == [w \in (1 .. N) \X Seq(Word) |-> E(w[1], w[2])]
<1>1. N \in Nat /\ << >> \in Seq(Word)
  BY LenProperties, EmptySeq
<1>2. ASSUME NEW k \in 1 .. N, NEW l \in Seq(Word) PROVE E(k, l) \in Seq(Word)
  <2>1. WithoutNULs(list[k]) \in Word
    BY ElementOfSeq, WithoutNULsType
  <2>2. Append(l, WithoutNULs(list[k])) \in Seq(Word)
    BY <2>1, AppendProperties
  <2> QED BY <2>2
<1>3. step \in Steps(N, Seq(Word))
  BY <1>2 DEF Steps
<1>4. \A k \in 1 .. N, l \in Seq(Word) : step[<< k, l >>] = E(k, l)
  OBVIOUS
<1> HIDE DEF step, E
<1>5. PICK f : IsLoop(f, N, Seq(Word), << >>, step)
  BY <1>1, <1>3, LoopDefined
<1>6. /\ f \in [0 .. N -> Seq(Word)] /\ f[0] = << >>
      /\ \A k \in 1 .. N : f[k] = E(k, f[k - 1])
  <2>1. f \in [0 .. N -> Seq(Word)] /\ f[0] = << >>
    BY <1>5 DEF IsLoop
  <2>2. ASSUME NEW k \in 1 .. N PROVE f[k] = E(k, f[k - 1])
    <3>1. k - 1 \in 0 .. N
      BY <1>1
    <3>2. f[k] = step[<< k, f[k - 1] >>]
      BY <1>5 DEF IsLoop
    <3> QED BY <1>4, <2>1, <3>1, <3>2
  <2> QED BY <2>1, <2>2
<1> DEFINE eqn(g) == g = [k \in 0 .. N |-> IF k = 0 THEN << >> ELSE E(k, g[k - 1])]
           g == CHOOSE g : eqn(g)
<1>7. eqn(g)
  <2>1. \A k \in 0 .. N : f[k] = IF k = 0 THEN << >> ELSE E(k, f[k - 1])
    BY <1>1, <1>6
  <2>2. eqn(f)
    BY <1>6, <2>1
  <2> QED BY <2>2
<1>8. WordsIn(list) = g[N]
  BY Zenon DEF WordsIn, E
<1> HIDE DEF g
<1>9. \A k \in 0 .. N : f[k] = g[k]
  <2>1. \A k \in 0 .. N : g[k] = IF k = 0 THEN << >> ELSE E(k, g[k - 1])
    BY <1>7
  <2>2. f[0] = g[0]
    BY <1>1, <1>6, <2>1
  <2>3. ASSUME NEW k \in 1 .. N, f[k - 1] = g[k - 1] PROVE f[k] = g[k]
    <3>1. k \in 0 .. N /\ k # 0
      BY <1>1
    <3>2. f[k] = E(k, f[k - 1]) /\ g[k] = E(k, g[k - 1])
      BY <1>6, <2>1, <3>1
    <3> QED BY <2>3, <3>2
  <2>4. GoAlike(f, g, N)
    BY <2>2, <2>3 DEF GoAlike
  <2> HIDE DEF eqn
  <2> QED BY <1>1, <2>4, AgreeUpTo
<1>10. WordsIn(list) = f[N]
  BY <1>1, <1>8, <1>9
<1> QED BY <1>6, <1>10, Zenon DEF E, GathersWords

LEMMA WordsInType ==
  ASSUME NEW list \in Seq(Word)
  PROVE  WordsIn(list) \in Seq(Word) /\ WordsIn(<< >>) = << >>
<1>1. PICK N \in Nat : N = Len(list)
  BY LenProperties
<1>2. PICK f \in [0 .. N -> Seq(Word)] : GathersWords(f, list, N)
  BY <1>1, WordsInSteps, Zenon
<1>7. WordsIn(list) = f[N]
  BY <1>2 DEF GathersWords
<1>3. N \in 0 .. N
  BY <1>1
<1>4. PICK M, w : M = Len(w) /\ M = 0 /\ w = << >> /\ w \in Seq(Word)
  BY EmptySeq
<1>5. PICK g \in [0 .. M -> Seq(Word)] : GathersWords(g, w, M)
  BY <1>4, WordsInSteps, Zenon
<1>6. g[0] = << >> /\ WordsIn(w) = g[M]
  BY <1>5 DEF GathersWords
<1> QED BY <1>3, <1>4, <1>6, <1>7

\* One more character.
LEMMA OneMoreCharacter ==
  ASSUME NEW word \in Word, NEW c \in Char
  PROVE  WithoutNULs(Append(word, c)) = IF c = NUL THEN WithoutNULs(word) ELSE Append(WithoutNULs(word), c)
<1>1. PICK N \in Nat, M \in Nat : N = Len(word) /\ M = N + 1
  BY LenProperties DEF Word
<1>2. PICK t : t = Append(word, c)
  OBVIOUS
<1>3. t \in Word /\ Len(t) = M /\ t[M] = c /\ \A k \in 1 .. N : t[k] = word[k]
  BY <1>1, <1>2, AppendProperties DEF Word
<1>4. PICK g \in [0 .. N -> Word] :
        /\ g[0] = << >>
        /\ \A k \in 1 .. N : g[k] = IF word[k] = NUL THEN g[k - 1] ELSE Append(g[k - 1], word[k])
        /\ WithoutNULs(word) = g[N]
  <2>9. PICK g \in [0 .. N -> Word] : LeavesOthers(g, word, N)
    BY <1>1, WithoutNULsSteps, Zenon
  <2> QED BY <2>9, Zenon DEF LeavesOthers
<1>5. PICK f \in [0 .. M -> Word] :
        /\ f[0] = << >>
        /\ \A k \in 1 .. M : f[k] = IF t[k] = NUL THEN f[k - 1] ELSE Append(f[k - 1], t[k])
        /\ WithoutNULs(t) = f[M]
  <2>1. M = Len(t)
    BY <1>3
  <2>9. PICK f \in [0 .. M -> Word] : LeavesOthers(f, t, M)
    BY <1>3, <2>1, WithoutNULsSteps, Zenon
  <2> QED BY <2>9, Zenon DEF LeavesOthers
<1>6. f[N] = g[N]
  <2>1. \A k \in 1 .. N : k \in 1 .. M
    BY <1>1
  <2>2. ASSUME NEW k \in 1 .. N, f[k - 1] = g[k - 1] PROVE f[k] = g[k]
    BY <1>3, <1>4, <1>5, <2>1, <2>2
  <2>3. GoAlike(f, g, N)
    BY <1>4, <1>5, <2>2 DEF GoAlike
  <2>4. \A k \in 0 .. N : f[k] = g[k]
    BY <2>3, AgreeUpTo
  <2> QED BY <1>1, <2>4
<1>7. M \in 1 .. M /\ M - 1 = N
  BY <1>1
<1>8. f[M] = IF t[M] = NUL THEN f[M - 1] ELSE Append(f[M - 1], t[M])
  BY <1>5, <1>7
<1> QED BY <1>2, <1>3, <1>4, <1>5, <1>6, <1>7, <1>8

\* One more word.
LEMMA OneMoreWord ==
  ASSUME NEW list \in Seq(Word), NEW c \in Word
  PROVE  WordsIn(Append(list, c)) =
           IF WithoutNULs(c) = << >> THEN WordsIn(list) ELSE Append(WordsIn(list), WithoutNULs(c))
<1>1. PICK N \in Nat, M \in Nat : N = Len(list) /\ M = N + 1
  BY LenProperties
<1>2. PICK t : t = Append(list, c)
  OBVIOUS
<1>3. t \in Seq(Word) /\ Len(t) = M /\ t[M] = c /\ \A k \in 1 .. N : t[k] = list[k]
  BY <1>1, <1>2, AppendProperties
<1>4. PICK g \in [0 .. N -> Seq(Word)] :
        /\ g[0] = << >>
        /\ \A k \in 1 .. N : g[k] = IF WithoutNULs(list[k]) = << >> THEN g[k - 1] ELSE Append(g[k - 1], WithoutNULs(list[k]))
        /\ WordsIn(list) = g[N]
  <2>9. PICK g \in [0 .. N -> Seq(Word)] : GathersWords(g, list, N)
    BY <1>1, WordsInSteps, Zenon
  <2> QED BY <2>9, Zenon DEF GathersWords
<1>5. PICK f \in [0 .. M -> Seq(Word)] :
        /\ f[0] = << >>
        /\ \A k \in 1 .. M : f[k] = IF WithoutNULs(t[k]) = << >> THEN f[k - 1] ELSE Append(f[k - 1], WithoutNULs(t[k]))
        /\ WordsIn(t) = f[M]
  <2>1. M = Len(t)
    BY <1>3
  <2>9. PICK f \in [0 .. M -> Seq(Word)] : GathersWords(f, t, M)
    BY <1>3, <2>1, WordsInSteps, Zenon
  <2> QED BY <2>9, Zenon DEF GathersWords
<1>6. f[N] = g[N]
  <2>1. \A k \in 1 .. N : k \in 1 .. M
    BY <1>1
  <2>2. ASSUME NEW k \in 1 .. N, f[k - 1] = g[k - 1] PROVE f[k] = g[k]
    BY <1>3, <1>4, <1>5, <2>1, <2>2
  <2>3. GoAlike(f, g, N)
    BY <1>4, <1>5, <2>2 DEF GoAlike
  <2>4. \A k \in 0 .. N : f[k] = g[k]
    BY <2>3, AgreeUpTo
  <2> QED BY <1>1, <2>4
<1>7. M \in 1 .. M /\ M - 1 = N
  BY <1>1
<1>8. f[M] = IF WithoutNULs(t[M]) = << >> THEN f[M - 1] ELSE Append(f[M - 1], WithoutNULs(t[M]))
  BY <1>5, <1>7
<1> QED BY <1>2, <1>3, <1>4, <1>5, <1>6, <1>7, <1>8

\* f has the strings of list up to each place.
JoinsStrings(f, list, N) ==
  /\ f[0] = << >>
  /\ \A k \in 1 .. N : f[k] = f[k - 1] \o Append(list[k], NUL)
  /\ Strings(list) = f[N]

\* The strings of a list follow each other.
LEMMA StringsSteps ==
  ASSUME NEW list \in Seq(Word), NEW N, N = Len(list)
  PROVE  \E f \in [0 .. N -> Word] : JoinsStrings(f, list, N)
<1> DEFINE E(k, l) == l \o Append(list[k], NUL)
           step == [w \in (1 .. N) \X Word |-> E(w[1], w[2])]
<1>1. N \in Nat /\ << >> \in Word
  BY LenProperties, EmptySeq DEF Word
<1>2. ASSUME NEW k \in 1 .. N, NEW l \in Word PROVE E(k, l) \in Word
  <2>1. NUL \in Char /\ list[k] \in Word
    BY ElementOfSeq DEF Char
  <2>2. Append(list[k], NUL) \in Word
    BY <2>1, AppendProperties DEF Word
  <2>3. l \o Append(list[k], NUL) \in Word
    BY <2>2, ConcatProperties DEF Word
  <2> QED BY <2>3
<1>3. step \in Steps(N, Word)
  BY <1>2 DEF Steps
<1>4. \A k \in 1 .. N, l \in Word : step[<< k, l >>] = E(k, l)
  OBVIOUS
<1> HIDE DEF step, E
<1>5. PICK f : IsLoop(f, N, Word, << >>, step)
  BY <1>1, <1>3, LoopDefined
<1>6. /\ f \in [0 .. N -> Word] /\ f[0] = << >>
      /\ \A k \in 1 .. N : f[k] = E(k, f[k - 1])
  <2>1. f \in [0 .. N -> Word] /\ f[0] = << >>
    BY <1>5 DEF IsLoop
  <2>2. ASSUME NEW k \in 1 .. N PROVE f[k] = E(k, f[k - 1])
    <3>1. k - 1 \in 0 .. N
      BY <1>1
    <3>2. f[k] = step[<< k, f[k - 1] >>]
      BY <1>5 DEF IsLoop
    <3> QED BY <1>4, <2>1, <3>1, <3>2
  <2> QED BY <2>1, <2>2
<1> DEFINE eqn(g) == g = [k \in 0 .. N |-> IF k = 0 THEN << >> ELSE E(k, g[k - 1])]
           g == CHOOSE g : eqn(g)
<1>7. eqn(g)
  <2>1. \A k \in 0 .. N : f[k] = IF k = 0 THEN << >> ELSE E(k, f[k - 1])
    BY <1>1, <1>6
  <2>2. eqn(f)
    BY <1>6, <2>1
  <2> QED BY <2>2
<1>8. Strings(list) = g[N]
  BY Zenon DEF Strings, E
<1> HIDE DEF g
<1>9. \A k \in 0 .. N : f[k] = g[k]
  <2>1. \A k \in 0 .. N : g[k] = IF k = 0 THEN << >> ELSE E(k, g[k - 1])
    BY <1>7
  <2>2. f[0] = g[0]
    BY <1>1, <1>6, <2>1
  <2>3. ASSUME NEW k \in 1 .. N, f[k - 1] = g[k - 1] PROVE f[k] = g[k]
    <3>1. k \in 0 .. N /\ k # 0
      BY <1>1
    <3>2. f[k] = E(k, f[k - 1]) /\ g[k] = E(k, g[k - 1])
      BY <1>6, <2>1, <3>1
    <3> QED BY <2>3, <3>2
  <2>4. GoAlike(f, g, N)
    BY <2>2, <2>3 DEF GoAlike
  <2> HIDE DEF eqn
  <2> QED BY <1>1, <2>4, AgreeUpTo
<1>10. Strings(list) = f[N]
  BY <1>1, <1>8, <1>9
<1> QED BY <1>6, <1>10, Zenon DEF E, JoinsStrings

LEMMA StringsType ==
  ASSUME NEW list \in Seq(Word)
  PROVE  Strings(list) \in Word /\ Strings(<< >>) = << >>
<1>1. PICK N \in Nat : N = Len(list)
  BY LenProperties
<1>2. PICK f \in [0 .. N -> Word] : JoinsStrings(f, list, N)
  BY <1>1, StringsSteps, Zenon
<1>7. Strings(list) = f[N]
  BY <1>2 DEF JoinsStrings
<1>3. N \in 0 .. N
  BY <1>1
<1>4. PICK M, w : M = Len(w) /\ M = 0 /\ w = << >> /\ w \in Seq(Word)
  BY EmptySeq
<1>5. PICK g \in [0 .. M -> Word] : JoinsStrings(g, w, M)
  BY <1>4, StringsSteps, Zenon
<1>6. g[0] = << >> /\ Strings(w) = g[M]
  BY <1>5 DEF JoinsStrings
<1> QED BY <1>3, <1>4, <1>6, <1>7

\* One more string.
LEMMA OneMoreString ==
  ASSUME NEW list \in Seq(Word), NEW c \in Word
  PROVE  Strings(Append(list, c)) = Strings(list) \o Append(c, NUL)
<1>1. PICK N \in Nat, M \in Nat : N = Len(list) /\ M = N + 1
  BY LenProperties
<1>2. PICK t : t = Append(list, c)
  OBVIOUS
<1>3. t \in Seq(Word) /\ Len(t) = M /\ t[M] = c /\ \A k \in 1 .. N : t[k] = list[k]
  BY <1>1, <1>2, AppendProperties
<1>4. PICK g \in [0 .. N -> Word] :
        /\ g[0] = << >>
        /\ \A k \in 1 .. N : g[k] = g[k - 1] \o Append(list[k], NUL)
        /\ Strings(list) = g[N]
  <2>9. PICK g \in [0 .. N -> Word] : JoinsStrings(g, list, N)
    BY <1>1, StringsSteps, Zenon
  <2> QED BY <2>9, Zenon DEF JoinsStrings
<1>5. PICK f \in [0 .. M -> Word] :
        /\ f[0] = << >>
        /\ \A k \in 1 .. M : f[k] = f[k - 1] \o Append(t[k], NUL)
        /\ Strings(t) = f[M]
  <2>1. M = Len(t)
    BY <1>3
  <2>9. PICK f \in [0 .. M -> Word] : JoinsStrings(f, t, M)
    BY <1>3, <2>1, StringsSteps, Zenon
  <2> QED BY <2>9, Zenon DEF JoinsStrings
<1>6. f[N] = g[N]
  <2>1. \A k \in 1 .. N : k \in 1 .. M
    BY <1>1
  <2>2. ASSUME NEW k \in 1 .. N, f[k - 1] = g[k - 1] PROVE f[k] = g[k]
    BY <1>3, <1>4, <1>5, <2>1, <2>2
  <2>3. GoAlike(f, g, N)
    BY <1>4, <1>5, <2>2 DEF GoAlike
  <2>4. \A k \in 0 .. N : f[k] = g[k]
    BY <2>3, AgreeUpTo
  <2> QED BY <1>1, <2>4
<1>7. M \in 1 .. M /\ M - 1 = N
  BY <1>1
<1>8. f[M] = f[M - 1] \o Append(t[M], NUL)
  BY <1>5, <1>7
<1> QED BY <1>2, <1>3, <1>4, <1>5, <1>6, <1>7, <1>8

-----------------------------------------------------------------------------
(* Reading a text *)

\* What of a text T has been read: the words of list and then word, which
\* ends with the text.
Reads(list, word, T, mark) ==
  /\ word = << >> => ListsWords(list, T, mark)
  /\ word # << >> => ListsWords(Append(list, word), T, mark)
  /\ word = << >> <=> T = << >> \/ T[Len(T)] = mark

LEMMA ReadsStart ==
  ASSUME NEW mark
  PROVE  Reads(<< >>, << >>, << >>, mark)
<1>1. PICK T : T = << >>
  OBVIOUS
<1>2. Len(T) = 0 /\ DOMAIN T = {}
  BY <1>1
<1>3. WordPlaces(T, mark) = {}
  BY <1>2 DEF WordPlaces
<1>4. T \in [DOMAIN T -> WordPlaces(T, mark)]
  BY <1>1, <1>2
<1>5. ListsWords(T, T, mark)
  BY <1>2, <1>3, <1>4 DEF ListsWords
<1> QED BY <1>1, <1>5 DEF Reads

LEMMA ReadsMark ==
  ASSUME NEW S, NEW T \in Seq(S), NEW mark \in S, NEW list, NEW word, Reads(list, word, T, mark)
  PROVE  Reads(IF word = << >> THEN list ELSE Append(list, word), << >>, Append(T, mark), mark)
<1>1. PICK t : t = Append(T, mark)
  OBVIOUS
<1>2. t # << >> /\ t[Len(t)] = mark
  <2>1. t # << >> /\ Len(t) = Len(T) + 1 /\ t[Len(T) + 1] = mark
    BY <1>1, AppendProperties
  <2> QED BY <2>1
<1>3. PICK l : l = IF word = << >> THEN list ELSE Append(list, word)
  OBVIOUS
<1>4. ListsWords(l, T, mark)
  BY <1>3, Zenon DEF Reads
<1>5. ListsWords(l, t, mark)
  BY <1>1, <1>4, MarkAddsNoWord
<1>6. Reads(l, << >>, t, mark)
  BY <1>2, <1>5, Zenon DEF Reads
<1> QED BY <1>1, <1>3, <1>6

LEMMA ReadsLetter ==
  ASSUME NEW S, NEW T \in Seq(S), NEW mark, NEW ch \in S, ch # mark,
         NEW list \in Seq(Seq(S)), NEW word \in Seq(S), Reads(list, word, T, mark)
  PROVE  Reads(list, Append(word, ch), Append(T, ch), mark)
<1>1. PICK t, longer : t = Append(T, ch) /\ longer = Append(word, ch)
  OBVIOUS
<1>2. t # << >> /\ t[Len(t)] # mark
  <2>1. t # << >> /\ Len(t) = Len(T) + 1 /\ t[Len(T) + 1] = ch
    BY <1>1, AppendProperties
  <2> QED BY <2>1
<1>3. longer # << >>
  BY <1>1, AppendProperties
<1>4. CASE word = << >>
  <2>1. ListsWords(list, T, mark) /\ (T # << >> => T[Len(T)] = mark)
    BY <1>4 DEF Reads
  <2>2. longer = << ch >>
    BY <1>1, <1>4
  <2>3. ListsWords(Append(list, << ch >>), t, mark)
    BY <1>1, <2>1, NewWord
  <2> QED BY <1>1, <1>2, <1>3, <2>2, <2>3 DEF Reads
<1>5. CASE word # << >>
  <2>1. ListsWords(Append(list, word), T, mark) /\ T # << >> /\ T[Len(T)] # mark
    BY <1>5 DEF Reads
  <2>2. ListsWords(Append(list, longer), t, mark)
    BY <1>1, <2>1, LongerWord
  <2> QED BY <1>1, <1>2, <1>3, <2>2 DEF Reads
<1> QED BY <1>4, <1>5

\* The characters 0 of a word are before all others.
Fronted(word) == \A j, k \in DOMAIN word : j < k /\ word[k] = NUL => word[j] = NUL

FrontedWord == {word \in Word : Fronted(word)}

\* Nothing is left of a word of characters 0.
LEMMA NothingButNULs ==
  ASSUME NEW word \in Word, \A k \in DOMAIN word : word[k] = NUL
  PROVE  WithoutNULs(word) = << >>
<1> DEFINE Q == {w \in Word : (\A k \in DOMAIN w : w[k] = NUL) => WithoutNULs(w) = << >>}
<1>1. << >> \in Q
  <2>1. << >> \in Word
    BY DEF Word
  <2> QED BY <2>1, WithoutNULsType
<1>2. ASSUME NEW w \in Seq(Char), NEW c \in Char, w \in Q PROVE Append(w, c) \in Q
  <2>1. PICK t : t = Append(w, c)
    OBVIOUS
  <2>2. /\ t \in Word /\ DOMAIN t = 1 .. Len(w) + 1 /\ DOMAIN w = 1 .. Len(w) /\ Len(w) \in Nat
        /\ t[Len(w) + 1] = c /\ \A k \in 1 .. Len(w) : t[k] = w[k]
    BY <2>1, AppendProperties, LenProperties DEF Word
  <2>3. ASSUME \A k \in DOMAIN t : t[k] = NUL PROVE WithoutNULs(t) = << >>
    <3>1. c = NUL
      BY <2>2, <2>3
    <3>2. \A k \in DOMAIN w : w[k] = NUL
      BY <2>2, <2>3
    <3>3. WithoutNULs(w) = << >>
      BY <1>2, <3>2
    <3> QED BY <2>1, <3>1, <3>3, OneMoreCharacter DEF Word
  <2> QED BY <2>1, <2>2, <2>3
<1>3. Seq(Char) \subseteq Q
  <2> HIDE DEF Q
  <2> QED BY <1>1, <1>2, SeqInduction
<1>4. word \in Q
  BY <1>3 DEF Word
<1> QED BY <1>4

\* A word as break_string collects it.
LEMMA FrontedLonger ==
  ASSUME NEW word \in FrontedWord, NEW ch \in Char, ch # NUL
  PROVE  Append(word, ch) \in FrontedWord
<1>1. PICK t : t = Append(word, ch)
  OBVIOUS
<1>2. PICK n \in Nat : n = Len(word)
  BY LenProperties DEF FrontedWord, Word
<1>3. /\ t \in Word /\ DOMAIN t = 1 .. n + 1 /\ DOMAIN word = 1 .. n
      /\ t[n + 1] = ch /\ \A k \in 1 .. n : t[k] = word[k]
  BY <1>1, <1>2, AppendProperties, LenProperties DEF Word, FrontedWord
<1>4. ASSUME NEW j \in 1 .. n + 1, NEW k \in 1 .. n + 1, j < k, t[k] = NUL PROVE t[j] = NUL
  <2>1. k # n + 1
    BY <1>3, <1>4
  <2>2. j \in 1 .. n /\ k \in 1 .. n
    BY <1>4, <2>1
  <2>3. word[k] = NUL
    BY <1>3, <1>4, <2>2
  <2>4. word[j] = NUL
    BY <1>3, <1>4, <2>2, <2>3 DEF Fronted, FrontedWord
  <2> QED BY <1>3, <2>2, <2>4
<1> QED BY <1>1, <1>3, <1>4 DEF FrontedWord, Fronted

\* A text that ends with a mark goes on with a word.  The characters 0 in
\* front of it add nothing, also where they are the marks.
LEMMA ReadsWord ==
  ASSUME NEW list \in Seq(Word), NEW T \in Word, Reads(list, << >>, T, NUL), NEW word \in FrontedWord
  PROVE  Reads(list, WithoutNULs(word), T \o word, NUL)
<1> DEFINE Q == {w \in Word : Fronted(w) => Reads(list, WithoutNULs(w), T \o w, NUL)}
<1>1. << >> \in Q
  <2>1. << >> \in Word /\ WithoutNULs(<< >>) = << >>
    BY WithoutNULsType DEF Word
  <2>2. T \o << >> = T
    BY ConcatEmptySeq DEF Word
  <2> QED BY <2>1, <2>2
<1>2. ASSUME NEW w \in Seq(Char), NEW c \in Char, w \in Q PROVE Append(w, c) \in Q
  <2>1. PICK t : t = Append(w, c)
    OBVIOUS
  <2>2. PICK n \in Nat : n = Len(w)
    BY LenProperties
  <2>3. /\ t \in Word /\ w \in Word /\ DOMAIN t = 1 .. n + 1 /\ DOMAIN w = 1 .. n
        /\ t[n + 1] = c /\ \A k \in 1 .. n : t[k] = w[k]
    BY <2>1, <2>2, AppendProperties, LenProperties DEF Word
  <2>4. SUFFICES ASSUME Fronted(t) PROVE Reads(list, WithoutNULs(t), T \o t, NUL)
    BY <2>1, <2>3
  <2>5. Fronted(w)
    <3> SUFFICES ASSUME NEW j \in 1 .. n, NEW k \in 1 .. n, j < k, w[k] = NUL PROVE w[j] = NUL
      BY <2>3 DEF Fronted
    <3>1. j \in 1 .. n + 1 /\ k \in 1 .. n + 1 /\ t[k] = NUL
      BY <2>3
    <3>2. t[j] = NUL
      BY <2>3, <2>4, <3>1 DEF Fronted
    <3> QED BY <2>3, <3>2
  <2>6. Reads(list, WithoutNULs(w), T \o w, NUL)
    BY <1>2, <2>5
  <2>7. PICK old, more, word2 : old = T \o w /\ more = T \o t /\ word2 = WithoutNULs(w)
    OBVIOUS
  <2>8. old \in Seq(Char) /\ more = Append(old, c) /\ word2 \in Seq(Char)
    <3>1. old \in Seq(Char)
      BY <2>3, <2>7, ConcatProperties DEF Word
    <3>2. << c >> \in Seq(Char)
      OBVIOUS
    <3>3. t = w \o << c >>
      BY <2>1, AppendIsConcat
    <3>4. more = old \o << c >>
      BY <2>3, <2>7, <3>2, <3>3, ConcatAssociative DEF Word
    <3>5. word2 \in Seq(Char)
      BY <2>3, <2>7, WithoutNULsType DEF Word
    <3> QED BY <3>1, <3>4, <3>5, AppendIsConcat
  <2>9. Reads(list, word2, old, NUL)
    BY <2>6, <2>7
  <2>10. CASE c = NUL
    <3>1. \A k \in DOMAIN w : w[k] = NUL
      <4> SUFFICES ASSUME NEW k \in 1 .. n PROVE w[k] = NUL
        BY <2>3
      <4>1. k \in 1 .. n + 1 /\ n + 1 \in 1 .. n + 1 /\ k < n + 1
        OBVIOUS
      <4>2. t[k] = NUL
        BY <2>3, <2>4, <2>10, <4>1 DEF Fronted
      <4> QED BY <2>3, <4>2
    <3>2. word2 = << >>
      BY <2>3, <2>7, <3>1, NothingButNULs
    <3>3. WithoutNULs(t) = << >>
      BY <2>1, <2>3, <2>7, <2>10, <3>2, OneMoreCharacter
    <3>4. Reads(IF word2 = << >> THEN list ELSE Append(list, word2), << >>, Append(old, c), NUL)
      BY <2>8, <2>9, <2>10, ReadsMark
    <3>5. Reads(list, << >>, more, NUL)
      BY <2>8, <3>2, <3>4
    <3> QED BY <2>7, <3>3, <3>5
  <2>11. CASE c # NUL
    <3>1. WithoutNULs(t) = Append(word2, c)
      BY <2>1, <2>3, <2>7, <2>11, OneMoreCharacter
    <3>2. list \in Seq(Seq(Char))
      BY DEF Word
    <3>3. Reads(list, Append(word2, c), Append(old, c), NUL)
      BY <2>8, <2>9, <2>11, <3>2, ReadsLetter
    <3> QED BY <2>7, <2>8, <3>1, <3>3
  <2> QED BY <2>10, <2>11
<1>3. Seq(Char) \subseteq Q
  <2> HIDE DEF Q
  <2> QED BY <1>1, <1>2, SeqInduction
<1>4. word \in Q /\ Fronted(word)
  BY <1>3 DEF FrontedWord, Word
<1> QED BY <1>4

\* The strings of a list, read to their marks, are its words.
LEMMA StringsRead ==
  ASSUME NEW list \in Seq(FrontedWord)
  PROVE  ListsWords(WordsIn(list), Strings(list), NUL)
<1> DEFINE Q == {l \in Seq(Word) : Reads(WordsIn(l), << >>, Strings(l), NUL)}
<1>1. << >> \in Q
  <2>2. PICK l \in Seq(Word) : l = << >>
    BY EmptySeq
  <2>1. << >> \in Seq(Word) /\ WordsIn(<< >>) = << >> /\ Strings(<< >>) = << >>
    BY <2>2, WordsInType, StringsType
  <2> QED BY <2>1, ReadsStart
<1>2. ASSUME NEW l \in Seq(FrontedWord), NEW w \in FrontedWord, l \in Q PROVE Append(l, w) \in Q
  <2>1. PICK words, text, word : words = WordsIn(l) /\ text = Strings(l) /\ word = WithoutNULs(w)
    OBVIOUS
  <2>2. l \in Seq(Word) /\ w \in Word /\ Append(l, w) \in Seq(Word)
    BY <1>2, AppendProperties DEF FrontedWord
  <2>3. words \in Seq(Word) /\ text \in Word /\ word \in Word
    BY <2>1, <2>2, WordsInType, StringsType, WithoutNULsType
  <2>4. Reads(words, << >>, text, NUL)
    BY <1>2, <2>1
  <2>5. Reads(words, word, text \o w, NUL)
    BY <2>1, <2>3, <2>4, ReadsWord
  <2>6. PICK more : more = text \o w
    OBVIOUS
  <2>7. more \in Seq(Char) /\ NUL \in Char
    BY <2>2, <2>3, <2>6, ConcatProperties DEF Word, Char
  <2>8. Reads(IF word = << >> THEN words ELSE Append(words, word), << >>, Append(more, NUL), NUL)
    BY <2>5, <2>6, <2>7, ReadsMark
  <2>9. WordsIn(Append(l, w)) = IF word = << >> THEN words ELSE Append(words, word)
    BY <2>1, <2>2, OneMoreWord
  <2>10. Strings(Append(l, w)) = Append(more, NUL)
    <3>1. Strings(Append(l, w)) = text \o Append(w, NUL)
      BY <2>1, <2>2, OneMoreString
    <3>2. << NUL >> \in Seq(Char) /\ Append(w, NUL) = w \o << NUL >>
      BY <2>2, <2>7, AppendIsConcat DEF Word
    <3>3. (text \o w) \o << NUL >> = text \o (w \o << NUL >>)
      <4>1. text \in Seq(Char) /\ w \in Seq(Char) /\ << NUL >> \in Seq(Char)
        BY <2>2, <2>3, <3>2 DEF Word
      <4> QED BY <4>1, ConcatAssociative
    <3>4. Append(more, NUL) = more \o << NUL >>
      BY <2>7, AppendIsConcat
    <3>5. Append(more, NUL) = (text \o w) \o << NUL >>
      BY <2>6, <3>4, Zenon
    <3>6. Strings(Append(l, w)) = text \o (w \o << NUL >>)
      BY <3>1, <3>2, Zenon
    <3> QED BY <3>3, <3>5, <3>6, Zenon
  <2>11. Reads(WordsIn(Append(l, w)), << >>, Strings(Append(l, w)), NUL)
    BY <2>8, <2>9, <2>10
  <2> QED BY <2>2, <2>11
<1>3. Seq(FrontedWord) \subseteq Q
  <2> HIDE DEF Q
  <2> QED BY <1>1, <1>2, SeqInduction
<1>4. Reads(WordsIn(list), << >>, Strings(list), NUL)
  BY <1>3
<1> QED BY <1>4 DEF Reads

\* So lists of which the block is the same have the same words.
LEMMA BlockTellsWords ==
  ASSUME NEW p \in Seq(FrontedWord), NEW q \in Seq(FrontedWord), ListBlock(p) = ListBlock(q)
  PROVE  WordsIn(p) = WordsIn(q)
<1>1. p \in Seq(Word) /\ q \in Seq(Word)
  BY DEF FrontedWord
<1>2. PICK s, t, v, w : s = Strings(p) /\ t = Strings(q) /\ v = WordsIn(p) /\ w = WordsIn(q)
  OBVIOUS
<1>3. s \in Seq(Char) /\ t \in Seq(Char) /\ v \in Seq(Seq(Char)) /\ w \in Seq(Seq(Char))
  BY <1>1, <1>2, StringsType, WordsInType DEF Word
<1>4. s = t
  <2>1. Append(s, NUL) = Append(t, NUL) /\ NUL \in Char
    BY <1>2, Zenon DEF ListBlock, Char
  <2> QED BY <1>3, <2>1, AppendInjective
<1>5. ListsWords(v, s, NUL) /\ ListsWords(w, s, NUL)
  BY <1>2, <1>4, StringsRead
<1> QED BY <1>2, <1>3, <1>5, OneListOfWords

-----------------------------------------------------------------------------
(* break_string *)

Collected == [list : Seq(FrontedWord), word : FrontedWord]

LEMMA FrontedWords ==
  /\ << >> \in FrontedWord
  /\ \A n \in Nat : [k \in 1 .. n |-> NUL] \in FrontedWord
<1>1. << >> \in FrontedWord
  BY DEF FrontedWord, Fronted, Word
<1>2. ASSUME NEW n \in Nat PROVE [k \in 1 .. n |-> NUL] \in FrontedWord
  <2>1. [k \in 1 .. n |-> NUL] \in Word
    BY DEF Word, Char
  <2> QED BY <2>1 DEF FrontedWord, Fronted
<1> QED BY <1>1, <1>2

LEMMA TextChars ==
  ASSUME NEW ch \in Letters \cup {Space}
  PROVE  ch \in Char /\ ch # NUL
BY LettersAssumption DEF Char, Space, NUL

LEMMA PushWordType ==
  ASSUME NEW s \in Collected
  PROVE  PushWord(s) \in Seq(FrontedWord)
<1>1. s.list \in Seq(FrontedWord) /\ s.word \in FrontedWord
  BY DEF Collected
<1>2. Append(s.list, s.word) \in Seq(FrontedWord)
  BY <1>1, AppendProperties
<1> QED BY <1>1, <1>2 DEF PushWord

LEMMA ReadCharType ==
  ASSUME NEW s \in Collected, NEW ch \in Letters \cup {Space}
  PROVE  ReadChar(s, ch) \in Collected
<1>1. s.list \in Seq(FrontedWord) /\ s.word \in FrontedWord
  BY DEF Collected
<1>2. CASE ch = Space
  BY <1>2, PushWordType, FrontedWords DEF ReadChar, Collected
<1>3. CASE ch # Space
  <2>1. Append(s.word, ch) \in FrontedWord
    BY <1>1, TextChars, FrontedLonger
  <2> QED BY <1>1, <1>3, <2>1 DEF ReadChar, Collected
<1> QED BY <1>2, <1>3

\* The loop of break_string.
LEMMA BreakStringSteps ==
  ASSUME NEW text \in Text, NEW N, N = Len(text)
  PROVE  \E f \in [0 .. N -> Collected] :
           /\ f[0] = [list |-> << >>, word |-> [n \in 1 .. Len(text) |-> NUL]]
           /\ \A k \in 1 .. N : f[k] = ReadChar(f[k - 1], text[k])
           /\ BreakString(text) = PushWord(f[N])
<1> DEFINE E(k, l) == ReadChar(l, text[k])
           step == [w \in (1 .. N) \X Collected |-> E(w[1], w[2])]
<1>1. N \in Nat /\ [list |-> << >>, word |-> [n \in 1 .. Len(text) |-> NUL]] \in Collected
  <2>1. N \in Nat
    BY LenProperties DEF Text
  <2>2. << >> \in Seq(FrontedWord)
    OBVIOUS
  <2> QED BY <2>1, <2>2, FrontedWords DEF Collected
<1>2. ASSUME NEW k \in 1 .. N, NEW l \in Collected PROVE E(k, l) \in Collected
  <2>1. text[k] \in Letters \cup {Space}
    BY ElementOfSeq DEF Text
  <2> QED BY <2>1, ReadCharType
<1>3. step \in Steps(N, Collected)
  BY <1>2 DEF Steps
<1>4. \A k \in 1 .. N, l \in Collected : step[<< k, l >>] = E(k, l)
  OBVIOUS
<1> HIDE DEF step, E
<1>5. PICK f : IsLoop(f, N, Collected, [list |-> << >>, word |-> [n \in 1 .. Len(text) |-> NUL]], step)
  BY <1>1, <1>3, LoopDefined
<1>6. /\ f \in [0 .. N -> Collected] /\ f[0] = [list |-> << >>, word |-> [n \in 1 .. Len(text) |-> NUL]]
      /\ \A k \in 1 .. N : f[k] = E(k, f[k - 1])
  <2>1. f \in [0 .. N -> Collected] /\ f[0] = [list |-> << >>, word |-> [n \in 1 .. Len(text) |-> NUL]]
    BY <1>5 DEF IsLoop
  <2>2. ASSUME NEW k \in 1 .. N PROVE f[k] = E(k, f[k - 1])
    <3>1. k - 1 \in 0 .. N
      BY <1>1
    <3>2. f[k] = step[<< k, f[k - 1] >>]
      BY <1>5 DEF IsLoop
    <3> QED BY <1>4, <2>1, <3>1, <3>2
  <2> QED BY <2>1, <2>2
<1> DEFINE eqn(g) == g = [k \in 0 .. N |-> IF k = 0 THEN [list |-> << >>, word |-> [n \in 1 .. Len(text) |-> NUL]] ELSE E(k, g[k - 1])]
           g == CHOOSE g : eqn(g)
<1>7. eqn(g)
  <2>1. \A k \in 0 .. N : f[k] = IF k = 0 THEN [list |-> << >>, word |-> [n \in 1 .. Len(text) |-> NUL]] ELSE E(k, f[k - 1])
    BY <1>1, <1>6
  <2>2. eqn(f)
    BY <1>6, <2>1
  <2> QED BY <2>2
<1>8. BreakString(text) = PushWord(g[N])
  BY Zenon DEF BreakString, E
<1> HIDE DEF g
<1>9. \A k \in 0 .. N : f[k] = g[k]
  <2>1. \A k \in 0 .. N : g[k] = IF k = 0 THEN [list |-> << >>, word |-> [n \in 1 .. Len(text) |-> NUL]] ELSE E(k, g[k - 1])
    BY <1>7
  <2>2. f[0] = g[0]
    <3>1. 0 \in 0 .. N
      BY <1>1
    <3>2. g[0] = [list |-> << >>, word |-> [n \in 1 .. Len(text) |-> NUL]]
      BY <2>1, <3>1, Zenon
    <3> QED BY <1>6, <3>2, Zenon
  <2>3. ASSUME NEW k \in 1 .. N, f[k - 1] = g[k - 1] PROVE f[k] = g[k]
    <3>1. k \in 0 .. N /\ k # 0
      BY <1>1
    <3>2. f[k] = E(k, f[k - 1]) /\ g[k] = E(k, g[k - 1])
      BY <1>6, <2>1, <3>1
    <3> QED BY <2>3, <3>2
  <2>4. GoAlike(f, g, N)
    BY <2>2, <2>3 DEF GoAlike
  <2> HIDE DEF eqn
  <2> QED BY <1>1, <2>4, AgreeUpTo
<1>10. BreakString(text) = PushWord(f[N])
  BY <1>1, <1>8, <1>9
<1> QED BY <1>6, <1>10 DEF E

\* What break_string has collected of the first k characters.
Read(s, text, k) == Reads(WordsIn(s.list), WithoutNULs(s.word), SubSeq(text, 1, k), Space)

LEMMA ReadsOn ==
  ASSUME NEW s \in Collected, NEW ch \in Letters \cup {Space}, NEW T \in Seq(Char),
         Reads(WordsIn(s.list), WithoutNULs(s.word), T, Space)
  PROVE  LET r == ReadChar(s, ch) IN Reads(WordsIn(r.list), WithoutNULs(r.word), Append(T, ch), Space)
<1>1. PICK list, word : list = s.list /\ word = s.word
  OBVIOUS
<1>2. list \in Seq(FrontedWord) /\ word \in FrontedWord
  BY <1>1 DEF Collected
<1>3. list \in Seq(Word) /\ word \in Word
  BY <1>2 DEF FrontedWord
<1>4. PICK words, chars : words = WordsIn(list) /\ chars = WithoutNULs(word)
  OBVIOUS
<1>5. words \in Seq(Word) /\ chars \in Word /\ ch \in Char /\ ch # NUL
  BY <1>3, <1>4, WordsInType, WithoutNULsType, TextChars
<1>6. Reads(words, chars, T, Space)
  BY <1>1, <1>4
<1>7. CASE ch = Space
  <2>1. ReadChar(s, ch).list = (IF word = << >> THEN list ELSE Append(list, word)) /\ ReadChar(s, ch).word = << >>
    BY <1>1, <1>7 DEF ReadChar, PushWord
  <2>2. PICK more : more = IF word = << >> THEN list ELSE Append(list, word)
    OBVIOUS
  <2>3. WordsIn(more) = IF chars = << >> THEN words ELSE Append(words, chars)
    <3>1. word = << >> => chars = << >>
      BY <1>3, <1>4, WithoutNULsType
    <3>2. WordsIn(Append(list, word)) = IF chars = << >> THEN words ELSE Append(words, chars)
      BY <1>3, <1>4, OneMoreWord
    <3> QED BY <1>4, <2>2, <3>1, <3>2
  <2>4. Reads(IF chars = << >> THEN words ELSE Append(words, chars), << >>, Append(T, ch), Space)
    BY <1>5, <1>6, <1>7, ReadsMark
  <2>5. WithoutNULs(<< >>) = << >>
    BY <1>3, WithoutNULsType
  <2>6. Reads(WordsIn(more), << >>, Append(T, ch), Space)
    BY <2>3, <2>4
  <2> QED BY <2>1, <2>2, <2>5, <2>6
<1>8. CASE ch # Space
  <2>1. ReadChar(s, ch).list = list /\ ReadChar(s, ch).word = Append(word, ch)
    BY <1>1, <1>8 DEF ReadChar
  <2>2. WithoutNULs(Append(word, ch)) = Append(chars, ch)
    BY <1>3, <1>4, <1>5, OneMoreCharacter
  <2>3. words \in Seq(Seq(Char)) /\ chars \in Seq(Char)
    BY <1>5 DEF Word
  <2>4. Reads(words, Append(chars, ch), Append(T, ch), Space)
    BY <1>5, <1>6, <1>8, <2>3, ReadsLetter
  <2> QED BY <1>4, <2>1, <2>2, <2>4
<1> QED BY <1>7, <1>8

\* break_string lists the words of a text, but for the characters 0.
LEMMA BreakStringReads ==
  ASSUME NEW text \in Text
  PROVE  /\ BreakString(text) \in Seq(FrontedWord)
         /\ ListsWords(WordsIn(BreakString(text)), text, Space)
<1>1. PICK N \in Nat : N = Len(text)
  BY LenProperties DEF Text
<1>2. PICK f \in [0 .. N -> Collected] :
        /\ f[0] = [list |-> << >>, word |-> [n \in 1 .. Len(text) |-> NUL]]
        /\ \A k \in 1 .. N : f[k] = ReadChar(f[k - 1], text[k])
        /\ BreakString(text) = PushWord(f[N])
  BY <1>1, BreakStringSteps, Zenon
<1>3. text \in Seq(Char) /\ \A k \in 1 .. N : text[k] \in Letters \cup {Space}
  <2>1. \A k \in 1 .. N : text[k] \in Letters \cup {Space}
    BY <1>1, ElementOfSeq DEF Text
  <2>2. Letters \cup {Space} \subseteq Char
    BY DEF Char
  <2>3. text \in Seq(Char)
    BY <2>2, SeqMonotonic DEF Text
  <2> QED BY <2>1, <2>3
<1> DEFINE Q == {k \in 0 .. N : Read(f[k], text, k)}
<1>4. 0 \in Q
  <2>1. PICK z, w : z = WithoutNULs(w) /\ w = [n \in 1 .. N |-> NUL]
    OBVIOUS
  <2>2. w \in Word /\ \A k \in DOMAIN w : w[k] = NUL
    BY <2>1, FrontedWords DEF FrontedWord
  <2>3. z = << >>
    BY <2>1, <2>2, NothingButNULs
  <2>4. f[0].list = << >> /\ f[0].word = w
    BY <1>1, <1>2, <2>1
  <2>5. SubSeq(text, 1, 0) = << >>
    BY SubSeqEmpty
  <2>6. WordsIn(<< >>) = << >>
    <3>1. << >> \in Seq(Word)
      OBVIOUS
    <3> QED BY <3>1, WordsInType
  <2>7. Read(f[0], text, 0)
    BY <2>1, <2>3, <2>4, <2>5, <2>6, ReadsStart DEF Read
  <2> QED BY <2>7
<1>5. ASSUME NEW k \in 0 .. N - 1, k \in Q PROVE k + 1 \in Q
  <2>1. k \in 0 .. N /\ k + 1 \in 1 .. N /\ k + 1 \in 0 .. N /\ (k + 1) - 1 = k
    OBVIOUS
  <2>2. PICK s, ch, T : s = f[k] /\ ch = text[k + 1] /\ T = SubSeq(text, 1, k)
    OBVIOUS
  <2>3. s \in Collected /\ ch \in Letters \cup {Space} /\ f[k + 1] = ReadChar(s, ch)
    BY <1>2, <1>3, <2>1, <2>2
  <2>4. T \in Seq(Char) /\ SubSeq(text, 1, k + 1) = Append(T, ch)
    <3>1. PICK e : e = k + 1
      OBVIOUS
    <3>2. 1 \in 1 .. Len(text) /\ e \in 1 .. Len(text) /\ e - 1 = k
      BY <1>1, <2>1, <3>1
    <3>3. SubSeq(text, 1, e) = SubSeq(text, 1, e - 1) \o << text[e] >>
      BY <1>3, <3>2, SubSeqRecursiveSecond
    <3>4. \A j \in 1 .. k : text[j] \in Char
      BY <1>1, <1>3, ElementOfSeq
    <3>5. T \in Seq(Char)
      BY <2>2, <3>4, SubSeqProperties
    <3>6. ch \in Char
      BY <2>3, TextChars
    <3>7. Append(T, ch) = T \o << ch >>
      BY <3>5, <3>6, AppendIsConcat
    <3> QED BY <2>2, <3>1, <3>2, <3>3, <3>5, <3>7
  <2>5. Reads(WordsIn(s.list), WithoutNULs(s.word), T, Space)
    BY <1>5, <2>2 DEF Read
  <2>6. PICK r : r = ReadChar(s, ch)
    OBVIOUS
  <2>7. Reads(WordsIn(r.list), WithoutNULs(r.word), Append(T, ch), Space)
    BY <2>3, <2>4, <2>5, <2>6, ReadsOn
  <2>8. Read(f[k + 1], text, k + 1)
    BY <2>3, <2>4, <2>6, <2>7 DEF Read
  <2> QED BY <2>1, <2>8
<1>6. N \in Q
  <2>1. 0 .. N \subseteq Q
    <3> HIDE DEF Q
    <3> QED BY <1>4, <1>5, InductionUpTo
  <2> QED BY <1>1, <2>1
<1>7. PICK s : s = f[N]
  OBVIOUS
<1>8. s \in Collected
  BY <1>2, <1>7
<1>9. PICK list, word : list = s.list /\ word = s.word
  OBVIOUS
<1>10. list \in Seq(Word) /\ word \in Word
  BY <1>8, <1>9 DEF Collected, FrontedWord
<1>11. PICK words, chars : words = WordsIn(list) /\ chars = WithoutNULs(word)
  OBVIOUS
<1>12. Reads(words, chars, text, Space)
  <2>1. SubSeq(text, 1, N) = text
    BY <1>1, <1>3, SubSeqFull
  <2> QED BY <1>6, <1>7, <1>9, <1>11, <2>1 DEF Read
<1>13. WordsIn(PushWord(s)) = IF chars = << >> THEN words ELSE Append(words, chars)
  <2>1. word = << >> => chars = << >>
    BY <1>10, <1>11, WithoutNULsType
  <2>2. WordsIn(Append(list, word)) = IF chars = << >> THEN words ELSE Append(words, chars)
    BY <1>10, <1>11, OneMoreWord
  <2> QED BY <1>9, <1>11, <2>1, <2>2 DEF PushWord
<1>14. ListsWords(WordsIn(PushWord(s)), text, Space)
  BY <1>12, <1>13, Zenon DEF Reads
<1>15. PushWord(s) \in Seq(FrontedWord)
  BY <1>8, PushWordType
<1> QED BY <1>2, <1>7, <1>14, <1>15

\* Whether it is the list or the text that is raised to upper case, the words
\* are the same.
Raised(s) == [list |-> ListToUpper(s.list), word |-> InUpperCase(s.word)]

LEMMA UpperChars ==
  ASSUME NEW ch \in Letters \cup {Space}
  PROVE  Upper(ch) \in Letters \cup {Space} /\ (Upper(ch) = Space <=> ch = Space)
<1>1. \A c \in DOMAIN ToUpper : c \in Letters /\ ToUpper[c] \in Letters
  BY LettersAssumption
<1>2. Space \notin Letters
  BY LettersAssumption
<1> QED BY <1>1, <1>2 DEF Upper

LEMMA UpperNUL == Upper(NUL) = NUL
<1>1. \A c \in DOMAIN ToUpper : c \in Letters
  BY LettersAssumption
<1>2. NUL \notin Letters
  BY LettersAssumption
<1> QED BY <1>1, <1>2 DEF Upper

LEMMA UpperText ==
  ASSUME NEW text \in Text
  PROVE  /\ InUpperCase(text) \in Text /\ Len(InUpperCase(text)) = Len(text)
         /\ \A k \in 1 .. Len(text) : InUpperCase(text)[k] = Upper(text[k])
<1>1. PICK N \in Nat : N = Len(text)
  BY LenProperties DEF Text
<1>2. DOMAIN text = 1 .. N /\ \A k \in 1 .. N : text[k] \in Letters \cup {Space}
  BY <1>1, ElementOfSeq DEF Text
<1>3. InUpperCase(text) = [k \in 1 .. N |-> Upper(text[k])]
  BY <1>2 DEF InUpperCase
<1>4. \A k \in 1 .. N : Upper(text[k]) \in Letters \cup {Space}
  BY <1>2, UpperChars
<1>5. InUpperCase(text) \in [1 .. N -> Letters \cup {Space}]
  BY <1>3, <1>4
<1>6. InUpperCase(text) \in Text /\ Len(InUpperCase(text)) = N
  BY <1>5 DEF Text
<1> QED BY <1>1, <1>3, <1>6

\* A sequence with each element changed.
LEMMA ChangedAppend ==
  ASSUME NEW S, NEW s \in Seq(S), NEW e \in S, NEW d,
         NEW t, t = Append(s, e), NEW u, DOMAIN u = DOMAIN s,
         NEW v, DOMAIN v = DOMAIN t, v = [k \in DOMAIN v |-> v[k]], u = [k \in DOMAIN u |-> u[k]],
         \A k \in DOMAIN s : v[k] = u[k], v[Len(s) + 1] = d
  PROVE  v = Append(u, d)
<1>1. PICK n \in Nat : n = Len(s)
  BY LenProperties
<1>2. DOMAIN s = 1 .. n /\ DOMAIN t = 1 .. n + 1
  BY <1>1, AppendProperties, LenProperties
<1> DEFINE D == {u[k] : k \in 1 .. n} \cup {d}
<1>3. u \in [1 .. n -> D] /\ v \in [1 .. n + 1 -> D]
  <2>1. \A k \in 1 .. n : u[k] \in D
    OBVIOUS
  <2>2. \A k \in 1 .. n + 1 : v[k] \in D
    <3>1. \A k \in 1 .. n + 1 : k = n + 1 \/ k \in 1 .. n
      OBVIOUS
    <3>2. \A k \in 1 .. n : v[k] \in D
      BY <1>2
    <3>3. v[n + 1] \in D
      BY <1>1
    <3> QED BY <3>1, <3>2, <3>3
  <2> HIDE DEF D
  <2> QED BY <1>2, <2>1, <2>2
<1>4. d \in D
  OBVIOUS
<1> HIDE DEF D
<1>5. u \in Seq(D) /\ Len(u) = n /\ v \in Seq(D) /\ Len(v) = n + 1
  BY <1>3
<1>6. PICK w : w = Append(u, d)
  OBVIOUS
<1>7. w \in Seq(D) /\ Len(w) = n + 1 /\ w[n + 1] = d /\ \A k \in 1 .. n : w[k] = u[k]
  BY <1>4, <1>5, <1>6, AppendProperties
<1>8. \A k \in 1 .. n + 1 : v[k] = w[k]
  <2>1. \A k \in 1 .. n + 1 : k = n + 1 \/ k \in 1 .. n
    OBVIOUS
  <2>2. \A k \in 1 .. n : v[k] = w[k]
    BY <1>2, <1>7
  <2>3. v[n + 1] = w[n + 1]
    BY <1>1, <1>7
  <2> QED BY <2>1, <2>2, <2>3
<1>9. v = w
  BY <1>5, <1>7, <1>8, SeqEqual
<1> QED BY <1>6, <1>9

LEMMA UpperAppend ==
  ASSUME NEW word \in Word, NEW ch \in Char
  PROVE  InUpperCase(Append(word, ch)) = Append(InUpperCase(word), Upper(ch))
<1>0. PICK n \in Nat : n = Len(word)
  BY LenProperties DEF Word
<1>9. PICK t : t = Append(word, ch)
  OBVIOUS
<1>1. n = Len(word) /\ t = Append(word, ch)
  BY <1>0, <1>9
<1>2. /\ DOMAIN word = 1 .. n /\ DOMAIN t = 1 .. n + 1
      /\ t[n + 1] = ch /\ \A k \in 1 .. n : t[k] = word[k]
  BY <1>1, AppendProperties, LenProperties DEF Word
<1>3. PICK u, v, d : u = InUpperCase(word) /\ v = InUpperCase(t) /\ d = Upper(ch)
  OBVIOUS
<1>4. DOMAIN u = DOMAIN word /\ u = [k \in DOMAIN u |-> u[k]]
  BY <1>3 DEF InUpperCase
<1>5. DOMAIN v = DOMAIN t /\ v = [k \in DOMAIN v |-> v[k]]
  BY <1>3 DEF InUpperCase
<1>6. \A k \in DOMAIN word : v[k] = u[k]
  BY <1>2, <1>3 DEF InUpperCase
<1>7. v[Len(word) + 1] = d
  BY <1>1, <1>2, <1>3 DEF InUpperCase
<1>8. v = Append(u, d)
  BY <1>1, <1>4, <1>5, <1>6, <1>7, ChangedAppend DEF Word
<1> QED BY <1>1, <1>3, <1>8

LEMMA UpperListAppend ==
  ASSUME NEW list \in Seq(Word), NEW word \in Word
  PROVE  ListToUpper(Append(list, word)) = Append(ListToUpper(list), InUpperCase(word))
<1>0. PICK n \in Nat : n = Len(list)
  BY LenProperties
<1>9. PICK t : t = Append(list, word)
  OBVIOUS
<1>1. n = Len(list) /\ t = Append(list, word)
  BY <1>0, <1>9
<1>2. /\ DOMAIN list = 1 .. n /\ DOMAIN t = 1 .. n + 1
      /\ t[n + 1] = word /\ \A k \in 1 .. n : t[k] = list[k]
  BY <1>1, AppendProperties, LenProperties
<1>3. PICK u, v, d : u = ListToUpper(list) /\ v = ListToUpper(t) /\ d = InUpperCase(word)
  OBVIOUS
<1>4. DOMAIN u = DOMAIN list /\ u = [k \in DOMAIN u |-> u[k]]
  BY <1>3 DEF ListToUpper
<1>5. DOMAIN v = DOMAIN t /\ v = [k \in DOMAIN v |-> v[k]]
  BY <1>3 DEF ListToUpper
<1>6. \A k \in DOMAIN list : v[k] = u[k]
  BY <1>2, <1>3 DEF ListToUpper
<1>7. v[Len(list) + 1] = d
  BY <1>1, <1>2, <1>3 DEF ListToUpper
<1>8. v = Append(u, d)
  BY <1>1, <1>4, <1>5, <1>6, <1>7, ChangedAppend
<1> QED BY <1>1, <1>3, <1>8

LEMMA RaisedReads ==
  ASSUME NEW s \in Collected, NEW ch \in Letters \cup {Space}
  PROVE  /\ Raised(ReadChar(s, ch)) = ReadChar(Raised(s), Upper(ch))
         /\ PushWord(Raised(s)) = ListToUpper(PushWord(s))
<1>1. PICK list, word : list = s.list /\ word = s.word
  OBVIOUS
<1>2. list \in Seq(Word) /\ word \in Word
  BY <1>1 DEF Collected, FrontedWord
<1>3. InUpperCase(word) = << >> <=> word = << >>
  <2>1. DOMAIN InUpperCase(word) = DOMAIN word /\ InUpperCase(word) = [k \in DOMAIN word |-> Upper(word[k])]
    BY DEF InUpperCase
  <2>2. word = << >> <=> DOMAIN word = {}
    BY <1>2, EmptySeq, LenProperties DEF Word
  <2>3. InUpperCase(word) = << >> => DOMAIN word = {}
    BY <2>1
  <2>4. word = << >> => InUpperCase(word) = << >>
    BY <2>1
  <2> QED BY <2>2, <2>3, <2>4
<1>4. PushWord(Raised(s)) = ListToUpper(PushWord(s))
  <2>1. Raised(s).list = ListToUpper(list) /\ Raised(s).word = InUpperCase(word)
    BY <1>1 DEF Raised
  <2>2. ListToUpper(Append(list, word)) = Append(ListToUpper(list), InUpperCase(word))
    BY <1>2, UpperListAppend
  <2> QED BY <1>1, <1>3, <2>1, <2>2 DEF PushWord
<1>5. Upper(ch) = Space <=> ch = Space
  BY UpperChars
<1>6. CASE ch = Space
  <2>1. ReadChar(s, ch) = [list |-> PushWord(s), word |-> << >>]
    BY <1>6 DEF ReadChar
  <2>2. ReadChar(Raised(s), Upper(ch)) = [list |-> PushWord(Raised(s)), word |-> << >>]
    BY <1>5, <1>6 DEF ReadChar
  <2>3. InUpperCase(<< >>) = << >>
    BY DEF InUpperCase
  <2>4. Raised(ReadChar(s, ch)) = [list |-> ListToUpper(PushWord(s)), word |-> << >>]
    BY <2>1, <2>3 DEF Raised
  <2> QED BY <1>4, <2>2, <2>4
<1>7. CASE ch # Space
  <2>1. ReadChar(s, ch) = [list |-> list, word |-> Append(word, ch)]
    BY <1>1, <1>7 DEF ReadChar
  <2>2. ReadChar(Raised(s), Upper(ch)) = [list |-> ListToUpper(list), word |-> Append(InUpperCase(word), Upper(ch))]
    BY <1>1, <1>5, <1>7 DEF ReadChar, Raised
  <2>3. InUpperCase(Append(word, ch)) = Append(InUpperCase(word), Upper(ch))
    BY <1>2, TextChars, UpperAppend
  <2>4. Raised(ReadChar(s, ch)) = [list |-> ListToUpper(list), word |-> InUpperCase(Append(word, ch))]
    BY <2>1 DEF Raised
  <2> QED BY <1>4, <2>2, <2>3, <2>4
<1> QED BY <1>4, <1>6, <1>7

LEMMA UpperBroken ==
  ASSUME NEW text \in Text
  PROVE  BreakString(InUpperCase(text)) = ListToUpper(BreakString(text))
<1>1. PICK N \in Nat : N = Len(text)
  BY LenProperties DEF Text
<1>2. PICK upper : upper = InUpperCase(text)
  OBVIOUS
<1>3. upper \in Text /\ Len(upper) = N /\ \A k \in 1 .. N : upper[k] = Upper(text[k])
  BY <1>1, <1>2, UpperText
<1>4. PICK f \in [0 .. N -> Collected] :
        /\ f[0] = [list |-> << >>, word |-> [n \in 1 .. Len(text) |-> NUL]]
        /\ \A k \in 1 .. N : f[k] = ReadChar(f[k - 1], text[k])
        /\ BreakString(text) = PushWord(f[N])
  BY <1>1, BreakStringSteps, Zenon
<1>5. PICK g \in [0 .. N -> Collected] :
        /\ g[0] = [list |-> << >>, word |-> [n \in 1 .. Len(upper) |-> NUL]]
        /\ \A k \in 1 .. N : g[k] = ReadChar(g[k - 1], upper[k])
        /\ BreakString(upper) = PushWord(g[N])
  BY <1>3, BreakStringSteps, Zenon
<1> DEFINE Q == {k \in 0 .. N : g[k] = Raised(f[k])}
<1>6. 0 \in Q
  <2>1. PICK w : w = [n \in 1 .. N |-> NUL]
    OBVIOUS
  <2>2. f[0] = [list |-> << >>, word |-> w] /\ g[0] = [list |-> << >>, word |-> w]
    BY <1>1, <1>3, <1>4, <1>5, <2>1
  <2>3. InUpperCase(w) = w
    BY <2>1, UpperNUL DEF InUpperCase
  <2>4. ListToUpper(<< >>) = << >>
    BY DEF ListToUpper
  <2>5. Raised(f[0]) = [list |-> << >>, word |-> w]
    BY <2>2, <2>3, <2>4 DEF Raised
  <2> QED BY <1>1, <2>2, <2>5
<1>7. ASSUME NEW k \in 0 .. N - 1, k \in Q PROVE k + 1 \in Q
  <2>1. k \in 0 .. N /\ k + 1 \in 1 .. N /\ k + 1 \in 0 .. N /\ (k + 1) - 1 = k
    OBVIOUS
  <2>2. PICK s, ch : s = f[k] /\ ch = text[k + 1]
    OBVIOUS
  <2>3. s \in Collected /\ ch \in Letters \cup {Space}
    BY <1>1, <1>4, <2>1, <2>2, ElementOfSeq DEF Text
  <2>4. f[k + 1] = ReadChar(s, ch) /\ g[k + 1] = ReadChar(Raised(s), Upper(ch))
    BY <1>3, <1>4, <1>5, <1>7, <2>1, <2>2
  <2> QED BY <2>1, <2>3, <2>4, RaisedReads
<1>8. N \in Q
  <2>1. 0 .. N \subseteq Q
    <3> HIDE DEF Q
    <3> QED BY <1>6, <1>7, InductionUpTo
  <2> QED BY <1>1, <2>1
<1>9. PICK s : s = f[N]
  OBVIOUS
<1>10. s \in Collected /\ PushWord(g[N]) = PushWord(Raised(s))
  BY <1>1, <1>4, <1>8, <1>9
<1>11. PushWord(Raised(s)) = ListToUpper(PushWord(s))
  <2>1. Space \in Letters \cup {Space}
    OBVIOUS
  <2> QED BY <1>10, <2>1, RaisedReads
<1> QED BY <1>2, <1>4, <1>5, <1>9, <1>10, <1>11

-----------------------------------------------------------------------------
(* The configuration block *)

BlockChar == Char \cup {"0", "1"}
AnyChar == BlockChar \cup Keys

\* A setting behind those before it.
Field(before, key, value) == (before \o << key, NUL >>) \o value

\* No value has the name of a key.
LEMMA KeysAreNoChars ==
  ASSUME NEW key \in Keys
  PROVE  key \notin BlockChar
<1>1. key \notin Letters
  BY LettersAssumption
<1>2. key # NUL /\ key # Space /\ key # "0" /\ key # "1"
  BY DEF Keys, BoolKeys, ListKeys, PathKeys, NUL, Space
<1> QED BY <1>1, <1>2 DEF BlockChar, Char

\* Its n characters before the key and m behind it.
HasField(t, u, key, v, n, m) ==
  /\ t \in Seq(AnyChar) /\ Len(t) = (n + 2) + m
  /\ \A k \in 1 .. n : t[k] = u[k]
  /\ t[n + 1] = key
  /\ \A k \in 1 .. m : t[(n + 2) + k] = v[k]
  /\ \A k \in n + 2 .. Len(t) : t[k] # key

LEMMA FieldPlaces ==
  ASSUME NEW key \in Keys, NEW u \in Seq(AnyChar), NEW v \in Seq(BlockChar),
         NEW n \in Nat, n = Len(u), NEW m \in Nat, m = Len(v),
         NEW t, t = Field(u, key, v)
  PROVE  HasField(t, u, key, v, n, m)
<1>1. PICK w : w = << key, NUL >>
  OBVIOUS
<1>2. w \in Seq(AnyChar) /\ Len(w) = 2 /\ w[1] = key /\ w[2] = NUL
  BY <1>1 DEF AnyChar, BlockChar, Char
<1>3. PICK x : x = u \o w
  OBVIOUS
<1>4. /\ x \in Seq(AnyChar) /\ Len(x) = n + 2
      /\ \A k \in 1 .. n + 2 : x[k] = IF k <= n THEN u[k] ELSE w[k - n]
  <2>1. /\ u \o w \in Seq(AnyChar) /\ Len(u \o w) = Len(u) + Len(w)
        /\ \A k \in 1 .. Len(u) + Len(w) : (u \o w)[k] = IF k <= Len(u) THEN u[k] ELSE w[k - Len(u)]
    BY <1>2, ConcatProperties
  <2> QED BY <1>2, <1>3, <2>1
<1>5. \A k \in 1 .. n : x[k] = u[k]
  BY <1>4
<1>6. x[n + 1] = key
  <2>1. n + 1 \in 1 .. n + 2 /\ ~ (n + 1 <= n) /\ (n + 1) - n = 1
    OBVIOUS
  <2> QED BY <1>2, <1>4, <2>1
<1>7. x[n + 2] = NUL
  <2>1. n + 2 \in 1 .. n + 2 /\ ~ (n + 2 <= n) /\ (n + 2) - n = 2
    OBVIOUS
  <2> QED BY <1>2, <1>4, <2>1
<1>8. v \in Seq(AnyChar)
  BY SeqMonotonic DEF AnyChar
<1>9. t = x \o v
  BY <1>1, <1>3 DEF Field
<1>10. PICK N \in Nat : N = n + 2
  OBVIOUS
<1>11. /\ t \in Seq(AnyChar) /\ Len(t) = N + m
       /\ \A k \in 1 .. N + m : t[k] = IF k <= N THEN x[k] ELSE v[k - N]
  <2>1. /\ x \o v \in Seq(AnyChar) /\ Len(x \o v) = Len(x) + Len(v)
        /\ \A k \in 1 .. Len(x) + Len(v) : (x \o v)[k] = IF k <= Len(x) THEN x[k] ELSE v[k - Len(x)]
    BY <1>4, <1>8, ConcatProperties
  <2> QED BY <1>4, <1>9, <1>10, <2>1
<1>12. \A k \in 1 .. N : t[k] = x[k]
  BY <1>11
<1>13. \A k \in 1 .. n : t[k] = u[k]
  BY <1>5, <1>10, <1>12
<1>14. t[n + 1] = key /\ t[n + 2] = NUL
  BY <1>6, <1>7, <1>10, <1>12
<1>15. ASSUME NEW k \in 1 .. m PROVE t[N + k] = v[k]
  <2>1. N + k \in 1 .. N + m /\ ~ (N + k <= N) /\ (N + k) - N = k
    OBVIOUS
  <2> QED BY <1>11, <2>1
<1>16. ASSUME NEW k \in n + 2 .. Len(t) PROVE t[k] # key
  <2>1. CASE k = n + 2
    <3>1. NUL \in BlockChar
      BY DEF BlockChar, Char
    <3> QED BY <1>14, <2>1, <3>1, KeysAreNoChars
  <2>2. CASE k # n + 2
    <3>1. k - N \in 1 .. m /\ N + (k - N) = k
      BY <1>10, <1>11, <2>2
    <3>2. t[k] = v[k - N] /\ v[k - N] \in BlockChar
      BY <1>15, <3>1, ElementOfSeq
    <3> QED BY <3>2, KeysAreNoChars
  <2> QED BY <2>1, <2>2
<1> QED BY <1>10, <1>11, <1>13, <1>14, <1>15, <1>16 DEF HasField

\* What is before a setting and its value are told apart by the name of its key.
LEMMA LastField ==
  ASSUME NEW key \in Keys, NEW u \in Seq(AnyChar), NEW v \in Seq(BlockChar),
         NEW u2 \in Seq(AnyChar), NEW v2 \in Seq(BlockChar),
         Field(u, key, v) = Field(u2, key, v2)
  PROVE  u = u2 /\ v = v2
<1>1. PICK n \in Nat, m \in Nat : n = Len(u) /\ m = Len(v)
  BY LenProperties
<1>2. PICK n2 \in Nat, m2 \in Nat : n2 = Len(u2) /\ m2 = Len(v2)
  BY LenProperties
<1>3. PICK t : t = Field(u, key, v) /\ t = Field(u2, key, v2)
  OBVIOUS
<1>4. /\ Len(t) = (n + 2) + m /\ t[n + 1] = key
      /\ \A k \in 1 .. n : t[k] = u[k]
      /\ \A k \in 1 .. m : t[(n + 2) + k] = v[k]
      /\ \A k \in n + 2 .. Len(t) : t[k] # key
  <2>1. HasField(t, u, key, v, n, m)
    BY <1>1, <1>3, FieldPlaces
  <2> QED BY <2>1 DEF HasField
<1>5. /\ Len(t) = (n2 + 2) + m2 /\ t[n2 + 1] = key
      /\ \A k \in 1 .. n2 : t[k] = u2[k]
      /\ \A k \in 1 .. m2 : t[(n2 + 2) + k] = v2[k]
      /\ \A k \in n2 + 2 .. Len(t) : t[k] # key
  <2>1. HasField(t, u2, key, v2, n2, m2)
    BY <1>2, <1>3, FieldPlaces
  <2> QED BY <2>1 DEF HasField
<1>6. ~ n < n2
  <2> SUFFICES ASSUME n < n2 PROVE FALSE
    OBVIOUS
  <2>1. n2 + 1 \in n + 2 .. Len(t)
    BY <1>5
  <2> QED BY <1>4, <1>5, <2>1
<1>7. ~ n2 < n
  <2> SUFFICES ASSUME n2 < n PROVE FALSE
    OBVIOUS
  <2>1. n + 1 \in n2 + 2 .. Len(t)
    BY <1>4
  <2> QED BY <1>4, <1>5, <2>1
<1>8. n = n2 /\ m = m2
  BY <1>4, <1>5, <1>6, <1>7
<1>9. u = u2
  <2>1. \A k \in 1 .. Len(u) : u[k] = u2[k]
    BY <1>1, <1>4, <1>5, <1>8
  <2> QED BY <1>1, <1>2, <1>8, <2>1, SeqEqual
<1>10. v = v2
  <2>1. \A k \in 1 .. Len(v) : v[k] = v2[k]
    BY <1>1, <1>4, <1>5, <1>8
  <2> QED BY <1>1, <1>2, <1>8, <2>1, SeqEqual
<1> QED BY <1>9, <1>10

LEMMA FieldType ==
  ASSUME NEW key \in Keys, NEW u \in Seq(AnyChar), NEW v \in Seq(BlockChar)
  PROVE  Field(u, key, v) \in Seq(AnyChar)
<1>1. PICK n \in Nat, m \in Nat : n = Len(u) /\ m = Len(v)
  BY LenProperties
<1>2. PICK t : t = Field(u, key, v)
  OBVIOUS
<1>3. HasField(t, u, key, v, n, m)
  BY <1>1, <1>2, FieldPlaces
<1> QED BY <1>2, <1>3 DEF HasField

\* The members of ConfigParser.
IsSettings(s) ==
  /\ s = [key \in Keys |-> s[key]]
  /\ \A key \in BoolKeys : s[key] \in BOOLEAN
  /\ \A key \in ListKeys : s[key] \in Seq(FrontedWord)
  /\ \A key \in PathKeys : s[key] \in Seq(Letters)

LEMMA BoolBlockTells ==
  ASSUME NEW b \in BOOLEAN
  PROVE  /\ BoolBlock(b) \in Seq(BlockChar)
         /\ BoolBlock(b)[1] = (IF b THEN "1" ELSE "0")
BY DEF BoolBlock, BlockChar, Char

LEMMA ListBlockType ==
  ASSUME NEW list \in Seq(FrontedWord)
  PROVE  ListBlock(list) \in Seq(BlockChar)
<1>1. list \in Seq(Word)
  BY DEF FrontedWord
<1>2. PICK s : s = Strings(list)
  OBVIOUS
<1>3. s \in Seq(Char)
  BY <1>1, <1>2, StringsType DEF Word
<1>4. s \in Seq(BlockChar) /\ NUL \in BlockChar
  BY <1>3, SeqMonotonic DEF BlockChar, Char
<1>5. Append(s, NUL) \in Seq(BlockChar)
  BY <1>4, AppendProperties
<1> QED BY <1>2, <1>5 DEF ListBlock

\* The blocks of the first settings.
Block1(s) == Field(<< >>, "prune_bind_mounts", BoolBlock(s["prune_bind_mounts"]))
Block2(s) == Field(Block1(s), "debug_pruning", BoolBlock(s["debug_pruning"]))
Block3(s) == Field(Block2(s), "prunefs", ListBlock(s["prunefs"]))
Block4(s) == Field(Block3(s), "prunenames", ListBlock(s["prunenames"]))
Block5(s) == Field(Block4(s), "prunepaths", ListBlock(s["prunepaths"]))
Block6(s) == Field(Block5(s), "database_path", s["database_path"])
Block7(s) == Field(Block6(s), "database_scan_path", s["database_scan_path"])

LEMMA BlockOfSeven ==
  ASSUME NEW s
  PROVE  ConfBlock(s) = Block7(s)
<1>1. PICK first : first = << "prune_bind_mounts", NUL >>
  OBVIOUS
<1>2. << >> \o first = first
  BY <1>1, ConcatEmptySeq, << "prune_bind_mounts", NUL >> \in Seq({"prune_bind_mounts", NUL})
<1> QED BY <1>1, <1>2, Zenon DEF ConfBlock, Field, Block1, Block2, Block3, Block4, Block5, Block6, Block7

LEMMA BlockTypes ==
  ASSUME NEW s, IsSettings(s)
  PROVE  /\ Block1(s) \in Seq(AnyChar)
         /\ Block2(s) \in Seq(AnyChar)
         /\ Block3(s) \in Seq(AnyChar)
         /\ Block4(s) \in Seq(AnyChar)
         /\ Block5(s) \in Seq(AnyChar)
         /\ Block6(s) \in Seq(AnyChar)
         /\ Block7(s) \in Seq(AnyChar)
         /\ BoolBlock(s["prune_bind_mounts"]) \in Seq(BlockChar)
         /\ BoolBlock(s["debug_pruning"]) \in Seq(BlockChar)
         /\ ListBlock(s["prunefs"]) \in Seq(BlockChar)
         /\ ListBlock(s["prunenames"]) \in Seq(BlockChar)
         /\ ListBlock(s["prunepaths"]) \in Seq(BlockChar)
         /\ s["database_path"] \in Seq(BlockChar)
         /\ s["database_scan_path"] \in Seq(BlockChar)
<1>1. BoolBlock(s["prune_bind_mounts"]) \in Seq(BlockChar)
  BY BoolBlockTells DEF IsSettings, BoolKeys
<1>2. BoolBlock(s["debug_pruning"]) \in Seq(BlockChar)
  BY BoolBlockTells DEF IsSettings, BoolKeys
<1>3. ListBlock(s["prunefs"]) \in Seq(BlockChar)
  BY ListBlockType DEF IsSettings, ListKeys
<1>4. ListBlock(s["prunenames"]) \in Seq(BlockChar)
  BY ListBlockType DEF IsSettings, ListKeys
<1>5. ListBlock(s["prunepaths"]) \in Seq(BlockChar)
  BY ListBlockType DEF IsSettings, ListKeys
<1>6. s["database_path"] \in Seq(BlockChar)
  BY SeqMonotonic DEF IsSettings, PathKeys, BlockChar, Char
<1>7. s["database_scan_path"] \in Seq(BlockChar)
  BY SeqMonotonic DEF IsSettings, PathKeys, BlockChar, Char
<1>8. /\ "prune_bind_mounts" \in Keys /\ "debug_pruning" \in Keys /\ "prunefs" \in Keys
      /\ "prunenames" \in Keys /\ "prunepaths" \in Keys /\ "database_path" \in Keys /\ "database_scan_path" \in Keys
  BY DEF Keys, BoolKeys, ListKeys, PathKeys
<1>9. << >> \in Seq(AnyChar)
  OBVIOUS
<1>11. Block1(s) \in Seq(AnyChar)
  BY <1>1, <1>8, <1>9, FieldType DEF Block1
<1>12. Block2(s) \in Seq(AnyChar)
  BY <1>2, <1>8, <1>11, FieldType DEF Block2
<1>13. Block3(s) \in Seq(AnyChar)
  BY <1>3, <1>8, <1>12, FieldType DEF Block3
<1>14. Block4(s) \in Seq(AnyChar)
  BY <1>4, <1>8, <1>13, FieldType DEF Block4
<1>15. Block5(s) \in Seq(AnyChar)
  BY <1>5, <1>8, <1>14, FieldType DEF Block5
<1>16. Block6(s) \in Seq(AnyChar)
  BY <1>6, <1>8, <1>15, FieldType DEF Block6
<1>17. Block7(s) \in Seq(AnyChar)
  BY <1>7, <1>8, <1>16, FieldType DEF Block7
<1> QED BY <1>1, <1>2, <1>3, <1>4, <1>5, <1>6, <1>7, <1>11, <1>12, <1>13, <1>14, <1>15, <1>16, <1>17

\* Settings of the same block differ in no more than the characters 0 of
\* their lists.
LEMMA BlockTellsSettings ==
  ASSUME NEW s, NEW t, IsSettings(s), IsSettings(t), ConfBlock(s) = ConfBlock(t)
  PROVE  InWords(s) = InWords(t)
<1>8. Block7(s) = Block7(t)
  BY BlockOfSeven
<1>7. Block6(s) = Block6(t) /\ s["database_scan_path"] = t["database_scan_path"]
  <2>1. PICK u, v, w, x : u = Block6(s) /\ v = s["database_scan_path"] /\ w = Block6(t) /\ x = t["database_scan_path"]
    OBVIOUS
  <2>2. u \in Seq(AnyChar) /\ v \in Seq(BlockChar) /\ w \in Seq(AnyChar) /\ x \in Seq(BlockChar)
    BY <2>1, BlockTypes
  <2>3. PICK key \in Keys : key = "database_scan_path"
    BY DEF Keys, BoolKeys, ListKeys, PathKeys
  <2>4. Field(u, key, v) = Field(w, key, x)
    BY <1>8, <2>1, <2>3, Zenon DEF Block7
  <2>5. u = w /\ v = x
    BY <2>2, <2>4, LastField
  <2> QED BY <2>1, <2>5
<1>6. Block5(s) = Block5(t) /\ s["database_path"] = t["database_path"]
  <2>1. PICK u, v, w, x : u = Block5(s) /\ v = s["database_path"] /\ w = Block5(t) /\ x = t["database_path"]
    OBVIOUS
  <2>2. u \in Seq(AnyChar) /\ v \in Seq(BlockChar) /\ w \in Seq(AnyChar) /\ x \in Seq(BlockChar)
    BY <2>1, BlockTypes
  <2>3. PICK key \in Keys : key = "database_path"
    BY DEF Keys, BoolKeys, ListKeys, PathKeys
  <2>4. Field(u, key, v) = Field(w, key, x)
    BY <1>7, <2>1, <2>3, Zenon DEF Block6
  <2>5. u = w /\ v = x
    BY <2>2, <2>4, LastField
  <2> QED BY <2>1, <2>5
<1>5. Block4(s) = Block4(t) /\ ListBlock(s["prunepaths"]) = ListBlock(t["prunepaths"])
  <2>1. PICK u, v, w, x : u = Block4(s) /\ v = ListBlock(s["prunepaths"]) /\ w = Block4(t) /\ x = ListBlock(t["prunepaths"])
    OBVIOUS
  <2>2. u \in Seq(AnyChar) /\ v \in Seq(BlockChar) /\ w \in Seq(AnyChar) /\ x \in Seq(BlockChar)
    BY <2>1, BlockTypes
  <2>3. PICK key \in Keys : key = "prunepaths"
    BY DEF Keys, BoolKeys, ListKeys, PathKeys
  <2>4. Field(u, key, v) = Field(w, key, x)
    BY <1>6, <2>1, <2>3, Zenon DEF Block5
  <2>5. u = w /\ v = x
    BY <2>2, <2>4, LastField
  <2> QED BY <2>1, <2>5
<1>4. Block3(s) = Block3(t) /\ ListBlock(s["prunenames"]) = ListBlock(t["prunenames"])
  <2>1. PICK u, v, w, x : u = Block3(s) /\ v = ListBlock(s["prunenames"]) /\ w = Block3(t) /\ x = ListBlock(t["prunenames"])
    OBVIOUS
  <2>2. u \in Seq(AnyChar) /\ v \in Seq(BlockChar) /\ w \in Seq(AnyChar) /\ x \in Seq(BlockChar)
    BY <2>1, BlockTypes
  <2>3. PICK key \in Keys : key = "prunenames"
    BY DEF Keys, BoolKeys, ListKeys, PathKeys
  <2>4. Field(u, key, v) = Field(w, key, x)
    BY <1>5, <2>1, <2>3, Zenon DEF Block4
  <2>5. u = w /\ v = x
    BY <2>2, <2>4, LastField
  <2> QED BY <2>1, <2>5
<1>3. Block2(s) = Block2(t) /\ ListBlock(s["prunefs"]) = ListBlock(t["prunefs"])
  <2>1. PICK u, v, w, x : u = Block2(s) /\ v = ListBlock(s["prunefs"]) /\ w = Block2(t) /\ x = ListBlock(t["prunefs"])
    OBVIOUS
  <2>2. u \in Seq(AnyChar) /\ v \in Seq(BlockChar) /\ w \in Seq(AnyChar) /\ x \in Seq(BlockChar)
    BY <2>1, BlockTypes
  <2>3. PICK key \in Keys : key = "prunefs"
    BY DEF Keys, BoolKeys, ListKeys, PathKeys
  <2>4. Field(u, key, v) = Field(w, key, x)
    BY <1>4, <2>1, <2>3, Zenon DEF Block3
  <2>5. u = w /\ v = x
    BY <2>2, <2>4, LastField
  <2> QED BY <2>1, <2>5
<1>2. Block1(s) = Block1(t) /\ BoolBlock(s["debug_pruning"]) = BoolBlock(t["debug_pruning"])
  <2>1. PICK u, v, w, x : u = Block1(s) /\ v = BoolBlock(s["debug_pruning"]) /\ w = Block1(t) /\ x = BoolBlock(t["debug_pruning"])
    OBVIOUS
  <2>2. u \in Seq(AnyChar) /\ v \in Seq(BlockChar) /\ w \in Seq(AnyChar) /\ x \in Seq(BlockChar)
    BY <2>1, BlockTypes
  <2>3. PICK key \in Keys : key = "debug_pruning"
    BY DEF Keys, BoolKeys, ListKeys, PathKeys
  <2>4. Field(u, key, v) = Field(w, key, x)
    BY <1>3, <2>1, <2>3, Zenon DEF Block2
  <2>5. u = w /\ v = x
    BY <2>2, <2>4, LastField
  <2> QED BY <2>1, <2>5
<1>1. BoolBlock(s["prune_bind_mounts"]) = BoolBlock(t["prune_bind_mounts"])
  <2>1. PICK u, v, w, x : u = << >> /\ v = BoolBlock(s["prune_bind_mounts"]) /\ w = << >> /\ x = BoolBlock(t["prune_bind_mounts"])
    OBVIOUS
  <2>2. u \in Seq(AnyChar) /\ v \in Seq(BlockChar) /\ w \in Seq(AnyChar) /\ x \in Seq(BlockChar)
    BY <2>1, BlockTypes
  <2>3. PICK key \in Keys : key = "prune_bind_mounts"
    BY DEF Keys, BoolKeys, ListKeys, PathKeys
  <2>4. Field(u, key, v) = Field(w, key, x)
    BY <1>2, <2>1, <2>3, Zenon DEF Block1
  <2>5. u = w /\ v = x
    BY <2>2, <2>4, LastField
  <2> QED BY <2>1, <2>5
<1>9. \A key \in BoolKeys : s[key] = t[key]
  <2> SUFFICES ASSUME NEW b \in BOOLEAN, NEW c \in BOOLEAN, BoolBlock(b) = BoolBlock(c) PROVE b = c
    BY <1>1, <1>2 DEF IsSettings, BoolKeys
  <2>1. (IF b THEN "1" ELSE "0") = (IF c THEN "1" ELSE "0")
    BY BoolBlockTells
  <2> QED BY <2>1
<1>10. \A key \in ListKeys : WordsIn(s[key]) = WordsIn(t[key])
  <2>1. ASSUME NEW key \in ListKeys PROVE WordsIn(s[key]) = WordsIn(t[key])
    <3>1. s[key] \in Seq(FrontedWord) /\ t[key] \in Seq(FrontedWord)
      BY DEF IsSettings
    <3>2. ListBlock(s[key]) = ListBlock(t[key])
      BY <1>3, <1>4, <1>5 DEF ListKeys
    <3> QED BY <3>1, <3>2, BlockTellsWords
  <2> QED BY <2>1
<1>11. \A key \in PathKeys : s[key] = t[key]
  BY <1>6, <1>7 DEF PathKeys
<1>12. \A key \in Keys : (IF key \in ListKeys THEN WordsIn(s[key]) ELSE s[key])
                           = (IF key \in ListKeys THEN WordsIn(t[key]) ELSE t[key])
  BY <1>9, <1>10, <1>11 DEF Keys
<1> QED BY <1>12, Zenon DEF InWords

-----------------------------------------------------------------------------
(* The invariant *)

\* The text conf has for a key, as Configured has it of the file.
ConfiguredIn(conf, key) ==
  LET at == {k \in DOMAIN conf.items : conf.items[k].key = key}
      text == IF at = {} THEN << >> ELSE conf.items[CHOOSE k \in at : TRUE].text
  IN  IF key = "prunefs" THEN InUpperCase(text) ELSE text

\* One of the first n - 1 items of conf is that of key.
IsRead(conf, n, key) == \E k \in DOMAIN conf.items : k < n /\ conf.items[k].key = key

\* The lists hold the words of the items that have been read.
HoldsLists(conf, n, s) ==
  \A key \in ListKeys :
    /\ IsRead(conf, n, key) => s[key] = BreakString(ConfiguredIn(conf, key))
    /\ ~ IsRead(conf, n, key) => s[key] = << >>

\* A path to scan is left for a free run only.
ScanPathInv ==
  verdict = "accepted" =>
    opt.print_help \/ opt.show_version \/ opt.running_method = "free_run" \/ opt.scan_root_path = ""

ConfigInv ==
  /\ file \in Configs /\ item \in Nat \ {0}
  /\ stage # "idle" => outcome = "none"
  /\ stage = "arguments" => item = 1 /\ settings = Defaults
  /\ stage = "config" =>
       IsSettings(settings) /\ verdict = "accepted" /\ ~ opt.print_help /\ ~ opt.show_version
  /\ stage \in {"config", "scan", "run"} => HoldsLists(file, item, settings)
  /\ stage \in {"scan", "run"} => item > Len(file.items)

\* Of a free run the block is not that of the settings, but nothing is built
\* by it nor compared with it.
BlockInv ==
  /\ stage \in {"scan", "run"} \/ outcome = "searched" =>
       opt.running_method = "free_run" \/ (IsSettings(settings) /\ block = ConfBlock(settings))
  /\ db.complete => IsSettings(db.made) /\ db.block = ConfBlock(db.made)
  /\ outcome = "searched" /\ opt.running_method = "read_db" => notice = (db.block # block)

StartupInv == CommandInv /\ ScanPathInv /\ ConfigInv /\ BlockInv

\* A scan path is kept only by the verdict of a free run.
LEMMA ScanPathKept ==
  ASSUME CommandInv, ParseArguments, ScanPathInv
  PROVE  ScanPathInv'
<1>1. CASE FinishArguments
  <2> DEFINE method == Default(opt.running_method, "read_db")
  <2>1. PICK m : m = method
    OBVIOUS
  <2> HIDE DEF method
  <2>2. IsOptions(opt)
    BY DEF CommandInv
  <2>3. CASE /\ opt.print_help \/ opt.show_version
             /\ verdict' = "accepted" /\ opt' = opt
    BY <2>3 DEF ScanPathInv
  <2>4. CASE verdict' = "refused"
    BY <2>4 DEF ScanPathInv
  <2>5. CASE /\ verdict' = "accepted"
             /\ opt' = [opt EXCEPT
                  !.running_method = method,
                  !.search_type = Default(@, "default"),
                  !.visibility = Default(@, "only_defined"),
                  !.scan_root_path = KeptScanPath(@, method)]
    <3>1. opt'.running_method = m /\ opt'.scan_root_path = KeptScanPath(opt.scan_root_path, m)
      BY <2>1, <2>2, <2>5 DEF IsOptions
    <3> QED BY <3>1 DEF KeptScanPath, ScanPathInv
  <2> QED BY <1>1, <2>3, <2>4, <2>5 DEF FinishArguments, method
<1>2. CASE ~ FinishArguments
  <2>1. verdict' # "accepted"
    <3>1. CASE ReadHelp \/ ReadVersion \/ ReadShortcut \/ ReadSearchType \/ ReadVisibility \/ ReadScanPath
      BY <3>1 DEF ReadHelp, ReadVersion, ReadShortcut, ReadSearchType, ReadVisibility, ReadScanPath, At, Take
    <3>2. CASE ReadMethod \/ RefuseSecondMethod \/ AbortMethod
      BY <3>2 DEF ReadMethod, RefuseSecondMethod, AbortMethod, At, Take, Refuse
    <3>3. CASE RefuseValue \/ ReadSymbol \/ RefuseOption
      BY <3>3 DEF RefuseValue, ReadSymbol, RefuseOption, At, Take, Refuse
    <3> QED BY <1>2, <3>1, <3>2, <3>3, Zenon DEF ParseArguments
  <2> QED BY <2>1 DEF ScanPathInv
<1> QED BY <1>1, <1>2

LEMMA ParseKeeps ==
  ASSUME CommandInv, ParseArguments
  PROVE  CommandInv'
BY ReadHelpKeeps, ReadVersionKeeps, ReadMethodKeeps,
   RefuseSecondMethodKeeps, AbortMethodKeeps, ReadShortcutKeeps, ReadSearchTypeKeeps,
   ReadVisibilityKeeps, ReadScanPathKeeps, RefuseValueKeeps, ReadSymbolKeeps,
   RefuseOptionKeeps, FinishKeeps, Zenon DEF ParseArguments

\* What does not touch the arguments.
LEMMA ArgumentsStay ==
  ASSUME CommandInv, ScanPathInv, UNCHANGED argVars
  PROVE  CommandInv' /\ ScanPathInv'
<1>1. CommandInv'
  BY Zenon DEF argVars, CommandInv, AcceptedIsTaken, OptionsMeanWhatWasSaid
<1>2. verdict' = verdict /\ opt' = opt
  BY DEF argVars
<1>3. ScanPathInv'
  BY <1>2 DEF ScanPathInv
<1> QED BY <1>1, <1>3

\* A value that key may have.
Suits(value, key) ==
  /\ key \in BoolKeys => value \in BOOLEAN
  /\ key \in ListKeys => value \in Seq(FrontedWord)
  /\ key \in PathKeys => value \in Seq(Letters)

Stored(s, key, value, t) == t = [s EXCEPT ![key] = value]

LEMMA SettingStored ==
  ASSUME NEW s, IsSettings(s), NEW key \in Keys, NEW value, Suits(value, key),
         NEW t, Stored(s, key, value, t)
  PROVE  /\ IsSettings(t)
         /\ t[key] = value
         /\ \A k \in Keys : k # key => t[k] = s[k]
<1>1. DOMAIN s = Keys /\ s = [k \in Keys |-> s[k]]
  BY DEF IsSettings
<1>2. \A k \in Keys : t[k] = IF k = key THEN value ELSE s[k]
  BY <1>1 DEF Stored
<1>3. t = [k \in Keys |-> t[k]]
  BY <1>1 DEF Stored
<1>4. /\ \A k \in BoolKeys : t[k] \in BOOLEAN
      /\ \A k \in ListKeys : t[k] \in Seq(FrontedWord)
      /\ \A k \in PathKeys : t[k] \in Seq(Letters)
  BY <1>2 DEF IsSettings, Keys, Suits
<1> QED BY <1>2, <1>3, <1>4 DEF IsSettings

LEMMA DefaultSettings ==
  IsSettings(Defaults) /\ \A key \in ListKeys : Defaults[key] = << >>
<1>1. \A key \in BoolKeys : Defaults[key] \in BOOLEAN
  <2> SUFFICES ASSUME NEW key \in BoolKeys PROVE Defaults[key] \in BOOLEAN
    OBVIOUS
  <2>1. key \in Keys /\ key \notin ListKeys /\ key # "database_path" /\ key # "database_scan_path"
    BY DEF Keys, BoolKeys, ListKeys
  <2>2. Defaults[key] = FALSE
    BY <2>1, Zenon DEF Defaults
  <2> QED BY <2>2, Zenon
<1>2. \A key \in ListKeys : Defaults[key] = << >>
  BY DEF Defaults, Keys, BoolKeys, ListKeys
<1>3. Defaults["database_path"] = DefaultPath /\ Defaults["database_scan_path"] = DefaultRoot
  BY DEF Defaults, Keys, BoolKeys, ListKeys, PathKeys
<1>4. \A key \in PathKeys : Defaults[key] \in Seq(Letters)
  BY <1>3, LettersAssumption DEF PathKeys
<1>5. Defaults = [key \in Keys |-> Defaults[key]]
  <2> DEFINE D(k) == CASE k \in BoolKeys -> FALSE
                       [] k \in ListKeys -> << >>
                       [] k = "database_path" -> DefaultPath
                       [] k = "database_scan_path" -> DefaultRoot
  <2>1. Defaults = [k \in Keys |-> D(k)]
    BY Zenon DEF Defaults
  <2> HIDE DEF D
  <2> QED BY <2>1
<1>6. \A key \in ListKeys : Defaults[key] \in Seq(FrontedWord)
  BY <1>2, EmptySeq
<1> QED BY <1>1, <1>2, <1>4, <1>5, <1>6, Zenon DEF IsSettings

\* What the file says of a key is the text of its only item.
LEMMA TheOnlyItem ==
  ASSUME NEW conf \in Configs, NEW n \in DOMAIN conf.items, NEW key, key = conf.items[n].key
  PROVE  /\ conf.items[n].text \in Text
         /\ ConfiguredIn(conf, key) =
              IF key = "prunefs" THEN InUpperCase(conf.items[n].text) ELSE conf.items[n].text
         /\ ~ IsRead(conf, n, key)
         /\ \A k : IsRead(conf, n + 1, k) <=> IsRead(conf, n, k) \/ k = key
<1>1. /\ conf.items \in Seq([key : STRING, is_string : BOOLEAN, text : Text])
      /\ \A k, l \in DOMAIN conf.items : conf.items[k].key = conf.items[l].key => k = l
  BY ConfigsAssumption
<1>2. DOMAIN conf.items \subseteq Nat /\ n \in Nat
  BY <1>1
<1>3. {k \in DOMAIN conf.items : conf.items[k].key = key} = {n}
  BY <1>1
<1>4. (CHOOSE k \in {n} : TRUE) = n
  OBVIOUS
<1>5. conf.items[n].text \in Text
  <2>1. PICK items : items = conf.items
    OBVIOUS
  <2>2. PICK R : R = [key : STRING, is_string : BOOLEAN, text : Text]
    OBVIOUS
  <2>3. items \in Seq(R) /\ n \in DOMAIN items
    BY <1>1, <2>1, <2>2
  <2>4. n \in 1 .. Len(items)
    BY <2>3, LenProperties
  <2>5. items[n] \in R
    BY <2>3, <2>4, ElementOfSeq
  <2> QED BY <2>1, <2>2, <2>5
<1>6. ConfiguredIn(conf, key) =
        IF key = "prunefs" THEN InUpperCase(conf.items[n].text) ELSE conf.items[n].text
  BY <1>3, <1>4 DEF ConfiguredIn
<1>7. ~ IsRead(conf, n, key)
  BY <1>1, <1>2 DEF IsRead
<1>8. \A k : IsRead(conf, n + 1, k) <=> IsRead(conf, n, k) \/ k = key
  <2>1. \A l \in DOMAIN conf.items : l < n + 1 <=> l < n \/ l = n
    BY <1>2
  <2> QED BY <2>1 DEF IsRead
<1> QED BY <1>5, <1>6, <1>7, <1>8

\* Each text of the file is one, in the case it is compared in.
LEMMA ConfiguredText ==
  ASSUME NEW conf \in Configs, NEW key
  PROVE  ConfiguredIn(conf, key) \in Text
<1> DEFINE at == {k \in DOMAIN conf.items : conf.items[k].key = key}
           text == IF at = {} THEN << >> ELSE conf.items[CHOOSE k \in at : TRUE].text
<1>3. text \in Text
  <2>1. CASE at = {}
    BY <2>1, EmptySeq DEF Text
  <2>2. CASE at # {}
    <3>1. (CHOOSE k \in at : TRUE) \in at
      BY <2>2
    <3>2. PICK n : n = CHOOSE k \in at : TRUE
      OBVIOUS
    <3>3. n \in DOMAIN conf.items
      BY <3>1, <3>2
    <3>4. conf.items[n].text \in Text
      BY <3>3, TheOnlyItem
    <3> QED BY <2>2, <3>2, <3>4
  <2> QED BY <2>1, <2>2
<1>4. ConfiguredIn(conf, key) = IF key = "prunefs" THEN InUpperCase(text) ELSE text
  BY Zenon DEF ConfiguredIn
<1> HIDE DEF text
<1> QED BY <1>3, <1>4, UpperText

\* An item is read.
LEMMA ItemRead ==
  ASSUME NEW conf \in Configs, NEW n \in DOMAIN conf.items, NEW key, key = conf.items[n].key,
         NEW s, HoldsLists(conf, n, s),
         NEW t, \A k \in Keys : k # key => t[k] = s[k],
         key \in ListKeys => t[key] = BreakString(ConfiguredIn(conf, key))
  PROVE  HoldsLists(conf, n + 1, t)
<1>1. \A k : IsRead(conf, n + 1, k) <=> IsRead(conf, n, k) \/ k = key
  BY TheOnlyItem
<1>2. ListKeys \subseteq Keys
  BY DEF Keys
<1> QED BY <1>1, <1>2 DEF HoldsLists

\* StoreList leaves the words of the item: the list was empty before.
LEMMA ListStored ==
  ASSUME NEW conf \in Configs, NEW n \in DOMAIN conf.items, NEW key \in ListKeys, key = conf.items[n].key,
         NEW s, HoldsLists(conf, n, s),
         NEW list, list = s[key] \o BreakString(conf.items[n].text)
  PROVE  /\ (IF key = "prunefs" THEN ListToUpper(list) ELSE list) = BreakString(ConfiguredIn(conf, key))
         /\ BreakString(ConfiguredIn(conf, key)) \in Seq(FrontedWord)
<1>1. PICK text : text = conf.items[n].text
  OBVIOUS
<1>2. /\ text \in Text /\ ~ IsRead(conf, n, key)
      /\ ConfiguredIn(conf, key) = IF key = "prunefs" THEN InUpperCase(text) ELSE text
  BY <1>1, TheOnlyItem
<1>3. s[key] = << >>
  BY <1>2 DEF HoldsLists
<1>4. list = BreakString(text)
  <2>1. BreakString(text) \in Seq(FrontedWord)
    BY <1>2, BreakStringReads
  <2>2. PICK words : words = BreakString(text)
    OBVIOUS
  <2> QED BY <1>1, <1>3, <2>1, <2>2, ConcatEmptySeq
<1>5. BreakString(InUpperCase(text)) = ListToUpper(BreakString(text))
  BY <1>2, UpperBroken
<1>6. BreakString(ConfiguredIn(conf, key)) \in Seq(FrontedWord)
  BY ConfiguredText, BreakStringReads
<1> QED BY <1>2, <1>4, <1>5, <1>6

-----------------------------------------------------------------------------
(* The steps of a run *)

LEMMA ConfigIdle ==
  ASSUME file' \in Configs, item' \in Nat \ {0}, stage' = "idle"
  PROVE  ConfigInv'
BY DEF ConfigInv

LEMMA BlockIdle ==
  ASSUME BlockInv, db' = db, stage' \notin {"scan", "run"}, outcome' # "searched"
  PROVE  BlockInv'
BY Zenon DEF BlockInv

LEMMA InitHolds ==
  ASSUME Init
  PROVE  StartupInv
<1>1. CommandInv /\ ScanPathInv
  BY ArgStarts DEF Init, ArgInit, ScanPathInv
<1>2. ConfigInv
  BY DEF Init, ConfigInv
<1>3. db.complete = FALSE /\ stage = "idle" /\ outcome = "none"
  BY DEF Init, NoDatabase
<1>4. BlockInv
  BY <1>3 DEF BlockInv
<1> QED BY <1>1, <1>2, <1>4 DEF StartupInv

LEMMA EditConfigHolds ==
  ASSUME ConfigInv, BlockInv, EditConfig
  PROVE  ConfigInv' /\ BlockInv'
<1>1. /\ stage' = "idle" /\ file' \in Configs /\ item' = item /\ settings' = settings /\ block' = block
      /\ opt' = opt /\ db' = db /\ notice' = notice /\ outcome' = outcome /\ stage' = stage
  BY DEF EditConfig, configVars, argVars
<1>2. item \in Nat \ {0}
  BY DEF ConfigInv
<1>3. BlockInv'
  BY <1>1, Zenon DEF BlockInv
<1> QED BY <1>1, <1>2, <1>3, ConfigIdle

LEMMA StartHolds ==
  ASSUME ConfigInv, BlockInv, Start
  PROVE  CommandInv' /\ ScanPathInv' /\ ConfigInv' /\ BlockInv'
<1>1. PICK line \in CommandLines : Execute(line)
  BY DEF Start
<1>2. CommandInv'
  BY <1>1, ExecuteKeeps
<1>3. ScanPathInv'
  BY <1>1 DEF Execute, ScanPathInv
<1>4. /\ stage' = "arguments" /\ outcome' = "none" /\ item' = 1 /\ settings' = Defaults
      /\ file' = file /\ db' = db
  BY DEF Start
<1>5. ConfigInv'
  BY <1>4 DEF ConfigInv
<1>6. BlockInv'
  BY <1>4, BlockIdle
<1> QED BY <1>2, <1>3, <1>5, <1>6

LEMMA ArgumentsHold ==
  ASSUME CommandInv, ScanPathInv, ConfigInv, BlockInv, Arguments
  PROVE  CommandInv' /\ ScanPathInv' /\ ConfigInv' /\ BlockInv'
<1>1. CommandInv' /\ ScanPathInv'
  BY ParseKeeps, ScanPathKept DEF Arguments
<1>2. /\ stage = "arguments" /\ stage' = "arguments" /\ outcome' = outcome /\ item' = item /\ settings' = settings
      /\ file' = file /\ db' = db
  BY DEF Arguments, configVars
<1>3. ConfigInv'
  BY <1>2 DEF ConfigInv
<1>4. BlockInv'
  BY <1>2, BlockIdle DEF ConfigInv
<1> QED BY <1>1, <1>3, <1>4

LEMMA EndEarlyHolds ==
  ASSUME ConfigInv, BlockInv, EndEarly
  PROVE  ConfigInv' /\ BlockInv'
<1>1. stage' = "idle" /\ outcome' # "searched" /\ file' = file /\ item' = item /\ db' = db
  BY DEF EndEarly, End, configVars
<1>2. file' \in Configs /\ item' \in Nat \ {0}
  BY <1>1 DEF ConfigInv
<1> QED BY <1>1, <1>2, ConfigIdle, BlockIdle

LEMMA OpenConfigHolds ==
  ASSUME ConfigInv, BlockInv, OpenConfig
  PROVE  ConfigInv' /\ BlockInv'
<1>1. /\ stage = "arguments" /\ verdict = "accepted" /\ ~ opt.print_help /\ ~ opt.show_version
      /\ file' = file /\ item' = item /\ settings' = settings /\ db' = db
      /\ verdict' = verdict /\ opt' = opt
  BY DEF OpenConfig, configVars, argVars
<1>2. file \in Configs /\ item \in Nat \ {0} /\ outcome = "none" /\ item = 1 /\ settings = Defaults
  BY <1>1 DEF ConfigInv
<1>3. CASE End("no_config") \/ End("config_error")
  BY <1>1, <1>2, <1>3, ConfigIdle, BlockIdle DEF End
<1>4. CASE stage' = "config" /\ outcome' = outcome
  <2>1. IsSettings(settings') /\ \A key \in ListKeys : settings'[key] = << >>
    BY <1>1, <1>2, DefaultSettings
  <2>2. \A key : ~ IsRead(file', item', key)
    <3>1. \A k \in DOMAIN file.items : ~ k < 1
      BY <1>2, ConfigsAssumption
    <3> QED BY <1>1, <1>2, <3>1 DEF IsRead
  <2>3. HoldsLists(file', item', settings')
    BY <2>1, <2>2 DEF HoldsLists
  <2>4. ConfigInv'
    BY <1>1, <1>2, <1>4, <2>1, <2>3 DEF ConfigInv
  <2>5. BlockInv'
    BY <1>1, <1>2, <1>4, BlockIdle
  <2> QED BY <2>4, <2>5
<1> QED BY <1>3, <1>4 DEF OpenConfig

\* The turn of the loop that stores value.
LEMMA ValueStored ==
  ASSUME ConfigInv, BlockInv, NEW value, StoreValue(value), AtItem(Keys),
         NEW key, key = file.items[item].key,
         Suits(value, key), key \in ListKeys => value = BreakString(ConfiguredIn(file, key))
  PROVE  ConfigInv' /\ BlockInv'
<1>1. /\ stage = "config" /\ item <= Len(file.items) /\ key \in Keys
      /\ item' = item + 1 /\ settings' = [settings EXCEPT ![key] = value]
      /\ file' = file /\ stage' = stage /\ db' = db /\ outcome' = outcome /\ verdict' = verdict /\ opt' = opt
  BY DEF StoreValue, AtItem, argVars
<1>2. /\ file \in Configs /\ item \in Nat \ {0} /\ outcome = "none" /\ IsSettings(settings)
      /\ verdict = "accepted" /\ ~ opt.print_help /\ ~ opt.show_version
      /\ HoldsLists(file, item, settings)
  BY <1>1 DEF ConfigInv
<1>3. item \in DOMAIN file.items /\ item + 1 \in Nat \ {0}
  <2>1. PICK items : items = file.items
    OBVIOUS
  <2>2. DOMAIN items = 1 .. Len(items) /\ Len(items) \in Nat
    BY <1>2, <2>1, ConfigsAssumption, LenProperties
  <2> QED BY <1>1, <1>2, <2>1, <2>2
<1>4. /\ IsSettings(settings') /\ settings'[key] = value
      /\ \A k \in Keys : k # key => settings'[k] = settings[k]
  <2>1. PICK s, t : s = settings /\ t = settings'
    OBVIOUS
  <2>2. IsSettings(s) /\ Stored(s, key, value, t)
    BY <1>1, <1>2, <2>1, Zenon DEF Stored
  <2>3. /\ IsSettings(t) /\ t[key] = value
        /\ \A k \in Keys : k # key => t[k] = s[k]
    BY <1>1, <2>2, SettingStored
  <2> QED BY <2>1, <2>3
<1>5. HoldsLists(file, item + 1, settings')
  <2>1. PICK n, s, t : n = item /\ s = settings /\ t = settings'
    OBVIOUS
  <2>2. n \in DOMAIN file.items /\ key = file.items[n].key /\ HoldsLists(file, n, s)
    BY <1>2, <1>3, <2>1
  <2>3. /\ \A k \in Keys : k # key => t[k] = s[k]
        /\ key \in ListKeys => t[key] = BreakString(ConfiguredIn(file, key))
    BY <1>4, <2>1
  <2>4. HoldsLists(file, n + 1, t)
    BY <1>2, <2>2, <2>3, ItemRead
  <2> QED BY <2>1, <2>4
<1>6. ConfigInv'
  BY <1>1, <1>2, <1>3, <1>4, <1>5 DEF ConfigInv
<1>7. BlockInv'
  BY <1>1, <1>2, BlockIdle
<1> QED BY <1>6, <1>7

LEMMA StoreBoolHolds ==
  ASSUME ConfigInv, BlockInv, StoreBool
  PROVE  ConfigInv' /\ BlockInv'
<1>1. PICK key : key = file.items[item].key
  OBVIOUS
<1>2. PICK value \in BOOLEAN : StoreValue(value)
  BY (ItemText = <<"true">>) \in BOOLEAN, Zenon DEF StoreBool
<1>3. key \in BoolKeys /\ key \notin ListKeys \cup PathKeys /\ AtItem(Keys)
  BY <1>1 DEF StoreBool, AtItem, Keys, BoolKeys, ListKeys, PathKeys
<1>4. Suits(value, key)
  BY <1>3, Zenon DEF Suits
<1> QED BY <1>1, <1>2, <1>3, <1>4, ValueStored

LEMMA RejectBoolHolds ==
  ASSUME ConfigInv, BlockInv, RejectBool
  PROVE  ConfigInv' /\ BlockInv'
<1>1. stage' = "idle" /\ outcome' # "searched" /\ file' = file /\ item' = item /\ db' = db
  BY DEF RejectBool, End, configVars
<1>2. file' \in Configs /\ item' \in Nat \ {0}
  BY <1>1 DEF ConfigInv
<1> QED BY <1>1, <1>2, ConfigIdle, BlockIdle

LEMMA StoreListHolds ==
  ASSUME ConfigInv, BlockInv, StoreList
  PROVE  ConfigInv' /\ BlockInv'
<1>1. PICK key : key = file.items[item].key
  OBVIOUS
<1>2. PICK list : list = settings[key] \o BreakString(file.items[item].text)
  OBVIOUS
<1>3. PICK value : value = IF key = "prunefs" THEN ListToUpper(list) ELSE list
  OBVIOUS
<1>4. StoreValue(value)
  BY <1>1, <1>2, <1>3, Zenon DEF StoreList, ItemText
<1>5. key \in ListKeys /\ key \notin BoolKeys \cup PathKeys /\ AtItem(Keys)
  BY <1>1 DEF StoreList, AtItem, Keys, BoolKeys, ListKeys, PathKeys
<1>6. file \in Configs /\ item \in DOMAIN file.items /\ HoldsLists(file, item, settings)
  <2>1. stage = "config" /\ item <= Len(file.items)
    BY DEF StoreList, AtItem
  <2>2. file \in Configs /\ item \in Nat \ {0} /\ HoldsLists(file, item, settings)
    BY <2>1 DEF ConfigInv
  <2>3. PICK items : items = file.items
    OBVIOUS
  <2>4. DOMAIN items = 1 .. Len(items) /\ Len(items) \in Nat
    BY <2>2, <2>3, ConfigsAssumption, LenProperties
  <2> QED BY <2>1, <2>2, <2>3, <2>4
<1>7. value = BreakString(ConfiguredIn(file, key)) /\ BreakString(ConfiguredIn(file, key)) \in Seq(FrontedWord)
  <2>1. PICK n, s : n = item /\ s = settings
    OBVIOUS
  <2>2. /\ n \in DOMAIN file.items /\ key = file.items[n].key /\ HoldsLists(file, n, s)
        /\ list = s[key] \o BreakString(file.items[n].text)
    BY <1>1, <1>2, <1>6, <2>1
  <2> QED BY <1>3, <1>5, <1>6, <2>2, ListStored
<1>8. Suits(value, key)
  BY <1>5, <1>7, Zenon DEF Suits
<1> QED BY <1>1, <1>4, <1>5, <1>7, <1>8, ValueStored

LEMMA StorePathHolds ==
  ASSUME ConfigInv, BlockInv, StorePath
  PROVE  ConfigInv' /\ BlockInv'
<1>1. PICK key : key = file.items[item].key
  OBVIOUS
<1>2. PICK value : value = IF ItemText = << >> THEN ItemText ELSE settings[key]
  OBVIOUS
<1>3. StoreValue(value)
  BY <1>1, <1>2, Zenon DEF StorePath
<1>4. key \in PathKeys /\ key \notin BoolKeys \cup ListKeys /\ AtItem(Keys)
  BY <1>1 DEF StorePath, AtItem, Keys, BoolKeys, ListKeys, PathKeys
<1>5. settings[key] \in Seq(Letters)
  BY <1>4 DEF AtItem, ConfigInv, IsSettings
<1>6. value \in Seq(Letters)
  BY <1>2, <1>5, EmptySeq
<1>7. Suits(value, key)
  BY <1>4, <1>6, Zenon DEF Suits
<1> QED BY <1>1, <1>3, <1>4, <1>7, ValueStored

LEMMA FinishConfigHolds ==
  ASSUME ScanPathInv, ConfigInv, BlockInv, FinishConfig
  PROVE  ConfigInv' /\ BlockInv'
<1>1. /\ stage = "config" /\ item > Len(file.items) /\ stage' = "scan" /\ block' = ConfBlock(settings)
      /\ settings' =
           IF opt.scan_root_path = "" THEN settings
           ELSE [settings EXCEPT !["database_scan_path"] = <<opt.scan_root_path>>]
      /\ file' = file /\ item' = item /\ db' = db /\ outcome' = outcome /\ opt' = opt
  BY DEF FinishConfig, argVars
<1>2. /\ file \in Configs /\ item \in Nat \ {0} /\ outcome = "none" /\ IsSettings(settings)
      /\ verdict = "accepted" /\ ~ opt.print_help /\ ~ opt.show_version
      /\ HoldsLists(file, item, settings)
  BY <1>1 DEF ConfigInv
<1>3. opt.scan_root_path # "" => opt.running_method = "free_run"
  BY <1>2 DEF ScanPathInv
<1>4. \A key \in ListKeys : settings'[key] = settings[key]
  BY <1>1, <1>2 DEF IsSettings, Keys, ListKeys
<1>5. HoldsLists(file, item, settings')
  BY <1>2, <1>4 DEF HoldsLists
<1>6. ConfigInv'
  BY <1>1, <1>2, <1>5 DEF ConfigInv
<1>7. BlockInv'
  <2>1. opt.running_method = "free_run" \/ settings' = settings
    BY <1>1, <1>3
  <2>2. opt'.running_method = "free_run" \/ (IsSettings(settings') /\ block' = ConfBlock(settings'))
    <3>1. CASE opt.running_method = "free_run"
      BY <1>1, <3>1
    <3>2. CASE settings' = settings
      BY <1>1, <1>2, <3>2
    <3> QED BY <2>1, <3>1, <3>2
  <2>3. db'.complete => IsSettings(db'.made) /\ db'.block = ConfBlock(db'.made)
    BY <1>1 DEF BlockInv
  <2>4. outcome' # "searched"
    BY <1>1, <1>2
  <2> QED BY <2>2, <2>3, <2>4, Zenon DEF BlockInv
<1> QED BY <1>6, <1>7

LEMMA ScanHolds ==
  ASSUME ConfigInv, BlockInv, Scan
  PROVE  ConfigInv' /\ BlockInv'
<1>1. /\ stage = "scan" /\ file' = file /\ item' = item /\ settings' = settings /\ block' = block
      /\ opt' = opt /\ db' = db
  BY DEF Scan, configVars, argVars
<1>2. /\ file \in Configs /\ item \in Nat \ {0} /\ outcome = "none"
      /\ HoldsLists(file, item, settings) /\ item > Len(file.items)
  BY <1>1 DEF ConfigInv
<1>3. CASE End("scan_failed")
  BY <1>1, <1>2, <1>3, ConfigIdle, BlockIdle DEF End
<1>4. CASE stage' = "run" /\ outcome' = outcome
  <2>1. ConfigInv'
    BY <1>1, <1>2, <1>4 DEF ConfigInv
  <2>2. opt.running_method = "free_run" \/ (IsSettings(settings) /\ block = ConfBlock(settings))
    BY <1>1 DEF BlockInv
  <2>3. db'.complete => IsSettings(db'.made) /\ db'.block = ConfBlock(db'.made)
    BY <1>1 DEF BlockInv
  <2>4. outcome' # "searched"
    BY <1>2, <1>4
  <2>5. opt'.running_method = "free_run" \/ (IsSettings(settings') /\ block' = ConfBlock(settings'))
    BY <1>1, <2>2
  <2> QED BY <2>1, <2>3, <2>4, <2>5, Zenon DEF BlockInv
<1> QED BY <1>3, <1>4 DEF Scan

\* What a build leaves has the block of its settings.
LEMMA BuildHolds ==
  ASSUME ConfigInv, BlockInv, Build
  PROVE  ConfigInv' /\ BlockInv'
<1>1. /\ stage = "run" /\ opt.running_method = "build_db" /\ stage' = "idle"
      /\ outcome' # "searched" /\ file' = file /\ item' = item
  BY DEF Build, Asked, End, configVars
<1>2. ConfigInv'
  BY <1>1, ConfigIdle DEF ConfigInv
<1>3. IsSettings(settings) /\ block = ConfBlock(settings)
  BY <1>1 DEF BlockInv
<1>4. db'.complete => IsSettings(db'.made) /\ db'.block = ConfBlock(db'.made)
  <2>1. CASE db' = db
    BY <2>1 DEF BlockInv
  <2>2. CASE db' \in {NoDatabase, Stub}
    BY <2>2 DEF NoDatabase, Stub
  <2>3. CASE db' = [header |-> TRUE, complete |-> TRUE, block |-> block, made |-> settings]
    BY <1>3, <2>3
  <2> QED BY <2>1, <2>2, <2>3 DEF Build
<1>5. BlockInv'
  BY <1>1, <1>4, Zenon DEF BlockInv
<1> QED BY <1>2, <1>5

LEMMA SearchHolds ==
  ASSUME ConfigInv, BlockInv, Search
  PROVE  ConfigInv' /\ BlockInv'
<1>1. /\ stage = "run" /\ opt.running_method = "read_db" /\ stage' = "idle"
      /\ file' = file /\ item' = item /\ settings' = settings /\ block' = block /\ opt' = opt /\ db' = db
  BY DEF Search, Asked, End, configVars, argVars
<1>2. ConfigInv'
  BY <1>1, ConfigIdle DEF ConfigInv
<1>3. IsSettings(settings) /\ block = ConfBlock(settings)
  BY <1>1 DEF BlockInv
<1>4. outcome' = "searched" => notice' = (db.block # block)
  BY Zenon DEF Search, End
<1>5. db'.complete => IsSettings(db'.made) /\ db'.block = ConfBlock(db'.made)
  BY <1>1 DEF BlockInv
<1>6. IsSettings(settings') /\ block' = ConfBlock(settings')
  BY <1>1, <1>3
<1>7. outcome' = "searched" => notice' = (db'.block # block')
  BY <1>1, <1>4, Zenon
<1>8. stage' \notin {"scan", "run"}
  BY <1>1
<1>9. BlockInv'
  BY <1>5, <1>6, <1>7, <1>8, Zenon DEF BlockInv
<1> QED BY <1>2, <1>9

LEMMA FreeRunHolds ==
  ASSUME ConfigInv, BlockInv, FreeRun
  PROVE  ConfigInv' /\ BlockInv'
<1>1. /\ stage = "run" /\ opt.running_method = "free_run" /\ stage' = "idle"
      /\ file' = file /\ item' = item /\ opt' = opt /\ db' = db
  BY DEF FreeRun, Asked, End, configVars, argVars
<1>2. ConfigInv'
  BY <1>1, ConfigIdle DEF ConfigInv
<1>3. db'.complete => IsSettings(db'.made) /\ db'.block = ConfBlock(db'.made)
  BY <1>1 DEF BlockInv
<1>4. opt'.running_method = "free_run" /\ opt'.running_method # "read_db"
  BY <1>1
<1>5. BlockInv'
  BY <1>3, <1>4, Zenon DEF BlockInv
<1> QED BY <1>2, <1>5

\* Every run keeps the lists of its file, and every complete database the
\* block of the settings it was built by.
THEOREM StartupInvariant == Spec => []StartupInv
<1>1. Init => StartupInv
  BY InitHolds
<1>2. StartupInv /\ [Next]_vars => StartupInv'
  <2> SUFFICES ASSUME StartupInv, [Next]_vars PROVE StartupInv'
    OBVIOUS
  <2> USE DEF StartupInv
  <2>1. CASE Start
    BY <2>1, StartHolds, Zenon
  <2>2. CASE Arguments
    BY <2>2, ArgumentsHold, Zenon
  <2>3. CASE UNCHANGED vars
    <3>1. CommandInv' /\ ScanPathInv'
      BY <2>3, ArgumentsStay, Zenon DEF vars
    <3>2. ConfigInv'
      BY <2>3, Zenon DEF vars, configVars, argVars, ConfigInv
    <3>3. BlockInv'
      BY <2>3, Zenon DEF vars, configVars, argVars, BlockInv
    <3> QED BY <3>1, <3>2, <3>3
  <2>4. CASE Next /\ ~ Start /\ ~ Arguments
    <3>1. UNCHANGED argVars
      BY <2>4, Zenon DEF Next, EditConfig, EndEarly, OpenConfig, StoreBool, RejectBool, StoreList, StorePath,
         StoreValue, FinishConfig, Scan, Build, Search, FreeRun
    <3>2. CommandInv' /\ ScanPathInv'
      BY <3>1, ArgumentsStay, Zenon
    <3>3. ConfigInv' /\ BlockInv'
      BY <2>4, EditConfigHolds, EndEarlyHolds, OpenConfigHolds, StoreBoolHolds, RejectBoolHolds,
         StoreListHolds, StorePathHolds, FinishConfigHolds, ScanHolds, BuildHolds, SearchHolds,
         FreeRunHolds, Zenon DEF Next
    <3> QED BY <3>2, <3>3
  <2> QED BY <2>1, <2>2, <2>3, <2>4
<1> QED BY <1>1, <1>2, PTL DEF Spec

\* But for characters 0, the lists a scan prunes by hold the words of the
\* configuration file, whatever texts it has.
THEOREM ListsHold == Spec => []ListsHoldTheWords
<1>1. StartupInv => ListsHoldTheWords
  <2> SUFFICES ASSUME StartupInv, stage \in {"scan", "run"}, NEW key \in ListKeys
               PROVE  ListsWords(WordsIn(settings[key]), Configured(key), Space)
    BY DEF ListsHoldTheWords
  <2>1. file \in Configs /\ item \in Nat \ {0} /\ HoldsLists(file, item, settings) /\ item > Len(file.items)
    BY DEF StartupInv, ConfigInv
  <2>2. Configured(key) = ConfiguredIn(file, key)
    BY Zenon DEF Configured, ConfiguredIn
  <2>3. PICK text : text = ConfiguredIn(file, key)
    OBVIOUS
  <2>4. CASE IsRead(file, item, key)
    <3>1. settings[key] = BreakString(text)
      BY <2>1, <2>3, <2>4 DEF HoldsLists
    <3>2. text \in Text
      BY <2>1, <2>3, ConfiguredText
    <3> QED BY <2>2, <2>3, <3>1, <3>2, BreakStringReads
  <2>5. CASE ~ IsRead(file, item, key)
    <3>1. settings[key] = << >>
      BY <2>1, <2>5 DEF HoldsLists
    <3>2. {k \in DOMAIN file.items : file.items[k].key = key} = {}
      <4>1. PICK items : items = file.items
        OBVIOUS
      <4>2. DOMAIN items = 1 .. Len(items) /\ Len(items) \in Nat
        BY <2>1, <4>1, ConfigsAssumption, LenProperties
      <4>3. \A k \in DOMAIN file.items : k < item
        BY <2>1, <4>1, <4>2
      <4> QED BY <2>5, <4>3 DEF IsRead
    <3>3. text = IF key = "prunefs" THEN InUpperCase(<< >>) ELSE << >>
      BY <2>3, <3>2, Zenon DEF ConfiguredIn
    <3>4. InUpperCase(<< >>) = << >>
      BY DEF InUpperCase
    <3>5. WordsIn(<< >>) = << >>
      BY WordsInType, EmptySeq
    <3>6. ListsWords(<< >>, << >>, Space)
      BY ReadsStart DEF Reads
    <3> QED BY <2>2, <2>3, <3>1, <3>3, <3>4, <3>5, <3>6
  <2> QED BY <2>4, <2>5
<1> QED BY <1>1, StartupInvariant, PTL

\* The notice of a search says that its settings differ from those of the last
\* complete build, and is given whenever more than characters 0 do.
THEOREM NoticeExact == Spec => []NoticeIsExact
<1>1. StartupInv => NoticeIsExact
  <2> SUFFICES ASSUME StartupInv, outcome = "searched", opt.running_method = "read_db", db.complete
               PROVE  /\ notice => db.made # settings
                      /\ InWords(db.made) # InWords(settings) => notice
    BY DEF NoticeIsExact
  <2>1. BlockInv
    BY DEF StartupInv
  <2>2. IsSettings(settings) /\ block = ConfBlock(settings)
    BY <2>1 DEF BlockInv
  <2>3. IsSettings(db.made) /\ db.block = ConfBlock(db.made)
    BY <2>1 DEF BlockInv
  <2>4. notice = (db.block # block)
    BY <2>1, Zenon DEF BlockInv
  <2>5. db.block = block => InWords(db.made) = InWords(settings)
    <3>1. PICK s, t : s = db.made /\ t = settings
      OBVIOUS
    <3> QED BY <2>2, <2>3, <3>1, BlockTellsSettings
  <2>6. db.made = settings => db.block = block
    BY <2>2, <2>3
  <2> QED BY <2>4, <2>5, <2>6, Zenon
<1> QED BY <1>1, StartupInvariant, PTL
=============================================================================
