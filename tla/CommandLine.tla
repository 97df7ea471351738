---------------------------- MODULE CommandLine ----------------------------
(***************************************************************************)
(* parse_arguments: one action per branch of the loop over argv, then the  *)
(* defaults and checks after it.  Of two spellings of an option only the   *)
(* short one is here, both are one condition in the code.  An argument is  *)
(* one of the words below or another word, which may be a symbol or a      *)
(* path; "" is the empty argument.                                         *)
(***************************************************************************)
EXTENDS Naturals, SequencesExt

CONSTANT CommandLines   \* the argument lists symfind may be started with

ASSUME CommandLineAssumption == CommandLines \subseteq Seq(STRING)

VARIABLES
  argv,     \* the arguments, without the program's name
  i,        \* the next one to look at; argv[Len(argv) + 1] is a null pointer
  opt,      \* ProgramOptions
  verdict   \* "none", "reading", "accepted", "refused" or "aborted"

argVars == <<argv, i, opt, verdict>>

-----------------------------------------------------------------------------
(* The words *)

Unset == "not_set"
Unknown == "unknown"

Methods == {"build_db", "read_db", "free_run"}
SearchTypes == {"default", "regex", "fuzzy"}
Visibility ==
  [defined |-> "only_defined", runtime |-> "only_runtime", both |-> "show_both",
   only_defined |-> "only_defined", only_runtime |-> "only_runtime", show_both |-> "show_both"]

\* The bits of a RunningMethod.
MethodBits == [not_set |-> {}, build_db |-> {1}, read_db |-> {2}, free_run |-> {3}]

ParseMethod(w) == IF w \in Methods THEN w ELSE Unset
ParseSearchType(w) == IF w \in SearchTypes THEN w ELSE Unknown
ParseVisibility(w) == IF w \in DOMAIN Visibility THEN Visibility[w] ELSE Unknown

\* The words that begin with a dash: the options, and one nobody knows.
Dashed == {"-h", "-v", "-m", "-r", "-f", "--search-type", "--symbol-visibility", "-s", "-d", "-x"}

NoOptions ==
  [running_method |-> Unset, search_type |-> Unset, visibility |-> Unset, scan_root_path |-> "",
   symbol |-> "", debug_mode |-> FALSE, show_version |-> FALSE, print_help |-> FALSE]

-----------------------------------------------------------------------------
(* The loop *)

ArgInit == argv = << >> /\ i = 1 /\ opt = NoOptions /\ verdict = "none"

\* main is called with a command line.
Execute(line) ==
  /\ argv' = line /\ i' = 1 /\ opt' = NoOptions
  /\ verdict' = IF line = << >> THEN "refused" ELSE "reading"

At(words) == verdict = "reading" /\ i <= Len(argv) /\ argv[i] \in words
HasValue == i < Len(argv)
Value == argv[i + 1]

Default(value, default) == IF value = Unset THEN default ELSE value

Take(n, options) == i' = i + n /\ opt' = options /\ UNCHANGED <<argv, verdict>>
Refuse == verdict' = "refused" /\ UNCHANGED <<argv, i, opt>>

ReadHelp == At({"-h"}) /\ Take(1, [opt EXCEPT !.print_help = TRUE])
ReadVersion == At({"-v"}) /\ Take(1, [opt EXCEPT !.show_version = TRUE])

\* The method is rejected if it has a bit of RunningMethod_NOT_SET.
ReadMethod ==
  /\ At({"-m"}) /\ opt.running_method = Unset /\ HasValue
  /\ LET method == ParseMethod(Value)
     IN  IF MethodBits[method] \cap MethodBits[Unset] # {}
           THEN Refuse
           ELSE Take(2, [opt EXCEPT !.running_method = method])

RefuseSecondMethod == At({"-m"}) /\ opt.running_method # Unset /\ Refuse

\* A std::string is made from the null pointer at the end of argv; the
\* exception ends the program, as parse_arguments is noexcept.
AbortMethod ==
  /\ At({"-m"}) /\ opt.running_method = Unset /\ ~ HasValue
  /\ verdict' = "aborted" /\ UNCHANGED <<argv, i, opt>>

\* Mutant of ReadShortcut: the first of two search types counts.
ReadFirstShortcut ==
  /\ At({"-r", "-f"})
  /\ Take(1, [opt EXCEPT !.search_type = IF argv[i] = "-r" THEN Default(@, "regex") ELSE Default(@, "fuzzy")])

ReadShortcut ==
  /\ At({"-r", "-f"})
  /\ Take(1, [opt EXCEPT !.search_type = IF argv[i] = "-r" THEN "regex" ELSE "fuzzy"])

ReadSearchType ==
  /\ At({"--search-type"}) /\ HasValue /\ ParseSearchType(Value) # Unknown
  /\ Take(2, [opt EXCEPT !.search_type = ParseSearchType(Value)])

ReadVisibility ==
  /\ At({"--symbol-visibility"}) /\ HasValue /\ ParseVisibility(Value) # Unknown
  /\ Take(2, [opt EXCEPT !.visibility = ParseVisibility(Value)])

ReadScanPath ==
  /\ At({"-s"}) /\ HasValue
  /\ Take(2, [opt EXCEPT !.scan_root_path = Value])

\* A value is missing, or is none of the words for the option.
RefuseValue ==
  /\ \/ At({"--search-type", "--symbol-visibility", "-s"}) /\ ~ HasValue
     \/ At({"--search-type"}) /\ HasValue /\ ParseSearchType(Value) = Unknown
     \/ At({"--symbol-visibility"}) /\ HasValue /\ ParseVisibility(Value) = Unknown
  /\ Refuse

\* Mutant of ReadSymbol: a second symbol replaces the first.
ReadLastSymbol ==
  /\ verdict = "reading" /\ i <= Len(argv) /\ argv[i] \notin Dashed
  /\ Take(1, [opt EXCEPT !.symbol = argv[i]])

ReadSymbol ==
  /\ verdict = "reading" /\ i <= Len(argv) /\ argv[i] \notin Dashed
  /\ IF opt.symbol # "" THEN Refuse ELSE Take(1, [opt EXCEPT !.symbol = argv[i]])

\* The branch of -d sets its flag and falls through to the same end.
RefuseOption ==
  /\ At({"-d", "-x"})
  /\ verdict' = "refused"
  /\ opt' = [opt EXCEPT !.debug_mode = @ \/ argv[i] = "-d"]
  /\ UNCHANGED <<argv, i>>

\* Mutant of KeptScanPath: the path is not cleared.
ScanPathAsGiven(path, method) == path

\* A scan path is for a free run only.
KeptScanPath(path, method) == IF method = "free_run" THEN path ELSE ""

\* What is left to do after the loop.
FinishArguments ==
  LET method == Default(opt.running_method, "read_db")
  IN  /\ verdict = "reading" /\ i > Len(argv)
      /\ UNCHANGED <<argv, i>>
      /\ \/ /\ opt.print_help \/ opt.show_version
            /\ verdict' = "accepted" /\ UNCHANGED opt
         \/ /\ ~ (opt.print_help \/ opt.show_version)
            /\ opt.symbol = "" /\ method # "build_db"
            /\ verdict' = "refused"
            /\ opt' = [opt EXCEPT !.running_method = method]
         \/ /\ ~ (opt.print_help \/ opt.show_version)
            /\ opt.symbol # "" \/ method = "build_db"
            /\ verdict' = "accepted"
            /\ opt' = [opt EXCEPT
                 !.running_method = method,
                 !.search_type = Default(@, "default"),
                 !.visibility = Default(@, "only_defined"),
                 !.scan_root_path = KeptScanPath(@, method)]

ParseArguments ==
  \/ ReadHelp \/ ReadVersion
  \/ ReadMethod \/ RefuseSecondMethod \/ AbortMethod
  \/ ReadShortcut \/ ReadSearchType \/ ReadVisibility \/ ReadScanPath \/ RefuseValue
  \/ ReadSymbol \/ RefuseOption
  \/ FinishArguments

\* The program run once, up to the verdict.
ArgNext ==
  \/ verdict = "none" /\ \E line \in CommandLines : Execute(line)
  \/ ParseArguments

ArgSpec == ArgInit /\ [][ArgNext]_argVars

-----------------------------------------------------------------------------
(* What a command line says, read as a whole *)

Takes == {"-m", "--search-type", "--symbol-visibility", "-s"}

\* The positions of line whose word is the value of the option before it.
Values(line) ==
  LET isValue[k \in 0 .. Len(line)] == k > 1 /\ line[k - 1] \in Takes /\ ~ isValue[k - 1]
  IN  {k \in DOMAIN line : isValue[k]}

Options(line, words) == {k \in DOMAIN line \ Values(line) : line[k] \in words}
ValuesOf(line, option) == {k + 1 : k \in Options(line, {option})}
MethodsOf(line) == {k \in ValuesOf(line, "-m") \cap DOMAIN line : line[k] \in Methods}
SymbolsOf(line) ==
  {k \in DOMAIN line \ Values(line) : line[k] \notin Dashed /\ line[k] # ""}

AsksForHelp(line) == Options(line, {"-h", "-v"}) # {}

\* Words after -m that are no method, and words that are empty.
JunkMethods(line) == (ValuesOf(line, "-m") \cap DOMAIN line) \ MethodsOf(line)
EmptyWords(line) == {k \in DOMAIN line \ Values(line) : line[k] = ""}

\* Every option is a known one and has its value, there is one method and one
\* symbol at most, and there is something to do.
IsSound(line) ==
  /\ line # << >>
  /\ Options(line, {"-x"}) = {}
  /\ UNION {ValuesOf(line, o) : o \in Takes} \subseteq DOMAIN line
  /\ \A k \in ValuesOf(line, "--search-type") : line[k] \in SearchTypes
  /\ \A k \in ValuesOf(line, "--symbol-visibility") : line[k] \in DOMAIN Visibility
  /\ \A k, l \in MethodsOf(line) : k = l
  /\ \A k, l \in SymbolsOf(line) : k = l
  /\ \/ AsksForHelp(line)
     \/ SymbolsOf(line) # {}
     \/ \E k \in MethodsOf(line) : line[k] = "build_db"

\* What the help text and the messages of parse_arguments call for.
IsLegal(line) == IsSound(line) /\ JunkMethods(line) = {} /\ EmptyWords(line) = {}

\* Words that should be refused, where parse_arguments passes over them: those
\* after -m before there is a method, empty ones before there is a symbol.
Overlooked(line) ==
  /\ IsSound(line) /\ ~ IsLegal(line)
  /\ \A k \in MethodsOf(line), l \in JunkMethods(line) : l < k
  /\ \A k \in SymbolsOf(line), l \in EmptyWords(line) : l < k

\* The search type that one of its words stands for.
SearchOf(w) == CASE w = "-r" -> "regex" [] w = "-f" -> "fuzzy" [] OTHER -> w

\* The word at the last of positions ks, or default if there is none.
LastWord(line, ks, default) == IF ks = {} THEN default ELSE line[Max(ks)]

Meaning(line) ==
  LET method == LastWord(line, MethodsOf(line), "read_db")
      search == Options(line, {"-r", "-f"}) \cup ValuesOf(line, "--search-type")
      path == LastWord(line, ValuesOf(line, "-s"), "")
  IN  [NoOptions EXCEPT
        !.running_method = method,
        !.search_type = SearchOf(LastWord(line, search, "default")),
        !.visibility = Visibility[LastWord(line, ValuesOf(line, "--symbol-visibility"), "defined")],
        !.symbol = LastWord(line, SymbolsOf(line), ""),
        !.scan_root_path = IF method = "free_run" THEN path ELSE ""]

-----------------------------------------------------------------------------
(* Properties *)

\* parse_arguments accepts the legal command lines, those whose words are known
\* options, each with a value of its own that it may have, with at most one
\* method and one symbol and a symbol unless a database is built; but it refuses
\* every line with -d, which the help offers, and overlooks a word after -m that
\* is no method, and an empty word, unless one that counts came before.
AcceptedIsLegal ==
  /\ verdict = "accepted" =>
       Options(argv, {"-d"}) = {} /\ (IsLegal(argv) \/ Overlooked(argv))
  /\ verdict \in {"refused", "aborted"} =>
       Options(argv, {"-d"}) # {} \/ ~ (IsLegal(argv) \/ Overlooked(argv))

\* The options that main goes by say what the command line says as a whole:
\* no word is taken twice, for a value and for an option or symbol, of two
\* search types the later counts, and a scan path is kept for a free run only.
OptionsMeanWhatWasSaid ==
  verdict = "accepted" /\ ~ AsksForHelp(argv) => opt = Meaning(argv)
=============================================================================
