--------------------------- MODULE CommandLineMC ---------------------------
(* All command lines of up to MaxArguments words, one of them a symbol that *)
(* is no word of an option.                                                 *)
EXTENDS CommandLine

CONSTANT MaxArguments

Words ==
  {"-h", "-v", "-m", "-r", "--search-type", "--symbol-visibility", "-s", "-d",
   "build_db", "free_run", "fuzzy", "show_both", "malloc", ""}

Lines == UNION {[1 .. n -> Words] : n \in 0 .. MaxArguments}
=============================================================================
