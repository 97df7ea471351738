------------------------------ MODULE Startup ------------------------------
(***************************************************************************)
(* main: the runs of symfind one after the other, each from its command    *)
(* line (CommandLine) and the configuration file to the build, search or   *)
(* free run it asks for.  Between runs the configuration file may change;  *)
(* the database stays, and a search compares the configuration block in    *)
(* it with its own.                                                        *)
(*                                                                         *)
(* A text is a sequence of letters.  A configuration is what JsonParser    *)
(* makes of the file: missing, broken, or its items in the order of keys.  *)
(***************************************************************************)
EXTENDS CommandLine

CONSTANTS
  Letters,      \* the letters of texts and paths
  Configs,      \* the contents the configuration file may have
  DefaultRoot,  \* DATABASE_DEFAULT_SCAN_ROOT_PATH
  DefaultPath,  \* DATABASE_DEFAULT_PATH
  ToUpper,      \* toupper, for the letters it changes
  MaxRuns       \* bound on the number of runs

VARIABLES
  file,      \* the configuration file
  runs,      \* runs so far
  stage,     \* "idle", "arguments", "config", "scan" or "run"
  item,      \* the next item of the configuration
  settings,  \* the members of ConfigParser, by the keys they belong to
  block,     \* _conf_block
  filter,    \* the visibility given to the filter of symbols
  notice,    \* the search has said that the configuration has changed
  db,        \* the database
  outcome    \* how the last run ended, "none" while there is none

configVars == <<item, settings, block>>
vars == <<argVars, file, runs, stage, configVars, filter, notice, db, outcome>>

-----------------------------------------------------------------------------
(* Texts *)

NUL == "NUL"
Space == " "

Text == Seq(Letters \cup {Space})

\* break_string, one character at a time.  The word it collects begins as
\* Len(text) characters 0.
PushWord(s) == IF s.word = << >> THEN s.list ELSE Append(s.list, s.word)

ReadChar(s, ch) ==
  IF ch = Space THEN [list |-> PushWord(s), word |-> << >>]
  ELSE [list |-> s.list, word |-> Append(s.word, ch)]

BreakString(text) ==
  LET read[k \in 0 .. Len(text)] ==
        IF k = 0 THEN [list |-> << >>, word |-> [n \in 1 .. Len(text) |-> NUL]]
        ELSE ReadChar(read[k - 1], text[k])
  IN  PushWord(read[Len(text)])

Upper(ch) == IF ch \in DOMAIN ToUpper THEN ToUpper[ch] ELSE ch
InUpperCase(word) == [k \in DOMAIN word |-> Upper(word[k])]
ListToUpper(list) == [k \in DOMAIN list |-> InUpperCase(list[k])]

-----------------------------------------------------------------------------
(* Settings *)

BoolKeys == {"prune_bind_mounts", "debug_pruning"}
ListKeys == {"prunefs", "prunenames", "prunepaths"}
PathKeys == {"database_path", "database_scan_path"}
Keys == BoolKeys \cup ListKeys \cup PathKeys

\* The name of a key is one letter here, and none of a text's.  The character
\* 0, for which JSON has an escape, is left out: "a", NUL, "b" is one word and
\* has the block of two.
ASSUME LettersAssumption ==
  /\ Letters \cap (Keys \cup {NUL, Space}) = {}
  /\ DefaultRoot \in Seq(Letters) /\ DefaultPath \in Seq(Letters)
  /\ \A ch \in DOMAIN ToUpper : ch \in Letters /\ ToUpper[ch] \in Letters

\* An object has a key once.
ASSUME ConfigsAssumption ==
  \A conf \in Configs :
    /\ conf.state \in {"missing", "broken", "object"}
    /\ conf.items \in Seq([key : STRING, is_string : BOOLEAN, text : Text])
    /\ \A k, l \in DOMAIN conf.items : conf.items[k].key = conf.items[l].key => k = l

Defaults ==
  [k \in Keys |->
     CASE k \in BoolKeys -> FALSE
       [] k \in ListKeys -> << >>
       [] k = "database_path" -> DefaultPath
       [] k = "database_scan_path" -> DefaultRoot]

\* generate_conf_block_string_list
Strings(list) ==
  LET strings[k \in 0 .. Len(list)] ==
        IF k = 0 THEN << >> ELSE strings[k - 1] \o Append(list[k], NUL)
  IN  strings[Len(list)]

ListBlock(list) == Append(Strings(list), NUL)

BoolBlock(b) == <<IF b THEN "1" ELSE "0", NUL, NUL>>

\* generate_conf_block.  The name of a key is one letter; the two NULs after
\* a path are a C string, the empty one.
ConfBlock(s) ==
     <<"prune_bind_mounts", NUL>> \o BoolBlock(s["prune_bind_mounts"])
  \o <<"debug_pruning", NUL>> \o BoolBlock(s["debug_pruning"])
  \o <<"prunefs", NUL>> \o ListBlock(s["prunefs"])
  \o <<"prunenames", NUL>> \o ListBlock(s["prunenames"])
  \o <<"prunepaths", NUL>> \o ListBlock(s["prunepaths"])
  \o <<"database_path", NUL>> \o s["database_path"]
  \o <<"database_scan_path", NUL>> \o s["database_scan_path"]

NoDatabase == [header |-> FALSE, complete |-> FALSE, block |-> << >>, made |-> Defaults]
Stub == [header |-> TRUE, complete |-> FALSE, block |-> << >>, made |-> Defaults]

-----------------------------------------------------------------------------
(* Runs *)

Init ==
  /\ ArgInit
  /\ file \in Configs /\ runs = 0 /\ stage = "idle" /\ item = 1
  /\ settings = Defaults /\ block = << >>
  /\ filter = Unset /\ notice = FALSE
  /\ db = NoDatabase /\ outcome = "none"

End(how) == stage' = "idle" /\ outcome' = how

EditConfig ==
  /\ stage = "idle"
  /\ file' \in Configs \ {file}
  \* settings are those of the run that has ended
  /\ UNCHANGED <<argVars, runs, stage, configVars, filter, notice, db, outcome>>

Start ==
  /\ stage = "idle" /\ runs < MaxRuns
  /\ runs' = runs + 1 /\ stage' = "arguments" /\ outcome' = "none"
  /\ \E line \in CommandLines : Execute(line)
  /\ item' = 1 /\ settings' = Defaults /\ block' = << >>
  /\ filter' = Unset /\ notice' = FALSE
  /\ UNCHANGED <<file, db>>

Arguments ==
  /\ stage = "arguments" /\ ParseArguments
  /\ UNCHANGED <<file, runs, stage, configVars, filter, notice, db, outcome>>

\* Everything that ends the run before the configuration is read.
EndEarly ==
  /\ stage = "arguments"
  /\ \/ verdict = "refused" /\ End("usage")
     \/ verdict = "aborted" /\ End("aborted")
     \/ verdict = "accepted" /\ opt.print_help /\ End("help")
     \/ verdict = "accepted" /\ ~ opt.print_help /\ opt.show_version /\ End("version")
  /\ UNCHANGED <<argVars, file, runs, configVars, filter, notice, db>>

\* JsonParser::parse and validate_config
IsValid(conf) == \A k \in DOMAIN conf.items : conf.items[k].key \in Keys /\ conf.items[k].is_string

OpenConfig ==
  /\ stage = "arguments" /\ verdict = "accepted" /\ ~ opt.print_help /\ ~ opt.show_version
  /\ \/ file.state = "missing" /\ End("no_config")
     \/ /\ file.state = "broken" \/ (file.state = "object" /\ ~ IsValid(file))
        /\ End("config_error")
     \/ /\ file.state = "object" /\ IsValid(file)
        /\ stage' = "config" /\ UNCHANGED outcome
  /\ UNCHANGED <<argVars, file, runs, configVars, filter, notice, db>>

\* One turn of the loop of extract_config.
StoreValue(value) ==
  /\ item' = item + 1
  /\ settings' = [settings EXCEPT ![file.items[item].key] = value]
  /\ UNCHANGED <<argVars, file, runs, stage, block, filter, notice, db, outcome>>

\* to_bool
Booleans == {<<"true">>, <<"false">>}

AtItem(keys) == stage = "config" /\ item <= Len(file.items) /\ file.items[item].key \in keys
ItemText == file.items[item].text

StoreBool ==
  /\ AtItem(BoolKeys) /\ ItemText \in Booleans
  /\ StoreValue(ItemText = <<"true">>)

RejectBool ==
  /\ AtItem(BoolKeys) /\ ItemText \notin Booleans
  /\ End("config_error")
  /\ UNCHANGED <<argVars, file, runs, configVars, filter, notice, db>>

\* Mutant of StoreList: all lists are in upper case.
StoreListUpper ==
  /\ AtItem(ListKeys)
  /\ StoreValue(ListToUpper(settings[file.items[item].key] \o BreakString(ItemText)))

StoreList ==
  /\ AtItem(ListKeys)
  /\ LET key == file.items[item].key
         list == settings[key] \o BreakString(ItemText)
     IN  StoreValue(IF key = "prunefs" THEN ListToUpper(list) ELSE list)

\* Only an empty path is stored.
StorePath ==
  /\ AtItem(PathKeys)
  /\ StoreValue(IF ItemText = << >> THEN ItemText ELSE settings[file.items[item].key])

\* generate_conf_block; then main overrides the path to scan.
FinishConfig ==
  /\ stage = "config" /\ item > Len(file.items)
  /\ stage' = "scan"
  /\ block' = ConfBlock(settings)
  /\ settings' =
       IF opt.scan_root_path = "" THEN settings
       ELSE [settings EXCEPT !["database_scan_path"] = <<opt.scan_root_path>>]
  /\ UNCHANGED <<argVars, file, runs, item, filter, notice, db, outcome>>

\* FSScanner::scan, which any run does first.
Scan ==
  /\ stage = "scan"
  /\ \/ settings["database_scan_path"] # << >> /\ stage' = "run" /\ UNCHANGED outcome
     \/ End("scan_failed")
  /\ UNCHANGED <<argVars, file, runs, configVars, filter, notice, db>>

Asked(method) == stage = "run" /\ opt.running_method = method

\* A build leaves a database, a header with nothing behind it, or an empty
\* file; with no path there is no file to touch.
Build ==
  /\ Asked("build_db")
  /\ \/ /\ settings["database_path"] = << >>
        /\ End("not_built") /\ UNCHANGED db
     \/ /\ settings["database_path"] # << >>
        /\ db' \in {NoDatabase, Stub} /\ End("not_built")
     \/ /\ settings["database_path"] # << >>
        /\ db' = [header |-> TRUE, complete |-> TRUE, block |-> block, made |-> settings]
        /\ End("built")
  /\ UNCHANGED <<argVars, file, runs, configVars, filter, notice>>

Search ==
  /\ Asked("read_db")
  /\ filter' = "only_defined"
  /\ \/ /\ settings["database_path"] = << >> \/ ~ db.header
        /\ End("not_searched") /\ UNCHANGED notice
     \/ /\ settings["database_path"] # << >> /\ db.header
        /\ notice' = (db.block # block)
        /\ End("searched") \/ End("not_searched")
  /\ UNCHANGED <<argVars, file, runs, configVars, db>>

FreeRun ==
  /\ Asked("free_run")
  /\ filter' = "only_defined"
  /\ End("searched")
  /\ UNCHANGED <<argVars, file, runs, configVars, notice, db>>

Next ==
  \/ EditConfig \/ Start \/ Arguments \/ EndEarly
  \/ OpenConfig \/ StoreBool \/ RejectBool \/ StoreList \/ StorePath \/ FinishConfig
  \/ Scan \/ Build \/ Search \/ FreeRun

Spec == Init /\ [][Next]_vars

-----------------------------------------------------------------------------
(* Properties *)

\* The words of a text, each as its first and last place: its longest
\* stretches without a mark between words.
WordPlaces(text, mark) ==
  {w \in (1 .. Len(text)) \X (1 .. Len(text)) :
     /\ w[1] <= w[2] /\ \A k \in w[1] .. w[2] : text[k] # mark
     /\ w[1] > 1 => text[w[1] - 1] = mark
     /\ w[2] < Len(text) => text[w[2] + 1] = mark}

\* list has just the words of text, in their order.
ListsWords(list, text, mark) ==
  \E place \in [DOMAIN list -> WordPlaces(text, mark)] :
    /\ WordPlaces(text, mark) = {place[n] : n \in DOMAIN list}
    /\ \A m, n \in DOMAIN list : m < n => place[m][2] < place[n][1]
    /\ \A n \in DOMAIN list : list[n] = SubSeq(text, place[n][1], place[n][2])

\* The text that the file gives for key, as the scan compares its words.
Configured(key) ==
  LET at == {k \in DOMAIN file.items : file.items[k].key = key}
      text == IF at = {} THEN << >> ELSE file.items[CHOOSE k \in at : TRUE].text
  IN  IF key = "prunefs" THEN InUpperCase(text) ELSE text

\* A word without its characters 0, and those words of a list that have others.
WithoutNULs(word) ==
  LET others[k \in 0 .. Len(word)] ==
        IF k = 0 THEN << >>
        ELSE IF word[k] = NUL THEN others[k - 1] ELSE Append(others[k - 1], word[k])
  IN  others[Len(word)]

WordsIn(list) ==
  LET words[k \in 0 .. Len(list)] ==
        IF k = 0 THEN << >>
        ELSE IF WithoutNULs(list[k]) = << >> THEN words[k - 1]
        ELSE Append(words[k - 1], WithoutNULs(list[k]))
  IN  words[Len(list)]

\* But for characters 0, the three lists a scan prunes by hold the words of
\* the configuration file, in their order, those of prunefs in upper case.
ListsHoldTheWords ==
  stage \in {"scan", "run"} =>
    \A key \in ListKeys : ListsWords(WordsIn(settings[key]), Configured(key), Space)

\* The settings s, of the lists only their words.
InWords(s) == [k \in Keys |-> IF k \in ListKeys THEN WordsIn(s[k]) ELSE s[k]]

\* "DatabaseReader: configuration file changed since last database update!"
\* comes only when the settings of the search differ from those by which the
\* last complete build has scanned, the path scanned included, and always
\* when they differ in more than the characters 0 of the lists, whatever has
\* run and changed in between.  Lists that differ in those alone may have
\* the same block: << 0 0 0, "ba" >> of " ba", << 0 0 0 0, "ba" >> of "ba  ".
NoticeIsExact ==
  outcome = "searched" /\ opt.running_method = "read_db" /\ db.complete =>
    /\ notice => db.made # settings
    /\ InWords(db.made) # InWords(settings) => notice

\* "Add values from space-separated STR to LIST" (break_string): the lists
\* are the words of the file, nothing added.
EveryWordCounts ==
  stage \in {"scan", "run"} =>
    \A key \in ListKeys : ListsWords(settings[key], Configured(key), Space)
=============================================================================
