------------------------------ MODULE ElfParser ------------------------------
(***************************************************************************)
(* What parse_symtables hands to its callback for one file, and how it     *)
(* ends.  libelf decodes; here a file is what libelf makes of it.  A file  *)
(* of kind "elf" has itself as its only member; "none" is one that cannot  *)
(* be opened or is neither.  A "bad" member has no archive header.  A      *)
(* table is not sound if its entry size is 0 or its link leads to no data: *)
(* the program divides by the one and reads through the other.             *)
(***************************************************************************)
EXTENDS Naturals, FiniteSets, SequencesExt

CONSTANTS
  Names,     \* the names a symbol may have
  Nameless,  \* the empty one
  Query      \* the name that is looked for

\* A command line without a name is refused.
ASSUME QueryAssumption == Query # Nameless

Tables == {"symtab", "dynsym"}

SymbolType == [name : Names, defined : BOOLEAN]
SectionType == [type : Tables \cup {"other"}, sound : BOOLEAN, symbols : Seq(SymbolType)]
MemberType == [kind : {"elf", "other", "bad"}, sections : Seq(SectionType)]

FileType ==
  [kind : {"elf"}, members : [1 .. 1 -> [kind : {"elf"}, sections : Seq(SectionType)]]]
    \cup [kind : {"archive", "none"}, members : Seq(MemberType)]

\* A parse that has stored list so far and goes on, until its end is not "ok".
Nothing == [list |-> << >>, end |-> "ok"]

\* symfinder_symbol_should_be_stored, with the comparator for whole names.
Wanted(symbol) == symbol.name = Query /\ symbol.defined

Entry(symbol, type) == [name |-> symbol.name, source |-> type]

\* Mutant of Stored: the loop ends at the first symbol without a name.
StoredUpToNameless(table) ==
  LET named == {k \in DOMAIN table.symbols :
                  \A i \in 1 .. k : table.symbols[i].name # Nameless}
      kept  == SelectSeq(SubSeq(table.symbols, 1, Cardinality(named)), Wanted)
  IN  [k \in DOMAIN kept |-> Entry(kept[k], table.type)]

\* The loop over a table.  It passes over symbols without a name, of which the
\* first of every table is one.
Stored(table) ==
  LET symbols == table.symbols
      stored[k \in 0 .. Len(symbols)] ==
        IF k = 0 THEN << >>
        ELSE IF symbols[k].name # Nameless /\ Wanted(symbols[k])
               THEN Append(stored[k - 1], Entry(symbols[k], table.type))
               ELSE stored[k - 1]
  IN  stored[Len(symbols)]

\* parse_symtable: a table that is not sound is the end of the process.
ParseSymtable(parse, table) ==
  IF table.sound THEN [parse EXCEPT !.list = @ \o Stored(table)]
                 ELSE [parse EXCEPT !.end = "killed"]

\* One turn of the loop of parse_elf.
ParseSection(parse, section) ==
  IF parse.end = "ok" /\ section.type \in Tables
  THEN ParseSymtable(parse, section)
  ELSE parse

ParseElf(parse, sections) ==
  LET turn[k \in 0 .. Len(sections)] ==
        IF k = 0 THEN parse ELSE ParseSection(turn[k - 1], sections[k])
  IN  turn[Len(sections)]

\* One turn of the loop of parse_archive.
ParseMember(parse, member) ==
  CASE parse.end # "ok" -> parse
    [] parse.end = "ok" /\ member.kind = "bad" -> [parse EXCEPT !.end = "exit"]
    [] parse.end = "ok" /\ member.kind = "elf" -> ParseElf(parse, member.sections)
    [] OTHER -> parse

ParseArchive(parse, members) ==
  LET turn[k \in 0 .. Len(members)] ==
        IF k = 0 THEN parse ELSE ParseMember(turn[k - 1], members[k])
  IN  turn[Len(members)]

ParseSymtables(file) ==
  CASE file.kind = "elf"     -> ParseElf(Nothing, file.members[1].sections)
    [] file.kind = "archive" -> ParseArchive(Nothing, file.members)
    [] file.kind = "none"    -> [Nothing EXCEPT !.end = "failed"]
=============================================================================
