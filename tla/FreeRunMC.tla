------------------------------ MODULE FreeRunMC ------------------------------
(***************************************************************************)
(* Small files for FreeRun.                                                *)
(***************************************************************************)
EXTENDS FreeRun

CONSTANTS malloc, free    \* names; malloc is looked for

SomeNames == {malloc, free, Nameless}

Defined(name) == [name |-> name, defined |-> TRUE]
Undefined(name) == [name |-> name, defined |-> FALSE]
Section(type, symbols) == [type |-> type, sound |-> TRUE, symbols |-> symbols]
Member(sections) == [kind |-> "elf", sections |-> sections]
Elf(sections) == [kind |-> "elf", members |-> <<Member(sections)>>]
Archive(members) == [kind |-> "archive", members |-> members]

\* Every table begins with a symbol without a name.
Table(type, symbols) == Section(type, <<Undefined(Nameless)>> \o symbols)

Code == Section("other", << >>)
NotElf == [kind |-> "other", sections |-> << >>]
NoHeader == [kind |-> "bad", sections |-> << >>]

User == Elf(<<Code, Table("dynsym", <<Undefined(malloc), Defined(free)>>)>>)
Library == Elf(<<Table("dynsym", <<Defined(malloc)>>), Code,
                 Table("symtab", <<Defined(free), Defined(malloc)>>)>>)
StaticLibrary == Archive(<<NotElf, Member(<<Table("symtab", <<Defined(malloc)>>)>>),
                           Member(<<Table("symtab", <<Defined(free)>>)>>)>>)
BrokenArchive == Archive(<<Member(<<Table("symtab", <<Defined(malloc)>>)>>), NoHeader>>)
Unsound == Elf(<<[Table("symtab", <<Defined(malloc)>>) EXCEPT !.sound = FALSE]>>)
Unreadable == [kind |-> "none", members |-> << >>]

SomeFiles == {User, Library, StaticLibrary, BrokenArchive, Unsound, Unreadable}
=============================================================================
