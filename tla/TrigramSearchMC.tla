--------------------------- MODULE TrigramSearchMC ---------------------------
(* Two letters, names that share trigrams: 1 is a, 2 is b, 3 is A.          *)
EXTENDS TrigramSearch

a == 1
b == 2
A == 3

\* "aaa" and "aaaa" have the same trigrams, "A" and "a" differ in case only,
\* "ab" shares its ends with both.
MCNames == { <<a>>, <<A>>, <<a, b>>, <<a, a, a>>, <<a, a, a, a>> }

MCQueries == { << >>, <<a>>, <<a, b>>, <<b>>, <<a, a, a, a>> }

MCPaths == << <<Slash>>, <<Slash, a>> >>

MCFiles == << [path_id |-> 1, name |-> <<a, b>>], [path_id |-> 0, name |-> <<b>>] >>

\* With a limit of 7, all files and directories fit, and so do two symbols
\* with two references; three symbols, three references, and "aaa" with
\* "aaaa" do not.
MCEntrySize == [file |-> 3, path |-> 2, symbol |-> 3]
=============================================================================
