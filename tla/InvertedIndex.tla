---------------------------- MODULE InvertedIndex ----------------------------
(***************************************************************************)
(* What the trigram index promises, whatever table it is kept in.  Names   *)
(* are added one after the other and numbered from 0; once the index is    *)
(* frozen, asking for a trigram answers the ascending list of the numbers  *)
(* of the names that contain it, each number once.  TrigramIndex           *)
(* implements this module with the open-addressed table of the database.   *)
(***************************************************************************)
EXTENDS Naturals, Sequences, Functions

CONSTANTS
  Codes,      \* the trigram codes that occur
  NoCode,     \* no trigram is being asked for
  MaxWords    \* bound on the number of names

VARIABLES
  words,      \* the names, each as the set of its trigram codes
  phase,      \* "open", "frozen", "asked" or "answered"
  query,      \* the trigram asked for, or NoCode
  answer      \* the list answered last

vars == <<words, phase, query, answer>>

\* The numbers of the names of ws that contain code.
IdsWith(ws, code) == {i \in 0 .. Len(ws) - 1 : code \in ws[i + 1]}

StrictlyAscending(s) == \A i, j \in 1 .. Len(s) : i < j => s[i] < s[j]

\* list is the posting list of code: every number once, in ascending order.
IsPostingList(list, ws, code) ==
  /\ Range(list) = IdsWith(ws, code)
  /\ StrictlyAscending(list)

Init ==
  /\ words = <<>>
  /\ phase = "open"
  /\ query = NoCode
  /\ answer = <<>>

AddWord ==
  /\ phase = "open"
  /\ Len(words) < MaxWords
  /\ \E w \in SUBSET Codes : words' = Append(words, w)
  /\ UNCHANGED <<phase, query, answer>>

Freeze ==
  /\ phase = "open"
  /\ phase' = "frozen"
  /\ UNCHANGED <<words, query, answer>>

Ask ==
  /\ phase = "frozen"
  /\ phase' = "asked"
  /\ query' \in Codes
  /\ UNCHANGED <<words, answer>>

Reply ==
  /\ phase = "asked"
  /\ phase' = "answered"
  /\ IsPostingList(answer', words, query)
  /\ UNCHANGED <<words, query>>

Close ==
  /\ phase = "answered"
  /\ phase' = "frozen"
  /\ query' = NoCode
  /\ UNCHANGED <<words, answer>>

Next == AddWord \/ Freeze \/ Ask \/ Reply \/ Close

Spec == Init /\ [][Next]_vars
=============================================================================
