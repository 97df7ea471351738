----------------------------- MODULE SymbolTable -----------------------------
(***************************************************************************)
(* What building the symbol table promises, whatever threads it is built   *)
(* with: one entry per symbol name, holding a reference to every place the *)
(* name occurs at, and all of it in the order in which one thread would    *)
(* meet them.  ParallelBuild implements this module.                       *)
(***************************************************************************)
EXTENDS Naturals, Sequences, Functions

CONSTANTS
  Names,        \* the symbol names that occur
  MaxFiles,     \* bound on the number of files found
  MaxSymbols,   \* bound on the number of named symbols of one file
  MaxSamples    \* MAX_SYMBOL_NAME_SAMPLES, 0 when no dictionary is built

VARIABLES
  files,    \* the files found: the names of their symbols, and whether
            \* reading them ends the program
  phase,    \* "building", "built" or "exited"
  table,    \* the entries, each a name and its references
  samples   \* the names the compression dictionary is trained with

vars == <<files, phase, table, samples>>

\* A file libelf cannot parse has no symbols.  A file that aborts is an
\* archive with a member whose header cannot be read.
File == [symbols : UNION {[1 .. n -> Names] : n \in 0 .. MaxSymbols}, aborts : BOOLEAN]

FileAt(f) == files[f + 1]

\* A reference names its file and, standing for the metadata, which symbol
\* of that file it is.
Ref == [file_id : Nat, metadata : Nat]

NameAt(ref) == FileAt(ref.file_id).symbols[ref.metadata]

Before(r, s) ==
  \/ r.file_id < s.file_id
  \/ r.file_id = s.file_id /\ r.metadata < s.metadata

Occurrences ==
  {ref \in [file_id : 0 .. Len(files) - 1, metadata : 1 .. MaxSymbols] :
     ref.metadata <= Len(FileAt(ref.file_id).symbols)}

InOrder(refs) == \A k, l \in DOMAIN refs : k < l => Before(refs[k], refs[l])

\* tab is the table of the occurrences occ: every entry refers to all of
\* them that bear its name, in order, and so are the entries by their
\* first reference.
IsTableOf(tab, occ) ==
  /\ \A i \in DOMAIN tab :
       /\ tab[i].refs # <<>>
       /\ Range(tab[i].refs) = {ref \in occ : NameAt(ref) = tab[i].name}
       /\ InOrder(tab[i].refs)
  /\ \A ref \in occ : \E i \in DOMAIN tab : tab[i].name = NameAt(ref)
  /\ \A i, j \in DOMAIN tab : i < j =>
       /\ tab[i].name # tab[j].name
       /\ Before(tab[i].refs[1], tab[j].refs[1])

Init ==
  /\ files \in UNION {[1 .. n -> File] : n \in 0 .. MaxFiles}
  /\ phase = "building"
  /\ table = <<>>
  /\ samples = <<>>

\* The first MaxSamples names of the table are the dictionary's samples.
Publish ==
  /\ phase = "building"
  /\ phase' = "built"
  /\ IsTableOf(table', Occurrences)
  /\ Len(samples') = IF Len(table') < MaxSamples THEN Len(table') ELSE MaxSamples
  /\ \A i \in DOMAIN samples' : samples'[i] = table'[i].name
  /\ UNCHANGED files

\* A worker met an archive it gives the whole program up for.
GiveUp ==
  /\ phase = "building"
  /\ \E f \in DOMAIN files : files[f].aborts
  /\ phase' = "exited"
  /\ UNCHANGED <<files, table, samples>>

Next == Publish \/ GiveUp

Spec == Init /\ [][Next]_vars
=============================================================================
