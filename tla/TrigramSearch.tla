---------------------------- MODULE TrigramSearch ----------------------------
(***************************************************************************)
(* Finding a symbol in a database: the tables that the build lays out, and *)
(* DatabaseReader::find_symbol_references, which turns the wanted name     *)
(* into trigrams, counts for every symbol the trigrams it shares with the  *)
(* query, keeps the symbols that share all of them, and resolves those to  *)
(* names, files and directories through offsets into blobs.                *)
(*                                                                         *)
(* A character is a number: 1..Letters are the lower-case letters,         *)
(* Letters+1..2*Letters the upper-case ones in the same order, 0 is NUL,   *)
(* and Slash is the separator of paths.  TrigramIndex shows that the table *)
(* of trigrams answers what Posting(code) says here, DatabaseFile that a   *)
(* search between two builds reads the blocks of one build, unchanged.     *)
(***************************************************************************)
EXTENDS Naturals, Sequences, SequencesExt, FiniteSets

CONSTANTS
    Letters,      \* the size of the alphabet
    Names,        \* the names symbols can have
    Queries,      \* the names that are searched for
    Paths,        \* the directories scanned: a sequence of names
    Files,        \* the files scanned: a sequence of [path_id, name], path_id from 0
    OffsetLimit,  \* what an offset or a length of 32 bits cannot hold: 2^32
    RefSize,      \* the bytes of a SymbolRef
    EntrySize,    \* the bytes of a FileTable, a PathIndex and a SymbolIndex
    MaxSymbols,   \* bound: distinct symbols in the database
    MaxRefs       \* bound: references in the database

Slash == 0 - 1

ASSUME NamesAssumption ==
    /\ Letters \in Nat \ {0}
    /\ Names \cup Queries \subseteq Seq(1..2 * Letters)
    /\ << >> \notin Names

\* The characters of paths: a file name holds no slash.
Chars == 1..2 * Letters \cup {Slash}

ASSUME FilesAssumption ==
    /\ Paths \in Seq(Seq(Chars))
    /\ Files \in Seq([path_id : 0..Len(Paths) - 1, name : Seq(Chars \ {Slash})])

ASSUME SizesAssumption ==
    /\ OffsetLimit \in Nat \ {0} /\ RefSize \in Nat \ {0}
    /\ EntrySize \in [file : Nat \ {0}, path : Nat \ {0}, symbol : Nat \ {0}]

ASSUME BoundsAssumption == MaxSymbols \in Nat /\ MaxRefs \in Nat

VARIABLES
    symtable,     \* the merged symbol table in the order it is iterated
    blobs,        \* symbol index, names and metadata as they grow
    pc,           \* "build", "idle", "count", "resolve", "answered", "refused" or "undefined"
    query,        \* the name searched for
    codes,        \* found_trigrams: those not looked up yet
    counts,       \* match_counts: symbol id -> shared trigrams
    candidates,   \* candidate_ids not resolved yet
    results       \* the lookup results so far

vars == << symtable, blobs, pc, query, codes, counts, candidates, results >>

Lower(c) == IF c > Letters THEN c - Letters ELSE c

At(word, i) == IF i \in 1..Len(word) THEN Lower(word[i]) ELSE 0

\* for_each_trigram, as the set that sort and unique leave of its calls: a
\* window of three over the word between two NULs on each side.
Trigrams(word) ==
    IF word = << >> THEN {}
    ELSE { << At(word, i), At(word, i + 1), At(word, i + 2) >> : i \in (0 - 1)..Len(word) }

(***************************************************************************)
(* The tables.                                                             *)
(***************************************************************************)
\* Offsets and sizes are sums that 32 bits hold.
Uint32(n) == n % OffsetLimit

\* A table without items: its index, its blob, the offset at which the next
\* item will start, and the bytes that an element of the blob and an entry of
\* the index take.
Table(unit, entry) ==
    [index |-> << >>, blob |-> << >>, next |-> 0, unit |-> unit, entry |-> entry]

\* An item behind the others, found by offset and length.
Lay(table, item) ==
    LET length == Uint32(Len(item) * table.unit)
    IN [ table EXCEPT !.index = Append(@, [offset |-> table.next, length |-> length]),
                      !.blob = @ \o item,
                      !.next = Uint32(@ + length) ]

\* All items, one after the other; an element is a character, of one byte.
LaidOut(names, entry) ==
    LET laid[n \in 0..Len(names)] ==
          IF n = 0 THEN Table(1, entry) ELSE Lay(laid[n - 1], names[n])
    IN laid[Len(names)]

FileNames == LaidOut([ f \in DOMAIN Files |-> Files[f].name ], EntrySize.file)

PathNames == LaidOut(Paths, EntrySize.path)

\* The stretch of a blob that entry i, counted from 0, stands for.
Stretch(table, i) ==
    LET e == table.index[i + 1]
        first == e.offset \div table.unit
    IN SubSeq(table.blob, first + 1, first + e.length \div table.unit)

\* The entries that were stored: compress is given the size of an index and
\* of a blob as a number of 32 bits, and stores no more than that.
Stored(table) == Uint32(Len(table.index) * table.entry) \div table.entry

\* All that entry i stands for was stored.
Readable(table, i) ==
    LET e == table.index[i + 1]
    IN /\ e.offset % table.unit = 0
       /\ e.offset + e.length <= Uint32(Len(table.blob) * table.unit)

Ids == 0..(Len(symtable) - 1)

NameOf(id) == Stretch(blobs.names, id)

RefsOf(id) == Stretch(blobs.metadata, id)

\* lookup_trigram: the ids on the posting list of code.
Posting(code) == { id \in Ids : code \in Trigrams(symtable[id + 1].name) }

\* A directory and a name joined by one slash.
Join(path, name) ==
    IF path # << >> /\ Last(path) # Slash THEN path \o << Slash >> \o name ELSE path \o name

\* A file whose directory was not stored is left with its name.
FullPath(file_id) ==
    LET path_id == Files[file_id + 1].path_id
        path == IF path_id < Stored(PathNames) THEN Stretch(PathNames, path_id) ELSE << >>
    IN Join(path, Stretch(FileNames, file_id))

Init ==
    /\ symtable = << >>
    /\ blobs = [names |-> Table(1, EntrySize.symbol),
                metadata |-> Table(RefSize, EntrySize.symbol)]
    /\ pc = "build"
    /\ query = << >>
    /\ codes = {}
    /\ counts = << >>
    /\ candidates = {}
    /\ results = {}

Refs == UNION { [ 1..n -> [file_id : 0..(Len(Files) - 1), is_defined : BOOLEAN] ] : n \in 1..MaxRefs }

\* Mutant of AddSymbol: the metadata offset does not move on.
AddSymbolHere ==
    /\ pc = "build"
    /\ Len(symtable) < MaxSymbols
    /\ \E name \in Names, refs \in Refs :
        /\ \A s \in Range(symtable) : s.name # name
        /\ Len(blobs.metadata.blob) + Len(refs) <= MaxRefs
        /\ symtable' = Append(symtable, [name |-> name, refs |-> refs])
        /\ blobs' = [names |-> Lay(blobs.names, name),
                     metadata |-> [Lay(blobs.metadata, refs) EXCEPT !.next = blobs.metadata.next]]
    /\ UNCHANGED << pc, query, codes, counts, candidates, results >>

\* One turn of the loop of build_symbol_index over the symbol table.
AddSymbol ==
    /\ pc = "build"
    /\ Len(symtable) < MaxSymbols
    /\ \E name \in Names, refs \in Refs :
        /\ \A s \in Range(symtable) : s.name # name
        /\ Len(blobs.metadata.blob) + Len(refs) <= MaxRefs
        /\ symtable' = Append(symtable, [name |-> name, refs |-> refs])
        /\ blobs' = [names |-> Lay(blobs.names, name),
                     metadata |-> Lay(blobs.metadata, refs)]
    /\ UNCHANGED << pc, query, codes, counts, candidates, results >>

Commit ==
    /\ pc = "build"
    /\ pc' = "idle"
    /\ UNCHANGED << symtable, blobs, query, codes, counts, candidates, results >>

(***************************************************************************)
(* The search.                                                             *)
(***************************************************************************)
\* A name without trigrams, that is the empty name, is refused.
Ask ==
    /\ pc = "idle"
    /\ query' \in Queries
    /\ codes' = Trigrams(query')
    /\ counts' = [ id \in {} |-> 0 ]
    /\ candidates' = {}
    /\ results' = {}
    /\ pc' = IF codes' = {} THEN "refused" ELSE "count"
    /\ UNCHANGED << symtable, blobs >>

\* One trigram is looked up and every id on its list is counted.
CountCode ==
    /\ pc = "count"
    /\ \E code \in codes :
        /\ codes' = codes \ {code}
        /\ counts' = [ id \in DOMAIN counts \union Posting(code) |->
                         (IF id \in DOMAIN counts THEN counts[id] ELSE 0)
                         + (IF id \in Posting(code) THEN 1 ELSE 0) ]
    /\ UNCHANGED << symtable, blobs, pc, query, candidates, results >>

\* Mutant of Verified: the count is compared with the length of the query,
\* not with the number of distinct trigrams.
VerifiedByLength(id) == counts[id] = Len(query) + 2

Verified(id) == counts[id] = Cardinality(Trigrams(query))

\* Only symbols that share every trigram of the query are looked at further.
PickCandidates ==
    /\ pc = "count"
    /\ codes = {}
    /\ candidates' = { id \in DOMAIN counts : Verified(id) }
    /\ pc' = IF candidates' = {} THEN "refused" ELSE "resolve"
    /\ UNCHANGED << symtable, blobs, query, codes, counts, results >>

\* Mutant of Wanted: a reference that does not define the symbol is kept.
WantedOrNot(name, ref) == name = query

\* What ignore_entry of main lets pass: the name compares equal and the
\* reference defines the symbol.
Wanted(name, ref) == name = query /\ ref.is_defined

\* A reference to a file that was not stored is passed over.
Taken(name, ref) == ref.file_id < Stored(FileNames) /\ Wanted(name, ref)

\* The loop over the references of a candidate.
Kept(name, refs) ==
    LET kept[n \in 0..Len(refs)] ==
          IF n = 0 THEN << >>
          ELSE IF Taken(name, refs[n]) THEN Append(kept[n - 1], refs[n]) ELSE kept[n - 1]
    IN kept[Len(refs)]

\* What is returned for candidate id.
Result(id) ==
    LET kept == Kept(NameOf(id), RefsOf(id))
    IN [ symbol_name |-> NameOf(id),
         references |-> [ i \in DOMAIN kept |-> FullPath(kept[i].file_id) ] ]

\* A candidate is passed over when its entry was not stored.
Passed(id) == id >= Stored(blobs.names)

\* All that resolving candidate id reads was stored.
Legible(id) ==
    \/ Passed(id)
    \/ /\ Readable(blobs.names, id)
       /\ Readable(blobs.metadata, id)
       /\ \A ref \in Range(RefsOf(id)) : Taken(NameOf(id), ref) =>
             LET path_id == Files[ref.file_id + 1].path_id
             IN /\ Readable(FileNames, ref.file_id)
                /\ path_id < Stored(PathNames) => Readable(PathNames, path_id)

\* One candidate becomes a result, with those of its references that are
\* wanted.  Its name is not compared with the query, so a result may be left
\* without any reference; an answer without any result is refused.
Resolve ==
    /\ pc = "resolve"
    /\ \E id \in candidates :
        /\ Legible(id)
        /\ results' = results \union (IF Passed(id) THEN {} ELSE {Result(id)})
        /\ candidates' = candidates \ {id}
    /\ pc' = IF candidates' # {} THEN "resolve"
             ELSE IF results' = {} THEN "refused" ELSE "answered"
    /\ UNCHANGED << symtable, blobs, query, codes, counts >>

\* A candidate that leads out of what was stored: no offset is checked, and
\* what the program does from there is undefined and not followed.
ResolveAstray ==
    /\ pc = "resolve"
    /\ \E id \in candidates : ~Legible(id)
    /\ pc' = "undefined"
    /\ UNCHANGED << symtable, blobs, query, codes, counts, candidates, results >>

\* The answer is printed and the program ends; another search may start.
Leave ==
    /\ pc \in {"answered", "refused", "undefined"}
    /\ pc' = "idle"
    /\ query' = << >>
    /\ codes' = {}
    /\ counts' = << >>
    /\ candidates' = {}
    /\ results' = {}
    /\ UNCHANGED << symtable, blobs >>

Next ==
    \/ AddSymbol \/ Commit
    \/ Ask \/ CountCode \/ PickCandidates \/ Resolve \/ ResolveAstray \/ Leave

Spec == Init /\ [][Next]_vars

(***************************************************************************)
(* Properties.                                                             *)
(***************************************************************************)
\* No size of the table reaches 2^32.
Fits(table) ==
    /\ Len(table.blob) * table.unit < OffsetLimit
    /\ Len(table.index) * table.entry < OffsetLimit

AllFit == Fits(blobs.names) /\ Fits(blobs.metadata) /\ Fits(FileNames) /\ Fits(PathNames)

\* Blocks of less than 2^32 bytes give every symbol its own name and its own
\* references back.
TablesRoundTrip ==
    (Fits(blobs.names) /\ Fits(blobs.metadata)) =>
        \A id \in Ids :
            /\ Readable(blobs.names, id) /\ Readable(blobs.metadata, id)
            /\ NameOf(id) = symtable[id + 1].name
            /\ RefsOf(id) = symtable[id + 1].refs

\* What the printed answer is made of: the file of each reference.
Printed == UNION { Range(r.references) : r \in results }

\* A file of the scan, as its directory and its name say.
PathOfFile(f) == Join(Paths[Files[f].path_id + 1], Files[f].name)

Expected(name) ==
    UNION { { PathOfFile(ref.file_id + 1) : ref \in { x \in Range(s.refs) : x.is_defined } } :
                s \in { x \in Range(symtable) : x.name = name } }

\* Of a database whose blocks are all smaller than 2^32 bytes, an answer
\* lists the full path of every file that defines the symbol of exactly the
\* name asked for, and of no other file, and nothing outside of the blocks is
\* read.  Names that share all trigrams with the query add nothing, and
\* neither do names that differ from it in case: their trigrams are the same,
\* so that "search is case-insensitive" (TrigramUtils.h), but StringComparator
\* compares the characters as they are.
AnswerIsExact ==
    AllFit => (pc = "answered" => Printed = Expected(query)) /\ pc # "undefined"

\* "Symbol not found" is said only when no symbol has the name, as long as
\* every symbol was stored.
NotFoundIsTrue ==
    (pc = "refused" /\ query # << >> /\ Stored(blobs.names) = Len(symtable)) =>
        \A s \in Range(symtable) : s.name # query

\* "step 3 below still does a direct name comparison before accepting a
\* candidate" (DatabaseReader.cpp): every result has the name asked for.
ResultsHaveTheName == \A r \in results : r.symbol_name = query
=============================================================================
