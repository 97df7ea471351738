---------------------------- MODULE DatabaseFile ----------------------------
(***************************************************************************)
(* The database file, the build that writes it (symfind -d) and a search   *)
(* that maps it, all at once and with no lock between them.                *)
(*                                                                         *)
(* A build truncates the file twice (DatabaseBuilder's constructor, then   *)
(* store_db), writes a header whose entries are all zero, appends the      *)
(* blocks, and writes the header again over the first one.  It may die     *)
(* between any two system calls.  A search maps the file and reads one     *)
(* block after the other, each through the header as it is in the file at  *)
(* that moment (DatabaseReader keeps a pointer into the mapping).          *)
(*                                                                         *)
(* Data: the file is a function from offsets to cells.  A cell remembers   *)
(* which build wrote it, the part of the file it is (0 for the header) and *)
(* the word or the piece of the block it holds.  A compressed block is as  *)
(* many cells as the profile of the build gives it, and the length it has  *)
(* uncompressed is taken equal to that.                                    *)
(***************************************************************************)
EXTENDS Naturals, Sequences, FiniteSets

CONSTANTS
    Profiles,         \* what the blocks of one build may measure: a set of functions on Blocks
    Usual,            \* one of them
    MaxEvents,        \* bound on builds, builds that are not Usual, and short writes together
    OffsetLimit       \* 2^32 in the code: FileWrapper::Offset_t is 32 bits wide

\* The blocks in the order store_db writes them.
Layout == << "conf", "dict", "file_index", "file_names", "path_index", "path_names",
             "symbol_index", "symbol_names", "symbol_metadata",
             "trigram_index", "trigram_postings" >>

Blocks == 1..Len(Layout)

Conf == 1
Dict == 2

TrigramIndex == 10

\* The four tables built in parallel, in the order their results are looked at.
Tables == 1..4

\* The blocks compressed with the trained dictionary.
WithDict == { b \in Blocks : Layout[b] \in {"file_names", "path_names", "symbol_names"} }

ASSUME ProfilesAssumption ==
    /\ Profiles \subseteq [Blocks -> Nat] /\ Usual \in Profiles
    /\ \A s \in Profiles : \A b \in Blocks \ {Dict} : s[b] > 0

ASSUME BoundsAssumption ==
    /\ MaxEvents \in Nat \ {0}
    /\ OffsetLimit \in Nat \ {0}

VARIABLES
    exists,   \* whether there is a file at the database path
    file,     \* its content
    pc,       \* where the build stands; "off" when none runs
    build,    \* the number of the build that runs or ran last
    sizes,    \* what the blocks of each build measure
    header,   \* store_db's db_hdr
    ftell,    \* store_db's write offset
    block,    \* the block being written
    at,       \* FileWrapper::write's own offset
    done,     \* cells of the buffer that are written
    short,    \* calls of pwrite so far that wrote less than asked
    built,    \* what became of each of the four std::async tasks
    result,   \* how the last build ended
    message,  \* whether that build left an error message
    search    \* the process that searches

fileVars  == << exists, file >>
writeVars == << header, ftell, block, at, done, short >>
vars == << exists, file, pc, build, sizes, header, ftell, block, at, done, short,
           built, result, message, search >>

\* Mutant of EntryAt: the header names the trigram index before the tables.
EntryAtReversed(b) ==
    IF b <= Dict THEN 1 + 2 * (b - 1)
    ELSE 5 + 3 * (Len(Layout) - b) + (IF b < TrigramIndex THEN 1 ELSE 0)

(***************************************************************************)
(* The layout of the header: one word for magic and version, then offset   *)
(* and length for the configuration and the dictionary, and offset,        *)
(* compressed and uncompressed length for every other block.  The trigram  *)
(* index has one word more, behind these three: its capacity.              *)
(***************************************************************************)
EntryAt(b) ==
    IF b <= Dict THEN 1 + 2 * (b - 1)
    ELSE 5 + 3 * (b - 3) + (IF b > TrigramIndex THEN 1 ELSE 0)

CapacityAt == EntryAt(TrigramIndex) + 3

HeaderSize == 6 + 3 * (Len(Layout) - 2)

NoEntries == [ b \in Blocks |-> [offset |-> 0, length |-> 0, raw |-> 0] ]

Cell(g, p, v) == [gen |-> g, part |-> p, val |-> v]

\* What word w of a header holds.  The capacity is the number of slots, so it
\* counts the same as the uncompressed index it is recorded with.
HeaderWord(h, w) ==
    IF w = 0 THEN 1
    ELSE IF w = CapacityAt THEN h[TrigramIndex].raw
    ELSE LET b == CHOOSE c \in Blocks : w \in EntryAt(c)..(EntryAt(c) + (IF c <= Dict THEN 1 ELSE 2))
         IN << h[b].offset, h[b].length, h[b].raw >>[w - EntryAt(b) + 1]

HeaderCell(h, w) == Cell(build, 0, HeaderWord(h, w))

Size == Cardinality(DOMAIN file)

\* A word of the header as the mapping shows it: the header lies in the first
\* page, whose bytes past the end of the file read as zero.
Word(w) == IF w \in DOMAIN file THEN file[w].val ELSE 0

Entry(b) == [ offset |-> Word(EntryAt(b)),
              length |-> Word(EntryAt(b) + 1),
              raw    |-> Word(EntryAt(b) + 2) ]

Span(b) == Entry(b).offset .. (Entry(b).offset + Entry(b).length - 1)

\* Entry(b) leads to exactly the bytes build g wrote for block b.
Whole(g, b) ==
    /\ Entry(b).length = sizes[g][b]
    /\ \A o \in Span(b) : o \in DOMAIN file /\ file[o] = Cell(g, b, o - Entry(b).offset)

(***************************************************************************)
(* The build.                                                              *)
(***************************************************************************)
\* The buffer that FileWrapper::write is given.
BufferSize == IF pc = "block" THEN sizes[build][block] ELSE HeaderSize

\* Mutant of BufferCell: the pointer into the buffer stays where it was after
\* a short write.
BufferCellFromStart(i) ==
    CASE pc = "stub"  -> HeaderCell(NoEntries, i - done)
      [] pc = "block" -> Cell(build, block, i - done)
      [] pc = "final" -> HeaderCell(header, i - done)

BufferCell(i) ==
    CASE pc = "stub"  -> HeaderCell(NoEntries, i)
      [] pc = "block" -> Cell(build, block, i)
      [] pc = "final" -> HeaderCell(header, i)

Writing == pc \in {"stub", "block", "final"}

Wrap(offset) == offset % OffsetLimit

Events == build + short + Cardinality({ g \in 1..build : sizes[g] # Usual })

Truncate == exists' = TRUE /\ file' = << >>

NothingBuilt == [ t \in Tables |-> "running" ]

NoSearch == [pc |-> "idle", size |-> 0, block |-> 1,
             got |-> [ b \in Blocks |-> 0 ], capacity |-> 0, quiet |-> FALSE]

Init ==
    /\ exists = FALSE
    /\ file = << >>
    /\ pc = "off"
    /\ build = 0
    /\ sizes = [ g \in 1..MaxEvents |-> [ b \in Blocks |-> 0 ] ]
    /\ header = NoEntries
    /\ ftell = 0
    /\ block = Conf
    /\ at = 0
    /\ done = 0
    /\ short = 0
    /\ built = NothingBuilt
    /\ result = "none"
    /\ message = FALSE
    /\ search = NoSearch

\* DatabaseBuilder's constructor opens the database read-write-truncate, and
\* goes on when that fails.
Construct ==
    /\ pc = "off"
    /\ Truncate \/ UNCHANGED fileVars
    /\ pc' = "parse"
    /\ build' = build + 1
    /\ \E s \in Profiles : /\ Events + (IF s = Usual THEN 1 ELSE 2) <= MaxEvents
                           /\ sizes' = [sizes EXCEPT ![build + 1] = s]
    /\ built' = NothingBuilt
    /\ result' = "none"
    /\ message' = FALSE
    /\ search' = [search EXCEPT !.quiet = FALSE]
    /\ UNCHANGED writeVars

\* A failed build returns false, with or without a message.
Fail(withMessage) ==
    /\ pc' = "off"
    /\ result' = "failed"
    /\ message' = withMessage

\* Mutant of OpenDatabase: the file is opened without being truncated.
OpenDatabaseInPlace ==
    /\ pc = "parse"
    /\ exists' = TRUE
    /\ pc' = "stub"
    /\ header' = NoEntries
    /\ ftell' = 0
    /\ at' = 0
    /\ done' = 0
    /\ UNCHANGED << file, build, sizes, block, short, built, result, message, search >>

\* The files are parsed and store_db opens the database a second time.
OpenDatabase ==
    /\ pc = "parse"
    /\ Truncate
    /\ pc' = "stub"
    /\ header' = NoEntries
    /\ ftell' = 0
    /\ at' = 0
    /\ done' = 0
    /\ UNCHANGED << build, sizes, block, short, built, result, message, search >>

OpenFails ==
    /\ pc = "parse"
    /\ Fail(TRUE)
    /\ UNCHANGED << exists, file, build, sizes, writeVars, built, search >>

\* One call of pwrite: n cells of the buffer go to the file in a row.  Only
\* the offset kept between two calls is 32 bits wide.  A call that EINTR
\* interrupts is repeated, which is a stuttering step here.
Pwrite ==
    /\ Writing
    /\ \E n \in 1..(BufferSize - done) :
        /\ n < BufferSize - done => Events < MaxEvents
        /\ short' = IF n < BufferSize - done THEN short + 1 ELSE short
        /\ file' = [ o \in DOMAIN file \union at..(at + n - 1) |->
                       IF o \in at..(at + n - 1) THEN BufferCell(done + o - at) ELSE file[o] ]
        /\ done' = done + n
        /\ at' = Wrap(at + n)
    /\ UNCHANGED << exists, pc, build, sizes, header, ftell, block, built, result, message, search >>

\* pwrite fails (no space, input/output error).  The header of zeros, the
\* configuration and the dictionary set a message; a commit_* function and
\* the last header return false and set none.
PwriteFails ==
    /\ Writing
    /\ done < BufferSize
    /\ Fail(pc = "stub" \/ (pc = "block" /\ block \in {Conf, Dict}))
    /\ UNCHANGED << exists, file, build, sizes, writeVars, built, search >>

Written == Writing /\ done = BufferSize

\* Mutant of StartBlock: the write goes one byte past the offset recorded.
StartBlockPast(b, o) ==
    /\ pc' = "block"
    /\ block' = b
    /\ header' = [header EXCEPT ![b] = [offset |-> o, length |-> sizes[build][b],
                                        raw |-> sizes[build][b]]]
    /\ ftell' = o
    /\ at' = Wrap(o + 1)
    /\ done' = 0

\* Mutant of StartBlock: the offset is recorded after the write.
StartBlockLate(b, o) ==
    /\ pc' = "block"
    /\ block' = b
    /\ header' = [header EXCEPT ![b] = [offset |-> o + sizes[build][b],
                                        length |-> sizes[build][b], raw |-> sizes[build][b]]]
    /\ ftell' = o
    /\ at' = o
    /\ done' = 0

\* write_database_buffer starts on block b at offset o, which db_hdr records.
StartBlock(b, o) ==
    /\ pc' = "block"
    /\ block' = b
    /\ header' = [header EXCEPT ![b] = [offset |-> o, length |-> sizes[build][b],
                                        raw |-> sizes[build][b]]]
    /\ ftell' = o
    /\ at' = o
    /\ done' = 0

StubDone ==
    /\ Written /\ pc = "stub"
    /\ StartBlock(Conf, Wrap(ftell + BufferSize))
    /\ UNCHANGED << exists, file, build, sizes, short, built, result, message, search >>

\* Without a DictionaryBuilder no dictionary is written and its entry stays zero.
ConfDone ==
    /\ Written /\ pc = "block" /\ block = Conf
    /\ IF sizes[build][Dict] > 0
       THEN StartBlock(Dict, Wrap(ftell + BufferSize))
       ELSE /\ pc' = "tables"
            /\ ftell' = Wrap(ftell + BufferSize)
            /\ UNCHANGED << header, block, at, done >>
    /\ UNCHANGED << exists, file, build, sizes, short, built, result, message, search >>

DictDone ==
    /\ Written /\ pc = "block" /\ block = Dict
    /\ pc' = "tables"
    /\ ftell' = Wrap(ftell + BufferSize)
    /\ UNCHANGED << exists, file, build, sizes, header, block, at, done, short,
                    built, result, message, search >>

\* One of the four tasks ends; compression may fail.
BuildTable(t) ==
    /\ pc = "tables"
    /\ built[t] = "running"
    /\ \E outcome \in {"ready", "failed"} : built' = [built EXCEPT ![t] = outcome]
    /\ UNCHANGED << exists, file, pc, build, sizes, writeVars, result, message, search >>

\* All four futures are waited for before any result is looked at.
Collected == pc = "tables" /\ \A t \in Tables : built[t] # "running"

TablesReady ==
    /\ Collected
    /\ \A t \in Tables : built[t] = "ready"
    /\ StartBlock(Dict + 1, ftell)
    /\ UNCHANGED << exists, file, build, sizes, short, built, result, message, search >>

TableFailed ==
    /\ Collected
    /\ \E t \in Tables : built[t] = "failed"
    /\ Fail(TRUE)
    /\ UNCHANGED << exists, file, build, sizes, writeVars, built, search >>

CommitNext ==
    /\ Written /\ pc = "block" /\ block > Dict
    /\ block + 1 \in Blocks
    /\ StartBlock(block + 1, Wrap(ftell + BufferSize))
    /\ UNCHANGED << exists, file, build, sizes, short, built, result, message, search >>

\* Mutant of CommitHeader: ftell is not set back to 0.
CommitHeaderAtEnd ==
    /\ Written /\ pc = "block" /\ block = Len(Layout)
    /\ pc' = "final"
    /\ ftell' = Wrap(ftell + BufferSize)
    /\ at' = ftell'
    /\ done' = 0
    /\ UNCHANGED << exists, file, build, sizes, header, block, short, built, result, message, search >>

\* The last block is in: the header is written again, now complete, at offset 0.
CommitHeader ==
    /\ Written /\ pc = "block" /\ block = Len(Layout)
    /\ pc' = "final"
    /\ ftell' = 0
    /\ at' = 0
    /\ done' = 0
    /\ UNCHANGED << exists, file, build, sizes, header, block, short, built, result, message, search >>

Succeed ==
    /\ Written /\ pc = "final"
    /\ pc' = "off"
    /\ result' = "ok"
    /\ UNCHANGED << exists, file, build, sizes, writeVars, built, message, search >>

\* The process ends anywhere: killed, or exit() in a thread that parses a file.
Die ==
    /\ pc # "off"
    /\ pc' = "off"
    /\ result' = "dead"
    /\ UNCHANGED << exists, file, build, sizes, writeVars, built, message, search >>

BuildStep ==
    \/ OpenDatabase
    \/ Pwrite
    \/ StubDone \/ ConfDone \/ DictDone
    \/ \E t \in Tables : BuildTable(t)
    \/ TablesReady \/ TableFailed
    \/ CommitNext \/ CommitHeader
    \/ Succeed

(***************************************************************************)
(* The search.  got[b] is what it decoded for block b: the number of the   *)
(* build that wrote the block, Nothing for an entry of length zero, or     *)
(* Garbage.                                                                *)
(***************************************************************************)
Nothing == 0
Garbage == MaxEvents + 1

Searching == search.pc \in {"header", "blocks"}

\* MappedFile::open takes the size once; mmap refuses an empty file.
OpenMap ==
    /\ search.pc = "idle"
    /\ search' = [NoSearch EXCEPT !.pc = IF exists /\ Size > 0 THEN "header" ELSE "refused",
                                  !.size = Size,
                                  !.quiet = (pc = "off")]

\* fopen, fstat or mmap fails whatever the file is: no descriptor, no memory,
\* no permission, an input/output error.
OpenMapFails ==
    /\ search.pc = "idle"
    /\ search' = [NoSearch EXCEPT !.pc = "unopened", !.quiet = (pc = "off")]

\* The pages of a file that was truncated after the mapping raise SIGBUS.
Gone == file = << >>

ReadHeader ==
    /\ search.pc = "header"
    /\ ~Gone
    /\ search' = [search EXCEPT !.pc = IF Word(0) = 1 THEN "blocks" ELSE "refused"]

InReach(b) == \A o \in Span(b) : o \in DOMAIN file /\ o < search.size

\* decompress_block gives back what build g compressed: the bytes are all
\* there, the output buffer is large enough, and the dictionary is the one
\* the block was compressed with.
Decodes(g, b) ==
    /\ Whole(g, b)
    /\ b > Dict => Entry(b).raw >= sizes[g][b]
    /\ b \in WithDict => search.got[Dict] = IF sizes[g][Dict] > 0 THEN g ELSE Nothing

Decodable(b) == \E g \in 1..build : Decodes(g, b)

\* The bytes are right and the output buffer is too small, as it is when the
\* last word of the entry is not written yet: an error, never wrong data.
TooSmall(b) == b > Dict /\ \E g \in 1..build : Whole(g, b) /\ Entry(b).raw < sizes[g][b]

\* The capacity of the trigram index is copied when the index is there.
Take(value) ==
    search' = [search EXCEPT !.got[search.block] = value,
                             !.capacity = IF search.block = TrigramIndex
                                          THEN Word(CapacityAt) ELSE @,
                             !.block = IF @ + 1 \in Blocks THEN @ + 1 ELSE @,
                             !.pc = IF search.block + 1 \in Blocks THEN "blocks" ELSE "served"]

AtBlock == search.pc = "blocks" /\ ~Gone

\* An entry of length zero decompresses to an empty table.
ReadNothing ==
    /\ AtBlock
    /\ Entry(search.block).length = 0
    /\ Take(Nothing)

ReadBlock ==
    /\ AtBlock
    /\ Entry(search.block).length > 0
    /\ InReach(search.block)
    /\ \E g \in 1..build : Decodes(g, search.block) /\ Take(g)

\* What else the bytes may decode to: something wrong, or an error for the
\* compressed blocks, or the page is not there any more.
ReadGarbage ==
    /\ AtBlock
    /\ Entry(search.block).length > 0
    /\ ~(InReach(search.block) /\ Decodable(search.block))
    /\ ~TooSmall(search.block)
    /\ Take(Garbage)

RefuseBlock ==
    /\ AtBlock
    /\ search.block > Dict
    /\ Entry(search.block).length > 0
    /\ ~(InReach(search.block) /\ Decodable(search.block))
    /\ search' = [search EXCEPT !.pc = "refused"]

BusError ==
    /\ Searching
    /\ Gone \/ (search.pc = "blocks" /\ ~InReach(search.block))
    /\ search' = [search EXCEPT !.pc = "killed"]

\* The process has ended; another search may start.
LeaveSearch ==
    /\ search.pc \in {"served", "unopened", "refused", "killed"}
    /\ search' = NoSearch

SearchStep ==
    /\ OpenMap \/ OpenMapFails \/ ReadHeader \/ ReadNothing \/ ReadBlock \/ ReadGarbage
         \/ RefuseBlock \/ BusError \/ LeaveSearch
    /\ UNCHANGED << exists, file, pc, build, sizes, writeVars, built, result, message >>

Next ==
    \/ Construct
    \/ BuildStep
    \/ OpenFails
    \/ PwriteFails
    \/ Die
    \/ SearchStep

Spec == Init /\ [][Next]_vars

(***************************************************************************)
(* Properties.                                                             *)
(***************************************************************************)
\* The variables have their types: the file has no hole, nothing is written
\* past the end of a buffer, and a search holds only what a build wrote.
TypeOK ==
    /\ exists \in BOOLEAN
    /\ DOMAIN file = 0..(Size - 1)
    /\ \A o \in DOMAIN file : /\ file[o].gen \in 1..build /\ file[o].part \in Blocks \union {0}
                              /\ file[o].val \in Nat
    /\ pc \in {"off", "parse", "stub", "block", "tables", "final"}
    /\ build \in 0..MaxEvents
    /\ \A g \in 1..build : sizes[g] \in Profiles
    /\ DOMAIN header = Blocks
    /\ ftell \in 0..(OffsetLimit - 1) /\ at \in 0..(OffsetLimit - 1)
    /\ block \in Blocks
    /\ Writing => done \in 0..BufferSize
    /\ short \in 0..MaxEvents
    /\ built \in [Tables -> {"running", "ready", "failed"}]
    /\ result \in {"none", "ok", "failed", "dead"}
    /\ message \in BOOLEAN
    /\ search.pc \in {"idle", "header", "blocks", "served", "unopened", "refused", "killed"}
    /\ search.block \in Blocks
    /\ search.got \in [Blocks -> 0..Garbage]
    /\ search.capacity \in Nat
    /\ search.quiet \in BOOLEAN

\* Where the blocks end that measure s, one after the other behind the header.
Ends(s) ==
    LET end[b \in 0..Len(Layout)] == IF b = 0 THEN HeaderSize ELSE end[b - 1] + s[b]
    IN end

\* What a build writes ends below the offset where 32 bits wrap.
Fits(g) == Ends(sizes[g])[Len(Layout)] <= OffsetLimit

AllFit == \A g \in 1..build : Fits(g)

\* At every moment, so wherever a build dies, a header entry in the file that
\* is not zero leads to the whole block of the build that wrote the entry: the
\* header of zeros first and the real one last (store_db) is what makes an
\* interrupted build harmless to a reader.
HeaderNeverRunsAhead ==
    AllFit => \A b \in Blocks :
        Entry(b).length > 0 => /\ EntryAt(b) + 1 \in DOMAIN file
                               /\ Whole(file[EntryAt(b) + 1].gen, b)

\* A build that reports success leaves a file with every one of its blocks
\* reachable through its own header.
SuccessIsWhole ==
    (result = "ok" /\ AllFit) =>
        \A b \in Blocks : Whole(build, b) /\ (b > Dict => Entry(b).raw = sizes[build][b])

\* A search during which no build runs, whatever the builds before it did and
\* wherever they died, is never killed and never decodes a wrong block; when
\* the last build succeeded and the system lets the search map the file, it is
\* served, and with that build's blocks only.
QuietSearchIsTrue ==
    (search.quiet /\ AllFit) =>
        /\ search.pc # "killed"
        /\ \A b \in Blocks : search.got[b] # Garbage
        /\ result = "ok" =>
            /\ search.pc # "refused"
            /\ search.pc = "served" =>
                \A b \in Blocks : search.got[b] = IF sizes[build][b] > 0 THEN build ELSE Nothing

\* When a quiet search holds the posting lists, it also holds the index that
\* leads to them with its right capacity, the symbol table and the names the
\* lists point into, of the same build, even if that build died while it wrote
\* the last header.
PostingsResolve ==
    (search.quiet /\ AllFit /\ search.pc = "served") =>
        LET postings == search.got[Len(Layout)]
        IN postings # Nothing =>
               /\ \A b \in Blocks \ {Dict} : search.got[b] = postings
               /\ search.capacity = sizes[postings][TrigramIndex]

\* Blocks never overwrite each other: but for the header and a truncation,
\* a byte that is in the file stays what it is.
BlocksNeverOverlap ==
    [][(AllFit /\ file' # << >>) =>
         \A o \in DOMAIN file : o >= HeaderSize => o \in DOMAIN file' /\ file'[o] = file[o]]_vars
=============================================================================
