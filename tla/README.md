# symfind in TLA+

symfind finds the ELF files that define a symbol. `symfind -m build_db` scans the file
system, parses every ELF file and archive with a pool of threads and writes a
compressed database; a search maps that database and looks a name up through
an index of trigrams; a run without a database parses the files and prints the
matches as it goes. This directory holds TLA+ modules of that program, TLC
configurations that check them on small instances, and proofs that TLAPS
checks for every value of the constants. `PROJECT.json` is the index: which
definition stands for which lines, what each run checks, which hazard of the
code each property is for, and for every property a mutation of the model
that breaks it.

## The system

| component | code | state | operations | who talks to it |
|---|---|---|---|---|
| command line | `config/OptionParser.cpp`, `Main.cpp` | options, running method | parse the arguments, choose build, search or free run | starts everything |
| configuration | `config/Config.cpp`, `JsonParser.cpp` | prune lists, paths, the configuration block | parse, validate, store, render the block | scan, build, reader |
| file system scan | `filesystem/FSScanner.cpp`, `DirWrapper.cpp`, `FSUtils.cpp` | files found, cache of directory paths, dictionary samples | recursive scan with pruning | gives files to build and free run |
| bind mounts | `filesystem/BindMount.cpp` | sorted list of bind mounts, moving index, flag set by a polling thread | rebuild, ask for a path | asked by the scan |
| ELF parsing | `elf/ElfParser.cpp` | none (libelf's) | parse a file, call back for every symbol; `exit` on a broken archive member | called by every worker |
| parallel build | `database/DatabaseBuilder.cpp`, `utils/Threading.h` | one symbol table per thread, the merged table | count threads, split files, launch, join, merge | hands the table to `store_db` |
| dictionary builder | `core/DictionaryBuilder.cpp` | samples | add a sample, train | scan and merge add, `store_db` trains |
| trigram index | `core/Trigram*.cpp`, `DatabaseBuilderUtils.cpp`, `DatabaseReader.cpp` | postings by trigram, open-addressed slots, posting array | collect, size, insert, look up | built by `store_db`, read by the search |
| database file | `DatabaseBuilder::store_db`, `DatabaseWriter.cpp`, `FileWrapper.cpp` | the file, header, write offset | truncate, write header, blocks, header | written by a build, mapped by searches of other processes |
| database reader | `DatabaseReader.cpp`, `MemoryMapFile.cpp`, `ZSTD*.cpp` | mapping, decompressed tables | open, read header and blocks, find a name, print | reads the file |
| free run | `core/SymFinder.cpp` | symbols of the current file, per thread | parse, print | shares `std::cout` between threads |

What is hard here: many threads fill tables that one thread then reads; any
thread may end the whole program, while the others go on for a moment; the
tree and its mounts change under the scan; the database is truncated before the work
that fills it has begun, and a build may die between any two of its system
calls; a search in another process maps the file with no lock and reads its
header in place; all indexes are offsets into blobs built by running sums; a
lookup ends only if the table has a free slot; different names can have the
same trigrams.

## The modules

**`InvertedIndex`** says what the trigram index promises: names are added and
numbered, the index is frozen, and asking for a trigram answers the ascending
list of the numbers of the names that contain it.

**`TrigramIndex`** is the real index. Building it has the steps of the code:
`AddWord` (`TrigramBuilder::add_word`), `StartTable` (collect and sort the
entries), `GrowCapacity` and `AllocateSlots` (`trigram_capacity_for_count`),
`TakeEntry`, `ProbeTaken`, `PlaceEntry` (the insertion loop of
`build_trigram_index`), `FinishTable`. A lookup takes `Lookup`, `WalkOn`,
`Hit` or `Miss` (`lookup_trigram`), one slot per step. The hash keeps its
multiplicative form with its width as a parameter, the load factor is a ratio
of two naturals, the initial capacity is a constant. Compression of the two
blocks is left out here; `DatabaseFile` has it.

**`SymbolTable`** says what building the symbol table promises: in one step,
the table a single pass over all files would make, and the dictionary samples,
or the exit of the program because of a broken archive.

**`ParallelBuild`** is the real build: `CountThreads`
(`get_proper_thread_count_to_process_list`), `LaunchThread` (one turn of the
loop of `launch_threads`, with its chunk), `StoreSymbol(t)` and `NextFile(t)`
(the callback and the loop of `worker`), `ExitProgram(t)` (`parse_archive`),
`JoinThreads` (the destructor of the thread list), `MergeEntry`, `NextTable`,
`FinishMerge` (`merge_symtables`). Threads run while later ones are still
being launched. A file is the sequence of names libelf finds in it, empty for
a file that cannot be parsed, with a flag for the archive that makes the
program exit. The map iterates in insertion order, as
`ankerl::unordered_dense::map` does when nothing is erased.

**`DatabaseFile`** has the file as a function from offsets to cells, the build
that writes it (`Construct` to `Succeed`, one action per decision of
`store_db` and one `Pwrite` per call of `pwrite`) and one search that maps it
(`OpenMap` to `LeaveSearch`), or cannot (`OpenMapFails`). A build may fail at any system call
(`OpenFails`, `PwriteFails`, `TableFailed`) and may die at any moment (`Die`,
which is also what `exit` in a parsing thread does). `pwrite` may write less
than asked. The header is written word by word so that a torn header is one of
the states: 33 words, with the capacity of the table of trigrams, which the
lookup takes from there, among the entries of the blocks. The pair magic and
version is one word, the totals and counts that no reader uses are left out. Blocks decode if the entry leads to exactly the
bytes of one build, the output is long enough and the dictionary is the right
one; otherwise they decode to garbage or to an error. Offsets wrap where
`Offset_t` does, between two calls of `pwrite`. `DatabaseFileMC` gives block
sizes for TLC.

**`TrigramSearch`** lays out the tables of symbols, names, references, files
and directories (`AddSymbol`, `Lay`) and runs `find_symbol_references` over
them: `Ask`, `CountCode` (one trigram looked up and counted), `PickCandidates`,
`Resolve` (one candidate to a result), `Leave`. Names are sequences of
letters in two cases, trigrams are taken as `for_each_trigram` takes them, with
two NULs on each side and in lower case. Lookups of one trigram are one step,
justified by `ImplementsIndex`. Only the default comparator is modelled.
Offsets, lengths and sizes are sums of 32 bits (`Uint32`, `OffsetLimit`), and
`compress` stores as much of a blob or an index as its wrapped size says. What
was not stored of an index is passed over (`Stored`, `Taken`, `Passed`); an
entry that leads out of a blob is followed into memory that is not the blob's
(`ResolveAstray`), which is where the model stops. `Fits` and `AllFit` say that
no size reaches the limit. The block of postings is under the same limit, which
`TrigramIndex` leaves out: below 2^32 bytes of postings, that is 2^30 of them,
its offsets do not wrap.

**`FileScan`** is `FSScanner::scan`. The stack holds a frame for each call of
`scan_fs`: its open directory, the path it read when it began, the entries it
has still to look at. `OpenRoot` and `RootFails` begin the scan; `EnterPruned`
and `Enter` are the beginning of a call; `FindFile`, `PassFile`, `PassDir`,
`PassExcluded`, `GiveUp`, `UseNoStream`, `PassUntyped` and `Descend` are what
one turn of its loop does with one entry; `Return` ends the call. Meanwhile
`Move` renames directories, as other processes may. Paths are sequences of
names, cut off at `PathLimit`. With `prune_bind_mounts` a call asks
`BindMount` for its path (`EnterAs`), which may make it rebuild the list first
(`RebuildList`, or `RebuildWithoutFile` when no descriptor is left for
`mountinfo`, then `EnterRebuilt`). `Faults` are system calls that fail for a
directory (`open`, `fstat`, `fdopendir`, the `readlink` of its path), or a file
system that gives no entry types; `FdLimit` is the number of descriptors the
process may hold. The same limit decides whether `/proc/mounts` can be read
(`MountsCanBeRead`): when it cannot, nothing counts as excluded. A path that
cannot be read is an empty string, whose last character the code asks for
(`EnterWithoutPath`); that is undefined and not followed. The pruning lists are constants: the
words that really compare equal (see `Startup`).

**`BindMount`** is the thread that polls `mountinfo` and the flag it shares with
the scan: `ChangeMounts` by others, `Wake` (poll returns) and `Announce` (the
flag is set) in the thread; `TakeFlag`, `Rebuild` and `AnswerRebuilt` in
`is_bind_mount`, so that the mounts may change between any two of them. A
`poll` that fails ends the program (`PollFails`, in `FileScan`, which knows of
the scan that this cuts short). The
list itself is `BindMountPaths`, which is empty because of the inverted guard
in `read_mount_entries`. `FileScan` extends this module, and a run of it has
both threads.

**`FileNames`** is `filename_has_extension`, over names that are sequences of
character codes: the rightmost match that is not part of a longer word decides.
`ExtensionIsExact` compares it with what the name of a library is: a stem, one
of `.so`, `.o` and `.a`, and a version or nothing.

**`DirPathList`** is the order of paths (`dir_path_cmp`) over character
sequences, and the search with a moving index that the pruning of paths and
the bind mounts use. Only the search from the beginning, that of `prunepaths`,
has a property: the list of bind mounts is always empty, so its moving index
never moves.

**`CommandLine`** is `parse_arguments`: an action per branch of its loop, and
`FinishArguments` for the defaults and checks behind it. `IsLegal` and
`Meaning` are the reference: what a command line says when it is read as a
whole, with no loop and no index. `IsLegal` follows the help text: every option
it offers, `-d` among them, with a value that it may have, one method, one
symbol. The code is not quite that strict nor that generous, and
`AcceptedIsLegal` names the difference: `Overlooked` lines, with a word after
`-m` that is no method or with an empty word, are accepted, and lines with `-d`
refused.

**`Startup`** is `main` around it, over several runs of the program:
`EditConfig` between runs, `Start`, `Arguments`, `EndEarly`, `OpenConfig`
(parse and validate), one action per turn of the loop of `extract_config`
(`StoreBool`, `RejectBool`, `StoreList`, `StorePath`), `FinishConfig` (the
configuration block, then the override of the scan path), `Scan`, and the
three endings `Build`, `Search` and `FreeRun`. `BreakString` and `Strings` are
recursive functions, one turn per character or word, as in the code. Texts are
sequences of letters, the name of a key is one letter in the block, and none of
a text's. What the scan, the build and the search do
inside is in the other modules; here they succeed or fail. The configuration
file is read in one step, so its changes between runs are all that matter.

**`ElfParser`** is `parse_symtables` as operators: a file as libelf decodes it
goes in, the entries handed to the callback and the way the parse ends come
out ("ok", "failed", "exit" at an archive member without a header, "killed" by
a table whose entry size is 0 or whose strings are not there). `Stored`,
`ParseElf` and `ParseArchive` are the loops over the symbols of a table, the
sections of a file and the members of an archive, each a recursive function
that takes one turn at a time. Names are not told apart but for the one that is
asked for and the empty one.

**`FreeRun`** is the run without a database, over such files: `ComputeChunks`,
`LaunchThread`, `ParseFile(t)`, `PassFile(t)`, `ExitProgram(t)`, `Crash(t)`,
`Insert(t)` (one call of `operator<<` on `std::cout`, which the library does
not split), `NextFile(t)`, `JoinThreads` and `PrintTime`. From the call of
`exit` to `FinishExit` the other threads go on, and since the cache of
directory paths is a static object that `exit` destroys, the path of their
next file may lead nowhere or its reading may kill the process (`PathIsLost`).
`FreeRunMC` gives six files. `EntriesAreWhole` compares the list of a thread
with the places of the symbols in the file, in their order, with no loop.

How they fit: `Startup` decides what is run and with which settings;
`FileScan` finds the files whose ids `ParallelBuild` and `FreeRun` cut into
chunks; `ElfParser` says what is in a file (for `ParallelBuild` that is the
sequence of its names); `ParallelBuild` produces the table that
`TrigramSearch` lays out and `TrigramIndex` indexes; `DatabaseFile` carries the blocks from one process to
the other; `InvertedIndex` and `SymbolTable` are the interfaces.

## What TLC checks

| run | question | bounds, and why they are enough |
|---|---|---|
| `trigram_index` | does every lookup answer its posting list, does the table implement `InvertedIndex`, do building and lookups end | two names over four codes, an initial capacity small enough for the table to grow, to fill to its load factor, to have collisions and to wrap around its end; a lookup of an absent code in the fullest table is the case at risk |
| `parallel_build` | has every file one thread, are the tables of workers and the published table exact, does the build implement `SymbolTable`, does it end | up to three files of up to two symbols of two names, two threads: no file, fewer files than threads, a remainder; the same name in one file, in two files of one thread, in files of two threads |
| `database_file` | what a search finds when no build runs, is an interrupted build harmless, is a successful one complete, do blocks overlap | two builds, so that a second one truncates and replaces what a first one, complete or not, has left; or one build with a short write anywhere in the block of two cells, or without a dictionary, or of a file one cell too long, which wraps at the offset limit (45: the header has 33 words); the search may fail to open the file; 1,635,550 states |
| `trigram_search` | is the printed answer exact, do offsets lead back to what was laid out, is "not found" true | databases of up to three symbols with up to three references in two files of two directories; names with equal trigram sets, names that differ in case, names that share trigrams; an offset limit of 7, under which two symbols of three bytes or two references of three bytes fit and three do not, nor do the seven letters of `aaa` and `aaaa` |
| `trigram_search_collision` | (violated) does every result have the name asked for | the same names |
| `file_scan` | is every file found that should be, at a path that leads or led to it, and nothing that is pruned; is every change of the mounts seen; does the scan end | all trees of five directories, two of which may have the same name, an ordinary mount and an excluded one, up to two troubles: renamings, changes of the mounts, no polling thread, a poll that fails, a directory that fails in one of five ways; two changes are needed for one to come during the rebuild for the other; descriptors and a path buffer that deep trees exceed; 701,571 states |
| `file_scan_bind_mount` | (violated) is nothing found in a bind mount | one directory is a bind mount, one trouble |
| `dir_path_list` | are a directory and what is under it together in the sorted list, is the lookup exact that starts at the beginning, which file names have an extension | all lists of up to three of six paths with a letter before and one behind the slash; all names of up to six of the characters of `.so`, `.o` and `.a`, a digit and one more: six are enough for `x.so.1` and `x.o.so` |
| `command_line` | which command lines are accepted and what they mean | all lines of up to five of fourteen words: five are needed for `-m free_run -s path symbol` |
| `startup` | is a change of the configuration told only when there is one, and always when it is of more than the NULs of the lists, do the lists hold the words | two runs (one to build, one to search) from eleven command lines, with twenty configurations that differ in one key, a space or a word |
| `startup_words` | (violated) are the lists just the words | one run |
| `free_run` | has the list of a thread just what the file holds, is every match printed once, in its order, and the time last, what is printed when one thread has called `exit`, does the run end | up to four files of six shapes (a program that only uses the symbol, a library with two tables, an archive, a broken archive, an unsound table, an unreadable file), three matches in all, over three threads: one thread has two files, two print at once while a third exits |

Three runs are violated: there the code and its own text disagree, as
"findings" says in detail.

- The first word of each pruning list begins with NUL characters and matches
  nothing (`EveryWordCounts`; `ListsHoldTheWords` holds but for the NULs).
- `find_symbol_references` no longer compares names in step 3, where the
  comment above step 2 says that it does (`ResultsHaveTheName`).
  `AnswerIsExact` holds nevertheless, because the comparator drops the
  references of such a result one by one; what is left is an empty result in
  place of "Symbol not found".

- Bind mounts are never recognised, because the guard behind the opening of
  `mountinfo` is inverted, so `prune_bind_mounts` prunes nothing
  (`BindMountsStayOut`). The flag between the two threads is right
  (`NoChangeIsMissed`); it only leads to a list that stays empty.

Four disagreements are stated by properties that hold, because these say what
the code does and name where it differs; "findings" lists them too:

- The search is not case-insensitive, although a comment says so: names that
  differ in case have the same trigrams, and the comparator drops them
  (`AnswerIsExact`).
- At the descriptor limit an excluded file system is scanned, because
  `/proc/mounts` cannot be opened and the answer is then "not excluded".
  `PrunedStaysOut` is stated for excluded file systems above that depth
  (`Judged`). With `FdLimit` 3 in place of 4 and without `Judged`, TLC finds the
  file: the root, a directory in it, and the excluded file system in that one
  hold the three descriptors. With 4 and a buffer of three names the
  directories that deep have a path that is cut off, and the property leaves
  them out for that reason too; with `FdLimit` 3 and `Judged` it holds as well.
- `-d` is refused though the help text offers it (`AcceptedIsLegal`): its branch
  goes on to the tests for a symbol and an unknown option.
- Any word is accepted after `-m`, because a bit test with 0 never succeeds
  (`AcceptedIsLegal`, `Overlooked`).

Other disagreements are part of the modules, since an action does what the
code does, and have no run of their own:

- `store_db` fails without a message when a commit fails (`PwriteFails`); the
  test of the failing build says that it must report why.
- A directory whose stream cannot be opened is used (`UseNoStream`); a comment
  says that it is ignored.
- A lack of file descriptors is passed over (`Opened`, `PassDir`); a disabled
  branch says that the administrator wants to know.
- The rebuild of the bind mounts reads from a null pointer when `mountinfo`
  cannot be opened, which is the only case in which it reads at all
  (`RebuildWithoutFile`).
- The training of the dictionary may fail, and its answer is ignored: the
  dictionary is then whatever the trainer left in its buffer, which both sides
  use.
- The moving index of `string_list_contains_dir_path` loses entries behind a
  path that is not in the list (`ContainsDirPath`).
- Two configurations with different lists may have the same block, as the list
  of `" ba"` is three NULs and then `ba`, and that of `"ba  "` four NULs before
  `ba` in one word: the first prunes by `ba` and the second does not, and the
  search says nothing (`NoticeIsExact` allows that, for lists of the same words).
- `--symbol-visibility` is read and then not used (`filter` in `Search` and
  `FreeRun`).

`startup` shows a subtle point that holds: the configuration block in a
database says which path was scanned, although `main` overrides the path after
the block is made, since the override is cleared for all but free runs. A
configured path other than the empty one never takes effect (`StorePath`).

### Fairness

`ParallelBuild!FairSpec`: the main thread and every worker take their next
step when they can (threads of one process under the operating system's
scheduler, no locks). `TrigramIndex!FairSpec`: one thread that runs.
`FileScan!FairSpec`: the scanning thread takes its next step; renamings and
changes of the mounts by others are bounded and never forced, and nothing is
asked of the polling thread, which the scan does not wait for.
`FreeRun!FairSpec`: the main thread and each worker take their next step, and
an `exit` that has begun ends.

## What is proved

`TrigramIndexProofs`, for every hash width, initial capacity, load factor below
one and set of codes: `TypeCorrect`; then `IndexInvariant`, the inductive
`IndexInv`. That every lookup is exact is not inductive: it needs that each
entry taken so far has a slot (`EntriesStored`), that the slot describes its
own stretch of the posting array (`SlotDescribesList`), that every slot on the
way from the home of an entry to its slot is taken by another code
(`ProbeChainsUnbroken`), that a probe under way has passed only taken slots
and a walk under way only slots of other codes. `LookupIsExact`,
`ChainsStayUnbroken` and `FreeSlotIsLeft` follow (the last from `SpaceInv`:
filled slots are no more than entries taken, and the load factor leaves one
over), and so do `FilledSlotsNeverChange` and `TableImplementsIndex`, the
refinement of `InvertedIndex`.

`ParallelBuildProofs`, for every number of files, threads, symbols and names:
`TypeCorrect`; `EachFileHasOneThread`, from the closed form of where chunk `i`
begins (`ChunkBegin`) and the arithmetic of quotient and remainder;
`ThreadsAreWorthIt`; `BuildInvariant`, whose invariant `BuildInv` says that
each worker's table is the table of exactly the symbols it has stored and the
merged table that of the entries merged, in the order of threads and files;
`WorkersStoreExactly`, `MergeIsExact` and `PublishedTableIsExact`; and
`ThreadsImplementSymbolTable`, the refinement.

`DatabaseFileProofs`, for all sizes of blocks, any number of builds and short
writes and any width of an offset: the invariant `IInv`. Of the properties only
what a header entry leads to is close to inductive; why it stays so is that the
file is at every moment a prefix of what one build writes, in which some first
words of the header are those of the complete one, and these only when all
blocks are there (`IsSomeImage`, `FileInv`); `Progress` says how far the build has
got for each of its program counters, and `SearchInv` what a search that no
build runs beside has read. The lemmas say what one `pwrite`, whole or short, makes of
such an image (`StubWrites` and its neighbours). From it follow `HeaderIsSafe`,
`SuccessLeavesAll`, `QuietSearchServed`, `PostingsHaveTheirTables` and, as an
action property, `BlocksStay`. They are stated, like the properties, for builds
that end below the offset limit (`AllFit`): beyond it blocks do overwrite each
other, and a run has such a build.

`TrigramSearchProofs`, for every alphabet, all names and queries, every scan,
any number of symbols and references and any width of an offset: `IInv` says
that names and references lie in their blobs one after the other, where each
entry says, as long as the blob and the index are below the limit (`TablesInv`,
`IsLaid`; what is below it after one more item was below it before, `LayFits`),
that the count of a symbol is the number of trigrams it shares with those looked
up so far (`CountInv`) and that every symbol of the name asked for that was
stored is still a candidate or already a result (`ResultInv`).
`BlocksRoundTrip` and `ExactAnswers` follow, the latter for databases all of
whose blocks are below the limit (`AllFit`): there nothing is passed over
(`NonePassed`) and no entry leads astray. `NotFoundTold` asks only that all
symbols were stored.

`FileScanProofs`, for every tree and configuration and any number of troubles:
`ChangesAreNotMissed`. Every step of `FileScan` is a step of
`BindMount` or leaves the flag alone (`StepsAreFlagSteps`), and each keeps
`FlagInv`, which adds to `NoChangeIsMissed` that poll never tells of more
changes than there were: without that a further change could look as if it had
been told already. Then `TypeCorrect` and `RecordedPathsAreReal`, from
`ScanInv`: the path of every call on the stack, and of every file found, is one
that its directory has had (`StackInv`, `FoundInv`), and until something is
renamed each call is for a child of the directory below it (`Nested`), so that
no directory has two calls because the tree has no loop (`NoLoop`).
`PrunedStaysOutside` adds `PruneInv`: a call for a directory that is settled (it
and those above it keep their names) has passed every setting that could rule it
out, and the path it has read leads to no other settled directory, because the
path of a directory determines it (`PathIsUnique`). `EverythingIsFound` adds
`CallsInv` and `FindInv`, which sort the directories that are due at every
moment: one that is `Ahead` has an entry on its way that some call has still to
look at, and none of its files is found; one that is `Open` has one call, which
has found the files it has passed and no others; of any other each file is found
once (`Told`). A step moves a directory from one class to the next, and
what other processes rename is on the way to none that is settled (`MoveTold`).
Both are about directories whose path fits in the buffer and is not what a
cut path may look like (`Legible`): a cut path may be that of a directory
elsewhere. `PrunedStaysOutside` is further about directories that are `Judged`:
while nothing on the way is renamed there are as many descriptors held as the
directory is deep (`Nested`), so one is left to read what is mounted.

The same module, of `DirPathList`, for all paths and lists of any length: `dir_path_cmp` is
the order of a dictionary whose alphabet begins with the end of the path and
the slash (`CmpIsOrder`), which makes it transitive, and what stands between a
directory and a path under it is under it too (`BetweenIsUnder`); hence
`SortKeepsSubtreesTogether`, and `PruningIsExact`. `TrackingIsExact` is about
the names of files: the rightmost match decides as well as any
(`RightmostDecides`), because what follows a match further left contains what
follows the rightmost.

`StartupProofs`, of `CommandLine`, for command lines of every length and any words:
`LineReadRight`, whose invariant `CommandInv` says of the words before the next
one that nothing in them is illegal (`LegalBefore`) and that the options are
what they mean (`MeansBefore`), and that the next word is not the value of the
last option (`Boundary`). A step passes one word or an option with its value,
and `PassWord` and `PassOption` say what that adds to the words of each kind. Of
a refusal it has to be shown that no continuation could make the line legal. At
the end what has been read is the line (`AllRead`), from which
`MeantAsSaid` follows. The invariant tells the lines that are taken by what the
code lets pass (`IsTaken`); `TakenIsLegal` shows that these are the legal and
the overlooked ones without `-d`, and so `AcceptedAreLegal`.

The same module, of `Startup`, for texts and files of any length, any letters and any number of
runs. Two loops go over texts: `break_string`, and a reader of the
configuration block who goes from NUL to NUL. Both are followed by `Reads`: a list of words and a
last one are the words of the text so far. What one more character does to the
words of a text is said once, with their places (`NewPlace`, `LongerPlace`), and
used for both (`ReadsMark`, `ReadsLetter`). A word that `break_string` makes may
have NULs at its front and nowhere else (`FrontedWord`), so it is read
from the block as one word without them, or as none (`ReadsWord`). Hence
`BreakStringReads`; that it makes no difference whether the text or the list is
changed to upper case (`UpperBroken`); and, since a text has one list of words
(`OneListOfWords`), that the block of a list tells its words
(`BlockTellsWords`). `BlockTellsSettings` takes a block apart from behind, a key
at a time: settings with the same block differ in no more than the NULs of their
lists. The invariant `StartupInv` is `CommandInv`, that only a free run keeps a
path to scan (`ScanPathInv`), that each list holds the words of its item once that
is read and is empty before (`ConfigInv`), and that the block of a run which builds or
searches, and of a complete database, is that of the settings used
(`BlockInv`): for that the path must not be overridden behind the block, which
is where a mistake in `parse_arguments` would show in a search of a later run. `ListsHold` and
`NoticeExact` follow.

`FreeRunProofs`, for any files (with sections, members and symbols in any
number), any name asked for and any numbers of files and threads. What
`parse_symtables` makes of a file is proved first: `ParserListsAll` says
that the list of a file which ends well holds an entry for each of its symbols that is
sought, in the order of sections or members and symbols, and nothing else. It goes loop by
loop (a table, the sections, the members), each with what it has listed
after so many turns. Then the invariant `IInv`: the chunks are those of the closed form
once they are computed (`SplitInv`); a thread that prints holds
the whole list of its file, and one that looks for the next file an empty one (`WorkerInv`),
which is where a list that is not cleared would show; while the
process is ending one thread is in `exit`, so that it never comes to the end of its chunk and
the main thread cannot pass its join (`RunInv`); nobody but
threads inserts before the time (`OutInv`); and what a thread has inserted is
the listings of files of its chunk in their order, all of them while nobody has called
`exit`, and the beginning of the one it is at (`ShareInv`). An insertion of
another thread leaves the insertions of this one as they were; one of its own
makes its beginning one longer (`OneMoreInsertion`), and the last of a file makes the
listing whole (`OneMoreListing`). `EntriesWhole`, `ShareIsPrinted` and
`TimeIsLast` follow; the last needs that each file has one place in one chunk
(`OnePlaceEach`, from `OneShareEach`), so that every match is printed just once.

The assumptions are named in the modules. `ThreadsAssumption` asks
for at least one hardware thread: `hardware_concurrency()` may return 0, and
the code then divides by it. `ProfilesAssumption` says that every compressed block
but the dictionary has bytes, `FilesAssumption` that a file has one of the
directories of the scan and no slash in its name, `ScanAssumption` that the
tree is finite and its root one of the directories, that a file system type is
compared for mount points only, and that the faults are those the actions know,
`QueryAssumption` that a name is asked for (the command line refuses the empty
one) and `FileAssumption` that a file is one libelf may decode.
`ConfigsAssumption` says that a configuration has a key once, which JSON
objects do. `LettersAssumption` is an abstraction: no text has the
name of a key or the character 0 as a letter. So `NoticeExact` does not speak of a list one of
whose words is the name of the next key, nor of the escape of the character 0;
the others only say what is a number or a sequence of words.

`NumberLemmas` is what the proofs by induction rest on. The theorems of
the library take an operator, which the provers cannot instantiate, so
`InductiveSetHasAll` states induction for a set, and is itself proved from the
fact that a finite set has no injection into a proper part of it;
`LeastElement`, `LoopDefined` (a recursive function over an interval exists) and
`AgreeUpTo` (two loops that take the same turns agree) come from it. Its second
half is the division of files among threads, which the build and the free run
share (`Threading.h`): the number of threads, and that the shares tile the list
(`SharesTile`, `OneShareEach`). That is why loops are recursive functions in the modules with proofs: the folds of the
community modules, `SelectSeq` and `FlattenSeq` cannot be unfolded by the
provers.

Only model-checked: all liveness (the prover has no rules for fairness here).
Three properties that the code breaks have a run that shows it and, of course,
no theorem.

## Not modelled

- Decoding of ELF tables, zstd, JSON, RE2 and rapidfuzz: libraries. What they
  answer is a constant or a choice.
- The regex and fuzzy comparators; `main` says that they do not work yet.
- What is in `mountinfo`: with the guard as it is, no line of it is parsed
  (`BindMount.cpp` from line 92 on).
- In `ParallelBuild` and `DatabaseFile` a broken archive ends the program at
  once. What other threads do until then reaches nobody: they write to tables
  of their own, and the thread that calls `exit` is never joined. A crash in
  place of the exit is the same to the file (`Die`).
- Tables with symbols or names beyond their end, which nobody checks for: what
  is read then is libelf's memory.
- The rest of `DirWrapper`, `FileWrapper` and `JsonParser`: accessors, time
  stamps, and functions that nobody calls (`read`, `seek`, `tellp`,
  `get_file_path`).
- What a program does with an offset, path or stream that leads nowhere: the
  model has the step to it and ends there.
- Failing calls of libelf within a table (`gelf_getsym`, `elf_getdata`), and
  demangling, which may give two symbols one name or none.
- Files that appear or vanish during a scan, and changes of directories other
  than renaming.
- Two builds at once, and a power failure after a build: the code makes no
  promise for either.
- `Timer`, `Singleton`, `Expected` and the time stamps of `DirWrapper` keep no
  state that a property is about.

## Plan

The modules above were written in the order of what can go wrong: index,
build, file, search, scan, then configuration and output. Every safety and
action property that a run checks and the code keeps is proved. What would come
next is the parsing of `mountinfo` and the choice of the bind mounts, should
the guard be put right, and the block of a configuration with the characters of
its keys, without `LettersAssumption`.
