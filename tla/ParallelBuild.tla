---------------------------- MODULE ParallelBuild ----------------------------
(***************************************************************************)
(* DatabaseBuilder::build up to store_db: the number of threads is chosen, *)
(* the files found are cut into one chunk per thread, every thread parses  *)
(* the files of its chunk into a symbol table of its own, starting while   *)
(* the chunks of later threads are still being cut, and when all threads   *)
(* have ended their tables are merged in the order of the threads.         *)
(*                                                                         *)
(* A hash map that iterates in insertion order is a sequence of entries.   *)
(* A chunk, a list of consecutive file ids, is given by its two ends.      *)
(***************************************************************************)
EXTENDS Naturals, Sequences, Functions

CONSTANTS
  Names, MaxFiles, MaxSymbols, MaxSamples,  \* see SymbolTable
  HardwareThreads,   \* get_hardware_concurrency
  MinFilesPerThread  \* MINIMUM_FILES_PER_THREAD, 20 in the code

\* The code divides by both: get_hardware_concurrency may not return 0.
ASSUME ThreadsAssumption ==
  HardwareThreads \in Nat \ {0} /\ MinFilesPerThread \in Nat \ {0}

ASSUME BoundsAssumption == MaxFiles \in Nat /\ MaxSymbols \in Nat /\ MaxSamples \in Nat

VARIABLES
  files,       \* found_files, with what the parser finds in each
  thread_count,
  begin_index, \* where the next chunk begins
  chunks,      \* the chunk of every thread started so far, thread 0 first
  at,          \* at[t]: file_id of the file worker t is at
  done,        \* done[t]: number of symbols of that file it has stored
  symtables,   \* symtables[t]: the table of thread t
  merging,     \* the thread whose table is being merged
  entry,       \* number of its entries that are merged
  merged,      \* merged_symtable
  samples,     \* names given to the dictionary builder
  pc           \* where build is

vars == <<files, thread_count, begin_index, chunks, at, done, symtables,
          merging, entry, merged, samples, pc>>

workerVars == <<at, done, symtables>>
mergeVars == <<merging, entry, merged, samples>>

Table == INSTANCE SymbolTable WITH
  table   <- IF pc = "merged" THEN merged ELSE <<>>,
  samples <- IF pc = "merged" THEN samples ELSE <<>>,
  phase   <- CASE pc = "merged" -> "built" [] pc = "exited" -> "exited" [] OTHER -> "building"

-----------------------------------------------------------------------------
(* Helpers of the code *)

\* Mutant of ProperThreadCount: no minimum of one thread.
ThreadCountUnbounded(n) ==
  IF n \div HardwareThreads >= MinFilesPerThread THEN HardwareThreads
  ELSE n \div MinFilesPerThread

\* get_proper_thread_count_to_process_list
ProperThreadCount(n) ==
  IF n \div HardwareThreads >= MinFilesPerThread THEN HardwareThreads
  ELSE IF n \div MinFilesPerThread > 1 THEN n \div MinFilesPerThread ELSE 1

\* Mutant of ChunkSize: the remainder is lost.
ChunkSizeOfBase(i, n, count) == n \div count

\* The first files % threads chunks take one file more than the others.
ChunkSize(i, n, count) == (n \div count) + (IF i < n % count THEN 1 ELSE 0)

\* try_emplace(name), and the references pushed behind those already there.
PushRefs(tab, name, refs) ==
  IF \E i \in DOMAIN tab : tab[i].name = name
  THEN [i \in DOMAIN tab |->
          [name |-> tab[i].name,
           refs |-> tab[i].refs \o (IF tab[i].name = name THEN refs ELSE <<>>)]]
  ELSE Append(tab, [name |-> name, refs |-> refs])

FileAt(f) == files[f + 1]

\* The workers that run: threads are numbered from 0, as in symtables.
Started == 0 .. Len(chunks) - 1

Finished(t) == at[t] = chunks[t + 1].end

-----------------------------------------------------------------------------
Init ==
  /\ files \in UNION {[1 .. n -> Table!File] : n \in 0 .. MaxFiles}
  /\ thread_count = 0
  /\ begin_index = 0
  /\ chunks = <<>>
  /\ at = [t \in 0 .. HardwareThreads - 1 |-> 0]
  /\ done = [t \in 0 .. HardwareThreads - 1 |-> 0]
  /\ symtables = [t \in 0 .. HardwareThreads - 1 |-> <<>>]
  /\ merging = 0
  /\ entry = 0
  /\ merged = <<>>
  /\ samples = <<>>
  /\ pc = "count"

CountThreads ==
  /\ pc = "count"
  /\ thread_count' = ProperThreadCount(Len(files))
  /\ pc' = "launch"
  /\ UNCHANGED <<files, begin_index, chunks, workerVars, mergeVars>>

\* One turn of the loop of launch_threads: the thread runs from here on.
LaunchThread ==
  /\ pc = "launch"
  /\ Len(chunks) < thread_count
  /\ LET t   == Len(chunks)
         end == begin_index + ChunkSize(t, Len(files), thread_count)
     IN  /\ chunks' = Append(chunks, [begin |-> begin_index, end |-> end])
         /\ at' = [at EXCEPT ![t] = begin_index]
         /\ begin_index' = end
  /\ UNCHANGED <<files, thread_count, done, symtables, mergeVars, pc>>

\* Mutant of StoreSymbol: the callback holds the id of the worker's first file.
StoreSymbolStale(t) ==
  /\ pc = "launch"
  /\ t \in Started /\ ~ Finished(t)
  /\ done[t] < Len(FileAt(at[t]).symbols)
  /\ LET next == done[t] + 1 IN
       /\ symtables' = [symtables EXCEPT ![t] =
                          PushRefs(@, FileAt(at[t]).symbols[next],
                                   <<[file_id |-> chunks[t + 1].begin, metadata |-> next]>>)]
       /\ done' = [done EXCEPT ![t] = next]
  /\ UNCHANGED <<files, thread_count, begin_index, chunks, at, mergeVars, pc>>

\* The callback of worker t for the next symbol of its file.
StoreSymbol(t) ==
  /\ pc = "launch"
  /\ t \in Started /\ ~ Finished(t)
  /\ done[t] < Len(FileAt(at[t]).symbols)
  /\ LET next == done[t] + 1 IN
       /\ symtables' = [symtables EXCEPT ![t] =
                          PushRefs(@, FileAt(at[t]).symbols[next],
                                   <<[file_id |-> at[t], metadata |-> next]>>)]
       /\ done' = [done EXCEPT ![t] = next]
  /\ UNCHANGED <<files, thread_count, begin_index, chunks, at, mergeVars, pc>>

\* Mutant of NextFile: the next file starts at the symbol the last one ended at.
NextFileHere(t) ==
  /\ pc = "launch"
  /\ t \in Started /\ ~ Finished(t)
  /\ done[t] = Len(FileAt(at[t]).symbols)
  /\ ~ FileAt(at[t]).aborts
  /\ at' = [at EXCEPT ![t] = @ + 1]
  /\ UNCHANGED <<files, thread_count, begin_index, chunks, done, symtables, mergeVars, pc>>

\* The file is parsed to its end, or cannot be: the worker takes its next one.
NextFile(t) ==
  /\ pc = "launch"
  /\ t \in Started /\ ~ Finished(t)
  /\ done[t] = Len(FileAt(at[t]).symbols)
  /\ ~ FileAt(at[t]).aborts
  /\ at' = [at EXCEPT ![t] = @ + 1]
  /\ done' = [done EXCEPT ![t] = 0]
  /\ UNCHANGED <<files, thread_count, begin_index, chunks, symtables, mergeVars, pc>>

\* parse_archive calls exit in the thread that meets the broken member.
ExitProgram(t) ==
  /\ pc = "launch"
  /\ t \in Started /\ ~ Finished(t)
  /\ done[t] = Len(FileAt(at[t]).symbols)
  /\ FileAt(at[t]).aborts
  /\ pc' = "exited"
  /\ UNCHANGED <<files, thread_count, begin_index, chunks, workerVars, mergeVars>>

\* Mutant of JoinThreads: the threads are detached.
DetachThreads ==
  /\ pc = "launch"
  /\ Len(chunks) = thread_count
  /\ pc' = "merge"
  /\ UNCHANGED <<files, thread_count, begin_index, chunks, workerVars, mergeVars>>

\* launch_threads returns: destroying thread_list joins every thread.
JoinThreads ==
  /\ pc = "launch"
  /\ Len(chunks) = thread_count
  /\ \A t \in Started : Finished(t)
  /\ pc' = "merge"
  /\ UNCHANGED <<files, thread_count, begin_index, chunks, workerVars, mergeVars>>

\* Mutant of MergeEntry: the number of samples is compared before it is
\* incremented.
MergeEntryPostIncrement ==
  /\ pc = "merge"
  /\ merging < thread_count
  /\ entry < Len(symtables[merging])
  /\ LET sym == symtables[merging][entry + 1] IN
       /\ merged' = PushRefs(merged, sym.name, sym.refs)
       /\ samples' = IF Len(merged') > Len(merged) /\ Len(merged) <= MaxSamples
                     THEN Append(samples, sym.name) ELSE samples
  /\ entry' = entry + 1
  /\ UNCHANGED <<files, thread_count, begin_index, chunks, workerVars, merging, pc>>

MergeEntry ==
  /\ pc = "merge"
  /\ merging < thread_count
  /\ entry < Len(symtables[merging])
  /\ LET sym == symtables[merging][entry + 1] IN
       /\ merged' = PushRefs(merged, sym.name, sym.refs)
       /\ samples' = IF Len(merged') > Len(merged) /\ Len(merged') <= MaxSamples
                     THEN Append(samples, sym.name) ELSE samples
  /\ entry' = entry + 1
  /\ UNCHANGED <<files, thread_count, begin_index, chunks, workerVars, merging, pc>>

NextTable ==
  /\ pc = "merge"
  /\ merging < thread_count
  /\ entry = Len(symtables[merging])
  /\ merging' = merging + 1
  /\ entry' = 0
  /\ UNCHANGED <<files, thread_count, begin_index, chunks, workerVars, merged, samples, pc>>

FinishMerge ==
  /\ pc = "merge"
  /\ merging = thread_count
  /\ pc' = "merged"
  /\ UNCHANGED <<files, thread_count, begin_index, chunks, workerVars, mergeVars>>

Builder == CountThreads \/ LaunchThread \/ JoinThreads \/ MergeEntry \/ NextTable \/ FinishMerge

Worker(t) == StoreSymbol(t) \/ NextFile(t) \/ ExitProgram(t)

Next == Builder \/ \E t \in 0 .. HardwareThreads - 1 : Worker(t)

Spec == Init /\ [][Next]_vars

\* The scheduler lets every thread that can run do so again and again.
FairSpec ==
  /\ Spec
  /\ WF_vars(Builder)
  /\ \A t \in 0 .. HardwareThreads - 1 : WF_vars(Worker(t))

-----------------------------------------------------------------------------
(* Properties *)

Threads == 0 .. HardwareThreads - 1

Entry == [name : Names, refs : Seq(Table!Ref)]

TypeOK ==
  /\ files \in Seq(Table!File) /\ Len(files) <= MaxFiles
  /\ thread_count \in 0 .. HardwareThreads
  /\ pc # "count" => thread_count >= 1
  /\ begin_index \in Nat
  /\ chunks \in Seq([begin : Nat, end : Nat])
  /\ Len(chunks) <= thread_count
  /\ at \in [Threads -> Nat]
  /\ done \in [Threads -> Nat]
  /\ symtables \in [Threads -> Seq(Entry)]
  /\ merging \in 0 .. thread_count
  /\ entry \in Nat
  /\ merged \in Seq(Entry)
  /\ samples \in Seq(Names)
  /\ pc \in {"count", "launch", "merge", "merged", "exited"}

Split == pc # "count" /\ Len(chunks) = thread_count

\* When the chunks are cut, each file is in exactly one of them: none is
\* parsed twice, and the remainder of the division is not lost.
EveryFileOnce ==
  Split => \A f \in 0 .. Len(files) - 1 :
             \E i \in DOMAIN chunks :
               /\ chunks[i].begin <= f /\ f < chunks[i].end
               /\ \A j \in DOMAIN chunks :
                    chunks[j].begin <= f /\ f < chunks[j].end => j = i

\* A second thread is only started when each one gets at least
\* MINIMUM_FILES_PER_THREAD files, and no thread gets two files more than
\* another.
WorthItsThreads ==
  Split /\ thread_count > 1 =>
    \A i, j \in DOMAIN chunks :
      /\ chunks[i].end - chunks[i].begin >= MinFilesPerThread
      /\ chunks[i].end - chunks[i].begin <= (chunks[j].end - chunks[j].begin) + 1

\* What worker t has met so far.
Stored(t) ==
  {ref \in Table!Occurrences :
     /\ t \in Started
     /\ chunks[t + 1].begin <= ref.file_id
     /\ \/ ref.file_id < at[t]
        \/ ref.file_id = at[t] /\ ref.metadata <= done[t]}

\* While threads run and other ones are started, the table of each holds
\* exactly what it has met, in order.
WorkerTablesExact == \A t \in Threads : Table!IsTableOf(symtables[t], Stored(t))

\* What is merged: all of the tables before `merging`, and of that one the
\* names of its first entries.
MergedRefs ==
  {ref \in Table!Occurrences :
     \E t \in Started :
       /\ ref \in Stored(t)
       /\ \/ t < merging
          \/ t = merging /\ \E j \in 1 .. entry : symtables[t][j].name = Table!NameAt(ref)}

\* Merging never mixes up the references of two threads: at each step the
\* merged table is the one a single thread would have made of what is merged.
MergedTableExact == Table!IsTableOf(merged, MergedRefs)

\* The table handed to store_db is that of all the files, as if one thread
\* had parsed them one after the other.
TableExact == pc = "merged" => Table!IsTableOf(merged, Table!Occurrences)

\* The build comes to an end: it publishes a table or gives the program up.
BuildEnds == <>(pc \in {"merged", "exited"})

\* The threads implement the symbol table that is built in one step.
ImplementsSymbolTable == Table!Spec

(* The inductive invariant, in parts.                                       *)
Min2(a, b) == IF a <= b THEN a ELSE b

\* Where chunk i begins.
ChunkBegin(i) ==
  i * (Len(files) \div thread_count) + Min2(i, Len(files) % thread_count)

ChunksInv ==
  /\ pc = "count" => chunks = <<>> /\ begin_index = 0
  /\ pc # "count" =>
       /\ thread_count = ProperThreadCount(Len(files))
       /\ begin_index = ChunkBegin(Len(chunks))
       /\ \A i \in DOMAIN chunks :
            chunks[i] = [begin |-> ChunkBegin(i - 1), end |-> ChunkBegin(i)]
       /\ \A f \in 0 .. begin_index - 1 :
            \E i \in DOMAIN chunks : chunks[i].begin <= f /\ f < chunks[i].end

InChunk(t) ==
  /\ chunks[t + 1].begin <= at[t] /\ at[t] <= chunks[t + 1].end
  /\ IF Finished(t) THEN done[t] = 0 ELSE done[t] <= Len(FileAt(at[t]).symbols)

WorkerInv ==
  /\ \A t \in Started : InChunk(t)
  /\ \A t \in Threads \ Started : done[t] = 0 /\ symtables[t] = <<>>

MergeInv ==
  /\ pc \in {"merge", "merged"} => Split /\ \A t \in Started : Finished(t)
  /\ pc \in {"count", "launch", "exited"} => merging = 0 /\ entry = 0 /\ merged = <<>>
  /\ merging < thread_count => entry <= Len(symtables[merging])
  /\ merging = thread_count => entry = 0
  /\ pc = "merged" => merging = thread_count

\* The dictionary is trained with the first names of the merged table.
SamplesAreFirstNames ==
  /\ Len(samples) = Min2(Len(merged), MaxSamples)
  /\ \A i \in DOMAIN samples : samples[i] = merged[i].name

BuildInv ==
  /\ ChunksInv
  /\ WorkerInv
  /\ MergeInv
  /\ WorkerTablesExact
  /\ MergedTableExact
  /\ SamplesAreFirstNames
=============================================================================
