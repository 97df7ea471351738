------------------------------ MODULE FreeRun ------------------------------
(***************************************************************************)
(* The run without a database, SymFinder::SymFinder: the files found are   *)
(* cut into chunks, one thread per chunk parses its files one by one, and  *)
(* prints the matches of each file when it has parsed it.  All threads     *)
(* insert into std::cout; what one call inserts stays together, what       *)
(* several calls insert may have that of other threads between it.         *)
(*                                                                         *)
(* A thread that meets a broken archive calls exit, which destroys the     *)
(* static objects, the cache of paths among them, while the other threads  *)
(* go on until the process is gone.                                        *)
(***************************************************************************)
EXTENDS ElfParser

CONSTANTS
  File,              \* what a file may hold
  MaxFiles,          \* bound on the number of files
  MaxListed,         \* bound on the number of matches in all files
  HardwareThreads,   \* get_hardware_concurrency
  MinFilesPerThread  \* MINIMUM_FILES_PER_THREAD, 20 in the code

ASSUME ThreadsAssumption ==
  HardwareThreads \in Nat \ {0} /\ MinFilesPerThread \in Nat \ {0}

ASSUME FileAssumption == File \subseteq FileType

ASSUME BoundsAssumption == MaxFiles \in Nat /\ MaxListed \in Nat

VARIABLES
  files,     \* found_files, with what each holds
  chunks,    \* the file ids of each thread
  launched,  \* the number of threads launched
  at,        \* at[t]: the place in its chunk thread t has come to
  doing,     \* doing[t]: "parse", "print", or it is in "exit"
  entries,   \* entries[t]: its parsed_symbol_entries
  printed,   \* printed[t]: how many insertions it has made for this file
  out,       \* what has been inserted into std::cout, with who did it
  pc,        \* the main thread: "count", "launch", "join", "time" or "ended"
  process    \* "running", "exiting", "exited", or "killed" by a signal

threadVars == <<at, doing, entries, printed>>
vars == <<files, chunks, launched, threadVars, out, pc, process>>

-----------------------------------------------------------------------------
(* Files and chunks *)

\* What the parser makes of each file that may occur.
Parsed == [f \in File |-> ParseSymtables(f)]

\* The symbols it hands over, if it comes to an end.
Matches(f) == IF Parsed[f].end = "ok" THEN Parsed[f].list ELSE << >>

\* get_proper_thread_count_to_process_list
ThreadCount(n) ==
  IF n \div HardwareThreads >= MinFilesPerThread THEN HardwareThreads
  ELSE IF n \div MinFilesPerThread > 1 THEN n \div MinFilesPerThread ELSE 1

\* Chunk i of compute_file_id_chunks, of n files for count threads: the
\* chunks before it, of which the first n % count have one file more.
Chunk(i, n, count) ==
  LET base == n \div count
      extra == n % count
      begin == i * base + (IF i < extra THEN i ELSE extra)
  IN  [k \in 1 .. base + (IF i < extra THEN 1 ELSE 0) |-> begin + k]

Threads == 1 .. launched
FileOf(t) == files[chunks[t][at[t]]]
AtFile(t) == t \in Threads /\ at[t] <= Len(chunks[t])
Running == process \in {"running", "exiting"}

\* What a thread inserts for its symbols: for each the path, ":\n", and the symbol.
Listing(path, symbols) ==
  [k \in 1 .. 3 * Len(symbols) |->
     CASE k % 3 = 1 -> <<"path", path>>
       [] k % 3 = 2 -> <<"colon", 0>>
       [] OTHER     -> <<"symbol", symbols[k \div 3]>>]

-----------------------------------------------------------------------------
Init ==
  /\ files \in {fs \in BoundedSeq(File, MaxFiles) :
                  Len(FlattenSeq([k \in DOMAIN fs |-> Matches(fs[k])])) <= MaxListed}
  /\ chunks = << >> /\ launched = 0
  /\ at = [t \in 1 .. HardwareThreads |-> 1]
  /\ doing = [t \in 1 .. HardwareThreads |-> "parse"]
  /\ entries = [t \in 1 .. HardwareThreads |-> << >>]
  /\ printed = [t \in 1 .. HardwareThreads |-> 0]
  /\ out = << >> /\ pc = "count" /\ process = "running"

\* All chunks are computed before the first thread is launched.
ComputeChunks ==
  LET n == Len(files)
      count == ThreadCount(n)
  IN  /\ Running /\ pc = "count"
      /\ pc' = "launch"
      /\ chunks' = [t \in 1 .. count |-> Chunk(t - 1, n, count)]
      /\ UNCHANGED <<files, launched, threadVars, out, process>>

LaunchThread ==
  /\ Running /\ pc = "launch"
  /\ launched' = launched + 1
  /\ pc' = IF launched' = Len(chunks) THEN "join" ELSE "launch"
  /\ UNCHANGED <<files, chunks, threadVars, out, process>>

Parsing(t) == AtFile(t) /\ Running /\ doing[t] = "parse"
Printing(t) == AtFile(t) /\ Running /\ doing[t] = "print"

\* The path that get_file_info_full_path gives may lead nowhere, once the cache
\* of paths may have been destroyed.
PathIsLost == process = "exiting"

EndOfParse(t) == Parsed[FileOf(t)].end

\* parse_symtables, with the callback that fills the list.
ParseFile(t) ==
  /\ Parsing(t) /\ EndOfParse(t) = "ok"
  /\ entries' = [entries EXCEPT ![t] = @ \o Parsed[FileOf(t)].list]
  /\ doing' = [doing EXCEPT ![t] = "print"]
  /\ UNCHANGED <<files, chunks, launched, at, printed, out, pc, process>>

\* Mutant of PassFile: the loop tries the file again.
PassFileHere(t) ==
  /\ Parsing(t) /\ (EndOfParse(t) = "failed" \/ PathIsLost)
  /\ UNCHANGED vars

\* A file that cannot be parsed: on to the next one.
PassFile(t) ==
  /\ Parsing(t) /\ (EndOfParse(t) = "failed" \/ PathIsLost)
  /\ at' = [at EXCEPT ![t] = @ + 1]
  /\ UNCHANGED <<files, chunks, launched, doing, entries, printed, out, pc, process>>

\* A broken archive: the thread never comes back from exit.
ExitProgram(t) ==
  /\ Parsing(t) /\ EndOfParse(t) = "exit"
  /\ doing' = [doing EXCEPT ![t] = "exit"]
  /\ process' = "exiting"
  /\ UNCHANGED <<files, chunks, launched, at, entries, printed, out, pc>>

\* A table that is not sound, or memory that is not the cache of paths any more.
Crash(t) ==
  /\ Parsing(t) /\ (EndOfParse(t) = "killed" \/ PathIsLost)
  /\ process' = "killed"
  /\ UNCHANGED <<files, chunks, launched, threadVars, out, pc>>

\* Mutant of Insert: each symbol comes before its path.
InsertBackwards(t) ==
  LET text == Reverse(Listing(chunks[t][at[t]], entries[t]))
  IN  /\ Printing(t) /\ printed[t] < Len(text)
      /\ out' = Append(out, [by |-> t, text |-> text[printed[t] + 1]])
      /\ printed' = [printed EXCEPT ![t] = @ + 1]
      /\ UNCHANGED <<files, chunks, launched, at, doing, entries, pc, process>>

\* One insertion into std::cout.
Insert(t) ==
  LET text == Listing(chunks[t][at[t]], entries[t])
  IN  /\ Printing(t) /\ printed[t] < Len(text)
      /\ out' = Append(out, [by |-> t, text |-> text[printed[t] + 1]])
      /\ printed' = [printed EXCEPT ![t] = @ + 1]
      /\ UNCHANGED <<files, chunks, launched, at, doing, entries, pc, process>>

\* The list is cleared for the next file.
NextFile(t) ==
  /\ Printing(t) /\ printed[t] = 3 * Len(entries[t])
  /\ doing' = [doing EXCEPT ![t] = "parse"]
  /\ entries' = [entries EXCEPT ![t] = << >>]
  /\ printed' = [printed EXCEPT ![t] = 0]
  /\ at' = [at EXCEPT ![t] = @ + 1]
  /\ UNCHANGED <<files, chunks, launched, out, pc, process>>

\* Mutant of JoinThreads: the constructor returns at once.
DetachThreads ==
  /\ Running /\ pc = "join"
  /\ pc' = "time"
  /\ UNCHANGED <<files, chunks, launched, threadVars, out, process>>

\* The list of threads is destroyed when the constructor returns.
JoinThreads ==
  /\ Running /\ pc = "join" /\ \A t \in Threads : ~ AtFile(t)
  /\ pc' = "time"
  /\ UNCHANGED <<files, chunks, launched, threadVars, out, process>>

\* print_elapsed_time of main, which then returns.
PrintTime ==
  /\ Running /\ pc = "time"
  /\ out' = Append(out, [by |-> 0, text |-> <<"time", 0>>])
  /\ pc' = "ended"
  /\ UNCHANGED <<files, chunks, launched, threadVars, process>>

\* The process is gone; no other thread takes a step after that.
FinishExit ==
  /\ process = "exiting"
  /\ process' = "exited"
  /\ UNCHANGED <<files, chunks, launched, threadVars, out, pc>>

Worker(t) ==
  \/ ParseFile(t) \/ PassFile(t) \/ ExitProgram(t) \/ Crash(t)
  \/ Insert(t) \/ NextFile(t)

Main == ComputeChunks \/ LaunchThread \/ JoinThreads \/ PrintTime

Next == Main \/ FinishExit \/ \E t \in Threads : Worker(t)

Spec == Init /\ [][Next]_vars

\* The scheduler runs every thread that can go on.
FairSpec ==
  /\ Spec
  /\ WF_vars(Main) /\ WF_vars(FinishExit)
  /\ \A t \in 1 .. HardwareThreads : WF_vars(t \in Threads /\ Worker(t))

-----------------------------------------------------------------------------
(* Properties *)

\* The symbols of a file, each as its member, section and place, and those of
\* them that are sought: in the tables of its ELF members.
Symbols(f) ==
  UNION {UNION {{<<m, s, k>> : k \in DOMAIN f.members[m].sections[s].symbols} :
                  s \in DOMAIN f.members[m].sections} : m \in DOMAIN f.members}

Sought(f) ==
  {p \in Symbols(f) :
     LET section == f.members[p[1]].sections[p[2]]
     IN  /\ f.members[p[1]].kind = "elf" /\ section.type \in Tables
         /\ Wanted(section.symbols[p[3]])}

\* p comes before q in the file.
Before(p, q) ==
  \/ p[1] < q[1]
  \/ p[1] = q[1] /\ p[2] < q[2]
  \/ p[1] = q[1] /\ p[2] = q[2] /\ p[3] < q[3]

\* The entries of list are those of the symbols at the places of S, each once
\* and in their order.
ListsPlaces(list, f, S) ==
  \E place \in [DOMAIN list -> S] :
    /\ S = {place[n] : n \in DOMAIN list}
    /\ \A m, n \in DOMAIN list : m < n => Before(place[m], place[n])
    /\ \A n \in DOMAIN list :
         LET section == f.members[place[n][1]].sections[place[n][2]]
         IN  list[n] = Entry(section.symbols[place[n][3]], section.type)

\* When a thread prints, its list has an entry for each symbol to be found in
\* the symbol tables of this file and of all its members, in their order, and
\* nothing else, be it of the file before (worker, parse_symtables).
EntriesAreWhole ==
  \A t \in Threads : Printing(t) => ListsPlaces(entries[t], FileOf(t), Sought(FileOf(t)))

\* What thread t has inserted into o, in the order in which it did.
InsertedBy(t, o) ==
  LET mine[n \in 0 .. Len(o)] ==
        IF n = 0 THEN << >>
        ELSE IF o[n].by = t THEN Append(mine[n - 1], o[n].text) ELSE mine[n - 1]
  IN  mine[Len(o)]

\* The listings of those files of a chunk, of all files fs, that are at one of
\* the places kept.
Listings(fs, chunk, kept) ==
  LET text[k \in 0 .. Len(chunk)] ==
        IF k = 0 THEN << >>
        ELSE IF k \in kept THEN text[k - 1] \o Listing(chunk[k], Matches(fs[chunk[k]]))
        ELSE text[k - 1]
  IN  text[Len(chunk)]

\* Each thread inserts the listings of its own files, in their order, with
\* nothing left out, repeated or left over from another file, however the
\* threads get in between each other.  Only once a thread has called exit may
\* another one leave files out, and of the archive that made it exit nothing
\* is listed (SymFinder.cpp, worker).
ThreadsPrintTheirShare ==
  \A t \in Threads : \E kept \in SUBSET DOMAIN chunks[t] :
    /\ process = "running" => kept = DOMAIN chunks[t]
    /\ IsPrefix(InsertedBy(t, out), Listings(files, chunks[t], kept))

\* The place of a file in a chunk.
Places(f) == {p \in Threads \X (1 .. Len(files)) :
                p[2] <= Len(chunks[p[1]]) /\ chunks[p[1]][p[2]] = f}

\* The elapsed time is printed last, when every file is in just one place of
\* one chunk, all threads have listed all of their files, and nobody else has
\* inserted anything.  After a thread has called exit it is never printed
\* (SymFinder::SymFinder, main).
TimeComesLast ==
  pc = "ended" =>
    /\ process = "running"
    /\ out # << >> /\ out[Len(out)].text = <<"time", 0>>
    /\ \A n \in 1 .. Len(out) - 1 : out[n].by \in Threads
    /\ \A f \in DOMAIN files : \E p \in Places(f) : Places(f) = {p}
    /\ \A t \in Threads : InsertedBy(t, out) = Listings(files, chunks[t], DOMAIN chunks[t])

\* A free run ends: the time is printed, a broken archive has made it exit, or
\* it has been killed.
FreeRunEnds == <>(pc = "ended" \/ process \in {"exited", "killed"})
=============================================================================
