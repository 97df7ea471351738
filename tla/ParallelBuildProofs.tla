------------------------- MODULE ParallelBuildProofs -------------------------
(***************************************************************************)
(* For every number of files, threads and symbols: the chunks cut the list *)
(* of files, the workers' tables and the merged one are those of a single  *)
(* thread, and ParallelBuild implements SymbolTable.                       *)
(***************************************************************************)
EXTENDS ParallelBuild, NumberLemmas

-----------------------------------------------------------------------------
(* Arithmetic of the chunks *)

\* get_proper_thread_count_to_process_list returns between one thread and
\* as many as the hardware has, and files enough for each unless it is one.
LEMMA ThreadCountInRange ==
  ASSUME NEW n \in Nat
  PROVE  /\ ProperThreadCount(n) \in 1 .. HardwareThreads
         /\ ProperThreadCount(n) > 1 =>
              n \div ProperThreadCount(n) >= MinFilesPerThread
<1>1. HardwareThreads \in Nat \ {0} /\ MinFilesPerThread \in Nat \ {0}
  BY ThreadsAssumption
<1> QED BY <1>1, ThreadCountRange DEF ProperThreadCount

\* Chunk i ends where chunk i + 1 begins, the first begins at 0 and the
\* last ends at the number of files.
LEMMA ChunksTile ==
  ASSUME Len(files) \in Nat, thread_count \in Nat \ {0}
  PROVE  /\ ChunkBegin(0) = 0
         /\ ChunkBegin(thread_count) = Len(files)
         /\ \A i \in Nat :
              /\ ChunkBegin(i) \in Nat
              /\ ChunkBegin(i + 1) = ChunkBegin(i) + ChunkSize(i, Len(files), thread_count)
              /\ \A j \in Nat : i <= j => ChunkBegin(i) <= ChunkBegin(j)
              /\ ChunkSize(i, Len(files), thread_count) \in Nat
              /\ ChunkSize(i, Len(files), thread_count)
                   \in {Len(files) \div thread_count, (Len(files) \div thread_count) + 1}
<1>1. \A i : ChunkBegin(i) = ShareBegin(i, Len(files), thread_count)
  BY DEF ChunkBegin, ShareBegin, Min2
<1>2. \A i : ChunkSize(i, Len(files), thread_count) = ShareSize(i, Len(files), thread_count)
  BY DEF ChunkSize, ShareSize
<1>3. Len(files) \div thread_count \in Nat
  BY DivMod
<1>4. \A i \in Nat : ChunkSize(i, Len(files), thread_count)
                       \in {Len(files) \div thread_count, (Len(files) \div thread_count) + 1}
  BY <1>3 DEF ChunkSize
<1>5. PICK n \in Nat : n = Len(files)
  OBVIOUS
<1>6. PICK d \in Nat \ {0} : d = thread_count
  OBVIOUS
<1>7. /\ ShareBegin(0, n, d) = 0
      /\ ShareBegin(d, n, d) = n
      /\ \A i \in Nat :
           /\ ShareBegin(i, n, d) \in Nat
           /\ ShareSize(i, n, d) \in Nat
           /\ ShareBegin(i + 1, n, d) = ShareBegin(i, n, d) + ShareSize(i, n, d)
           /\ \A j \in Nat : i <= j => ShareBegin(i, n, d) <= ShareBegin(j, n, d)
  BY SharesTile
<1>8. /\ \A i \in Nat : ChunkBegin(i) = ShareBegin(i, n, d)
      /\ \A i \in Nat : ChunkSize(i, n, d) = ShareSize(i, n, d)
  BY <1>1, <1>2, <1>5, <1>6
<1>9. ASSUME NEW i \in Nat
      PROVE  /\ ChunkBegin(i) \in Nat
             /\ ChunkBegin(i + 1) = ChunkBegin(i) + ChunkSize(i, n, d)
             /\ \A j \in Nat : i <= j => ChunkBegin(i) <= ChunkBegin(j)
             /\ ChunkSize(i, n, d) \in Nat
  <2>1. i + 1 \in Nat
    OBVIOUS
  <2>2. ChunkBegin(i + 1) = ShareBegin(i + 1, n, d)
    BY <1>8, <2>1
  <2> QED BY <1>7, <1>8, <2>2
<1>10. ChunkBegin(0) = 0 /\ ChunkBegin(d) = n
  BY <1>6, <1>7, <1>8
<1> QED BY <1>4, <1>5, <1>6, <1>9, <1>10

-----------------------------------------------------------------------------
(* Types and chunks *)

\* A file and its symbols are what the parser may find.
LEMMA FileType ==
  ASSUME TypeOK, NEW f \in 0 .. Len(files) - 1
  PROVE  /\ FileAt(f) \in Table!File
         /\ FileAt(f).symbols \in Seq(Names)
         /\ Len(FileAt(f).symbols) \in 0 .. MaxSymbols
<1>1. FileAt(f) \in Table!File
  BY DEF TypeOK, FileAt
<1>2. PICK n \in 0 .. MaxSymbols : FileAt(f).symbols \in [1 .. n -> Names]
  BY <1>1 DEF Table!File
<1> QED BY <1>1, <1>2, BoundsAssumption

\* The file a worker is at is one of the files found.
LEMMA WorkerAtFile ==
  ASSUME TypeOK, ChunksInv, WorkerInv, NEW t \in Started, ~ Finished(t)
  PROVE  /\ t \in Threads
         /\ at[t] \in 0 .. Len(files) - 1
         /\ at[t] < chunks[t + 1].end
<1>1. t \in Nat /\ t + 1 \in 1 .. Len(chunks) /\ Len(chunks) <= thread_count
  BY DEF TypeOK, Started
<1>2. t \in Threads /\ at[t] \in Nat
  BY <1>1, ThreadsAssumption DEF TypeOK, Threads
<1>3. pc # "count" /\ thread_count \in Nat \ {0} /\ Len(files) \in Nat
  BY <1>1, ThreadsAssumption DEF TypeOK, ChunksInv
<1>4. chunks[t + 1].end = ChunkBegin(t + 1)
  BY <1>1, <1>3 DEF ChunksInv, TypeOK
<1>5. ChunkBegin(t + 1) \in Nat /\ ChunkBegin(t + 1) <= Len(files)
  <2>1. t + 1 \in Nat /\ t + 1 <= thread_count
    BY <1>1, <1>3
  <2>2. ChunkBegin(t + 1) \in Nat /\ ChunkBegin(t + 1) <= ChunkBegin(thread_count)
    BY <1>3, <2>1, ChunksTile
  <2>3. ChunkBegin(thread_count) = Len(files)
    BY <1>3, ChunksTile
  <2> QED BY <2>2, <2>3
<1>6. at[t] <= chunks[t + 1].end /\ at[t] # chunks[t + 1].end
  BY DEF WorkerInv, InChunk, Finished
<1> QED BY <1>2, <1>3, <1>4, <1>5, <1>6

\* Pushing references behind a name keeps the type of a table.
LEMMA PushRefsType ==
  ASSUME NEW tab \in Seq(Entry), NEW name \in Names, NEW refs \in Seq(Table!Ref)
  PROVE  /\ PushRefs(tab, name, refs) \in Seq(Entry)
         /\ Len(PushRefs(tab, name, refs)) \in {Len(tab), Len(tab) + 1}
<1>1. CASE \E i \in DOMAIN tab : tab[i].name = name
  <2> DEFINE pushed == [i \in DOMAIN tab |->
                [name |-> tab[i].name,
                 refs |-> tab[i].refs \o (IF tab[i].name = name THEN refs ELSE <<>>)]]
  <2>1. PushRefs(tab, name, refs) = pushed
    BY <1>1 DEF PushRefs
  <2>2. ASSUME NEW i \in 1 .. Len(tab) PROVE pushed[i] \in Entry
    <3>0. tab[i] \in Entry
      OBVIOUS
    <3>1. tab[i].name \in Names /\ tab[i].refs \in Seq(Table!Ref)
      BY <3>0 DEF Entry
    <3>2. tab[i].refs \o (IF tab[i].name = name THEN refs ELSE <<>>) \in Seq(Table!Ref)
      BY <3>1
    <3> QED BY <3>1, <3>2 DEF Entry
  <2>3. DOMAIN tab = 1 .. Len(tab) /\ Len(tab) \in Nat
    OBVIOUS
  <2>4. pushed \in [1 .. Len(tab) -> Entry]
    BY <2>2, <2>3
  <2> HIDE DEF pushed
  <2>5. pushed \in Seq(Entry) /\ Len(pushed) = Len(tab)
    BY <2>3, <2>4
  <2> QED BY <2>1, <2>5
<1>2. CASE ~ \E i \in DOMAIN tab : tab[i].name = name
  BY <1>2 DEF PushRefs, Entry
<1> QED BY <1>1, <1>2

LEMMA TypeStep ==
  ASSUME TypeOK, ChunksInv, WorkerInv, MergeInv, [Next]_vars
  PROVE  TypeOK'
<1> USE DEF TypeOK
<1>1. CASE CountThreads
  <2>1. ProperThreadCount(Len(files)) \in 1 .. HardwareThreads
    BY ThreadCountInRange
  <2>2. chunks = <<>> /\ pc' = "launch" /\ thread_count' = ProperThreadCount(Len(files))
    BY <1>1 DEF CountThreads, ChunksInv
  <2>3. merging = 0
    BY <1>1 DEF CountThreads, MergeInv
  <2> QED BY <1>1, <2>1, <2>2, <2>3 DEF CountThreads, workerVars, mergeVars
<1>2. CASE LaunchThread
  <2> DEFINE t == Len(chunks)
             end == begin_index + ChunkSize(t, Len(files), thread_count)
  <2>0. thread_count \in Nat \ {0} /\ Len(files) \in Nat /\ t \in Nat
    BY <1>2 DEF LaunchThread
  <2>1. end \in Nat
    <3>1. ChunkSize(t, Len(files), thread_count) \in Nat
      BY <2>0, ChunksTile
    <3> QED BY <3>1
  <2>2. /\ chunks' = Append(chunks, [begin |-> begin_index, end |-> end])
        /\ at' = [at EXCEPT ![t] = begin_index]
        /\ begin_index' = end
    BY <1>2 DEF LaunchThread
  <2>3. chunks' \in Seq([begin : Nat, end : Nat]) /\ Len(chunks') <= thread_count
    BY <1>2, <2>1, <2>2 DEF LaunchThread
  <2>4. at' \in [Threads -> Nat]
    BY <2>2
  <2> QED BY <1>2, <2>1, <2>2, <2>3, <2>4 DEF LaunchThread, mergeVars
<1>3. ASSUME NEW t \in Threads, StoreSymbol(t) PROVE TypeOK'
  <2> DEFINE next == done[t] + 1
             ref == [file_id |-> at[t], metadata |-> next]
  <2>1. at[t] \in 0 .. Len(files) - 1
    BY <1>3, WorkerAtFile DEF StoreSymbol
  <2>2. FileAt(at[t]).symbols[next] \in Names
    <3> DEFINE symbols == FileAt(at[t]).symbols
    <3>1. symbols \in Seq(Names)
      BY <2>1, FileType
    <3>2. next \in 1 .. Len(symbols)
      BY <1>3, <3>1 DEF StoreSymbol
    <3> HIDE DEF symbols, next
    <3>3. symbols[next] \in Names
      BY <3>1, <3>2
    <3> QED BY <3>3 DEF symbols, next
  <2>3. <<ref>> \in Seq(Table!Ref)
    BY DEF Table!Ref
  <2>4. symtables' = [symtables EXCEPT ![t] =
                        PushRefs(symtables[t], FileAt(at[t]).symbols[next], <<ref>>)]
    BY <1>3 DEF StoreSymbol
  <2>5. symtables' \in [Threads -> Seq(Entry)]
    BY <2>2, <2>3, <2>4, PushRefsType
  <2>6. done' \in [Threads -> Nat]
    BY <1>3 DEF StoreSymbol
  <2> QED BY <1>3, <2>5, <2>6 DEF StoreSymbol, mergeVars
<1>4. ASSUME NEW t \in Threads, NextFile(t) PROVE TypeOK'
  <2>1. at' \in [Threads -> Nat] /\ done' \in [Threads -> Nat]
    BY <1>4 DEF NextFile
  <2> QED BY <1>4, <2>1 DEF NextFile, mergeVars
<1>5. ASSUME NEW t \in Threads, ExitProgram(t) PROVE TypeOK'
  BY <1>5 DEF ExitProgram, workerVars, mergeVars
<1>6. CASE JoinThreads
  BY <1>6 DEF JoinThreads, workerVars, mergeVars
<1>7. CASE MergeEntry
  <2> DEFINE sym == symtables[merging][entry + 1]
  <2>1. merging \in Threads
    BY <1>7, ThreadsAssumption DEF MergeEntry, Threads
  <2>2. sym \in Entry
    BY <1>7, <2>1 DEF MergeEntry
  <2>3. sym.name \in Names /\ sym.refs \in Seq(Table!Ref)
    BY <2>2 DEF Entry
  <2>4. merged' = PushRefs(merged, sym.name, sym.refs)
    BY <1>7 DEF MergeEntry
  <2>5. merged' \in Seq(Entry)
    BY <2>3, <2>4, PushRefsType
  <2>6. samples' \in Seq(Names)
    BY <1>7, <2>3 DEF MergeEntry
  <2> QED BY <1>7, <2>5, <2>6 DEF MergeEntry, workerVars
<1>8. CASE NextTable
  BY <1>8 DEF NextTable, workerVars
<1>9. CASE FinishMerge
  BY <1>9 DEF FinishMerge, workerVars, mergeVars
<1>10. CASE UNCHANGED vars
  BY <1>10 DEF vars
<1> QED
  BY <1>1, <1>2, <1>3, <1>4, <1>5, <1>6, <1>7, <1>8, <1>9, <1>10
     DEF Next, Builder, Worker, Threads

LEMMA ChunksStep ==
  ASSUME TypeOK, ChunksInv, [Next]_vars
  PROVE  ChunksInv'
<1>1. CASE CountThreads
  <2>0. Len(files) \in Nat /\ thread_count' = ProperThreadCount(Len(files))
    BY <1>1 DEF CountThreads, TypeOK
  <2>1. Len(files) \in Nat /\ thread_count' \in Nat \ {0} /\ files' = files
    BY <1>1, <2>0, ThreadCountInRange DEF CountThreads
  <2>2. (ChunkBegin(0))' = 0
    BY <2>1, ChunksTile, DivMod DEF ChunkBegin, Min2
  <2>3. chunks' = <<>> /\ begin_index' = 0 /\ pc' = "launch"
    BY <1>1 DEF CountThreads, ChunksInv
  <2>4. thread_count' = ProperThreadCount(Len(files))
    BY <1>1 DEF CountThreads
  <2> QED BY <2>1, <2>2, <2>3, <2>4 DEF ChunksInv, ProperThreadCount
<1>2. CASE LaunchThread
  <2> DEFINE t == Len(chunks)
             end == begin_index + ChunkSize(t, Len(files), thread_count)
             chunk == [begin |-> begin_index, end |-> end]
  <2>1. /\ pc = "launch" /\ pc' = "launch"
        /\ t < thread_count /\ thread_count' = thread_count /\ files' = files
        /\ chunks' = Append(chunks, chunk)
        /\ begin_index' = end
    BY <1>2 DEF LaunchThread
  <2>2. thread_count \in Nat \ {0} /\ Len(files) \in Nat /\ t \in Nat /\ begin_index \in Nat
    BY <2>1 DEF TypeOK
  <2>3. begin_index = ChunkBegin(t) /\ end = ChunkBegin(t + 1) /\ end \in Nat
    BY <2>1, <2>2, ChunksTile DEF ChunksInv
  <2>4. \A i : (ChunkBegin(i))' = ChunkBegin(i)
    BY <2>1 DEF ChunkBegin
  <2>5. Len(chunks') = t + 1 /\ chunks'[t + 1] = chunk /\ \A i \in 1 .. t : chunks'[i] = chunks[i]
    BY <2>1, <2>2 DEF TypeOK
  <2>51. DOMAIN chunks' = 1 .. t + 1 /\ DOMAIN chunks = 1 .. t
    BY <2>1, <2>2 DEF TypeOK
  <2>6. ASSUME NEW i \in DOMAIN chunks'
        PROVE  chunks'[i] = [begin |-> ChunkBegin(i - 1), end |-> ChunkBegin(i)]
    <3>1. i \in 1 .. t \/ i = t + 1
      BY <2>2, <2>51
    <3>2. CASE i = t + 1
      <4>1. i - 1 = t
        BY <2>2, <3>2
      <4> QED BY <2>3, <2>5, <3>2, <4>1
    <3> QED BY <2>1, <2>5, <3>1, <3>2 DEF ChunksInv, TypeOK
  <2>7. ASSUME NEW f \in 0 .. end - 1
        PROVE  \E i \in DOMAIN chunks' : chunks'[i].begin <= f /\ f < chunks'[i].end
    <3>1. f \in 0 .. begin_index - 1 \/ f >= begin_index
      BY <2>2, <2>3
    <3>2. CASE f \in 0 .. begin_index - 1
      <4>1. PICK i \in DOMAIN chunks : chunks[i].begin <= f /\ f < chunks[i].end
        BY <2>1, <3>2 DEF ChunksInv
      <4> QED BY <2>2, <2>5, <2>51, <4>1
    <3>3. CASE f >= begin_index
      BY <2>2, <2>3, <2>5, <2>51, <3>3
    <3> QED BY <3>1, <3>2, <3>3
  <2>8. begin_index' = ChunkBegin(Len(chunks')) /\ thread_count = ProperThreadCount(Len(files))
    BY <2>1, <2>3, <2>5 DEF ChunksInv
  <2> QED BY <2>1, <2>4, <2>6, <2>7, <2>8 DEF ChunksInv, ProperThreadCount
<1>3. CASE UNCHANGED <<files, thread_count, begin_index, chunks, pc>>
  BY <1>3 DEF ChunksInv, ChunkBegin, ProperThreadCount
<1>4. CASE UNCHANGED <<files, thread_count, begin_index, chunks>> /\ pc # "count" /\ pc' # "count"
  BY <1>4 DEF ChunksInv, ChunkBegin, ProperThreadCount
<1> QED
  BY <1>1, <1>2, <1>3, <1>4
     DEF Next, Builder, Worker, StoreSymbol, NextFile, ExitProgram, JoinThreads, MergeEntry,
         NextTable, FinishMerge, vars

LEMMA WorkerStep ==
  ASSUME TypeOK, ChunksInv, ChunksInv', WorkerInv, [Next]_vars
  PROVE  WorkerInv'
<1>1. CASE LaunchThread
  <2> DEFINE t == Len(chunks)
             end == begin_index + ChunkSize(t, Len(files), thread_count)
             chunk == [begin |-> begin_index, end |-> end]
  <2>1. /\ t < thread_count /\ files' = files /\ done' = done /\ symtables' = symtables
        /\ chunks' = Append(chunks, chunk) /\ at' = [at EXCEPT ![t] = begin_index]
    BY <1>1 DEF LaunchThread
  <2>2. thread_count \in Nat \ {0} /\ Len(files) \in Nat /\ t \in Threads /\ begin_index \in Nat
    BY <2>1, ThreadsAssumption DEF TypeOK, Threads
  <2>3. ChunkSize(t, Len(files), thread_count) \in Nat
    BY <2>2, ChunksTile DEF Threads
  <2>4. /\ Len(chunks') = t + 1 /\ chunks'[t + 1] = chunk
        /\ \A i \in 1 .. t : chunks'[i] = chunks[i]
    BY <2>1, <2>2 DEF TypeOK
  <2>5. at'[t] = begin_index /\ \A u \in Threads : u # t => at'[u] = at[u]
    BY <2>1, <2>2 DEF TypeOK
  <2>6. done[t] = 0 /\ symtables[t] = <<>>
    BY <2>2 DEF WorkerInv, Started, Threads
  <2>7. ASSUME NEW u \in Started'
        PROVE  InChunk(u)'
    <3>1. u \in 0 .. t
      BY <2>2, <2>4, <2>7 DEF Started
    <3>2. CASE u = t
      <4>1. CASE Finished(u)'
        BY <2>1, <2>2, <2>3, <2>4, <2>5, <2>6, <3>2, <4>1 DEF InChunk
      <4>2. CASE ~ Finished(u)'
        <5>1. at'[u] < chunks'[u + 1].end
          BY <2>2, <2>3, <2>4, <2>5, <3>2, <4>2 DEF Finished
        <5>2. end = ChunkBegin(t + 1)
          BY <1>1, <2>2, <2>3, ChunksTile DEF ChunksInv, LaunchThread, Threads
        <5>3. ChunkBegin(t + 1) <= ChunkBegin(thread_count) /\ ChunkBegin(thread_count) = Len(files)
          BY <2>1, <2>2, ChunksTile DEF Threads
        <5>4. begin_index \in 0 .. Len(files) - 1
          BY <2>2, <2>3, <2>4, <2>5, <3>2, <5>1, <5>2, <5>3
        <5>5. Len(FileAt(begin_index).symbols) \in Nat
          BY <5>4, FileType, BoundsAssumption
        <5> QED BY <2>1, <2>2, <2>3, <2>4, <2>5, <2>6, <3>2, <4>2, <5>5 DEF FileAt, InChunk
      <4> QED BY <4>1, <4>2
    <3>3. CASE u # t
      <4>1. u \in Started /\ u + 1 \in 1 .. t /\ u \in Threads
        BY <2>2, <3>1, <3>3, ThreadsAssumption DEF Started, Threads
      <4>2. chunks'[u + 1] = chunks[u + 1] /\ at'[u] = at[u]
        BY <2>4, <2>5, <3>3, <4>1
      <4>3. InChunk(u)
        BY <4>1 DEF WorkerInv
      <4> QED BY <2>1, <4>2, <4>3 DEF InChunk, Finished, FileAt
    <3> QED BY <3>2, <3>3
  <2>8. ASSUME NEW u \in Threads \ Started' PROVE done'[u] = 0 /\ symtables'[u] = <<>>
    <3>1. u \in Threads \ Started
      BY <2>2, <2>4, <2>8, ThreadsAssumption DEF Started, Threads
    <3> QED BY <2>1, <3>1 DEF WorkerInv
  <2>9. Threads' = Threads
    BY DEF Threads
  <2> QED BY <2>7, <2>8, <2>9 DEF WorkerInv
<1>2. ASSUME NEW t \in Threads, StoreSymbol(t) PROVE WorkerInv'
  <2>1. /\ t \in Started /\ ~ Finished(t) /\ done[t] < Len(FileAt(at[t]).symbols)
        /\ files' = files /\ chunks' = chunks /\ at' = at
        /\ done' = [done EXCEPT ![t] = done[t] + 1]
        /\ \A u \in Threads : u # t => symtables'[u] = symtables[u]
    BY <1>2 DEF StoreSymbol, TypeOK
  <2>2. Len(FileAt(at[t]).symbols) \in Nat /\ done[t] \in Nat
    BY <2>1, WorkerAtFile, FileType, BoundsAssumption DEF TypeOK
  <2>3. done'[t] = done[t] + 1 /\ \A u \in Threads : u # t => done'[u] = done[u]
    BY <2>1 DEF TypeOK
  <2>4. Started' = Started /\ \A u : Finished(u)' = Finished(u) /\ (FileAt(u))' = FileAt(u)
    BY <2>1 DEF Started, Finished, FileAt
  <2>5. Started \subseteq Threads
    BY ThreadsAssumption DEF Started, Threads, TypeOK
  <2>6. ASSUME NEW u \in Started PROVE InChunk(u)'
    <3>1. InChunk(u)
      BY DEF WorkerInv
    <3> QED BY <2>1, <2>2, <2>3, <2>5, <3>1 DEF InChunk, Finished, FileAt
  <2> QED BY <2>1, <2>3, <2>4, <2>6 DEF WorkerInv, Threads
<1>3. ASSUME NEW t \in Threads, NextFile(t) PROVE WorkerInv'
  <2>1. /\ t \in Started /\ ~ Finished(t)
        /\ files' = files /\ chunks' = chunks /\ symtables' = symtables
        /\ done' = [done EXCEPT ![t] = 0] /\ at' = [at EXCEPT ![t] = at[t] + 1]
    BY <1>3 DEF NextFile
  <2>2. /\ done'[t] = 0 /\ at'[t] = at[t] + 1
        /\ \A u \in Threads : u # t => done'[u] = done[u] /\ at'[u] = at[u]
    BY <2>1 DEF TypeOK
  <2>3. at[t] \in Nat /\ at[t] < chunks[t + 1].end /\ chunks[t + 1].begin <= at[t]
    BY <2>1, WorkerAtFile DEF WorkerInv, InChunk
  <2>4. t + 1 \in 1 .. Len(chunks) /\ chunks[t + 1].end \in Nat /\ chunks[t + 1].begin \in Nat
    <3>0. Len(chunks) \in Nat /\ t \in 0 .. Len(chunks) - 1
      BY <2>1 DEF Started, TypeOK
    <3>1. t + 1 \in 1 .. Len(chunks)
      BY <3>0
    <3> DEFINE Chunk == [begin : Nat, end : Nat]
    <3>a. chunks \in Seq(Chunk)
      BY DEF TypeOK
    <3>2. chunks[t + 1] \in Chunk
      <4> HIDE DEF Chunk
      <4> QED BY <3>1, <3>a
    <3> QED BY <3>1, <3>2
  <2>5. ~ Finished(t)' => Len(FileAt(at[t] + 1).symbols) \in Nat
    <3> SUFFICES ASSUME ~ Finished(t)' PROVE Len(FileAt(at[t] + 1).symbols) \in Nat
      OBVIOUS
    <3>1. at[t] + 1 < chunks[t + 1].end
      BY <2>1, <2>2, <2>3, <2>4 DEF Finished
    <3>2. pc # "count" /\ thread_count \in Nat \ {0} /\ Len(files) \in Nat /\ t \in Nat
      BY <1>3, ThreadsAssumption DEF NextFile, TypeOK, Threads
    <3>3. chunks[t + 1].end = ChunkBegin(t + 1)
      BY <2>4, <3>2 DEF ChunksInv, TypeOK
    <3>4. t + 1 \in Nat /\ t + 1 <= thread_count
      BY <2>4, <3>2 DEF TypeOK
    <3>5. ChunkBegin(t + 1) <= ChunkBegin(thread_count) /\ ChunkBegin(thread_count) = Len(files)
      BY <3>2, <3>4, ChunksTile
    <3>6. at[t] + 1 \in 0 .. Len(files) - 1
      BY <2>3, <2>4, <3>1, <3>2, <3>3, <3>5
    <3>7. Len(FileAt(at[t] + 1).symbols) \in Nat
      BY <3>6, FileType, BoundsAssumption
    <3> QED BY <3>7
  <2>6. Started' = Started
    BY <2>1 DEF Started
  <2>7. Started \subseteq Threads
    BY ThreadsAssumption DEF Started, Threads, TypeOK
  <2>8. ASSUME NEW u \in Started PROVE InChunk(u)'
    <3>1. InChunk(u)
      BY DEF WorkerInv
    <3>2. CASE u = t
      BY <2>1, <2>2, <2>3, <2>4, <2>5, <3>2 DEF InChunk, Finished, FileAt
    <3>3. CASE u # t
      BY <2>1, <2>2, <2>7, <3>1, <3>3 DEF InChunk, Finished, FileAt
    <3> QED BY <3>2, <3>3
  <2> QED BY <2>1, <2>2, <2>6, <2>7, <2>8 DEF WorkerInv, Threads
<1>4. CASE UNCHANGED <<files, chunks, workerVars>>
  BY <1>4 DEF WorkerInv, InChunk, Started, Finished, FileAt, workerVars
<1> QED
  BY <1>1, <1>2, <1>3, <1>4
     DEF Next, Builder, Worker, CountThreads, ExitProgram, JoinThreads, MergeEntry,
         NextTable, FinishMerge, vars, workerVars, Threads

LEMMA MergeStep ==
  ASSUME TypeOK, TypeOK', MergeInv, [Next]_vars
  PROVE  MergeInv'
<1>0. \A t \in Threads : Len(symtables[t]) \in Nat /\ Len(symtables'[t]) \in Nat
  BY DEF TypeOK
<1>00. entry \in Nat /\ merging \in Nat /\ thread_count \in 0 .. HardwareThreads
  BY ThreadsAssumption DEF TypeOK
<1>1. CASE CountThreads
  <2>1. /\ pc' = "launch" /\ merging' = 0 /\ entry' = 0 /\ merged' = <<>>
    BY <1>1 DEF CountThreads, MergeInv, mergeVars
  <2>2. 0 \in Threads
    BY ThreadsAssumption DEF Threads
  <2> QED BY <1>0, <2>1, <2>2 DEF MergeInv
<1>2. CASE LaunchThread \/ \E t \in Threads : Worker(t)
  <2>1. /\ pc = "launch" /\ pc' \in {"launch", "exited"}
        /\ merging' = merging /\ entry' = entry /\ merged' = merged
    BY <1>2 DEF LaunchThread, Worker, StoreSymbol, NextFile, ExitProgram, mergeVars
  <2>2. merging' = 0 /\ entry' = 0 /\ merged' = <<>>
    BY <2>1 DEF MergeInv
  <2>3. 0 \in Threads
    BY ThreadsAssumption DEF Threads
  <2> QED BY <1>0, <2>1, <2>2, <2>3 DEF MergeInv
<1>3. CASE JoinThreads
  <2>1. /\ pc = "launch" /\ pc' = "merge" /\ Split' /\ \A t \in Started : Finished(t)
        /\ UNCHANGED <<thread_count, merging, entry, merged, chunks, at, symtables>>
    BY <1>3 DEF JoinThreads, Split, workerVars, mergeVars
  <2>2. \A t \in Started' : Finished(t)'
    BY <2>1 DEF Started, Finished
  <2> QED BY <2>1, <2>2 DEF MergeInv
<1>4. CASE MergeEntry
  <2>1. /\ pc = "merge" /\ pc' = "merge" /\ merging < thread_count /\ merging' = merging
        /\ entry < Len(symtables[merging]) /\ entry' = entry + 1
        /\ UNCHANGED <<thread_count, chunks, at, symtables>>
    BY <1>4 DEF MergeEntry, workerVars
  <2>2. Split' /\ \A t \in Started' : Finished(t)'
    BY <2>1 DEF MergeInv, Split, Started, Finished
  <2>3. Len(symtables[merging]) \in Nat
    BY <1>0, <1>00, <2>1 DEF Threads
  <2>4. entry' <= Len(symtables'[merging']) /\ merging' # thread_count'
    BY <1>00, <2>1, <2>3
  <2> QED BY <2>1, <2>2, <2>4 DEF MergeInv
<1>5. CASE NextTable
  <2>1. /\ pc = "merge" /\ pc' = "merge" /\ merging < thread_count /\ merging' = merging + 1
        /\ entry' = 0 /\ UNCHANGED <<thread_count, chunks, at, symtables>>
    BY <1>5 DEF NextTable, workerVars
  <2>2. Split' /\ \A t \in Started' : Finished(t)'
    BY <2>1 DEF MergeInv, Split, Started, Finished
  <2>3. merging + 1 < thread_count => Len(symtables[merging + 1]) \in Nat
    BY <1>0, <1>00, <2>1 DEF Threads
  <2>4. merging' < thread_count' => entry' <= Len(symtables'[merging'])
    BY <2>1, <2>3
  <2> QED BY <2>1, <2>2, <2>4 DEF MergeInv
<1>6. CASE FinishMerge
  <2>1. /\ pc = "merge" /\ pc' = "merged" /\ merging = thread_count
        /\ UNCHANGED <<thread_count, merging, entry, merged, chunks, at, symtables>>
    BY <1>6 DEF FinishMerge, workerVars, mergeVars
  <2>2. Split' /\ \A t \in Started' : Finished(t)'
    BY <2>1 DEF MergeInv, Split, Started, Finished
  <2> QED BY <1>00, <2>1, <2>2 DEF MergeInv
<1>7. CASE UNCHANGED vars
  BY <1>7 DEF vars, MergeInv, Split, Started, Finished
<1> QED
  BY <1>1, <1>2, <1>3, <1>4, <1>5, <1>6, <1>7 DEF Next, Builder, Threads

LEMMA StartsWell == Init => TypeOK /\ ChunksInv /\ WorkerInv /\ MergeInv
<1> SUFFICES ASSUME Init PROVE TypeOK /\ ChunksInv /\ WorkerInv /\ MergeInv
  OBVIOUS
<1> USE DEF Init
<1>1. files \in Seq(Table!File) /\ Len(files) <= MaxFiles
  <2>1. PICK n \in 0 .. MaxFiles : files \in [1 .. n -> Table!File]
    OBVIOUS
  <2> QED BY <2>1, BoundsAssumption
<1>2. TypeOK
  BY <1>1, ThreadsAssumption DEF TypeOK, Threads
<1>3. ChunksInv
  BY DEF ChunksInv
<1>4. WorkerInv
  BY DEF WorkerInv, Started, Threads
<1>5. 0 \in Threads
  BY ThreadsAssumption DEF Threads
<1>6. MergeInv
  BY <1>5, ThreadsAssumption DEF MergeInv, Threads
<1> QED BY <1>2, <1>3, <1>4, <1>6

\* The variables keep their types, the chunks cut the list of the files
\* found, each worker is within its chunk, and nothing is merged before all
\* workers have ended.
THEOREM TypeCorrect == Spec => [](TypeOK /\ ChunksInv /\ WorkerInv /\ MergeInv)
<1>1. TypeOK /\ ChunksInv /\ WorkerInv /\ MergeInv /\ [Next]_vars
        => (TypeOK /\ ChunksInv /\ WorkerInv /\ MergeInv)'
  BY TypeStep, ChunksStep, WorkerStep, MergeStep
<1> QED BY <1>1, StartsWell, PTL DEF Spec

\* Each file found is parsed by exactly one thread.
THEOREM EachFileHasOneThread == Spec => []EveryFileOnce
<1>1. TypeOK /\ ChunksInv => EveryFileOnce
  <2> SUFFICES ASSUME TypeOK, ChunksInv, Split, NEW f \in 0 .. Len(files) - 1
               PROVE  \E i \in DOMAIN chunks :
                        /\ chunks[i].begin <= f /\ f < chunks[i].end
                        /\ \A j \in DOMAIN chunks :
                             chunks[j].begin <= f /\ f < chunks[j].end => j = i
    BY DEF EveryFileOnce
  <2>1. thread_count \in Nat \ {0} /\ Len(files) \in Nat /\ pc # "count" /\ Len(chunks) = thread_count
    BY ThreadsAssumption DEF TypeOK, Split
  <2>2. begin_index = Len(files)
    BY <2>1, ChunksTile DEF ChunksInv
  <2>3. PICK i \in DOMAIN chunks : chunks[i].begin <= f /\ f < chunks[i].end
    BY <2>1, <2>2 DEF ChunksInv
  <2>4. ASSUME NEW j \in DOMAIN chunks, chunks[j].begin <= f, f < chunks[j].end, j # i
        PROVE  FALSE
    <3>1. DOMAIN chunks = 1 .. thread_count
      BY <2>1 DEF TypeOK
    <3>2. ASSUME NEW k \in 1 .. thread_count, NEW l \in 1 .. thread_count, k < l,
                 f < chunks[k].end, chunks[l].begin <= f
          PROVE  FALSE
      <4>1. chunks[k].end = ChunkBegin(k) /\ chunks[l].begin = ChunkBegin(l - 1)
        BY <2>1, <3>1 DEF ChunksInv
      <4>2. ChunkBegin(k) \in Nat /\ ChunkBegin(l - 1) \in Nat /\ ChunkBegin(k) <= ChunkBegin(l - 1)
        <5>1. k \in Nat /\ l - 1 \in Nat /\ k <= l - 1
          BY <3>2
        <5> QED BY <2>1, <5>1, ChunksTile
      <4> QED BY <3>2, <4>1, <4>2
    <3>3. i < j \/ j < i
      BY <2>4, <3>1
    <3> QED BY <2>3, <2>4, <3>1, <3>2, <3>3
  <2> QED BY <2>3, <2>4
<1> QED BY <1>1, TypeCorrect, PTL

\* No second thread without MINIMUM_FILES_PER_THREAD files for each, and
\* the chunks differ by at most one file.
THEOREM ThreadsAreWorthIt == Spec => []WorthItsThreads
<1>1. TypeOK /\ ChunksInv => WorthItsThreads
  <2> DEFINE b == Len(files) \div thread_count
             Size(i) == chunks[i].end - chunks[i].begin
  <2> SUFFICES ASSUME TypeOK, ChunksInv, Split, thread_count > 1,
                      NEW i \in DOMAIN chunks, NEW j \in DOMAIN chunks
               PROVE  Size(i) >= MinFilesPerThread /\ Size(i) <= Size(j) + 1
    BY DEF WorthItsThreads
  <2>1. /\ thread_count \in Nat \ {0} /\ Len(files) \in Nat /\ pc # "count"
        /\ DOMAIN chunks = 1 .. thread_count
    BY ThreadsAssumption DEF TypeOK, Split
  <2>2. b \in Nat /\ b >= MinFilesPerThread
    BY <2>1, DivMod, ThreadCountInRange DEF ChunksInv
  <2>3. ASSUME NEW k \in DOMAIN chunks PROVE Size(k) \in {b, b + 1}
    <3>1. chunks[k].begin = ChunkBegin(k - 1) /\ chunks[k].end = ChunkBegin(k)
      BY <2>1 DEF ChunksInv
    <3> DEFINE i0 == k - 1
    <3>2. i0 \in Nat /\ i0 + 1 = k
      BY <2>1
    <3> HIDE DEF i0
    <3>3. /\ ChunkBegin(i0) \in Nat
          /\ ChunkBegin(i0 + 1) = ChunkBegin(i0) + ChunkSize(i0, Len(files), thread_count)
          /\ ChunkSize(i0, Len(files), thread_count) \in {b, b + 1}
      BY <2>1, <3>2, ChunksTile
    <3>4. chunks[k].begin = ChunkBegin(i0) /\ chunks[k].end = ChunkBegin(i0 + 1)
      BY <3>1, <3>2 DEF i0
    <3> HIDE DEF b
    <3> QED BY <2>2, <3>3, <3>4
  <2> HIDE DEF b, Size
  <2> QED BY <2>2, <2>3, ThreadsAssumption
<1> QED BY <1>1, TypeCorrect, PTL

-----------------------------------------------------------------------------
(* Tables *)

LEMMA RangeOfConcat ==
  ASSUME NEW s \in Seq(Table!Ref), NEW t \in Seq(Table!Ref)
  PROVE  /\ Range(s \o t) = Range(s) \cup Range(t)
         /\ s # <<>> => s \o t # <<>> /\ (s \o t)[1] = s[1]
<1>1. /\ DOMAIN (s \o t) = 1 .. Len(s) + Len(t)
      /\ DOMAIN s = 1 .. Len(s) /\ DOMAIN t = 1 .. Len(t)
      /\ Len(s) \in Nat /\ Len(t) \in Nat
      /\ \A k \in 1 .. Len(s) : (s \o t)[k] = s[k]
  OBVIOUS
<1>2. \A k \in 1 .. Len(t) : (s \o t)[Len(s) + k] = t[k]
  OBVIOUS
<1>3. ASSUME NEW k \in DOMAIN (s \o t) PROVE (s \o t)[k] \in Range(s) \cup Range(t)
  <2>1. CASE k \in 1 .. Len(s)
    BY <1>1, <2>1 DEF Range
  <2>2. CASE k \notin 1 .. Len(s)
    <3>1. k - Len(s) \in 1 .. Len(t) /\ k = Len(s) + (k - Len(s))
      BY <1>1, <2>2
    <3> QED BY <1>1, <1>2, <3>1 DEF Range
  <2> QED BY <2>1, <2>2
<1>4. Range(s) \subseteq Range(s \o t)
  BY <1>1 DEF Range
<1>5. Range(t) \subseteq Range(s \o t)
  <2>1. \A k \in 1 .. Len(t) : Len(s) + k \in DOMAIN (s \o t)
    BY <1>1
  <2> QED BY <1>1, <1>2, <2>1 DEF Range
<1>6. Range(s \o t) = Range(s) \cup Range(t)
  BY <1>3, <1>4, <1>5 DEF Range
<1>7. s # <<>> => s \o t # <<>> /\ (s \o t)[1] = s[1]
  BY <1>1
<1> QED BY <1>6, <1>7

LEMMA OrderOfConcat ==
  ASSUME NEW s \in Seq(Table!Ref), NEW t \in Seq(Table!Ref),
         Table!InOrder(s), Table!InOrder(t),
         \A a \in Range(s), b \in Range(t) : Table!Before(a, b)
  PROVE  Table!InOrder(s \o t)
<1>1. /\ DOMAIN (s \o t) = 1 .. Len(s) + Len(t)
      /\ DOMAIN s = 1 .. Len(s) /\ DOMAIN t = 1 .. Len(t)
      /\ Len(s) \in Nat /\ Len(t) \in Nat
      /\ \A k \in 1 .. Len(s) : (s \o t)[k] = s[k]
  OBVIOUS
<1>2. \A k \in 1 .. Len(t) : (s \o t)[Len(s) + k] = t[k]
  OBVIOUS
<1> DEFINE u == s \o t
<1>3. ASSUME NEW k \in DOMAIN u, k \notin 1 .. Len(s)
      PROVE  k - Len(s) \in 1 .. Len(t) /\ u[k] = t[k - Len(s)]
  <2>1. k - Len(s) \in 1 .. Len(t) /\ k = Len(s) + (k - Len(s))
    BY <1>1, <1>3
  <2> QED BY <1>2, <2>1
<1> SUFFICES ASSUME NEW k \in DOMAIN u, NEW l \in DOMAIN u, k < l
             PROVE  Table!Before(u[k], u[l])
  BY DEF Table!InOrder
<1>4. CASE k \in 1 .. Len(s) /\ l \in 1 .. Len(s)
  BY <1>1, <1>4 DEF Table!InOrder
<1>5. CASE k \in 1 .. Len(s) /\ l \notin 1 .. Len(s)
  <2>1. u[k] \in Range(s) /\ u[l] \in Range(t)
    BY <1>1, <1>3, <1>5 DEF Range
  <2> QED BY <2>1
<1>6. CASE k \notin 1 .. Len(s)
  <2>1. l \notin 1 .. Len(s)
    BY <1>1, <1>6
  <2>2. k - Len(s) < l - Len(s)
    BY <1>1
  <2> QED BY <1>1, <1>3, <1>6, <2>1, <2>2 DEF Table!InOrder
<1> QED BY <1>4, <1>5, <1>6

\* A table in which every entry lists all the references of its name keeps
\* doing so when references are pushed behind a name, if they come after
\* those of that name and, where it is new, after the first ones of all.
LEMMA PushRefsExact ==
  ASSUME NEW tab \in Seq(Entry), NEW occ, NEW name \in Names, NEW refs \in Seq(Table!Ref),
         Table!IsTableOf(tab, occ),
         refs # <<>>,
         Table!InOrder(refs),
         \A ref \in Range(refs) : Table!NameAt(ref) = name,
         \A a \in occ, b \in Range(refs) : Table!NameAt(a) = name => Table!Before(a, b),
         (\A i \in DOMAIN tab : tab[i].name # name) =>
           \A i \in DOMAIN tab : Table!Before(tab[i].refs[1], refs[1])
  PROVE  Table!IsTableOf(PushRefs(tab, name, refs), occ \cup Range(refs))
<1> DEFINE new == PushRefs(tab, name, refs)
           all == occ \cup Range(refs)
<1>0. ASSUME NEW i \in DOMAIN tab
      PROVE  /\ tab[i].name \in Names /\ tab[i].refs \in Seq(Table!Ref)
             /\ tab[i].refs # <<>>
             /\ Range(tab[i].refs) = {ref \in occ : Table!NameAt(ref) = tab[i].name}
             /\ Table!InOrder(tab[i].refs)
  <2>1. tab[i] \in Entry
    OBVIOUS
  <2> QED BY <2>1 DEF Entry, Table!IsTableOf, Range, Table!Range
<1>00. /\ \A ref \in occ : \E i \in DOMAIN tab : tab[i].name = Table!NameAt(ref)
       /\ \A i, j \in DOMAIN tab : i < j =>
            tab[i].name # tab[j].name /\ Table!Before(tab[i].refs[1], tab[j].refs[1])
  BY DEF Table!IsTableOf
<1>1. CASE \E i \in DOMAIN tab : tab[i].name = name
  <2> DEFINE added(i) == IF tab[i].name = name THEN refs ELSE <<>>
  <2>0. new = [i \in DOMAIN tab |-> [name |-> tab[i].name, refs |-> tab[i].refs \o added(i)]]
    BY <1>1 DEF PushRefs
  <2> HIDE DEF new
  <2>1. DOMAIN new = DOMAIN tab
    BY <2>0
  <2>2. ASSUME NEW i \in DOMAIN tab
        PROVE  /\ new[i].name = tab[i].name
               /\ new[i].refs = tab[i].refs \o added(i)
               /\ added(i) \in Seq(Table!Ref)
    <3>1. added(i) \in Seq(Table!Ref)
      OBVIOUS
    <3> HIDE DEF added
    <3> QED BY <2>0, <3>1
  <2>3. ASSUME NEW i \in DOMAIN tab
        PROVE  /\ new[i].refs # <<>>
               /\ new[i].refs[1] = tab[i].refs[1]
               /\ Range(new[i].refs) = Range(tab[i].refs) \cup Range(added(i))
    <3> DEFINE old == tab[i].refs
               more == added(i)
    <3>1. old \in Seq(Table!Ref) /\ old # <<>> /\ more \in Seq(Table!Ref)
      BY <1>0, <2>2
    <3>2. new[i].refs = old \o more
      BY <2>2
    <3> HIDE DEF old, more
    <3>3. old \o more # <<>> /\ (old \o more)[1] = old[1]
      BY <3>1
    <3>4. Range(old \o more) = Range(old) \cup Range(more)
      BY <3>1, RangeOfConcat
    <3>5. /\ new[i].refs # <<>> /\ new[i].refs[1] = old[1]
          /\ Range(new[i].refs) = Range(old) \cup Range(more)
      BY <3>2, <3>3, <3>4
    <3> QED BY <3>5 DEF old, more
  <2>4. ASSUME NEW i \in DOMAIN tab
        PROVE  Range(new[i].refs) = {ref \in all : Table!NameAt(ref) = new[i].name}
    <3>1. CASE tab[i].name = name
      <4>1. Range(new[i].refs) = Range(tab[i].refs) \cup Range(refs)
        BY <2>3, <3>1
      <4> QED BY <1>0, <2>2, <3>1, <4>1
    <3>2. CASE tab[i].name # name
      <4>1. Range(added(i)) = {}
        BY <3>2 DEF Range
      <4> HIDE DEF added
      <4> QED BY <1>0, <2>2, <2>3, <3>2, <4>1
    <3> QED BY <3>1, <3>2
  <2>5. ASSUME NEW i \in DOMAIN tab PROVE Table!InOrder(new[i].refs)
    <3>1. CASE tab[i].name = name
      <4>1. new[i].refs = tab[i].refs \o refs
        BY <2>2, <3>1
      <4>2. \A a \in Range(tab[i].refs), b \in Range(refs) : Table!Before(a, b)
        BY <1>0, <3>1
      <4> QED BY <1>0, <4>1, <4>2, OrderOfConcat
    <3>2. CASE tab[i].name # name
      <4>1. new[i].refs = tab[i].refs \o <<>>
        BY <2>2, <3>2
      <4> QED BY <1>0, <4>1
    <3> QED BY <3>1, <3>2
  <2>6. ASSUME NEW ref \in all PROVE \E i \in DOMAIN new : new[i].name = Table!NameAt(ref)
    BY <1>00, <1>1, <2>1, <2>2
  <2>7. ASSUME NEW i \in DOMAIN new, NEW j \in DOMAIN new, i < j
        PROVE  new[i].name # new[j].name /\ Table!Before(new[i].refs[1], new[j].refs[1])
    <3>1. tab[i].name # tab[j].name /\ Table!Before(tab[i].refs[1], tab[j].refs[1])
      BY <1>00, <2>1, <2>7
    <3>2. /\ new[i].name = tab[i].name /\ new[j].name = tab[j].name
          /\ new[i].refs[1] = tab[i].refs[1] /\ new[j].refs[1] = tab[j].refs[1]
      BY <2>1, <2>2, <2>3
    <3> QED BY <3>1, <3>2
  <2>8. Table!IsTableOf(new, all)
    <3> HIDE DEF all
    <3> QED BY <2>1, <2>3, <2>4, <2>5, <2>6, <2>7 DEF Table!IsTableOf, Range, Table!Range
  <2> QED BY <2>8 DEF new
<1>2. CASE ~ \E i \in DOMAIN tab : tab[i].name = name
  <2> DEFINE n == Len(tab)
             sym == [name |-> name, refs |-> refs]
  <2>1. new = Append(tab, sym)
    BY <1>2 DEF PushRefs
  <2>2. /\ DOMAIN new = 1 .. n + 1 /\ DOMAIN tab = 1 .. n /\ n \in Nat
        /\ new[n + 1] = sym /\ \A i \in 1 .. n : new[i] = tab[i]
    BY <2>1
  <2> HIDE DEF new
  <2>3. ASSUME NEW i \in DOMAIN new
        PROVE  /\ new[i].refs # <<>>
               /\ Range(new[i].refs) = {ref \in all : Table!NameAt(ref) = new[i].name}
               /\ Table!InOrder(new[i].refs)
    <3>1. CASE i \in 1 .. n
      <4>1. tab[i].name # name
        BY <1>2, <2>2, <3>1
      <4> QED BY <1>0, <2>2, <3>1, <4>1
    <3>2. CASE i = n + 1
      <4>1. \A ref \in occ : Table!NameAt(ref) # name
        BY <1>00, <1>2
      <4> QED BY <2>2, <3>2, <4>1
    <3> QED BY <2>2, <3>1, <3>2
  <2>4. ASSUME NEW ref \in all PROVE \E i \in DOMAIN new : new[i].name = Table!NameAt(ref)
    <3>1. CASE ref \in occ
      <4>1. PICK i \in DOMAIN tab : tab[i].name = Table!NameAt(ref)
        BY <1>00, <3>1
      <4> QED BY <2>2, <4>1
    <3>2. CASE ref \in Range(refs)
      BY <2>2, <3>2
    <3> QED BY <3>1, <3>2
  <2>5. ASSUME NEW i \in DOMAIN new, NEW j \in DOMAIN new, i < j
        PROVE  new[i].name # new[j].name /\ Table!Before(new[i].refs[1], new[j].refs[1])
    <3>1. i \in 1 .. n /\ new[i] = tab[i]
      BY <2>2, <2>5
    <3>2. CASE j \in 1 .. n
      BY <1>00, <2>2, <2>5, <3>1, <3>2
    <3>3. CASE j = n + 1
      BY <1>2, <2>2, <3>1, <3>3
    <3> QED BY <2>2, <3>2, <3>3
  <2>6. Table!IsTableOf(new, all)
    <3> HIDE DEF all
    <3> QED BY <2>3, <2>4, <2>5 DEF Table!IsTableOf, Range, Table!Range
  <2> QED BY <2>6 DEF new
<1> QED BY <1>1, <1>2

LEMMA BeforeIsTransitive ==
  ASSUME NEW a \in Table!Ref, NEW b \in Table!Ref, NEW c \in Table!Ref,
         Table!Before(a, b), Table!Before(b, c)
  PROVE  Table!Before(a, c)
BY DEF Table!Ref, Table!Before

LEMMA OccurrenceType ==
  ASSUME NEW ref \in Table!Occurrences
  PROVE  ref \in Table!Ref /\ ref.metadata >= 1 /\ ref.file_id \in 0 .. Len(files) - 1
BY BoundsAssumption DEF Table!Occurrences, Table!Ref

LEMMA EmptyTable == Table!IsTableOf(<<>>, {})
BY DEF Table!IsTableOf

\* The steps that neither start nor advance a worker.
LEMMA TablesUnchanged ==
  ASSUME WorkerTablesExact, UNCHANGED <<files, chunks, at, done, symtables>>
  PROVE  WorkerTablesExact' /\ \A t \in Threads : Stored(t)' = Stored(t)
BY DEF WorkerTablesExact, Stored, Started, Threads, Table!IsTableOf, Table!Occurrences,
       Table!NameAt, Table!FileAt

LEMMA WorkerTablesStep ==
  ASSUME TypeOK, ChunksInv, WorkerInv, WorkerTablesExact, [Next]_vars
  PROVE  WorkerTablesExact'
<1> USE DEF WorkerTablesExact
<1>1. CASE LaunchThread
  <2> DEFINE t == Len(chunks)
  <2>1. /\ files' = files /\ done' = done /\ symtables' = symtables
        /\ chunks' = Append(chunks, [begin |-> begin_index,
                           end |-> begin_index + ChunkSize(t, Len(files), thread_count)])
        /\ at' = [at EXCEPT ![t] = begin_index] /\ t < thread_count
    BY <1>1 DEF LaunchThread
  <2>2. t \in Threads /\ t \in Nat
    BY <2>1, ThreadsAssumption DEF TypeOK, Threads
  <2>3. /\ Len(chunks') = t + 1 /\ chunks'[t + 1].begin = begin_index
        /\ \A i \in 1 .. t : chunks'[i] = chunks[i]
        /\ at'[t] = begin_index /\ \A u \in Threads : u # t => at'[u] = at[u]
        /\ begin_index \in Nat
    BY <2>1, <2>2 DEF TypeOK
  <2>4. done[t] = 0 /\ symtables[t] = <<>>
    BY <2>2 DEF WorkerInv, Started, Threads
  <2>5. ASSUME NEW u \in Threads PROVE Stored(u)' = Stored(u)
    <3>1. CASE u = t
      <4>1. Stored(u) = {}
        BY <2>2, <3>1 DEF Stored, Started
      <4>2. Stored(u)' = {}
        <5>1. \A ref \in Table!Occurrences : ref.file_id \in Nat /\ ref.metadata >= 1 /\ ref.metadata \in Nat
          BY OccurrenceType DEF Table!Ref
        <5> QED BY <2>1, <2>2, <2>3, <2>4, <3>1, <5>1 DEF Stored, Table!Occurrences, Table!FileAt
      <4> QED BY <4>1, <4>2
    <3>2. CASE u # t /\ u \in Started
      <4>1. u + 1 \in 1 .. t /\ u \in Started'
        BY <2>2, <2>3, <3>2 DEF Started
      <4>2. chunks'[u + 1] = chunks[u + 1] /\ at'[u] = at[u]
        BY <2>3, <3>2, <4>1
      <4> QED BY <2>1, <3>2, <4>1, <4>2 DEF Stored, Table!Occurrences, Table!FileAt
    <3>3. CASE u # t /\ u \notin Started
      <4>1. u \notin Started'
        BY <2>2, <2>3, <3>3, ThreadsAssumption DEF Started, Threads
      <4> QED BY <3>3, <4>1 DEF Stored
    <3> QED BY <3>1, <3>2, <3>3
  <2> QED BY <2>1, <2>5 DEF Table!IsTableOf, Table!NameAt, Table!FileAt, Threads
<1>2. ASSUME NEW t \in Threads, StoreSymbol(t) PROVE WorkerTablesExact'
  <2> DEFINE next == done[t] + 1
             ref == [file_id |-> at[t], metadata |-> next]
             name == FileAt(at[t]).symbols[next]
  <2>1. /\ t \in Started /\ ~ Finished(t) /\ done[t] < Len(FileAt(at[t]).symbols)
        /\ files' = files /\ chunks' = chunks /\ at' = at
        /\ done' = [done EXCEPT ![t] = next]
        /\ symtables' = [symtables EXCEPT ![t] = PushRefs(symtables[t], name, <<ref>>)]
    BY <1>2 DEF StoreSymbol
  <2>2. /\ at[t] \in 0 .. Len(files) - 1 /\ done[t] \in Nat
        /\ chunks[t + 1].begin <= at[t]
    BY <2>1, WorkerAtFile DEF TypeOK, WorkerInv, InChunk
  <2>3. /\ FileAt(at[t]).symbols \in Seq(Names)
        /\ Len(FileAt(at[t]).symbols) \in 0 .. MaxSymbols
    BY <2>2, FileType
  <2>4. next \in 1 .. MaxSymbols /\ next \in 1 .. Len(FileAt(at[t]).symbols)
    BY <2>1, <2>2, <2>3, BoundsAssumption
  <2>5. name \in Names
    <3> DEFINE symbols == FileAt(at[t]).symbols
    <3> HIDE DEF symbols, next
    <3>1. symbols[next] \in Names
      BY <2>3, <2>4 DEF symbols
    <3> QED BY <3>1 DEF symbols
  <2>6. ref \in Table!Ref /\ Table!NameAt(ref) = name
    BY <2>2 DEF Table!Ref, Table!NameAt, Table!FileAt, FileAt
  <2>7. ref \in Table!Occurrences
    BY <2>2, <2>4 DEF Table!Occurrences, Table!FileAt, FileAt
  <2>8. Stored(t)' = Stored(t) \cup {ref}
    <3>1. ASSUME NEW r \in Table!Occurrences
          PROVE  r.metadata <= next /\ r.file_id = at[t] <=>
                   (r.metadata <= done[t] /\ r.file_id = at[t]) \/ r = ref
      <4>1. r.metadata \in Nat /\ r = [file_id |-> r.file_id, metadata |-> r.metadata]
        BY BoundsAssumption DEF Table!Occurrences
      <4> QED BY <2>2, <4>1
    <3>2. /\ done'[t] = next /\ at'[t] = at[t] /\ Started' = Started
          /\ Table!Occurrences' = Table!Occurrences
      BY <2>1 DEF TypeOK, Started, Table!Occurrences, Table!FileAt
    <3> HIDE DEF next, ref
    <3> QED BY <2>1, <2>2, <2>7, <3>1, <3>2 DEF Stored, ref
  <2>9. ASSUME NEW u \in Threads, u # t
        PROVE  Stored(u)' = Stored(u) /\ symtables'[u] = symtables[u]
    BY <2>1, <2>9 DEF Stored, Started, Table!Occurrences, Table!FileAt, TypeOK
  <2>10. Table!IsTableOf(PushRefs(symtables[t], name, <<ref>>), Stored(t) \cup {ref})
    <3> DEFINE tab == symtables[t]
               refs == <<ref>>
               occ == Stored(t)
    <3>1. tab \in Seq(Entry) /\ Table!IsTableOf(tab, occ)
      BY DEF TypeOK
    <3>2. refs \in Seq(Table!Ref) /\ refs # <<>> /\ Range(refs) = {ref} /\ refs[1] = ref
      BY <2>6 DEF Range
    <3>3. Table!InOrder(refs)
      BY DEF Table!InOrder
    <3>4. ASSUME NEW a \in occ PROVE Table!Before(a, ref)
      <4>1. a \in Table!Occurrences
        BY DEF Stored
      <4>2. a.file_id \in Nat /\ a.metadata \in Nat
        BY <4>1, OccurrenceType DEF Table!Ref
      <4> QED BY <2>2, <4>2 DEF Stored, Table!Before
    <3>5. ASSUME NEW i \in DOMAIN tab PROVE Table!Before(tab[i].refs[1], ref)
      <4>1. tab[i] \in Entry
        BY <3>1
      <4>2. tab[i].refs \in Seq(Table!Ref) /\ tab[i].refs # <<>>
        BY <3>1, <4>1 DEF Entry, Table!IsTableOf
      <4>3. tab[i].refs[1] \in Table!Range(tab[i].refs)
        BY <4>2 DEF Table!Range
      <4>4. tab[i].refs[1] \in occ
        BY <3>1, <4>3 DEF Table!IsTableOf
      <4> QED BY <3>4, <4>4
    <3> HIDE DEF tab, refs, occ, ref, name
    <3>6. \A r \in Range(refs) : Table!NameAt(r) = name
      BY <2>6, <3>2
    <3>7. \A a \in occ, b \in Range(refs) : Table!NameAt(a) = name => Table!Before(a, b)
      BY <3>2, <3>4
    <3>8. (\A i \in DOMAIN tab : tab[i].name # name) =>
            \A i \in DOMAIN tab : Table!Before(tab[i].refs[1], refs[1])
      BY <3>2, <3>5
    <3>9. Table!IsTableOf(PushRefs(tab, name, refs), occ \cup Range(refs))
      BY <2>5, <3>1, <3>2, <3>3, <3>6, <3>7, <3>8, PushRefsExact
    <3> QED BY <3>2, <3>9 DEF tab, refs, occ
  <2>11. symtables'[t] = PushRefs(symtables[t], name, <<ref>>)
    BY <2>1 DEF TypeOK
  <2> HIDE DEF ref, name
  <2>12. Table!IsTableOf(symtables[t], Stored(t))'
    BY <2>1, <2>8, <2>10, <2>11 DEF Table!IsTableOf, Table!NameAt, Table!FileAt
  <2>13. ASSUME NEW u \in Threads, u # t PROVE Table!IsTableOf(symtables[u], Stored(u))'
    BY <2>1, <2>9, <2>13 DEF Table!IsTableOf, Table!NameAt, Table!FileAt
  <2> QED BY <2>12, <2>13 DEF Threads
<1>3. ASSUME NEW t \in Threads, NextFile(t) PROVE WorkerTablesExact'
  <2>1. /\ t \in Started /\ ~ Finished(t) /\ done[t] = Len(FileAt(at[t]).symbols)
        /\ files' = files /\ chunks' = chunks /\ symtables' = symtables
        /\ done' = [done EXCEPT ![t] = 0] /\ at' = [at EXCEPT ![t] = at[t] + 1]
    BY <1>3 DEF NextFile
  <2>2. /\ at[t] \in Nat /\ done'[t] = 0 /\ at'[t] = at[t] + 1
        /\ \A u \in Threads : u # t => done'[u] = done[u] /\ at'[u] = at[u]
    BY <2>1 DEF TypeOK
  <2>3. Table!Occurrences' = Table!Occurrences /\ Started' = Started
    BY <2>1 DEF Table!Occurrences, Table!FileAt, Started
  <2>4. Stored(t)' = Stored(t)
    <3>1. ASSUME NEW r \in Table!Occurrences
          PROVE  (r.file_id < at[t] + 1 \/ (r.file_id = at[t] + 1 /\ r.metadata <= 0)) <=>
                 (r.file_id < at[t] \/ (r.file_id = at[t] /\ r.metadata <= done[t]))
      <4>1. r.metadata \in Nat /\ r.metadata >= 1 /\ r.file_id \in Nat
        BY OccurrenceType DEF Table!Ref
      <4>2. r.file_id = at[t] => r.metadata <= done[t]
        BY <2>1 DEF Table!Occurrences, Table!FileAt, FileAt
      <4> QED BY <2>2, <4>1, <4>2
    <3> QED BY <2>1, <2>2, <2>3, <3>1 DEF Stored
  <2>5. \A u \in Threads : u # t => Stored(u)' = Stored(u)
    BY <2>1, <2>2, <2>3 DEF Stored
  <2> QED BY <2>1, <2>4, <2>5 DEF Table!IsTableOf, Table!NameAt, Table!FileAt, Threads
<1>4. CASE UNCHANGED <<files, chunks, at, done, symtables>>
  BY <1>4, TablesUnchanged
<1> QED
  BY <1>1, <1>2, <1>3, <1>4
     DEF Next, Builder, Worker, CountThreads, ExitProgram, JoinThreads, MergeEntry,
         NextTable, FinishMerge, vars, workerVars, Threads

\* What two workers store, in the order of the workers.
LEMMA StoredInThreadOrder ==
  ASSUME TypeOK, ChunksInv, WorkerInv, MergeInv, pc = "merge",
         NEW t \in Started, NEW u \in Started, u < t,
         NEW a \in Stored(u), NEW b \in Stored(t)
  PROVE  Table!Before(a, b)
<1>1. /\ a \in Table!Occurrences /\ b \in Table!Occurrences
      /\ chunks[t + 1].begin <= b.file_id
      /\ a.file_id < at[u] \/ (a.file_id = at[u] /\ a.metadata <= done[u])
  BY DEF Stored
<1>2. /\ a.file_id \in Nat /\ a.metadata \in Nat /\ a.metadata >= 1 /\ b.file_id \in Nat
  BY <1>1, OccurrenceType DEF Table!Ref
<1>3. at[u] = chunks[u + 1].end
  BY DEF MergeInv, Finished
<1>4. /\ thread_count \in Nat \ {0} /\ Len(files) \in Nat /\ Len(chunks) \in Nat
      /\ u + 1 \in 1 .. Len(chunks) /\ t + 1 \in 1 .. Len(chunks) /\ u \in Nat /\ t \in Nat
  BY ThreadsAssumption DEF TypeOK, Started
<1>5. chunks[u + 1].end = ChunkBegin(u + 1) /\ chunks[t + 1].begin = ChunkBegin(t)
  <2>1. (t + 1) - 1 = t
    BY <1>4
  <2>2. DOMAIN chunks = 1 .. Len(chunks) /\ pc # "count"
    BY DEF TypeOK
  <2>3. \A i \in 1 .. Len(chunks) :
          chunks[i] = [begin |-> ChunkBegin(i - 1), end |-> ChunkBegin(i)]
    BY <2>2 DEF ChunksInv
  <2>4. chunks[t + 1] = [begin |-> ChunkBegin((t + 1) - 1), end |-> ChunkBegin(t + 1)]
    BY <1>4, <2>3
  <2>5. ChunkBegin((t + 1) - 1) = ChunkBegin(t)
    BY <2>1
  <2>6. chunks[u + 1] = [begin |-> ChunkBegin((u + 1) - 1), end |-> ChunkBegin(u + 1)]
    BY <1>4, <2>3
  <2> QED BY <2>4, <2>5, <2>6
<1>6. ChunkBegin(u + 1) \in Nat /\ ChunkBegin(t) \in Nat /\ ChunkBegin(u + 1) <= ChunkBegin(t)
  <2>1. u + 1 \in Nat /\ u + 1 <= t
    BY <1>4
  <2> QED BY <1>4, <2>1, ChunksTile
<1>7. CASE a.file_id < at[u]
  BY <1>1, <1>2, <1>3, <1>5, <1>6, <1>7 DEF Table!Before
<1>8. CASE a.file_id = at[u] /\ a.metadata <= done[u]
  <2>1. done[u] = 0
    BY <1>3 DEF WorkerInv, InChunk, Finished
  <2> QED BY <1>2, <1>8, <2>1
<1> QED BY <1>1, <1>7, <1>8

\* A merge step pushes one entry of the table of thread `merging`.
LEMMA MergeEntryExact ==
  ASSUME TypeOK, ChunksInv, WorkerInv, MergeInv, WorkerTablesExact, MergedTableExact,
         MergeEntry
  PROVE  MergedTableExact'
<1> DEFINE t == merging
           tab == symtables[t]
           sym == tab[entry + 1]
           occ == Stored(t)
<1>1. /\ pc = "merge" /\ t < thread_count /\ entry < Len(tab) /\ entry' = entry + 1
      /\ merging' = merging /\ merged' = PushRefs(merged, sym.name, sym.refs)
      /\ UNCHANGED <<files, chunks, at, done, symtables>>
  BY DEF MergeEntry, workerVars
<1>2. t \in Threads /\ t \in Started /\ t \in Nat /\ entry \in Nat
  <2>1. /\ Len(chunks) = thread_count /\ thread_count \in 0 .. HardwareThreads
        /\ t \in 0 .. thread_count /\ entry \in Nat
    BY <1>1 DEF MergeInv, Split, TypeOK
  <2>2. t \in 0 .. thread_count - 1
    BY <1>1, <2>1, ThreadsAssumption
  <2> QED BY <2>1, <2>2, ThreadsAssumption DEF Threads, Started
<1>3. tab \in Seq(Entry) /\ Table!IsTableOf(tab, occ)
  BY <1>2 DEF TypeOK, WorkerTablesExact
<1>4. entry + 1 \in DOMAIN tab
  BY <1>1, <1>2, <1>3
<1>5. /\ sym.name \in Names /\ sym.refs \in Seq(Table!Ref)
  <2>1. sym \in Entry
    BY <1>3, <1>4
  <2> QED BY <2>1 DEF Entry
<1> HIDE DEF tab, occ, t, sym
<1>6. /\ sym.refs # <<>> /\ Table!InOrder(sym.refs)
      /\ Range(sym.refs) = {ref \in occ : Table!NameAt(ref) = sym.name}
  BY <1>3, <1>4 DEF Table!IsTableOf, sym, Range, Table!Range
<1>7. sym.refs[1] \in Range(sym.refs) /\ sym.refs[1] \in Table!Ref
  BY <1>5, <1>6 DEF Range
<1>8. ASSUME NEW a \in MergedRefs
      PROVE  \/ \A b \in Range(sym.refs) : Table!Before(a, b)
             \/ /\ a \in occ
                /\ \E j \in 1 .. entry : tab[j].name = Table!NameAt(a)
  <2>1. PICK u \in Started :
          /\ a \in Stored(u)
          /\ u < t \/ (u = t /\ \E j \in 1 .. entry : symtables[u][j].name = Table!NameAt(a))
    BY <1>8 DEF MergedRefs, t
  <2>2. CASE u < t
    BY <1>1, <1>2, <1>6, <2>1, <2>2, StoredInThreadOrder DEF occ
  <2>3. CASE u = t
    BY <1>2, <2>1, <2>3 DEF occ, tab, Started
  <2> QED BY <2>1, <2>2, <2>3
<1>9. \A j \in 1 .. entry : j \in DOMAIN tab /\ tab[j].name # sym.name
                            /\ Table!Before(tab[j].refs[1], sym.refs[1])
  <2>1. \A j \in 1 .. entry : j \in DOMAIN tab /\ j < entry + 1
    BY <1>2, <1>3, <1>4
  <2> QED BY <1>3, <1>4, <2>1 DEF sym, Table!IsTableOf
<1>10. ASSUME NEW a \in MergedRefs, NEW b \in Range(sym.refs), Table!NameAt(a) = sym.name
       PROVE  Table!Before(a, b)
  BY <1>8, <1>9, <1>10
<1>11. merged \in Seq(Entry) /\ Table!IsTableOf(merged, MergedRefs)
  BY DEF TypeOK, MergedTableExact
<1>12. ASSUME NEW i \in DOMAIN merged
       PROVE  Table!Before(merged[i].refs[1], sym.refs[1]) \/ merged[i].name = sym.name
  <2> DEFINE r == merged[i].refs[1]
  <2>1. /\ merged[i].refs # <<>> /\ merged[i].refs \in Seq(Table!Ref)
        /\ Table!InOrder(merged[i].refs)
        /\ Range(merged[i].refs) = {ref \in MergedRefs : Table!NameAt(ref) = merged[i].name}
    <3>1. merged[i] \in Entry
      BY <1>11
    <3> QED BY <1>11, <3>1 DEF Entry, Table!IsTableOf, Range, Table!Range
  <2>2. r \in Range(merged[i].refs) /\ r \in Table!Ref /\ r \in MergedRefs
        /\ Table!NameAt(r) = merged[i].name
    BY <2>1 DEF Range
  <2> HIDE DEF r
  <2>3. CASE \A b \in Range(sym.refs) : Table!Before(r, b)
    BY <1>7, <2>3 DEF r
  <2>4. CASE r \in occ /\ \E j \in 1 .. entry : tab[j].name = Table!NameAt(r)
    <3>1. PICK j \in 1 .. entry : tab[j].name = Table!NameAt(r)
      BY <2>4
    <3> DEFINE q == tab[j].refs[1]
    <3>2. tab[j].refs # <<>> /\ tab[j].refs \in Seq(Table!Ref)
          /\ Range(tab[j].refs) = {ref \in occ : Table!NameAt(ref) = tab[j].name}
      <4>1. tab[j] \in Entry
        BY <1>3, <1>9
      <4> QED BY <1>3, <1>9, <4>1 DEF Entry, Table!IsTableOf, Range, Table!Range
    <3>3. q \in occ /\ Table!NameAt(q) = merged[i].name /\ q \in Table!Ref
      <4>1. q \in Range(tab[j].refs)
        BY <3>2 DEF Range
      <4> QED BY <2>2, <3>1, <3>2, <4>1
    <3>4. q \in MergedRefs
      <4>1. symtables[t][j].name = Table!NameAt(q)
        BY <2>2, <3>1, <3>3 DEF tab
      <4>2. q \in Stored(t) /\ q \in Table!Occurrences
        BY <3>3 DEF occ, Stored
      <4> QED BY <1>2, <4>1, <4>2 DEF MergedRefs, t
    <3>5. r = q \/ Table!Before(r, q)
      <4>1. q \in Range(merged[i].refs)
        BY <2>1, <3>3, <3>4
      <4>2. PICK k \in DOMAIN merged[i].refs : merged[i].refs[k] = q
        BY <4>1 DEF Range
      <4>3. 1 \in DOMAIN merged[i].refs /\ (k = 1 \/ 1 < k)
        BY <2>1, <4>2
      <4> QED BY <2>1, <4>2, <4>3 DEF r, Table!InOrder
    <3>6. Table!Before(q, sym.refs[1])
      BY <1>9
    <3>7. Table!Before(r, sym.refs[1])
      BY <1>7, <2>2, <3>3, <3>5, <3>6, BeforeIsTransitive
    <3> QED BY <3>7 DEF r
  <2> QED BY <1>8, <2>2, <2>3, <2>4
<1>13. Table!IsTableOf(PushRefs(merged, sym.name, sym.refs), MergedRefs \cup Range(sym.refs))
  <2>1. \A ref \in Range(sym.refs) : Table!NameAt(ref) = sym.name
    BY <1>6
  <2>2. (\A i \in DOMAIN merged : merged[i].name # sym.name) =>
          \A i \in DOMAIN merged : Table!Before(merged[i].refs[1], sym.refs[1])
    BY <1>12
  <2> DEFINE name == sym.name
             refs == sym.refs
             all == MergedRefs
  <2>3. /\ merged \in Seq(Entry) /\ name \in Names /\ refs \in Seq(Table!Ref)
        /\ Table!IsTableOf(merged, all) /\ refs # <<>> /\ Table!InOrder(refs)
        /\ \A ref \in Range(refs) : Table!NameAt(ref) = name
        /\ \A a \in all, b \in Range(refs) : Table!NameAt(a) = name => Table!Before(a, b)
        /\ (\A i \in DOMAIN merged : merged[i].name # name) =>
             \A i \in DOMAIN merged : Table!Before(merged[i].refs[1], refs[1])
    BY <1>5, <1>6, <1>10, <1>11, <2>1, <2>2
  <2> HIDE DEF name, refs, all
  <2>4. Table!IsTableOf(PushRefs(merged, name, refs), all \cup Range(refs))
    BY <2>3, PushRefsExact
  <2> QED BY <2>4 DEF name, refs, all
<1>14. MergedRefs' = MergedRefs \cup Range(sym.refs)
  <2>1. /\ Started' = Started /\ Table!Occurrences' = Table!Occurrences
        /\ \A ref : Table!NameAt(ref)' = Table!NameAt(ref)
        /\ \A u : Stored(u)' = Stored(u)
    BY <1>1 DEF Started, Stored, Table!Occurrences, Table!NameAt, Table!FileAt
  <2>2. 1 .. entry + 1 = (1 .. entry) \cup {entry + 1}
    BY <1>2
  <2>3. ASSUME NEW ref \in Table!Occurrences
        PROVE  ref \in MergedRefs' <=> ref \in MergedRefs \/ ref \in Range(sym.refs)
    <3>1. ref \in MergedRefs' <=>
            \E u \in Started :
              /\ ref \in Stored(u)
              /\ \/ u < t
                 \/ u = t /\ \E j \in 1 .. entry + 1 : symtables[u][j].name = Table!NameAt(ref)
      BY <1>1, <2>1 DEF MergedRefs, t
    <3>2. ref \in MergedRefs <=>
            \E u \in Started :
              /\ ref \in Stored(u)
              /\ \/ u < t
                 \/ u = t /\ \E j \in 1 .. entry : symtables[u][j].name = Table!NameAt(ref)
      BY DEF MergedRefs, t
    <3>3. ref \in Range(sym.refs) <=> ref \in Stored(t) /\ symtables[t][entry + 1].name = Table!NameAt(ref)
      BY <1>6 DEF occ, sym, tab
    <3> QED BY <1>2, <2>2, <3>1, <3>2, <3>3
  <2>4. MergedRefs' \subseteq Table!Occurrences /\ MergedRefs \subseteq Table!Occurrences
    BY <2>1 DEF MergedRefs
  <2>5. Range(sym.refs) \subseteq Table!Occurrences
    BY <1>6 DEF occ, Stored
  <2> QED BY <2>3, <2>4, <2>5
<1> QED
  BY <1>1, <1>13, <1>14 DEF MergedTableExact, Table!IsTableOf, Table!NameAt, Table!FileAt

LEMMA MergedTableStep ==
  ASSUME TypeOK, TypeOK', ChunksInv, WorkerInv, MergeInv, MergeInv', WorkerTablesExact,
         MergedTableExact, [Next]_vars
  PROVE  MergedTableExact'
<1>1. CASE merging' = 0 /\ entry' = 0 /\ merged' = <<>>
  <2>1. MergedRefs' = {}
    <3> SUFFICES ASSUME NEW t \in Started'
                 PROVE  ~ (t < merging' \/ (t = merging' /\ \E j \in 1 .. entry' :
                              \E n : symtables'[t][j].name = n))
      BY DEF MergedRefs
    <3> QED BY <1>1 DEF Started, TypeOK
  <2>2. Table!IsTableOf(<<>>, {})'
    BY DEF Table!IsTableOf
  <2> QED BY <1>1, <2>1, <2>2 DEF MergedTableExact
<1>2. CASE pc' \in {"count", "launch", "exited"}
  BY <1>1, <1>2 DEF MergeInv
<1>3. CASE JoinThreads
  BY <1>1, <1>3 DEF JoinThreads, MergeInv, mergeVars
<1>4. CASE MergeEntry
  BY <1>4, MergeEntryExact
<1>5. CASE NextTable
  <2> DEFINE t == merging
  <2>1. /\ pc = "merge" /\ t < thread_count /\ entry = Len(symtables[t])
        /\ merging' = t + 1 /\ entry' = 0
        /\ UNCHANGED <<files, chunks, at, done, symtables, merged>>
    BY <1>5 DEF NextTable, workerVars
  <2>2. t \in Threads /\ t \in Nat /\ Len(symtables[t]) \in Nat /\ DOMAIN symtables[t] = 1 .. entry
    <3>1. t \in Threads
      BY <2>1, ThreadsAssumption DEF TypeOK, Threads
    <3>2. symtables[t] \in Seq(Entry)
      BY <3>1 DEF TypeOK
    <3> QED BY <2>1, <3>1, <3>2 DEF Threads
  <2>3. /\ Started' = Started /\ Table!Occurrences' = Table!Occurrences
        /\ \A ref : Table!NameAt(ref)' = Table!NameAt(ref)
        /\ \A u : Stored(u)' = Stored(u)
    BY <2>1 DEF Started, Stored, Table!Occurrences, Table!NameAt, Table!FileAt
  <2>4. \A ref \in Stored(t) : \E j \in 1 .. entry : symtables[t][j].name = Table!NameAt(ref)
    BY <2>2 DEF WorkerTablesExact, Table!IsTableOf
  <2>5. \A u \in Started : u \in Int
    BY DEF Started
  <2>6. ASSUME NEW ref \in Table!Occurrences
        PROVE  ref \in MergedRefs' <=> ref \in MergedRefs
    <3>1. ref \in MergedRefs' <=> \E u \in Started : ref \in Stored(u) /\ u < t + 1
      BY <2>1, <2>3 DEF MergedRefs
    <3>2. ref \in MergedRefs <=>
            \E u \in Started :
              /\ ref \in Stored(u)
              /\ \/ u < t
                 \/ u = t /\ \E j \in 1 .. entry : symtables[u][j].name = Table!NameAt(ref)
      BY DEF MergedRefs
    <3>3. \A u \in Started : u < t + 1 <=> u < t \/ u = t
      BY <2>2, <2>5
    <3> QED BY <2>4, <3>1, <3>2, <3>3
  <2>7. MergedRefs' = MergedRefs
    BY <2>3, <2>6 DEF MergedRefs
  <2> QED BY <2>1, <2>7 DEF MergedTableExact, Table!IsTableOf, Table!NameAt, Table!FileAt
<1>6. CASE UNCHANGED <<files, chunks, at, done, symtables, merging, entry, merged>>
  BY <1>6 DEF MergedTableExact, MergedRefs, Started, Stored, Table!IsTableOf,
              Table!Occurrences, Table!NameAt, Table!FileAt
<1>7. CASE CountThreads \/ LaunchThread \/ \E t \in Threads : Worker(t)
  BY <1>2, <1>7 DEF CountThreads, LaunchThread, Worker, StoreSymbol, NextFile, ExitProgram
<1> QED
  BY <1>3, <1>4, <1>5, <1>6, <1>7
     DEF Next, Builder, FinishMerge, vars, workerVars, mergeVars, Threads

LEMMA SamplesStep ==
  ASSUME TypeOK, TypeOK', SamplesAreFirstNames, [Next]_vars
  PROVE  SamplesAreFirstNames'
<1>1. CASE MergeEntry
  <2> DEFINE sym == symtables[merging][entry + 1]
  <2>1. /\ merged' = PushRefs(merged, sym.name, sym.refs)
        /\ samples' = IF Len(merged') > Len(merged) /\ Len(merged') <= MaxSamples
                      THEN Append(samples, sym.name) ELSE samples
    BY <1>1 DEF MergeEntry
  <2>2. samples \in Seq(Names) /\ merged \in Seq(Entry) /\ Len(merged) \in Nat
    BY DEF TypeOK
  <2> HIDE DEF sym
  <2>3. CASE \E i \in DOMAIN merged : merged[i].name = sym.name
    <3>1. /\ DOMAIN merged' = DOMAIN merged
          /\ \A i \in DOMAIN merged : merged'[i].name = merged[i].name
      BY <2>1, <2>3 DEF PushRefs
    <3>2. Len(merged') = Len(merged)
      BY <2>2, <3>1 DEF TypeOK
    <3>3. samples' = samples
      BY <2>1, <2>2, <3>2
    <3>4. DOMAIN samples \subseteq DOMAIN merged
      BY <2>2, BoundsAssumption DEF SamplesAreFirstNames, Min2
    <3> QED BY <3>1, <3>2, <3>3, <3>4 DEF SamplesAreFirstNames
  <2>4. CASE ~ \E i \in DOMAIN merged : merged[i].name = sym.name
    <3>1. merged' = Append(merged, [name |-> sym.name, refs |-> sym.refs])
      BY <2>1, <2>4 DEF PushRefs
    <3>2. /\ Len(merged') = Len(merged) + 1 /\ merged'[Len(merged) + 1].name = sym.name
          /\ \A i \in 1 .. Len(merged) : merged'[i] = merged[i]
      BY <2>2, <3>1
    <3>3. CASE Len(merged) + 1 <= MaxSamples
      <4>1. samples' = Append(samples, sym.name) /\ Len(samples) = Len(merged)
        BY <2>1, <2>2, <3>2, <3>3, BoundsAssumption DEF SamplesAreFirstNames, Min2
      <4>2. /\ Len(samples') = Len(merged) + 1 /\ DOMAIN samples' = 1 .. Len(merged) + 1
            /\ samples'[Len(merged) + 1] = sym.name
            /\ \A i \in 1 .. Len(merged) : samples'[i] = samples[i]
        BY <2>2, <4>1
      <4>3. \A i \in 1 .. Len(merged) : samples[i] = merged[i].name
        BY <2>2, <4>1 DEF SamplesAreFirstNames
      <4>4. ASSUME NEW i \in DOMAIN samples' PROVE samples'[i] = merged'[i].name
        <5>1. i \in 1 .. Len(merged) \/ i = Len(merged) + 1
          BY <2>2, <4>2
        <5> QED BY <3>2, <4>2, <4>3, <5>1
      <4> QED BY <2>2, <3>2, <3>3, <4>2, <4>4, BoundsAssumption DEF SamplesAreFirstNames, Min2
    <3>4. CASE ~ (Len(merged) + 1 <= MaxSamples)
      <4>1. samples' = samples /\ Len(samples) = MaxSamples
        BY <2>1, <2>2, <3>2, <3>4, BoundsAssumption DEF SamplesAreFirstNames, Min2
      <4>2. DOMAIN samples \subseteq 1 .. Len(merged)
        BY <2>2, <3>4, <4>1, BoundsAssumption
      <4> QED BY <2>2, <3>2, <3>4, <4>1, <4>2, BoundsAssumption DEF SamplesAreFirstNames, Min2
    <3> QED BY <3>3, <3>4
  <2> QED BY <2>3, <2>4
<1>2. CASE UNCHANGED <<merged, samples>>
  BY <1>2 DEF SamplesAreFirstNames
<1> QED
  BY <1>1, <1>2
     DEF Next, Builder, Worker, CountThreads, LaunchThread, StoreSymbol, NextFile,
         ExitProgram, JoinThreads, NextTable, FinishMerge, vars, mergeVars

LEMMA TablesStartExact == Init => WorkerTablesExact /\ MergedTableExact /\ SamplesAreFirstNames
<1> SUFFICES ASSUME Init PROVE WorkerTablesExact /\ MergedTableExact /\ SamplesAreFirstNames
  OBVIOUS
<1> USE DEF Init
<1>1. Started = {}
  BY DEF Started
<1>2. WorkerTablesExact
  BY <1>1, EmptyTable DEF WorkerTablesExact, Stored, Threads
<1>3. MergedTableExact
  BY <1>1, EmptyTable DEF MergedTableExact, MergedRefs
<1>4. SamplesAreFirstNames
  BY BoundsAssumption DEF SamplesAreFirstNames, Min2
<1> QED BY <1>2, <1>3, <1>4

\* The inductive invariant: while threads run and while their tables are
\* merged, every table is the one a single thread would have made.
THEOREM BuildInvariant == Spec => []BuildInv
<1>1. TypeOK /\ TypeOK' /\ BuildInv /\ ChunksInv' /\ WorkerInv' /\ MergeInv' /\ [Next]_vars
        => BuildInv'
  BY WorkerTablesStep, MergedTableStep, SamplesStep DEF BuildInv
<1>2. Init => BuildInv
  BY StartsWell, TablesStartExact DEF BuildInv
<1> QED BY <1>1, <1>2, TypeCorrect, PTL DEF Spec

\* At every moment the table of a worker has the symbols it has stored, each
\* under its name and with the file it came from (worker), and no other.
THEOREM WorkersStoreExactly == Spec => []WorkerTablesExact
<1>1. BuildInv => WorkerTablesExact
  BY DEF BuildInv
<1> QED BY <1>1, BuildInvariant, PTL

\* At every moment of the merge the merged table is that of the entries it
\* has taken (merge_symtables), in the order of threads and files.
THEOREM MergeIsExact == Spec => []MergedTableExact
<1>1. BuildInv => MergedTableExact
  BY DEF BuildInv
<1> QED BY <1>1, BuildInvariant, PTL

\* What build hands to store_db is the table of all the files.
LEMMA MergedIsAll ==
  ASSUME TypeOK, BuildInv, pc = "merged"
  PROVE  Table!IsTableOf(merged, Table!Occurrences)
<1> USE DEF BuildInv
<1>1. /\ merging = thread_count /\ entry = 0 /\ Len(chunks) = thread_count
      /\ \A t \in Started : Finished(t)
  BY DEF MergeInv, Split
<1>2. /\ thread_count \in Nat \ {0} /\ Len(files) \in Nat /\ DOMAIN chunks = 1 .. thread_count
      /\ begin_index = Len(files)
  <2>1. thread_count \in Nat \ {0} /\ Len(files) \in Nat /\ DOMAIN chunks = 1 .. thread_count
    BY <1>1, ThreadsAssumption DEF TypeOK
  <2> QED BY <1>1, <2>1, ChunksTile DEF ChunksInv
<1>3. ASSUME NEW ref \in Table!Occurrences PROVE ref \in MergedRefs
  <2>1. ref.file_id \in 0 .. begin_index - 1
    BY <1>2, OccurrenceType
  <2>2. PICK i \in DOMAIN chunks : chunks[i].begin <= ref.file_id /\ ref.file_id < chunks[i].end
    BY <2>1 DEF ChunksInv
  <2> DEFINE t == i - 1
  <2>3. t \in Started /\ t + 1 = i /\ t < merging
    BY <1>1, <1>2 DEF Started
  <2>4. at[t] = chunks[i].end
    BY <1>1, <2>3 DEF Finished
  <2>5. ref \in Stored(t)
    BY <2>2, <2>3, <2>4 DEF Stored
  <2> QED BY <2>3, <2>5 DEF MergedRefs
<1>4. MergedRefs = Table!Occurrences
  BY <1>3 DEF MergedRefs
<1> QED BY <1>4 DEF MergedTableExact

\* The published table is exact, whatever the number of threads and files.
THEOREM PublishedTableIsExact == Spec => []TableExact
<1>1. TypeOK /\ BuildInv => TableExact
  BY MergedIsAll DEF TableExact
<1> QED BY <1>1, TypeCorrect, BuildInvariant, PTL

\* The threads implement the one-step symbol table.
THEOREM ThreadsImplementSymbolTable == Spec => ImplementsSymbolTable
<1>1. Init => Table!Init
  BY DEF Init, Table!Init
<1>2. TypeOK /\ TypeOK' /\ ChunksInv /\ WorkerInv /\ BuildInv' /\ TableExact' /\ [Next]_vars
        => [Table!Next]_Table!vars
  <2> SUFFICES ASSUME TypeOK, TypeOK', ChunksInv, WorkerInv, BuildInv', TableExact', [Next]_vars
               PROVE  [Table!Next]_Table!vars
    OBVIOUS
  <2> USE DEF Table!Next, Table!vars
  <2>1. CASE FinishMerge
    <3>1. pc = "merge" /\ pc' = "merged" /\ UNCHANGED <<files, merged, samples>>
      BY <2>1 DEF FinishMerge, mergeVars
    <3>2. Table!IsTableOf(merged, Table!Occurrences)'
      BY <3>1 DEF TableExact
    <3>3. Table!IsTableOf(merged', Table!Occurrences)
      BY <3>1, <3>2 DEF Table!IsTableOf, Table!Occurrences, Table!NameAt, Table!FileAt
    <3>4. SamplesAreFirstNames'
      BY DEF BuildInv
    <3>5. /\ Len(samples') = IF Len(merged') < MaxSamples THEN Len(merged') ELSE MaxSamples
          /\ \A i \in DOMAIN samples' : samples'[i] = merged'[i].name
      BY <3>4, BoundsAssumption DEF SamplesAreFirstNames, Min2, TypeOK
    <3> QED BY <3>1, <3>3, <3>5 DEF Table!Publish
  <2>2. ASSUME NEW t \in Threads, ExitProgram(t) PROVE Table!GiveUp
    <3>1. at[t] \in 0 .. Len(files) - 1 /\ FileAt(at[t]).aborts
      BY <2>2, WorkerAtFile DEF ExitProgram
    <3>a. Len(files) \in Nat /\ DOMAIN files = 1 .. Len(files)
      BY DEF TypeOK
    <3>2. at[t] + 1 \in DOMAIN files /\ files[at[t] + 1].aborts
      BY <3>1, <3>a DEF FileAt
    <3> QED BY <2>2, <3>2 DEF ExitProgram, Table!GiveUp, mergeVars
  <2>3. CASE /\ pc \notin {"merged", "exited"} /\ pc' \notin {"merged", "exited"}
             /\ files' = files
    BY <2>3
  <2>4. CASE UNCHANGED vars
    BY <2>4 DEF vars
  <2> QED
    BY <2>1, <2>2, <2>3, <2>4
       DEF Next, Builder, Worker, CountThreads, LaunchThread, StoreSymbol, NextFile,
           JoinThreads, MergeEntry, NextTable, Threads
<1> QED
  BY <1>1, <1>2, TypeCorrect, BuildInvariant, PublishedTableIsExact, PTL
     DEF Spec, ImplementsSymbolTable, Table!Spec
=============================================================================
