---------------------------- MODULE FileScanProofs ----------------------------
(***************************************************************************)
(* Proofs about FileScan, for every tree, every configuration and every    *)
(* number of troubles: the flag that the scan and the polling thread share *)
(* loses no change of the mounts, the calls, the tree and the cache of     *)
(* paths are well formed, every recorded path is one the file has had,     *)
(* what is pruned is not found, and everything else is, once.              *)
(*                                                                         *)
(* Then about DirPathList, which tells what is pruned and tracked: the     *)
(* order of dir_path_cmp is that of a dictionary whose alphabet begins     *)
(* with the end of the path and the slash, a sorted list keeps each        *)
(* subtree together, a path is pruned if and only if it is listed, and a   *)
(* file is tracked if and only if its name ends as it should.              *)
(***************************************************************************)
EXTENDS FileScan, DirPathList, SequenceTheorems, NumberLemmas

\* poll never tells of more changes than there were, and what NoChangeIsMissed
\* says holds: together they are inductive.
NotAhead == mounts \in Nat /\ told \in Nat /\ told <= mounts

FlagInv == NotAhead /\ NoChangeIsMissed

\* What a step of the scan or of another process may do to the flag and to
\* what it stands for.
FlagStep ==
  \/ ChangeMounts \/ Wake \/ Announce
  \/ TakeFlag \/ Rebuild \/ AnswerRebuilt
  \/ UNCHANGED bindVars

\* Every step of the scan, of a process that renames and of one that changes
\* the mounts is one of these.
LEMMA StepsAreFlagSteps ==
  ASSUME [Next]_vars
  PROVE  FlagStep
<1>1. CASE ScanStep
  <2>1. CASE \E path : EnterAs(path)
    BY <2>1 DEF EnterAs, FlagStep
  <2>2. CASE Enter
    BY <2>2, <2>1 DEF Enter
  <2>3. CASE RebuildList \/ RebuildWithoutFile \/ EnterRebuilt
    BY <2>3 DEF RebuildList, RebuildWithoutFile, EnterRebuilt, FlagStep
  <2>4. CASE \/ OpenRoot \/ RootFails \/ EnterPruned \/ EnterWithoutPath \/ Return
             \/ FindFile \/ PassFile
    BY <2>4 DEF OpenRoot, RootFails, EnterPruned, EnterWithoutPath, Return, FindFile, PassFile, FlagStep
  <2>5. CASE PassDir \/ PassExcluded \/ GiveUp \/ UseNoStream \/ PassUntyped \/ Descend
    BY <2>5 DEF PassDir, PassExcluded, GiveUp, UseNoStream, PassUntyped, Descend, FlagStep
  <2> QED BY <1>1, <2>2, <2>3, <2>4, <2>5 DEF ScanStep
<1>2. CASE Move
  BY <1>2 DEF Move, FlagStep
<1>3. CASE MountStep
  BY <1>3 DEF MountStep, FlagStep
<1>4. CASE PollFails \/ Done \/ UNCHANGED vars
  BY <1>4 DEF PollFails, Done, vars, FlagStep
<1> QED BY <1>1, <1>2, <1>3, <1>4 DEF Next

\* None of them loses a change.
LEMMA FlagInvStep ==
  ASSUME FlagInv, FlagStep
  PROVE  FlagInv'
<1> USE DEF FlagInv, NotAhead, NoChangeIsMissed
<1>1. CASE ChangeMounts
  BY <1>1 DEF ChangeMounts
<1>2. CASE Wake
  BY <1>2 DEF Wake
<1>3. CASE Announce
  BY <1>3 DEF Announce
<1>4. CASE TakeFlag
  \* The flag is taken away: the change it stood for is now to be rebuilt for.
  BY <1>4 DEF TakeFlag
<1>5. CASE Rebuild
  BY <1>5 DEF Rebuild
<1>6. CASE AnswerRebuilt
  BY <1>6 DEF AnswerRebuilt
<1>7. CASE UNCHANGED bindVars
  BY <1>7 DEF bindVars
<1> QED BY <1>1, <1>2, <1>3, <1>4, <1>5, <1>6, <1>7 DEF FlagStep

\* A change of the mounts that no rebuild has seen is never forgotten, however
\* many there are and however the scan, the polling thread and other processes
\* get in between each other (BindMount::init_bind_mount, is_bind_mount).
THEOREM ChangesAreNotMissed == Spec => []NoChangeIsMissed
<1>1. Init => FlagInv
  BY DEF Init, BindMountInit, FlagInv, NotAhead, NoChangeIsMissed
<1>2. FlagInv /\ [Next]_vars => FlagInv'
  BY StepsAreFlagSteps, FlagInvStep
<1>3. FlagInv => NoChangeIsMissed
  BY DEF FlagInv
<1> QED BY <1>1, <1>2, <1>3, PTL DEF Spec

-----------------------------------------------------------------------------
(* The inductive invariant of the scan *)

EntryName == (UNION {FilesIn[d] : d \in Dirs}) \cup {NameOf[d] : d \in Dirs}

\* Every path a directory can be read to have.
AllPaths == {DirPath(PathIn(t, d)) : t \in Trees, d \in Dirs}

Frame == [dir : Dirs, path : AllPaths \cup {<<>>}, todo : SUBSET EntryName]

\* Directory d has had a path that is read as path.
WasAt(d, path) == \E place \in been : place[1] = d /\ path = DirPath(place[2])

\* As long as nothing is renamed, the directory of a call lies above those of
\* the calls that it made.
Nested ==
  \A j, k \in 1 .. Len(stack) :
    j < k => stack[k].dir # Root /\ stack[j].dir \in Above(parent, parent[stack[k].dir])

TreeInv ==
  /\ parent \in Trees
  /\ moved \in Seq(Dirs)
  /\ \A d \in Dirs : <<d, PathOf(d)>> \in been

StackInv ==
  /\ stack \in Seq(Frame)
  /\ Len(stack) <= FdLimit
  /\ \A k \in 1 .. Len(stack) : stack[k].path # <<>> => WasAt(stack[k].dir, stack[k].path)
  /\ moved = <<>> => Nested

\* The ids of paths are places in a list without repetitions.
CacheInv ==
  /\ paths \in Seq(AllPaths)
  /\ found \in Seq([name : EntryName, path_id : Nat])
  /\ \A i, j \in 1 .. Len(paths) : i # j => paths[i] # paths[j]

\* A file was found at a path that its directory has had.
FoundInv ==
  \A i \in 1 .. Len(found) :
    /\ found[i].path_id < Len(paths)
    /\ \E d \in Dirs : found[i].name \in FilesIn[d] /\ WasAt(d, paths[found[i].path_id + 1])

SamplesInv ==
  /\ file_samples \in Seq(EntryName) /\ Len(file_samples) <= MaxFileSamples
  /\ path_samples \in Seq(EntryName) /\ Len(path_samples) <= MaxPathSamples

ResultInv ==
  result \in {"none", "scanning", "ok", "failed", "exited", "crashed", "undefined"}

ScanInv == TreeInv /\ StackInv /\ CacheInv /\ FoundInv /\ SamplesInv /\ ResultInv

-----------------------------------------------------------------------------
(* The tree *)

\* The way up: d itself, and from each directory to its parent.
LEMMA ChainRight ==
  ASSUME NEW t \in [Dirs -> Dirs], NEW d \in Dirs
  PROVE  /\ Cardinality(Dirs) \in Nat
         /\ Chain(t, d) \in [0 .. Cardinality(Dirs) -> Dirs]
         /\ Chain(t, d)[0] = d
         /\ \A k \in 1 .. Cardinality(Dirs) : Chain(t, d)[k] = t[Chain(t, d)[k - 1]]
<1> DEFINE N == Cardinality(Dirs)
           step == [p \in (1 .. N) \X Dirs |-> t[p[2]]]
<1>1. N \in Nat
  BY ScanAssumption, FS_CardinalityType
<1>2. step \in Steps(N, Dirs)
  BY DEF Steps
<1>3. \A k \in 1 .. N, e \in Dirs : step[<<k, e>>] = t[e]
  OBVIOUS
<1> HIDE DEF step, N
<1>4. PICK f : IsLoop(f, N, Dirs, d, step)
  BY <1>1, <1>2, LoopDefined
<1> DEFINE g == [k \in 0 .. N |-> IF k = 0 THEN d ELSE t[f[k - 1]]]
<1>5. ASSUME NEW k \in 0 .. N PROVE f[k] = g[k]
  <2>1. CASE k = 0
    BY <1>4, <2>1 DEF IsLoop
  <2>2. CASE k # 0
    <3>1. k \in 1 .. N /\ k - 1 \in 0 .. N
      BY <1>1, <2>2
    <3>2. f[k] = step[<<k, f[k - 1]>>] /\ f[k - 1] \in Dirs
      BY <1>4, <3>1 DEF IsLoop
    <3> QED BY <1>3, <2>2, <3>1, <3>2
  <2> QED BY <2>1, <2>2
<1>6. f = g
  <2>1. f = [k \in 0 .. N |-> f[k]] /\ g = [k \in 0 .. N |-> g[k]]
    BY <1>4 DEF IsLoop
  <2> HIDE DEF g
  <2> QED BY <1>5, <2>1
<1> DEFINE up == CHOOSE h : h = [k \in 0 .. N |-> IF k = 0 THEN d ELSE t[h[k - 1]]]
<1>7. up = [k \in 0 .. N |-> IF k = 0 THEN d ELSE t[up[k - 1]]]
  BY <1>6, Zenon
<1>8. Chain(t, d) = up
  BY DEF Chain, N
<1> HIDE DEF up
<1>9. up[0] = d /\ \A k \in 1 .. N : up[k] = t[up[k - 1]]
  BY <1>1, <1>7
<1> DEFINE Q == {k \in Nat : k <= N => up[k] \in Dirs}
<1>10. N \in Q /\ \A k \in 0 .. N : k \in Q
  <2>1. 0 \in Q
    BY <1>9
  <2>2. ASSUME NEW k \in Nat, k \in Q PROVE k + 1 \in Q
    <3> SUFFICES ASSUME k + 1 <= N PROVE up[k + 1] \in Dirs
      OBVIOUS
    <3>1. k + 1 \in 1 .. N /\ (k + 1) - 1 = k /\ k <= N
      BY <1>1
    <3>2. up[k + 1] = t[up[k]]
      BY <1>9, <3>1
    <3> QED BY <2>2, <3>1, <3>2
  <2> HIDE DEF Q
  <2> QED BY <1>1, <2>1, <2>2, InductiveSetHasAll
<1>11. \A k \in 0 .. N : up[k] \in Dirs
  BY <1>10
<1>12. up \in [0 .. N -> Dirs]
  BY <1>7, <1>11
<1> QED BY <1>1, <1>8, <1>9, <1>12, Zenon DEF N

\* Once at the root the way up stays there.
LEMMA RootStays ==
  ASSUME NEW t \in Trees, NEW d \in Dirs,
         NEW r \in 0 .. Cardinality(Dirs), Chain(t, d)[r] = Root
  PROVE  \A k \in r .. Cardinality(Dirs) : Chain(t, d)[k] = Root
<1> DEFINE N == Cardinality(Dirs)
           up == Chain(t, d)
           Q == {k \in Nat : r <= k /\ k <= N => up[k] = Root}
<1>1. t \in [Dirs -> Dirs] /\ t[Root] = Root
  BY ScanAssumption DEF Trees
<1>2. N \in Nat /\ \A k \in 1 .. N : up[k] = t[up[k - 1]]
  BY <1>1, ChainRight
<1>3. r \in 0 .. N /\ up[r] = Root
  OBVIOUS
<1> HIDE DEF N, up
<1>4. 0 \in Q
  BY <1>2, <1>3
<1>5. ASSUME NEW k \in Nat, k \in Q PROVE k + 1 \in Q
  <2> SUFFICES ASSUME r <= k + 1, k + 1 <= N PROVE up[k + 1] = Root
    OBVIOUS
  <2>1. CASE r = k + 1
    BY <1>3, <2>1
  <2>2. CASE r # k + 1
    <3>1. r <= k /\ k <= N /\ k + 1 \in 1 .. N /\ (k + 1) - 1 = k
      BY <1>2, <1>3, <2>2
    <3>2. up[k + 1] = t[up[k]]
      BY <1>2, <3>1
    <3> QED BY <1>1, <1>5, <3>1, <3>2
  <2> QED BY <2>1, <2>2
<1> HIDE DEF Q
<1>6. \A k \in Nat : k \in Q
  BY <1>4, <1>5, InductiveSetHasAll
<1>7. \A k \in r .. N : up[k] = Root
  BY <1>2, <1>3, <1>6 DEF Q
<1> QED BY <1>7 DEF N, up

\* The way up from the parent is the way up without its beginning.
LEMMA ChainShift ==
  ASSUME NEW t \in Trees, NEW d \in Dirs
  PROVE  \A k \in Nat : k < Cardinality(Dirs) => Chain(t, t[d])[k] = Chain(t, d)[k + 1]
<1> DEFINE N == Cardinality(Dirs)
           up == Chain(t, d)
           over == Chain(t, t[d])
           S == {k \in Nat : k < N => over[k] = up[k + 1]}
<1>1. t \in [Dirs -> Dirs] /\ t[d] \in Dirs
  BY DEF Trees
<1>2. /\ N \in Nat /\ up \in [0 .. N -> Dirs] /\ up[0] = d
      /\ \A k \in 1 .. N : up[k] = t[up[k - 1]]
  BY <1>1, ChainRight
<1>3. /\ over \in [0 .. N -> Dirs] /\ over[0] = t[d]
      /\ \A k \in 1 .. N : over[k] = t[over[k - 1]]
  BY <1>1, ChainRight
<1> HIDE DEF N, up, over
<1>4. \A k \in Nat : k \in S
  <2>1. 0 \in S
    <3> SUFFICES ASSUME 0 < N PROVE over[0] = up[0 + 1]
      OBVIOUS
    <3>1. 1 \in 1 .. N
      BY <1>2
    <3>2. up[1] = t[up[1 - 1]]
      BY <1>2, <3>1
    <3> QED BY <1>2, <1>3, <3>2
  <2>2. ASSUME NEW k \in Nat, k \in S PROVE k + 1 \in S
    <3> SUFFICES ASSUME k + 1 < N PROVE over[k + 1] = up[(k + 1) + 1]
      OBVIOUS
    <3> PICK m : m = k + 1
      OBVIOUS
    <3>1. m \in 1 .. N /\ m - 1 = k /\ m + 1 \in 1 .. N /\ (m + 1) - 1 = m /\ k < N
      BY <1>2
    <3>2. over[m] = t[over[k]] /\ up[m + 1] = t[up[m]]
      BY <1>2, <1>3, <3>1
    <3> QED BY <2>2, <3>1, <3>2
  <2> HIDE DEF S
  <2> QED BY <2>1, <2>2, InductiveSetHasAll
<1> QED BY <1>4 DEF N, up, over

\* A directory is on its own way up, and so is the way up from its parent.
LEMMA AboveParent ==
  ASSUME NEW t \in Trees, NEW d \in Dirs
  PROVE  d \in Above(t, d) /\ Above(t, t[d]) \subseteq Above(t, d)
<1> DEFINE N == Cardinality(Dirs)
           up == Chain(t, d)
           over == Chain(t, t[d])
<1>1. t \in [Dirs -> Dirs] /\ t[d] \in Dirs /\ Root \in Above(t, d) /\ t[Root] = Root
  BY ScanAssumption DEF Trees
<1>2. /\ N \in Nat /\ up \in [0 .. N -> Dirs] /\ up[0] = d
      /\ \A k \in 1 .. N : up[k] = t[up[k - 1]]
  BY <1>1, ChainRight
<1>3. /\ over \in [0 .. N -> Dirs] /\ over[0] = t[d]
      /\ \A k \in 1 .. N : over[k] = t[over[k - 1]]
  BY <1>1, ChainRight
<1> HIDE DEF N, up, over
<1>4. Above(t, d) = {up[k] : k \in 0 .. N} /\ Above(t, t[d]) = {over[k] : k \in 0 .. N}
  BY <1>2, <1>3 DEF Above, Range, up, over
<1>5. d \in Above(t, d)
  BY <1>2, <1>4
<1> DEFINE Q == {k \in Nat : k <= N => over[k] \in Above(t, d)}
<1>6. PICK r \in 0 .. N : up[r] = Root
  BY <1>1, <1>4
<1>7. \A k \in r .. N : up[k] = Root
  BY <1>6, RootStays DEF N, up
<1>8. up[N] = Root
  BY <1>2, <1>6, <1>7
<1>9. \A k \in Nat : k < N => over[k] = up[k + 1]
  BY ChainShift DEF N, up, over
<1>10. ASSUME NEW k \in 0 .. N PROVE over[k] \in Above(t, d)
  <2>1. CASE k < N
    <3>1. k + 1 \in 0 .. N /\ over[k] = up[k + 1]
      BY <1>2, <1>9, <2>1
    <3> QED BY <1>4, <3>1
  <2>2. CASE k = N /\ N # 0
    <3>1. N \in 1 .. N /\ N - 1 \in Nat /\ N - 1 < N /\ (N - 1) + 1 = N
      BY <1>2, <2>2
    <3>2. over[N] = t[over[N - 1]] /\ over[N - 1] = up[(N - 1) + 1]
      BY <1>3, <1>9, <3>1
    <3>3. over[N] = Root
      BY <1>1, <1>8, <3>1, <3>2
    <3> QED BY <1>1, <2>2, <3>3
  <2>3. CASE k = N /\ N = 0
    \* There is a directory, so there is a step up.
    <3>1. Cardinality(Dirs) # 0
      BY ScanAssumption, FS_EmptySet
    <3> QED BY <2>3, <3>1 DEF N
  <2> QED BY <1>2, <2>1, <2>2, <2>3
<1> QED BY <1>4, <1>5, <1>10

\* The way up from its parent does not lead back to a directory: it would go
\* round for ever and never come to the root.
LEMMA NoLoop ==
  ASSUME NEW t \in Trees, NEW d \in Dirs \ {Root}
  PROVE  d \notin Above(t, t[d])
<1> DEFINE N == Cardinality(Dirs)
           over == Chain(t, t[d])
<1>1. t \in [Dirs -> Dirs] /\ t[d] \in Dirs /\ t[Root] = Root /\ Root \in Above(t, t[d])
  BY ScanAssumption DEF Trees
<1>2. /\ N \in Nat /\ over \in [0 .. N -> Dirs] /\ over[0] = t[d]
      /\ \A k \in 1 .. N : over[k] = t[over[k - 1]]
  BY <1>1, ChainRight
<1> HIDE DEF N, over
<1>3. Above(t, t[d]) = {over[k] : k \in 0 .. N}
  BY <1>2 DEF Above, Range, over
<1> SUFFICES ASSUME NEW b \in 0 .. N, over[b] = d PROVE FALSE
  BY <1>3
<1>4. PICK r \in 0 .. N : over[r] = Root
  BY <1>1, <1>3
\* Once at the root the way stays there, and it came to d at b.
<1>5. \A k \in r .. N : over[k] = Root
  BY <1>1, <1>4, RootStays DEF N, over
<1>6. b < r
  BY <1>2, <1>4, <1>5
\* From d on the way repeats what came before.
<1> DEFINE Loop == {over[k] : k \in 0 .. b}
           Q == {k \in Nat : k <= N => over[k] \in Loop}
<1>7. \A x \in Loop : t[x] \in Loop
  <2> SUFFICES ASSUME NEW k \in 0 .. b PROVE t[over[k]] \in Loop
    OBVIOUS
  <2>1. CASE k = b
    BY <1>2, <2>1
  <2>2. CASE k # b
    <3> PICK m : m = k + 1
      OBVIOUS
    <3>1. m \in 1 .. N /\ m - 1 = k /\ m \in 0 .. b
      BY <1>2, <2>2
    <3>2. over[m] = t[over[k]]
      BY <1>2, <3>1
    <3> QED BY <3>1, <3>2
  <2> QED BY <2>1, <2>2
<1>8. over[0] \in Loop
  BY <1>2
<1> HIDE DEF Loop
<1>9. \A k \in Nat : k \in Q
  <2>1. 0 \in Q
    BY <1>8
  <2>2. ASSUME NEW k \in Nat, k \in Q PROVE k + 1 \in Q
    <3> SUFFICES ASSUME k + 1 <= N PROVE over[k + 1] \in Loop
      OBVIOUS
    <3> PICK m : m = k + 1
      OBVIOUS
    <3>1. m \in 1 .. N /\ m - 1 = k /\ k <= N
      BY <1>2
    <3>2. over[m] = t[over[k]]
      BY <1>2, <3>1
    <3> QED BY <1>7, <2>2, <3>1, <3>2
  <2> HIDE DEF Q
  <2> QED BY <2>1, <2>2, InductiveSetHasAll
<1>10. Root \in Loop
  BY <1>4, <1>9
<1>11. PICK k \in 0 .. b : over[k] = Root
  BY <1>10 DEF Loop
\* So the root came before d, and d would be the root.
<1>12. \A j \in k .. N : over[j] = Root
  <2>1. k \in 0 .. N
    BY <1>2, <1>11
  <2> QED BY <1>1, <1>11, <2>1, RootStays DEF N, over
<1> QED BY <1>2, <1>11, <1>12

\* The way up from a directory begins with it and goes on from its parent; only
\* the root has none.
LEMMA AboveIs ==
  ASSUME NEW t \in Trees, NEW d \in Dirs
  PROVE  /\ Above(t, d) \in SUBSET Dirs
         /\ d # Root => Above(t, d) = Above(t, t[d]) \cup {d}
         /\ Above(t, Root) = {Root}
<1> DEFINE N == Cardinality(Dirs)
           up == Chain(t, d)
           over == Chain(t, t[d])
           top == Chain(t, Root)
<1>1. t \in [Dirs -> Dirs] /\ t[d] \in Dirs /\ Root \in Dirs /\ t[Root] = Root
  BY ScanAssumption DEF Trees
<1>2. N \in Nat /\ up \in [0 .. N -> Dirs] /\ over \in [0 .. N -> Dirs] /\ top \in [0 .. N -> Dirs]
      /\ up[0] = d /\ top[0] = Root
  BY <1>1, ChainRight
<1>3. \A k \in Nat : k < N => over[k] = up[k + 1]
  BY ChainShift
<1>4. \A k \in 0 .. N : top[k] = Root
  <2>1. 0 \in 0 .. N
    BY <1>2
  <2> QED BY <1>1, <1>2, <2>1, RootStays
<1> HIDE DEF N, up, over, top
<1>5. Above(t, d) = {up[k] : k \in 0 .. N} /\ Above(t, t[d]) = {over[k] : k \in 0 .. N}
      /\ Above(t, Root) = {top[k] : k \in 0 .. N}
  BY <1>2 DEF Above, Range, up, over, top
<1>6. Above(t, d) \in SUBSET Dirs
  BY <1>2, <1>5
<1>7. Above(t, Root) = {Root}
  BY <1>2, <1>4, <1>5
<1>8. ASSUME NEW k \in 0 .. N PROVE up[k] \in Above(t, t[d]) \cup {d}
  <2>1. CASE k = 0
    BY <1>2, <2>1
  <2>2. CASE k # 0
    <3> PICK m : m = k - 1
      OBVIOUS
    <3>1. m \in Nat /\ m < N /\ m \in 0 .. N /\ m + 1 = k
      BY <1>2, <2>2
    <3>2. over[m] = up[k]
      BY <1>3, <3>1
    <3> QED BY <1>5, <3>1, <3>2
  <2> QED BY <2>1, <2>2
<1>9. Above(t, t[d]) \subseteq Above(t, d) /\ d \in Above(t, d)
  BY AboveParent
<1>10. Above(t, d) = Above(t, t[d]) \cup {d}
  BY <1>5, <1>8, <1>9
<1> QED BY <1>6, <1>7, <1>10

\* What lies above a directory on the way up lies on the way up.
LEMMA AboveAbove ==
  ASSUME NEW t \in Trees, NEW d \in Dirs, NEW a \in Above(t, d)
  PROVE  a \in Dirs /\ Above(t, a) \subseteq Above(t, d)
<1> DEFINE N == Cardinality(Dirs)
           up == Chain(t, d)
           Q == {k \in Nat : k <= N => Above(t, up[k]) \subseteq Above(t, d)}
<1>1. t \in [Dirs -> Dirs]
  BY DEF Trees
<1>2. /\ N \in Nat /\ up \in [0 .. N -> Dirs] /\ up[0] = d
      /\ \A k \in 1 .. N : up[k] = t[up[k - 1]]
  BY <1>1, ChainRight
<1> HIDE DEF N, up
<1>3. Above(t, d) = {up[k] : k \in 0 .. N}
  BY <1>2 DEF Above, Range, up
<1>4. 0 \in Q
  BY <1>2
<1>5. ASSUME NEW k \in Nat, k \in Q PROVE k + 1 \in Q
  <2> SUFFICES ASSUME k + 1 <= N PROVE Above(t, up[k + 1]) \subseteq Above(t, d)
    OBVIOUS
  <2> PICK m : m = k + 1
    OBVIOUS
  <2>1. m \in 1 .. N /\ m - 1 = k /\ k <= N /\ k \in 0 .. N
    BY <1>2
  <2>2. up[m] = t[up[k]] /\ up[k] \in Dirs
    BY <1>2, <2>1
  <2>3. Above(t, t[up[k]]) \subseteq Above(t, up[k])
    BY <2>2, AboveParent
  <2> QED BY <1>5, <2>1, <2>2, <2>3
<1> HIDE DEF Q
<1>6. \A k \in Nat : k \in Q
  BY <1>4, <1>5, InductiveSetHasAll
<1>7. PICK k \in 0 .. N : a = up[k]
  BY <1>3
<1>8. Above(t, up[k]) \subseteq Above(t, d)
  BY <1>2, <1>6, <1>7 DEF Q
<1> QED BY <1>2, <1>7, <1>8

\* A path is one name longer than that of the parent.
LEMMA DepthIs ==
  ASSUME NEW t \in Trees, NEW d \in Dirs
  PROVE  /\ Depth(t, d) \in Nat \ {0} /\ Depth(t, d) <= Cardinality(Dirs)
         /\ d # Root => Depth(t, d) = Depth(t, t[d]) + 1
         /\ Depth(t, Root) = 1
<1>1. IsFiniteSet(Dirs) /\ t[d] \in Dirs
  BY ScanAssumption DEF Trees
<1>2. Above(t, d) \in SUBSET Dirs /\ d \in Above(t, d) /\ Above(t, t[d]) \in SUBSET Dirs
  BY <1>1, AboveIs, AboveParent
<1>3. IsFiniteSet(Above(t, d)) /\ IsFiniteSet(Above(t, t[d])) /\ Cardinality(Above(t, d)) <= Cardinality(Dirs)
  BY <1>1, <1>2, FS_Subset
<1>4. Cardinality(Above(t, d)) \in Nat /\ Cardinality(Above(t, t[d])) \in Nat
      /\ Cardinality(Dirs) \in Nat
  BY <1>1, <1>3, FS_CardinalityType
<1>5. Cardinality(Above(t, d)) # 0
  BY <1>2, <1>3, FS_EmptySet
<1>6. ASSUME d # Root PROVE Cardinality(Above(t, d)) = Cardinality(Above(t, t[d])) + 1
  <2>1. Above(t, d) = Above(t, t[d]) \cup {d} /\ d \notin Above(t, t[d])
    BY <1>6, AboveIs, NoLoop
  <2> QED BY <1>3, <2>1, FS_AddElement
<1>7. Cardinality(Above(t, Root)) = 1
  <2>1. Above(t, Root) = {Root}
    BY AboveIs
  <2> QED BY <2>1, FS_Singleton
<1> QED BY <1>3, <1>4, <1>5, <1>6, <1>7 DEF Depth

DirNames == {NameOf[d] : d \in Dirs}

\* The path of a directory is that of its parent and its name.
LEMMA PathIs ==
  ASSUME NEW t \in Trees, NEW d \in Dirs
  PROVE  /\ PathIn(t, d) \in Seq(DirNames) /\ Len(PathIn(t, d)) = Depth(t, d)
         /\ d # Root => PathIn(t, d) = Append(PathIn(t, t[d]), NameOf[d])
         /\ PathIn(t, d)[Depth(t, d)] = NameOf[d]
<1> DEFINE N == Cardinality(Dirs)
           Is(c) == PathIn(t, c) \in Seq(DirNames) /\ Len(PathIn(t, c)) = Depth(t, c)
                    /\ \A i \in 1 .. Depth(t, c) :
                         PathIn(t, c)[i] = NameOf[Chain(t, c)[Depth(t, c) - i]]
<1>1. t \in [Dirs -> Dirs] /\ t[d] \in Dirs
  BY DEF Trees
<1>2. ASSUME NEW c \in Dirs PROVE Is(c)
  <2> PICK n : n = Depth(t, c)
    OBVIOUS
  <2>1. n \in Nat /\ N \in Nat /\ n <= N /\ Chain(t, c) \in [0 .. N -> Dirs]
    BY <1>1, DepthIs, ChainRight
  <2>2. \A i \in 1 .. n : n - i \in 0 .. N
    BY <2>1
  <2>3. \A i \in 1 .. n : NameOf[Chain(t, c)[n - i]] \in DirNames
    BY <2>1, <2>2 DEF DirNames
  <2>4. PathIn(t, c) = [i \in 1 .. n |-> NameOf[Chain(t, c)[n - i]]]
    BY DEF PathIn
  <2>5. PathIn(t, c) \in [1 .. n -> DirNames]
    BY <2>3, <2>4
  <2>6. PathIn(t, c) \in Seq(DirNames) /\ Len(PathIn(t, c)) = n
    BY <2>1, <2>5
  <2>7. \A i \in 1 .. n : PathIn(t, c)[i] = NameOf[Chain(t, c)[n - i]]
    BY <2>4
  <2> QED BY <2>6, <2>7
<1>3. Is(d) /\ Is(t[d])
  BY <1>1, <1>2
<1>4. Depth(t, d) \in Nat \ {0} /\ Depth(t, d) <= N /\ N \in Nat
  BY <1>1, DepthIs, ChainRight
<1>5. PathIn(t, d)[Depth(t, d)] = NameOf[d]
  <2>1. Depth(t, d) \in 1 .. Depth(t, d) /\ Depth(t, d) - Depth(t, d) = 0
    BY <1>4
  <2>2. Chain(t, d)[0] = d
    BY <1>1, ChainRight
  <2> QED BY <1>3, <2>1, <2>2
<1>6. ASSUME d # Root PROVE PathIn(t, d) = Append(PathIn(t, t[d]), NameOf[d])
  <2> PICK a, b : a = PathIn(t, d) /\ b = PathIn(t, t[d])
    OBVIOUS
  <2> PICK m, n : m = Depth(t, t[d]) /\ n = Depth(t, d)
    OBVIOUS
  <2>1. m \in Nat \ {0} /\ n = m + 1 /\ n <= N
    BY <1>1, <1>4, <1>6, DepthIs
  <2>2. a \in Seq(DirNames) /\ Len(a) = n /\ b \in Seq(DirNames) /\ Len(b) = m
    BY <1>3
  <2>3. NameOf[d] \in DirNames
    BY DEF DirNames
  <2>4. /\ Append(b, NameOf[d]) \in Seq(DirNames) /\ Len(Append(b, NameOf[d])) = m + 1
        /\ \A i \in 1 .. m : Append(b, NameOf[d])[i] = b[i]
        /\ Append(b, NameOf[d])[m + 1] = NameOf[d]
    BY <2>2, <2>3, AppendProperties
  <2>5. ASSUME NEW i \in 1 .. m PROVE a[i] = b[i]
    <3> PICK j, k : j = m - i /\ k = n - i
      OBVIOUS
    <3>1. j \in Nat /\ j < N /\ j + 1 = k /\ i \in 1 .. n
      BY <1>4, <2>1
    <3>2. Chain(t, t[d])[j] = Chain(t, d)[k]
      BY <3>1, ChainShift
    <3>3. a[i] = NameOf[Chain(t, d)[k]] /\ b[i] = NameOf[Chain(t, t[d])[j]]
      BY <1>3, <3>1
    <3> QED BY <3>2, <3>3
  <2>6. a[m + 1] = NameOf[d]
    BY <1>5, <2>1
  <2> PICK c : c = Append(b, NameOf[d])
    OBVIOUS
  <2>7. a \in Seq(DirNames) /\ c \in Seq(DirNames) /\ Len(a) = Len(c)
        /\ \A i \in 1 .. Len(a) : a[i] = c[i]
    <3>1. \A i \in 1 .. n : i \in 1 .. m \/ i = m + 1
      BY <2>1
    <3>2. \A i \in 1 .. n : a[i] = c[i]
      BY <2>4, <2>5, <2>6, <3>1
    <3> QED BY <2>1, <2>2, <2>4, <3>2
  <2>8. a = c
    BY <2>7, SeqEqual
  <2> QED BY <2>8
<1> QED BY <1>3, <1>5, <1>6

\* Paths that are the same end in the same name, below the same path.
LEMMA SameAppend ==
  ASSUME NEW a \in Seq(DirNames), NEW b \in Seq(DirNames), NEW x \in DirNames, NEW y \in DirNames,
         Append(a, x) = Append(b, y)
  PROVE  a = b /\ x = y
<1>1. Append(a, x) = Append(b, y) <=> a = b /\ x = y
  BY AppendInjective
<1> QED BY <1>1

\* A path leads to one directory.
LEMMA PathIsUnique ==
  ASSUME NEW t \in Trees, NEW c \in Dirs, NEW d \in Dirs, PathIn(t, c) = PathIn(t, d)
  PROVE  c = d
<1> DEFINE Q == {n \in Nat : \A x \in Dirs, y \in Dirs :
                   Depth(t, x) = n /\ PathIn(t, x) = PathIn(t, y) => x = y}
<1>1. \A x \in Dirs : Depth(t, x) \in Nat \ {0}
  BY DepthIs
<1>2. 0 \in Q
  BY <1>1
<1>3. ASSUME NEW n \in Nat, n \in Q PROVE n + 1 \in Q
  <2> SUFFICES ASSUME NEW x \in Dirs, NEW y \in Dirs,
                      Depth(t, x) = n + 1, PathIn(t, x) = PathIn(t, y)
               PROVE  x = y
    OBVIOUS
  <2>1. Depth(t, y) = n + 1
    BY PathIs
  <2>2. ASSUME NEW u \in Dirs, NEW v \in Dirs, Depth(t, u) = n + 1, Depth(t, v) = n + 1, u = Root
        PROVE  v = Root
    <3> SUFFICES ASSUME v # Root PROVE FALSE
      OBVIOUS
    <3>1. Depth(t, Root) = 1 /\ Depth(t, v) = Depth(t, t[v]) + 1 /\ t[v] \in Dirs
      BY DepthIs DEF Trees
    <3>2. Depth(t, t[v]) \in Nat \ {0}
      BY <1>1, <3>1
    <3> QED BY <2>2, <3>1, <3>2
  <2>3. CASE x = Root
    BY <2>1, <2>2, <2>3
  <2>4. CASE y = Root
    BY <2>1, <2>2, <2>4
  <2>5. CASE x # Root /\ y # Root
    <3>1. t[x] \in Dirs /\ t[y] \in Dirs
      BY DEF Trees
    <3>2. /\ PathIn(t, x) = Append(PathIn(t, t[x]), NameOf[x])
          /\ PathIn(t, y) = Append(PathIn(t, t[y]), NameOf[y])
      BY <2>5, PathIs
    <3>3. /\ PathIn(t, t[x]) \in Seq(DirNames) /\ PathIn(t, t[y]) \in Seq(DirNames)
          /\ NameOf[x] \in DirNames /\ NameOf[y] \in DirNames
      BY <3>1, PathIs DEF DirNames
    <3>4. PathIn(t, t[x]) = PathIn(t, t[y]) /\ NameOf[x] = NameOf[y]
      <4>1. Append(PathIn(t, t[x]), NameOf[x]) = Append(PathIn(t, t[y]), NameOf[y])
        BY <3>2, Zenon
      <4> PICK a, b, p, q : /\ a = PathIn(t, t[x]) /\ b = PathIn(t, t[y])
                            /\ p = NameOf[x] /\ q = NameOf[y]
        OBVIOUS
      <4>2. a \in Seq(DirNames) /\ b \in Seq(DirNames) /\ p \in DirNames /\ q \in DirNames
            /\ Append(a, p) = Append(b, q)
        BY <3>3, <4>1
      <4>3. a = b /\ p = q
        BY <4>2, SameAppend
      <4> QED BY <4>3
    <3>5. Depth(t, t[x]) = n
      <4>1. Depth(t, x) = Depth(t, t[x]) + 1 /\ Depth(t, t[x]) \in Nat
        BY <1>1, <2>5, <3>1, DepthIs
      <4> QED BY <4>1
    <3>6. t[x] = t[y]
      BY <1>3, <3>1, <3>4, <3>5
    <3>7. \A v, w \in Dirs \ {Root} : v # w /\ t[v] = t[w] => NameOf[v] # NameOf[w]
      BY DEF Trees
    <3> QED BY <2>5, <3>4, <3>6, <3>7
  <2> QED BY <2>3, <2>4, <2>5
<1> HIDE DEF Q
<1>4. \A n \in Nat : n \in Q
  BY <1>2, <1>3, InductiveSetHasAll
<1> QED BY <1>1, <1>4 DEF Q

\* The way up depends on the parents of the directories on it only.
LEMMA AboveKept ==
  ASSUME NEW t \in Trees, NEW u \in Trees, NEW d \in Dirs,
         \A a \in Above(u, d) : t[a] = u[a]
  PROVE  Chain(t, d) = Chain(u, d)
<1> DEFINE N == Cardinality(Dirs)
           f == Chain(t, d)
           g == Chain(u, d)
           Q == {k \in Nat : k <= N => f[k] = g[k]}
<1>1. /\ N \in Nat /\ f \in [0 .. N -> Dirs] /\ f[0] = d
      /\ \A k \in 1 .. N : f[k] = t[f[k - 1]]
  BY ChainRight DEF Trees
<1>2. /\ g \in [0 .. N -> Dirs] /\ g[0] = d
      /\ \A k \in 1 .. N : g[k] = u[g[k - 1]]
  BY ChainRight DEF Trees
<1> HIDE DEF N, f, g
<1>3. Above(u, d) = {g[k] : k \in 0 .. N}
  BY <1>2 DEF Above, Range, g
<1>4. 0 \in Q
  BY <1>1, <1>2
<1>5. ASSUME NEW k \in Nat, k \in Q PROVE k + 1 \in Q
  <2> SUFFICES ASSUME k + 1 <= N PROVE f[k + 1] = g[k + 1]
    OBVIOUS
  <2> PICK m : m = k + 1
    OBVIOUS
  <2>1. m \in 1 .. N /\ m - 1 = k /\ k <= N /\ k \in 0 .. N
    BY <1>1
  <2>2. f[m] = t[f[k]] /\ g[m] = u[g[k]] /\ f[k] = g[k] /\ g[k] \in Above(u, d)
    BY <1>1, <1>2, <1>3, <1>5, <2>1
  <2> QED BY <2>2
<1> HIDE DEF Q
<1>6. \A k \in 0 .. N : f[k] = g[k]
  <2>1. \A k \in Nat : k \in Q
    BY <1>4, <1>5, InductiveSetHasAll
  <2> QED BY <1>1, <2>1 DEF Q
<1>7. f = g
  BY <1>1, <1>2, <1>6
<1> QED BY <1>7 DEF f, g

-----------------------------------------------------------------------------
(* Ways a step changes the stack *)

\* The tree stays, or a renaming is on record.
TreeKept == (parent' = parent /\ moved' = moved) \/ moved' # <<>>

\* A call of the step before, that may have looked at another entry.
Stays(k) ==
  k \in 1 .. Len(stack) /\ stack'[k].dir = stack[k].dir /\ stack'[k].path = stack[k].path

\* The calls stay where they are; one may have read its path.
LEMMA StackKept ==
  ASSUME StackInv, TreeKept, been \subseteq been',
         stack' \in Seq(Frame), Len(stack') = Len(stack),
         \A k \in 1 .. Len(stack) :
           /\ stack'[k].dir = stack[k].dir
           /\ \/ stack'[k].path = stack[k].path
              \/ \E place \in been' : place[1] = stack[k].dir /\ stack'[k].path = DirPath(place[2])
  PROVE  StackInv'
<1>1. \A k \in 1 .. Len(stack) : stack[k].path # <<>> => WasAt(stack[k].dir, stack[k].path)
  BY DEF StackInv
<1>2. ASSUME NEW k \in 1 .. Len(stack'), stack'[k].path # <<>>
      PROVE  \E place \in been' : place[1] = stack'[k].dir /\ stack'[k].path = DirPath(place[2])
  <2>1. k \in 1 .. Len(stack) /\ stack'[k].dir = stack[k].dir
    OBVIOUS
  <2>2. CASE stack'[k].path = stack[k].path
    BY <1>1, <1>2, <2>1, <2>2 DEF WasAt
  <2>3. CASE stack'[k].path # stack[k].path
    BY <2>1, <2>3
  <2> QED BY <2>2, <2>3
<1>3. moved' = <<>> => Nested'
  <2> SUFFICES ASSUME moved' = <<>> PROVE Nested'
    OBVIOUS
  <2>1. parent' = parent /\ Nested
    BY DEF TreeKept, StackInv
  <2> QED BY <2>1 DEF Nested
<1> QED BY <1>2, <1>3 DEF StackInv, WasAt

\* An entry is passed.
LEMMA PassedKeeps ==
  ASSUME StackInv, stack # <<>>, NEW name, Passed(name), UNCHANGED <<parent, moved, been>>
  PROVE  StackInv' /\ \A k \in 1 .. Len(stack') : Stays(k)
<1> DEFINE n == Len(stack)
           top == [stack[n] EXCEPT !.todo = @ \ {name}]
<1>1. stack \in Seq(Frame) /\ n \in 1 .. n
  <2>1. stack \in Seq(Frame)
    BY DEF StackInv
  <2>2. n \in Nat \ {0}
    BY <2>1, EmptySeq
  <2> QED BY <2>1, <2>2
<1>2. stack[n] \in Frame
  BY <1>1, ElementOfSeq
<1>3. top \in Frame /\ top.dir = stack[n].dir /\ top.path = stack[n].path
  BY <1>2 DEF Frame
<1>4. stack' = [stack EXCEPT ![n] = top]
  BY DEF Passed
<1> HIDE DEF top, n
<1>5. /\ stack' \in Seq(Frame) /\ Len(stack') = Len(stack)
      /\ \A j \in 1 .. Len(stack) : stack'[j] = IF j = n THEN top ELSE stack[j]
  BY <1>1, <1>3, <1>4, ExceptSeq DEF n
<1>6. \A k \in 1 .. Len(stack) : stack'[k].dir = stack[k].dir /\ stack'[k].path = stack[k].path
  BY <1>3, <1>5
<1>7. StackInv'
  BY <1>5, <1>6, StackKept DEF TreeKept
<1> QED BY <1>5, <1>6, <1>7 DEF Stays

\* A call returns, or all of them do.
LEMMA StackFewer ==
  ASSUME StackInv, stack # <<>>, stack' = Front(stack) \/ stack' = <<>>,
         UNCHANGED <<parent, moved, been>>
  PROVE  StackInv' /\ \A k \in 1 .. Len(stack') : Stays(k)
<1> DEFINE n == Len(stack)
<1>1. stack \in Seq(Frame) /\ n \in Nat \ {0} /\ FdLimit \in Nat /\ n <= FdLimit
  <2>1. stack \in Seq(Frame) /\ n <= FdLimit
    BY DEF StackInv
  <2>2. n \in Nat \ {0}
    BY <2>1, EmptySeq
  <2> QED BY <2>1, <2>2, ScanAssumption
<1>2. CASE stack' = <<>>
  <2>1. stack' \in Seq(Frame) /\ Len(stack') = 0
    BY <1>2
  <2> QED BY <1>1, <2>1 DEF StackInv, Nested
<1>3. CASE stack' = Front(stack)
  <2> PICK m : m = n - 1
    OBVIOUS
  <2>1. stack' = SubSeq(stack, 1, m)
    BY <1>3 DEF Front
  <2>2. \A i \in 1 .. m : stack[i] \in Frame
    BY <1>1, ElementOfSeq
  <2>3. m \in Int /\ 1 \in Int
    BY <1>1
  <2>4. /\ SubSeq(stack, 1, m) \in Seq(Frame)
        /\ Len(SubSeq(stack, 1, m)) = IF 1 <= m THEN m - 1 + 1 ELSE 0
        /\ \A i \in 1 .. m - 1 + 1 : SubSeq(stack, 1, m)[i] = stack[1 + i - 1]
    BY <2>2, <2>3, SubSeqProperties
  <2>5. stack' \in Seq(Frame) /\ Len(stack') = m /\ \A i \in 1 .. m : stack'[i] = stack[i]
    <3>1. m - 1 + 1 = m /\ \A i \in 1 .. m : 1 + i - 1 = i
      BY <2>3
    <3>2. Len(stack') = m
      BY <1>1, <2>1, <2>4
    <3> QED BY <2>1, <2>4, <3>1, <3>2
  <2>6. m <= FdLimit /\ 1 .. m \subseteq 1 .. n
    BY <1>1
  <2> HIDE DEF n
  <2>7. \A k \in 1 .. Len(stack') : (stack[k].path # <<>> => WasAt(stack[k].dir, stack[k].path))'
    BY <2>5, <2>6 DEF StackInv, WasAt, n
  <2>8. moved' = <<>> => Nested'
    BY <2>5, <2>6 DEF StackInv, Nested, n
  <2>9. \A k \in 1 .. Len(stack') : Stays(k)
    BY <2>5, <2>6 DEF Stays, n
  <2> QED BY <2>5, <2>6, <2>7, <2>8, <2>9 DEF StackInv
<1> QED BY <1>2, <1>3

\* A call that calls itself for a directory below: the directories of the
\* calls still differ.
LEMMA StackDeeper ==
  ASSUME TreeInv, StackInv, stack # <<>>, Len(stack) < FdLimit,
         NEW name, NEW c \in Dirs \ {Root}, parent[c] = Top.dir,
         stack' = Append([stack EXCEPT ![Len(stack)].todo = @ \ {name}], Call(c)),
         UNCHANGED <<parent, moved, been>>
  PROVE  /\ StackInv'
         /\ \A k \in 1 .. Len(stack') : Stays(k) \/ (stack'[k].dir = c /\ stack'[k].path = <<>>)
<1> DEFINE n == Len(stack)
           top == [stack[n] EXCEPT !.todo = @ \ {name}]
           cut == [stack EXCEPT ![n] = top]
<1>1. stack \in Seq(Frame) /\ n \in 1 .. n /\ n \in Nat \ {0}
  <2>1. stack \in Seq(Frame)
    BY DEF StackInv
  <2>2. n \in Nat \ {0}
    BY <2>1, EmptySeq
  <2> QED BY <2>1, <2>2
<1>2. stack[n] \in Frame
  BY <1>1, ElementOfSeq
<1>3. top \in Frame /\ top.dir = stack[n].dir /\ top.path = stack[n].path
  BY <1>2 DEF Frame
<1>4. stack' = Append(cut, Call(c))
  OBVIOUS
<1>5. Call(c) \in Frame /\ Call(c).dir = c /\ Call(c).path = <<>>
  BY DEF Call, Frame
<1> HIDE DEF top, n
<1>6. /\ cut \in Seq(Frame) /\ Len(cut) = n
      /\ \A j \in 1 .. n : cut[j] = IF j = n THEN top ELSE stack[j]
  BY <1>1, <1>3, ExceptSeq DEF n
<1> HIDE DEF cut
<1>7. /\ stack' \in Seq(Frame) /\ Len(stack') = n + 1 /\ stack'[n + 1] = Call(c)
      /\ \A j \in 1 .. n : stack'[j] = cut[j]
  <2> PICK call : call = Call(c)
    OBVIOUS
  <2>1. stack' = Append(cut, call) /\ call \in Frame
    BY <1>4, <1>5
  <2>2. /\ Append(cut, call) \in Seq(Frame) /\ Len(Append(cut, call)) = n + 1
        /\ (\A j \in 1 .. n : Append(cut, call)[j] = cut[j]) /\ Append(cut, call)[n + 1] = call
    BY <1>6, <2>1, AppendProperties
  <2> QED BY <2>1, <2>2, Zenon
<1>8. /\ \A j \in 1 .. n : stack'[j].dir = stack[j].dir /\ stack'[j].path = stack[j].path
      /\ stack'[n + 1].dir = c /\ stack'[n + 1].path = <<>>
  BY <1>3, <1>5, <1>6, <1>7
<1>9. \A k \in 1 .. Len(stack') : (stack[k].path # <<>> => WasAt(stack[k].dir, stack[k].path))'
  <2> SUFFICES ASSUME NEW k \in 1 .. Len(stack'), stack'[k].path # <<>>
               PROVE  WasAt(stack[k].dir, stack[k].path)'
    OBVIOUS
  <2>1. k \in 1 .. n
    BY <1>1, <1>7, <1>8
  <2>2. WasAt(stack[k].dir, stack[k].path)
    BY <1>8, <2>1 DEF StackInv, n
  <2> QED BY <1>8, <2>1, <2>2 DEF WasAt
<1>10. moved' = <<>> => Nested'
  <2> SUFFICES ASSUME moved' = <<>>, NEW j \in 1 .. n + 1, NEW k \in 1 .. n + 1, j < k
               PROVE  stack'[k].dir # Root /\ stack'[j].dir \in Above(parent, parent[stack'[k].dir])
    BY <1>7 DEF Nested
  <2>1. Nested /\ parent \in Trees
    BY DEF StackInv, TreeInv
  <2>2. CASE k # n + 1
    <3>1. j \in 1 .. n /\ k \in 1 .. n
      BY <1>1, <2>2
    <3> QED BY <1>8, <2>1, <3>1 DEF Nested, n
  <2>3. CASE k = n + 1
    <3>1. j \in 1 .. n /\ stack'[k].dir = c /\ parent[c] = stack[n].dir /\ stack'[j].dir = stack[j].dir
      BY <1>1, <1>8, <2>3 DEF Top, Last, n
    <3>2. stack[n].dir \in Dirs
      BY <1>2 DEF Frame
    <3>3. CASE j = n
      BY <2>1, <3>1, <3>2, <3>3, AboveParent
    <3>4. CASE j # n
      <4>1. stack[j].dir \in Above(parent, parent[stack[n].dir])
        BY <1>1, <2>1, <3>1, <3>4 DEF Nested, n
      <4> QED BY <2>1, <3>1, <3>2, <4>1, AboveParent
    <3> QED BY <3>3, <3>4
  <2> QED BY <2>2, <2>3
<1>11. Len(stack') <= FdLimit
  BY <1>1, <1>7, ScanAssumption DEF n
<1>12. ASSUME NEW k \in 1 .. Len(stack')
       PROVE  Stays(k) \/ (stack'[k].dir = c /\ stack'[k].path = <<>>)
  <2>1. k \in 1 .. n \/ k = n + 1
    BY <1>1, <1>7
  <2> QED BY <1>8, <2>1 DEF Stays, n
<1> QED BY <1>7, <1>9, <1>10, <1>11, <1>12 DEF StackInv

\* The entries of a directory.
LEMMA EntriesAreNames == ASSUME NEW d \in Dirs PROVE EntriesOf(d) \in SUBSET EntryName
BY DEF EntriesOf, EntryName

\* The top of the stack is one of the calls.
LEMMA TopIsCall ==
  ASSUME StackInv, stack # <<>>
  PROVE  /\ stack \in Seq(Frame) /\ Len(stack) \in Nat \ {0} /\ Len(stack) \in 1 .. Len(stack)
         /\ Top = stack[Len(stack)] /\ Top \in Frame
<1>1. stack \in Seq(Frame)
  BY DEF StackInv
<1>2. Len(stack) \in Nat \ {0}
  BY <1>1, EmptySeq
<1>3. Len(stack) \in 1 .. Len(stack)
  BY <1>2
<1>4. stack[Len(stack)] \in Frame
  BY <1>1, <1>3, ElementOfSeq
<1> QED BY <1>1, <1>2, <1>3, <1>4 DEF Top, Last

\* The call that has read its path.
Entered(k) ==
  stack'[k].dir = Top.dir /\ stack'[k].path = DirPath(PathOf(Top.dir))

\* A call reads the path that its directory has now.
LEMMA EnterKeeps ==
  ASSUME TreeInv, StackInv, Enter
  PROVE  StackInv' /\ \A k \in 1 .. Len(stack') : Stays(k) \/ Entered(k)
<1> DEFINE n == Len(stack)
           path == DirPath(PathOf(Top.dir))
<1>1. stack # <<>> /\ UNCHANGED <<parent, moved, been>>
  BY DEF Enter, EnterAs, Calling, treeVars
<1>2. stack \in Seq(Frame) /\ n \in 1 .. n /\ Top = stack[n] /\ Top \in Frame
  BY <1>1, TopIsCall
<1>3. Top.dir \in Dirs
  BY <1>2 DEF Frame
<1>4. path \in AllPaths /\ <<Top.dir, PathOf(Top.dir)>> \in been
  BY <1>3 DEF TreeInv, AllPaths, PathOf
<1>5. EnterAs(path)
  BY DEF Enter
<1> HIDE DEF path, n
<1>6. CASE stack' = <<>>
  BY <1>1, <1>6, StackFewer
<1>7. ASSUME NEW todo \in SUBSET EntryName,
             stack' = [stack EXCEPT ![Len(stack)].path = path, ![Len(stack)].todo = todo]
      PROVE  StackInv' /\ \A k \in 1 .. Len(stack') : Stays(k) \/ Entered(k)
  <2> DEFINE top == [Top EXCEPT !.path = path, !.todo = todo]
  <2>1. top \in Frame /\ top.dir = Top.dir /\ top.path = path
    BY <1>2, <1>4 DEF Frame
  <2>2. stack' = [stack EXCEPT ![n] = top]
    <3>1. DOMAIN stack = 1 .. n
      BY <1>2, LenProperties DEF n
    <3> QED BY <1>2, <1>7, <3>1 DEF n
  <2> HIDE DEF top
  <2>3. /\ stack' \in Seq(Frame) /\ Len(stack') = n
        /\ \A j \in 1 .. n : stack'[j] = IF j = n THEN top ELSE stack[j]
    BY <1>2, <2>1, <2>2, ExceptSeq DEF n
  <2>4. ASSUME NEW k \in 1 .. n
        PROVE  /\ stack'[k].dir = stack[k].dir
               /\ \/ stack'[k].path = stack[k].path
                  \/ \E place \in been' : place[1] = stack[k].dir /\ stack'[k].path = DirPath(place[2])
    <3>1. CASE k # n
      BY <2>3, <3>1
    <3>2. CASE k = n
      <4>1. stack'[k].dir = stack[k].dir /\ stack'[k].path = DirPath(PathOf(stack[k].dir))
        BY <1>2, <2>1, <2>3, <3>2 DEF path
      <4>2. <<stack[k].dir, PathOf(stack[k].dir)>> \in been'
        BY <1>1, <1>2, <1>4, <3>2
      <4> QED BY <4>1, <4>2
    <3> QED BY <3>1, <3>2
  <2>5. StackInv'
    BY <1>1, <2>3, <2>4, StackKept DEF TreeKept, n
  <2>6. ASSUME NEW k \in 1 .. n PROVE Stays(k) \/ Entered(k)
    <3>1. CASE k # n
      BY <2>3, <3>1 DEF Stays, n
    <3>2. CASE k = n
      <4>1. stack'[k].dir = Top.dir /\ stack'[k].path = path
        BY <1>2, <2>1, <2>3, <3>2
      <4> QED BY <4>1 DEF Entered, path
    <3> QED BY <3>1, <3>2
  <2> QED BY <2>3, <2>5, <2>6
<1>8. EntriesOf(Top.dir) \in SUBSET EntryName /\ {} \in SUBSET EntryName
  BY <1>3, EntriesAreNames
<1> QED BY <1>5, <1>6, <1>7, <1>8 DEF EnterAs

\* The call goes on with the entries of its directory.
LEMMA EnterRebuiltKeeps ==
  ASSUME TreeInv, StackInv, EnterRebuilt
  PROVE  StackInv' /\ \A k \in 1 .. Len(stack') : Stays(k)
<1> DEFINE n == Len(stack)
<1>1. stack # <<>> /\ UNCHANGED <<parent, moved, been>>
  BY DEF EnterRebuilt, Calling, treeVars
<1>2. stack \in Seq(Frame) /\ n \in 1 .. n /\ Top = stack[n] /\ Top \in Frame
  BY <1>1, TopIsCall
<1>3. CASE stack' = <<>>
  BY <1>1, <1>3, StackFewer
<1>4. CASE stack' = [stack EXCEPT ![Len(stack)].todo = EntriesOf(Top.dir)]
  <2> DEFINE top == [stack[n] EXCEPT !.todo = EntriesOf(Top.dir)]
  <2>1. EntriesOf(Top.dir) \in SUBSET EntryName
    BY <1>2, EntriesAreNames DEF Frame
  <2>2. top \in Frame /\ top.dir = stack[n].dir /\ top.path = stack[n].path
    BY <1>2, <2>1 DEF Frame
  <2>3. stack' = [stack EXCEPT ![n] = top]
    BY <1>4
  <2> HIDE DEF top, n
  <2>4. /\ stack' \in Seq(Frame) /\ Len(stack') = n
        /\ \A j \in 1 .. n : stack'[j] = IF j = n THEN top ELSE stack[j]
    BY <1>2, <2>2, <2>3, ExceptSeq DEF n
  <2>5. \A k \in 1 .. n : stack'[k].dir = stack[k].dir /\ stack'[k].path = stack[k].path
    BY <2>2, <2>4
  <2>6. StackInv'
    BY <1>1, <2>4, <2>5, StackKept DEF TreeKept, n
  <2> QED BY <2>4, <2>5, <2>6 DEF Stays, n
<1> QED BY <1>3, <1>4 DEF EnterRebuilt

\* Directory d is renamed to one in p, which calls that are reading p may see.
Renamed(d, p, sees) ==
  /\ [parent EXCEPT ![d] = p] \in Trees /\ parent' = [parent EXCEPT ![d] = p]
  /\ moved' = Append(moved, d)
  /\ been' = been \cup {<<c, PathIn([parent EXCEPT ![d] = p], c)>> : c \in Dirs}
  /\ \A k \in sees : stack[k].dir = p
  /\ stack' = [k \in DOMAIN stack |->
                 IF k \in sees THEN [stack[k] EXCEPT !.todo = @ \cup {NameOf[d]}] ELSE stack[k]]

\* That is what a renaming is.
LEMMA MoveRenames ==
  ASSUME Move
  PROVE  \E d \in Dirs, p \in Dirs, sees \in SUBSET (DOMAIN stack) : Renamed(d, p, sees)
<1> DEFINE Reads(k, p) == stack[k].dir = p /\ stack[k].path # <<>>
<1>1. PICK d \in Dirs \ (Mounts \cup BindMounts \cup {Root}), p \in Dirs :
        /\ [parent EXCEPT ![d] = p] \in Trees /\ parent' = [parent EXCEPT ![d] = p]
        /\ moved' = Append(moved, d)
        /\ been' = been \cup {<<c, PathIn([parent EXCEPT ![d] = p], c)>> : c \in Dirs}
        /\ \E sees \in SUBSET {k \in DOMAIN stack : Reads(k, p)} :
             stack' = [k \in DOMAIN stack |->
                         IF k \in sees THEN [stack[k] EXCEPT !.todo = @ \cup {NameOf[d]}] ELSE stack[k]]
  BY DEF Move
<1>2. PICK sees \in SUBSET {k \in DOMAIN stack : Reads(k, p)} :
        stack' = [k \in DOMAIN stack |->
                    IF k \in sees THEN [stack[k] EXCEPT !.todo = @ \cup {NameOf[d]}] ELSE stack[k]]
  BY <1>1
<1>3. sees \in SUBSET (DOMAIN stack) /\ \A k \in sees : stack[k].dir = p
  OBVIOUS
<1>4. Renamed(d, p, sees)
  BY <1>1, <1>2, <1>3 DEF Renamed
<1> QED BY <1>3, <1>4

\* Another process renames a directory; calls that are reading may see it.
LEMMA MoveKeeps ==
  ASSUME TreeInv, StackInv, Move
  PROVE  /\ TreeInv' /\ StackInv' /\ been \subseteq been'
         /\ \A k \in 1 .. Len(stack') : Stays(k)
<1>0. PICK d \in Dirs, p \in Dirs, sees \in SUBSET (DOMAIN stack) : Renamed(d, p, sees)
  BY MoveRenames
<1>1. /\ [parent EXCEPT ![d] = p] \in Trees /\ parent' = [parent EXCEPT ![d] = p]
      /\ moved' = Append(moved, d)
      /\ been' = been \cup {<<c, PathIn([parent EXCEPT ![d] = p], c)>> : c \in Dirs}
      /\ stack' = [k \in DOMAIN stack |->
                     IF k \in sees THEN [stack[k] EXCEPT !.todo = @ \cup {NameOf[d]}] ELSE stack[k]]
  BY <1>0 DEF Renamed
<1>2. parent' \in Trees /\ been' = been \cup {<<c, PathIn(parent', c)>> : c \in Dirs}
  BY <1>1
<1>3. moved' \in Seq(Dirs) /\ moved' # <<>>
  <2>1. moved \in Seq(Dirs) /\ d \in Dirs
    BY DEF TreeInv
  <2> QED BY <1>1, <2>1, AppendProperties
<1>4. TreeInv'
  <2>1. \A c \in Dirs : <<c, PathIn(parent', c)>> \in been'
    BY <1>2
  <2> QED BY <1>2, <1>3, <2>1 DEF TreeInv, PathOf
<1>5. been \subseteq been'
  BY <1>2
<1>6. stack \in Seq(Frame) /\ Len(stack) \in Nat /\ DOMAIN stack = 1 .. Len(stack)
  <2>1. stack \in Seq(Frame)
    BY DEF StackInv
  <2> QED BY <2>1, LenProperties
<1>7. ASSUME NEW k \in 1 .. Len(stack)
      PROVE  stack'[k] \in Frame /\ stack'[k].dir = stack[k].dir /\ stack'[k].path = stack[k].path
  <2>1. stack[k] \in Frame /\ NameOf[d] \in EntryName
    BY <1>6, ElementOfSeq DEF EntryName
  <2> DEFINE more == [stack[k] EXCEPT !.todo = @ \cup {NameOf[d]}]
  <2>2. more \in Frame /\ more.dir = stack[k].dir /\ more.path = stack[k].path
    BY <2>1 DEF Frame
  <2>3. stack'[k] = IF k \in sees THEN more ELSE stack[k]
    BY <1>1, <1>6
  <2> HIDE DEF more
  <2> QED BY <2>1, <2>2, <2>3
<1>8. stack' \in Seq(Frame) /\ Len(stack') = Len(stack)
  <2>1. stack' \in [1 .. Len(stack) -> Frame]
    <3>1. DOMAIN stack' = 1 .. Len(stack)
      BY <1>1, <1>6
    <3>2. stack' = [k \in 1 .. Len(stack) |-> stack'[k]]
      BY <1>1, <1>6
    <3> QED BY <1>7, <3>2
  <2> QED BY <1>6, <2>1
<1>9. StackInv'
  BY <1>3, <1>5, <1>7, <1>8, StackKept DEF TreeKept
<1>10. \A k \in 1 .. Len(stack') : Stays(k)
  BY <1>7, <1>8 DEF Stays
<1> QED BY <1>4, <1>5, <1>9, <1>10

-----------------------------------------------------------------------------
(* Files that are found *)

\* The id of a path leads to the path, and the paths there were keep theirs.
LEMMA StoreStringRight ==
  ASSUME CacheInv, NEW path \in AllPaths,
         paths' = IF path \in Range(paths) THEN paths ELSE Append(paths, path)
  PROVE  /\ paths' \in Seq(AllPaths)
         /\ StoreString(path) \in Nat /\ StoreString(path) < Len(paths')
         /\ paths'[StoreString(path) + 1] = path
         /\ Len(paths) <= Len(paths') /\ \A i \in 1 .. Len(paths) : paths'[i] = paths[i]
         /\ \A i, j \in 1 .. Len(paths') : i # j => paths'[i] # paths'[j]
<1>1. paths \in Seq(AllPaths) /\ Len(paths) \in Nat /\ DOMAIN paths = 1 .. Len(paths)
  <2>1. paths \in Seq(AllPaths)
    BY DEF CacheInv
  <2> QED BY <2>1, LenProperties
<1>2. \A i, j \in 1 .. Len(paths) : i # j => paths[i] # paths[j]
  BY DEF CacheInv
<1>3. CASE path \in Range(paths)
  <2>1. paths' = paths
    BY <1>3
  <2>2. PICK k \in 1 .. Len(paths) : paths[k] = path
    BY <1>1, <1>3 DEF Range
  <2>3. k - 1 \in 0 .. Len(paths) - 1 /\ paths[(k - 1) + 1] = path
    BY <1>1, <2>2
  <2>4. \E i \in 0 .. Len(paths) - 1 : paths[i + 1] = path
    BY <2>3
  <2>5. StoreString(path) = CHOOSE i \in 0 .. Len(paths) - 1 : paths[i + 1] = path
    BY <1>3 DEF StoreString
  <2>6. StoreString(path) \in 0 .. Len(paths) - 1 /\ paths[StoreString(path) + 1] = path
    BY <2>4, <2>5, Zenon
  <2> PICK id : id = StoreString(path)
    OBVIOUS
  <2>7. id \in Nat /\ id < Len(paths) /\ paths[id + 1] = path
    BY <1>1, <2>6
  <2> HIDE DEF StoreString
  <2>8. Len(paths) <= Len(paths)
    BY <1>1
  <2> QED BY <1>1, <1>2, <2>1, <2>7, <2>8
<1>4. CASE path \notin Range(paths)
  <2>1. paths' = Append(paths, path) /\ StoreString(path) = Len(paths)
    BY <1>4 DEF StoreString
  <2>2. /\ paths' \in Seq(AllPaths) /\ Len(paths') = Len(paths) + 1
        /\ (\A i \in 1 .. Len(paths) : paths'[i] = paths[i]) /\ paths'[Len(paths) + 1] = path
    BY <1>1, <2>1, AppendProperties
  <2>3. \A i \in 1 .. Len(paths) : paths[i] # path
    BY <1>1, <1>4 DEF Range
  <2>4. ASSUME NEW i \in 1 .. Len(paths'), NEW j \in 1 .. Len(paths'), i # j
        PROVE  paths'[i] # paths'[j]
    <3>1. CASE i # Len(paths) + 1 /\ j # Len(paths) + 1
      <4>1. i \in 1 .. Len(paths) /\ j \in 1 .. Len(paths)
        BY <1>1, <2>2, <3>1
      <4> QED BY <1>2, <2>2, <2>4, <4>1
    <3>2. CASE i = Len(paths) + 1
      <4>1. j \in 1 .. Len(paths)
        BY <1>1, <2>2, <2>4, <3>2
      <4> QED BY <2>2, <2>3, <3>2, <4>1
    <3>3. CASE j = Len(paths) + 1
      <4>1. i \in 1 .. Len(paths)
        BY <1>1, <2>2, <2>4, <3>3
      <4> QED BY <2>2, <2>3, <3>3, <4>1
    <3> QED BY <3>1, <3>2, <3>3
  <2> QED BY <1>1, <2>1, <2>2, <2>4
<1> QED BY <1>3, <1>4

\* A list of names given to the dictionary builder stays within its limit.
LEMMA SampleRight ==
  ASSUME NEW S, NEW names \in Seq(S), NEW limit \in Nat, Len(names) <= limit, NEW name \in S
  PROVE  Sample(names, limit, name) \in Seq(S) /\ Len(Sample(names, limit, name)) <= limit
<1>1. Len(names) \in Nat /\ Append(names, name) \in Seq(S) /\ Len(Append(names, name)) = Len(names) + 1
  BY LenProperties, AppendProperties
<1> QED BY <1>1 DEF Sample

\* What has been found stays where it was found.
LEMMA FoundKept ==
  ASSUME CacheInv, FoundInv, UNCHANGED <<found, paths>>, been \subseteq been'
  PROVE  CacheInv' /\ FoundInv'
<1>1. CacheInv'
  BY DEF CacheInv
<1>2. FoundInv'
  BY DEF FoundInv, WasAt
<1> QED BY <1>1, <1>2

\* A file that was found before, and one that is found now.
FoundBefore(i) ==
  /\ i \in 1 .. Len(found) /\ found'[i] = found[i]
  /\ paths'[found[i].path_id + 1] = paths[found[i].path_id + 1]

FoundNow(i) ==
  found'[i].name \in Tracked /\ paths'[found'[i].path_id + 1] = Top.path

\* A file is found in the directory of the call, at the path it has read.
LEMMA FindFileKeeps ==
  ASSUME StackInv, CacheInv, FoundInv, SamplesInv, FindFile
  PROVE  /\ StackInv' /\ CacheInv' /\ FoundInv' /\ SamplesInv'
         /\ \A k \in 1 .. Len(stack') : Stays(k)
         /\ \A i \in 1 .. Len(found') : FoundBefore(i) \/ FoundNow(i)
<1>1. PICK name \in Top.todo \cap FilesIn[Top.dir] \cap Tracked :
        /\ file_samples' = Sample(file_samples, MaxFileSamples, name)
        /\ found' = Append(found, [name |-> name, path_id |-> StoreString(Top.path)])
        /\ Passed(name)
  BY DEF FindFile
<1>2. /\ stack # <<>> /\ Top.path # <<>> /\ UNCHANGED <<parent, moved, been, path_samples>>
      /\ paths' = IF Top.path \in Range(paths) THEN paths ELSE Append(paths, Top.path)
  BY DEF FindFile, Reading, Calling, treeVars
<1>3. StackInv' /\ \A k \in 1 .. Len(stack') : Stays(k)
  BY <1>1, <1>2, PassedKeeps
<1>4. /\ Top = stack[Len(stack)] /\ Len(stack) \in 1 .. Len(stack)
      /\ Top.dir \in Dirs /\ Top.path \in AllPaths
  <2>1. Top \in Frame /\ Top = stack[Len(stack)] /\ Len(stack) \in 1 .. Len(stack)
    BY <1>2, TopIsCall
  <2> QED BY <1>2, <2>1 DEF Frame
<1>5. WasAt(Top.dir, Top.path)
  BY <1>2, <1>4 DEF StackInv
<1>6. name \in EntryName /\ name \in FilesIn[Top.dir]
  BY <1>1, <1>4 DEF EntryName
<1> DEFINE id == StoreString(Top.path)
           new == [name |-> name, path_id |-> id]
           E == [name : EntryName, path_id : Nat]
<1>7. /\ paths' \in Seq(AllPaths) /\ id \in Nat /\ id < Len(paths') /\ paths'[id + 1] = Top.path
      /\ Len(paths) <= Len(paths') /\ (\A i \in 1 .. Len(paths) : paths'[i] = paths[i])
      /\ \A i, j \in 1 .. Len(paths') : i # j => paths'[i] # paths'[j]
  BY <1>2, <1>4, StoreStringRight
<1>8. paths \in Seq(AllPaths) /\ found \in Seq(E) /\ Len(paths) \in Nat /\ Len(found) \in Nat
  <2>1. paths \in Seq(AllPaths) /\ found \in Seq(E)
    BY DEF CacheInv
  <2> QED BY <2>1, LenProperties
<1> HIDE DEF id
<1>9. new \in E /\ new.name = name /\ new.path_id = id
  BY <1>6, <1>7
<1>10. found' = Append(found, new)
  BY <1>1 DEF id
<1> HIDE DEF new, E
<1>11. /\ found' \in Seq(E) /\ Len(found') = Len(found) + 1
       /\ (\A i \in 1 .. Len(found) : found'[i] = found[i]) /\ found'[Len(found) + 1] = new
  BY <1>8, <1>9, <1>10, AppendProperties
<1>12. CacheInv'
  BY <1>7, <1>11 DEF CacheInv, E
<1>13. ASSUME NEW i \in 1 .. Len(found')
       PROVE  /\ found'[i].path_id < Len(paths')
              /\ \E d \in Dirs : found'[i].name \in FilesIn[d] /\ WasAt(d, paths'[found'[i].path_id + 1])
              /\ FoundBefore(i) \/ FoundNow(i)
  <2>1. CASE i = Len(found) + 1
    <3>1. FoundNow(i)
      BY <1>1, <1>7, <1>9, <1>11, <2>1 DEF FoundNow
    <3> QED BY <1>4, <1>5, <1>6, <1>7, <1>9, <1>11, <2>1, <3>1
  <2>2. CASE i # Len(found) + 1
    <3>1. i \in 1 .. Len(found) /\ found'[i] = found[i]
      BY <1>8, <1>11, <2>2
    <3>2. found[i] \in E
      BY <1>8, <3>1, ElementOfSeq
    <3> PICK p : p = found[i].path_id
      OBVIOUS
    <3>3. p \in Nat /\ p < Len(paths)
          /\ \E d \in Dirs : found[i].name \in FilesIn[d] /\ WasAt(d, paths[p + 1])
      BY <3>1, <3>2 DEF FoundInv, E
    <3>4. p + 1 \in 1 .. Len(paths) /\ p < Len(paths')
      <4>1. /\ p \in Nat /\ p < Len(paths) /\ Len(paths) \in Nat /\ Len(paths') \in Nat
            /\ Len(paths) <= Len(paths')
        BY <1>7, <1>8, <3>3, LenProperties
      <4> QED BY <4>1
    <3>5. paths'[p + 1] = paths[p + 1]
      BY <1>7, <3>4
    <3>6. FoundBefore(i)
      BY <3>1, <3>5 DEF FoundBefore
    <3> QED BY <3>1, <3>3, <3>4, <3>5, <3>6
  <2> QED BY <2>1, <2>2
<1>14. FoundInv'
  BY <1>2, <1>13 DEF FoundInv, WasAt
<1>15. SamplesInv'
  <2>1. Sample(file_samples, MaxFileSamples, name) \in Seq(EntryName)
        /\ Len(Sample(file_samples, MaxFileSamples, name)) <= MaxFileSamples
    BY <1>6, SampleRight, ScanAssumption DEF SamplesInv
  <2> QED BY <1>1, <1>2, <2>1 DEF SamplesInv
<1> QED BY <1>3, <1>12, <1>13, <1>14, <1>15

-----------------------------------------------------------------------------
(* The invariant of the scan *)

\* A scan that has not begun.
LEMMA ScanInit == Init => ScanInv
<1> SUFFICES ASSUME Init PROVE ScanInv
  OBVIOUS
<1>1. TreeInv
  <2>1. \A d \in Dirs : <<d, PathOf(d)>> \in {<<c, PathOf(c)>> : c \in Dirs}
    OBVIOUS
  <2> QED BY <2>1 DEF Init, TreeInv
<1>2. StackInv
  <2>1. stack = <<>> /\ Len(stack) = 0 /\ stack \in Seq(Frame)
    BY DEF Init
  <2> QED BY <2>1, ScanAssumption DEF StackInv, Nested
<1>3. CacheInv /\ FoundInv
  BY DEF Init, CacheInv, FoundInv
<1>4. SamplesInv
  <2>1. file_samples = <<>> /\ path_samples = <<>> /\ Len(<<>>) = 0 /\ <<>> \in Seq(EntryName)
    BY DEF Init
  <2> QED BY <2>1, ScanAssumption DEF SamplesInv
<1>5. ResultInv
  BY DEF Init, ResultInv
<1> QED BY <1>1, <1>2, <1>3, <1>4, <1>5 DEF ScanInv

\* What a step does that leaves tree and files alone.
LEMMA OthersKept ==
  ASSUME ScanInv, UNCHANGED treeVars, UNCHANGED foundVars, StackInv', ResultInv'
  PROVE  ScanInv'
<1>1. TreeInv'
  BY DEF ScanInv, TreeInv, treeVars, PathOf
<1>2. CacheInv' /\ FoundInv'
  BY FoundKept DEF ScanInv, treeVars, foundVars
<1>3. SamplesInv'
  BY DEF ScanInv, SamplesInv, foundVars
<1> QED BY <1>1, <1>2, <1>3 DEF ScanInv

\* The calls are not touched.
LEMMA StackUntouched ==
  ASSUME StackInv, UNCHANGED <<stack, parent, moved, been>>
  PROVE  StackInv'
BY DEF StackInv, Nested, WasAt

\* Every step of the scan keeps its invariant.
LEMMA ScanStepKeeps ==
  ASSUME ScanInv, ScanStep
  PROVE  ScanInv'
<1>1. TreeInv /\ StackInv /\ CacheInv /\ FoundInv /\ SamplesInv /\ ResultInv
  BY DEF ScanInv
<1>2. CASE OpenRoot
  <2>1. stack' = <<Call(Root)>> /\ UNCHANGED treeVars /\ UNCHANGED foundVars /\ result' = "scanning"
    BY <1>2 DEF OpenRoot
  <2>2. Call(Root) \in Frame /\ Call(Root).path = <<>>
    BY ScanAssumption DEF Call, Frame
  <2> PICK call : call = Call(Root)
    OBVIOUS
  <2>3. stack' = <<call>> /\ call \in Frame /\ call.path = <<>>
    BY <2>1, <2>2
  <2>4. stack' \in Seq(Frame) /\ Len(stack') = 1 /\ stack'[1] = call
    BY <2>3
  <2>5. 1 <= FdLimit
    BY ScanAssumption
  <2>6. StackInv'
    BY <2>3, <2>4, <2>5 DEF StackInv, Nested
  <2> QED BY <2>1, <2>6, OthersKept DEF ResultInv
<1>3. CASE \/ RootFails \/ EnterWithoutPath \/ RebuildList \/ RebuildWithoutFile
           \/ GiveUp \/ UseNoStream
  <2>1. UNCHANGED <<treeVars, foundVars, stack>> /\ ResultInv'
    BY <1>1, <1>3
       DEF RootFails, EnterWithoutPath, RebuildList, RebuildWithoutFile, GiveUp, UseNoStream, ResultInv
  <2>2. StackInv'
    BY <1>1, <2>1, StackUntouched DEF treeVars
  <2> QED BY <2>1, <2>2, OthersKept
<1>4. CASE EnterPruned \/ Return
  <2>1. stack # <<>> /\ stack' = Front(stack) /\ UNCHANGED <<treeVars, foundVars>> /\ ResultInv'
    BY <1>1, <1>4 DEF EnterPruned, Return, Reading, Calling, ResultInv
  <2>2. StackInv'
    BY <1>1, <2>1, StackFewer DEF treeVars
  <2> QED BY <2>1, <2>2, OthersKept
<1>5. CASE Enter
  <2>1. UNCHANGED <<treeVars, foundVars>> /\ ResultInv'
    BY <1>1, <1>5 DEF Enter, EnterAs, ResultInv
  <2>2. StackInv'
    BY <1>1, <1>5, EnterKeeps
  <2> QED BY <2>1, <2>2, OthersKept
<1>6. CASE EnterRebuilt
  <2>1. UNCHANGED <<treeVars, foundVars>> /\ ResultInv'
    BY <1>1, <1>6 DEF EnterRebuilt, ResultInv
  <2>2. StackInv'
    BY <1>1, <1>6, EnterRebuiltKeeps
  <2> QED BY <2>1, <2>2, OthersKept
<1>7. CASE PassFile \/ PassDir \/ PassExcluded \/ PassUntyped
  <2>1. stack # <<>> /\ UNCHANGED <<treeVars, foundVars, result>> /\ \E name : Passed(name)
    BY <1>7 DEF PassFile, PassDir, PassExcluded, PassUntyped, Reading, Calling
  <2>2. StackInv'
    BY <1>1, <2>1, PassedKeeps DEF treeVars
  <2> QED BY <1>1, <2>1, <2>2, OthersKept DEF ResultInv
<1>8. CASE FindFile
  <2>1. StackInv' /\ CacheInv' /\ FoundInv' /\ SamplesInv'
    BY <1>1, <1>8, FindFileKeeps
  <2>2. UNCHANGED <<treeVars, result>>
    BY <1>8 DEF FindFile
  <2>3. TreeInv' /\ ResultInv'
    BY <1>1, <2>2 DEF TreeInv, treeVars, PathOf, ResultInv
  <2> QED BY <2>1, <2>3 DEF ScanInv
<1>9. CASE Descend
  <2> PICK name \in DirEntries \ PruneNames : \E e \in Scannable(name) :
        /\ path_samples' = Sample(path_samples, MaxPathSamples, name)
        /\ stack' = Append([stack EXCEPT ![Len(stack)].todo = @ \ {name}], Call(e))
    BY <1>9 DEF Descend
  <2>1. PICK c \in Scannable(name) :
          /\ path_samples' = Sample(path_samples, MaxPathSamples, name)
          /\ stack' = Append([stack EXCEPT ![Len(stack)].todo = @ \ {name}], Call(c))
    OBVIOUS
  <2>2. stack # <<>> /\ UNCHANGED <<treeVars, found, paths, file_samples, result>>
    BY <1>9 DEF Descend, Reading, Calling
  <2>3. c \in Dirs \ {Root} /\ parent[c] = Top.dir /\ Len(stack) < FdLimit
    BY <2>1 DEF Scannable, Opened
  <2>4. StackInv'
    BY <1>1, <2>1, <2>2, <2>3, StackDeeper DEF treeVars
  <2>5. TreeInv' /\ ResultInv'
    BY <1>1, <2>2 DEF TreeInv, treeVars, PathOf, ResultInv
  <2>6. CacheInv' /\ FoundInv'
    BY <1>1, <2>2, FoundKept DEF treeVars
  <2>7. name \in EntryName
    <3>1. Top \in Frame
      BY <1>1, <2>2, TopIsCall
    <3> QED BY <2>1, <3>1 DEF DirEntries, Frame
  <2>8. Sample(path_samples, MaxPathSamples, name) \in Seq(EntryName)
        /\ Len(Sample(path_samples, MaxPathSamples, name)) <= MaxPathSamples
    BY <1>1, <2>7, SampleRight, ScanAssumption DEF SamplesInv
  <2>9. SamplesInv'
    BY <1>1, <2>1, <2>2, <2>8 DEF SamplesInv
  <2> QED BY <2>4, <2>5, <2>6, <2>9 DEF ScanInv
<1> QED BY <1>2, <1>3, <1>4, <1>5, <1>6, <1>7, <1>8, <1>9 DEF ScanStep

\* So does every other step.
LEMMA ScanNextKeeps ==
  ASSUME ScanInv, [Next]_vars
  PROVE  ScanInv'
<1>1. TreeInv /\ StackInv /\ CacheInv /\ FoundInv /\ SamplesInv /\ ResultInv
  BY DEF ScanInv
<1>2. CASE Move
  <2>1. TreeInv' /\ StackInv' /\ been \subseteq been'
    BY <1>1, <1>2, MoveKeeps
  <2>2. UNCHANGED <<foundVars, result>>
    BY <1>2 DEF Move
  <2>3. CacheInv' /\ FoundInv'
    BY <1>1, <2>1, <2>2, FoundKept DEF foundVars
  <2>4. SamplesInv' /\ ResultInv'
    BY <1>1, <2>2 DEF SamplesInv, ResultInv, foundVars
  <2> QED BY <2>1, <2>3, <2>4 DEF ScanInv
<1>3. CASE MountStep \/ PollFails \/ Done \/ UNCHANGED vars
  <2>1. UNCHANGED <<treeVars, stack, foundVars>> /\ ResultInv'
    BY <1>1, <1>3 DEF MountStep, PollFails, Done, vars, ResultInv
  <2>2. StackInv'
    BY <1>1, <2>1, StackUntouched DEF treeVars
  <2> QED BY <2>1, <2>2, OthersKept
<1> QED BY <1>2, <1>3, ScanStepKeeps DEF Next

\* Every reachable state satisfies the invariant.
LEMMA ScanInvariant == Spec => []ScanInv
BY ScanInit, ScanNextKeeps, PTL DEF Spec

\* The state is well formed: no call ever takes a descriptor too many, no
\* directory is scanned by two calls unless one was renamed, and no path has
\* two ids (FSScanner::scan_fs, StringCache::store_string).
THEOREM TypeCorrect == Spec => []TypeOK
<1>1. ASSUME ScanInv PROVE TypeOK
  <2>1. TreeInv /\ StackInv /\ CacheInv /\ FoundInv /\ SamplesInv /\ ResultInv
    BY <1>1 DEF ScanInv
  <2>2. stack \in Seq(Frame) /\ DOMAIN stack = 1 .. Len(stack) /\ Len(stack) <= FdLimit
        /\ Len(stack) \in Nat
    BY <2>1, LenProperties DEF StackInv
  <2>3. \A k \in DOMAIN stack : stack[k].dir \in Dirs
    <3>1. \A k \in 1 .. Len(stack) : stack[k] \in Frame
      BY <2>2, ElementOfSeq
    <3> QED BY <2>2, <3>1 DEF Frame
  <2>4. ASSUME NEW j \in DOMAIN stack, NEW k \in DOMAIN stack, moved = <<>>, j < k
        PROVE  stack[j].dir # stack[k].dir
    <3>1. stack[k].dir # Root /\ stack[j].dir \in Above(parent, parent[stack[k].dir])
      BY <2>1, <2>2, <2>4 DEF StackInv, Nested
    <3>2. stack[k].dir \notin Above(parent, parent[stack[k].dir])
      BY <2>1, <2>3, <3>1, NoLoop DEF TreeInv
    <3> QED BY <3>1, <3>2
  <2>5. \A k, d \in DOMAIN stack : d # k => stack[d].dir # stack[k].dir \/ moved # <<>>
    <3> SUFFICES ASSUME NEW k \in DOMAIN stack, NEW d \in DOMAIN stack, d # k, moved = <<>>
                 PROVE  stack[d].dir # stack[k].dir
      OBVIOUS
    <3>1. d < k \/ k < d
      BY <2>2
    <3> QED BY <2>4, <3>1
  <2>6. \A i \in DOMAIN found : found[i].path_id \in 0 .. Len(paths) - 1
    <3>1. found \in Seq([name : EntryName, path_id : Nat]) /\ paths \in Seq(AllPaths)
      BY <2>1 DEF CacheInv
    <3>2. DOMAIN found = 1 .. Len(found) /\ Len(paths) \in Nat
      BY <3>1, LenProperties
    <3> SUFFICES ASSUME NEW i \in 1 .. Len(found) PROVE found[i].path_id \in 0 .. Len(paths) - 1
      BY <3>2
    <3>3. found[i].path_id \in Nat
      <4>1. found[i] \in [name : EntryName, path_id : Nat]
        BY <3>1, ElementOfSeq
      <4> QED BY <4>1
    <3>4. found[i].path_id < Len(paths)
      BY <2>1 DEF FoundInv
    <3> QED BY <3>2, <3>3, <3>4
  <2>7. \A i, j \in DOMAIN paths : i # j => paths[i] # paths[j]
    BY <2>1, LenProperties DEF CacheInv
  <2> QED BY <2>1, <2>2, <2>3, <2>5, <2>6, <2>7 DEF TypeOK, TreeInv, ResultInv, SamplesInv
<1> QED BY <1>1, ScanInvariant, PTL

\* The path recorded for a file is one that the file has had, or what is left
\* of it in a buffer that is too short, wherever directories are moved
\* meanwhile (DirWrapper::get_dir_path, FSScanner::get_file_info_full_path).
THEOREM RecordedPathsAreReal == Spec => []PathsAreReal
<1>1. ASSUME ScanInv PROVE PathsAreReal
  <2>1. CacheInv /\ FoundInv
    BY <1>1 DEF ScanInv
  <2>2. DOMAIN found = 1 .. Len(found)
    BY <2>1, LenProperties DEF CacheInv
  <2>3. ASSUME NEW i \in DOMAIN found
        PROVE  \E place \in been : /\ GetString(found[i].path_id) = DirPath(place[2])
                                   /\ found[i].name \in FilesIn[place[1]]
    <3> PICK p : p = found[i].path_id
      OBVIOUS
    <3>1. p < Len(paths) /\ \E d \in Dirs : found[i].name \in FilesIn[d] /\ WasAt(d, paths[p + 1])
      BY <2>1, <2>2 DEF FoundInv
    <3>2. GetString(p) = paths[p + 1]
      BY <3>1 DEF GetString
    <3> QED BY <3>1, <3>2 DEF WasAt
  <2> QED BY <2>3 DEF PathsAreReal
<1> QED BY <1>1, ScanInvariant, PTL

-----------------------------------------------------------------------------
(* What the configuration rules out *)

\* A directory that may be opened; its own path is yet to be looked up.
Passable(d) ==
  d # Root => /\ Reachable(parent[d])
              /\ NameOf[d] \notin PruneNames /\ d \notin Excluded
              /\ fault[d] \in {"none", "nolink", "untyped"} /\ parent[d] \notin Untyped

\* A call for dir that has read path is one that the configuration allows, if
\* dir is settled and can be judged; and path leads to no other settled directory.
Ruled(dir, path) ==
  \A d \in Dirs : Settled(d) =>
    /\ dir = d /\ Depth(parent, d) <= PathLimit =>
         /\ path # <<>> => path = PathOf(d) /\ (Judged(d) => Reachable(d))
         /\ path = <<>> /\ Judged(d) => Passable(d)
    /\ path = PathOf(d) /\ Legible(d) => dir = d

\* A settled directory with this path is one to be reached.
Allowed(path) ==
  \A d \in Dirs : Settled(d) /\ Legible(d) /\ Judged(d) /\ PathOf(d) = path => Reachable(d)

PruneInv ==
  /\ fault \in [Dirs -> Faults \cup {"none"}]
  /\ \A k \in 1 .. Len(stack) : Ruled(stack[k].dir, stack[k].path)
  /\ \A i \in 1 .. Len(found) : /\ found[i].name \in Tracked
                                /\ Allowed(paths[found[i].path_id + 1])

\* The call of a settled directory was made by that of its parent.
InPlace(k) ==
  Settled(stack[k].dir) => /\ k = Depth(parent, stack[k].dir)
                           /\ k # 1 => stack[k - 1].dir = parent[stack[k].dir]

\* So are the calls, and one that waits for the list of bind mounts has read
\* its path.
CallsInv ==
  /\ \A k \in 1 .. Len(stack) : InPlace(k)
  /\ result = "none" => stack = <<>> /\ found = <<>> /\ asking = "none"
  /\ result = "ok" => stack = <<>>
  /\ result = "scanning" /\ asking # "none" => stack # <<>> /\ Top.path # <<>>

\* What a step may do to the tree.
TreeStep ==
  \/ UNCHANGED <<parent, moved, fault>>
  \/ \E m \in Dirs, p \in Dirs :
       /\ parent' = [parent EXCEPT ![m] = p] /\ moved' = Append(moved, m) /\ fault' = fault

\* All that Reachable says of a directory is about those above it.
LEMMA ReachStep ==
  ASSUME parent \in Trees, NEW d \in Dirs
  PROVE  Reachable(d) <=> /\ Passable(d) /\ (d # Root => fault[d] # "nolink")
                          /\ PathOf(d) \notin PrunePaths
<1>1. parent[d] \in Dirs
  BY DEF Trees
<1>2. CASE d = Root
  <2>1. Above(parent, d) = {Root}
    BY <1>2, AboveIs
  <2> QED BY <1>2, <2>1 DEF Reachable, Passable
<1>3. CASE d # Root
  <2> PICK over : over = Above(parent, parent[d])
    OBVIOUS
  <2>1. Above(parent, d) = over \cup {d}
    BY <1>3, AboveIs
  <2> QED BY <1>3, <2>1 DEF Reachable, Passable
<1> QED BY <1>2, <1>3

\* Nothing changes for a directory when none on its way is renamed.
LEMMA ViewKept ==
  ASSUME parent \in Trees, parent' \in Trees, fault' = fault, NEW d \in Dirs,
         \A a \in Above(parent', d) : parent[a] = parent'[a]
  PROVE  /\ Above(parent', d) = Above(parent, d)
         /\ Depth(parent', d) = Depth(parent, d)
         /\ PathOf(d)' = PathOf(d)
         /\ Reachable(d) <=> Reachable(d)'
         /\ Judged(d)' => Judged(d)
<1>1. ASSUME NEW a \in Above(parent', d)
      PROVE  /\ Above(parent', a) = Above(parent, a)
             /\ Depth(parent', a) = Depth(parent, a)
             /\ PathOf(a)' = PathOf(a)
  <2>1. a \in Dirs /\ Above(parent', a) \subseteq Above(parent', d)
    BY AboveAbove
  <2>2. \A b \in Above(parent', a) : parent[b] = parent'[b]
    BY <2>1
  <2>3. Chain(parent, a) = Chain(parent', a)
    BY <2>1, <2>2, AboveKept
  <2>4. Above(parent', a) = Above(parent, a)
    BY <2>3 DEF Above
  <2>5. Depth(parent', a) = Depth(parent, a)
    BY <2>4 DEF Depth
  <2>6. PathIn(parent', a) = PathIn(parent, a)
    BY <2>3, <2>5 DEF PathIn
  <2> QED BY <2>4, <2>5, <2>6 DEF PathOf
<1>2. d \in Above(parent', d)
  BY AboveParent
<1>3. Above(parent', d) = Above(parent, d)
  BY <1>1, <1>2
<1>4. ASSUME Reachable(d) PROVE Reachable(d)'
  <2>1. ASSUME NEW a \in Above(parent', d) \ {Root}
        PROVE  /\ NameOf[a] \notin PruneNames /\ a \notin Excluded
               /\ fault'[a] \in {"none", "untyped"} /\ parent'[a] \notin Untyped'
    <3>1. a \in Above(parent, d) \ {Root} /\ parent'[a] = parent[a]
      BY <1>3, <2>1
    <3>2. Untyped' = Untyped
      BY DEF Untyped
    <3> QED BY <1>4, <3>1, <3>2 DEF Reachable
  <2>2. ASSUME NEW a \in Above(parent', d) PROVE PathOf(a)' \notin PrunePaths
    <3>1. PathOf(a)' = PathOf(a) /\ a \in Above(parent, d)
      BY <1>1, <1>3, <2>2
    <3> QED BY <1>4, <3>1 DEF Reachable
  <2> QED BY <2>1, <2>2 DEF Reachable
<1>5. ASSUME Reachable(d)' PROVE Reachable(d)
  <2>1. ASSUME NEW a \in Above(parent, d) \ {Root}
        PROVE  /\ NameOf[a] \notin PruneNames /\ a \notin Excluded
               /\ fault[a] \in {"none", "untyped"} /\ parent[a] \notin Untyped
    <3>1. a \in Above(parent', d) \ {Root} /\ parent'[a] = parent[a]
      BY <1>3, <2>1
    <3>2. Untyped' = Untyped
      BY DEF Untyped
    <3> QED BY <1>5, <3>1, <3>2 DEF Reachable
  <2>2. ASSUME NEW a \in Above(parent, d) PROVE PathOf(a) \notin PrunePaths
    <3>1. PathOf(a)' = PathOf(a) /\ a \in Above(parent', d)
      BY <1>1, <1>3, <2>2
    <3> QED BY <1>5, <3>1 DEF Reachable
  <2> QED BY <2>1, <2>2 DEF Reachable
<1>6. Judged(d)' => Judged(d)
  BY <1>1, <1>3 DEF Judged
<1> QED BY <1>1, <1>2, <1>4, <1>5, <1>6

\* A directory that is settled after a step was so before, and is where it was.
LEMMA SettledKept ==
  ASSUME TreeInv, TreeInv', TreeStep, NEW d \in Dirs, Settled(d)'
  PROVE  /\ Settled(d) /\ fault' = fault /\ Above(parent', d) = Above(parent, d)
         /\ \A a \in Above(parent', d) : parent[a] = parent'[a]
<1>1. parent \in Trees /\ parent' \in Trees /\ moved \in Seq(Dirs)
  BY DEF TreeInv
<1>2. CASE UNCHANGED <<parent, moved, fault>>
  BY <1>2 DEF Settled
<1>3. CASE ~ UNCHANGED <<parent, moved, fault>>
  <2>1. PICK m \in Dirs, p \in Dirs :
          parent' = [parent EXCEPT ![m] = p] /\ moved' = Append(moved, m) /\ fault' = fault
    BY <1>3 DEF TreeStep
  <2>2. Range(moved) \subseteq Range(moved') /\ m \in Range(moved')
    <3>1. /\ Len(moved) \in Nat /\ DOMAIN moved = 1 .. Len(moved)
          /\ moved' \in Seq(Dirs) /\ Len(moved') = Len(moved) + 1
          /\ (\A i \in 1 .. Len(moved) : moved'[i] = moved[i]) /\ moved'[Len(moved) + 1] = m
      BY <1>1, <2>1, AppendProperties, LenProperties
    <3>2. DOMAIN moved' = 1 .. Len(moved) + 1
      BY <3>1, LenProperties
    <3> QED BY <3>1, <3>2 DEF Range
  <2>3. m \notin Above(parent', d) /\ Above(parent', d) \subseteq Dirs
    BY <1>1, <2>2, AboveIs DEF Settled
  <2>4. \A a \in Above(parent', d) : parent[a] = parent'[a]
    <3>1. parent \in [Dirs -> Dirs]
      BY <1>1 DEF Trees
    <3> QED BY <2>1, <2>3, <3>1
  <2>5. Above(parent', d) = Above(parent, d)
    BY <1>1, <2>1, <2>4, ViewKept
  <2> QED BY <2>1, <2>2, <2>4, <2>5 DEF Settled
<1> QED BY <1>2, <1>3

\* What was allowed of a settled directory stays so.
LEMMA AllowedKept ==
  ASSUME TreeInv, TreeInv', TreeStep, NEW d \in Dirs, Settled(d)'
  PROVE  /\ Settled(d) /\ PathOf(d)' = PathOf(d)
         /\ Depth(parent', d) = Depth(parent, d) /\ (Legible(d)' => Legible(d))
         /\ Reachable(d) <=> Reachable(d)'
         /\ Passable(d) => Passable(d)'
         /\ Judged(d)' => Judged(d)
<1>1. parent \in Trees /\ parent' \in Trees /\ parent[d] \in Dirs /\ parent'[d] \in Dirs
  BY DEF TreeInv, Trees
<1>2. /\ Settled(d) /\ fault' = fault /\ Above(parent', d) = Above(parent, d)
      /\ \A a \in Above(parent', d) : parent[a] = parent'[a]
  BY SettledKept
<1>3. /\ Depth(parent', d) = Depth(parent, d) /\ PathOf(d)' = PathOf(d)
      /\ Reachable(d) <=> Reachable(d)'
      /\ Judged(d)' => Judged(d)
  BY <1>1, <1>2, ViewKept
<1>4. Legible(d)' => Legible(d)
  BY <1>3 DEF Legible
<1>5. parent'[d] = parent[d]
  BY <1>1, <1>2, AboveParent
<1>6. Reachable(parent[d]) => Reachable(parent[d])'
  <2> PICK e : e = parent[d]
    OBVIOUS
  <2>1. e \in Dirs /\ e = parent'[d]
    BY <1>1, <1>5
  <2>2. \A a \in Above(parent', e) : parent[a] = parent'[a]
    BY <1>1, <1>2, <2>1, AboveParent
  <2>3. Reachable(e) => Reachable(e)'
    BY <1>1, <1>2, <2>1, <2>2, ViewKept
  <2> QED BY <1>5, <2>3
<1>7. Untyped' = Untyped
  BY <1>2 DEF Untyped
<1>8. Passable(d) => Passable(d)'
  BY <1>2, <1>5, <1>6, <1>7 DEF Passable
<1> QED BY <1>2, <1>3, <1>4, <1>8

\* A call and a path that were in order stay in order.
LEMMA RuledKept ==
  ASSUME TreeInv, TreeInv', TreeStep, NEW dir, NEW path
  PROVE  /\ Ruled(dir, path) => Ruled(dir, path)'
         /\ Allowed(path) => Allowed(path)'
<1>1. ASSUME Ruled(dir, path), NEW d \in Dirs, Settled(d)'
      PROVE  /\ dir = d /\ Depth(parent', d) <= PathLimit =>
                  /\ path # <<>> => path = PathOf(d)' /\ (Judged(d)' => Reachable(d)')
                  /\ path = <<>> /\ Judged(d)' => Passable(d)'
             /\ path = PathOf(d)' /\ Legible(d)' => dir = d
  <2>1. /\ Settled(d) /\ PathOf(d)' = PathOf(d)
        /\ Depth(parent', d) = Depth(parent, d) /\ (Legible(d)' => Legible(d))
        /\ (Reachable(d) => Reachable(d)') /\ (Passable(d) => Passable(d)')
        /\ (Judged(d)' => Judged(d))
    BY <1>1, AllowedKept
  <2>2. /\ dir = d /\ Depth(parent, d) <= PathLimit =>
             /\ path # <<>> => path = PathOf(d) /\ (Judged(d) => Reachable(d))
             /\ path = <<>> /\ Judged(d) => Passable(d)
        /\ path = PathOf(d) /\ Legible(d) => dir = d
    BY <1>1, <2>1 DEF Ruled
  <2> QED BY <2>1, <2>2
<1>2. ASSUME Allowed(path), NEW d \in Dirs, Settled(d)', Legible(d)', Judged(d)', PathOf(d)' = path
      PROVE  Reachable(d)'
  <2>1. /\ Settled(d) /\ PathOf(d)' = PathOf(d) /\ (Legible(d)' => Legible(d))
        /\ (Reachable(d) => Reachable(d)') /\ (Judged(d)' => Judged(d))
    BY <1>2, AllowedKept
  <2> QED BY <1>2, <2>1 DEF Allowed
<1>3. Ruled(dir, path) => Ruled(dir, path)'
  BY <1>1 DEF Ruled
<1>4. Allowed(path) => Allowed(path)'
  BY <1>2 DEF Allowed
<1> QED BY <1>3, <1>4

\* The end of a path that has been cut off.
LEMMA CutPath ==
  ASSUME NEW path \in Seq(DirNames), Len(path) > PathLimit
  PROVE  Len(DirPath(path)) = PathLimit /\ DirPath(path)[PathLimit] = Cut
<1> PICK n : n = PathLimit - 1
  OBVIOUS
<1>1. PathLimit \in Nat \ {0} /\ n \in Nat /\ n + 1 = PathLimit /\ Len(path) \in Nat /\ n <= Len(path)
  BY ScanAssumption, LenProperties
<1>2. DirPath(path) = Append(SubSeq(path, 1, n), Cut)
  BY <1>1 DEF DirPath
<1> PICK front, Names : front = SubSeq(path, 1, n) /\ Names = DirNames \cup {Cut}
  OBVIOUS
<1>3. front \in Seq(Names) /\ Len(front) = n
  <2>1. \A i \in 1 .. n : path[i] \in Names
    <3>1. \A i \in 1 .. Len(path) : path[i] \in DirNames
      BY ElementOfSeq
    <3> QED BY <1>1, <3>1
  <2>2. n \in Int /\ 1 \in Int /\ (1 <= n \/ n = 0) /\ n - 1 + 1 = n
    BY <1>1
  <2>3. front \in Seq(Names) /\ Len(front) = IF 1 <= n THEN n - 1 + 1 ELSE 0
    BY <2>1, <2>2, SubSeqProperties
  <2> QED BY <2>2, <2>3
<1>4. Cut \in Names
  OBVIOUS
<1>5. Len(Append(front, Cut)) = n + 1 /\ Append(front, Cut)[n + 1] = Cut
  BY <1>3, <1>4, AppendProperties
<1> QED BY <1>1, <1>2, <1>5

\* A call that has read its path and may go on.
LEMMA EnterRuled ==
  ASSUME parent \in Trees, NEW dir \in Dirs, Ruled(dir, <<>>),
         fault[dir] # "nolink", DirPath(PathOf(dir)) \notin PrunePaths
  PROVE  Ruled(dir, DirPath(PathOf(dir)))
<1> PICK path : path = DirPath(PathOf(dir))
  OBVIOUS
<1>1. /\ PathOf(dir) \in Seq(DirNames) /\ Len(PathOf(dir)) = Depth(parent, dir)
      /\ Depth(parent, dir) \in Nat \ {0} /\ PathLimit \in Nat
  BY PathIs, DepthIs, ScanAssumption DEF PathOf
<1>2. ASSUME NEW d \in Dirs, Settled(d), dir = d, Depth(parent, d) <= PathLimit
      PROVE  path = PathOf(d) /\ (Judged(d) => Passable(d) /\ Reachable(d))
  <2>1. path = PathOf(d)
    BY <1>1, <1>2 DEF DirPath
  <2>2. Judged(d) => Passable(d)
    BY <1>2 DEF Ruled
  <2>3. Judged(d) => Reachable(d)
    BY <1>2, <2>1, <2>2, ReachStep
  <2> QED BY <2>1, <2>2, <2>3
<1>3. ASSUME NEW d \in Dirs, path = PathOf(d), Legible(d)
      PROVE  dir = d
  <2>1. Len(path) = Depth(parent, d) /\ path[Depth(parent, d)] = NameOf[d]
        /\ Depth(parent, d) \in Nat
    BY <1>3, PathIs, DepthIs DEF PathOf
  <2>2. CASE Len(PathOf(dir)) <= PathLimit
    <3>1. PathIn(parent, dir) = PathIn(parent, d)
      BY <1>3, <2>2 DEF DirPath, PathOf
    <3> QED BY <3>1, PathIsUnique
  <2>3. CASE ~(Len(PathOf(dir)) <= PathLimit)
    <3>1. Len(PathOf(dir)) > PathLimit
      BY <1>1, <2>3
    <3>2. Len(path) = PathLimit /\ path[PathLimit] = Cut
      BY <1>1, <3>1, CutPath
    <3>3. Depth(parent, d) = PathLimit /\ NameOf[d] = Cut
      BY <2>1, <3>2
    <3> QED BY <1>1, <1>3, <3>3 DEF Legible
  <2> QED BY <2>2, <2>3
<1> QED BY <1>2, <1>3 DEF Ruled

\* A directory that a call has opened and goes down to.
LEMMA DescendRuled ==
  ASSUME parent \in Trees, fault \in [Dirs -> Faults \cup {"none"}],
         NEW dir \in Dirs, NEW path, path # <<>>, Ruled(dir, path), dir \notin Untyped,
         NEW c \in Dirs \ {Root}, parent[c] = dir, NameOf[c] \notin PruneNames,
         fault[c] \notin {"unreadable", "nostream", "nostat"},
         ~ (c \in Mounts /\ IsExcluded(Append(path, NameOf[c]))),
         Settled(dir) => Len(stack) = Depth(parent, dir)
  PROVE  Ruled(c, <<>>)
<1>1. ASSUME NEW d \in Dirs, Settled(d), Judged(d), c = d, Depth(parent, d) <= PathLimit
      PROVE  Passable(d)
  <2>1. Settled(dir) /\ Judged(dir) /\ c \in Above(parent, c)
    BY <1>1, AboveParent DEF Settled, Judged
  <2>2. Depth(parent, dir) <= PathLimit
    <3>1. Depth(parent, c) = Depth(parent, dir) + 1 /\ Depth(parent, dir) \in Nat /\ PathLimit \in Nat
      BY DepthIs, ScanAssumption
    <3> QED BY <1>1, <3>1
  <2>3. path = PathOf(dir) /\ Reachable(dir)
    BY <2>1, <2>2 DEF Ruled
  <2>4. PathOf(c) = Append(path, NameOf[c])
    BY <2>3, PathIs DEF PathOf
  <2>5. c \notin Excluded
    <3> SUFFICES ASSUME c \in Excluded PROVE FALSE
      OBVIOUS
    <3>1. c \in Mounts
      BY ScanAssumption
    <3>2. Depth(parent, c) < FdLimit
      BY <1>1, <2>1 DEF Judged
    <3>3. Depth(parent, c) = Len(stack) + 1
      BY <2>1, DepthIs
    <3>4. IsExcluded(Append(path, NameOf[c]))
      BY <2>4, <3>2, <3>3 DEF IsExcluded, MountsCanBeRead
    <3> QED BY <3>1, <3>4
  <2>6. fault[c] \in {"none", "nolink", "untyped"}
    BY ScanAssumption
  <2> QED BY <1>1, <2>3, <2>5, <2>6 DEF Passable
<1>2. ASSUME NEW d \in Dirs PROVE <<>> # PathOf(d)
  <2>1. PathOf(d) \in Seq(DirNames) /\ Len(PathOf(d)) \in Nat \ {0}
    BY PathIs, DepthIs DEF PathOf
  <2> QED BY <2>1, EmptySeq
<1> QED BY <1>1, <1>2 DEF Ruled

\* A renaming is the only step that changes the tree.
LEMMA StepsOfTree == ASSUME [Next]_vars PROVE TreeStep
<1>1. CASE ScanStep
  <2>1. UNCHANGED treeVars
    BY <1>1
       DEF ScanStep, OpenRoot, RootFails, EnterPruned, Enter, EnterAs, Return, RebuildList,
           RebuildWithoutFile, EnterRebuilt, FindFile, PassFile, PassDir, PassExcluded, GiveUp,
           UseNoStream, PassUntyped, Descend, EnterWithoutPath
  <2> QED BY <2>1 DEF treeVars, TreeStep
<1>2. CASE Move
  <2>1. PICK d \in Dirs \ (Mounts \cup BindMounts \cup {Root}), p \in Dirs :
          parent' = [parent EXCEPT ![d] = p] /\ moved' = Append(moved, d)
    BY <1>2 DEF Move
  <2>2. fault' = fault
    BY <1>2 DEF Move
  <2> QED BY <2>1, <2>2 DEF TreeStep
<1>3. CASE MountStep \/ PollFails \/ Done \/ UNCHANGED vars
  BY <1>3 DEF MountStep, PollFails, Done, vars, treeVars, TreeStep
<1> QED BY <1>1, <1>2, <1>3 DEF Next

\* The calls after a step are calls from before it, or are in order.
LEMMA CallsKept ==
  ASSUME TreeInv, TreeInv', TreeStep, PruneInv,
         \A k \in 1 .. Len(stack') : Stays(k) \/ Ruled(stack[k].dir, stack[k].path)'
  PROVE  /\ fault' \in [Dirs -> Faults \cup {"none"}]
         /\ \A k \in 1 .. Len(stack') : Ruled(stack[k].dir, stack[k].path)'
<1>1. fault' \in [Dirs -> Faults \cup {"none"}]
  BY DEF PruneInv, TreeStep
<1>2. ASSUME NEW k \in 1 .. Len(stack'), Stays(k)
      PROVE  Ruled(stack[k].dir, stack[k].path)'
  <2> PICK dir, path : dir = stack[k].dir /\ path = stack[k].path
    OBVIOUS
  <2>1. dir = stack'[k].dir /\ path = stack'[k].path
    BY <1>2 DEF Stays
  <2>2. Ruled(dir, path)
    BY <1>2 DEF PruneInv, Stays
  <2>3. Ruled(dir, path)'
    BY <2>2, RuledKept
  <2> QED BY <2>1, <2>3 DEF Ruled
<1> QED BY <1>1, <1>2

\* What has been found stays allowed.
LEMMA AllowedStays ==
  ASSUME TreeInv, TreeInv', TreeStep, PruneInv, UNCHANGED <<found, paths>>
  PROVE  \A i \in 1 .. Len(found') : (found[i].name \in Tracked /\ Allowed(paths[found[i].path_id + 1]))'
<1> SUFFICES ASSUME NEW i \in 1 .. Len(found)
             PROVE  (found[i].name \in Tracked /\ Allowed(paths[found[i].path_id + 1]))'
  OBVIOUS
<1> PICK path : path = paths[found[i].path_id + 1]
  OBVIOUS
<1>1. found[i].name \in Tracked /\ Allowed(path)
  BY DEF PruneInv
<1>2. Allowed(path)'
  BY <1>1, RuledKept
<1>3. path = paths'[found'[i].path_id + 1]
  OBVIOUS
<1> QED BY <1>1, <1>2, <1>3 DEF Allowed

\* The step of a call that looks at the path of its directory.
LEMMA EnterPrunes ==
  ASSUME TreeInv, StackInv, PruneInv, Enter
  PROVE  \A k \in 1 .. Len(stack') : Stays(k) \/ Ruled(stack[k].dir, stack[k].path)'
<1>1. \A k \in 1 .. Len(stack') : Stays(k) \/ Entered(k)
  BY EnterKeeps
<1>2. stack # <<>> /\ UNCHANGED <<parent, moved, fault>> /\ Top.path = <<>>
      /\ fault[Top.dir] # "nolink"
      /\ (DirPath(PathOf(Top.dir)) \notin PrunePaths \/ stack' = <<>>)
  BY DEF Enter, EnterAs, Calling, treeVars
<1>3. Len(stack) \in 1 .. Len(stack) /\ Top = stack[Len(stack)] /\ Top.dir \in Dirs
  <2>1. Len(stack) \in 1 .. Len(stack) /\ Top = stack[Len(stack)] /\ Top \in Frame
    BY <1>2, TopIsCall
  <2> QED BY <2>1 DEF Frame
<1>4. parent \in Trees
  BY DEF TreeInv
<1>5. ASSUME NEW k \in 1 .. Len(stack'), Entered(k)
      PROVE  Ruled(stack[k].dir, stack[k].path)'
  <2> PICK dir, path : dir = Top.dir /\ path = DirPath(PathOf(Top.dir))
    OBVIOUS
  <2>1. dir = stack'[k].dir /\ path = stack'[k].path
    BY <1>5 DEF Entered
  <2>2. Ruled(dir, <<>>)
    BY <1>2, <1>3 DEF PruneInv
  <2>3. path \notin PrunePaths
    BY <1>2
  <2>4. Ruled(dir, path)
    BY <1>2, <1>3, <1>4, <2>2, <2>3, EnterRuled
  <2>5. TreeStep /\ TreeInv'
    BY <1>2 DEF TreeStep, Enter, EnterAs, TreeInv, treeVars, PathOf
  <2>6. Ruled(dir, path)'
    BY <2>4, <2>5, RuledKept
  <2> QED BY <2>1, <2>6 DEF Ruled
<1> QED BY <1>1, <1>5

\* The step of a call that goes down.
LEMMA DescendPrunes ==
  ASSUME TreeInv, StackInv, PruneInv, CallsInv, Descend
  PROVE  \A k \in 1 .. Len(stack') : Stays(k) \/ Ruled(stack[k].dir, stack[k].path)'
<1> PICK name \in DirEntries \ PruneNames : \E e \in Scannable(name) :
      stack' = Append([stack EXCEPT ![Len(stack)].todo = @ \ {name}], Call(e))
  BY DEF Descend
<1>1. PICK c \in Scannable(name) :
        stack' = Append([stack EXCEPT ![Len(stack)].todo = @ \ {name}], Call(c))
  OBVIOUS
<1>2. /\ stack # <<>> /\ UNCHANGED <<parent, moved, been, fault>>
      /\ Top.path # <<>> /\ Top.dir \notin Untyped
  BY DEF Descend, Reading, Calling, treeVars
<1>3. /\ c \in Dirs \ {Root} /\ parent[c] = Top.dir /\ NameOf[c] = name /\ Len(stack) < FdLimit
      /\ fault[c] \notin {"unreadable", "nostream", "nostat"}
      /\ ~ (c \in Mounts /\ IsExcluded(Append(Top.path, name)))
  BY <1>1 DEF Scannable, Opened
<1>4. \A k \in 1 .. Len(stack') : Stays(k) \/ (stack'[k].dir = c /\ stack'[k].path = <<>>)
  BY <1>1, <1>2, <1>3, StackDeeper
<1>5. Len(stack) \in 1 .. Len(stack) /\ Top = stack[Len(stack)] /\ Top.dir \in Dirs
  <2>1. Len(stack) \in 1 .. Len(stack) /\ Top = stack[Len(stack)] /\ Top \in Frame
    BY <1>2, TopIsCall
  <2> QED BY <2>1 DEF Frame
<1>6. Ruled(c, <<>>)
  <2> PICK dir, path : dir = Top.dir /\ path = Top.path
    OBVIOUS
  <2>1. Ruled(dir, path) /\ fault \in [Dirs -> Faults \cup {"none"}] /\ parent \in Trees
    BY <1>5 DEF PruneInv, TreeInv
  <2>2. /\ dir \in Dirs /\ path # <<>> /\ dir \notin Untyped /\ parent[c] = dir
        /\ NameOf[c] \notin PruneNames /\ ~ (c \in Mounts /\ IsExcluded(Append(path, NameOf[c])))
    BY <1>1, <1>2, <1>3, <1>5
  <2>3. Settled(dir) => Len(stack) = Depth(parent, dir)
    BY <1>5 DEF CallsInv, InPlace
  <2> QED BY <1>3, <2>1, <2>2, <2>3, DescendRuled
<1>7. Ruled(c, <<>>)'
  <2>1. TreeStep /\ TreeInv'
    BY <1>2 DEF TreeStep, TreeInv, PathOf
  <2> QED BY <1>6, <2>1, RuledKept
<1>8. ASSUME NEW k \in 1 .. Len(stack'), stack'[k].dir = c /\ stack'[k].path = <<>>
      PROVE  Ruled(stack[k].dir, stack[k].path)'
  BY <1>7, <1>8 DEF Ruled
<1> QED BY <1>4, <1>8

\* The file that is found lies where the call is allowed to be.
LEMMA FindFilePrunes ==
  ASSUME ScanInv, PruneInv, FindFile
  PROVE  /\ \A k \in 1 .. Len(stack') : Stays(k)
         /\ \A i \in 1 .. Len(found') : (found[i].name \in Tracked /\ Allowed(paths[found[i].path_id + 1]))'
<1>1. StackInv /\ CacheInv /\ FoundInv /\ SamplesInv /\ TreeInv
  BY DEF ScanInv
<1>2. /\ \A k \in 1 .. Len(stack') : Stays(k)
      /\ \A i \in 1 .. Len(found') : FoundBefore(i) \/ FoundNow(i)
  BY <1>1, FindFileKeeps
<1>3. stack # <<>> /\ Top.path # <<>> /\ UNCHANGED <<parent, moved, fault>>
  BY DEF FindFile, Reading, Calling, treeVars
<1>4. parent \in Trees /\ TreeStep /\ TreeInv'
  BY <1>1, <1>3 DEF TreeInv, TreeStep, PathOf, FindFile, treeVars
<1>5. Allowed(Top.path)
  <2> PICK dir, path : dir = Top.dir /\ path = Top.path
    OBVIOUS
  <2>1. Ruled(dir, path)
    <3>1. Len(stack) \in 1 .. Len(stack) /\ Top = stack[Len(stack)]
      BY <1>1, <1>3, TopIsCall
    <3> QED BY <3>1 DEF PruneInv
  <2>2. ASSUME NEW d \in Dirs, Settled(d), Legible(d), Judged(d), PathOf(d) = path
        PROVE  Reachable(d)
    <3>1. dir = d
      BY <2>1, <2>2 DEF Ruled
    <3>2. Depth(parent, d) <= PathLimit
      <4>1. Depth(parent, d) \in Nat /\ PathLimit \in Nat
        BY <1>4, DepthIs, ScanAssumption
      <4> QED BY <2>2, <4>1 DEF Legible
    <3> QED BY <1>3, <2>1, <2>2, <3>1, <3>2 DEF Ruled
  <2> QED BY <2>2 DEF Allowed
<1>6. ASSUME NEW i \in 1 .. Len(found'), FoundNow(i)
      PROVE  (found[i].name \in Tracked /\ Allowed(paths[found[i].path_id + 1]))'
  <2> PICK path : path = Top.path
    OBVIOUS
  <2>1. Allowed(path)'
    BY <1>1, <1>4, <1>5, RuledKept
  <2>2. path = paths'[found'[i].path_id + 1] /\ found'[i].name \in Tracked
    BY <1>6 DEF FoundNow
  <2> QED BY <2>1, <2>2 DEF Allowed
<1>7. ASSUME NEW i \in 1 .. Len(found'), FoundBefore(i)
      PROVE  (found[i].name \in Tracked /\ Allowed(paths[found[i].path_id + 1]))'
  <2> PICK path : path = paths[found[i].path_id + 1]
    OBVIOUS
  <2>1. Allowed(path) /\ found[i].name \in Tracked
    BY <1>7 DEF PruneInv, FoundBefore
  <2>2. Allowed(path)'
    BY <1>1, <1>4, <2>1, RuledKept
  <2>3. path = paths'[found'[i].path_id + 1] /\ found'[i].name \in Tracked
    BY <1>7, <2>1 DEF FoundBefore
  <2> QED BY <2>2, <2>3 DEF Allowed
<1> QED BY <1>2, <1>6, <1>7

\* Every step keeps what the configuration rules out away.
LEMMA PruneStep ==
  ASSUME ScanInv, ScanInv', PruneInv, CallsInv, [Next]_vars
  PROVE  PruneInv'
<1>1. TreeInv /\ StackInv /\ CacheInv /\ FoundInv /\ SamplesInv /\ TreeInv' /\ TreeStep
  BY StepsOfTree DEF ScanInv
<1>2. ASSUME \A k \in 1 .. Len(stack') : Stays(k) \/ Ruled(stack[k].dir, stack[k].path)',
             UNCHANGED <<found, paths>>
      PROVE  PruneInv'
  <2>1. /\ fault' \in [Dirs -> Faults \cup {"none"}]
        /\ \A k \in 1 .. Len(stack') : Ruled(stack[k].dir, stack[k].path)'
    BY <1>1, <1>2, CallsKept
  <2>2. \A i \in 1 .. Len(found') : (found[i].name \in Tracked /\ Allowed(paths[found[i].path_id + 1]))'
    BY <1>1, <1>2, AllowedStays
  <2> QED BY <2>1, <2>2 DEF PruneInv
<1>3. CASE stack' = stack /\ UNCHANGED <<found, paths>>
  <2>1. \A k \in 1 .. Len(stack') : Stays(k)
    BY <1>3 DEF Stays
  <2> QED BY <1>2, <1>3, <2>1
<1>4. CASE OpenRoot
  <2>1. stack' = <<Call(Root)>> /\ UNCHANGED <<found, paths, parent>>
    BY <1>4 DEF OpenRoot, treeVars, foundVars
  <2>2. Ruled(Root, <<>>)'
    <3>1. \A d \in Dirs : <<>> # PathIn(parent', d)
      <4> TAKE d \in Dirs
      <4>1. parent' \in Trees
        BY <1>1 DEF TreeInv
      <4>2. PathIn(parent', d) \in Seq(DirNames) /\ Len(PathIn(parent', d)) \in Nat \ {0}
        BY <4>1, PathIs, DepthIs
      <4> QED BY <4>2, EmptySeq
    <3>2. \A d \in Dirs : Root = d => Passable(d)'
      BY DEF Passable
    <3> QED BY <3>1, <3>2 DEF Ruled, PathOf
  <2>3. ASSUME NEW k \in 1 .. Len(stack') PROVE Ruled(stack[k].dir, stack[k].path)'
    <3>1. stack'[k] = Call(Root)
      BY <2>1
    <3>2. stack'[k].dir = Root /\ stack'[k].path = <<>>
      BY <3>1 DEF Call
    <3> QED BY <2>2, <3>2 DEF Ruled
  <2> QED BY <1>2, <2>1, <2>3
<1>5. CASE \/ RootFails \/ EnterWithoutPath \/ RebuildList \/ RebuildWithoutFile
           \/ GiveUp \/ UseNoStream
  BY <1>3, <1>5
     DEF RootFails, EnterWithoutPath, RebuildList, RebuildWithoutFile, GiveUp, UseNoStream, foundVars
<1>6. CASE EnterPruned \/ Return
  <2>1. stack # <<>> /\ stack' = Front(stack) /\ UNCHANGED <<parent, moved, been, found, paths>>
    BY <1>6 DEF EnterPruned, Return, Reading, Calling, treeVars, foundVars
  <2>2. \A k \in 1 .. Len(stack') : Stays(k)
    BY <1>1, <2>1, StackFewer
  <2> QED BY <1>2, <2>1, <2>2
<1>7. CASE Enter
  <2>1. \A k \in 1 .. Len(stack') : Stays(k) \/ Ruled(stack[k].dir, stack[k].path)'
    BY <1>1, <1>7, EnterPrunes
  <2>2. UNCHANGED <<found, paths>>
    BY <1>7 DEF Enter, EnterAs, foundVars
  <2> QED BY <1>2, <2>1, <2>2
<1>8. CASE EnterRebuilt
  <2>1. \A k \in 1 .. Len(stack') : Stays(k)
    BY <1>1, <1>8, EnterRebuiltKeeps
  <2>2. UNCHANGED <<found, paths>>
    BY <1>8 DEF EnterRebuilt, foundVars
  <2> QED BY <1>2, <2>1, <2>2
<1>9. CASE PassFile \/ PassDir \/ PassExcluded \/ PassUntyped
  <2>1. stack # <<>> /\ UNCHANGED <<parent, moved, been, found, paths>> /\ \E name : Passed(name)
    BY <1>9 DEF PassFile, PassDir, PassExcluded, PassUntyped, Reading, Calling, treeVars, foundVars
  <2>2. \A k \in 1 .. Len(stack') : Stays(k)
    BY <1>1, <2>1, PassedKeeps
  <2> QED BY <1>2, <2>1, <2>2
<1>10. CASE FindFile
  <2>1. /\ \A k \in 1 .. Len(stack') : Stays(k)
        /\ \A i \in 1 .. Len(found') : (found[i].name \in Tracked /\ Allowed(paths[found[i].path_id + 1]))'
    BY <1>10, FindFilePrunes
  <2>2. /\ fault' \in [Dirs -> Faults \cup {"none"}]
        /\ \A k \in 1 .. Len(stack') : Ruled(stack[k].dir, stack[k].path)'
    BY <1>1, <2>1, CallsKept
  <2> QED BY <2>1, <2>2 DEF PruneInv
<1>11. CASE Descend
  <2>1. \A k \in 1 .. Len(stack') : Stays(k) \/ Ruled(stack[k].dir, stack[k].path)'
    BY <1>1, <1>11, DescendPrunes
  <2>2. UNCHANGED <<found, paths>>
    BY <1>11 DEF Descend
  <2> QED BY <1>2, <2>1, <2>2
<1>12. CASE Move
  <2>1. \A k \in 1 .. Len(stack') : Stays(k)
    BY <1>1, <1>12, MoveKeeps
  <2>2. UNCHANGED <<found, paths>>
    BY <1>12 DEF Move, foundVars
  <2> QED BY <1>2, <2>1, <2>2
<1>13. CASE MountStep \/ PollFails \/ Done \/ UNCHANGED vars
  BY <1>3, <1>13 DEF MountStep, PollFails, Done, vars, foundVars
<1> QED BY <1>4, <1>5, <1>6, <1>7, <1>8, <1>9, <1>10, <1>11, <1>12, <1>13 DEF Next, ScanStep

-----------------------------------------------------------------------------
(* What the scan is to find *)

\* A directory whose files are to be found.
Due(d) ==
  Settled(d) /\ Reachable(d) /\ Depth(parent, d) <= FdLimit /\ Legible(d)

\* The files of d that are.
Wanted(d) == IF d \in Untyped THEN {} ELSE FilesIn[d] \cap Tracked

Open(d) == \E k \in 1 .. Len(stack) : stack[k].dir = d

\* The call has the entry still before it: it has not read its path, waits for
\* the list of bind mounts, or has not come to the entry.
Looks(k, name) ==
  \/ stack[k].path = <<>>
  \/ asking # "none" /\ k = Len(stack)
  \/ name \in stack[k].todo

\* Directory a is next, for the call that scans its parent.
Pending(a) ==
  IF a = Root THEN result = "none"
  ELSE \E k \in 1 .. Len(stack) : stack[k].dir = parent[a] /\ Looks(k, NameOf[a])

\* The scan has still to come to d.
Ahead(d) == \E a \in Above(parent, d) : Pending(a)

\* Before a directory is scanned none of its files is found, in its call those
\* that the call has passed, and afterwards each of them once.
Told(d) ==
  /\ Ahead(d) => ~ Open(d) /\ \A name \in Wanted(d) : FoundAs(name, PathOf(d)) = {}
  /\ \A k \in 1 .. Len(stack) : stack[k].dir = d =>
       \A name \in Wanted(d) :
         IF Looks(k, name) THEN FoundAs(name, PathOf(d)) = {}
                           ELSE Cardinality(FoundAs(name, PathOf(d))) = 1
  /\ ~ Ahead(d) /\ ~ Open(d) =>
       \A name \in Wanted(d) : Cardinality(FoundAs(name, PathOf(d))) = 1

Going == result \in {"none", "scanning", "ok"}

FindInv == Going => \A d \in Dirs : Due(d) => Told(d)

\* The directories above one that is due are due.
LEMMA DueAbove ==
  ASSUME parent \in Trees, NEW d \in Dirs, Due(d), NEW a \in Above(parent, d)
  PROVE  a \in Dirs /\ Due(a)
<1>1. a \in Dirs /\ Above(parent, a) \subseteq Above(parent, d)
  BY AboveAbove
<1>2. Settled(a)
  BY <1>1 DEF Due, Settled
<1>3. Reachable(a)
  BY <1>1 DEF Due, Reachable
<1>4. CASE a = d
  BY <1>1, <1>4
<1>5. CASE a # d
  <2>1. d # Root
    <3>1. d = Root => Above(parent, d) = {Root}
      BY AboveIs
    <3> QED BY <1>5, <3>1
  <2>2. a \in Above(parent, parent[d]) /\ parent[d] \in Dirs
    BY <1>5, <2>1, AboveIs DEF Trees
  <2>3. Above(parent, a) \subseteq Above(parent, parent[d]) /\ Above(parent, parent[d]) \subseteq Dirs
    BY <2>2, AboveAbove, AboveIs
  <2>4. Depth(parent, a) <= Depth(parent, parent[d])
    <3>1. IsFiniteSet(Above(parent, parent[d]))
      BY <2>3, ScanAssumption, FS_Subset
    <3> QED BY <2>3, <3>1, FS_Subset DEF Depth
  <2>5. /\ Depth(parent, d) = Depth(parent, parent[d]) + 1
        /\ Depth(parent, a) \in Nat /\ Depth(parent, parent[d]) \in Nat
    BY <1>1, <2>1, <2>2, DepthIs
  <2>6. FdLimit \in Nat /\ PathLimit \in Nat
    BY ScanAssumption
  <2>7. Depth(parent, d) <= FdLimit /\ Depth(parent, d) <= PathLimit
    BY <2>5, <2>6 DEF Due, Legible
  <2>8. Depth(parent, a) <= FdLimit /\ Depth(parent, a) < PathLimit
    BY <2>4, <2>5, <2>6, <2>7
  <2> QED BY <1>1, <1>2, <1>3, <2>8 DEF Due, Legible
<1> QED BY <1>4, <1>5

\* What is due after a step was due before it.
LEMMA DueKept ==
  ASSUME TreeInv, TreeInv', TreeStep, NEW d \in Dirs, Due(d)'
  PROVE  /\ Due(d) /\ PathOf(d)' = PathOf(d) /\ Wanted(d)' = Wanted(d)
         /\ Above(parent', d) = Above(parent, d) /\ Above(parent, d) \subseteq Dirs
         /\ \A a \in Above(parent, d) : parent'[a] = parent[a]
<1>1. Settled(d)'
  BY DEF Due
<1>2. /\ Settled(d) /\ fault' = fault /\ Above(parent', d) = Above(parent, d)
      /\ \A a \in Above(parent', d) : parent[a] = parent'[a]
  BY <1>1, SettledKept
<1>3. /\ PathOf(d)' = PathOf(d) /\ Depth(parent', d) = Depth(parent, d) /\ (Legible(d)' => Legible(d))
      /\ Reachable(d) <=> Reachable(d)'
  BY <1>1, AllowedKept
<1>4. Due(d)
  BY <1>2, <1>3 DEF Due
<1>5. Wanted(d)' = Wanted(d)
  BY <1>2 DEF Wanted, Untyped
<1>6. Above(parent, d) \subseteq Dirs
  BY AboveIs DEF TreeInv
<1> QED BY <1>2, <1>3, <1>4, <1>5, <1>6

\* Calls that go on for the same directories, and pass no entry that leads to
\* d, leave it ahead or not.
LEMMA AheadKept ==
  ASSUME TreeInv, TreeInv', TreeStep, NEW d \in Dirs, Due(d)',
         result' = "none" <=> result = "none", Len(stack') = Len(stack),
         \A k \in 1 .. Len(stack) : stack'[k].dir = stack[k].dir,
         \A k \in 1 .. Len(stack), a \in Above(parent, d) \ {Root} :
           stack[k].dir = parent[a] => (Looks(k, NameOf[a])' <=> Looks(k, NameOf[a]))
  PROVE  (Ahead(d)' <=> Ahead(d)) /\ (Open(d)' <=> Open(d))
<1>1. /\ Above(parent', d) = Above(parent, d)
      /\ \A a \in Above(parent, d) : parent'[a] = parent[a]
  BY DueKept
<1>2. ASSUME NEW a \in Above(parent, d) PROVE Pending(a)' <=> Pending(a)
  BY <1>1 DEF Pending
<1>3. Ahead(d)' <=> Ahead(d)
  BY <1>1, <1>2 DEF Ahead
<1>4. Open(d)' <=> Open(d)
  BY DEF Open
<1> QED BY <1>3, <1>4

\* If moreover the call for d has the same files before it, all is as it was.
LEMMA StandStill ==
  ASSUME TreeInv, TreeInv', TreeStep, NEW d \in Dirs, Due(d)', Told(d),
         result' = "none" <=> result = "none", Len(stack') = Len(stack),
         \A k \in 1 .. Len(stack) : stack'[k].dir = stack[k].dir,
         \A k \in 1 .. Len(stack), a \in Above(parent, d) \ {Root} :
           stack[k].dir = parent[a] => (Looks(k, NameOf[a])' <=> Looks(k, NameOf[a])),
         \A k \in 1 .. Len(stack), name \in Wanted(d) :
           stack[k].dir = d => (Looks(k, name)' <=> Looks(k, name)),
         UNCHANGED <<found, paths>>
  PROVE  Told(d)'
<1>1. (Ahead(d)' <=> Ahead(d)) /\ (Open(d)' <=> Open(d))
  BY AheadKept
<1>2. PathOf(d)' = PathOf(d) /\ Wanted(d)' = Wanted(d)
  BY DueKept
<1>3. ASSUME NEW name PROVE FoundAs(name, PathOf(d))' = FoundAs(name, PathOf(d))
  BY <1>2 DEF FoundAs, GetString
<1> QED BY <1>1, <1>2, <1>3 DEF Told

-----------------------------------------------------------------------------
(* What the calls of the scan are like after a step *)

\* Only the deepest call changes.
LEMMA TopChanges ==
  ASSUME StackInv, stack # <<>>, NEW f \in Frame, stack' = [stack EXCEPT ![Len(stack)] = f]
  PROVE  /\ Len(stack') = Len(stack) /\ Len(stack) \in Nat \ {0}
         /\ \A k \in 1 .. Len(stack) : stack'[k] = IF k = Len(stack) THEN f ELSE stack[k]
<1>1. stack \in Seq(Frame) /\ Len(stack) \in Nat \ {0} /\ Len(stack) \in 1 .. Len(stack)
  BY TopIsCall
<1> QED BY <1>1, ExceptSeq

\* The deepest call has passed an entry.
LEMMA EntryPassed ==
  ASSUME StackInv, stack # <<>>, NEW name, Passed(name)
  PROVE  /\ Len(stack') = Len(stack) /\ Len(stack) \in Nat \ {0}
         /\ \A k \in 1 .. Len(stack) :
              /\ stack'[k].dir = stack[k].dir /\ stack'[k].path = stack[k].path
              /\ k # Len(stack) => stack'[k].todo = stack[k].todo
              /\ k = Len(stack) => stack'[k].todo = Top.todo \ {name}
<1> DEFINE f == [Top EXCEPT !.todo = @ \ {name}]
<1>1. Top \in Frame /\ Top = stack[Len(stack)] /\ Len(stack) \in 1 .. Len(stack)
  BY TopIsCall
<1>2. f \in Frame /\ f.dir = Top.dir /\ f.path = Top.path /\ f.todo = Top.todo \ {name}
  BY <1>1 DEF Frame
<1>3. stack' = [stack EXCEPT ![Len(stack)] = f]
  BY <1>1 DEF Passed
<1> HIDE DEF f
<1>4. /\ Len(stack') = Len(stack) /\ Len(stack) \in Nat \ {0}
      /\ \A k \in 1 .. Len(stack) : stack'[k] = IF k = Len(stack) THEN f ELSE stack[k]
  BY <1>2, <1>3, TopChanges
<1> QED BY <1>1, <1>2, <1>4

\* The deepest call has returned.
LEMMA CallReturned ==
  ASSUME StackInv, stack # <<>>, stack' = Front(stack)
  PROVE  /\ Len(stack') = Len(stack) - 1 /\ Len(stack) \in Nat \ {0}
         /\ \A k \in 1 .. Len(stack') : k \in 1 .. Len(stack) /\ k # Len(stack) /\ stack'[k] = stack[k]
<1> PICK n, m : n = Len(stack) /\ m = n - 1
  OBVIOUS
<1>1. stack \in Seq(Frame) /\ n \in Nat \ {0}
  BY TopIsCall
<1>2. m \in Nat /\ m \in Int /\ 1 \in Int /\ (1 <= m \/ m = 0) /\ m - 1 + 1 = m
      /\ (\A i \in 1 .. m : i \in 1 .. n /\ i # n /\ 1 + i - 1 = i)
  BY <1>1
<1>3. stack' = SubSeq(stack, 1, m)
  BY DEF Front
<1>4. \A i \in 1 .. m : stack[i] \in Frame
  BY <1>1, <1>2, ElementOfSeq
<1>5. /\ Len(SubSeq(stack, 1, m)) = IF 1 <= m THEN m - 1 + 1 ELSE 0
      /\ \A i \in 1 .. m - 1 + 1 : SubSeq(stack, 1, m)[i] = stack[1 + i - 1]
  BY <1>2, <1>4, SubSeqProperties
<1>6. Len(stack') = m /\ \A i \in 1 .. m : stack'[i] = stack[i]
  BY <1>2, <1>3, <1>5
<1> QED BY <1>1, <1>2, <1>6

\* The deepest call has called itself for c.
LEMMA CallMade ==
  ASSUME StackInv, stack # <<>>, NEW name, NEW c \in Dirs,
         stack' = Append([stack EXCEPT ![Len(stack)].todo = @ \ {name}], Call(c))
  PROVE  /\ Len(stack') = Len(stack) + 1 /\ Len(stack) \in Nat \ {0}
         /\ \A k \in 1 .. Len(stack) :
              /\ stack'[k].dir = stack[k].dir /\ stack'[k].path = stack[k].path
              /\ k # Len(stack) => stack'[k].todo = stack[k].todo
              /\ k = Len(stack) => stack'[k].todo = Top.todo \ {name}
         /\ stack'[Len(stack) + 1].dir = c /\ stack'[Len(stack) + 1].path = <<>>
<1> DEFINE f == [Top EXCEPT !.todo = @ \ {name}]
           cut == [stack EXCEPT ![Len(stack)] = f]
<1> PICK call, n : call = Call(c) /\ n = Len(stack)
  OBVIOUS
<1>1. Top \in Frame /\ Top = stack[n] /\ n \in 1 .. n /\ stack \in Seq(Frame) /\ n \in Nat \ {0}
  BY TopIsCall
<1>2. f \in Frame /\ f.dir = Top.dir /\ f.path = Top.path /\ f.todo = Top.todo \ {name}
  BY <1>1 DEF Frame
<1>3. stack' = Append(cut, call)
  BY <1>1
<1>4. call \in Frame /\ call.dir = c /\ call.path = <<>>
  BY DEF Call, Frame
<1> HIDE DEF f
<1>5. cut \in Seq(Frame) /\ Len(cut) = n /\ \A j \in 1 .. n : cut[j] = IF j = n THEN f ELSE stack[j]
  BY <1>1, <1>2, ExceptSeq
<1> HIDE DEF cut
<1>6. /\ Len(stack') = n + 1 /\ stack'[n + 1] = call
      /\ \A j \in 1 .. n : stack'[j] = cut[j]
  <2>1. /\ Len(Append(cut, call)) = n + 1 /\ Append(cut, call)[n + 1] = call
        /\ (\A j \in 1 .. n : Append(cut, call)[j] = cut[j])
    BY <1>4, <1>5, AppendProperties
  <2> QED BY <1>3, <2>1, Zenon
<1> QED BY <1>1, <1>2, <1>4, <1>5, <1>6

\* A call that has its entries, or waits for the list of bind mounts.
LEMMA PathRead ==
  ASSUME TreeInv, StackInv, Enter, result' # "failed"
  PROVE  /\ Len(stack') = Len(stack) /\ Len(stack) \in Nat \ {0} /\ result' = result
         /\ \A k \in 1 .. Len(stack) :
              /\ stack'[k].dir = stack[k].dir
              /\ k # Len(stack) => stack'[k] = stack[k]
         /\ stack'[Len(stack)].path = DirPath(PathOf(Top.dir))
         /\ asking' # "none" \/ stack'[Len(stack)].todo = EntriesOf(Top.dir)
<1> DEFINE path == DirPath(PathOf(Top.dir))
           todo == IF PruneBindMounts /\ updated THEN {} ELSE EntriesOf(Top.dir)
           f == [Top EXCEPT !.path = path, !.todo = todo]
<1>1. stack # <<>> /\ result = "scanning"
      /\ (PruneBindMounts /\ updated => asking' = "rebuild")
      /\ stack' = [stack EXCEPT ![Len(stack)].path = path, ![Len(stack)].todo = todo]
      /\ result' = result
  BY DEF Enter, EnterAs, Calling, TakeFlag
<1>2. Top \in Frame /\ Top = stack[Len(stack)] /\ Len(stack) \in 1 .. Len(stack)
      /\ DOMAIN stack = 1 .. Len(stack)
  BY <1>1, TopIsCall, LenProperties
<1>3. path \in AllPaths /\ todo \in SUBSET EntryName
  <2>1. Top.dir \in Dirs
    BY <1>2 DEF Frame
  <2> QED BY <2>1, EntriesAreNames DEF TreeInv, AllPaths, PathOf
<1> HIDE DEF path, todo
<1>4. f \in Frame /\ f.dir = Top.dir /\ f.path = path /\ f.todo = todo
  BY <1>2, <1>3 DEF Frame
<1>5. stack' = [stack EXCEPT ![Len(stack)] = f]
  BY <1>1, <1>2
<1> HIDE DEF f
<1>6. /\ Len(stack') = Len(stack) /\ Len(stack) \in Nat \ {0}
      /\ \A k \in 1 .. Len(stack) : stack'[k] = IF k = Len(stack) THEN f ELSE stack[k]
  BY <1>1, <1>4, <1>5, TopChanges
<1>7. asking' # "none" \/ todo = EntriesOf(Top.dir)
  BY <1>1 DEF todo
<1> QED BY <1>1, <1>2, <1>4, <1>6, <1>7 DEF path

\* The call that has waited goes on.
LEMMA ListRead ==
  ASSUME StackInv, EnterRebuilt, result' # "failed"
  PROVE  /\ Len(stack') = Len(stack) /\ Len(stack) \in Nat \ {0} /\ result' = result
         /\ \A k \in 1 .. Len(stack) :
              /\ stack'[k].dir = stack[k].dir
              /\ k # Len(stack) => stack'[k] = stack[k]
         /\ stack'[Len(stack)].path = Top.path
         /\ stack'[Len(stack)].todo = EntriesOf(Top.dir)
<1> DEFINE f == [Top EXCEPT !.todo = EntriesOf(Top.dir)]
<1>1. stack # <<>> /\ result' = result
      /\ stack' = [stack EXCEPT ![Len(stack)].todo = EntriesOf(Top.dir)]
  BY DEF EnterRebuilt, Calling
<1>2. Top \in Frame /\ Top = stack[Len(stack)] /\ Len(stack) \in 1 .. Len(stack)
  BY <1>1, TopIsCall
<1>3. EntriesOf(Top.dir) \in SUBSET EntryName
  <2>1. Top.dir \in Dirs
    BY <1>2 DEF Frame
  <2> QED BY <2>1, EntriesAreNames
<1>4. f \in Frame /\ f.dir = Top.dir /\ f.path = Top.path /\ f.todo = EntriesOf(Top.dir)
  BY <1>2, <1>3 DEF Frame
<1>5. stack' = [stack EXCEPT ![Len(stack)] = f]
  BY <1>1, <1>2
<1> HIDE DEF f
<1>6. /\ Len(stack') = Len(stack) /\ Len(stack) \in Nat \ {0}
      /\ \A k \in 1 .. Len(stack) : stack'[k] = IF k = Len(stack) THEN f ELSE stack[k]
  BY <1>1, <1>4, <1>5, TopChanges
<1> QED BY <1>1, <1>2, <1>4, <1>6

\* The way from a directory up to another ends with a child of that one.
LEMMA ChildOnWay ==
  ASSUME NEW t \in Trees, NEW d \in Dirs, NEW c \in Above(t, d), c # d
  PROVE  \E a \in Above(t, d) \ {Root} : t[a] = c
<1> DEFINE N == Cardinality(Dirs)
           up == Chain(t, d)
           S == {k \in Nat : k <= N /\ up[k] = c}
<1>1. t \in [Dirs -> Dirs] /\ t[Root] = Root
  BY ScanAssumption DEF Trees
<1>2. /\ N \in Nat /\ up \in [0 .. N -> Dirs] /\ up[0] = d
      /\ \A k \in 1 .. N : up[k] = t[up[k - 1]]
  BY <1>1, ChainRight
<1> HIDE DEF N, up
<1>3. Above(t, d) = {up[k] : k \in 0 .. N}
  BY <1>2 DEF Above, Range, up
<1>4. S \in SUBSET Nat /\ S # {}
  BY <1>2, <1>3
<1>5. PICK k \in S : \A j \in S : k <= j
  <2> HIDE DEF S
  <2> QED BY <1>4, LeastElement
<1> PICK m : m = k - 1
  OBVIOUS
<1>6. k \in 1 .. N /\ m \in 0 .. N /\ m \in Nat /\ up[k] = c /\ m < k /\ k \in Nat
  BY <1>2, <1>5
<1>7. c = t[up[m]] /\ up[m] \in Above(t, d)
  BY <1>2, <1>3, <1>6
<1>8. up[m] # Root
  <2> SUFFICES ASSUME up[m] = Root PROVE FALSE
    OBVIOUS
  <2>1. up[m] = c
    BY <1>1, <1>7
  <2>2. m \in S
    BY <1>2, <1>6, <2>1
  <2> QED BY <1>5, <1>6, <2>2
<1> QED BY <1>7, <1>8

\* There is one call at a time for a settled directory.
LEMMA OneCall ==
  ASSUME CallsInv, NEW d, Settled(d),
         NEW j \in 1 .. Len(stack), NEW k \in 1 .. Len(stack), stack[j].dir = d, stack[k].dir = d
  PROVE  j = k
BY DEF CallsInv, InPlace

\* A directory is not ahead of a step but by an entry that leads to it.
LEMMA PendingAhead ==
  ASSUME parent \in Trees, NEW d \in Dirs, NEW a \in Above(parent, d), a # Root, Due(d)
  PROVE  /\ a \in Dirs /\ parent[a] \in Dirs /\ parent[a] \in Above(parent, d)
         /\ Due(a) /\ Due(parent[a])
         /\ Depth(parent, a) = Depth(parent, parent[a]) + 1
         /\ Depth(parent, parent[a]) \in Nat
<1>1. a \in Dirs /\ Due(a)
  BY DueAbove
<1>2. parent[a] \in Dirs
  BY <1>1 DEF Trees
<1>3. parent[a] \in Above(parent, a)
  BY <1>1, <1>2, AboveParent
<1>4. parent[a] \in Above(parent, d)
  BY <1>3, AboveAbove
<1>5. Due(parent[a])
  BY <1>4, DueAbove
<1>6. /\ Depth(parent, a) = Depth(parent, parent[a]) + 1
      /\ Depth(parent, parent[a]) \in Nat
  BY <1>1, <1>2, DepthIs
<1> QED BY <1>1, <1>2, <1>4, <1>5, <1>6

\* The scan has come to the directory of a call.
LEMMA OpenNotAhead ==
  ASSUME parent \in Trees, FindInv, Going, NEW k \in 1 .. Len(stack), stack[k].dir \in Dirs,
         NEW d, d = stack[k].dir, Due(d)
  PROVE  \A a \in Above(parent, d) : ~ Pending(a)
<1>1. Told(d) /\ Open(d)
  BY DEF FindInv, Open
<1> QED BY <1>1 DEF Told, Ahead

\* A call returns that has looked at all its entries, or that is not due.
LEMMA ReturnTold ==
  ASSUME TreeInv, StackInv, CallsInv, FindInv, Going, UNCHANGED <<parent, moved, fault>>,
         stack # <<>>, stack' = Front(stack), asking = "none", asking' = "none",
         result # "none", result' # "none", UNCHANGED <<found, paths>>,
         Due(Top.dir) => Top.path # <<>> /\ Top.todo = {},
         NEW d \in Dirs, Due(d)
  PROVE  Told(d)'
<1> PICK n : n = Len(stack)
  OBVIOUS
<1>1. /\ Len(stack') = n - 1 /\ n \in Nat \ {0}
      /\ \A k \in 1 .. Len(stack') : k \in 1 .. n /\ k # n /\ stack'[k] = stack[k]
  BY CallReturned
<1>2. Top = stack[n] /\ n \in 1 .. n /\ parent \in Trees /\ Told(d)
  BY TopIsCall DEF TreeInv, FindInv
<1>3. ASSUME NEW k \in 1 .. Len(stack'), NEW name PROVE Looks(k, name)' <=> Looks(k, name)
  BY <1>1, <1>3 DEF Looks
<1>4. \A k \in 1 .. n : k # n => k \in 1 .. Len(stack')
  BY <1>1
<1>5. ASSUME NEW a \in Above(parent, d) PROVE Pending(a)' <=> Pending(a)
  <2>1. CASE a = Root
    BY <2>1 DEF Pending
  <2>2. CASE a # Root
    <3>1. Due(parent[a])
      BY <1>2, <2>2, PendingAhead
    <3>2. ASSUME stack[n].dir = parent[a] PROVE ~ Looks(n, NameOf[a])
      BY <1>2, <3>1, <3>2 DEF Looks
    <3>3. ASSUME Pending(a) PROVE Pending(a)'
      <4>1. PICK k \in 1 .. n : stack[k].dir = parent[a] /\ Looks(k, NameOf[a])
        BY <2>2, <3>3 DEF Pending
      <4>2. k # n
        BY <3>2, <4>1
      <4>3. k \in 1 .. Len(stack') /\ stack'[k] = stack[k] /\ Looks(k, NameOf[a])'
        BY <1>1, <1>3, <1>4, <4>1, <4>2
      <4> QED BY <2>2, <4>1, <4>3 DEF Pending
    <3>4. ASSUME Pending(a)' PROVE Pending(a)
      <4>1. PICK k \in 1 .. Len(stack') : stack'[k].dir = parent[a] /\ Looks(k, NameOf[a])'
        BY <2>2, <3>4 DEF Pending
      <4>2. k \in 1 .. n /\ stack'[k] = stack[k] /\ Looks(k, NameOf[a])
        BY <1>1, <1>3, <4>1
      <4> QED BY <2>2, <4>1, <4>2 DEF Pending
    <3> QED BY <3>3, <3>4
  <2> QED BY <2>1, <2>2
<1>6. Ahead(d)' <=> Ahead(d)
  BY <1>5 DEF Ahead
<1>7. ASSUME NEW name
      PROVE FoundAs(name, PathOf(d))' = FoundAs(name, PathOf(d)) /\ Wanted(d)' = Wanted(d)
  BY DEF FoundAs, GetString, PathOf, Wanted, Untyped
<1>8. CASE stack[n].dir # d
  <2>1. Open(d)' <=> Open(d)
    BY <1>1, <1>4, <1>8 DEF Open
  <2>2. \A k \in 1 .. Len(stack') : stack'[k].dir = d =>
          \A name \in Wanted(d) :
            IF Looks(k, name)' THEN FoundAs(name, PathOf(d)) = {}
                               ELSE Cardinality(FoundAs(name, PathOf(d))) = 1
    BY <1>1, <1>2, <1>3 DEF Told
  <2> QED BY <1>2, <1>6, <1>7, <2>1, <2>2 DEF Told
<1>9. CASE stack[n].dir = d
  <2>1. Open(d) /\ ~ Ahead(d)
    BY <1>2, <1>9 DEF Told, Open
  <2>2. \A name \in Wanted(d) : ~ Looks(n, name)
    BY <1>2, <1>9 DEF Looks
  <2>3. \A name \in Wanted(d) : Cardinality(FoundAs(name, PathOf(d))) = 1
    BY <1>2, <1>9, <2>2 DEF Told
  <2>4. \A k \in 1 .. Len(stack') : stack'[k].dir # d
    <3>1. Settled(d)
      BY DEF Due
    <3> QED BY <1>1, <1>2, <1>9, <3>1, OneCall
  <2> QED BY <1>6, <1>7, <2>1, <2>3, <2>4 DEF Told
<1> QED BY <1>8, <1>9

\* The scan begins: it has still to come to every directory but the first.
LEMMA OpenTold ==
  ASSUME TreeInv, CallsInv, OpenRoot, NEW d \in Dirs
  PROVE  Told(d)'
<1>1. /\ stack = <<>> /\ found = <<>> /\ result' = "scanning"
      /\ stack' = <<Call(Root)>> /\ UNCHANGED <<parent, fault, found, paths>>
  BY DEF OpenRoot, CallsInv, treeVars, foundVars
<1>2. Len(stack') = 1 /\ stack'[1].dir = Root /\ stack'[1].path = <<>>
  <2> PICK call : call = Call(Root)
    OBVIOUS
  <2>1. stack' = <<call>> /\ call.dir = Root /\ call.path = <<>>
    BY <1>1 DEF Call
  <2> QED BY <2>1
<1>3. ASSUME NEW name PROVE FoundAs(name, PathOf(d))' = {}
  BY <1>1 DEF FoundAs
<1>4. ASSUME NEW k \in 1 .. Len(stack'), NEW name PROVE Looks(k, name)'
  BY <1>2 DEF Looks
<1>5. CASE d = Root
  <2>1. Above(parent', d) = {Root}
    BY <1>1, <1>5, AboveIs DEF TreeInv
  <2>2. ~ Ahead(d)' /\ Open(d)'
    BY <1>1, <1>2, <1>5, <2>1 DEF Ahead, Pending, Open
  <2> QED BY <1>3, <1>4, <2>2 DEF Told
<1>6. CASE d # Root
  <2>1. Root \in Above(parent, d) /\ parent \in Trees
    BY DEF TreeInv, Trees
  <2>2. PICK a \in Above(parent, d) \ {Root} : parent[a] = Root
    BY <1>6, <2>1, ChildOnWay
  <2>3. 1 \in 1 .. Len(stack')
    BY <1>2
  <2>4. Pending(a)'
    BY <1>1, <1>2, <1>4, <2>2, <2>3 DEF Pending
  <2>5. Ahead(d)' /\ ~ Open(d)'
    BY <1>1, <1>2, <1>6, <2>2, <2>4 DEF Ahead, Open
  <2> QED BY <1>2, <1>3, <1>6, <2>5 DEF Told
<1> QED BY <1>5, <1>6

\* An entry is passed that neither leads to d nor is a file wanted there.
LEMMA PassTold ==
  ASSUME TreeInv, StackInv, Reading, UNCHANGED <<parent, moved, fault, been>>,
         UNCHANGED <<found, paths, result, asking>>,
         NEW name, Passed(name), NEW d \in Dirs, Due(d), Told(d),
         \A a \in Above(parent, d) \ {Root} : parent[a] = Top.dir => NameOf[a] # name,
         Top.dir = d => name \notin Wanted(d)
  PROVE  Told(d)'
<1>1. /\ Len(stack') = Len(stack) /\ Len(stack) \in Nat \ {0}
      /\ \A k \in 1 .. Len(stack) :
           /\ stack'[k].dir = stack[k].dir /\ stack'[k].path = stack[k].path
           /\ k # Len(stack) => stack'[k].todo = stack[k].todo
           /\ k = Len(stack) => stack'[k].todo = Top.todo \ {name}
  BY EntryPassed DEF Reading, Calling
<1>2. Top = stack[Len(stack)]
  BY DEF Top, Last
<1>3. TreeInv' /\ TreeStep /\ Due(d)'
  <2>1. TreeInv' /\ TreeStep
    BY DEF TreeInv, TreeStep, PathOf
  <2>2. Due(d)'
    BY DEF Due, Settled, Reachable, Legible, PathOf, Untyped
  <2> QED BY <2>1, <2>2
<1>4. ASSUME NEW k \in 1 .. Len(stack), NEW x, stack[k].dir = Top.dir => x # name
      PROVE  Looks(k, x)' <=> Looks(k, x)
  BY <1>1, <1>2, <1>4 DEF Looks
<1> QED BY <1>1, <1>3, <1>4, StandStill

\* A directory that is due is opened, by a call for its parent.
LEMMA DueOpens ==
  ASSUME TreeInv, StackInv, PruneInv, CallsInv, stack # <<>>,
         NEW a \in Dirs \ {Root}, Due(a), parent[a] = Top.dir
  PROVE  /\ Top.dir \in Dirs /\ Due(Top.dir) /\ Top.dir \notin Untyped
         /\ NameOf[a] \notin PruneNames /\ a \in Opened(NameOf[a])
         /\ fault[a] \notin {"nostat", "nostream"} /\ a \notin Excluded
         /\ Top.path # <<>> => Top.path = PathOf(Top.dir)
         /\ \A c \in Opened(NameOf[a]) : c = a
<1> PICK n, dir : n = Len(stack) /\ dir = Top.dir
  OBVIOUS
<1>1. parent \in Trees /\ n \in 1 .. n /\ stack[n] = Top
  BY TopIsCall DEF TreeInv
<1>2. /\ dir \in Dirs /\ Due(dir) /\ a \in Above(parent, a)
      /\ Depth(parent, a) = Depth(parent, dir) + 1 /\ Depth(parent, dir) \in Nat
  BY <1>1, AboveParent, PendingAhead
<1>3. /\ NameOf[a] \notin PruneNames /\ a \notin Excluded
      /\ fault[a] \in {"none", "untyped"} /\ dir \notin Untyped
  BY <1>2 DEF Due, Reachable
<1>4. n = Depth(parent, dir)
  BY <1>1, <1>2 DEF CallsInv, InPlace, Due
<1>5. n < FdLimit
  BY <1>2, <1>4, ScanAssumption DEF Due
<1>6. a \in Opened(NameOf[a])
  BY <1>3, <1>5 DEF Opened
<1>7. ASSUME Top.path # <<>> PROVE Top.path = PathOf(dir)
  <2> PICK path : path = Top.path
    OBVIOUS
  <2>1. Ruled(dir, path)
    BY <1>1 DEF PruneInv
  <2>2. Depth(parent, dir) <= PathLimit
    BY <1>2, ScanAssumption DEF Due, Legible
  <2> QED BY <1>2, <1>7, <2>1, <2>2 DEF Ruled, Due
<1>8. \A c \in Opened(NameOf[a]) : c = a
  BY <1>1 DEF Opened, Trees
<1> QED BY <1>2, <1>3, <1>6, <1>7, <1>8

\* No entry that leads to a directory that is due is passed over.
LEMMA DeadEnds ==
  ASSUME TreeInv, StackInv, PruneInv, CallsInv, PassFile \/ PassDir \/ PassExcluded \/ PassUntyped,
         FindInv, Going, NEW d \in Dirs, Due(d)
  PROVE  Told(d)'
<1>1. /\ Reading /\ stack # <<>> /\ Top.path # <<>> /\ asking = "none" /\ parent \in Trees /\ Told(d)
      /\ UNCHANGED <<parent, moved, fault, been>> /\ UNCHANGED <<found, paths, result, asking>>
  BY DEF PassFile, PassDir, PassExcluded, PassUntyped, Reading, Calling, treeVars, foundVars, bindVars,
         TreeInv, FindInv
<1>2. Top.dir \in Dirs
  <2>1. Top \in Frame
    BY <1>1, TopIsCall
  <2> QED BY <2>1 DEF Frame
<1>3. ASSUME NEW name, Passed(name), name \notin Wanted(Top.dir),
             \A a \in Dirs \ {Root} : Due(a) /\ parent[a] = Top.dir => NameOf[a] # name
      PROVE  Told(d)'
  <2>1. \A a \in Above(parent, d) \ {Root} : parent[a] = Top.dir => NameOf[a] # name
    BY <1>1, <1>3, DueAbove
  <2> QED BY <1>1, <1>3, <2>1, PassTold
<1>4. CASE PassFile
  <2>1. PICK name \in Top.todo \cap FilesIn[Top.dir] :
          /\ name \notin Tracked \/ Top.dir \in Untyped
          /\ Passed(name)
    BY <1>4 DEF PassFile
  <2>2. \A a \in Dirs \ {Root} : parent[a] = Top.dir => NameOf[a] # name
    BY <1>1, <2>1 DEF Trees
  <2>3. name \notin Wanted(Top.dir)
    BY <2>1 DEF Wanted
  <2> QED BY <1>3, <2>1, <2>2, <2>3
<1>5. ASSUME NEW name \in DirEntries PROVE name \notin Wanted(Top.dir)
  BY <1>5 DEF DirEntries, Wanted
<1>6. CASE PassDir
  <2>1. PICK name \in DirEntries : (name \in PruneNames \/ Opened(name) = {}) /\ Passed(name)
    BY <1>6 DEF PassDir
  <2>2. \A a \in Dirs \ {Root} : Due(a) /\ parent[a] = Top.dir => NameOf[a] # name
    BY <1>1, <2>1, DueOpens
  <2> QED BY <1>3, <1>5, <2>1, <2>2
<1>7. CASE PassExcluded
  <2>1. PICK name \in DirEntries \ PruneNames : \E e \in Opened(name) :
           /\ fault[e] = "nostat" \/ e \in Mounts
           /\ IsExcluded(Append(Top.path, name)) /\ Passed(name)
    BY <1>7 DEF PassExcluded
  <2>2. PICK m \in Excluded : PathOf(m) = Append(Top.path, name)
    BY <2>1 DEF IsExcluded
  <2>3. ASSUME NEW a \in Dirs \ {Root}, Due(a), parent[a] = Top.dir, NameOf[a] = name
        PROVE  FALSE
    <3>1. Top.path = PathOf(parent[a]) /\ a \notin Excluded
      BY <1>1, <2>3, DueOpens
    <3>2. PathIn(parent, m) = PathIn(parent, a) /\ m \in Dirs
      BY <1>1, <2>2, <2>3, <3>1, PathIs, ScanAssumption DEF PathOf
    <3>3. m = a
      BY <1>1, <3>2, PathIsUnique
    <3> QED BY <3>1, <3>3
  <2> QED BY <1>3, <1>5, <2>1, <2>3
<1>8. CASE PassUntyped
  <2>1. PICK name \in DirEntries : Passed(name)
    BY <1>8 DEF PassUntyped
  <2>2. Top.dir \in Untyped
    BY <1>8 DEF PassUntyped
  <2>3. \A a \in Dirs \ {Root} : Due(a) /\ parent[a] = Top.dir => NameOf[a] # name
    BY <1>1, <2>2, DueOpens
  <2> QED BY <1>3, <1>5, <2>1, <2>3
<1> QED BY <1>4, <1>6, <1>7, <1>8

\* What a call that finds a file adds to the files found under a path.
LEMMA FoundMore ==
  ASSUME ScanInv, FindFile
  PROVE  \E name \in Top.todo \cap FilesIn[Top.dir] \cap Tracked :
           /\ Passed(name)
           /\ \A x, path :
                FoundAs(x, path)' = FoundAs(x, path) \cup
                  (IF x = name /\ path = Top.path THEN {Len(found) + 1} ELSE {})
<1>1. TreeInv /\ StackInv /\ CacheInv /\ FoundInv /\ SamplesInv
  BY DEF ScanInv
<1>2. PICK name \in Top.todo \cap FilesIn[Top.dir] \cap Tracked :
        /\ found' = Append(found, [name |-> name, path_id |-> StoreString(Top.path)])
        /\ Passed(name)
  BY DEF FindFile
<1>3. CacheInv' /\ \A i \in 1 .. Len(found') : FoundBefore(i) \/ FoundNow(i)
  BY <1>1, FindFileKeeps
<1>4. Top.dir \in Dirs /\ Top.path \in AllPaths
  <2>1. Top \in Frame /\ stack # <<>> /\ Top.path # <<>>
    BY <1>1, TopIsCall DEF FindFile, Reading, Calling
  <2> QED BY <1>1, <2>1, TopIsCall DEF Frame
<1> PICK id, n : id = StoreString(Top.path) /\ n = Len(found)
  OBVIOUS
<1> DEFINE new == [name |-> name, path_id |-> id]
           E == [name : EntryName, path_id : Nat]
<1>5. /\ id \in Nat /\ id < Len(paths') /\ paths'[id + 1] = Top.path
      /\ Len(paths) <= Len(paths') /\ (\A i \in 1 .. Len(paths) : paths'[i] = paths[i])
      /\ Len(paths) \in Nat
  <2>1. paths' = IF Top.path \in Range(paths) THEN paths ELSE Append(paths, Top.path)
    BY DEF FindFile
  <2>2. paths \in Seq(AllPaths)
    BY <1>1 DEF CacheInv
  <2> QED BY <1>1, <1>4, <2>1, <2>2, StoreStringRight, LenProperties
<1>6. name \in EntryName /\ new \in E /\ new.name = name /\ new.path_id = id
  BY <1>2, <1>4, <1>5 DEF EntryName
<1>7. found' = Append(found, new) /\ found \in Seq(E)
  BY <1>1, <1>2 DEF CacheInv
<1> HIDE DEF new
<1>8. /\ n \in Nat /\ DOMAIN found = 1 .. n /\ DOMAIN found' = 1 .. n + 1
      /\ (\A i \in 1 .. n : found'[i] = found[i]) /\ found'[n + 1] = new
  <2>1. /\ found' \in Seq(E) /\ Len(found') = n + 1
        /\ (\A i \in 1 .. n : found'[i] = found[i]) /\ found'[n + 1] = new
    BY <1>6, <1>7, AppendProperties
  <2> QED BY <1>7, <2>1, LenProperties
<1>9. ASSUME NEW i \in 1 .. n
      PROVE  found'[i].name = found[i].name /\ GetString(found[i].path_id)' = GetString(found[i].path_id)
  <2> PICK p : p = found[i].path_id
    OBVIOUS
  <2>1. found[i] \in E
    BY <1>7, <1>8, ElementOfSeq
  <2>2. p \in Nat /\ p < Len(paths)
    BY <1>1, <2>1 DEF FoundInv
  <2>3. p + 1 \in 1 .. Len(paths) /\ p < Len(paths')
    BY <1>5, <2>2
  <2>4. paths'[p + 1] = paths[p + 1]
    BY <1>5, <2>3
  <2>5. found'[i] = found[i]
    BY <1>8
  <2> QED BY <2>2, <2>3, <2>4, <2>5 DEF GetString
<1>10. found'[n + 1].name = name /\ GetString(found[n + 1].path_id)' = Top.path
  BY <1>5, <1>6, <1>8 DEF GetString
<1>11. ASSUME NEW x, NEW path
       PROVE  FoundAs(x, path)' = FoundAs(x, path) \cup
                (IF x = name /\ path = Top.path THEN {n + 1} ELSE {})
  <2>1. FoundAs(x, path) = {i \in 1 .. n : found[i].name = x /\ GetString(found[i].path_id) = path}
    BY <1>8 DEF FoundAs
  <2>2. FoundAs(x, path)' = {i \in 1 .. n + 1 : found'[i].name = x /\ GetString(found[i].path_id)' = path}
    BY <1>8 DEF FoundAs
  <2>3. \A i : i \in 1 .. n + 1 <=> i \in 1 .. n \/ i = n + 1
    BY <1>8
  <2> QED BY <1>9, <1>10, <2>1, <2>2, <2>3
<1> QED BY <1>2, <1>11

\* A file is found: it was not before, and is the only one at its path.
LEMMA FindTold ==
  ASSUME ScanInv, ScanInv', PruneInv, CallsInv, FindInv, FindFile, NEW d \in Dirs, Due(d)
  PROVE  Told(d)'
<1>1. TreeInv /\ StackInv /\ TreeInv' /\ parent \in Trees
  BY DEF ScanInv, TreeInv
<1>2. /\ Reading /\ stack # <<>> /\ Top.path # <<>> /\ asking = "none" /\ asking' = "none"
      /\ UNCHANGED <<parent, moved, fault, result>> /\ Told(d)
  BY DEF FindFile, Reading, Calling, treeVars, FindInv, Going, bindVars
<1>3. TreeStep /\ Due(d)' /\ PathOf(d)' = PathOf(d) /\ Wanted(d)' = Wanted(d)
  <2>1. Due(d)'
    BY <1>2 DEF Due, Settled, Reachable, Legible, PathOf, Untyped
  <2> QED BY <1>2, <2>1 DEF TreeStep, PathOf, Wanted, Untyped
<1>4. PICK name \in Top.todo \cap FilesIn[Top.dir] \cap Tracked :
        /\ Passed(name)
        /\ \A x, path :
             FoundAs(x, path)' = FoundAs(x, path) \cup
               (IF x = name /\ path = Top.path THEN {Len(found) + 1} ELSE {})
  BY FoundMore
<1> PICK n : n = Len(stack)
  OBVIOUS
<1>5. /\ Len(stack') = n /\ n \in Nat \ {0} /\ n \in 1 .. n /\ Top = stack[n] /\ Top.dir \in Dirs
      /\ \A k \in 1 .. n :
           /\ stack'[k].dir = stack[k].dir /\ stack'[k].path = stack[k].path
           /\ k # n => stack'[k].todo = stack[k].todo
           /\ k = n => stack'[k].todo = Top.todo \ {name}
  <2>1. Top \in Frame /\ Top = stack[n] /\ n \in 1 .. n
    BY <1>1, <1>2, TopIsCall
  <2> QED BY <1>1, <1>2, <1>4, <2>1, EntryPassed DEF Frame
<1>6. ASSUME NEW k \in 1 .. n, NEW x, k = n => x # name
      PROVE  Looks(k, x)' <=> Looks(k, x)
  BY <1>2, <1>5, <1>6 DEF Looks
<1>7. (Ahead(d)' <=> Ahead(d)) /\ (Open(d)' <=> Open(d))
  <2>1. \A k \in 1 .. Len(stack), a \in Above(parent, d) \ {Root} :
          stack[k].dir = parent[a] => (Looks(k, NameOf[a])' <=> Looks(k, NameOf[a]))
    <3>1. \A a \in Above(parent, d) \ {Root} : a \in Dirs \ {Root}
      BY <1>1, AboveAbove
    <3>2. \A a \in Above(parent, d) \ {Root} : parent[a] = Top.dir => NameOf[a] # name
      BY <1>1, <1>4, <3>1 DEF Trees
    <3> QED BY <1>5, <1>6, <3>2
  <2> QED BY <1>1, <1>2, <1>3, <1>5, <2>1, AheadKept
<1>8. Ruled(Top.dir, Top.path)
  BY <1>5 DEF PruneInv
<1>9. Top.path = PathOf(d) <=> Top.dir = d
  <2> PICK dir, path : dir = Top.dir /\ path = Top.path
    OBVIOUS
  <2>1. Ruled(dir, path) /\ Settled(d) /\ Legible(d) /\ path # <<>>
    BY <1>2, <1>8 DEF Due
  <2>2. Depth(parent, d) <= PathLimit
    BY <1>1, <2>1, DepthIs, ScanAssumption DEF Legible
  <2> QED BY <2>1, <2>2 DEF Ruled
<1>10. CASE Top.dir # d
  <2>1. ASSUME NEW x PROVE FoundAs(x, PathOf(d))' = FoundAs(x, PathOf(d))
    <3>1. Top.path # PathOf(d)
      BY <1>9, <1>10
    <3> PICK path : path = PathOf(d)
      OBVIOUS
    <3>2. FoundAs(x, path)' = FoundAs(x, path)
      BY <1>4, <3>1
    <3> QED BY <1>3, <3>2 DEF FoundAs
  <2>2. \A k \in 1 .. n : stack[k].dir = d => \A x : Looks(k, x)' <=> Looks(k, x)
    BY <1>5, <1>6, <1>10
  <2> QED BY <1>2, <1>3, <1>5, <1>7, <2>1, <2>2 DEF Told
<1>11. CASE Top.dir = d
  <2>1. Open(d) /\ ~ Ahead(d)
    BY <1>2, <1>5, <1>11 DEF Told, Open
  <2>2. ASSUME NEW x
        PROVE  FoundAs(x, PathOf(d))' =
                 FoundAs(x, PathOf(d)) \cup (IF x = name THEN {Len(found) + 1} ELSE {})
    <3> PICK path : path = PathOf(d) /\ path = Top.path
      BY <1>9, <1>11
    <3>1. FoundAs(x, path)' = FoundAs(x, path) \cup (IF x = name THEN {Len(found) + 1} ELSE {})
      BY <1>4
    <3>2. FoundAs(x, PathOf(d))' = FoundAs(x, path)'
      BY <1>3 DEF FoundAs
    <3> QED BY <3>1, <3>2
  <2>3. \A k \in 1 .. n : stack[k].dir = d => k = n
    BY <1>5, <1>11, OneCall DEF Due
  <2>4. ASSUME NEW x \in Wanted(d)
        PROVE  IF Looks(n, x)' THEN FoundAs(x, PathOf(d))' = {}
                               ELSE Cardinality(FoundAs(x, PathOf(d))') = 1
    <3>1. CASE x # name
      <4>1. Looks(n, x)' <=> Looks(n, x)
        BY <1>5, <1>6, <3>1
      <4>2. FoundAs(x, PathOf(d))' = FoundAs(x, PathOf(d)) \cup {}
        BY <2>2, <3>1, Zenon
      <4> QED BY <1>2, <1>5, <1>11, <4>1, <4>2 DEF Told
    <3>2. CASE x = name
      <4>1. Looks(n, x)
        BY <1>4, <1>5, <3>2 DEF Looks
      <4>2. FoundAs(x, PathOf(d)) = {}
        BY <1>2, <1>5, <1>11, <4>1 DEF Told
      <4>3. FoundAs(x, PathOf(d))' = {Len(found) + 1}
        BY <2>2, <3>2, <4>2
      <4>4. Cardinality(FoundAs(x, PathOf(d))') = 1
        BY <4>3, FS_Singleton
      <4>5. ~ Looks(n, x)'
        BY <1>2, <1>5, <3>2 DEF Looks
      <4> QED BY <4>4, <4>5
    <3> QED BY <3>1, <3>2
  <2> QED BY <1>3, <1>5, <1>7, <2>1, <2>3, <2>4 DEF Told
<1> QED BY <1>10, <1>11

\* A call goes down to c: c is no longer ahead, all below it still is.
LEMMA DescendTold ==
  ASSUME TreeInv, TreeInv', StackInv, PruneInv, CallsInv, FindInv, Descend, NEW d \in Dirs, Due(d)
  PROVE  Told(d)'
<1> PICK name \in DirEntries \ PruneNames : \E e \in Scannable(name) :
      stack' = Append([stack EXCEPT ![Len(stack)].todo = @ \ {name}], Call(e))
  BY DEF Descend
<1>1. PICK c \in Scannable(name) :
        stack' = Append([stack EXCEPT ![Len(stack)].todo = @ \ {name}], Call(c))
  OBVIOUS
<1>2. /\ Reading /\ Going /\ stack # <<>> /\ Top.path # <<>> /\ asking = "none" /\ asking' = "none"
      /\ result # "none" /\ result' # "none" /\ UNCHANGED <<parent, moved, fault, found, paths>>
      /\ parent \in Trees /\ Told(d)
  BY DEF Descend, Reading, Calling, treeVars, bindVars, TreeInv, FindInv, Going
<1>3. c \in Dirs \ {Root} /\ parent[c] = Top.dir /\ NameOf[c] = name
  BY DEF Scannable, Opened
<1> PICK n : n = Len(stack)
  OBVIOUS
<1>4. /\ Len(stack') = n + 1 /\ n \in Nat \ {0} /\ n \in 1 .. n /\ Top = stack[n]
      /\ \A k \in 1 .. n :
           /\ stack'[k].dir = stack[k].dir /\ stack'[k].path = stack[k].path
           /\ k # n => stack'[k].todo = stack[k].todo
           /\ k = n => stack'[k].todo = Top.todo \ {name}
      /\ stack'[n + 1].dir = c /\ stack'[n + 1].path = <<>>
  <2>1. Top \in Frame /\ Top = stack[n] /\ n \in 1 .. n
    BY <1>2, TopIsCall
  <2>2. stack # <<>> /\ c \in Dirs
    BY <1>2, <1>3
  <2>3. /\ Len(stack') = Len(stack) + 1 /\ Len(stack) \in Nat \ {0}
        /\ \A k \in 1 .. Len(stack) :
             /\ stack'[k].dir = stack[k].dir /\ stack'[k].path = stack[k].path
             /\ k # Len(stack) => stack'[k].todo = stack[k].todo
             /\ k = Len(stack) => stack'[k].todo = Top.todo \ {name}
        /\ stack'[Len(stack) + 1].dir = c /\ stack'[Len(stack) + 1].path = <<>>
    BY <1>1, <2>2, CallMade, Zenon
  <2> QED BY <2>1, <2>3
<1>5. ASSUME NEW k \in 1 .. n, NEW x, k = n => x # name
      PROVE  Looks(k, x)' <=> Looks(k, x)
  <2>1. k # n + 1 /\ (k = n + 1 <=> FALSE)
    BY <1>4
  <2> QED BY <1>2, <1>4, <1>5, <2>1 DEF Looks
<1>6. \A x : Looks(n + 1, x)'
  BY <1>4 DEF Looks
<1>7. \A k : k \in 1 .. Len(stack') <=> k \in 1 .. n \/ k = n + 1
  BY <1>4
<1>8. \A a \in Dirs \ {Root} : a # c => ~ (parent[a] = Top.dir /\ NameOf[a] = name)
  BY <1>2, <1>3 DEF Trees
<1>9. Above(parent, d) \in SUBSET Dirs
  BY <1>2, AboveIs
<1>10. ASSUME NEW a \in Above(parent, d), a # c, a # Root => parent[a] # c
       PROVE  Pending(a)' <=> Pending(a)
  <2>1. CASE a = Root
    BY <1>2, <2>1 DEF Pending
  <2>2. CASE a # Root
    <3>1. \A k \in 1 .. n : stack[k].dir = parent[a] => (Looks(k, NameOf[a])' <=> Looks(k, NameOf[a]))
      BY <1>4, <1>5, <1>8, <1>9, <1>10, <2>2
    <3> QED BY <1>2, <1>4, <1>7, <1>10, <2>2, <3>1 DEF Pending
  <2> QED BY <2>1, <2>2
<1>11. /\ PathOf(d)' = PathOf(d) /\ Wanted(d)' = Wanted(d)
       /\ \A x : FoundAs(x, PathOf(d))' = FoundAs(x, PathOf(d))
  BY <1>2 DEF PathOf, Wanted, Untyped, FoundAs, GetString
<1>12. c \in Above(parent, d) => Pending(c) /\ Ahead(d)
  <2>1. Looks(n, name) /\ stack[n].dir = parent[c]
    BY <1>3, <1>4 DEF Looks, DirEntries
  <2>2. Pending(c)
    BY <1>3, <1>4, <2>1 DEF Pending
  <2> QED BY <2>2 DEF Ahead
<1>13. CASE c \notin Above(parent, d)
  <2>1. ASSUME NEW a \in Above(parent, d) PROVE Pending(a)' <=> Pending(a)
    BY <1>2, <1>10, <1>13, <2>1, PendingAhead
  <2>2. c # d
    BY <1>2, <1>13, AboveParent
  <2>3. (Ahead(d)' <=> Ahead(d)) /\ (Open(d)' <=> Open(d))
    BY <1>2, <1>4, <1>7, <2>1, <2>2 DEF Ahead, Open
  <2>4. \A k \in 1 .. n, x \in Wanted(d) : stack[k].dir = d => (Looks(k, x)' <=> Looks(k, x))
    <3>1. \A x \in Wanted(d) : Top.dir = d => x # name
      BY DEF Wanted, DirEntries
    <3> QED BY <1>4, <1>5, <3>1
  <2> QED BY <1>2, <1>4, <1>7, <1>11, <2>2, <2>3, <2>4 DEF Told
<1>14. CASE c \in Above(parent, d) /\ c # d
  <2>1. PICK a \in Above(parent, d) \ {Root} : parent[a] = c
    BY <1>2, <1>14, ChildOnWay
  <2>2. Pending(a)'
    BY <1>2, <1>4, <1>6, <1>7, <2>1 DEF Pending
  <2>3. Ahead(d)'
    BY <1>2, <2>1, <2>2 DEF Ahead
  <2>4. ~ Open(d) /\ \A x \in Wanted(d) : FoundAs(x, PathOf(d)) = {}
    BY <1>2, <1>12, <1>14 DEF Told
  <2>5. ~ Open(d)'
    BY <1>4, <1>7, <1>14, <2>4 DEF Open
  <2>6. \A k \in 1 .. Len(stack') : stack'[k].dir # d
    BY <2>5 DEF Open
  <2> QED BY <1>11, <2>3, <2>4, <2>5, <2>6 DEF Told
<1>15. CASE c = d
  <2>1. ~ Open(d) /\ \A x \in Wanted(d) : FoundAs(x, PathOf(d)) = {}
    BY <1>2, <1>12, <1>15, AboveParent DEF Told
  <2>2. d \in Above(parent, d) /\ Due(parent[d]) /\ parent[d] \in Dirs
    BY <1>2, <1>3, <1>15, AboveParent, PendingAhead
  <2>3. \A a \in Above(parent, parent[d]) : ~ Pending(a)
    <3> PICK e : e = parent[d]
      OBVIOUS
    <3>1. e = stack[n].dir /\ Due(e) /\ stack[n].dir \in Dirs
      BY <1>3, <1>4, <1>15, <2>2
    <3> QED BY <1>2, <1>4, <3>1, OpenNotAhead
  <2>4. Above(parent, d) = Above(parent, parent[d]) \cup {d} /\ d \notin Above(parent, parent[d])
    BY <1>2, <1>3, <1>15, AboveIs, NoLoop
  <2>5. ASSUME NEW a \in Above(parent, parent[d]) PROVE ~ Pending(a)'
    <3>1. a # c /\ a \in Above(parent, d)
      BY <1>15, <2>4
    <3>2. a # Root => parent[a] # c
      <4>1. a # Root => parent[a] \in Above(parent, parent[d])
        <5>1. a \in Dirs /\ Above(parent, a) \subseteq Above(parent, parent[d])
          BY <1>2, <2>2, <2>5, AboveAbove
        <5>2. parent[a] \in Above(parent, a)
          <6>1. parent[a] \in Dirs
            BY <1>2, <5>1 DEF Trees
          <6> QED BY <1>2, <5>1, <6>1, AboveParent
        <5> QED BY <5>1, <5>2
      <4> QED BY <1>15, <2>4, <4>1
    <3> QED BY <1>10, <2>3, <2>5, <3>1, <3>2
  <2>6. ~ Pending(d)'
    <3> SUFFICES ASSUME Pending(d)' PROVE FALSE
      OBVIOUS
    <3>1. PICK k \in 1 .. Len(stack') : stack'[k].dir = parent[d] /\ Looks(k, name)'
      BY <1>2, <1>3, <1>15 DEF Pending
    <3>2. parent[d] # d
      BY <1>2, <1>3, <1>15 DEF Trees
    <3>3. k \in 1 .. n /\ stack[k].dir = parent[d]
      BY <1>4, <1>7, <1>15, <3>1, <3>2
    <3>4. k = n
      BY <1>3, <1>4, <1>15, <2>2, <3>3, OneCall DEF Due
    <3>5. n # n + 1
      BY <1>4
    <3> QED BY <1>2, <1>4, <3>1, <3>4, <3>5 DEF Looks
  <2>7. ~ Ahead(d)'
    BY <1>2, <2>4, <2>5, <2>6 DEF Ahead
  <2>8. Open(d)' /\ \A k \in 1 .. Len(stack') : stack'[k].dir = d => k = n + 1
    BY <1>4, <1>7, <1>15, <2>1 DEF Open
  <2>9. \A k \in 1 .. Len(stack') : stack'[k].dir = d => \A x \in Wanted(d) : Looks(k, x)'
    BY <1>6, <2>8
  <2> QED BY <1>11, <2>1, <2>7, <2>8, <2>9 DEF Told
<1> QED BY <1>13, <1>14, <1>15

\* The deepest call has all the entries of its directory before it, as it had.
LEMMA EntriesTold ==
  ASSUME TreeInv, TreeInv', TreeStep, StackInv, stack # <<>>, UNCHANGED <<found, paths, result, parent>>,
         NEW d \in Dirs, Due(d), Due(d)', Told(d),
         Len(stack') = Len(stack),
         \A k \in 1 .. Len(stack) :
           /\ stack'[k].dir = stack[k].dir
           /\ k # Len(stack) => stack'[k] = stack[k],
         Top.path = <<>> \/ asking # "none",
         asking' # "none" \/ stack'[Len(stack)].todo = EntriesOf(Top.dir)
  PROVE  Told(d)'
<1>1. Len(stack) \in 1 .. Len(stack) /\ Top = stack[Len(stack)] /\ parent \in Trees
  BY TopIsCall DEF TreeInv
<1>2. ASSUME NEW x PROVE Looks(Len(stack), x)
  BY <1>1 DEF Looks
<1>3. ASSUME NEW x, x \in EntriesOf(Top.dir) PROVE Looks(Len(stack), x)'
  BY <1>3 DEF Looks
<1>4. ASSUME NEW k \in 1 .. Len(stack), k # Len(stack), NEW x PROVE Looks(k, x)' <=> Looks(k, x)
  BY <1>4 DEF Looks
<1>5. \A k \in 1 .. Len(stack), a \in Above(parent, d) \ {Root} :
        stack[k].dir = parent[a] => (Looks(k, NameOf[a])' <=> Looks(k, NameOf[a]))
  <2>1. ASSUME NEW a \in Above(parent, d) \ {Root}, parent[a] = Top.dir
        PROVE  NameOf[a] \in EntriesOf(Top.dir)
    <3>1. a \in Dirs \ {Root}
      BY <1>1, AboveAbove
    <3> QED BY <2>1, <3>1 DEF EntriesOf
  <2> QED BY <1>1, <1>2, <1>3, <1>4, <2>1
<1>6. \A k \in 1 .. Len(stack), x \in Wanted(d) : stack[k].dir = d => (Looks(k, x)' <=> Looks(k, x))
  <2>1. \A x \in Wanted(d) : Top.dir = d => x \in EntriesOf(Top.dir)
    BY DEF Wanted, EntriesOf
  <2> QED BY <1>1, <1>2, <1>3, <1>4, <2>1
<1> QED BY <1>5, <1>6, StandStill

\* A call reads its path, or goes on once it has the list of bind mounts.
LEMMA EnterTold ==
  ASSUME TreeInv, TreeInv', TreeStep, StackInv, FindInv, Enter \/ EnterRebuilt, result' # "failed",
         NEW d \in Dirs, Due(d), Due(d)'
  PROVE  Told(d)'
<1>1. /\ stack # <<>> /\ UNCHANGED <<found, paths, parent>>
      /\ Top.path = <<>> \/ asking # "none"
  <2>1. CASE Enter
    BY <2>1 DEF Enter, EnterAs, Calling, treeVars, foundVars
  <2>2. CASE EnterRebuilt
    BY <2>2 DEF EnterRebuilt, Calling, AnswerRebuilt, treeVars, foundVars
  <2> QED BY <2>1, <2>2
<1>2. Told(d)
  BY DEF Enter, EnterAs, EnterRebuilt, Calling, FindInv, Going
<1>3. /\ Len(stack') = Len(stack) /\ Len(stack) \in Nat \ {0} /\ result' = result
      /\ \A k \in 1 .. Len(stack) :
           /\ stack'[k].dir = stack[k].dir
           /\ k # Len(stack) => stack'[k] = stack[k]
      /\ asking' # "none" \/ stack'[Len(stack)].todo = EntriesOf(Top.dir)
  <2>1. CASE Enter
    BY <2>1, PathRead, Zenon
  <2>2. CASE EnterRebuilt
    BY <2>2, ListRead, Zenon
  <2> QED BY <2>1, <2>2
<1> QED BY <1>1, <1>2, <1>3, EntriesTold

\* A directory is renamed that is on the way to no settled one: the entry that
\* a call may see is of another name than those it looks for.
LEMMA MoveTold ==
  ASSUME TreeInv, TreeInv', TreeStep, StackInv, FindInv, Move, NEW d \in Dirs, Due(d), Due(d)'
  PROVE  Told(d)'
<1>0. PICK m \in Dirs, p \in Dirs, sees \in SUBSET (DOMAIN stack) : Renamed(m, p, sees)
  BY MoveRenames
<1>1. /\ parent' = [parent EXCEPT ![m] = p] /\ moved' = Append(moved, m)
      /\ \A k \in sees : stack[k].dir = p
      /\ stack' = [k \in DOMAIN stack |->
                     IF k \in sees THEN [stack[k] EXCEPT !.todo = @ \cup {NameOf[m]}] ELSE stack[k]]
  BY <1>0 DEF Renamed
<1>2. /\ UNCHANGED <<found, paths, result, asking>> /\ result = "scanning" /\ Told(d)
      /\ parent \in Trees /\ parent' \in Trees
  BY DEF Move, foundVars, bindVars, FindInv, Going, TreeInv
<1>3. stack \in Seq(Frame) /\ Len(stack) \in Nat /\ DOMAIN stack = 1 .. Len(stack)
  <2>1. stack \in Seq(Frame)
    BY DEF StackInv
  <2> QED BY <2>1, LenProperties
<1>4. Len(stack') = Len(stack) /\ \A k \in 1 .. Len(stack) : stack'[k].dir = stack[k].dir
  <2>1. StackInv' /\ \A k \in 1 .. Len(stack') : Stays(k)
    BY MoveKeeps
  <2>2. DOMAIN stack' = 1 .. Len(stack)
    BY <1>1, <1>3
  <2>3. stack' \in Seq(Frame)
    BY <2>1 DEF StackInv
  <2>4. Len(stack') = Len(stack)
    BY <1>3, <2>2, <2>3, LenProperties
  <2> QED BY <2>1, <2>4 DEF Stays
<1>5. ASSUME NEW k \in 1 .. Len(stack), NEW x, stack[k].dir = p => x # NameOf[m]
      PROVE  Looks(k, x)' <=> Looks(k, x)
  <2>1. CASE k \in sees
    <3> PICK f, more : f = stack[k] /\ more = [f EXCEPT !.todo = @ \cup {NameOf[m]}]
      OBVIOUS
    <3>1. stack'[k] = more
      BY <1>1, <1>3, <2>1
    <3>2. f \in Frame
      BY <1>3, ElementOfSeq
    <3>3. more.path = f.path /\ more.todo = f.todo \cup {NameOf[m]}
      BY <3>2 DEF Frame
    <3>4. x # NameOf[m]
      BY <1>1, <1>5, <2>1
    <3> QED BY <1>2, <1>4, <3>1, <3>3, <3>4 DEF Looks
  <2>2. CASE k \notin sees
    <3>1. stack'[k] = stack[k]
      BY <1>1, <1>3, <2>2
    <3> QED BY <1>2, <1>4, <3>1 DEF Looks
  <2> QED BY <2>1, <2>2
<1>6. /\ Above(parent', d) = Above(parent, d) /\ Above(parent, d) \subseteq Dirs
      /\ \A a \in Above(parent, d) : parent'[a] = parent[a]
  BY DueKept
<1>7. parent'[m] = p /\ m \notin Above(parent, d)
  <2>1. parent'[m] = p
    BY <1>1, <1>2 DEF Trees
  <2>2. m \in Range(moved')
    <3>1. moved \in Seq(Dirs)
      BY DEF TreeInv
    <3>2. Len(moved) \in Nat /\ moved' \in Seq(Dirs) /\ Len(moved') = Len(moved) + 1 /\ moved'[Len(moved) + 1] = m
      BY <1>1, <3>1, LenProperties, AppendProperties
    <3>3. DOMAIN moved' = 1 .. Len(moved) + 1
      BY <3>2, LenProperties
    <3> QED BY <3>2, <3>3 DEF Range
  <2> QED BY <1>6, <2>1, <2>2 DEF Due, Settled
<1>8. \A a \in Above(parent, d) \ {Root} : parent[a] = p => NameOf[a] # NameOf[m]
  BY <1>2, <1>6, <1>7 DEF Trees
<1>9. \A x \in Wanted(d) : d = p => x # NameOf[m]
  BY <1>2, <1>7 DEF Trees, Wanted
<1> QED BY <1>2, <1>4, <1>5, <1>8, <1>9, StandStill

\* A step that leaves the calls, and what they have found, alone.
LEMMA IdleTold ==
  ASSUME TreeInv, TreeInv', TreeStep, NEW d \in Dirs, Due(d)', Told(d),
         UNCHANGED <<stack, found, paths, result>>, asking' = "none" <=> asking = "none"
  PROVE  Told(d)'
<1>1. ASSUME NEW k, NEW x PROVE Looks(k, x)' <=> Looks(k, x)
  BY DEF Looks
<1> QED BY <1>1, StandStill

\* A call stays in its place while it and that of its caller last.
LEMMA StillInPlace ==
  ASSUME TreeInv, TreeInv', TreeStep, StackInv, CallsInv, NEW k \in 1 .. Len(stack),
         stack'[k].dir = stack[k].dir, k # 1 => stack'[k - 1].dir = stack[k - 1].dir
  PROVE  InPlace(k)'
<1> PICK d : d = stack[k].dir
  OBVIOUS
<1>1. d \in Dirs
  <2>1. stack[k] \in Frame
    BY ElementOfSeq DEF StackInv
  <2> QED BY <2>1 DEF Frame
<1>2. ASSUME Settled(d)'
      PROVE  k = Depth(parent', d) /\ (k # 1 => stack'[k - 1].dir = parent'[d])
  <2>1. Settled(d) /\ Depth(parent', d) = Depth(parent, d)
    BY <1>1, <1>2, AllowedKept
  <2>2. parent'[d] = parent[d]
    BY <1>1, <1>2, SettledKept, AboveParent DEF TreeInv
  <2>3. k = Depth(parent, d) /\ (k # 1 => stack[k - 1].dir = parent[d])
    BY <2>1 DEF CallsInv, InPlace
  <2> QED BY <2>1, <2>2, <2>3
<1> QED BY <1>2 DEF InPlace, Settled

\* So do all, as long as no call is made.
LEMMA CallsStay ==
  ASSUME TreeInv, TreeInv', TreeStep, StackInv, StackInv', CallsInv,
         \A k \in 1 .. Len(stack') : k \in 1 .. Len(stack) /\ stack'[k].dir = stack[k].dir
  PROVE  \A k \in 1 .. Len(stack') : InPlace(k)'
<1>1. Len(stack') \in Nat
  BY LenProperties DEF StackInv
<1>2. ASSUME NEW k \in 1 .. Len(stack') PROVE InPlace(k)'
  <2>1. k # 1 => k - 1 \in 1 .. Len(stack')
    BY <1>1
  <2> QED BY <2>1, StillInPlace
<1> QED BY <1>2

\* The call made for c is in its place.
LEMMA CallInPlace ==
  ASSUME ScanInv, ScanInv', TreeStep, CallsInv, Descend
  PROVE  \A k \in 1 .. Len(stack') : InPlace(k)'
<1> PICK name \in DirEntries \ PruneNames : \E e \in Scannable(name) :
      stack' = Append([stack EXCEPT ![Len(stack)].todo = @ \ {name}], Call(e))
  BY DEF Descend
<1>1. PICK c \in Scannable(name) :
        stack' = Append([stack EXCEPT ![Len(stack)].todo = @ \ {name}], Call(c))
  OBVIOUS
<1>2. stack # <<>> /\ UNCHANGED <<parent, moved>>
  BY DEF Descend, Reading, Calling, treeVars
<1>3. c \in Dirs /\ c # Root /\ parent[c] = Top.dir
  BY DEF Scannable, Opened
<1>4. TreeInv /\ TreeInv' /\ StackInv /\ parent \in Trees
  BY DEF ScanInv, TreeInv
<1> PICK n : n = Len(stack)
  OBVIOUS
<1>5. /\ Len(stack') = n + 1 /\ n \in Nat \ {0} /\ n \in 1 .. n /\ Top = stack[n]
      /\ \A k \in 1 .. n : stack'[k].dir = stack[k].dir
      /\ stack'[n + 1].dir = c
  <2>1. Top = stack[n] /\ n \in 1 .. n
    BY <1>2, <1>4, TopIsCall
  <2>2. /\ Len(stack') = Len(stack) + 1 /\ Len(stack) \in Nat \ {0}
        /\ \A k \in 1 .. Len(stack) : stack'[k].dir = stack[k].dir
        /\ stack'[Len(stack) + 1].dir = c
    BY <1>1, <1>2, <1>3, <1>4, CallMade, Zenon
  <2> QED BY <2>1, <2>2
<1>6. ASSUME NEW k \in 1 .. n PROVE InPlace(k)'
  <2>1. k # 1 => k - 1 \in 1 .. n
    BY <1>5
  <2> QED BY <1>4, <1>5, <2>1, StillInPlace
<1>7. ASSUME Settled(c)' PROVE n + 1 = Depth(parent', c)
  <2>1. Settled(Top.dir)
    BY <1>2, <1>3, <1>4, <1>7, AboveParent DEF Settled
  <2>2. n = Depth(parent, Top.dir)
    BY <1>5, <2>1 DEF CallsInv, InPlace
  <2> QED BY <1>2, <1>3, <1>4, <2>2, DepthIs
<1>8. InPlace(n + 1)'
  <2>1. n + 1 - 1 = n /\ n \in 1 .. n
    BY <1>5
  <2>2. stack'[n].dir = parent'[c]
    BY <1>2, <1>3, <1>5
  <2> QED BY <1>5, <1>7, <2>1, <2>2 DEF InPlace, Settled
<1>9. \A k \in 1 .. Len(stack') : k \in 1 .. n \/ k = n + 1
  BY <1>5
<1> QED BY <1>6, <1>8, <1>9

\* What is read of a path is not empty.
LEMMA PathNotEmpty ==
  ASSUME parent \in Trees, NEW d \in Dirs
  PROVE  DirPath(PathOf(d)) # <<>>
<1> PICK path : path = PathOf(d)
  OBVIOUS
<1>1. path \in Seq(DirNames) /\ Len(path) \in Nat \ {0}
  BY PathIs, DepthIs DEF PathOf
<1>2. PathLimit \in Nat \ {0} /\ Len(<<>>) = 0
  BY ScanAssumption
<1>3. CASE Len(path) <= PathLimit
  BY <1>1, <1>2, <1>3 DEF DirPath
<1>4. CASE Len(path) > PathLimit
  BY <1>1, <1>2, <1>4, CutPath
<1> QED BY <1>1, <1>2, <1>3, <1>4

\* Every step keeps the calls in their places.
LEMMA CallsStep ==
  ASSUME ScanInv, ScanInv', CallsInv, [Next]_vars
  PROVE  CallsInv'
<1>1. TreeInv /\ TreeInv' /\ StackInv /\ StackInv' /\ TreeStep
  BY StepsOfTree DEF ScanInv
<1>2. ASSUME UNCHANGED <<stack, found, result>>, asking' = "none" <=> asking = "none"
      PROVE  CallsInv'
  <2>1. \A k \in 1 .. Len(stack') : k \in 1 .. Len(stack) /\ stack'[k].dir = stack[k].dir
    BY <1>2
  <2>2. \A k \in 1 .. Len(stack') : InPlace(k)'
    BY <1>1, <2>1, CallsStay
  <2> QED BY <1>2, <2>2 DEF CallsInv, Top
<1>3. ASSUME \A k \in 1 .. Len(stack') : InPlace(k)', result' # "none", result' = "ok" => stack' = <<>>,
             asking' = "none" \/ result' # "scanning"
      PROVE  CallsInv'
  BY <1>3 DEF CallsInv
<1>4. ASSUME \A k \in 1 .. Len(stack') : k \in 1 .. Len(stack) /\ stack'[k].dir = stack[k].dir,
             result' # "none", result' = "ok" => stack' = <<>>,
             asking' = "none" \/ result' # "scanning"
      PROVE  CallsInv'
  BY <1>1, <1>3, <1>4, CallsStay
<1>5. CASE OpenRoot
  <2>1. stack' = <<Call(Root)>> /\ result' = "scanning" /\ asking' = "none"
    BY <1>5 DEF OpenRoot, CallsInv, bindVars
  <2> PICK call : call = Call(Root)
    OBVIOUS
  <2>2. stack' = <<call>> /\ call.dir = Root
    BY <2>1 DEF Call
  <2>3. Len(stack') = 1 /\ stack'[1].dir = Root
    BY <2>2
  <2>4. Depth(parent', Root) = 1
    BY <1>1, ScanAssumption, DepthIs DEF TreeInv
  <2>5. \A k \in 1 .. Len(stack') : InPlace(k)'
    BY <2>3, <2>4 DEF InPlace
  <2> QED BY <1>3, <2>1, <2>5
<1>6. CASE \/ RootFails \/ EnterWithoutPath \/ RebuildWithoutFile \/ GiveUp \/ UseNoStream
           \/ PollFails
  <2>1. stack' = stack /\ result' \in {"failed", "exited", "crashed", "undefined"}
    BY <1>6 DEF RootFails, EnterWithoutPath, RebuildWithoutFile, GiveUp, UseNoStream, PollFails
  <2> QED BY <1>4, <2>1
<1>7. CASE EnterPruned \/ Return
  <2>1. /\ stack # <<>> /\ stack' = Front(stack) /\ asking' = "none"
        /\ result' = IF Len(stack) = 1 THEN "ok" ELSE "scanning"
    <3>1. CASE EnterPruned
      BY <3>1 DEF EnterPruned, Calling, CallsInv, bindVars
    <3>2. CASE Return
      BY <3>2 DEF Return, Reading, Calling, bindVars
    <3> QED BY <1>7, <3>1, <3>2
  <2>2. /\ Len(stack') = Len(stack) - 1
        /\ \A k \in 1 .. Len(stack') : k \in 1 .. Len(stack) /\ stack'[k] = stack[k]
    BY <1>1, <2>1, CallReturned
  <2>3. result' = "ok" => stack' = <<>>
    <3>1. stack' \in Seq(Frame)
      BY <1>1 DEF StackInv
    <3>2. Len(stack) = 1 => Len(stack') = 0
      BY <2>2
    <3>3. Len(stack') = 0 => stack' = <<>>
      BY <3>1, EmptySeq
    <3> QED BY <2>1, <3>2, <3>3
  <2> QED BY <1>4, <2>1, <2>2, <2>3
<1>8. CASE (Enter \/ EnterRebuilt) /\ result' = "failed"
  <2>1. stack' = <<>>
    BY <1>8 DEF Enter, EnterAs, EnterRebuilt, Calling
  <2>2. \A k \in 1 .. Len(stack') : InPlace(k)'
    BY <2>1
  <2> QED BY <1>3, <1>8, <2>1, <2>2
<1>9. CASE Enter /\ result' # "failed"
  <2>1. /\ Len(stack') = Len(stack) /\ Len(stack) \in Nat \ {0} /\ result' = result
        /\ \A k \in 1 .. Len(stack) : stack'[k].dir = stack[k].dir
        /\ stack'[Len(stack)].path = DirPath(PathOf(Top.dir))
    BY <1>1, <1>9, PathRead, Zenon
  <2>2. \A k \in 1 .. Len(stack') : InPlace(k)'
    <3>1. \A k \in 1 .. Len(stack') : k \in 1 .. Len(stack) /\ stack'[k].dir = stack[k].dir
      BY <2>1
    <3> QED BY <1>1, <3>1, CallsStay
  <2>3. result = "scanning"
    BY <1>9 DEF Enter, EnterAs, Calling
  <2>4. stack' # <<>>
    <3>1. Len(<<>>) = 0
      OBVIOUS
    <3> QED BY <2>1, <3>1
  <2>5. Top'.path # <<>>
    <3>1. Top'.path = DirPath(PathOf(Top.dir))
      BY <2>1 DEF Top, Last
    <3>2. Top.dir \in Dirs
      <4>1. Top \in Frame
        BY <1>1, <1>9, TopIsCall DEF Enter, EnterAs, Calling
      <4> QED BY <4>1 DEF Frame
    <3> QED BY <1>1, <3>1, <3>2, PathNotEmpty DEF TreeInv
  <2> QED BY <2>1, <2>2, <2>3, <2>4, <2>5 DEF CallsInv
<1>10. CASE EnterRebuilt /\ result' # "failed"
  <2>1. /\ Len(stack') = Len(stack) /\ Len(stack) \in Nat \ {0} /\ result' = result
        /\ \A k \in 1 .. Len(stack) : stack'[k].dir = stack[k].dir
    BY <1>1, <1>10, ListRead, Zenon
  <2>2. result = "scanning" /\ asking' = "none"
    BY <1>10 DEF EnterRebuilt, Calling, AnswerRebuilt
  <2> QED BY <1>4, <2>1, <2>2
<1>11. CASE FindFile \/ PassFile \/ PassDir \/ PassExcluded \/ PassUntyped
  <2>1. stack # <<>> /\ result' = "scanning" /\ asking' = "none" /\ \E name : Passed(name)
    BY <1>11 DEF FindFile, PassFile, PassDir, PassExcluded, PassUntyped, Reading, Calling, bindVars
  <2>2. Len(stack') = Len(stack) /\ \A k \in 1 .. Len(stack) : stack'[k].dir = stack[k].dir
    BY <1>1, <2>1, EntryPassed
  <2> QED BY <1>4, <2>1, <2>2
<1>12. CASE Descend
  <2>1. \A k \in 1 .. Len(stack') : InPlace(k)'
    BY <1>1, <1>12, CallInPlace
  <2>2. result' = "scanning" /\ asking' = "none"
    BY <1>12 DEF Descend, Reading, Calling, bindVars
  <2> QED BY <1>3, <2>1, <2>2
<1>13. CASE Move
  <2>1. result = "scanning" /\ UNCHANGED <<result, asking>>
    BY <1>13 DEF Move, bindVars
  <2>2. \A k \in 1 .. Len(stack') : Stays(k)
    BY <1>1, <1>13, MoveKeeps
  <2>3. \A k \in 1 .. Len(stack') : InPlace(k)'
    <3>1. \A k \in 1 .. Len(stack') : k \in 1 .. Len(stack) /\ stack'[k].dir = stack[k].dir
      BY <2>2 DEF Stays
    <3> QED BY <1>1, <3>1, CallsStay
  <2>4. Len(stack') = Len(stack)
    <3>1. stack \in Seq(Frame) /\ stack' \in Seq(Frame)
      BY <1>1 DEF StackInv
    <3>2. DOMAIN stack' = DOMAIN stack
      BY <1>13 DEF Move
    <3>3. \A n, m \in Nat : 1 .. n = 1 .. m => n = m
      OBVIOUS
    <3> QED BY <3>1, <3>2, <3>3, LenProperties
  <2>5. ASSUME asking # "none" PROVE stack' # <<>> /\ Top'.path # <<>>
    <3>1. stack # <<>> /\ Top.path # <<>>
      BY <2>1, <2>5 DEF CallsInv
    <3>2. Len(stack) \in 1 .. Len(stack) /\ Top = stack[Len(stack)]
      BY <1>1, <3>1, TopIsCall
    <3>3. stack'[Len(stack)].path # <<>>
      BY <2>2, <2>4, <3>1, <3>2 DEF Stays
    <3>4. Top'.path # <<>>
      BY <2>4, <3>3 DEF Top, Last
    <3>5. Len(<<>>) = 0 /\ Len(stack) # 0
      BY <3>2
    <3> QED BY <2>4, <3>4, <3>5
  <2> QED BY <2>1, <2>3, <2>5 DEF CallsInv
<1>14. CASE RebuildList \/ MountStep \/ Done \/ UNCHANGED vars
  <2>1. UNCHANGED <<stack, found, result>> /\ (asking' = "none" <=> asking = "none")
    <3>1. CASE RebuildList
      BY <3>1 DEF RebuildList, Rebuild, foundVars
    <3>2. CASE MountStep
      BY <3>2 DEF MountStep, ChangeMounts, Wake, Announce, foundVars
    <3>3. CASE Done \/ UNCHANGED vars
      BY <3>3 DEF Done, vars, foundVars, bindVars
    <3> QED BY <1>14, <3>1, <3>2, <3>3
  <2> QED BY <1>2, <2>1
<1> QED BY <1>5, <1>6, <1>7, <1>8, <1>9, <1>10, <1>11, <1>12, <1>13, <1>14 DEF Next, ScanStep

\* No call is made before the scan begins.
LEMMA CallsInit == Init => CallsInv
<1> SUFFICES ASSUME Init PROVE CallsInv
  OBVIOUS
<1>1. stack = <<>> /\ found = <<>> /\ result = "none" /\ asking = "none" /\ Len(<<>>) = 0
  BY DEF Init, BindMountInit
<1> QED BY <1>1 DEF CallsInv

\* Whatever other processes rename meanwhile, no file is found in a directory
\* that prunenames, prunepaths or prunefs rule out, or that cannot be opened,
\* unless it was itself renamed or one above it, or lies in an excluded file
\* system so deep that no descriptor was left to look it up; and every file
\* found has one of the extensions (FSScanner::scan_fs, filesystem_is_excluded).
THEOREM PrunedStaysOutside == Spec => []PrunedStaysOut
<1>1. Init => ScanInv /\ PruneInv /\ CallsInv
  <2>1. Init => PruneInv
    BY DEF Init, PruneInv
  <2> QED BY <2>1, ScanInit, CallsInit
<1>2. ScanInv /\ PruneInv /\ CallsInv /\ [Next]_vars => (ScanInv /\ PruneInv /\ CallsInv)'
  BY ScanNextKeeps, PruneStep, CallsStep
<1>3. ScanInv /\ PruneInv => PrunedStaysOut
  <2> SUFFICES ASSUME ScanInv, PruneInv, NEW d \in Dirs, NEW name \in FilesIn[d],
                      Settled(d), Legible(d), Judged(d), FoundAs(name, PathOf(d)) # {}
               PROVE  Reachable(d) /\ name \in Tracked
    BY DEF PrunedStaysOut
  <2>1. CacheInv /\ FoundInv
    BY DEF ScanInv
  <2>2. PICK i \in DOMAIN found : found[i].name = name /\ GetString(found[i].path_id) = PathOf(d)
    BY DEF FoundAs
  <2>3. i \in 1 .. Len(found)
    BY <2>1, <2>2, LenProperties DEF CacheInv
  <2> PICK p : p = found[i].path_id
    OBVIOUS
  <2>4. p < Len(paths) /\ GetString(p) = PathOf(d)
    BY <2>1, <2>2, <2>3 DEF FoundInv
  <2>5. paths[p + 1] = PathOf(d)
    BY <2>4 DEF GetString
  <2>6. found[i].name \in Tracked /\ Allowed(paths[p + 1])
    BY <2>3 DEF PruneInv
  <2> QED BY <2>2, <2>5, <2>6 DEF Allowed
<1> QED BY <1>1, <1>2, <1>3, PTL DEF Spec

\* Every step keeps what is to be found ahead, being scanned, or found.
LEMMA FindStep ==
  ASSUME ScanInv, ScanInv', PruneInv, CallsInv, FindInv, [Next]_vars
  PROVE  FindInv'
<1> SUFFICES ASSUME Going', NEW d \in Dirs, Due(d)'
             PROVE  Told(d)'
  BY DEF FindInv
<1>1. TreeInv /\ TreeInv' /\ StackInv /\ StackInv' /\ TreeStep
  BY StepsOfTree DEF ScanInv
<1>2. Due(d)
  BY <1>1, DueKept
<1>3. result' \notin {"failed", "exited", "crashed", "undefined"}
  BY DEF Going
<1>4. CASE OpenRoot
  BY <1>1, <1>4, OpenTold
<1>5. CASE \/ RootFails \/ EnterWithoutPath \/ RebuildWithoutFile \/ GiveUp \/ UseNoStream
           \/ PollFails
  BY <1>3, <1>5 DEF RootFails, EnterWithoutPath, RebuildWithoutFile, GiveUp, UseNoStream, PollFails
<1>6. CASE EnterPruned
  <2>1. /\ stack # <<>> /\ stack' = Front(stack) /\ asking = "none" /\ asking' = "none"
        /\ result # "none" /\ result' # "none" /\ Going
        /\ UNCHANGED <<found, paths>> /\ UNCHANGED <<parent, moved, fault>>
        /\ DirPath(PathOf(Top.dir)) \in PrunePaths
    BY <1>6 DEF EnterPruned, Calling, CallsInv, bindVars, treeVars, foundVars, Going
  <2>2. ~ Due(Top.dir)
    <3> SUFFICES ASSUME Due(Top.dir) PROVE FALSE
      OBVIOUS
    <3> PICK dir : dir = Top.dir
      OBVIOUS
    <3>1. dir \in Dirs /\ parent \in Trees
      <4>1. Top \in Frame
        BY <1>1, <2>1, TopIsCall
      <4> QED BY <1>1, <4>1 DEF Frame, TreeInv
    <3>2. Depth(parent, dir) <= PathLimit
      BY <3>1, DepthIs, ScanAssumption DEF Due, Legible
    <3>3. DirPath(PathOf(dir)) = PathOf(dir)
      BY <3>1, <3>2, PathIs DEF DirPath, PathOf
    <3>4. PathOf(dir) \notin PrunePaths
      BY <3>1, ReachStep DEF Due
    <3> QED BY <2>1, <3>3, <3>4
  <2> QED BY <1>1, <1>2, <2>1, <2>2, ReturnTold
<1>7. CASE Return
  <2>1. /\ stack # <<>> /\ stack' = Front(stack) /\ asking = "none" /\ asking' = "none"
        /\ result # "none" /\ result' # "none" /\ Going
        /\ UNCHANGED <<found, paths>> /\ UNCHANGED <<parent, moved, fault>>
        /\ Top.path # <<>> /\ Top.todo = {}
    BY <1>7 DEF Return, Reading, Calling, bindVars, treeVars, foundVars, Going
  <2> QED BY <1>1, <1>2, <2>1, ReturnTold
<1>8. CASE Enter \/ EnterRebuilt
  BY <1>1, <1>2, <1>3, <1>8, EnterTold
<1>9. CASE FindFile
  BY <1>2, <1>9, FindTold
<1>10. CASE PassFile \/ PassDir \/ PassExcluded \/ PassUntyped
  <2>1. Going
    BY <1>10 DEF PassFile, PassDir, PassExcluded, PassUntyped, Reading, Calling, Going
  <2> QED BY <1>1, <1>2, <1>10, <2>1, DeadEnds
<1>11. CASE Descend
  BY <1>1, <1>2, <1>11, DescendTold
<1>12. CASE Move
  BY <1>1, <1>2, <1>12, MoveTold
<1>13. CASE RebuildList \/ MountStep \/ Done \/ UNCHANGED vars
  <2>1. UNCHANGED <<stack, found, paths, result>> /\ (asking' = "none" <=> asking = "none")
    <3>1. CASE RebuildList
      BY <3>1 DEF RebuildList, Rebuild, foundVars
    <3>2. CASE MountStep
      BY <3>2 DEF MountStep, ChangeMounts, Wake, Announce, foundVars
    <3>3. CASE Done \/ UNCHANGED vars
      BY <3>3 DEF Done, vars, foundVars, bindVars
    <3> QED BY <1>13, <3>1, <3>2, <3>3
  <2>2. Told(d)
    BY <1>2, <2>1 DEF Going, FindInv
  <2> QED BY <1>1, <2>1, <2>2, IdleTold
<1> QED BY <1>4, <1>5, <1>6, <1>7, <1>8, <1>9, <1>10, <1>11, <1>12, <1>13 DEF Next, ScanStep

\* A scan that succeeds has found every tracked file of every directory that
\* can be reached exactly once, under its path: no entry is lost or met twice
\* in a tree that other processes change, as long as the directory and those
\* above it are not renamed (FSScanner::scan_fs).
THEOREM EverythingIsFound == Spec => []FindsAll
<1>1. Init => ScanInv /\ PruneInv /\ CallsInv /\ FindInv
  <2> SUFFICES ASSUME Init PROVE ScanInv /\ PruneInv /\ CallsInv /\ FindInv
    OBVIOUS
  <2>1. ScanInv
    BY ScanInit
  <2>2. PruneInv
    BY DEF Init, PruneInv
  <2>3. stack = <<>> /\ found = <<>> /\ result = "none" /\ asking = "none" /\ Len(<<>>) = 0
    BY DEF Init, BindMountInit
  <2>4. CallsInv
    BY CallsInit
  <2>5. ASSUME NEW d \in Dirs PROVE Told(d)
    <3>1. Root \in Above(parent, d)
      BY <2>1 DEF ScanInv, TreeInv, Trees
    <3>2. Ahead(d) /\ ~ Open(d)
      BY <2>3, <3>1 DEF Ahead, Pending, Open
    <3>3. \A name : FoundAs(name, PathOf(d)) = {}
      BY <2>3 DEF FoundAs
    <3> QED BY <2>3, <3>2, <3>3 DEF Told
  <2> QED BY <2>1, <2>2, <2>4, <2>5 DEF FindInv
<1>2. ScanInv /\ ScanInv' /\ PruneInv /\ CallsInv /\ FindInv /\ [Next]_vars
      => PruneInv' /\ CallsInv' /\ FindInv'
  BY PruneStep, CallsStep, FindStep
<1>3. ScanInv /\ CallsInv /\ FindInv => FindsAll
  <2> SUFFICES ASSUME ScanInv, CallsInv, FindInv, result = "ok",
                      NEW d \in Dirs, Due(d), d \notin Untyped, NEW name \in FilesIn[d] \cap Tracked
               PROVE  Cardinality(FoundAs(name, PathOf(d))) = 1
    BY DEF FindsAll, Due
  <2>1. stack = <<>> /\ Len(<<>>) = 0
    BY DEF CallsInv
  <2>2. ~ Open(d) /\ ~ Ahead(d)
    BY <2>1 DEF Open, Ahead, Pending
  <2>3. Told(d) /\ name \in Wanted(d)
    BY DEF FindInv, Going, Wanted
  <2> QED BY <2>2, <2>3 DEF Told
<1> QED BY <1>1, <1>2, <1>3, ScanInvariant, PTL DEF Spec

-----------------------------------------------------------------------------
(* The order of paths *)

Path == Seq(Nat)

\* The place of the character at k in the alphabet: the end of the path comes
\* first, then the slash.
Rank(p, k) == IF k > Len(p) THEN -2 ELSE IF p[k] = Slash THEN -1 ELSE p[k]

\* p comes before q in the dictionary.
Before(p, q) ==
  \E k \in Nat \ {0} :
    /\ \A l \in 1 .. k - 1 : Rank(p, l) = Rank(q, l)
    /\ Rank(p, k) < Rank(q, k)

\* What Mismatch chooses.
Differ(p, q, k) ==
  /\ k \in 1 .. Len(p) + 1
  /\ \A l \in 1 .. k - 1 : l <= Len(q) /\ p[l] = q[l]
  /\ k = Len(p) + 1 \/ k > Len(q) \/ p[k] # q[k]

\* There is a first place where two paths differ.
LEMMA MismatchRight ==
  ASSUME NEW p \in Path, NEW q \in Path
  PROVE  Differ(p, q, Mismatch(p, q))
<1> DEFINE S == {k \in 1 .. Len(p) + 1 : k = Len(p) + 1 \/ k > Len(q) \/ p[k] # q[k]}
<1>1. Len(p) \in Nat /\ Len(q) \in Nat
  BY LenProperties DEF Path
<1>2. Len(p) + 1 \in S /\ S \in SUBSET Nat
  BY <1>1
<1>3. PICK k \in S : \A j \in S : k <= j
  <2> HIDE DEF S
  <2> QED BY <1>2, LeastElement
<1>4. ASSUME NEW l \in 1 .. k - 1 PROVE l <= Len(q) /\ p[l] = q[l]
  <2>1. l \in 1 .. Len(p) + 1 /\ l # Len(p) + 1 /\ ~(k <= l)
    BY <1>1, <1>3
  <2>2. l \notin S
    BY <1>3, <2>1
  <2> QED BY <1>1, <2>1, <2>2
<1>5. Differ(p, q, k)
  BY <1>3, <1>4 DEF Differ
<1>6. Mismatch(p, q) = CHOOSE m \in 1 .. Len(p) + 1 :
         /\ \A l \in 1 .. m - 1 : l <= Len(q) /\ p[l] = q[l]
         /\ m = Len(p) + 1 \/ m > Len(q) \/ p[m] # q[m]
  BY DEF Mismatch
<1>7. \E m \in 1 .. Len(p) + 1 :
         /\ \A l \in 1 .. m - 1 : l <= Len(q) /\ p[l] = q[l]
         /\ m = Len(p) + 1 \/ m > Len(q) \/ p[m] # q[m]
  BY <1>5, Zenon DEF Differ
<1> HIDE DEF S
<1> QED BY <1>6, <1>7, Zenon DEF Differ

\* The rank says which character it is.
LEMMA RankRight ==
  ASSUME NEW p \in Path, NEW q \in Path, NEW k \in Nat \ {0}
  PROVE  /\ Rank(p, k) \in Int /\ Rank(p, k) >= -2
         /\ Rank(p, k) = -2 <=> k > Len(p)
         /\ Rank(p, k) = -1 <=> k <= Len(p) /\ p[k] = Slash
         /\ k <= Len(p) /\ k <= Len(q) => (Rank(p, k) = Rank(q, k) <=> p[k] = q[k])
<1>1. Len(p) \in Nat /\ Len(q) \in Nat
  BY LenProperties DEF Path
<1>2. (k <= Len(p) => p[k] \in Nat) /\ (k <= Len(q) => q[k] \in Nat)
  BY <1>1, ElementOfSeq DEF Path
<1> QED BY <1>1, <1>2, PathsAssumption DEF Rank

\* dir_path_cmp compares the ranks at the first place where they differ.
LEMMA CmpIsRanks ==
  ASSUME NEW p \in Path, NEW q \in Path
  PROVE  \E k \in Nat \ {0} :
           /\ \A l \in 1 .. k - 1 : Rank(p, l) = Rank(q, l)
           /\ Cmp(p, q) \in Int
           /\ Cmp(p, q) < 0 <=> Rank(p, k) < Rank(q, k)
           /\ Cmp(p, q) > 0 <=> Rank(p, k) > Rank(q, k)
           /\ Cmp(p, q) = 0 => p = q
<1> PICK k : k = Mismatch(p, q)
  OBVIOUS
<1>1. Len(p) \in Nat /\ Len(q) \in Nat
  BY LenProperties DEF Path
<1>2. Differ(p, q, k)
  BY MismatchRight
<1>3. k \in Nat \ {0} /\ k <= Len(p) + 1
  BY <1>1, <1>2 DEF Differ
<1>4. ASSUME NEW l \in 1 .. k - 1 PROVE Rank(p, l) = Rank(q, l) /\ p[l] = q[l] /\ l <= Len(q) /\ l <= Len(p)
  <2>1. l \in Nat \ {0} /\ l <= Len(p) /\ l <= Len(q) /\ p[l] = q[l]
    BY <1>1, <1>2, <1>3 DEF Differ
  <2> QED BY <2>1, RankRight
<1>5. k = Len(p) + 1 \/ k > Len(q) \/ p[k] # q[k]
  BY <1>2 DEF Differ
<1>6. Cmp(p, q) = CASE k > Len(p) /\ k > Len(q) -> 0
                    [] k > Len(p) /\ k <= Len(q) -> -1
                    [] k <= Len(p) /\ k > Len(q) -> 1
                    [] OTHER -> IF p[k] = Slash THEN -1 ELSE IF q[k] = Slash THEN 1 ELSE p[k] - q[k]
  BY DEF Cmp
<1>7. CASE k > Len(p) /\ k > Len(q)
  <2>1. Cmp(p, q) = 0
    BY <1>1, <1>3, <1>6, <1>7
  <2>2. Rank(p, k) = -2 /\ Rank(q, k) = -2
    BY <1>7 DEF Rank
  <2>3. Len(p) = k - 1 /\ Len(q) >= k - 1
    BY <1>1, <1>3, <1>4, <1>7
  <2>4. Len(p) = Len(q) /\ \A l \in 1 .. Len(p) : p[l] = q[l]
    BY <1>1, <1>3, <1>4, <1>7, <2>3
  <2>5. p = q
    BY <2>4, SeqEqual DEF Path
  <2> QED BY <1>3, <1>4, <2>1, <2>2, <2>5
<1>8. CASE k > Len(p) /\ k <= Len(q)
  <2>1. Cmp(p, q) = -1
    BY <1>1, <1>3, <1>6, <1>8
  <2>2. Rank(p, k) = -2 /\ Rank(q, k) \in Int /\ Rank(q, k) > -2
    BY <1>1, <1>3, <1>8, RankRight
  <2> QED BY <1>3, <1>4, <2>1, <2>2
<1>9. CASE k <= Len(p) /\ k > Len(q)
  <2>1. Cmp(p, q) = 1
    BY <1>1, <1>3, <1>6, <1>9
  <2>2. Rank(q, k) = -2 /\ Rank(p, k) \in Int /\ Rank(p, k) > -2
    BY <1>1, <1>3, <1>9, RankRight
  <2> QED BY <1>3, <1>4, <2>1, <2>2
<1>10. CASE k <= Len(p) /\ k <= Len(q)
  <2>1. Cmp(p, q) = IF p[k] = Slash THEN -1 ELSE IF q[k] = Slash THEN 1 ELSE p[k] - q[k]
    BY <1>1, <1>3, <1>6, <1>10
  <2>2. p[k] # q[k]
    BY <1>1, <1>3, <1>5, <1>10
  <2>3. k \in 1 .. Len(p) /\ k \in 1 .. Len(q)
    BY <1>1, <1>3, <1>10
  <2>4. p[k] \in Nat /\ q[k] \in Nat
    BY <2>3, ElementOfSeq DEF Path
  <2>5. /\ Rank(p, k) = IF p[k] = Slash THEN -1 ELSE p[k]
        /\ Rank(q, k) = IF q[k] = Slash THEN -1 ELSE q[k]
    BY <1>1, <1>3, <1>10 DEF Rank
  <2>6. /\ Cmp(p, q) \in Int /\ Cmp(p, q) # 0
        /\ Cmp(p, q) < 0 <=> Rank(p, k) < Rank(q, k)
        /\ Cmp(p, q) > 0 <=> Rank(p, k) > Rank(q, k)
    BY <2>1, <2>2, <2>4, <2>5
  <2> QED BY <1>3, <1>4, <2>6
<1> QED BY <1>1, <1>3, <1>7, <1>8, <1>9, <1>10

\* Two steps on in the dictionary are one.
LEMMA BeforeTransitive ==
  ASSUME NEW p \in Path, NEW q \in Path, NEW r \in Path, Before(p, q), Before(q, r)
  PROVE  Before(p, r)
<1>1. PICK k \in Nat \ {0} : (\A l \in 1 .. k - 1 : Rank(p, l) = Rank(q, l)) /\ Rank(p, k) < Rank(q, k)
  BY DEF Before
<1>2. PICK m \in Nat \ {0} : (\A l \in 1 .. m - 1 : Rank(q, l) = Rank(r, l)) /\ Rank(q, m) < Rank(r, m)
  BY DEF Before
<1>3. \A l \in Nat \ {0} : Rank(p, l) \in Int /\ Rank(q, l) \in Int /\ Rank(r, l) \in Int
  BY RankRight
<1> DEFINE First(n) == (\A l \in 1 .. n - 1 : Rank(p, l) = Rank(r, l)) /\ Rank(p, n) < Rank(r, n)
<1>4. CASE k < m
  <2>1. k \in 1 .. m - 1 /\ Rank(q, k) = Rank(r, k)
    BY <1>2, <1>4
  <2>2. First(k)
    BY <1>1, <1>2, <1>3, <1>4, <2>1
  <2> QED BY <2>2 DEF Before
<1>5. CASE k = m
  <2>1. First(k)
    BY <1>1, <1>2, <1>3, <1>5
  <2> QED BY <2>1 DEF Before
<1>6. CASE m < k
  <2>1. m \in 1 .. k - 1 /\ Rank(p, m) = Rank(q, m)
    BY <1>1, <1>6
  <2>2. First(m)
    BY <1>1, <1>2, <1>3, <1>6, <2>1
  <2> QED BY <2>2 DEF Before
<1> QED BY <1>4, <1>5, <1>6

\* No path comes both before and behind another.
LEMMA BeforeIsStrict ==
  ASSUME NEW p \in Path, NEW q \in Path, Before(p, q)
  PROVE  ~Before(q, p)
<1> SUFFICES ASSUME Before(q, p) PROVE FALSE
  OBVIOUS
<1>1. Before(p, p)
  BY BeforeTransitive
<1>2. PICK k \in Nat \ {0} : Rank(p, k) < Rank(p, k)
  BY <1>1 DEF Before
<1>3. Rank(p, k) \in Int
  BY RankRight
<1> QED BY <1>2, <1>3

\* dir_path_cmp is the three-way comparison of that order, which is total.
LEMMA CmpIsOrder ==
  ASSUME NEW p \in Path, NEW q \in Path
  PROVE  /\ Cmp(p, q) \in Int
         /\ Cmp(p, q) < 0 <=> Before(p, q)
         /\ Cmp(p, q) > 0 <=> Before(q, p)
         /\ Cmp(p, q) = 0 <=> p = q
<1>1. PICK k \in Nat \ {0} :
        /\ \A l \in 1 .. k - 1 : Rank(p, l) = Rank(q, l)
        /\ Cmp(p, q) \in Int
        /\ Cmp(p, q) < 0 <=> Rank(p, k) < Rank(q, k)
        /\ Cmp(p, q) > 0 <=> Rank(p, k) > Rank(q, k)
        /\ Cmp(p, q) = 0 => p = q
  BY CmpIsRanks
<1>2. Rank(p, k) \in Int /\ Rank(q, k) \in Int
  BY RankRight
<1>3. Cmp(p, q) < 0 => Before(p, q)
  BY <1>1 DEF Before
<1>4. Cmp(p, q) > 0 => Before(q, p)
  BY <1>1, <1>2 DEF Before
<1>5. p = q => Cmp(p, q) = 0
  BY <1>1, <1>2
<1>6. p = q => ~Before(p, q) /\ ~Before(q, p)
  BY BeforeIsStrict
<1> QED BY <1>1, <1>3, <1>4, <1>5, <1>6, BeforeIsStrict

\* Paths in order stay in order over a third one.
LEMMA OrderedTransitive ==
  ASSUME NEW p \in Path, NEW q \in Path, NEW r \in Path, ~Before(q, p), ~Before(r, q)
  PROVE  ~Before(r, p)
<1>1. p = q \/ Before(p, q)
  BY CmpIsOrder
<1>2. CASE Before(p, q)
  BY <1>2, BeforeTransitive
<1> QED BY <1>1, <1>2

\* What stands between a directory and a path under it is under it too: the
\* first place where it differs from the directory comes behind all characters
\* of the directory, and there nothing but a slash fits in before a slash.
LEMMA BetweenIsUnder ==
  ASSUME NEW dir \in Path, NEW x \in Path, NEW y \in Path,
         Under(y, dir), ~Before(x, dir), ~Before(y, x)
  PROVE  x = dir \/ Under(x, dir)
<1> DEFINE n == Len(dir)
<1>1. n \in Nat /\ Len(x) \in Nat /\ Len(y) \in Nat
  BY LenProperties DEF Path
<1>2. Len(y) > n /\ SubSeq(y, 1, n) = dir /\ y[n + 1] = Slash
  BY DEF Under
<1>3. \A l \in 1 .. n : y[l] = dir[l]
  <2>1. \A i \in 1 .. n : y[i] \in Nat
    BY <1>1, <1>2, ElementOfSeq DEF Path
  <2> PICK m : m = n
    OBVIOUS
  <2>2. m \in Int /\ 1 \in Int /\ \A i \in 1 .. m : y[i] \in Nat
    BY <1>1, <2>1
  <2> HIDE DEF n
  <2>3. \A i \in 1 .. m - 1 + 1 : SubSeq(y, 1, m)[i] = y[1 + i - 1]
    BY <2>2, SubSeqProperties
  <2>4. m - 1 + 1 = m /\ \A i \in 1 .. m : 1 + i - 1 = i
    BY <2>2
  <2> QED BY <1>2, <2>3, <2>4
<1>4. \A l \in 1 .. n : Rank(y, l) = Rank(dir, l)
  BY <1>1, <1>2, <1>3 DEF Rank
<1>5. Rank(y, n + 1) = -1 /\ Rank(dir, n + 1) = -2
  BY <1>1, <1>2 DEF Rank
<1> SUFFICES ASSUME x # dir PROVE Under(x, dir)
  OBVIOUS
<1>6. Before(dir, x)
  BY CmpIsOrder
<1>7. PICK k \in Nat \ {0} : (\A l \in 1 .. k - 1 : Rank(dir, l) = Rank(x, l)) /\ Rank(dir, k) < Rank(x, k)
  BY <1>6 DEF Before
<1> HIDE DEF n
<1>8. n + 1 \in Nat \ {0} /\ \A l \in 1 .. n : l \in Nat \ {0}
  BY <1>1
<1>9. k = n + 1
  <2>1. CASE k <= n
    \* y, which begins as dir does, would come before x.
    <3>1. Rank(y, k) < Rank(x, k) /\ \A l \in 1 .. k - 1 : Rank(y, l) = Rank(x, l)
      BY <1>1, <1>4, <1>7, <2>1
    <3>2. Before(y, x)
      BY <3>1 DEF Before
    <3> QED BY <3>2
  <2>2. CASE k > n + 1
    \* x would be as long as dir, and have nothing more at k.
    <3>1. Rank(x, n + 1) = -2
      BY <1>1, <1>5, <1>7, <2>2
    <3>2. n + 1 > Len(x)
      BY <1>8, <3>1, RankRight
    <3>3. k > Len(x)
      BY <1>1, <2>2, <3>2
    <3>4. Rank(x, k) = -2
      BY <3>3 DEF Rank
    <3>5. Rank(dir, k) \in Int /\ Rank(dir, k) >= -2
      BY RankRight
    <3> QED BY <1>7, <3>4, <3>5
  <2> QED BY <1>1, <2>1, <2>2
<1>10. Rank(x, n + 1) = -1
  <2>1. Rank(x, n + 1) \in Int /\ Rank(x, n + 1) > -2
    BY <1>5, <1>7, <1>8, <1>9, RankRight
  <2>2. ~(Rank(x, n + 1) > -1)
    <3> SUFFICES ASSUME Rank(x, n + 1) > -1 PROVE FALSE
      OBVIOUS
    <3>1. Rank(y, n + 1) < Rank(x, n + 1)
      BY <1>5, <2>1
    <3>2. \A l \in 1 .. (n + 1) - 1 : Rank(y, l) = Rank(x, l)
      BY <1>1, <1>4, <1>7, <1>9
    <3>3. Before(y, x)
      BY <1>8, <3>1, <3>2 DEF Before
    <3> QED BY <3>3
  <2> QED BY <2>1, <2>2
<1>11. n + 1 <= Len(x) /\ x[n + 1] = Slash
  BY <1>8, <1>10, RankRight
<1>12. ASSUME NEW l \in 1 .. n PROVE x[l] = dir[l]
  <2>1. l \in Nat \ {0} /\ l <= Len(x) /\ l <= Len(dir)
    BY <1>1, <1>11 DEF n
  <2>2. Rank(dir, l) = Rank(x, l)
    BY <1>1, <1>7, <1>9
  <2> QED BY <2>1, <2>2, RankRight
<1>13. SubSeq(x, 1, n) = dir
  <2>1. \A i \in 1 .. n : x[i] \in Nat
    BY <1>1, <1>11, ElementOfSeq DEF Path
  <2>2. /\ SubSeq(x, 1, n) \in Seq(Nat)
        /\ Len(SubSeq(x, 1, n)) = IF 1 <= n THEN n - 1 + 1 ELSE 0
        /\ \A i \in 1 .. n - 1 + 1 : SubSeq(x, 1, n)[i] = x[1 + i - 1]
    BY <1>1, <2>1, SubSeqProperties
  <2>3. n - 1 + 1 = n /\ \A i \in 1 .. n : 1 + i - 1 = i
    BY <1>1
  <2>4. Len(SubSeq(x, 1, n)) = n
    BY <1>1, <2>2
  <2>5. \A i \in 1 .. n : SubSeq(x, 1, n)[i] = x[i]
    BY <2>2, <2>3
  <2>6. \A i \in 1 .. n : SubSeq(x, 1, n)[i] = dir[i]
    BY <1>12, <2>5
  <2> PICK s : s = SubSeq(x, 1, n)
    OBVIOUS
  <2>7. s \in Seq(Nat) /\ Len(s) = Len(dir) /\ \A i \in 1 .. Len(s) : s[i] = dir[i]
    BY <2>2, <2>4, <2>6 DEF n
  <2>8. s = dir
    BY <2>7, SeqEqual DEF Path
  <2> QED BY <2>8
<1>14. Len(x) > n
  BY <1>1, <1>11
<1> QED BY <1>11, <1>13, <1>14 DEF Under, n

-----------------------------------------------------------------------------
(* File names *)

\* Elements and length of a part of a sequence.
LEMMA Part ==
  ASSUME NEW s \in Seq(Nat), NEW a \in Nat \ {0}, NEW b \in Nat, b <= Len(s), a <= b + 1
  PROVE  /\ SubSeq(s, a, b) \in Seq(Nat)
         /\ Len(SubSeq(s, a, b)) = b - a + 1
         /\ \A i \in 1 .. b - a + 1 : SubSeq(s, a, b)[i] = s[a + i - 1]
<1>1. Len(s) \in Nat /\ \A i \in 1 .. Len(s) : s[i] \in Nat
  <2>1. ASSUME NEW i \in 1 .. Len(s) PROVE s[i] \in Nat
    BY ElementOfSeq
  <2> QED BY <2>1, LenProperties
<1>2. a \in Int /\ b \in Int /\ \A i \in a .. b : s[i] \in Nat
  BY <1>1
<1>3. a <= b \/ b - a + 1 = 0
  BY <1>1
<1> QED BY <1>2, <1>3, SubSeqProperties

\* The rest of a name, behind its first k characters.
LEMMA LastPart ==
  ASSUME NEW s \in Seq(Nat), NEW k \in Nat, k <= Len(s)
  PROVE  /\ SubSeq(s, k + 1, Len(s)) \in Seq(Nat)
         /\ Len(SubSeq(s, k + 1, Len(s))) = Len(s) - k
         /\ \A i \in 1 .. Len(s) - k : SubSeq(s, k + 1, Len(s))[i] = s[k + i]
<1>1. /\ k + 1 \in Nat \ {0} /\ Len(s) \in Nat /\ Len(s) <= Len(s) /\ k + 1 <= Len(s) + 1
      /\ Len(s) - (k + 1) + 1 = Len(s) - k /\ \A i \in 1 .. Len(s) - k : (k + 1) + i - 1 = k + i
  BY LenProperties
<1>2. /\ SubSeq(s, k + 1, Len(s)) \in Seq(Nat)
      /\ Len(SubSeq(s, k + 1, Len(s))) = Len(s) - (k + 1) + 1
      /\ \A i \in 1 .. Len(s) - (k + 1) + 1 : SubSeq(s, k + 1, Len(s))[i] = s[(k + 1) + i - 1]
  BY <1>1, Part
<1> QED BY <1>1, <1>2

\* The first characters of a name.
LEMMA FirstPart ==
  ASSUME NEW s \in Seq(Nat), NEW n \in Nat, n <= Len(s)
  PROVE  /\ SubSeq(s, 1, n) \in Seq(Nat)
         /\ Len(SubSeq(s, 1, n)) = n
         /\ \A i \in 1 .. n : SubSeq(s, 1, n)[i] = s[i]
<1>1. 1 \in Nat \ {0} /\ 1 <= n + 1 /\ n - 1 + 1 = n /\ \A i \in 1 .. n : 1 + i - 1 = i
  OBVIOUS
<1>2. /\ SubSeq(s, 1, n) \in Seq(Nat)
      /\ Len(SubSeq(s, 1, n)) = n - 1 + 1
      /\ \A i \in 1 .. n - 1 + 1 : SubSeq(s, 1, n)[i] = s[1 + i - 1]
  BY <1>1, Part
<1> QED BY <1>1, <1>2

\* The maximum of some numbers up to N.
LEMMA MaxRight ==
  ASSUME NEW N \in Nat, NEW S \in SUBSET (0 .. N), NEW x \in S
  PROVE  Max(S) \in S /\ \A y \in S : y <= Max(S)
<1> DEFINE T == {k \in 0 .. N : N - k \in S}
<1>1. N - x \in T /\ T \in SUBSET Nat
  BY N - (N - x) = x
<1>2. PICK k \in T : \A j \in T : k <= j
  <2> HIDE DEF T
  <2> QED BY <1>1, LeastElement
<1>3. N - k \in S /\ k \in 0 .. N
  BY <1>2
<1>4. ASSUME NEW y \in S PROVE N - k >= y
  <2>1. N - y \in 0 .. N /\ N - (N - y) = y
    OBVIOUS
  <2>2. N - y \in T
    BY <2>1
  <2>3. k <= N - y
    BY <1>2, <2>2
  <2> QED BY <1>3, <2>3
<1>5. \E m \in S : \A y \in S : m >= y
  BY <1>3, <1>4
<1>6. Max(S) \in S /\ \A y \in S : Max(S) >= y
  BY <1>5 DEF Max
<1>7. S \subseteq Nat
  OBVIOUS
<1> QED BY <1>6, <1>7

\* The characters of ext stand in name from position k on.
Stands(name, ext, k) == \A j \in 1 .. Len(ext) : name[k + j - 1] = ext[j]

\* Only digits and dots follow, and a dot comes first.
Version(name, from) ==
  /\ \A i \in from .. Len(name) : name[i] \in Digits \cup {Dot}
  /\ from <= Len(name) => name[from] = Dot

\* The search from the right finds the places where ext stands.
LEMMA MatchesRight ==
  ASSUME NEW name \in Seq(Nat), NEW ext \in Seq(Nat), NEW k \in 2 .. Len(name) - Len(ext) + 1
  PROVE  k \in Matches(name, ext) <=>
           /\ Stands(name, ext, k)
           /\ k + Len(ext) <= Len(name) => name[k + Len(ext)] = Dot
<1> PICK n, e : n = Len(name) /\ e = Len(ext)
  OBVIOUS
<1>1. n \in Nat /\ e \in Nat /\ k \in Nat \ {0} /\ k <= n - e + 1
  BY LenProperties
<1> PICK b : b = k + e - 1
  OBVIOUS
<1>2. b \in Nat /\ b <= n /\ k <= b + 1 /\ b - k + 1 = e
  BY <1>1
<1> PICK piece : piece = SubSeq(name, k, b)
  OBVIOUS
<1>3. piece \in Seq(Nat) /\ Len(piece) = e /\ \A i \in 1 .. e : piece[i] = name[k + i - 1]
  BY <1>1, <1>2, Part
<1>4. piece = ext <=> Stands(name, ext, k)
  <2>1. ASSUME piece = ext PROVE Stands(name, ext, k)
    BY <1>3, <2>1 DEF Stands
  <2>2. ASSUME Stands(name, ext, k) PROVE piece = ext
    <3>1. \A i \in 1 .. e : piece[i] = ext[i]
      BY <1>3, <2>2 DEF Stands
    <3> QED BY <1>3, <3>1, SeqEqual
  <2> QED BY <2>1, <2>2
<1>5. k \in Matches(name, ext) <=> (piece = ext /\ (k + e <= n => name[k + e] = Dot))
  BY DEF Matches, MatchesFrom
<1> QED BY <1>4, <1>5

\* filename_has_extension finds a version after some place where ext stands,
\* though it looks at the rightmost place only.
LEMMA RightmostDecides ==
  ASSUME NEW name \in Seq(Nat), NEW ext \in Seq(Nat)
  PROVE  HasExtension(name, ext) <=>
           \E k \in 2 .. Len(name) - Len(ext) + 1 :
             Stands(name, ext, k) /\ Version(name, k + Len(ext))
<1> PICK n, e : n = Len(name) /\ e = Len(ext)
  OBVIOUS
<1> PICK at : at = Matches(name, ext)
  OBVIOUS
<1>1. n \in Nat /\ e \in Nat
  BY LenProperties
<1>2. at \in SUBSET (2 .. n - e + 1) /\ at \in SUBSET (0 .. n + 1)
  <2>1. at \in SUBSET (2 .. n - e + 1)
    BY DEF Matches, MatchesFrom
  <2> QED BY <1>1, <2>1
<1>3. HasExtension(name, ext) <=>
        at # {} /\ \A i \in Max(at) + e .. n : name[i] \in Digits \cup {Dot}
  BY DEF HasExtension
<1>4. ASSUME NEW x \in at PROVE Max(at) \in at /\ x <= Max(at)
  <2> PICK N : N = n + 1
    OBVIOUS
  <2>1. N \in Nat /\ at \in SUBSET (0 .. N)
    BY <1>1, <1>2
  <2> QED BY <2>1, MaxRight
<1>5. ASSUME HasExtension(name, ext)
      PROVE  \E k \in 2 .. n - e + 1 : Stands(name, ext, k) /\ Version(name, k + e)
  <2> PICK k : k = Max(at)
    OBVIOUS
  <2>1. k \in at /\ k \in 2 .. n - e + 1
    BY <1>2, <1>3, <1>4, <1>5
  <2>2. Stands(name, ext, k) /\ (k + e <= n => name[k + e] = Dot)
    BY <2>1, MatchesRight
  <2>3. \A i \in k + e .. n : name[i] \in Digits \cup {Dot}
    BY <1>3, <1>5
  <2>4. Version(name, k + e)
    BY <2>2, <2>3 DEF Version
  <2> QED BY <2>1, <2>2, <2>4
<1>6. ASSUME NEW k \in 2 .. n - e + 1, Stands(name, ext, k), Version(name, k + e)
      PROVE  HasExtension(name, ext)
  <2>1. k \in at
    BY <1>6, MatchesRight DEF Version
  <2> PICK m : m = Max(at)
    OBVIOUS
  <2>2. m \in at /\ k <= m /\ m \in Nat
    BY <1>1, <1>2, <1>4, <2>1
  <2>3. \A i \in k + e .. n : name[i] \in Digits \cup {Dot}
    BY <1>6 DEF Version
  <2>4. \A i \in m + e .. n : i \in k + e .. n
    BY <1>1, <2>2
  <2> QED BY <1>3, <2>1, <2>3, <2>4
<1> QED BY <1>5, <1>6

\* t is the rest of r from position from on, and the rest of name from at on.
Rest(name, r, from, last, len, at, t) ==
  /\ from \in Nat \ {0} /\ last \in Nat /\ len \in Nat /\ at \in Nat
  /\ last <= Len(r) /\ from + len = last + 1 /\ at + len = Len(name) + 1
  /\ \A i \in 1 .. len : r[from + i - 1] = name[at + i - 1]
  /\ t = SubSeq(r, from, last)

\* Characters that a name may end in after its extension.
IsTail(t) == ToSet(t) \subseteq Digits \cup {Dot} /\ (t # <<>> => t[1] = Dot)

\* What follows an extension is a version.
LEMMA TailRight ==
  ASSUME NEW name \in Seq(Nat), NEW r \in Seq(Nat), NEW from, NEW last, NEW len, NEW at, NEW t,
         Rest(name, r, from, last, len, at, t)
  PROVE  IsTail(t) <=> Version(name, at)
<1>0. /\ from \in Nat \ {0} /\ last \in Nat /\ len \in Nat /\ at \in Nat
      /\ last <= Len(r) /\ from + len = last + 1 /\ at + len = Len(name) + 1
      /\ \A i \in 1 .. len : r[from + i - 1] = name[at + i - 1]
      /\ t = SubSeq(r, from, last)
  BY DEF Rest
<1>1. t \in Seq(Nat) /\ Len(t) = len /\ \A i \in 1 .. len : t[i] = r[from + i - 1]
  <2>1. from <= last + 1 /\ last - from + 1 = len
    BY <1>0
  <2>2. /\ SubSeq(r, from, last) \in Seq(Nat)
        /\ Len(SubSeq(r, from, last)) = last - from + 1
        /\ \A i \in 1 .. last - from + 1 : SubSeq(r, from, last)[i] = r[from + i - 1]
    BY <1>0, <2>1, Part
  <2> QED BY <1>0, <2>1, <2>2
<1>2. \A i \in 1 .. len : t[i] = name[at + i - 1]
  BY <1>0, <1>1
<1>3. Len(name) \in Nat
  BY LenProperties
<1>4. ToSet(t) \subseteq Digits \cup {Dot} <=> \A i \in 1 .. len : t[i] \in Digits \cup {Dot}
  <2>1. DOMAIN t = 1 .. len
    BY <1>1, LenProperties
  <2> PICK D : D = Digits \cup {Dot}
    OBVIOUS
  <2>2. ToSet(t) \subseteq D <=> \A i \in 1 .. len : t[i] \in D
    BY <2>1, Zenon DEF ToSet
  <2> QED BY <2>2
<1>5. ASSUME \A i \in 1 .. len : t[i] \in Digits \cup {Dot}, NEW i \in at .. Len(name)
      PROVE  name[i] \in Digits \cup {Dot}
  <2>1. i - at + 1 \in 1 .. len /\ at + (i - at + 1) - 1 = i
    BY <1>0, <1>3
  <2>2. t[i - at + 1] = name[i]
    BY <1>2, <2>1
  <2> QED BY <1>5, <2>1, <2>2
<1>6. ASSUME \A i \in at .. Len(name) : name[i] \in Digits \cup {Dot}, NEW i \in 1 .. len
      PROVE  t[i] \in Digits \cup {Dot}
  <2>1. at + i - 1 \in at .. Len(name)
    BY <1>0, <1>3
  <2>2. t[i] = name[at + i - 1]
    BY <1>2
  <2> QED BY <1>6, <2>1, <2>2
<1>7. at <= Len(name) <=> len # 0
  BY <1>0, <1>3
<1>8. t # <<>> <=> len # 0
  BY <1>1, EmptySeq
<1>9. len # 0 => t[1] = name[at]
  <2>1. at + 1 - 1 = at /\ (len # 0 => 1 \in 1 .. len)
    BY <1>0
  <2> QED BY <1>2, <2>1
<1> QED BY <1>4, <1>5, <1>6, <1>7, <1>8, <1>9 DEF Version, IsTail

\* An extension begins after the first character, at k + 1, and a version or
\* nothing follows it.
LEMMA SplitRight ==
  ASSUME NEW name \in Seq(Nat), NEW ext \in Seq(Nat), Len(ext) > 0,
         NEW k \in 1 .. Len(name) - 1
  PROVE  LET rest == SubSeq(name, k + 1, Len(name))
             tail == SubSeq(rest, Len(ext) + 1, Len(rest))
         IN  (/\ IsPrefix(ext, rest)
              /\ ToSet(tail) \subseteq Digits \cup {Dot}
              /\ tail # <<>> => tail[1] = Dot)
             <=> (/\ k + 1 <= Len(name) - Len(ext) + 1
                  /\ Stands(name, ext, k + 1)
                  /\ Version(name, k + 1 + Len(ext)))
<1> DEFINE rest == SubSeq(name, k + 1, Len(name))
           tail == SubSeq(rest, Len(ext) + 1, Len(rest))
<1> PICK n, e : n = Len(name) /\ e = Len(ext)
  OBVIOUS
<1>1. n \in Nat /\ e \in Nat \ {0} /\ k \in Nat \ {0} /\ k <= n - 1
  BY LenProperties
<1> PICK first : first = k + 1
  OBVIOUS
<1> PICK r : r = SubSeq(name, first, n)
  OBVIOUS
<1>2. r \in Seq(Nat) /\ Len(r) = n - k /\ \A i \in 1 .. n - k : r[i] = name[k + i]
  <2>1. k \in Nat /\ k <= Len(name)
    BY <1>1
  <2> QED BY <2>1, LastPart
<1>3. IsPrefix(ext, r) <=> e <= n - k /\ Stands(name, ext, first)
  <2>1. CASE e <= n - k
    <3>1. /\ SubSeq(ext, 1, e) \in Seq(Nat) /\ Len(SubSeq(ext, 1, e)) = e
          /\ \A i \in 1 .. e : SubSeq(ext, 1, e)[i] = ext[i]
      BY <1>1, FirstPart
    <3>2. /\ SubSeq(r, 1, e) \in Seq(Nat) /\ Len(SubSeq(r, 1, e)) = e
          /\ \A i \in 1 .. e : SubSeq(r, 1, e)[i] = r[i]
      <4>1. r \in Seq(Nat) /\ e \in Nat /\ e <= Len(r)
        BY <1>1, <1>2, <2>1
      <4> QED BY <4>1, FirstPart
    <3> PICK a, b : a = SubSeq(ext, 1, e) /\ b = SubSeq(r, 1, e)
      OBVIOUS
    <3>3. a = b <=> \A i \in 1 .. e : ext[i] = r[i]
      <4>1. ASSUME a = b PROVE \A i \in 1 .. e : ext[i] = r[i]
        BY <3>1, <3>2, <4>1
      <4>2. ASSUME \A i \in 1 .. e : ext[i] = r[i] PROVE a = b
        <5>1. a \in Seq(Nat) /\ b \in Seq(Nat) /\ Len(a) = Len(b) /\ \A i \in 1 .. Len(a) : a[i] = b[i]
          BY <3>1, <3>2, <4>2
        <5> QED BY <5>1, SeqEqual
      <4> QED BY <4>1, <4>2
    <3>4. \A i \in 1 .. e : r[i] = name[first + i - 1]
      <4>1. \A i \in 1 .. e : i \in 1 .. n - k /\ first + i - 1 = k + i
        BY <1>1, <2>1
      <4> QED BY <1>2, <4>1
    <3>5. IsPrefix(ext, r) <=> a = b
      BY <1>2, <2>1 DEF IsPrefix
    <3> QED BY <2>1, <3>3, <3>4, <3>5 DEF Stands
  <2>2. CASE ~(e <= n - k)
    BY <1>2, <2>2 DEF IsPrefix
  <2> QED BY <2>1, <2>2
<1> PICK t : t = SubSeq(r, e + 1, Len(r))
  OBVIOUS
<1>4. ASSUME e <= n - k
      PROVE  IsTail(t) <=> Version(name, first + e)
  <2>1. /\ e + 1 \in Nat \ {0} /\ Len(r) \in Nat /\ n - k - e \in Nat /\ first + e \in Nat
        /\ (e + 1) + (n - k - e) = Len(r) + 1
        /\ (first + e) + (n - k - e) = Len(name) + 1
    BY <1>1, <1>2, <1>4
  <2>2. \A i \in 1 .. n - k - e : r[(e + 1) + i - 1] = name[(first + e) + i - 1]
    <3>1. \A i \in 1 .. n - k - e :
            (e + 1) + i - 1 \in 1 .. n - k /\ k + ((e + 1) + i - 1) = (first + e) + i - 1
      BY <1>1, <1>4, SMTT(30)
    <3> QED BY <1>2, <3>1
  <2> PICK from, last, len, at : from = e + 1 /\ last = Len(r) /\ len = n - k - e /\ at = first + e
    OBVIOUS
  <2>3. /\ from \in Nat \ {0} /\ last \in Nat /\ len \in Nat /\ at \in Nat
        /\ last <= Len(r) /\ from + len = last + 1 /\ at + len = Len(name) + 1
        /\ \A i \in 1 .. len : r[from + i - 1] = name[at + i - 1]
    <3>1. last <= last
      BY <2>1
    <3> QED BY <2>1, <2>2, <3>1, Zenon
  <2>4. t = SubSeq(r, from, last) /\ r \in Seq(Nat)
    BY <1>2
  <2>5. IsTail(t) <=> Version(name, at)
    <3>1. Rest(name, r, from, last, len, at, t)
      BY <2>3, <2>4, Zenon DEF Rest
    <3> QED BY <2>4, <3>1, TailRight
  <2> QED BY <2>5
<1>5. rest = r /\ tail = t
  OBVIOUS
<1>6. first <= n - e + 1 <=> e <= n - k
  BY <1>1
<1> HIDE DEF rest, tail
<1>7. (IsPrefix(ext, rest) /\ IsTail(tail))
        <=> (first <= n - e + 1 /\ Stands(name, ext, first) /\ Version(name, first + e))
  BY <1>3, <1>4, <1>5, <1>6
<1> QED BY <1>7 DEF rest, tail, IsTail

\* filename_has_extension answers whether the name is a stem, the extension and
\* nothing or a version.
LEMMA ExtensionRight ==
  ASSUME NEW name \in Seq(Nat), NEW ext \in tracking_extensions
  PROVE  HasExtension(name, ext) <=>
           \E k \in 1 .. Len(name) - 1 :
             LET rest == SubSeq(name, k + 1, Len(name))
                 tail == SubSeq(rest, Len(ext) + 1, Len(rest))
             IN  /\ IsPrefix(ext, rest)
                 /\ ToSet(tail) \subseteq Digits \cup {Dot}
                 /\ tail # <<>> => tail[1] = Dot
<1> DEFINE Split(k) ==
      LET rest == SubSeq(name, k + 1, Len(name))
          tail == SubSeq(rest, Len(ext) + 1, Len(rest))
      IN  /\ IsPrefix(ext, rest)
          /\ ToSet(tail) \subseteq Digits \cup {Dot}
          /\ tail # <<>> => tail[1] = Dot
<1>1. ext \in Seq(Nat) /\ Len(ext) > 0
  <2>1. ext = <<46, 115, 111>> \/ ext = <<46, 111>> \/ ext = <<46, 97>>
    BY DEF tracking_extensions
  <2>2. CASE ext = <<46, 115, 111>>
    BY <2>2
  <2>3. CASE ext = <<46, 111>>
    BY <2>3
  <2>4. CASE ext = <<46, 97>>
    BY <2>4
  <2> QED BY <2>1, <2>2, <2>3, <2>4
<1> PICK n, e : n = Len(name) /\ e = Len(ext)
  OBVIOUS
<1>2. n \in Nat /\ e \in Nat \ {0}
  BY <1>1, LenProperties
<1>3. ASSUME NEW k \in 1 .. n - 1
      PROVE  Split(k) <=> k + 1 <= n - e + 1 /\ Stands(name, ext, k + 1) /\ Version(name, k + 1 + e)
  BY <1>1, SplitRight, Zenon
<1> HIDE DEF Split
<1>4. HasExtension(name, ext) <=>
        \E k \in 2 .. n - e + 1 : Stands(name, ext, k) /\ Version(name, k + e)
  BY <1>1, RightmostDecides
<1>5. ASSUME NEW k \in 1 .. n - 1, Split(k) PROVE HasExtension(name, ext)
  <2> PICK m : m = k + 1
    OBVIOUS
  <2>1. m <= n - e + 1 /\ Stands(name, ext, m) /\ Version(name, m + e)
    BY <1>3, <1>5
  <2>2. m \in 2 .. n - e + 1
    BY <1>2, <2>1
  <2> QED BY <1>4, <2>1, <2>2
<1>6. ASSUME HasExtension(name, ext) PROVE \E k \in 1 .. n - 1 : Split(k)
  <2>1. PICK m \in 2 .. n - e + 1 : Stands(name, ext, m) /\ Version(name, m + e)
    BY <1>4, <1>6
  <2> PICK k : k = m - 1
    OBVIOUS
  <2>2. k \in 1 .. n - 1 /\ k + 1 = m
    BY <1>2
  <2>3. m <= n - e + 1
    BY <1>2
  <2>4. Split(k)
    BY <1>3, <2>1, <2>2, <2>3
  <2> QED BY <2>2, <2>4
<1>7. HasExtension(name, ext) <=> \E k \in 1 .. n - 1 : Split(k)
  BY <1>5, <1>6
<1> QED BY <1>7, Zenon DEF Split

NameInv ==
  /\ filename \in Seq(Nat)
  /\ filename # <<>> =>
       (tracked <=> \E ext \in tracking_extensions : HasExtension(filename, ext))

\* The answer given for a file name is filename_has_extension's.
LEMMA NameInvariant == PathSpec => []NameInv
<1>1. PathInit => NameInv
  BY EmptySeq DEF PathInit, NameInv
<1>2. ASSUME NameInv, [PathNext]_pathVars PROVE NameInv'
  <2>1. CASE ListStep
    <3>1. filename' = <<>>
      BY <2>1 DEF ListStep
    <3> QED BY <3>1, EmptySeq DEF NameInv
  <2>2. CASE NameStep
    <3>1. PICK name \in FileNames :
            /\ filename' = name
            /\ tracked' = \E ext \in tracking_extensions : HasExtension(name, ext)
      BY <2>2 DEF NameStep, AskExtensions
    <3>2. tracked' <=> \E ext \in tracking_extensions : HasExtension(filename', ext)
      BY <3>1
    <3>3. filename' \in Seq(Nat)
      BY <3>1, NamesAssumption
    <3>4. (\E ext \in tracking_extensions : HasExtension(filename', ext))
            <=> (\E ext \in tracking_extensions : HasExtension(filename, ext))'
      BY DEF HasExtension
    <3> QED BY <3>2, <3>3, <3>4 DEF NameInv
  <2>3. CASE UNCHANGED pathVars
    <3>1. UNCHANGED <<filename, tracked>>
      BY <2>3 DEF pathVars, nameVars
    <3> QED BY <1>2, <3>1 DEF NameInv
  <2> QED BY <1>2, <2>1, <2>2, <2>3 DEF PathNext
<1> QED BY <1>1, <1>2, PTL DEF PathSpec

\* A file is tracked if and only if its name is a stem, one of the extensions
\* and nothing or a version (filename_has_extension, scan_fs).
THEOREM TrackingIsExact == PathSpec => []ExtensionIsExact
<1>1. ASSUME NameInv PROVE ExtensionIsExact
  <2> SUFFICES ASSUME filename # <<>>
               PROVE  tracked <=>
                        \E k \in 1 .. Len(filename) - 1 :
                          LET rest == SubSeq(filename, k + 1, Len(filename)) IN
                          \E ext \in tracking_extensions :
                            /\ IsPrefix(ext, rest)
                            /\ LET tail == SubSeq(rest, Len(ext) + 1, Len(rest))
                               IN  /\ ToSet(tail) \subseteq Digits \cup {Dot}
                                   /\ tail # <<>> => tail[1] = Dot
    BY DEF ExtensionIsExact
  <2>1. filename \in Seq(Nat)
        /\ (tracked <=> \E ext \in tracking_extensions : HasExtension(filename, ext))
    BY <1>1 DEF NameInv
  <2>2. \A ext \in tracking_extensions :
          HasExtension(filename, ext) <=>
            \E k \in 1 .. Len(filename) - 1 :
              LET rest == SubSeq(filename, k + 1, Len(filename))
                  tail == SubSeq(rest, Len(ext) + 1, Len(rest))
              IN  /\ IsPrefix(ext, rest)
                  /\ ToSet(tail) \subseteq Digits \cup {Dot}
                  /\ tail # <<>> => tail[1] = Dot
    BY <2>1, ExtensionRight, Zenon
  <2> QED BY <2>1, <2>2, Zenon
<1> QED BY <1>1, NameInvariant, PTL

-----------------------------------------------------------------------------
(* The lists *)

InOrder(l) == \A i \in 1 .. Len(l) - 1 : ~Before(l[i + 1], l[i])

ListInv ==
  /\ list \in Seq(Paths)
  /\ sorted \in BOOLEAN
  /\ sorted => InOrder(list)
  /\ PrunePathIsExact

\* If each path is in order with the next one, all paths are in order.
LEMMA OrderIsGlobal ==
  ASSUME NEW l \in Seq(Paths), InOrder(l), NEW i \in 1 .. Len(l), NEW k \in i .. Len(l)
  PROVE  ~Before(l[k], l[i])
<1>1. Len(l) \in Nat /\ \A j \in 1 .. Len(l) : l[j] \in Path
  BY LenProperties, ElementOfSeq, PathsAssumption DEF Path
<1> DEFINE Q == {j \in Nat : i <= j /\ j <= Len(l) => ~Before(l[j], l[i])}
<1>2. 0 \in Q
  BY <1>1
<1>3. ASSUME NEW j \in Nat, j \in Q PROVE j + 1 \in Q
  <2> SUFFICES ASSUME i <= j + 1, j + 1 <= Len(l) PROVE ~Before(l[j + 1], l[i])
    OBVIOUS
  <2>1. CASE i = j + 1
    <3>1. l[i] \in Path
      BY <1>1
    <3> QED BY <2>1, <3>1, BeforeIsStrict
  <2>2. CASE i # j + 1
    <3> PICK m : m = j + 1
      OBVIOUS
    <3>1. j \in 1 .. Len(l) /\ m \in 1 .. Len(l) /\ j \in 1 .. Len(l) - 1 /\ i <= j /\ j <= Len(l)
      BY <1>1, <2>2
    <3>2. ~Before(l[j], l[i])
      BY <1>3, <3>1
    <3>3. ~Before(l[m], l[j])
      BY <3>1 DEF InOrder
    <3>4. l[i] \in Path /\ l[j] \in Path /\ l[m] \in Path
      BY <1>1, <3>1
    <3>5. ~Before(l[m], l[i])
      BY <3>2, <3>3, <3>4, OrderedTransitive
    <3> QED BY <3>5
  <2> QED BY <2>1, <2>2
<1> HIDE DEF Q
<1>4. k \in Q
  BY <1>1, <1>2, <1>3, InductiveSetHasAll
<1> QED BY <1>1, <1>4 DEF Q

\* A search from the beginning stops at the first path that is equal, or at
\* the end of the list.
LEMMA StopAtRight ==
  ASSUME list \in Seq(Paths), NEW path \in Paths
  PROVE  /\ StopAt(0, path) \in 0 .. Len(list)
         /\ StopAt(0, path) < Len(list) <=> path \in Range(list)
<1> PICK n : n = Len(list)
  OBVIOUS
<1> DEFINE Hit(k) == Cmp(list[k + 1], path) = 0
           S == {k \in Nat : k = n \/ (k < n /\ Hit(k))}
<1>1. n \in Nat /\ DOMAIN list = 1 .. n /\ path \in Path /\ \A j \in 1 .. n : list[j] \in Path
  BY LenProperties, ElementOfSeq, PathsAssumption DEF Path
<1>2. \A k \in Nat : k < n => (Hit(k) <=> list[k + 1] = path)
  <2> SUFFICES ASSUME NEW k \in Nat, k < n PROVE Hit(k) <=> list[k + 1] = path
    OBVIOUS
  <2> PICK m : m = k + 1
    OBVIOUS
  <2>1. m \in 1 .. n
    BY <1>1
  <2>2. list[m] \in Path
    BY <1>1, <2>1
  <2>3. Cmp(list[m], path) = 0 <=> list[m] = path
    BY <1>1, <2>2, CmpIsOrder
  <2> QED BY <2>3
<1> HIDE DEF Hit
<1>3. n \in S /\ S \in SUBSET Nat
  BY <1>1
<1>4. PICK k \in S : \A j \in S : k <= j
  <2> HIDE DEF S
  <2> QED BY <1>3, LeastElement
<1>5. k \in 0 .. n /\ (k = n \/ Hit(k)) /\ \A l \in 0 .. k - 1 : ~Hit(l)
  <2>1. k \in Nat /\ k <= n /\ (k = n \/ Hit(k))
    BY <1>1, <1>4
  <2>2. ASSUME NEW l \in 0 .. k - 1, Hit(l) PROVE FALSE
    <3>1. l \in Nat /\ l < n /\ ~(k <= l)
      BY <1>1, <2>1
    <3>2. l \in S
      BY <2>2, <3>1
    <3> QED BY <1>4, <3>1, <3>2
  <2> QED BY <1>1, <2>1, <2>2
<1>6. StopAt(0, path) =
        CHOOSE m \in 0 .. n : (m = n \/ Hit(m)) /\ \A l \in 0 .. m - 1 : ~Hit(l)
  BY DEF StopAt, Hit
<1> PICK m : m = StopAt(0, path)
  OBVIOUS
<1>7. m \in 0 .. n /\ (m = n \/ Hit(m)) /\ \A l \in 0 .. m - 1 : ~Hit(l)
  BY <1>5, <1>6, Zenon
<1>8. ASSUME m < n PROVE path \in Range(list)
  <2>1. m \in Nat /\ Hit(m) /\ m + 1 \in 1 .. n
    BY <1>1, <1>7, <1>8
  <2>2. list[m + 1] = path
    BY <1>2, <1>8, <2>1
  <2> QED BY <1>1, <2>1, <2>2 DEF Range
<1>9. ASSUME path \in Range(list) PROVE m < n
  <2> SUFFICES ASSUME ~(m < n) PROVE FALSE
    OBVIOUS
  <2>1. PICK j \in 1 .. n : list[j] = path
    BY <1>1, <1>9 DEF Range
  <2> PICK l : l = j - 1
    OBVIOUS
  <2>2. l \in 0 .. m - 1 /\ l \in Nat /\ l < n /\ l + 1 = j
    BY <1>1, <1>7
  <2>3. ~Hit(l)
    BY <1>7, <2>2
  <2>4. list[l + 1] = path
    BY <2>1, <2>2
  <2> QED BY <1>2, <2>2, <2>3, <2>4
<1>10. m < n <=> path \in Range(list)
  BY <1>8, <1>9
<1> QED BY <1>7, <1>10

\* A list is built from some of the paths, in any order.
LEMMA ListInit == PathInit => ListInv
<1> SUFFICES ASSUME PathInit PROVE ListInv
  OBVIOUS
<1>1. PICK n \in 0 .. MaxList : list \in [1 .. n -> Paths]
  BY DEF PathInit
<1>2. n \in Nat
  BY PathsAssumption
<1>3. list \in Seq(Paths)
  BY <1>1, <1>2
<1> QED BY <1>3 DEF PathInit, ListInv, PrunePathIsExact

\* The sort leaves a list of the same paths in order.
LEMMA SortKeeps ==
  ASSUME ListInv, Sort
  PROVE  ListInv'
<1>1. list \in Seq(Paths) /\ Len(list) \in Nat /\ DOMAIN list = 1 .. Len(list)
  BY LenProperties DEF ListInv
<1>2. PICK perm \in [DOMAIN list -> DOMAIN list] : list' = [i \in DOMAIN list |-> list[perm[i]]]
  BY DEF Sort
<1>3. \A i \in 1 .. Len(list) : list[perm[i]] \in Paths
  <2>1. \A i \in 1 .. Len(list) : perm[i] \in 1 .. Len(list)
    BY <1>1
  <2> QED BY <1>1, <2>1, ElementOfSeq
<1>4. list' \in Seq(Paths) /\ Len(list') = Len(list)
  <2>1. list' \in [1 .. Len(list) -> Paths]
    BY <1>1, <1>2, <1>3
  <2> QED BY <1>1, <2>1
<1>5. InOrder(list')
  <2> SUFFICES ASSUME NEW i \in 1 .. Len(list) - 1 PROVE ~Before(list'[i + 1], list'[i])
    BY <1>4 DEF InOrder
  <2>1. Cmp(list'[i + 1], list'[i]) >= 0
    BY DEF Sort
  <2> PICK j : j = i + 1
    OBVIOUS
  <2>2. i \in 1 .. Len(list') /\ j \in 1 .. Len(list')
    BY <1>1, <1>4
  <2>3. list'[i] \in Path /\ list'[j] \in Path
    BY <1>4, <2>2, ElementOfSeq, PathsAssumption DEF Path
  <2> PICK p : p = list'[j]
    OBVIOUS
  <2> PICK q : q = list'[i]
    OBVIOUS
  <2>4. Cmp(p, q) >= 0 /\ p \in Path /\ q \in Path
    BY <2>1, <2>3
  <2>5. ~Before(p, q)
    BY <2>4, CmpIsOrder
  <2> QED BY <2>5
<1>6. sorted' = TRUE
  BY DEF Sort
<1> QED BY <1>4, <1>5, <1>6 DEF ListInv, PrunePathIsExact

\* Every step keeps the list in order and the answer right.
LEMMA ListNext ==
  ASSUME ListInv, [PathNext]_pathVars
  PROVE  ListInv'
<1>1. CASE Sort
  BY <1>1, SortKeeps
<1>2. CASE AskPrunePaths
  <2>1. PICK path \in Paths : asked' = path /\ answer' = (StopAt(0, path) < Len(list))
    BY <1>2 DEF AskPrunePaths
  <2>2. list \in Seq(Paths) /\ list' = list /\ sorted' = sorted
    BY <1>2 DEF AskPrunePaths, ListInv
  <2>3. answer' <=> asked' \in Range(list')
    BY <2>1, <2>2, StopAtRight
  <2> QED BY <2>2, <2>3 DEF ListInv, PrunePathIsExact
<1>3. CASE ContainsDirPath
  BY <1>3 DEF ContainsDirPath, ListInv, PrunePathIsExact
<1>4. CASE Rewind
  BY <1>4 DEF Rewind, ListInv, PrunePathIsExact
<1>5. CASE NameStep \/ UNCHANGED pathVars
  <2>1. UNCHANGED <<list, sorted, asked, answer>>
    BY <1>5 DEF NameStep, pathVars, listVars
  <2> QED BY <2>1 DEF ListInv, PrunePathIsExact
<1> QED BY <1>1, <1>2, <1>3, <1>4, <1>5 DEF PathNext, ListStep

LEMMA ListInvariant == PathSpec => []ListInv
BY ListInit, ListNext, PTL DEF PathSpec

\* A path is pruned if and only if prunepaths has it, in whatever order the
\* configuration lists them (string_list_contains_dir_path, scan_fs).
THEOREM PruningIsExact == PathSpec => []PrunePathIsExact
<1>1. ListInv => PrunePathIsExact
  BY DEF ListInv
<1> QED BY <1>1, ListInvariant, PTL

\* In a sorted list every subtree is in one piece (dir_path_cmp,
\* string_list_dir_path_sort).
THEOREM SortKeepsSubtreesTogether == PathSpec => []SubtreesTogether
<1>1. ASSUME ListInv PROVE SubtreesTogether
  <2> SUFFICES ASSUME sorted, NEW i \in DOMAIN list, NEW k \in DOMAIN list, i < k,
                      Under(list[k], list[i]), NEW j \in i + 1 .. k
               PROVE  list[j] = list[i] \/ Under(list[j], list[i])
    BY DEF SubtreesTogether
  <2>1. list \in Seq(Paths) /\ InOrder(list)
    BY <1>1 DEF ListInv
  <2>2. Len(list) \in Nat /\ DOMAIN list = 1 .. Len(list)
    BY <2>1, LenProperties
  <2>3. i \in 1 .. Len(list) /\ j \in 1 .. Len(list) /\ j \in i .. Len(list) /\ k \in j .. Len(list)
    BY <2>2
  <2>4. ~Before(list[j], list[i]) /\ ~Before(list[k], list[j])
    BY <2>1, <2>3, OrderIsGlobal
  <2>5. list[i] \in Path /\ list[j] \in Path /\ list[k] \in Path
    BY <2>1, <2>2, <2>3, ElementOfSeq, PathsAssumption DEF Path
  <2> QED BY <2>4, <2>5, BetweenIsUnder
<1> QED BY <1>1, ListInvariant, PTL
=============================================================================
