------------------------------ MODULE FileScan ------------------------------
(***************************************************************************)
(* FSScanner::scan: the recursive walk over the directory tree, while      *)
(* other processes rename directories under it.  A frame of the stack is a *)
(* call of scan_fs with its open directory, the path read when the call    *)
(* began and the directory entries it has still to look at; readdir may    *)
(* give them in any order, and may or may not give an entry that was added *)
(* after it began.                                                         *)
(*                                                                         *)
(* A path is the sequence of the names on it.  The tree is a function from *)
(* directories to parents.  Entries that are neither directories nor       *)
(* regular files are left out, scan_fs passes over them.                   *)
(*                                                                         *)
(* The thread that polls for changes of the mounts runs beside the scan    *)
(* (BindMount), followed here until the scan ends.                         *)
(***************************************************************************)
EXTENDS BindMount, FiniteSets, SequencesExt

CONSTANTS
  Dirs, Root,        \* the directories, and that of database_scan_path
  NameOf,            \* the name of a directory in its parent
  FilesIn,           \* the names of the regular files of a directory
  Tracked,           \* file names with one of tracking_extensions
  Mounts,            \* directories that are mount points of other devices
  Excluded,          \* those whose file system type is in prunefs
  BindMounts,        \* directories that are bind mounts
  PruneNames, PrunePaths, PruneBindMounts,  \* the configuration
  Faults,            \* faults a directory may have: "unreadable" is a failing
                     \* openat, "nostream" fdopendir, "nostat" fstat,
                     \* "nolink" readlink; "untyped" means that its entries
                     \* are DT_UNKNOWN
  MaxFaults,         \* bound on the number of directories with a fault
  MaxTrouble,        \* bound on the number of renamings, faults, changes of
                     \* the mounts and lacks of a polling thread together
  FdLimit,           \* file descriptors left to the process
  PathLimit,         \* MAX_PATH_LEN - 1, in names
  MaxFileSamples, MaxPathSamples,  \* MAX_FILE_NAME_SAMPLES, MAX_PATH_NAME_SAMPLES
  Cut                \* the last name of a path that was cut off

ASSUME ScanAssumption ==
  /\ Root \in Dirs /\ IsFiniteSet(Dirs)
  /\ FdLimit \in Nat \ {0} /\ PathLimit \in Nat \ {0}
  /\ Mounts \subseteq Dirs /\ Excluded \subseteq Mounts
  /\ Faults \subseteq {"unreadable", "nostream", "nostat", "nolink", "untyped"}
  /\ MaxFileSamples \in Nat /\ MaxPathSamples \in Nat

VARIABLES
  parent,   \* the tree; parent[Root] = Root
  fault,    \* the fault of each directory, or "none"
  moved,    \* directories renamed so far, one for each renaming
  been,     \* which paths each directory has had
  stack,    \* the calls of scan_fs, the deepest last
  found,    \* _found_files
  paths,    \* _id_to_str of the cache; _str_to_id is its inverse
  file_samples, path_samples,  \* names given to the dictionary builder
  result    \* "none", "scanning", "ok", "failed", "exited", "crashed", or
            \* "undefined": what the program does now the language leaves open

treeVars == <<parent, fault, moved, been>>
foundVars == <<found, paths, file_samples, path_samples>>
vars == <<treeVars, stack, foundVars, result, bindVars>>

-----------------------------------------------------------------------------
(* The tree *)

\* The way up from d in tree t: Chain(t, d)[k] is k steps above d.
Chain(t, d) ==
  LET up[k \in 0 .. Cardinality(Dirs)] == IF k = 0 THEN d ELSE t[up[k - 1]]
  IN  up

\* d and all directories above it.
Above(t, d) == Range(Chain(t, d))

Depth(t, d) == Cardinality(Above(t, d))

PathIn(t, d) == [i \in 1 .. Depth(t, d) |-> NameOf[Chain(t, d)[Depth(t, d) - i]]]

PathOf(d) == PathIn(parent, d)

\* No two entries of a directory have the same name.
Trees ==
  {t \in [Dirs -> Dirs] :
     /\ \A d \in Dirs : Root \in Above(t, d) /\ (t[d] = d <=> d = Root)
     /\ \A d \in Dirs \ {Root} : NameOf[d] \notin FilesIn[t[d]]
     /\ \A c, d \in Dirs \ {Root} :
          c # d /\ t[c] = t[d] => NameOf[c] # NameOf[d]}

\* The mount point d lies under.
DeviceOf(d) ==
  LET up == Chain(parent, d)
      k  == CHOOSE n \in DOMAIN up :
              /\ up[n] \in Mounts \cup {Root}
              /\ \A l \in 0 .. n - 1 : up[l] \notin Mounts \cup {Root}
  IN  up[k]

Faulty == {d \in Dirs : fault[d] # "none"}
Untyped == {d \in Dirs : fault[d] = "untyped"}

Trouble ==
  Len(moved) + Cardinality(Faulty) + mounts + (IF poller = "none" THEN 1 ELSE 0)

-----------------------------------------------------------------------------
(* Helpers of the code *)

Top == Last(stack)

Calling == result = "scanning" /\ stack # <<>>

\* scan_fs is past the checks of its path.
Reading == Calling /\ Top.path # <<>> /\ asking = "none"

\* A call of scan_fs whose directory is open and whose path is not read yet.
Call(d) == [dir |-> d, path |-> <<>>, todo |-> {}]

\* DirWrapper::get_dir_path: readlink cuts off what the buffer cannot hold.
DirPath(path) ==
  IF Len(path) <= PathLimit THEN path ELSE Append(SubSeq(path, 1, PathLimit - 1), Cut)

\* Mutant of StoreString: the id of a new path is counted from one.
StoreStringFromOne(path) ==
  IF path \in Range(paths)
  THEN CHOOSE i \in 0 .. Len(paths) - 1 : paths[i + 1] = path
  ELSE Len(paths) + 1

\* StringCache::store_string
StoreString(path) ==
  IF path \in Range(paths)
  THEN CHOOSE i \in 0 .. Len(paths) - 1 : paths[i + 1] = path
  ELSE Len(paths)

\* StringCache::get_string
GetString(id) == IF id < Len(paths) THEN paths[id + 1] ELSE <<>>

\* DictionaryBuilder::add_sample, while the counter is within its limit.
Sample(list, limit, name) == IF Len(list) < limit THEN Append(list, name) ELSE list

\* The directory just opened leaves a descriptor for /proc/mounts.
MountsCanBeRead == Len(stack) + 1 < FdLimit

\* Mutant of IsExcluded: the directory of the call is looked up.
IsExcludedCaller(path) ==
  MountsCanBeRead /\ \E m \in Excluded : PathOf(m) = Front(path)

\* filesystem_is_excluded: the path is looked up among the mount points.  If
\* they cannot be read the file system counts as not excluded.
IsExcluded(path) == MountsCanBeRead /\ \E m \in Excluded : PathOf(m) = path

EntriesOf(d) == FilesIn[d] \cup {NameOf[c] : c \in {c \in Dirs \ {Root} : parent[c] = d}}

\* The directory that openat(name) opens in the directory of the call.
Opened(name) ==
  {c \in Dirs \ {Root} : /\ parent[c] = Top.dir /\ NameOf[c] = name
                         /\ fault[c] # "unreadable" /\ Len(stack) < FdLimit}

\* The entry is done with.
Passed(name) ==
  stack' = [stack EXCEPT ![Len(stack)].todo = @ \ {name}]

DirEntries == Top.todo \ FilesIn[Top.dir]

-----------------------------------------------------------------------------
Init ==
  /\ parent \in Trees
  /\ fault \in {f \in [Dirs -> Faults \cup {"none"}] :
                  Cardinality({d \in Dirs : f[d] # "none"}) <= MaxFaults}
  /\ moved = <<>>
  /\ been = {<<d, PathOf(d)>> : d \in Dirs}
  /\ stack = <<>>
  /\ found = <<>>
  /\ paths = <<>>
  /\ file_samples = <<>>
  /\ path_samples = <<>>
  /\ result = "none"
  /\ BindMountInit
  /\ Trouble <= MaxTrouble

\* scan: the directory to scan is opened by its path.
OpenRoot ==
  /\ result = "none"
  /\ fault[Root] \notin {"unreadable", "nostream"}
  /\ stack' = <<Call(Root)>>
  /\ result' = "scanning"
  /\ UNCHANGED <<treeVars, foundVars, bindVars>>

RootFails ==
  /\ result = "none"
  /\ fault[Root] \in {"unreadable", "nostream"}
  /\ result' = "failed"
  /\ UNCHANGED <<treeVars, stack, foundVars, bindVars>>

\* Mutant of Return: the whole scan ends with the first directory.
ReturnToScan ==
  /\ Reading
  /\ Top.todo = {}
  /\ stack' = <<>>
  /\ result' = "ok"
  /\ UNCHANGED <<treeVars, foundVars, bindVars>>

\* A call has looked at all its entries.
Return ==
  /\ Reading
  /\ Top.todo = {}
  /\ stack' = Front(stack)
  /\ result' = IF Len(stack) = 1 THEN "ok" ELSE result
  /\ UNCHANGED <<treeVars, foundVars, bindVars>>

\* scan_fs: the path of the directory is one of prunepaths.
EnterPruned ==
  /\ Calling
  /\ Top.path = <<>> /\ fault[Top.dir] # "nolink"
  /\ DirPath(PathOf(Top.dir)) \in PrunePaths
  /\ stack' = Front(stack)
  /\ result' = IF Len(stack) = 1 THEN "ok" ELSE result
  /\ UNCHANGED <<treeVars, foundVars, bindVars>>

\* The path of the directory is known and is not one of prunepaths.  With
\* PruneBindMounts the flag is taken; if it was set the call goes on with
\* RebuildList.  A bind mount would make the call and all its callers fail.
EnterAs(path) ==
  /\ Calling
  /\ Top.path = <<>> /\ fault[Top.dir] # "nolink"
  /\ path \notin PrunePaths
  /\ IF PruneBindMounts THEN TakeFlag ELSE UNCHANGED bindVars
  /\ IF PruneBindMounts /\ ~updated /\ path \in BindMountPaths
     THEN stack' = <<>> /\ result' = "failed"
     ELSE /\ stack' = [stack EXCEPT ![Len(stack)].path = path,
                                   ![Len(stack)].todo =
                        IF PruneBindMounts /\ updated THEN {} ELSE EntriesOf(Top.dir)]
          /\ UNCHANGED result
  /\ UNCHANGED <<treeVars, foundVars>>

\* Mutant of Enter: the path is put together from that of the caller.
EnterByName ==
  EnterAs(IF Len(stack) <= 1 THEN PathOf(Root)
          ELSE Append(stack[Len(stack) - 1].path, NameOf[Top.dir]))

\* scan_fs: the path is read and looked up.
Enter == EnterAs(DirPath(PathOf(Top.dir)))

\* readlink fails, and scan_fs asks for the last character of an empty path.
EnterWithoutPath ==
  /\ Calling
  /\ Top.path = <<>> /\ fault[Top.dir] = "nolink"
  /\ result' = "undefined"
  /\ UNCHANGED <<treeVars, stack, foundVars, bindVars>>

\* is_bind_mount has to rebuild the list: one more descriptor for a moment.
RebuildList ==
  /\ Calling
  /\ Len(stack) < FdLimit
  /\ Rebuild
  /\ UNCHANGED <<treeVars, stack, foundVars, result>>

\* mountinfo cannot be opened, and is read from through a null pointer.
RebuildWithoutFile ==
  /\ Calling
  /\ asking = "rebuild"
  /\ Len(stack) = FdLimit
  /\ result' = "crashed"
  /\ UNCHANGED <<treeVars, stack, foundVars, bindVars>>

\* The rebuilt list is asked for the path.
EnterRebuilt ==
  /\ Calling
  /\ AnswerRebuilt
  /\ IF Top.path \in BindMountPaths THEN stack' = <<>> /\ result' = "failed"
     ELSE /\ stack' = [stack EXCEPT ![Len(stack)].todo = EntriesOf(Top.dir)]
          /\ UNCHANGED result
  /\ UNCHANGED <<treeVars, foundVars>>

-----------------------------------------------------------------------------
(* One turn of the loop over the entries *)

\* A regular file with one of the extensions.
FindFile ==
  /\ Reading
  /\ Top.dir \notin Untyped
  /\ \E name \in Top.todo \cap FilesIn[Top.dir] \cap Tracked :
       /\ file_samples' = Sample(file_samples, MaxFileSamples, name)
       /\ found' = Append(found, [name |-> name, path_id |-> StoreString(Top.path)])
       /\ Passed(name)
  /\ paths' = IF Top.path \in Range(paths) THEN paths ELSE Append(paths, Top.path)
  /\ UNCHANGED <<treeVars, path_samples, result, bindVars>>

\* Any other file: without a type it is opened like a directory, in vain.
PassFile ==
  /\ Reading
  /\ \E name \in Top.todo \cap FilesIn[Top.dir] :
       /\ name \notin Tracked \/ Top.dir \in Untyped
       /\ Passed(name)
  /\ UNCHANGED <<treeVars, foundVars, result, bindVars>>

\* Mutant of PassDir: the loop does not go on to the next entry.
PassDirHere ==
  /\ Reading
  /\ \E name \in DirEntries : name \in PruneNames \/ Opened(name) = {}
  /\ UNCHANGED vars

\* The name is one of prunenames, or openat fails, which it also does for a
\* directory that is not there any more.
PassDir ==
  /\ Reading
  /\ \E name \in DirEntries :
       /\ name \in PruneNames \/ Opened(name) = {}
       /\ Passed(name)
  /\ UNCHANGED <<treeVars, foundVars, result, bindVars>>

\* The directory cannot be examined or lies on another device, and its file
\* system type is one of prunefs.  Compared is the path that the caller has
\* read, whatever has been renamed since.
PassExcluded ==
  /\ Reading
  /\ \E name \in DirEntries \ PruneNames : \E c \in Opened(name) :
       /\ fault[c] # "nostream"
       /\ fault[c] = "nostat" \/ (fault[Top.dir] # "nostat" /\ c \in Mounts)
       /\ IsExcluded(Append(Top.path, name))
       /\ Passed(name)
  /\ UNCHANGED <<treeVars, foundVars, result, bindVars>>

\* fstat fails, for the directory or for its parent: the program exits.
GiveUp ==
  /\ Reading
  /\ \E name \in DirEntries \ PruneNames : \E c \in Opened(name) :
       /\ fault[c] # "nostream"
       /\ IF fault[c] = "nostat" THEN ~IsExcluded(Append(Top.path, name))
                                 ELSE fault[Top.dir] = "nostat"
  /\ result' = "exited"
  /\ UNCHANGED <<treeVars, stack, foundVars, bindVars>>

\* The directory is open and has no stream: is_open says yes, and get_stat
\* takes the descriptor of a null pointer.
UseNoStream ==
  /\ Reading
  /\ \E name \in DirEntries \ PruneNames : \E c \in Opened(name) :
       fault[c] = "nostream"
  /\ result' = "crashed"
  /\ UNCHANGED <<treeVars, stack, foundVars, bindVars>>

\* What is left once the entry is opened and examined.
Scannable(name) ==
  {c \in Opened(name) :
     /\ fault[c] \notin {"nostream", "nostat"} /\ fault[Top.dir] # "nostat"
     /\ ~(c \in Mounts /\ IsExcluded(Append(Top.path, name)))}

\* Without a type the entry is not taken for a directory.
PassUntyped ==
  /\ Reading
  /\ Top.dir \in Untyped
  /\ \E name \in DirEntries \ PruneNames :
       /\ Scannable(name) # {}
       /\ Passed(name)
  /\ UNCHANGED <<treeVars, foundVars, result, bindVars>>

\* scan_fs calls itself for the directory.
Descend ==
  /\ Reading
  /\ Top.dir \notin Untyped
  /\ \E name \in DirEntries \ PruneNames : \E c \in Scannable(name) :
       /\ path_samples' = Sample(path_samples, MaxPathSamples, name)
       /\ stack' = Append([stack EXCEPT ![Len(stack)].todo = @ \ {name}], Call(c))
  /\ UNCHANGED <<treeVars, found, paths, file_samples, result, bindVars>>

ScanStep ==
  \/ OpenRoot \/ RootFails \/ EnterPruned \/ Enter \/ EnterWithoutPath \/ Return
  \/ RebuildList \/ RebuildWithoutFile \/ EnterRebuilt
  \/ FindFile \/ PassFile \/ PassDir \/ PassExcluded \/ GiveUp
  \/ UseNoStream \/ PassUntyped \/ Descend

\* Another process renames directory d to one in p, on the same device.  A
\* call that is reading p may see the new entry.
Move ==
  /\ result = "scanning"
  /\ Trouble < MaxTrouble
  /\ \E d \in Dirs \ (Mounts \cup BindMounts \cup {Root}), p \in Dirs :
       LET tree == [parent EXCEPT ![d] = p]
           Reads(k) == stack[k].dir = p /\ stack[k].path # <<>>
       IN  /\ p # parent[d]
           /\ tree \in Trees
           /\ DeviceOf(d) = DeviceOf(p)
           /\ parent' = tree
           /\ moved' = Append(moved, d)
           /\ been' = been \cup {<<c, PathIn(tree, c)>> : c \in Dirs}
           /\ \E sees \in SUBSET {k \in DOMAIN stack : Reads(k)} :
                stack' = [k \in DOMAIN stack |->
                            IF k \in sees
                            THEN [stack[k] EXCEPT !.todo = @ \cup {NameOf[d]}]
                            ELSE stack[k]]
  /\ UNCHANGED <<fault, foundVars, result, bindVars>>

\* Mounts change, and the thread that polls runs, while the scan does.
MountStep ==
  /\ result = "scanning"
  /\ (Trouble < MaxTrouble /\ ChangeMounts) \/ Wake \/ Announce
  /\ UNCHANGED <<treeVars, stack, foundVars, result>>

\* poll fails, and the thread that polls ends the program.
PollFails ==
  /\ result = "scanning"
  /\ poller = "waiting"
  /\ Trouble < MaxTrouble
  /\ result' = "exited"
  /\ UNCHANGED <<treeVars, stack, foundVars, bindVars>>

Done ==
  /\ result \in {"ok", "failed", "exited", "crashed", "undefined"}
  /\ UNCHANGED vars

Next == ScanStep \/ Move \/ MountStep \/ PollFails \/ Done

Spec == Init /\ [][Next]_vars

\* The scan is one thread that runs.
FairSpec == Spec /\ WF_vars(ScanStep)
-----------------------------------------------------------------------------
(* Properties *)

\* Neither the directory nor one above it has been renamed.
Settled(d) == Above(parent, d) \cap Range(moved) = {}

\* The configuration and the file system let the scan reach d.
Reachable(d) ==
  /\ \A a \in Above(parent, d) \ {Root} :
       /\ NameOf[a] \notin PruneNames
       /\ a \notin Excluded
       /\ fault[a] \in {"none", "untyped"}
       /\ parent[a] \notin Untyped
  /\ \A a \in Above(parent, d) : PathOf(a) \notin PrunePaths

\* The path of d fits in the buffer, and is not what a cut path may look like.
Legible(d) ==
  \/ Depth(parent, d) < PathLimit
  \/ Depth(parent, d) = PathLimit /\ NameOf[d] # Cut

\* No excluded file system on the way to d is too deep to be looked up: when a
\* directory has been opened there are as many open as its depth.
Judged(d) ==
  \A a \in (Above(parent, d) \ {Root}) \cap Excluded : Depth(parent, a) < FdLimit

\* The paths at which files were found, one for each file.
FoundAs(name, path) ==
  {i \in DOMAIN found : found[i].name = name /\ GetString(found[i].path_id) = path}

\* The state is well formed: every call holds one of the descriptors left,
\* and no path has two ids (scan_fs, StringCache::store_string).
TypeOK ==
  /\ parent \in Trees
  /\ result \in {"none", "scanning", "ok", "failed", "exited", "crashed", "undefined"}
  /\ Len(stack) <= FdLimit
  /\ \A k \in DOMAIN stack :
       /\ stack[k].dir \in Dirs
       /\ \A d \in DOMAIN stack : d # k => stack[d].dir # stack[k].dir \/ moved # <<>>
  /\ \A i \in DOMAIN found : found[i].path_id \in 0 .. Len(paths) - 1
  /\ \A i, j \in DOMAIN paths : i # j => paths[i] # paths[j]
  /\ Len(file_samples) <= MaxFileSamples /\ Len(path_samples) <= MaxPathSamples

\* A scan that succeeds has found every tracked file of every directory it
\* should reach exactly once, under its path, whatever other directories were
\* renamed meanwhile (FSScanner::scan_fs).  Too deep a directory, for the
\* descriptors or the buffer of the path, is left out of account.
FindsAll ==
  result = "ok" =>
    \A d \in Dirs :
      /\ Settled(d) /\ Reachable(d) /\ d \notin Untyped
      /\ Depth(parent, d) <= FdLimit /\ Legible(d)
      => \A name \in FilesIn[d] \cap Tracked : Cardinality(FoundAs(name, PathOf(d))) = 1

\* No file is found in a directory that the configuration rules out, unless
\* a directory on its way was renamed, or is an excluded file system as deep
\* as the descriptors last: none is left then to read what is mounted, and the
\* scan goes on inside (FSScanner::scan_fs, filesystem_is_excluded).
PrunedStaysOut ==
  \A d \in Dirs : \A name \in FilesIn[d] :
    Settled(d) /\ Legible(d) /\ Judged(d) /\ FoundAs(name, PathOf(d)) # {}
      => Reachable(d) /\ name \in Tracked

\* The path recorded for a file, which the parser opens later, is one the
\* file had during the scan, if the buffer for paths can hold it
\* (DirWrapper::get_dir_path, FSScanner::get_file_info_full_path).
PathsAreReal ==
  \A i \in DOMAIN found :
    \E place \in been :
      /\ GetString(found[i].path_id) = DirPath(place[2])
      /\ found[i].name \in FilesIn[place[1]]

\* With prune_bind_mounts no file is found in a bind mount: the configuration
\* that comes with the program asks for it (FSScanner::scan_fs).
BindMountsStayOut ==
  PruneBindMounts =>
    \A d \in BindMounts : \A name \in FilesIn[d] :
      Settled(d) => FoundAs(name, PathOf(d)) = {}

\* Every scan ends, since directories are not renamed for ever (scan_fs).
ScanEnds == <>(result \notin {"none", "scanning"})
=============================================================================
