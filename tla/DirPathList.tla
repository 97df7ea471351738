----------------------------- MODULE DirPathList -----------------------------
(***************************************************************************)
(* Lists of directory paths: their order, sorting one, and looking paths   *)
(* up with an index that moves along (FSHelper).  A path is a sequence of  *)
(* character codes.  What FSHelper says of file names is in FileNames.     *)
(***************************************************************************)
EXTENDS FileNames, FiniteSets

CONSTANTS
  Paths,      \* the paths that occur
  Slash,      \* the code of '/'
  MaxList     \* bound on the length of a list

ASSUME PathsAssumption ==
  Paths \subseteq Seq(Nat) /\ Slash \in Nat /\ MaxList \in Nat

VARIABLES
  list,     \* the list of paths
  sorted,   \* string_list_dir_path_sort has been called
  idx,      \* the moving index into the sorted list
  asked,    \* the path looked up last, <<>> before the first one
  answer    \* and what was answered

listVars == <<list, sorted, idx, asked, answer>>
pathVars == <<listVars, nameVars>>

\* The first place at which two paths differ, at most one past the shorter.
Mismatch(p, q) ==
  CHOOSE k \in 1 .. Len(p) + 1 :
    /\ \A l \in 1 .. k - 1 : l <= Len(q) /\ p[l] = q[l]
    /\ k = Len(p) + 1 \/ k > Len(q) \/ p[k] # q[k]

\* Mutants of Cmp: characters compared by their codes alone, and a path that
\* ends first taken for equal.
CmpCodes(p, q) ==
  LET k == Mismatch(p, q) IN
  CASE k > Len(p) /\ k > Len(q) -> 0
    [] k > Len(p) /\ k <= Len(q) -> -1
    [] k <= Len(p) /\ k > Len(q) -> 1
    [] OTHER -> p[k] - q[k]

CmpPrefix(p, q) ==
  LET k == Mismatch(p, q) IN
  CASE k > Len(p) -> 0
    [] k <= Len(p) /\ k > Len(q) -> 1
    [] OTHER -> IF p[k] = Slash THEN -1 ELSE IF q[k] = Slash THEN 1 ELSE p[k] - q[k]

\* dir_path_cmp: '/' comes before all other characters.
Cmp(p, q) ==
  LET k == Mismatch(p, q) IN
  CASE k > Len(p) /\ k > Len(q) -> 0
    [] k > Len(p) /\ k <= Len(q) -> -1
    [] k <= Len(p) /\ k > Len(q) -> 1
    [] OTHER -> IF p[k] = Slash THEN -1 ELSE IF q[k] = Slash THEN 1 ELSE p[k] - q[k]

\* Where a search from index i stops: at the first path equal to p, or at
\* the end of the list.
StopAt(i, p) ==
  CHOOSE k \in i .. Len(list) :
    /\ k = Len(list) \/ Cmp(list[k + 1], p) = 0
    /\ \A l \in i .. k - 1 : Cmp(list[l + 1], p) # 0

-----------------------------------------------------------------------------
PathInit ==
  /\ list \in UNION {[1 .. n -> Paths] : n \in 0 .. MaxList}
  /\ sorted = FALSE
  /\ idx = 0
  /\ asked = <<>>
  /\ answer = FALSE
  /\ filename = <<>>
  /\ tracked = FALSE

\* string_list_dir_path_sort: std::ranges::sort with dir_path_cmp.
Sort ==
  /\ ~sorted
  /\ list' \in {[i \in DOMAIN list |-> list[perm[i]]] :
                  perm \in {f \in [DOMAIN list -> DOMAIN list] : IsInjective(f)}}
  /\ \A i \in 1 .. Len(list) - 1 : Cmp(list'[i + 1], list'[i]) >= 0
  /\ sorted' = TRUE
  /\ idx' = 0
  /\ asked' = <<>>
  /\ answer' = FALSE

\* The scan looks a path up in prunepaths from the beginning, in the order
\* of the configuration.
AskPrunePaths ==
  /\ ~sorted
  /\ \E path \in Paths :
       /\ asked' = path
       /\ answer' = (StopAt(0, path) < Len(list))
  /\ UNCHANGED <<list, sorted, idx>>

\* string_list_contains_dir_path, called with increasing paths.
ContainsDirPath ==
  /\ sorted
  /\ \E path \in Paths :
       LET stop == StopAt(idx, path)
       IN  /\ asked = <<>> \/ Cmp(asked, path) < 0
           /\ asked' = path
           /\ answer' = (stop < Len(list))
           /\ idx' = IF stop < Len(list) THEN stop + 1 ELSE stop
  /\ UNCHANGED <<list, sorted>>

\* is_bind_mount, when the mounts have changed: the list is sorted again and
\* the index starts over, for a new walk over the directories.
Rewind ==
  /\ sorted
  /\ idx' = 0
  /\ asked' = <<>>
  /\ answer' = FALSE
  /\ UNCHANGED <<list, sorted>>

\* A file name is asked about while there is no list: neither answer depends
\* on the other.
NameStep ==
  /\ list = <<>> /\ ~sorted /\ asked = <<>> /\ filename = <<>>
  /\ AskExtensions
  /\ UNCHANGED listVars

ListStep ==
  /\ Sort \/ AskPrunePaths \/ ContainsDirPath \/ Rewind
  /\ filename' = <<>> /\ tracked' = FALSE

PathNext == ListStep \/ NameStep

PathSpec == PathInit /\ [][PathNext]_pathVars

-----------------------------------------------------------------------------
(* Properties *)

Under(p, dir) == Len(p) > Len(dir) /\ SubSeq(p, 1, Len(dir)) = dir /\ p[Len(dir) + 1] = Slash

\* In a sorted list whatever stands between a directory and a path under it
\* is under that directory too (dir_path_cmp, string_list_dir_path_sort).
SubtreesTogether ==
  sorted =>
    \A i, k \in DOMAIN list :
      i < k /\ Under(list[k], list[i]) =>
        \A j \in i + 1 .. k : list[j] = list[i] \/ Under(list[j], list[i])

\* A path is pruned if and only if it is in prunepaths, in whatever order
\* the configuration has them (string_list_contains_dir_path).
PrunePathIsExact ==
  ~sorted /\ asked # <<>> => (answer <=> asked \in Range(list))
=============================================================================
