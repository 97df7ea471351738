------------------------------ MODULE BindMount ------------------------------
(***************************************************************************)
(* BindMount: the thread that polls mountinfo, and the flag by which it    *)
(* tells the scan that the list of bind mounts has to be rebuilt.          *)
(*                                                                         *)
(* The kernel counts the changes of the mount table; the open mountinfo    *)
(* remembers the last one that poll has told about, and poll returns when  *)
(* there is another.  The scan takes the flag away before it rebuilds,     *)
(* while the table may change again at any moment.  FileScan extends this  *)
(* module: the scan asks for the path of each directory it enters.         *)
(***************************************************************************)
EXTENDS Naturals

VARIABLES
  mounts,   \* changes of the mount table since BindMount opened mountinfo
  told,     \* how many of them poll has told the thread about
  poller,   \* "waiting" in poll, "woken" by it, or "none": there is no thread
  updated,  \* _mountinfo_updated
  asking,   \* is_bind_mount: "none", or it has to "rebuild", or has "rebuilt"
  seen      \* the changes there were when a rebuild last opened mountinfo

bindVars == <<mounts, told, poller, updated, asking, seen>>

\* init_bind_mount: without mountinfo there is no thread.  The rebuild that
\* the constructor makes comes before the scan.
BindMountInit ==
  /\ mounts = 0
  /\ told = 0
  /\ poller \in {"waiting", "none"}
  /\ updated = FALSE
  /\ asking = "none"
  /\ seen = 0

\* Somebody mounts or unmounts a file system.
ChangeMounts ==
  /\ mounts' = mounts + 1
  /\ UNCHANGED <<told, poller, updated, asking, seen>>

\* poll returns POLLPRI, once for all changes so far.
Wake ==
  /\ poller = "waiting"
  /\ told < mounts
  /\ told' = mounts
  /\ poller' = "woken"
  /\ UNCHANGED <<mounts, updated, asking, seen>>

\* The thread sets the flag and polls again.
Announce ==
  /\ poller = "woken"
  /\ updated' = TRUE
  /\ poller' = "waiting"
  /\ UNCHANGED <<mounts, told, asking, seen>>

\* is_bind_mount begins: _mountinfo_updated.exchange(false).
TakeFlag ==
  /\ asking = "none"
  /\ asking' = IF updated THEN "rebuild" ELSE "none"
  /\ updated' = FALSE
  /\ UNCHANGED <<mounts, told, poller, seen>>

\* rebuild_bind_mount_paths opens mountinfo, and returns without having read
\* a line because it could: see BindMountPaths.
Rebuild ==
  /\ asking = "rebuild"
  /\ seen' = mounts
  /\ asking' = "rebuilt"
  /\ UNCHANGED <<mounts, told, poller, updated>>

\* The list BindMount keeps: read_mount_entries returns nothing whenever it
\* could open mountinfo, so no rebuild ever puts a path into the list.
BindMountPaths == {}

\* Mutant of AnswerRebuilt: the flag is cleared when the rebuild is done.
AnswerRebuiltClearing ==
  /\ asking = "rebuilt"
  /\ asking' = "none"
  /\ updated' = FALSE
  /\ UNCHANGED <<mounts, told, poller, seen>>

\* The index is set back, and the path looked up.
AnswerRebuilt ==
  /\ asking = "rebuilt"
  /\ asking' = "none"
  /\ UNCHANGED <<mounts, told, poller, updated, seen>>

\* A change of the mounts that no rebuild has seen is never forgotten: poll
\* has not told of it yet, the thread is about to set the flag, the flag is
\* set, or a rebuild is about to open mountinfo (BindMount::init_bind_mount,
\* is_bind_mount).
NoChangeIsMissed ==
  \/ poller = "none" \/ seen = mounts
  \/ told < mounts \/ poller = "woken" \/ updated \/ asking = "rebuild"
=============================================================================
