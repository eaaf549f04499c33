----------------------------- MODULE StartUp -----------------------------
(***************************************************************************)
(* Starting and stopping on one data directory (startup.rs, migration/     *)
(* layout.rs, system_lock.rs): the version marker, the exclusive lock over *)
(* system/, the bootstrap of the first administrator, serving, and the     *)
(* shutdown that flushes the database, or fails to and logs it, before it  *)
(* gives the lock back.  A server and the offline `admin users` command    *)
(* may start at the same time, and any process may die between two steps.  *)
(***************************************************************************)
EXTENDS Naturals, FiniteSets

CONSTANTS Servers, Tools, NoProcess, MaxCrashes

ASSUME NoProcessAssumption == NoProcess \notin Servers \cup Tools

VARIABLES marker,     \* .ermya-version: "absent", "empty", "current", "old" or "new"
          system,     \* the system/ directory exists
          lockHolder, \* who holds the flock on system/system.lock
          legacy,     \* system/ was there before any process started
          admins,     \* the nodes of the bootstrapped administrator
          unflushed,  \* the database has changes only its log knows
          unclean,    \* history: something since the last flush went wrong
          at,         \* where each process stands
          crashes

startVars == <<marker, system, lockHolder, legacy, admins, unflushed, unclean, at, crashes>>

Processes == Servers \cup Tools

\* An empty directory, one a server has used, one of an older or newer
\* layout, or one of a version that had no marker.
Directories ==
  {[marker |-> "absent", system |-> FALSE]} \cup
  [marker : {"absent", "current", "old", "new"}, system : {TRUE}]

InitStart(dir) ==
  /\ marker = dir.marker
  /\ system = dir.system
  /\ legacy = system
  /\ lockHolder = NoProcess
  /\ admins = IF system THEN 1 ELSE 0
  /\ unflushed = FALSE /\ unclean = FALSE
  /\ at = [p \in Processes |-> "off"]
  /\ crashes = 0

Move(p, from, to) == at[p] = from /\ at' = [at EXCEPT ![p] = to]

\* ensure_data_dir_prepared and the two absence checks of build_runtime.
CheckFresh(p) ==
  /\ p \in Servers
  /\ Move(p, "off", IF marker = "absent" /\ ~system THEN "stamp" ELSE "layout")
  /\ UNCHANGED <<marker, system, lockHolder, legacy, admins, unflushed, unclean, crashes>>

\* write_if_missing: create_new, and an existing marker is left untouched.
CreateMarker(p) ==
  /\ IF marker = "absent"
     THEN Move(p, "stamp", "write") /\ marker' = "empty"
     ELSE Move(p, "stamp", "layout") /\ UNCHANGED marker
  /\ UNCHANGED <<system, lockHolder, legacy, admins, unflushed, unclean, crashes>>

\* write_all and sync_all of the marker created one step earlier.
WriteMarker(p) ==
  /\ Move(p, "write", "layout")
  /\ marker' = "current"
  /\ UNCHANGED <<system, lockHolder, legacy, admins, unflushed, unclean, crashes>>

\* read_or_reject: only the current layout passes; an absent, older, newer or
\* unreadable marker ends the start.
ReadOrReject(p) ==
  /\ Move(p, "layout", IF marker = "current" THEN "open" ELSE "off")
  /\ UNCHANGED <<marker, system, lockHolder, legacy, admins, unflushed, unclean, crashes>>

\* open_system_graph: create system/, then acquire_exclusive, which does not
\* wait: another holder ends the start.
AcquireExclusive(p) ==
  /\ IF lockHolder = NoProcess
     THEN Move(p, "open", "load") /\ lockHolder' = p
     ELSE Move(p, "open", "off") /\ UNCHANGED lockHolder
  /\ system' = TRUE
  /\ UNCHANGED <<marker, legacy, admins, unflushed, unclean, crashes>>

\* open_locked_store of the command line: it creates system/ and takes the
\* lock, and never looks at the marker.
ToolStarts(p) ==
  /\ p \in Tools
  /\ system' = TRUE
  /\ IF lockHolder = NoProcess
     THEN Move(p, "off", "edit") /\ lockHolder' = p
     ELSE at[p] = "off" /\ UNCHANGED <<at, lockHolder>>
  /\ UNCHANGED <<marker, legacy, admins, unflushed, unclean, crashes>>

\* `admin users add admin`, which an existing user refuses.
ToolAdds(p) ==
  /\ at[p] = "edit" /\ admins = 0
  /\ admins' = 1
  /\ UNCHANGED <<marker, system, lockHolder, legacy, unflushed, unclean, at, crashes>>

\* Graph::open of the system graph: the number of administrators it read.
LoadUsers(p) ==
  /\ Move(p, "load", IF admins = 0 THEN "bootstrap" ELSE "serve")
  /\ UNCHANGED <<marker, system, lockHolder, legacy, admins, unflushed, unclean, crashes>>

\* bootstrap_admin_if_empty, and the registry opens the database.
Bootstrap(p) ==
  /\ Move(p, "bootstrap", "serve")
  /\ admins' = admins + 1
  /\ UNCHANGED <<marker, system, lockHolder, legacy, unflushed, unclean, crashes>>

\* A client's change, in the log and not in the files.
ServeWrite(p) ==
  /\ at[p] = "serve"
  /\ unflushed' = TRUE
  /\ UNCHANGED <<marker, system, lockHolder, legacy, admins, unclean, at, crashes>>

\* serve_with waits five seconds for the connections and then abandons them:
\* one in the middle of a statement goes on until the process has ended.
LateWrite(p) ==
  /\ at[p] \in {"unlock", "leave"}
  /\ unflushed' = TRUE /\ unclean' = TRUE
  /\ UNCHANGED <<marker, system, lockHolder, legacy, admins, at, crashes>>

\* Mutant: the lock is given back before the database is flushed.
CloseAll_UnlockFirst(p) ==
  /\ Move(p, "serve", "unlock")
  /\ lockHolder' = NoProcess
  /\ UNCHANGED <<marker, system, legacy, admins, unflushed, unclean, crashes>>

\* The listener has ended: close_all flushes the registry's graph.  A flush
\* that fails or panics is logged and the shutdown goes on.
CloseAll(p) ==
  /\ Move(p, "serve", "unlock")
  /\ \/ unflushed' = FALSE /\ unclean' = FALSE
     \/ unclean' = TRUE /\ UNCHANGED unflushed
  /\ UNCHANGED <<marker, system, lockHolder, legacy, admins, crashes>>

\* drop(system_lock), or the end of the offline command.
Unlock(p) ==
  /\ \/ Move(p, "unlock", "leave")
     \/ Move(p, "edit", "off")
  /\ lockHolder' = IF lockHolder = p THEN NoProcess ELSE lockHolder
  /\ UNCHANGED <<marker, system, legacy, admins, unflushed, unclean, crashes>>

\* The process ends when no statement is running any more.
EndProcess(p) ==
  /\ Move(p, "leave", "off")
  /\ UNCHANGED <<marker, system, lockHolder, legacy, admins, unflushed, unclean, crashes>>

\* The process dies; the operating system gives its flock back.
Die(p) ==
  /\ at[p] # "off" /\ crashes < MaxCrashes
  /\ at' = [at EXCEPT ![p] = "off"]
  /\ lockHolder' = IF lockHolder = p THEN NoProcess ELSE lockHolder
  /\ crashes' = crashes + 1 /\ unclean' = TRUE
  /\ UNCHANGED <<marker, system, legacy, admins, unflushed>>

ServerStep(p) ==
  \/ CheckFresh(p) \/ CreateMarker(p) \/ WriteMarker(p) \/ ReadOrReject(p)
  \/ AcquireExclusive(p) \/ LoadUsers(p) \/ Bootstrap(p) \/ ServeWrite(p) \/ CloseAll(p)
  \/ LateWrite(p) \/ EndProcess(p)

NextStart ==
  \E p \in Processes : ServerStep(p) \/ ToolStarts(p) \/ ToolAdds(p) \/ Unlock(p) \/ Die(p)

SpecStart == (\E dir \in Directories : InitStart(dir)) /\ [][NextStart]_startVars

--------------------------------------------------------------------------
\* "two server processes can never share identity state" (system_lock.rs):
\* one process at a time between opening the system graph and flushing the
\* database, so that no two first starts create the administrator twice.
OneProcessInside ==
  /\ Cardinality({p \in Processes : at[p] \in {"load", "bootstrap", "serve", "edit"}}) <= 1
  /\ admins <= 1

\* "A populated v0.4 dir keeps tripping the guard" (startup.rs): nothing is
\* served from, or stamped on, a directory of another layout.
ForeignLayoutUntouched ==
  [][(legacy /\ marker # "current") =>
       /\ marker' = marker
       /\ \A p \in Servers : at'[p] \notin {"load", "bootstrap", "serve"}]_startVars

\* A clean stop leaves nothing behind that only the log holds, whatever went
\* wrong before it: the lock is free over an unflushed database only if, since
\* the last flush that worked, a process died, close_all failed, or a statement
\* outlived the drain of the listener.
UnlockedIsFlushed ==
  (lockHolder = NoProcess /\ unflushed) => unclean

\* "the checkpoint is not optional" (single.rs), without those exceptions.
\* Refuted: a failed flush is only logged, and an abandoned statement writes
\* after it, so that the next opening has a log to replay.
StopIsFlushed ==
  (lockHolder = NoProcess /\ unflushed) => crashes > 0

\* What a statement that outlived the drain may do.  Refuted: it may write when
\* the lock is free again and another process holds it.
WritesHoldTheLock ==
  [][\A p \in Processes : LateWrite(p) => lockHolder = p]_startVars

\* A directory no other version has used can be started on, which the code
\* does not give: dying between the creation of the marker and its content
\* leaves an empty file that every later start refuses, and an `admin users`
\* command before the first start leaves system/ without a marker.
FirstStartCanRepeat ==
  (~legacy /\ \A p \in Processes : at[p] = "off") =>
    marker = "current" \/ (marker = "absent" /\ ~system)

\* However starts, stops and crashes of servers and tools interleave: one
\* process inside, a directory of another layout untouched, and the lock given
\* back over a flushed database but for the failures that unclean records.
StartIsSafe ==
  /\ [](OneProcessInside /\ UnlockedIsFlushed)
  /\ ForeignLayoutUntouched

==========================================================================
