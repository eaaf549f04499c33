------------------------------ MODULE AuditLog ------------------------------
(***************************************************************************)
(* audit.rs: events go through a bounded channel to one writer task, which *)
(* rotates its file by size and reports events the channel refused.  The   *)
(* slow-query gate of a connection caps one kind of event per window.      *)
(*                                                                         *)
(* An event is its number and its length; a report of refused events has   *)
(* no number and the count of them.  Any file operation of the writer may  *)
(* fail, and it ignores the error: what it then loses is in the histories. *)
(***************************************************************************)
EXTENDS Naturals, Sequences

CONSTANTS
  EventLens,     \* lengths of an event's line
  ReportLen,     \* length of a report of refused events
  ChannelCap,    \* events the channel holds
  MaxBytes,      \* size at which the file is rotated
  KeepFiles,     \* rotated files that are kept; the code treats 0 as 1
  FsyncEvery,    \* events between syncs; 0 never syncs
  SlowCap,       \* slow-query events per window
  SlowWindow,    \* length of that window
  MaxEvents, MaxSlow, MaxFaults  \* bounds of the instance

ASSUME AuditAssumption ==
  /\ {ReportLen, ChannelCap, MaxBytes, FsyncEvery, SlowCap, SlowWindow} \subseteq Nat
  /\ EventLens \subseteq Nat /\ KeepFiles \in Nat \ {0}

VARIABLES
  channel, dropped,
  file,        \* 0 is the file being written, i > 0 the one with suffix i
  handle,      \* the file FileState::w writes to; KeepFiles + 1 if it was removed
  size,        \* FileState::written
  torn,        \* that file ends in a text without its end of line
  sinceSync, unsynced,    \* events since the last counted sync; written and not synced
  writer,      \* "running", "draining", "closing" or "ended"
  lines,       \* history: every line written, with its number
  reported, unreported,   \* history: refused events in reports written, and in failed ones
  refused, accepted,      \* history: events the channel did not take; those it took
  lost, late,  \* history: accepted events whose write failed; left in the closed channel
  behind,      \* history: lines that waited when the last sync failed, until one works
  sent, faults,
  gate, slowTime, slowDrops, warned   \* the gate; history of its drops and warnings

auditVars == <<channel, dropped, file, handle, size, torn, sinceSync, unsynced, writer, lines,
               reported, unreported, refused, accepted, lost, late, behind, sent, faults>>
gateVars == <<gate, slowTime, slowDrops, warned>>

InitAudit ==
  /\ channel = <<>> /\ dropped = 0 /\ writer = "running"
  /\ file = [i \in 0..KeepFiles |-> <<>>] /\ handle = 0 /\ size = 0 /\ torn = FALSE
  /\ sinceSync = 0 /\ unsynced = 0 /\ behind = 0
  /\ lines = <<>> /\ reported = 0 /\ unreported = 0 /\ refused = 0 /\ accepted = {}
  /\ lost = {} /\ late = {} /\ sent = 0 /\ faults = 0

writerVars == <<file, handle, size, torn, sinceSync, unsynced, lines, reported, unreported, lost, behind>>

IdsOf(seq) == { seq[i].id : i \in DOMAIN seq }

\* AuditSink::send: never waits; a full or closed channel counts the event.
Send(len) ==
  /\ sent < MaxEvents
  /\ sent' = sent + 1
  /\ IF Len(channel) < ChannelCap /\ writer # "ended"
     THEN /\ channel' = Append(channel, [id |-> sent + 1, len |-> len, count |-> 0])
          /\ accepted' = accepted \cup {sent + 1}
          /\ UNCHANGED <<dropped, refused>>
     ELSE dropped' = dropped + 1 /\ refused' = refused + 1 /\ UNCHANGED <<channel, accepted>>
  /\ UNCHANGED <<writerVars, writer, late, faults>>

-----------------------------------------------------------------------------
(* The writer.  w is what one event after another changes, o how the file   *)
(* operations of one event end: the sync and the removal of rotate, how far *)
(* its renames and the reopening get, the write, and the sync that is due.  *)

Writer == [file |-> file, handle |-> handle, size |-> size, torn |-> torn, since |-> sinceSync,
           unsynced |-> unsynced, lines |-> lines, reported |-> reported,
           unreported |-> unreported, lost |-> lost, behind |-> behind]

Outcomes == [flush : BOOLEAN, remove : BOOLEAN, steps : 0..(KeepFiles + 1),
             write : {"ok", "lost", "torn"}, sync : BOOLEAN]
Smooth == [flush |-> TRUE, remove |-> TRUE, steps |-> KeepFiles + 1, write |-> "ok", sync |-> TRUE]
Fault(o) == IF o = Smooth THEN 0 ELSE 1

\* Mutant: the renames go from the newest file to the oldest.
Rotate_Ascending(w, o) ==
  [w EXCEPT !.file = [i \in 0..KeepFiles |-> IF i = 0 THEN <<>> ELSE w.file[0]],
            !.size = 0, !.unsynced = 0]

\* The files that rotate has renamed after so many steps, the oldest first.
Moved(steps) == { i \in 0..(KeepFiles - 1) : KeepFiles - 1 - i < steps }

Exists(w, i) == w.file[i] # <<>> \/ i = w.handle

\* Removal of the last file and the renames.
Shift(w, o) ==
  [i \in 0..KeepFiles |->
     IF i - 1 \in Moved(o.steps) /\ Exists(w, i - 1) THEN w.file[i - 1]
     ELSE IF i \in Moved(o.steps) \/ (i = KeepFiles /\ o.remove) THEN <<>> ELSE w.file[i]]

\* rotate: sync, remove the last file, rename the others from the oldest to the
\* newest, open a new one.  The first error but that of the removal ends it; if
\* the new file cannot be opened, the handle stays on the one that was renamed.
Rotate(w, o) ==
  IF ~o.flush THEN w
  ELSE LET reopened == o.steps > KeepFiles
           shifted == IF w.handle \in Moved(o.steps) \/ (w.handle = KeepFiles /\ o.remove)
                      THEN w.handle + 1 ELSE w.handle
       IN [w EXCEPT !.file = Shift(w, o), !.handle = IF reopened THEN 0 ELSE shifted,
                    !.size = IF reopened THEN 0 ELSE @, !.torn = ~reopened /\ @,
                    !.unsynced = 0, !.behind = 0]

\* The line and its end are in the file, if that still has a name.
Written(w, e) ==
  LET line == [no |-> Len(w.lines) + 1, id |-> e.id, count |-> e.count, whole |-> ~w.torn]
  IN [w EXCEPT !.file = [i \in 0..KeepFiles |-> IF i = w.handle THEN Append(w.file[i], line) ELSE w.file[i]],
               !.size = @ + e.len, !.torn = FALSE, !.since = @ + 1, !.unsynced = @ + 1,
               !.lines = Append(@, line), !.reported = @ + e.count]

\* A write failed: nothing counts the event, and what was written of its text
\* will be in front of the next line.
NotWritten(w, e, o) ==
  [w EXCEPT !.torn = @ \/ o.write = "torn", !.unreported = @ + e.count,
            !.lost = IF e.id = 0 THEN @ ELSE @ \cup {e.id}]

\* flush_and_sync at its due time: the count starts again even if it fails.
SyncDue(w, o) ==
  IF FsyncEvery = 0 \/ w.since < FsyncEvery THEN w
  ELSE IF o.sync THEN [w EXCEPT !.since = 0, !.unsynced = 0, !.behind = 0]
  ELSE [w EXCEPT !.since = 0, !.behind = w.unsynced]

\* handle_one: rotate when the line would not fit, append, sync when due.
HandleOne(w, e, o) ==
  LET r == IF w.size + e.len > MaxBytes THEN Rotate(w, o) ELSE w
  IN IF o.write = "ok" THEN SyncDue(Written(r, e), o) ELSE NotWritten(r, e, o)

SetWriter(w) ==
  /\ file' = w.file /\ handle' = w.handle /\ size' = w.size /\ torn' = w.torn
  /\ sinceSync' = w.since /\ unsynced' = w.unsynced /\ lines' = w.lines
  /\ reported' = w.reported /\ unreported' = w.unreported
  /\ lost' = w.lost /\ behind' = w.behind

Report(n) == [id |-> 0, len |-> ReportLen, count |-> n]

\* The loop of file_writer_task: one event, then the report of what was refused,
\* whose count is taken whether or not the report can be written.
WriteNext(o, r) ==
  LET one == HandleOne(Writer, Head(channel), o)
  IN /\ writer = "running" /\ channel # <<>>
     /\ dropped = 0 => r = Smooth
     /\ faults + Fault(o) + Fault(r) <= MaxFaults
     /\ faults' = faults + Fault(o) + Fault(r)
     /\ channel' = Tail(channel) /\ dropped' = 0
     /\ SetWriter(IF dropped = 0 THEN one ELSE HandleOne(one, Report(dropped), r))
     /\ UNCHANGED <<writer, refused, accepted, late, sent>>

\* The shutdown is seen: what is still queued is written, without a report.
StopWriter ==
  /\ writer = "running"
  /\ writer' = "draining"
  /\ UNCHANGED <<writerVars, channel, dropped, refused, accepted, late, sent, faults>>

DrainNext(o) ==
  /\ writer = "draining" /\ channel # <<>>
  /\ faults + Fault(o) <= MaxFaults
  /\ faults' = faults + Fault(o)
  /\ channel' = Tail(channel)
  /\ SetWriter(HandleOne(Writer, Head(channel), o))
  /\ UNCHANGED <<writer, dropped, refused, accepted, late, sent>>

\* The last try_recv found nothing, and the file is synced.
SyncLast(ok) ==
  /\ writer = "draining" /\ channel = <<>>
  /\ writer' = "closing"
  /\ ok \/ faults < MaxFaults
  /\ faults' = IF ok THEN faults ELSE faults + 1
  /\ unsynced' = IF ok THEN 0 ELSE unsynced
  /\ behind' = IF ok THEN 0 ELSE behind
  /\ UNCHANGED <<channel, dropped, file, handle, size, torn, sinceSync, lines, reported, unreported,
                 refused, accepted, lost, late, sent>>

\* The task ends and the receiver is dropped, with what was sent since.
EndWriter ==
  /\ writer = "closing"
  /\ writer' = "ended"
  /\ late' = IdsOf(channel)
  /\ channel' = <<>>
  /\ UNCHANGED <<writerVars, dropped, refused, accepted, sent, faults>>

NextAudit ==
  \/ \E len \in EventLens : Send(len)
  \/ \E o \in Outcomes, r \in (IF dropped = 0 THEN {Smooth} ELSE Outcomes) : WriteNext(o, r)
  \/ StopWriter
  \/ \E o \in Outcomes : DrainNext(o)
  \/ \E ok \in BOOLEAN : SyncLast(ok)
  \/ EndWriter

-----------------------------------------------------------------------------
(* The slow-query gate, polled and asked with the start of the statement.  *)

InitGate ==
  /\ gate = [start |-> 0, open |-> FALSE, count |-> 0, drops |-> 0]
  /\ slowTime = 0 /\ slowDrops = 0 /\ warned = 0

\* closed_window_drops
Closed(g) == g.open /\ slowTime - g.start >= SlowWindow /\ g.drops > 0

\* allow: within the window a count, else a new window.
Allow(g) ==
  IF g.open /\ slowTime - g.start < SlowWindow
  THEN IF g.count < SlowCap THEN [g EXCEPT !.count = @ + 1] ELSE [g EXCEPT !.drops = @ + 1]
  ELSE [start |-> slowTime, open |-> TRUE, count |-> 1, drops |-> 0]

\* A slow statement: drain_slow_query_drops, then emit_query_pair.
SlowQuery ==
  LET polled == IF Closed(gate) THEN [gate EXCEPT !.drops = 0] ELSE gate
  IN /\ slowDrops < MaxSlow
     /\ gate' = IF SlowCap = 0 THEN polled ELSE Allow(polled)
     /\ warned' = IF Closed(gate) THEN warned + gate.drops ELSE warned
     /\ slowDrops' = IF gate'.drops > polled.drops THEN slowDrops + 1 ELSE slowDrops
     /\ UNCHANGED slowTime

SlowTick ==
  /\ slowTime < 3 * SlowWindow
  /\ slowTime' = slowTime + 1
  /\ UNCHANGED <<gate, slowDrops, warned>>

NextGate == SlowQuery \/ SlowTick

NextLog ==
  \/ NextAudit /\ UNCHANGED gateVars
  \/ NextGate /\ UNCHANGED auditVars

SpecAudit == InitAudit /\ InitGate /\ [][NextLog]_<<auditVars, gateVars>>

-----------------------------------------------------------------------------
\* Each event the channel refused is still counted for the next report, or in
\* one report, and that was written or its write failed.
LossesAreCounted ==
  refused = dropped + reported + unreported

\* Each event the channel took is in one place: still queued, in a line of the
\* log, lost by a write that failed, or left in a channel that the writer closed
\* (sent after its last look).
AcceptedAreKept ==
  LET queued == IdsOf(channel)
      logged == IdsOf(lines) \ {0}
  IN /\ accepted = queued \cup logged \cup lost \cup late
     /\ queued \cap (logged \cup lost \cup late) = {}
     /\ logged \cap (lost \cup late) = {} /\ lost \cap late = {}

\* Only a write that failed damages a line, and it is the line after it.
DamageIsLoss ==
  (lost = {} /\ unreported = 0) => \A n \in DOMAIN lines : lines[n].whole

\* "Losses are never silent": what the comment promises of a writer that has
\* ended.  Refuted: the drain at shutdown writes no report, and events sent
\* after it are counted for nobody.
LossesAreReported == writer = "ended" => dropped = 0

\* The same promise for the events the channel took.  Refuted: the write of an
\* event or of a report fails and nothing counts it, and an event sent between
\* the last look and the end of the task is in no file and no count.
NothingIsLostSilently == lost = {} /\ unreported = 0 /\ late = {}

\* The files, from the oldest to the newest, hold a line for each number up to
\* the last one written, in their order.
HoldNewest(files, written) ==
  \A i \in 0..KeepFiles : \A k \in DOMAIN files[i] :
    /\ files[i][k].no \in DOMAIN written /\ files[i][k] = written[files[i][k].no]
    /\ \A j \in 0..KeepFiles : \A m \in DOMAIN files[j] :
         i > j \/ (i = j /\ k < m) => files[i][k].no < files[j][m].no
    /\ \A n \in files[i][k].no..Len(written) :
         \E j \in 0..KeepFiles : \E m \in DOMAIN files[j] : files[j][m].no = n

\* Reports have no number of their own.
EventsInOrder(written) ==
  \A i, j \in DOMAIN written :
    i < j /\ written[i].id > 0 /\ written[j].id > 0 => written[i].id < written[j].id

\* The files hold the newest lines in order, whatever renames and reopenings
\* failed, and accepted events are written in the order they were accepted.
RotationKeepsNewest == HoldNewest(file, lines) /\ EventsInOrder(lines)

\* Beyond the lines that a failed sync left waiting, and until one works again,
\* fewer than FsyncEvery lines ever wait for a sync.
SyncIsTimely == FsyncEvery > 0 => unsynced < behind + FsyncEvery

\* Each slow-query event the gate dropped is warned about once, or waits in
\* the window it was dropped in.
SlowDropsAreWarned == slowDrops = warned + gate.drops

\* No audit event disappears unaccounted, whatever file operations fail: it is
\* refused and counted, dropped by the gate and warned about, or written in
\* order, synced in time and kept by rotations; and where a failed write or the
\* end of the writer loses one, it loses that one and no other.
EventsAreAccounted ==
  /\ LossesAreCounted /\ AcceptedAreKept /\ DamageIsLoss
  /\ RotationKeepsNewest /\ SyncIsTimely /\ SlowDropsAreWarned

=============================================================================
