-------------------------- MODULE BackgroundDirSync --------------------------
(***************************************************************************)
(* The directory syncer of a task (ext/background_dirsync.py): a process    *)
(* that copies new and newer files from src to dst every freq seconds or on *)
(* a flush, the thread that flushes when the command creates the watch      *)
(* file, and the caller, which flushes, waits and shuts down.  They talk    *)
(* through four events: flush, done, shutdown and log_shutdown.             *)
(*                                                                          *)
(* A file's content and its times are a version: the clock of the write     *)
(* that made it.  The command writes and deletes files until the caller     *)
(* starts the shutdown, which it does when the command is over.             *)
(***************************************************************************)
EXTENDS Integers, FiniteSets

CONSTANTS
  Files,          \* names of files the command may write
  PreExisting,    \* those that are on dst before the start
  Excluded,       \* those that _skip() leaves alone
  DeleteChoices,  \* values of delete_after_copy
  RemoveChoices,  \* values of remove_if_not_in_source
  MaxWrites,      \* bound: writes and deletions by the command
  MaxFlushes,     \* bound: flushes asked for, by either way
  MaxFaults       \* bound: copies that fail

ASSUME SyncAssumption ==
  /\ PreExisting \subseteq Files /\ Excluded \subseteq Files /\ IsFiniteSet(Files)
  /\ DeleteChoices \subseteq BOOLEAN /\ RemoveChoices \subseteq BOOLEAN
  /\ {MaxWrites, MaxFlushes, MaxFaults} \subseteq Nat

Absent == -1
Partial == -2

VARIABLES
  delete, remove,  \* delete_after_copy, remove_if_not_in_source
  src, dst,        \* src[f]: version; dst[f]: data and time stamp
  scanned, spared, \* pre_existing_files_on_dst, once scanned
  phase,           \* where the sync process is
  listed,          \* files of the walk still to be looked at
  copying,         \* copying[f]: how far the copy of f is
  doomed,          \* files on dst about to be removed
  failed,          \* this pass has raised
  flush, done, shutdown, logShutdown,   \* the events
  watch,           \* the watch file exists
  listener,        \* the flush listener thread
  main,            \* the caller
  last,            \* last[f]: what the command last made of f (history)
  tied,            \* files last written within a millisecond of their stamp on dst
  marred,          \* files whose last copy was overtaken or broke off (history)
  overlooked,      \* the final flush came when it had been looked at (history)
  used             \* [writes, flushes, faults] so far

tree   == <<src, dst, last, tied, marred>>
pass   == <<scanned, spared, phase, listed, copying, doomed, failed, overlooked>>
events == <<flush, done, shutdown, logShutdown>>
vars   == <<delete, remove, tree, pass, events, watch, listener, main, used>>

Version == Partial..MaxWrites

FlagsTypeOK ==
  /\ delete \in BOOLEAN /\ remove \in BOOLEAN /\ scanned \in BOOLEAN /\ failed \in BOOLEAN
  /\ flush \in BOOLEAN /\ done \in BOOLEAN /\ shutdown \in BOOLEAN /\ logShutdown \in BOOLEAN
  /\ watch \in BOOLEAN /\ overlooked \in BOOLEAN

TreeTypeOK ==
  /\ src \in [Files -> Version] /\ dst \in [Files -> [data: Version, stamp: Version]]
  /\ last \in [Files -> Version] /\ tied \subseteq Files /\ marred \subseteq Files

PassTypeOK ==
  /\ spared \subseteq Files /\ listed \subseteq Files /\ doomed \subseteq Files
  /\ phase \in {"wait", "copy", "remove", "notify", "decide", "quiet", "exited"}
  /\ copying \in [Files -> {"no", "queued", "data", "stat"}]

CallersTypeOK ==
  /\ listener \in {"poll", "cleared", "await", "woken", "stopped"}
  /\ main \in {"running", "cleared", "await", "woken", "final", "join", "joinThreads", "over"}
  /\ used \in [writes: 0..MaxWrites, flushes: 0..MaxFlushes, faults: 0..MaxFaults]

TypeOK == FlagsTypeOK /\ TreeTypeOK /\ PassTypeOK /\ CallersTypeOK

Init ==
  /\ delete \in DeleteChoices /\ remove \in RemoveChoices
  /\ src = [f \in Files |-> Absent] /\ last = src
  /\ dst = [f \in Files |-> IF f \in PreExisting THEN [data |-> 0, stamp |-> 0]
                            ELSE [data |-> Absent, stamp |-> Absent]]
  /\ scanned = FALSE /\ spared = {} /\ phase = "wait"
  /\ listed = {} /\ doomed = {} /\ failed = FALSE
  /\ copying = [f \in Files |-> "no"] /\ tied = {} /\ marred = {} /\ overlooked = FALSE
  /\ flush = FALSE /\ done = FALSE /\ shutdown = FALSE /\ logShutdown = FALSE
  /\ watch = FALSE /\ listener = "poll" /\ main = "running"
  /\ used = [writes |-> 0, flushes |-> 0, faults |-> 0]

(* The time, by the writes so far.                                          *)
Now == used.writes
CountWrite == used' = [used EXCEPT !.writes = @ + 1]
CountFlush == used' = [used EXCEPT !.flushes = @ + 1]
CountFault == used' = [used EXCEPT !.faults = @ + 1]

(***************************************************************************)
(* The command.  It overtakes a copy that has read the file; and a write    *)
(* may fall within a millisecond of the time stamp that dst has.            *)
(***************************************************************************)
CommandRuns == main \in {"running", "cleared", "await", "woken"}
Overtaken(f) == IF copying[f] \in {"data", "stat"} THEN marred \cup {f} ELSE marred

Write(f) ==
  /\ CommandRuns /\ used.writes < MaxWrites
  /\ CountWrite
  /\ src' = [src EXCEPT ![f] = Now + 1] /\ last' = [last EXCEPT ![f] = Now + 1]
  /\ marred' = Overtaken(f)
  /\ \/ tied' = tied \ {f}
     \/ dst[f].data # Absent /\ tied' = tied \cup {f}
  /\ UNCHANGED <<delete, remove, dst, pass, events, watch, listener, main>>

Unlink(f) ==
  /\ CommandRuns /\ used.writes < MaxWrites /\ src[f] # Absent
  /\ CountWrite
  /\ src' = [src EXCEPT ![f] = Absent] /\ last' = [last EXCEPT ![f] = Absent]
  /\ marred' = Overtaken(f) /\ tied' = tied \ {f}
  /\ UNCHANGED <<delete, remove, dst, pass, events, watch, listener, main>>

TouchWatchFile ==
  /\ CommandRuns /\ ~watch /\ used.flushes < MaxFlushes
  /\ CountFlush
  /\ watch' = TRUE
  /\ UNCHANGED <<delete, remove, tree, pass, events, listener, main>>

(***************************************************************************)
(* Syncer.sync in the loop of _run.                                         *)
(***************************************************************************)
Sync == UNCHANGED <<delete, remove, shutdown, logShutdown, watch>>

(* The walk: what _skip lets through.                                       *)
Walked == {f \in Files \ Excluded : src[f] # Absent}

(* The wait ends with a flush or after freq seconds.  The first pass notes  *)
(* what is on dst; the walk lists src.                                      *)
PassBegins_ForgetsScan ==   \* mutant: nothing is noted as pre-existing
  /\ phase = "wait"
  /\ phase' = "copy" /\ flush' = FALSE
  /\ scanned' = TRUE /\ spared' = {}
  /\ listed' = Walked
  /\ UNCHANGED <<tree, copying, doomed, failed, overlooked, done, listener, main, used>>
  /\ Sync

PassBegins ==
  /\ phase = "wait"
  /\ phase' = "copy" /\ flush' = FALSE
  /\ scanned' = TRUE
  /\ spared' = IF scanned THEN spared ELSE {f \in Files : dst[f].data # Absent}
  /\ listed' = Walked
  /\ UNCHANGED <<tree, copying, doomed, failed, overlooked, done, listener, main, used>>
  /\ Sync

(* Newer by a millisecond at least: the difference is cut to whole ones.    *)
NeedsUpdate(f) == src[f] > dst[f].stamp /\ f \notin tied

(* A file that has vanished since the walk listed it: the comparison of     *)
(* times raises and ends the walk; a copy of it raises in its thread.       *)
Examine(f) ==
  /\ phase = "copy" /\ f \in listed
  /\ IF src[f] = Absent /\ dst[f].data # Absent
     THEN failed' = TRUE /\ listed' = {} /\ UNCHANGED copying
     ELSE /\ listed' = listed \ {f}
          /\ copying' = IF dst[f].data = Absent \/ NeedsUpdate(f)
                        THEN [copying EXCEPT ![f] = "queued"] ELSE copying
          /\ UNCHANGED failed
  /\ UNCHANGED <<tree, scanned, spared, phase, doomed, overlooked, flush, done, listener, main,
                 used>>
  /\ Sync

CopyStep(f, to, d) ==
  /\ copying' = [copying EXCEPT ![f] = to]
  /\ dst' = [dst EXCEPT ![f] = d]
  /\ UNCHANGED <<last, scanned, spared, phase, listed, doomed, overlooked, flush, done, listener,
                 main>>
  /\ Sync

CopyFile_ClockAhead(f) ==   \* mutant: stamped ahead of the time
  /\ copying[f] = "queued" /\ src[f] # Absent
  /\ CopyStep(f, "data", [data |-> src[f], stamp |-> Now + 1])
  /\ UNCHANGED <<src, tied, marred, failed, used>>

(* copyfile: the content, stamped with the time of the copy.                *)
CopyFile(f) ==
  /\ copying[f] = "queued"
  /\ IF src[f] # Absent
     THEN /\ CopyStep(f, "data", [data |-> src[f], stamp |-> Now])
          /\ tied' = tied \ {f} /\ marred' = marred \ {f}
          /\ UNCHANGED failed
     ELSE CopyStep(f, "no", dst[f]) /\ failed' = TRUE /\ UNCHANGED <<tied, marred>>
  /\ UNCHANGED <<src, used>>

(* copystat: the times of the source as they are now.                       *)
CopyStat(f) ==
  /\ copying[f] = "data"
  /\ IF src[f] # Absent
     THEN /\ CopyStep(f, IF delete THEN "stat" ELSE "no", [dst[f] EXCEPT !.stamp = src[f]])
          /\ tied' = tied \ {f}
          /\ UNCHANGED failed
     ELSE CopyStep(f, "no", dst[f]) /\ failed' = TRUE /\ UNCHANGED tied
  /\ UNCHANGED <<src, marred, used>>

(* delete_after_copy: whatever is at the source by now.                     *)
DeleteSource(f) ==
  /\ copying[f] = "stat"
  /\ failed' = (failed \/ src[f] = Absent)
  /\ src' = [src EXCEPT ![f] = Absent]
  /\ CopyStep(f, "no", dst[f])
  /\ UNCHANGED <<tied, marred, used>>

(* A copy fails before it starts, or leaves a part, stamped later than the  *)
(* source.                                                                  *)
CopyFails(f) ==
  /\ copying[f] = "queued" /\ used.faults < MaxFaults
  /\ CountFault
  /\ failed' = TRUE
  /\ \/ CopyStep(f, "no", dst[f]) /\ UNCHANGED marred
     \/ CopyStep(f, "no", [data |-> Partial, stamp |-> Now]) /\ marred' = marred \cup {f}
  /\ UNCHANGED <<src, tied>>

Copied == listed = {} /\ \A f \in Files : copying[f] = "no"

(* All copies are through.  Unless one raised, the files that are on dst    *)
(* only are removed.                                                        *)
CopyingEnds ==
  /\ phase = "copy" /\ Copied
  /\ phase' = IF failed \/ delete \/ ~remove THEN "notify" ELSE "remove"
  /\ doomed' = IF failed \/ delete \/ ~remove THEN {}
               ELSE {f \in Files \ (Excluded \cup spared) : dst[f].data # Absent /\ src[f] = Absent}
  /\ UNCHANGED <<tree, scanned, spared, listed, copying, failed, overlooked, flush, done,
                 listener, main, used>>
  /\ Sync

Remove(f) ==
  /\ phase = "remove" /\ f \in doomed
  /\ doomed' = doomed \ {f}
  /\ dst' = [dst EXCEPT ![f] = [data |-> Absent, stamp |-> Absent]]
  /\ UNCHANGED <<src, last, tied, marred, scanned, spared, phase, listed, copying, failed,
                 overlooked, flush, done, listener, main, used>>
  /\ Sync

RemovingEnds ==
  /\ phase = "remove" /\ doomed = {}
  /\ phase' = "notify"
  /\ UNCHANGED <<tree, scanned, spared, listed, copying, doomed, failed, overlooked, flush, done,
                 listener, main, used>>
  /\ Sync

(* done is set, also after a pass that raised; that wakes every waiter,     *)
(* even if the event is cleared again before it runs.                       *)
PassNotified ==
  /\ phase = "notify"
  /\ phase' = "decide"
  /\ done' = TRUE
  /\ listener' = IF listener = "await" THEN "woken" ELSE listener
  /\ main' = IF main = "await" THEN "woken" ELSE main
  /\ UNCHANGED <<tree, scanned, spared, listed, copying, doomed, failed, overlooked, flush, used>>
  /\ Sync

(* Is there another flush to serve; then, and not at the same time, has     *)
(* shutdown been asked for.  The caller's last two settings may both fall   *)
(* between the two.                                                         *)
Decides == UNCHANGED <<tree, scanned, spared, listed, copying, doomed, flush, done, listener, main,
                       used>>

FlushLookedAt_Ignored ==   \* mutant: the flush that came meanwhile is not looked at
  /\ phase = "decide"
  /\ phase' = "quiet"
  /\ UNCHANGED <<failed, overlooked>> /\ Decides /\ Sync

FlushLookedAt ==
  /\ phase = "decide"
  /\ phase' = IF flush THEN "wait" ELSE "quiet"
  /\ failed' = (failed /\ ~flush)
  /\ UNCHANGED overlooked /\ Decides /\ Sync

ShutdownLookedAt ==
  /\ phase = "quiet"
  /\ phase' = IF shutdown THEN "exited" ELSE "wait"
  /\ failed' = (failed /\ shutdown)
  /\ overlooked' = (overlooked /\ shutdown)
  /\ Decides /\ Sync

(***************************************************************************)
(* The flush listener and the caller.                                       *)
(***************************************************************************)
Elsewhere == UNCHANGED <<delete, remove, tree, scanned, spared, phase, listed, copying, doomed,
                         failed>>
Threads == Elsewhere /\ UNCHANGED overlooked

(* Every second: the watch file is there.                                   *)
WatchFileSeen ==
  /\ listener = "poll" /\ ~logShutdown /\ watch
  /\ listener' = "cleared" /\ done' = FALSE
  /\ UNCHANGED <<flush, shutdown, logShutdown, watch, main, used>> /\ Threads

ListenerFlushes ==
  /\ listener = "cleared"
  /\ flush' = TRUE
  /\ listener' = IF done THEN "woken" ELSE "await"
  /\ UNCHANGED <<done, shutdown, logShutdown, watch, main, used>> /\ Threads

WatchFileDeleted ==
  /\ listener = "woken"
  /\ listener' = "poll" /\ watch' = FALSE
  /\ UNCHANGED <<events, main, used>> /\ Threads

ListenerStops ==
  /\ listener = "poll" /\ logShutdown
  /\ listener' = "stopped"
  /\ UNCHANGED <<events, watch, main, used>> /\ Threads

FlushCalled ==
  /\ main = "running" /\ used.flushes < MaxFlushes
  /\ CountFlush
  /\ main' = "cleared" /\ done' = FALSE
  /\ UNCHANGED <<flush, shutdown, logShutdown, watch, listener>> /\ Threads

FlushWaits ==
  /\ main = "cleared"
  /\ flush' = TRUE
  /\ main' = IF done THEN "woken" ELSE "await"
  /\ UNCHANGED <<done, shutdown, logShutdown, watch, listener, used>> /\ Threads

FlushReturns ==
  /\ main = "woken"
  /\ main' = "running"
  /\ UNCHANGED <<events, watch, listener, used>> /\ Threads

(* shutdown(): one final flush, then the events, each followed by a join.   *)
FinalFlush ==
  /\ main = "running"
  /\ main' = "final" /\ flush' = TRUE
  /\ overlooked' = (phase = "quiet")
  /\ UNCHANGED <<done, shutdown, logShutdown, watch, listener, used>> /\ Elsewhere

ShutdownSet ==
  /\ main = "final"
  /\ main' = "join" /\ shutdown' = TRUE
  /\ UNCHANGED <<flush, done, logShutdown, watch, listener, used>> /\ Threads

ProcessJoined_NoLogShutdown ==   \* mutant: the threads are not told
  /\ main = "join" /\ phase = "exited"
  /\ main' = "joinThreads"
  /\ UNCHANGED <<events, watch, listener, used>> /\ Threads

ProcessJoined ==
  /\ main = "join" /\ phase = "exited"
  /\ main' = "joinThreads" /\ logShutdown' = TRUE
  /\ UNCHANGED <<flush, done, shutdown, watch, listener, used>> /\ Threads

ThreadsJoined ==
  /\ main = "joinThreads" /\ listener = "stopped"
  /\ main' = "over"
  /\ UNCHANGED <<events, watch, listener, used>> /\ Threads

SyncNext ==
  \/ PassBegins \/ CopyingEnds \/ RemovingEnds \/ PassNotified
  \/ FlushLookedAt \/ ShutdownLookedAt
  \/ \E f \in Files : Examine(f) \/ CopyFile(f) \/ CopyStat(f) \/ DeleteSource(f) \/ Remove(f)

ListenerNext == WatchFileSeen \/ ListenerFlushes \/ WatchFileDeleted \/ ListenerStops

ShutdownNext == ShutdownSet \/ ProcessJoined \/ ThreadsJoined

Next ==
  \/ SyncNext \/ ListenerNext \/ ShutdownNext
  \/ FlushCalled \/ FlushWaits \/ FlushReturns \/ FinalFlush \/ TouchWatchFile
  \/ \E f \in Files : Write(f) \/ Unlink(f) \/ CopyFails(f)

Spec == Init /\ [][Next]_vars

(* The process and the threads keep running, and a pass is short: an        *)
(* exhausted wait starts one, and its copies end.                           *)
Fairness ==
  WF_vars(SyncNext) /\ WF_vars(ListenerNext) /\ WF_vars(ShutdownNext)

FairSpec == Spec /\ Fairness

(***************************************************************************)
(* Properties.                                                              *)
(***************************************************************************)
(* What the command last wrote is on dst, except for files written while    *)
(* they were copied or whose copy broke off (they carry a stamp that no     *)
(* later pass looks behind) and for those last written within a millisecond *)
(* of their stamp on dst; and, where removal is on, what it deleted is not. *)
DstIsSrc ==
  \A f \in Files \ (Excluded \cup marred \cup tied) :
    /\ last[f] # Absent => dst[f].data = last[f]
    /\ last[f] = Absent /\ src[f] = Absent /\ f \notin PreExisting /\ remove /\ ~delete
         => dst[f].data = Absent

(* When shutdown() has returned and the last pass did not raise, dst holds  *)
(* what the command last wrote, whatever passes failed before, unless both  *)
(* settings of shutdown() fell between the two looks at the events.         *)
CleanShutdownSynced == main = "over" /\ ~failed /\ ~overlooked => DstIsSrc

(* A file that was on dst before the syncer started is overwritten at most, *)
(* never removed, however late the first pass is.                           *)
PreExistingSpared == \A f \in PreExisting : dst[f].data # Absent

(* shutdown() returns, unless the flush listener clears done when the       *)
(* process has decided to exit: then both wait for ever.                    *)
Stranded == phase = "exited" /\ listener \in {"cleared", "await"} /\ ~done

ShutdownReturns == (main = "final") ~> (main = "over" \/ Stranded)
==============================================================================
