----------------------- MODULE BackgroundDirSyncProofs -----------------------
(***************************************************************************)
(* Theorems about BackgroundDirSync, for any files and bounds: its types,   *)
(* that files which were on dst before are spared, and that a clean         *)
(* shutdown leaves dst as src was.                                          *)
(***************************************************************************)
EXTENDS BackgroundDirSync, TLAPS

(* The command is over: shutdown() has asked for the final flush.           *)
Stopped == main \in {"final", "join", "joinThreads", "over"}

(* Which part of a pass works on what, and what the joins wait for.         *)
Control ==
  /\ shutdown => main \in {"join", "joinThreads", "over"}
  /\ phase = "exited" => Stopped
  /\ main \in {"joinThreads", "over"} => phase = "exited"
  /\ phase # "copy" => Copied
  /\ phase # "remove" => doomed = {}
  /\ doomed # {} => remove /\ ~delete
  /\ \A f \in Files : copying[f] = "stat" => delete

(* The first pass notes exactly the files that were there before.           *)
Noted ==
  /\ scanned => spared = PreExisting
  /\ ~scanned => /\ phase = "wait" /\ spared = {}
                 /\ \A f \in Files : dst[f].data # Absent => f \in PreExisting
  /\ doomed \cap PreExisting = {}
  /\ PreExistingSpared

(* A file is at src as the command left it, or was moved to dst; and a time *)
(* stamp on dst that is not older than src stands for the same content,     *)
(* unless the file was overtaken.                                           *)
TruthfulAt(f) ==
  /\ src[f] \in {last[f], Absent} /\ (~delete => src[f] = last[f])
  /\ src[f] <= Now /\ dst[f].stamp <= Now
  /\ f \notin marred =>
       /\ src[f] # last[f] => dst[f].data = last[f]
       /\ src[f] # Absent /\ dst[f].data # Absent /\ src[f] <= dst[f].stamp => dst[f].data = src[f]
       /\ copying[f] \in {"data", "stat"} => src[f] = last[f] /\ dst[f].data = last[f]

Truthful == \A f \in Files : TruthfulAt(f)

(* A pass that began after the command was over, with no flush since until  *)
(* the process looked for one.                                              *)
LastPass ==
  Stopped /\ phase # "wait" /\ ~overlooked /\ (~flush \/ phase \in {"quiet", "exited"})

(* In it every file is current or about to become so, if nothing fails.     *)
Copying(f) == f \in listed \/ copying[f] # "no"

Current(f) == last[f] # Absent => dst[f].data = last[f]

Cleared(f) == src[f] = Absent => dst[f].data = Absent \/ f \in doomed

Removing == phase \in {"remove", "notify", "decide", "quiet", "exited"} /\ remove /\ ~delete

Synced ==
  LastPass /\ ~failed =>
    \A f \in Files \ Excluded :
      /\ f \in marred \cup tied \/ Copying(f) \/ Current(f)
      /\ f \in doomed => last[f] = Absent
      /\ Removing /\ f \notin PreExisting => Cleared(f)

IInv == TypeOK /\ Control /\ Noted /\ Truthful /\ Synced

------------------------------------------------------------------------------
(* Steps by what they leave alone *)

FileStep(f) == CopyFile(f) \/ CopyStat(f) \/ DeleteSource(f) \/ CopyFails(f)
CommandStep(f) == Write(f) \/ Unlink(f)
PassStep ==
  \/ PassBegins \/ CopyingEnds \/ RemovingEnds \/ PassNotified \/ FlushLookedAt
  \/ ShutdownLookedAt
ThreadStep ==
  \/ ListenerNext \/ ShutdownNext \/ FlushCalled \/ FlushWaits \/ FlushReturns \/ FinalFlush
  \/ TouchWatchFile

LEMMA StepKinds ==
  ASSUME Next
  PROVE  \/ PassStep \/ ThreadStep
         \/ \E f \in Files : FileStep(f) \/ CommandStep(f) \/ Examine(f) \/ Remove(f)
BY DEF Next, SyncNext, FileStep, CommandStep, PassStep, ThreadStep

(* What the caller, the listener and the watch file do to the events.       *)
LEMMA ThreadEffect ==
  ASSUME ThreadStep
  PROVE  /\ Elsewhere
         /\ used' = used \/ CountFlush
         /\ flush => flush'
         /\ shutdown' => shutdown \/ main' = "join"
         /\ Stopped => Stopped'
         /\ Stopped => overlooked' = overlooked
         /\ Stopped' => Stopped \/ (flush' /\ overlooked' = (phase = "quiet"))
         /\ overlooked' \in {overlooked, phase = "quiet"}
         /\ main' \in {"joinThreads", "over"} => main \in {"joinThreads", "over"} \/ phase = "exited"
         /\ main \in {"join", "joinThreads", "over"} => main' \in {"join", "joinThreads", "over"}
<1> USE DEF Stopped
<1>1. CASE ListenerNext
  BY <1>1 DEF ListenerNext, WatchFileSeen, ListenerFlushes, WatchFileDeleted, ListenerStops,
              Threads, Elsewhere, events, tree
<1>2. CASE ShutdownSet
  BY <1>2 DEF ShutdownSet, Threads, Elsewhere, tree, pass
<1>3. CASE ProcessJoined
  BY <1>3 DEF ProcessJoined, Threads, Elsewhere, tree, pass
<1>4. CASE ThreadsJoined
  BY <1>4 DEF ThreadsJoined, Threads, Elsewhere, events, tree, pass
<1>5. CASE FlushCalled \/ FlushWaits \/ FlushReturns \/ FinalFlush
  BY <1>5 DEF FlushCalled, FlushWaits, FlushReturns, FinalFlush, Threads, Elsewhere, events, tree, pass
<1>6. CASE TouchWatchFile
  BY <1>6 DEF TouchWatchFile, Elsewhere, events, tree, pass
<1> QED BY <1>1, <1>2, <1>3, <1>4, <1>5, <1>6 DEF ThreadStep, ShutdownNext

LEMMA Bounds ==
  /\ MaxWrites \in Nat /\ MaxFlushes \in Nat /\ MaxFaults \in Nat
  /\ Absent \in Version /\ Partial \in Version /\ 0 \in Version
  /\ 0..MaxWrites \subseteq Version
BY SyncAssumption DEF Absent, Partial, Version

LEMMA FlagsTypeStep == ASSUME TypeOK, Next PROVE FlagsTypeOK'
<1> USE DEF TypeOK, FlagsTypeOK
<1>1. ASSUME NEW f \in Files, CommandStep(f) PROVE FlagsTypeOK'
  BY <1>1 DEF CommandStep, Write, Unlink, pass, events
<1>2. ASSUME NEW f \in Files, FileStep(f) PROVE FlagsTypeOK'
  <2>1. failed' \in BOOLEAN
    BY <1>2 DEF FileStep, CopyFile, CopyStat, DeleteSource, CopyFails
  <2>2. UNCHANGED <<delete, remove, scanned, overlooked, flush, done, shutdown, logShutdown, watch>>
    BY <1>2 DEF FileStep, CopyFile, CopyStat, DeleteSource, CopyFails, CopyStep, Sync
  <2> QED BY <2>1, <2>2
<1>3. ASSUME NEW f \in Files, Examine(f) \/ Remove(f) PROVE FlagsTypeOK'
  BY <1>3 DEF Examine, Remove, Sync
<1>4. CASE PassStep
  <2>1. failed' \in BOOLEAN /\ overlooked' \in BOOLEAN
    BY <1>4 DEF PassStep, PassBegins, CopyingEnds, RemovingEnds, PassNotified, FlushLookedAt,
     ShutdownLookedAt, Decides
  <2>2. scanned' \in BOOLEAN /\ flush' \in BOOLEAN /\ done' \in BOOLEAN
    BY <1>4 DEF PassStep, PassBegins, CopyingEnds, RemovingEnds, PassNotified, FlushLookedAt,
     ShutdownLookedAt, Decides
  <2>3. UNCHANGED <<delete, remove, shutdown, logShutdown, watch>>
    BY <1>4 DEF PassStep, PassBegins, CopyingEnds, RemovingEnds, PassNotified, FlushLookedAt,
     ShutdownLookedAt, Decides, Sync
  <2> QED BY <2>1, <2>2, <2>3
<1>5. CASE ListenerNext
  BY <1>5 DEF ListenerNext, WatchFileSeen, ListenerFlushes, WatchFileDeleted, ListenerStops,
              Threads, Elsewhere, events
<1>6. CASE ShutdownNext
  BY <1>6 DEF ShutdownNext, ShutdownSet, ProcessJoined, ThreadsJoined, Threads, Elsewhere, events
<1>7. CASE FlushCalled \/ FlushWaits \/ FlushReturns \/ FinalFlush \/ TouchWatchFile
  <2>1. UNCHANGED <<delete, remove, scanned, failed, shutdown, logShutdown>>
    BY <1>7 DEF FlushCalled, FlushWaits, FlushReturns, FinalFlush, TouchWatchFile, Threads,
                Elsewhere, events, pass
  <2>2. flush' \in BOOLEAN /\ done' \in BOOLEAN /\ watch' \in BOOLEAN
    BY <1>7 DEF FlushCalled, FlushWaits, FlushReturns, FinalFlush, TouchWatchFile, events
  <2>3. overlooked' \in BOOLEAN
    BY <1>7 DEF FlushCalled, FlushWaits, FlushReturns, FinalFlush, TouchWatchFile, Threads, pass
  <2> QED BY <2>1, <2>2, <2>3
<1> QED BY <1>1, <1>2, <1>3, <1>4, <1>5, <1>6, <1>7, StepKinds DEF ThreadStep

LEMMA TreeTypeStep == ASSUME TypeOK, Next PROVE TreeTypeOK'
<1>1. TreeTypeOK /\ Now \in Version /\ (Now < MaxWrites => Now + 1 \in Version)
  BY Bounds DEF TypeOK, CallersTypeOK, Now, Version
<1> USE DEF TreeTypeOK
<1>2. ASSUME NEW f \in Files, CommandStep(f) PROVE TreeTypeOK'
  BY <1>1, <1>2, Bounds DEF CommandStep, Write, Unlink, Overtaken, Now
<1>3. ASSUME NEW f \in Files, NEW d \in [data: Version, stamp: Version],
             dst' = [dst EXCEPT ![f] = d]
      PROVE  dst' \in [Files -> [data: Version, stamp: Version]]
  BY <1>1, <1>3
<1>4. ASSUME NEW f \in Files, FileStep(f) \/ Remove(f) PROVE TreeTypeOK'
  <2>1. \E d \in [data: Version, stamp: Version] : dst' = [dst EXCEPT ![f] = d]
    BY <1>1, <1>4, Bounds DEF FileStep, CopyFile, CopyStat, DeleteSource, CopyFails, CopyStep, Remove
  <2>2. src' \in [Files -> Version] /\ last' = last /\ marred' \subseteq Files /\ tied' \subseteq Files
    BY <1>1, <1>4, Bounds DEF FileStep, CopyFile, CopyStat, DeleteSource, CopyFails, CopyStep, Remove
  <2> QED BY <1>1, <1>3, <2>1, <2>2
<1>5. CASE PassStep \/ ThreadStep \/ \E f \in Files : Examine(f)
  <2>1. UNCHANGED tree
    BY <1>5, ThreadEffect DEF Elsewhere, Decides, PassStep, PassBegins, CopyingEnds, RemovingEnds, PassNotified,
       FlushLookedAt, ShutdownLookedAt, Examine
  <2> QED BY <1>1, <2>1 DEF tree
<1> QED BY <1>2, <1>4, <1>5, StepKinds

LEMMA PassTypeStep == ASSUME TypeOK, Next PROVE PassTypeOK'
<1> USE DEF PassTypeOK, TypeOK
<1>1. ASSUME NEW f \in Files, CommandStep(f) \/ ThreadStep PROVE PassTypeOK'
  BY <1>1, ThreadEffect DEF Elsewhere, CommandStep, Write, Unlink, pass
<1>2. ASSUME NEW f \in Files, FileStep(f) PROVE PassTypeOK'
  BY <1>2 DEF FileStep, CopyFile, CopyStat, DeleteSource, CopyFails, CopyStep, Sync
<1>3. ASSUME NEW f \in Files, Examine(f) \/ Remove(f) PROVE PassTypeOK'
  BY <1>3 DEF Examine, Remove
<1>4. CASE PassStep
  BY <1>4 DEF PassStep, PassBegins, Walked, CopyingEnds, RemovingEnds, PassNotified, FlushLookedAt,
     ShutdownLookedAt, Decides
<1>5. CASE ThreadStep
  BY <1>5, ThreadEffect DEF Elsewhere, pass
<1> QED BY <1>1, <1>2, <1>3, <1>4, <1>5, StepKinds

LEMMA CallersTypeStep == ASSUME TypeOK, Next PROVE CallersTypeOK'
<1> USE Bounds DEF CallersTypeOK, TypeOK
<1>1. ASSUME NEW f \in Files, CommandStep(f) PROVE CallersTypeOK'
  BY <1>1 DEF CommandStep, Write, Unlink, CountWrite
<1>2. ASSUME NEW f \in Files, FileStep(f) PROVE CallersTypeOK'
  BY <1>2 DEF FileStep, CopyFile, CopyStat, DeleteSource, CopyFails, CopyStep, CountFault
<1>3. ASSUME NEW f \in Files, Examine(f) \/ Remove(f) PROVE CallersTypeOK'
  BY <1>3 DEF Examine, Remove
<1>4. CASE PassStep
  BY <1>4 DEF PassStep, PassBegins, CopyingEnds, RemovingEnds, PassNotified, FlushLookedAt,
     ShutdownLookedAt, Decides
<1>5. CASE ThreadStep
  BY <1>5 DEF ThreadStep, ListenerNext, ShutdownNext, FlushCalled, FlushWaits, FlushReturns,
       FinalFlush, TouchWatchFile, WatchFileSeen, ListenerFlushes, WatchFileDeleted,
       ListenerStops, ShutdownSet, ProcessJoined, ThreadsJoined, CountFlush
<1> QED BY <1>1, <1>2, <1>3, <1>4, <1>5, StepKinds

LEMMA TypeStep == ASSUME TypeOK, Next PROVE TypeOK'
BY FlagsTypeStep, TreeTypeStep, PassTypeStep, CallersTypeStep DEF TypeOK

LEMMA ControlStep == ASSUME TypeOK, Control, Next PROVE Control'
<1> USE DEF Control, Copied, Stopped
<1>1. ASSUME NEW f \in Files, CommandStep(f) PROVE Control'
  BY <1>1 DEF CommandStep, Write, Unlink, CommandRuns, pass, events
<1>2. ASSUME NEW f \in Files, FileStep(f) PROVE Control'
  BY <1>2 DEF FileStep, CopyFile, CopyStat, DeleteSource, CopyFails, CopyStep, Sync, TypeOK, PassTypeOK
<1>3. ASSUME NEW f \in Files, Examine(f) \/ Remove(f) PROVE Control'
  BY <1>3 DEF Examine, Remove, Sync, TypeOK, PassTypeOK
<1>4. CASE PassStep
  BY <1>4 DEF PassStep, PassBegins, CopyingEnds, RemovingEnds, PassNotified, FlushLookedAt,
     ShutdownLookedAt, Decides, Sync, TypeOK, PassTypeOK
<1>5. CASE ThreadStep
  BY <1>5, ThreadEffect DEF Elsewhere, pass
<1> QED BY <1>1, <1>2, <1>3, <1>4, <1>5, StepKinds

LEMMA NotedStep == ASSUME TypeOK, Control, Noted, Next PROVE Noted'
<1> USE DEF Noted, PreExistingSpared
<1>1. ASSUME NEW f \in Files, CommandStep(f) PROVE Noted'
  BY <1>1 DEF CommandStep, Write, Unlink, pass
<1>2. ASSUME NEW f \in Files, FileStep(f) PROVE Noted'
  <2>1. UNCHANGED <<scanned, spared, phase, doomed>>
    BY <1>2 DEF FileStep, CopyFile, CopyStat, DeleteSource, CopyFails, CopyStep
  <2>2. phase = "copy"
    BY <1>2 DEF FileStep, CopyFile, CopyStat, DeleteSource, CopyFails, Control, Copied
  <2>3. \A g \in Files : dst[g].data # Absent => dst'[g].data # Absent
    BY <1>2, SyncAssumption DEF FileStep, CopyFile, CopyStat, DeleteSource, CopyFails, CopyStep,
       TypeOK, TreeTypeOK, Absent, Partial
  <2> QED BY <2>1, <2>2, <2>3, SyncAssumption
<1>3. ASSUME NEW f \in Files, Examine(f) PROVE Noted'
  BY <1>3 DEF Examine, tree
<1>4. ASSUME NEW f \in Files, Remove(f) PROVE Noted'
  BY <1>4, SyncAssumption DEF Remove, TypeOK, TreeTypeOK
<1>5. CASE PassStep
  BY <1>5, SyncAssumption DEF PassStep, PassBegins, CopyingEnds, RemovingEnds, PassNotified,
     FlushLookedAt, ShutdownLookedAt, Decides, tree
<1>6. CASE ThreadStep
  BY <1>6, ThreadEffect DEF Elsewhere, pass, tree
<1> QED BY <1>1, <1>2, <1>3, <1>4, <1>5, <1>6, StepKinds

LEMMA TruthfulStep == ASSUME TypeOK, Control, Truthful, Next PROVE Truthful'
<1> SUFFICES ASSUME NEW g \in Files PROVE TruthfulAt(g)'
  BY DEF Truthful
<1>1. /\ src[g] \in Int /\ last[g] \in Int /\ dst[g].data \in Int /\ dst[g].stamp \in Int
      /\ Now \in Nat /\ TruthfulAt(g)
  BY Bounds DEF TypeOK, TreeTypeOK, CallersTypeOK, Now, Version, Truthful
<1>2. CASE UNCHANGED <<delete, src[g], last[g], dst[g], copying[g]>> /\ Now' \in {Now, Now + 1}
           /\ (g \in marred => g \in marred')
  BY <1>1, <1>2 DEF TruthfulAt, NeedsUpdate
<1>3. ASSUME NEW f \in Files, CommandStep(f) PROVE TruthfulAt(g)'
  <2>1. /\ Now' = Now + 1 /\ UNCHANGED <<delete, dst, copying>> /\ marred \subseteq marred'
        /\ g # f => UNCHANGED <<src[g], last[g]>>
    BY <1>3 DEF CommandStep, Write, Unlink, Overtaken, CountWrite, pass, Now, TypeOK, TreeTypeOK,
                CallersTypeOK
  <2>2. CASE g = f
    <3>1. /\ src'[g] = last'[g] /\ src'[g] \in {Absent, Now + 1}
          /\ copying[g] \in {"data", "stat"} => g \in marred'
      BY <1>3, <2>2 DEF CommandStep, Write, Unlink, Overtaken, TypeOK, TreeTypeOK
    <3> QED BY <1>1, <2>1, <3>1 DEF TruthfulAt, NeedsUpdate, Absent
  <2> QED BY <1>2, <2>1, <2>2
<1>4. ASSUME NEW f \in Files, FileStep(f) \/ Remove(f) PROVE TruthfulAt(g)'
  <2>1. /\ UNCHANGED <<delete, last>> /\ Now' = Now
        /\ g # f => UNCHANGED <<src[g], dst[g], copying[g]>> /\ (g \in marred => g \in marred')
    BY <1>4 DEF FileStep, CopyFile, CopyStat, DeleteSource, CopyFails, Remove, CopyStep, Sync,
                CountFault, Now, TypeOK, TreeTypeOK, PassTypeOK, CallersTypeOK
  <2>2. CASE g = f /\ CopyFile(f)
    <3>1. CASE src[g] # Absent
      <4>1. /\ dst'[g].data = src[g] /\ dst'[g].stamp = Now /\ UNCHANGED src
        BY <2>2, <3>1 DEF CopyFile, CopyStep, TypeOK, TreeTypeOK
      <4> QED BY <1>1, <2>1, <3>1, <4>1 DEF TruthfulAt
    <3>2. CASE src[g] = Absent
      <4>1. UNCHANGED <<src, dst[g], marred>> /\ copying'[g] = "no"
        BY <2>2, <3>2 DEF CopyFile, CopyStep, TypeOK, TreeTypeOK, PassTypeOK
      <4> QED BY <1>1, <2>1, <4>1 DEF TruthfulAt, NeedsUpdate
    <3> QED BY <3>1, <3>2
  <2>3. CASE g = f /\ CopyStat(f)
    <3>1. /\ UNCHANGED <<src, marred>> /\ dst'[g].data = dst[g].data /\ copying[g] = "data"
          /\ dst'[g].stamp \in {src[g], dst[g].stamp}
      BY <2>3 DEF CopyStat, CopyStep, TypeOK, TreeTypeOK
    <3> QED BY <1>1, <2>1, <3>1 DEF TruthfulAt
  <2>4. CASE g = f /\ DeleteSource(f)
    <3>1. /\ src'[g] = Absent /\ dst'[g] = dst[g] /\ UNCHANGED marred
          /\ copying[g] = "stat" /\ copying'[g] = "no" /\ delete
      BY <2>4 DEF DeleteSource, CopyStep, TypeOK, TreeTypeOK, PassTypeOK, Control
    <3> QED BY <1>1, <2>1, <3>1 DEF TruthfulAt, Absent
  <2>5. CASE g = f /\ CopyFails(f)
    <3>1. /\ UNCHANGED src /\ copying'[g] = "no"
          /\ \/ dst'[g] = dst[g] /\ UNCHANGED marred
             \/ dst'[g].stamp = Now /\ g \in marred'
      BY <2>5 DEF CopyFails, CopyStep, Now, TypeOK, TreeTypeOK, PassTypeOK
    <3> QED BY <1>1, <2>1, <3>1 DEF TruthfulAt, NeedsUpdate
  <2>6. CASE g = f /\ Remove(f)
    <3>1. /\ UNCHANGED <<src, marred, copying>> /\ ~delete /\ copying[g] = "no"
          /\ dst'[g] = [data |-> Absent, stamp |-> Absent]
      BY <2>6 DEF Remove, TypeOK, TreeTypeOK, Control, Copied
    <3> QED BY <1>1, <2>1, <3>1 DEF TruthfulAt, Absent
  <2> QED BY <1>2, <1>4, <2>1, <2>2, <2>3, <2>4, <2>5, <2>6 DEF FileStep
<1>5. ASSUME NEW f \in Files, Examine(f) PROVE TruthfulAt(g)'
  <2>1. UNCHANGED <<delete, tree, used>> /\ (copying'[g] = copying[g] \/ copying'[g] = "queued")
    BY <1>5 DEF Examine, Sync, TypeOK, PassTypeOK
  <2> QED BY <1>1, <2>1 DEF tree, TruthfulAt, NeedsUpdate, Now
<1>6. CASE PassStep
  <2>1. UNCHANGED <<delete, tree, copying, used>>
    BY <1>6 DEF PassStep, PassBegins, CopyingEnds, RemovingEnds, PassNotified, FlushLookedAt,
     ShutdownLookedAt, Decides, Sync
  <2> QED BY <1>2, <2>1 DEF tree, Now
<1>7. CASE ThreadStep
  <2>1. UNCHANGED <<delete, tree, copying>> /\ Now' = Now
    BY <1>7, ThreadEffect DEF Elsewhere, pass, Now, CountFlush, TypeOK, CallersTypeOK
  <2> QED BY <1>2, <2>1 DEF tree
<1> QED BY <1>3, <1>4, <1>5, <1>6, <1>7, StepKinds

(* Once shutdown() has asked for the final flush, the command is silent and *)
(* only a new pass starts a last pass.                                      *)
LEMMA SyncedStep == ASSUME TypeOK, Control, Noted, Truthful, Synced, Next PROVE Synced'
<1> SUFFICES ASSUME LastPass', ~failed', NEW g \in Files \ Excluded
             PROVE  (/\ g \in marred \cup tied \/ Copying(g) \/ Current(g)
                     /\ g \in doomed => last[g] = Absent
                     /\ Removing /\ g \notin PreExisting => Cleared(g))'
  BY DEF Synced
<1> USE DEF Copying, Current, Cleared, Removing
<1>1. /\ g \in Files /\ TruthfulAt(g)
      /\ LastPass /\ ~failed => /\ g \in marred \cup tied \/ Copying(g) \/ Current(g)
                                /\ g \in doomed => last[g] = Absent
                                /\ Removing /\ g \notin PreExisting => Cleared(g)
  BY DEF Truthful, Synced
<1>2. ASSUME NEW f \in Files, CommandStep(f) PROVE FALSE
  BY <1>2 DEF CommandStep, Write, Unlink, CommandRuns, LastPass, Stopped, Control
<1>3. ASSUME NEW f \in Files, FileStep(f) \/ Remove(f) \/ Examine(f) PROVE LastPass /\ ~failed
  <2>1. UNCHANGED <<overlooked, phase, main, flush>> /\ (failed => failed')
    BY <1>3 DEF FileStep, CopyFile, CopyStat, DeleteSource, CopyFails, Remove, Examine, CopyStep
  <2> QED BY <2>1 DEF LastPass, Stopped
<1>4. ASSUME NEW f \in Files, FileStep(f)
      PROVE  (/\ g \in marred \cup tied \/ Copying(g) \/ Current(g)
              /\ g \in doomed => last[g] = Absent
              /\ Removing /\ g \notin PreExisting => Cleared(g))'
  <2>1. /\ phase = "copy" /\ phase' = "copy" /\ doomed = {} /\ UNCHANGED <<doomed, last, listed>>
        /\ g # f => /\ UNCHANGED <<dst[g], copying[g]>>
                    /\ g \in marred \cup tied => g \in (marred \cup tied)'
    BY <1>4 DEF FileStep, CopyFile, CopyStat, DeleteSource, CopyFails, CopyStep, Control, Copied,
                TypeOK, TreeTypeOK, PassTypeOK
  <2>2. CASE g = f /\ CopyFile(f)
    <3>1. src[g] # Absent /\ dst'[g].data = src[g]
      BY <2>2 DEF CopyFile, CopyStep, TypeOK, TreeTypeOK
    <3> QED BY <1>1, <2>1, <3>1 DEF TruthfulAt
  <2>3. CASE g = f /\ (CopyStat(f) \/ DeleteSource(f))
    <3>1. /\ UNCHANGED marred /\ copying[g] \in {"data", "stat"} /\ dst'[g].data = dst[g].data
          /\ copying[g] = "data" \/ copying[g] = "stat"
      BY <2>3 DEF CopyStat, DeleteSource, CopyStep, TypeOK, TreeTypeOK
    <3> QED BY <1>1, <2>1, <3>1 DEF TruthfulAt
  <2>4. CASE g = f /\ CopyFails(f)
    BY <2>4 DEF CopyFails
  <2> QED BY <1>1, <1>3, <1>4, <2>1, <2>2, <2>3, <2>4 DEF FileStep
<1>5. ASSUME NEW f \in Files, Examine(f)
      PROVE  (/\ g \in marred \cup tied \/ Copying(g) \/ Current(g)
              /\ g \in doomed => last[g] = Absent
              /\ Removing /\ g \notin PreExisting => Cleared(g))'
  <2>1. /\ phase = "copy" /\ phase' = "copy" /\ doomed = {} /\ UNCHANGED <<doomed, tree>>
        /\ g # f => copying'[g] = copying[g] /\ (g \in listed => g \in listed')
    BY <1>5 DEF Examine, Control, TypeOK, PassTypeOK
  <2>2. CASE g = f
    <3>1. \/ copying'[g] = "queued"
          \/ src[g] # Absent /\ dst[g].data # Absent /\ ~NeedsUpdate(g) /\ UNCHANGED copying
      BY <1>5, <2>2 DEF Examine, TypeOK, PassTypeOK
    <3>2. src[g] \in Int /\ dst[g].stamp \in Int
      BY <1>1, Bounds DEF TypeOK, TreeTypeOK, Version
    <3> QED BY <1>1, <2>1, <3>1, <3>2 DEF TruthfulAt, NeedsUpdate, tree
  <2> QED BY <1>1, <1>3, <1>5, <2>1, <2>2 DEF tree
<1>6. ASSUME NEW f \in Files, Remove(f)
      PROVE  (/\ g \in marred \cup tied \/ Copying(g) \/ Current(g)
              /\ g \in doomed => last[g] = Absent
              /\ Removing /\ g \notin PreExisting => Cleared(g))'
  <2>1. /\ UNCHANGED <<src, last, tied, marred, phase, copying, listed, delete, remove>>
        /\ phase = "remove" /\ doomed' = doomed \ {f} /\ f \in doomed
        /\ g # f => dst'[g] = dst[g]
        /\ g = f => dst'[g].data = Absent
    BY <1>6 DEF Remove, Sync, TypeOK, TreeTypeOK
  <2> QED BY <1>1, <1>3, <1>6, <2>1
<1>7. CASE PassBegins
  <2>1. /\ phase' = "copy" /\ doomed' = {} /\ listed' = Walked /\ UNCHANGED <<tree, copying>>
    BY <1>7 DEF PassBegins, Control
  <2> QED BY <1>1, <2>1 DEF TruthfulAt, Walked, tree
<1>8. CASE CopyingEnds
  <2>1. LastPass /\ ~failed
    BY <1>8 DEF CopyingEnds, LastPass, Stopped
  <2>2. /\ UNCHANGED <<tree, listed, copying, delete, remove>>
        /\ doomed' = {} \/ ~delete
        /\ \A f \in doomed' : src[f] = Absent
        /\ Removing' /\ g \notin spared /\ src[g] = Absent /\ dst[g].data # Absent => g \in doomed'
    BY <1>8 DEF CopyingEnds, Sync
  <2>3. spared = PreExisting
    BY <1>8 DEF CopyingEnds, Noted
  <2> QED BY <1>1, <2>1, <2>2, <2>3 DEF TruthfulAt, tree
<1>9. CASE RemovingEnds \/ PassNotified \/ FlushLookedAt \/ ShutdownLookedAt
  <2>1. /\ LastPass /\ ~failed /\ UNCHANGED <<tree, listed, copying, doomed, delete, remove>>
        /\ phase \in {"remove", "notify", "decide", "quiet"}
    <3>1. CASE RemovingEnds \/ PassNotified
      BY <3>1 DEF RemovingEnds, PassNotified, LastPass, Stopped, Sync
    <3>2. CASE FlushLookedAt
      <4>1. phase = "decide" /\ ~flush /\ main' = main /\ ~failed
        BY <3>2 DEF FlushLookedAt, LastPass, Decides
      <4> QED BY <3>2, <4>1 DEF FlushLookedAt, LastPass, Stopped, Decides, Sync
    <3>3. CASE ShutdownLookedAt
      <4>1. phase = "quiet" /\ shutdown /\ main' = main /\ ~failed /\ ~overlooked
        BY <3>3 DEF ShutdownLookedAt, LastPass, Decides
      <4> QED BY <3>3, <4>1 DEF ShutdownLookedAt, LastPass, Stopped, Decides, Sync
    <3> QED BY <1>9, <3>1, <3>2, <3>3
  <2> QED BY <1>1, <2>1 DEF tree
<1>10. CASE ThreadStep
  <2>1. ASSUME Stopped PROVE LastPass
    BY <1>10, <2>1, ThreadEffect DEF LastPass, Elsewhere
  <2>2. ASSUME ~Stopped PROVE LastPass
    <3>1. phase # "exited" /\ phase' = phase
      BY <1>10, <2>2, ThreadEffect DEF Elsewhere, Control
    <3>2. flush' /\ overlooked' = (phase = "quiet")
      BY <1>10, <2>2, ThreadEffect DEF LastPass
    <3> QED BY <3>1, <3>2 DEF LastPass
  <2>3. Elsewhere /\ LastPass
    BY <1>10, <2>1, <2>2, ThreadEffect
  <2> QED BY <1>1, <2>3 DEF tree, Elsewhere
<1> QED BY <1>2, <1>4, <1>5, <1>6, <1>7, <1>8, <1>9, <1>10, StepKinds DEF PassStep

------------------------------------------------------------------------------
(* The theorems *)

LEMMA InitIInv == Init => IInv
<1> SUFFICES ASSUME Init PROVE IInv
  OBVIOUS
<1> USE DEF Init
<1>1. FlagsTypeOK /\ PassTypeOK
  BY SyncAssumption DEF FlagsTypeOK, PassTypeOK
<1>2. TreeTypeOK /\ CallersTypeOK
  BY Bounds DEF TreeTypeOK, CallersTypeOK
<1>3. Control /\ Noted /\ Synced
  BY SyncAssumption DEF Control, Copied, Stopped, Noted, PreExistingSpared, Synced, LastPass, Absent
<1>4. Truthful
  BY DEF Truthful, TruthfulAt, NeedsUpdate, Now, Absent
<1> QED BY <1>1, <1>2, <1>3, <1>4 DEF IInv, TypeOK

LEMMA NextIInv == IInv /\ [Next]_vars => IInv'
<1> SUFFICES ASSUME IInv, [Next]_vars PROVE IInv'
  OBVIOUS
<1>1. CASE Next
  BY <1>1, TypeStep, ControlStep, NotedStep, TruthfulStep, SyncedStep DEF IInv
<1>2. CASE UNCHANGED vars
  <2> USE <1>2 DEF vars, tree, pass, events
  <2>1. TypeOK'
    BY DEF IInv, TypeOK, FlagsTypeOK, TreeTypeOK, PassTypeOK, CallersTypeOK
  <2>2. Control' /\ Noted'
    BY DEF IInv, Control, Copied, Stopped, Noted, PreExistingSpared
  <2>3. Truthful' /\ Synced'
    BY DEF IInv, Truthful, TruthfulAt, NeedsUpdate, Now, Synced, LastPass, Stopped, Copying,
           Current, Cleared, Removing
  <2> QED BY <2>1, <2>2, <2>3 DEF IInv
<1> QED BY <1>1, <1>2

(* The inductive invariant holds in every reachable state.                  *)
THEOREM Invariance == Spec => []IInv
BY InitIInv, NextIInv, PTL DEF Spec

(* Every variable of the syncer keeps its type; no time stamp on dst is     *)
(* ahead of the clock.                                                      *)
THEOREM TypeCorrectness == Spec => []TypeOK
<1>1. IInv => TypeOK
  BY DEF IInv
<1> QED BY <1>1, Invariance, PTL

(* Files that were on dst before the syncer started are never removed.      *)
THEOREM PreExistingAreSpared == Spec => []PreExistingSpared
<1>1. IInv => PreExistingSpared
  BY DEF IInv, Noted
<1> QED BY <1>1, Invariance, PTL

(* A shutdown whose last pass did not raise leaves on dst what the command  *)
(* last wrote, and nothing it deleted where removal is on, unless the final *)
(* flush came between the process's looks at the two events; files that     *)
(* were overtaken, broken off or written within a millisecond of their      *)
(* stamp are left out.                                                      *)
THEOREM CleanShutdownIsSynced == Spec => []CleanShutdownSynced
<1>1. IInv => CleanShutdownSynced
  <2> SUFFICES ASSUME IInv, main = "over", ~failed, ~overlooked,
                      NEW f \in Files \ (Excluded \cup marred \cup tied)
               PROVE  /\ last[f] # Absent => dst[f].data = last[f]
                      /\ last[f] = Absent /\ src[f] = Absent /\ f \notin PreExisting /\ remove
                           /\ ~delete => dst[f].data = Absent
    BY DEF CleanShutdownSynced, DstIsSrc
  <2>1. /\ phase = "exited" /\ listed = {} /\ copying[f] = "no" /\ doomed = {}
    BY DEF IInv, Control, Copied
  <2> QED BY <2>1 DEF IInv, Synced, LastPass, Stopped, Copying, Current, Cleared, Removing
<1> QED BY <1>1, Invariance, PTL
==============================================================================
