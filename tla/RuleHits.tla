------------------------------ MODULE RuleHits ------------------------------
(***************************************************************************)
(* Whether the bridge may have missed rule hits (bridge cache/rule_hits.rs, *)
(* rule_hits_handle.rs and rule_hits_file.rs): the daemon's pings are       *)
(* counted against its own counter, the counts and the counter at the last  *)
(* ping are saved, and a restart of the bridge is judged from them at the   *)
(* first ping after it.  Counts are one number here; which rule each hit    *)
(* goes to is RuleHitMaps.  The daemon is on the Unix socket (its counters  *)
(* are trusted), the wall clock does not step, and a ping is counted at the *)
(* time the daemon built it.                                                *)
(***************************************************************************)
EXTENDS Integers

CONSTANTS
  Window,            \* CLEAN_STOP_WINDOW_MS
  Slack,             \* SAME_START_SLACK_MS
  BatchCap,          \* the daemon's Stats.MaxEvents
  MaxTime, MaxHits, MaxDaemonRuns, MaxBridgeRuns, MaxSaveFaults

ASSUME RuleHitsAssumption == {Window, Slack, MaxTime, MaxHits} \subseteq Nat /\ BatchCap \in Nat \ {0}

VARIABLES
  now,
  daemon,            \* its start, rule_hits, the events not sent, how many runs there were,
                     \* and whether a ping of this run was counted
  hits,              \* the bridge's RuleHits
  stored,            \* the saved file
  serving,           \* "up", "stopping" (after the shutdown save) or "down"
  bridgeRuns, saveFaults, decided,
  lostByDaemon,      \* history: when this run of the daemon last lost an event
  lostByBridge,      \* history: when the bridge last lost counts that it had
  excused            \* history: something happened that may look like a loss

worldVars == <<now, bridgeRuns, decided>>
lossVars == <<lostByDaemon, lostByBridge, excused>>
hitVars == <<worldVars, daemon, hits, stored, serving, saveFaults, lossVars>>

NoCount == -1
NoBaseline == [ping |-> NoCount, uptime |-> 0, hits |-> 0]
NotPending == [is |-> FALSE, base |-> NoBaseline, stopped |-> NoCount, deferred |-> NoCount, first |-> NoCount]
NoHits == [since |-> NoCount, gap |-> NoCount, prov |-> NoCount, base |-> NoBaseline, pending |-> NotPending,
           counted |-> 0, dirty |-> TRUE]
NoFile == [is |-> FALSE, since |-> NoCount, gap |-> NoCount, base |-> NoBaseline, stopped |-> NoCount, counted |-> 0]

Latest(a, b) == IF a > b THEN a ELSE b
Uptime == now - daemon.start
ShownGap == Latest(hits.gap, hits.prov)

\* There is something to compare the daemon's counter with: an earlier ping of this run of
\* it, or a restart of the bridge to judge.  (A daemon restarted under a running bridge is
\* only noticed by an uptime that dropped, and the first ping after a restore without a
\* baseline only sets one.  A daemon restarted behind a deferred ping may make up the sum.)
UptimesComparable ==
  \/ serving = "down"
  \/ hits.pending.is /\ (daemon.heard \/ hits.pending.deferred = NoCount)
  \/ hits.base # NoBaseline /\ daemon.heard

Faulty == saveFaults < MaxSaveFaults /\ saveFaults' = saveFaults + 1

-----------------------------------------------------------------------------
(* The daemon *)

ClockTicks == now < MaxTime /\ now' = now + 1
              /\ UNCHANGED <<bridgeRuns, decided, daemon, hits, stored, serving, saveFaults, lossVars>>

\* A rule decides a connection; the batch keeps the newest
HitHappens ==
  /\ decided < MaxHits /\ decided' = decided + 1
  /\ LET full == daemon.batch = BatchCap
     IN  /\ daemon' = [daemon EXCEPT !.hits = @ + 1, !.batch = IF full THEN @ ELSE @ + 1]
         /\ lostByDaemon' = IF full /\ UptimesComparable THEN now ELSE lostByDaemon
         /\ excused' = (excused \/ full)
  /\ UNCHANGED <<now, bridgeRuns, hits, stored, serving, saveFaults, lostByBridge>>

\* Another process: what the old one had not sent is the documented loss
DaemonStarts ==
  /\ daemon.runs < MaxDaemonRuns
  /\ daemon' = [start |-> now, hits |-> 0, batch |-> 0, runs |-> daemon.runs + 1, heard |-> FALSE]
  /\ lostByDaemon' = NoCount /\ excused' = TRUE
  /\ UNCHANGED <<worldVars, hits, stored, serving, saveFaults, lostByBridge>>

-----------------------------------------------------------------------------
(* record *)

\* Mutant: a clean stop is not asked for
VouchesForAny(stopped, start) == Uptime > 0

\* stop_vouches_for
StopVouchesFor(stopped, start) ==
  stopped # NoCount /\ Uptime > 0 /\ start >= stopped /\ start - stopped <= Window

\* restart_missed_hits
RestartMissedHits(p, received) ==
  LET then == p.base
      startedThen == then.ping - then.uptime
      restarted == daemon.hits < then.hits \/ Uptime < then.uptime \/ daemon.start >= then.ping - Slack
      apart == IF daemon.start > startedThen THEN daemon.start - startedThen ELSE startedThen - daemon.start
  IN  IF restarted THEN ~StopVouchesFor(p.stopped, daemon.start) \/ daemon.hits # received
      ELSE apart > Slack \/ daemon.hits - then.hits # received

\* The pending restore at a ping: deferred while the daemon's start can't be placed
Judged(h, received) ==
  LET p == h.pending
      seen == IF p.deferred = NoCount THEN 0 ELSE p.deferred
      startedSince == p.deferred # NoCount /\ daemon.start > p.first + Slack
  IN  IF ~p.is THEN h
      ELSE IF Uptime = 0
      THEN [h EXCEPT !.pending.deferred = seen + received,
                     !.pending.first = IF p.deferred = NoCount THEN now ELSE @,
                     !.prov = now]
      ELSE [h EXCEPT !.pending = NotPending, !.prov = NoCount,
                     !.gap = IF startedSince \/ RestartMissedHits(p, seen + received) THEN now ELSE @]

\* missed_events
MissedEvents(h, received) ==
  h.base # NoBaseline /\ (Uptime < h.base.uptime \/ daemon.hits - h.base.hits # received)

\* record: the restore is judged, the ping compared with the one before, and becomes the
\* baseline.  A ping that only moves the baseline is no change to save.
HitRecorded(h, received) ==
  LET started == [h EXCEPT !.since = IF @ = NoCount THEN now ELSE @]
      judged == Judged(started, received)
      counted == [judged EXCEPT !.gap = IF MissedEvents(h, received) THEN now ELSE @,
                                !.counted = @ + received]
  IN  [counted EXCEPT !.base = [ping |-> now, uptime |-> Uptime, hits |-> daemon.hits],
                      !.dirty = h.dirty \/ h.pending.is \/ counted # h]

-----------------------------------------------------------------------------
(* Saving *)

Undecided(h) == h.pending.is /\ h.pending.deferred # NoCount

\* to_saved
ToSaved(h) ==
  [is |-> TRUE, since |-> h.since, counted |-> h.counted, stopped |-> NoCount,
   gap |-> IF Undecided(h) THEN ShownGap ELSE h.gap,
   base |-> IF Undecided(h) THEN NoBaseline ELSE IF h.pending.is THEN h.pending.base ELSE h.base]

\* to_saved_at_stop
ToSavedAtStop(h) ==
  [ToSaved(h) EXCEPT !.stopped = IF Undecided(h) THEN NoCount
                                 ELSE IF h.pending.is THEN h.pending.stopped ELSE now]

\* save's write: it may fail, and is tried again by the next save
Writes(h, file) ==
  \/ stored' = file /\ hits' = [h EXCEPT !.dirty = FALSE] /\ UNCHANGED <<saveFaults, excused>>
  \/ Faulty /\ hits' = [h EXCEPT !.dirty = TRUE] /\ excused' = TRUE /\ UNCHANGED stored

SavesNothing(h) == hits' = h /\ UNCHANGED <<stored, saveFaults, excused>>

\* save_now, from the ticker: only what changed
PeriodicSave ==
  /\ serving = "up" /\ hits.since # NoCount /\ hits.dirty
  /\ Writes(hits, ToSaved(hits))
  /\ UNCHANGED <<worldVars, daemon, serving, lostByDaemon, lostByBridge>>

\* A ping arrives; after the shutdown save a change is saved at once, as a clean stop again
PingArrives ==
  /\ serving # "down"
  /\ daemon' = [daemon EXCEPT !.batch = 0, !.heard = TRUE]
  /\ LET h == HitRecorded(hits, daemon.batch)
     IN  IF serving = "stopping" /\ h.dirty THEN Writes(h, ToSavedAtStop(h)) ELSE SavesNothing(h)
  /\ UNCHANGED <<worldVars, serving, lostByDaemon, lostByBridge>>

\* The batch is emptied before the daemon knows that its ping failed
PingFails ==
  /\ serving # "down" /\ daemon.batch > 0
  /\ daemon' = [daemon EXCEPT !.batch = 0] /\ excused' = TRUE
  /\ lostByDaemon' = IF UptimesComparable THEN now ELSE lostByDaemon
  /\ UNCHANGED <<worldVars, hits, stored, serving, saveFaults, lostByBridge>>

\* save_at_stop
ShutdownSave ==
  /\ serving = "up" /\ serving' = "stopping"
  /\ IF hits.since = NoCount THEN SavesNothing(hits) ELSE Writes(hits, ToSavedAtStop(hits))
  /\ UNCHANGED <<worldVars, daemon, lostByDaemon, lostByBridge>>

\* The process ends, after its shutdown save or by a crash: what it did not save is lost.
\* (Hits that come behind a saved stop and can't be saved any more are, to the file, hits
\* that the daemon decided after the last ping counted: the documented loss.)
BridgeEnds ==
  /\ serving # "down" /\ serving' = "down"
  /\ hits' = NoHits
  /\ LET loses == hits.counted # stored.counted /\ stored.stopped = NoCount
     IN  /\ lostByBridge' = IF loses THEN now ELSE lostByBridge
         /\ excused' = (excused \/ loses)
  /\ UNCHANGED <<worldVars, daemon, stored, saveFaults, lostByDaemon>>

\* Mutant: a restore waits to be judged without showing a gap
RestoredSure ==
  [NoHits EXCEPT !.since = stored.since, !.counted = stored.counted, !.gap = stored.gap,
                 !.pending = [NotPending EXCEPT !.is = TRUE, !.base = stored.base, !.stopped = stored.stopped]]

\* restore
Restored ==
  LET kept == [NoHits EXCEPT !.since = stored.since, !.counted = stored.counted]
  IN  IF stored.base = NoBaseline THEN [kept EXCEPT !.gap = now]
      ELSE [kept EXCEPT !.gap = stored.gap, !.prov = now,
                        !.pending = [NotPending EXCEPT !.is = TRUE, !.base = stored.base,
                                                       !.stopped = stored.stopped]]

\* A clean stop is taken out of the file as it is read, or the restart is a gap and the
\* file is removed
ConsumesStop(looksLost) ==
  \/ /\ stored' = [ToSaved(Restored) EXCEPT !.gap = Restored.gap]
     /\ hits' = [Restored EXCEPT !.dirty = FALSE]
     /\ excused' = (excused \/ looksLost) /\ UNCHANGED saveFaults
  \/ /\ Faulty /\ stored' = NoFile /\ excused' = TRUE
     /\ hits' = [Restored EXCEPT !.pending = NotPending, !.prov = NoCount, !.gap = now]

\* attach_file; with no file, counting starts over at the first ping
BridgeStarts ==
  /\ serving = "down" /\ bridgeRuns < MaxBridgeRuns
  /\ serving' = "up" /\ bridgeRuns' = bridgeRuns + 1
  /\ LET looksLost == stored.base.uptime <= Slack
     IN  \/ /\ ~stored.is /\ SavesNothing(NoHits)
            /\ lostByDaemon' = NoCount /\ lostByBridge' = NoCount
         \/ /\ stored.is /\ stored.stopped # NoCount /\ ConsumesStop(looksLost)
            /\ UNCHANGED <<lostByDaemon, lostByBridge>>
         \/ /\ stored.is /\ stored.stopped = NoCount /\ hits' = Restored
            /\ excused' = (excused \/ looksLost)
            /\ UNCHANGED <<stored, saveFaults, lostByDaemon, lostByBridge>>
  /\ UNCHANGED <<now, daemon, decided>>

-----------------------------------------------------------------------------
HitsInit ==
  /\ now = 0 /\ daemon = [start |-> 0, hits |-> 0, batch |-> 0, runs |-> 1, heard |-> FALSE]
  /\ hits = NoHits /\ stored = NoFile /\ serving = "up"
  /\ bridgeRuns = 1 /\ saveFaults = 0 /\ decided = 0
  /\ lostByDaemon = NoCount /\ lostByBridge = NoCount /\ excused = FALSE

HitsNext ==
  \/ ClockTicks \/ HitHappens \/ DaemonStarts \/ PingArrives \/ PingFails
  \/ PeriodicSave \/ ShutdownSave \/ BridgeEnds \/ BridgeStarts

HitsSpec == HitsInit /\ [][HitsNext]_hitVars

-----------------------------------------------------------------------------
(* Properties *)

\* Values are of their types, and a gap is provisional exactly while a restore is undecided.
HitsTypeOK ==
  /\ now \in 0..MaxTime /\ serving \in {"up", "stopping", "down"}
  /\ daemon.batch \in 0..BatchCap /\ daemon.batch <= daemon.hits
  /\ {hits.since, hits.gap, hits.prov, lostByDaemon, lostByBridge} \subseteq -1..MaxTime
  /\ excused \in BOOLEAN /\ (hits.pending.is <=> hits.prov # NoCount)

\* A count that the bridge had and lost is never hidden: whenever counts are
\* shown, a gap no older than the loss is shown with them (rule_hits.rs restore, record).
LostCountsShowAGap == serving # "down" /\ hits.since # NoCount => ShownGap >= lostByBridge

\* An event that the daemon lost is noticed at the next ping that this run of it sends,
\* whether the bridge restarted in between or not (missed_events, restart_missed_hits).
LostEventsShowAGap ==
  serving # "down" /\ hits.base.ping > lostByDaemon /\ hits.since < lostByDaemon => ShownGap >= lostByDaemon

\* Restarting the bridge is not itself a loss: while the daemon stays up and nothing was
\* lost, every restart is judged to have missed nothing (the promise of restart_missed_hits'
\* "stayed up").
QuietRestartIsNoGap == ~excused /\ ~hits.pending.is => hits.gap = NoCount

\* The gap shown with the counts is true: it is there when hits were lost on either side, and
\* not for a restart that lost none.
GapIsTold == LostCountsShowAGap /\ LostEventsShowAGap /\ QuietRestartIsNoGap
=============================================================================
