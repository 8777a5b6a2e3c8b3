----------------------------- MODULE TrayState -----------------------------
(***************************************************************************)
(* What the tray shows (tray_state.rs, cache/connections.rs,                *)
(* daemon_watchdog.rs, grpc_server/replies.rs, bridge-cli relays.rs).       *)
(*                                                                         *)
(* Every publisher works with the connection cache's lock held, so a        *)
(* publication is one step.  What is published is derived from three        *)
(* inputs: whether the daemon is down (set by the watchdog under the lock), *)
(* whether a pause is active (set without the lock, announced later under   *)
(* it) and how many prompts wait.  A block shows an overlay instead, which  *)
(* its own timer takes down.  A relay task forwards the tray to WebSocket   *)
(* shells, and so does the answer to a snapshot request.                    *)
(***************************************************************************)
EXTENDS Integers, FiniteSets

CONSTANTS
  MaxPending,    \* bound: prompts waiting at once
  MaxBlocks,     \* bound: denied Asks
  MaxTraySnapshots   \* bound: snapshot requests

ASSUME TrayAssumption == MaxPending \in Nat /\ MaxBlocks \in Nat /\ MaxTraySnapshots \in Nat

VARIABLES
  daemonDown, trayPause, prompts,   \* the inputs
  tray, fresh,                  \* the watch channel: its value, not yet seen by the relay
  announcers,                   \* tasks that changed the pause and have yet to announce it
  watchdog, wasDown, reachable, \* the watchdog's step and locals; the daemon itself
  blocks, timers,               \* block_generation; the revert timers and their steps
  relay, relayCopy,             \* the relay task
  trayPump, pumpCopy, traySnapshots,    \* the pump answering a snapshot request
  shell                         \* what a WebSocket shell was told last

inputVars == <<daemonDown, trayPause, prompts>>
trayVars  == <<tray, fresh>>
dogVars   == <<watchdog, wasDown>>
timerVars == <<blocks, timers>>
outVars   == <<relay, relayCopy, trayPump, pumpCopy, traySnapshots, shell>>
allTrayVars == <<inputVars, trayVars, announcers, dogVars, reachable, timerVars, outVars>>

State(kind, n) == [kind |-> kind, n |-> n]
Trays == [kind : {"Idle", "Pending", "RecentBlock", "FilterOff", "DaemonDown"}, n : Nat]

\* TrayState::derive
Derive(down, paused, waiting) ==
  State(IF down THEN "DaemonDown" ELSE IF paused THEN "FilterOff"
        ELSE IF waiting = 0 THEN "Idle" ELSE "Pending",
        IF down \/ paused THEN 0 ELSE waiting)

\* ConnectionCache::tray_state.  A pause that has lapsed is set but not active.
Truth == Derive(daemonDown, trayPause = "running", prompts)

\* TrayStatePublisher::set: send_replace marks even an equal value as changed
Set(state) == tray' = state /\ fresh' = TRUE

-----------------------------------------------------------------------------

\* insert_pending_inner, resolve, cancel_pending and defer_pending: each ends in
\* republish_pending_count
PromptsChange ==
  /\ prompts' \in {prompts + 1, prompts - 1} \cap 0..MaxPending
  /\ Set(Derive(daemonDown, trayPause = "running", prompts'))
  /\ UNCHANGED <<daemonDown, trayPause, announcers, dogVars, reachable, timerVars, outVars>>

\* The pump pauses or resumes, the clearer or the expirer ends a pause: without the lock
PauseChanges(task) ==
  /\ task \notin announcers
  /\ \/ task = "pump" /\ trayPause' \in {"running", "none"}
     \/ task = "clearer" /\ trayPause # "none" /\ trayPause' = "none"
     \/ task = "expirer" /\ trayPause = "lapsed" /\ trayPause' = "none"
  /\ announcers' = announcers \cup {task}
  /\ UNCHANGED <<daemonDown, prompts, trayVars, dogVars, reachable, timerVars, outVars>>

PauseLapses ==
  /\ trayPause = "running" /\ trayPause' = "lapsed"
  /\ UNCHANGED <<daemonDown, prompts, trayVars, announcers, dogVars, reachable, timerVars, outVars>>

\* announce_pause_state: resync_tray_state under the lock
AnnouncePauseState(task) ==
  /\ task \in announcers
  /\ announcers' = announcers \ {task}
  /\ Set(Truth)
  /\ UNCHANGED <<inputVars, dogVars, reachable, timerVars, outVars>>

-----------------------------------------------------------------------------
(* The daemon watchdog *)

ReachabilityChanges ==
  /\ reachable' = ~reachable
  /\ UNCHANGED <<inputVars, trayVars, announcers, dogVars, timerVars, outVars>>

\* A tick: liveness is read before the lock is taken
WatchdogTicks ==
  /\ watchdog = "idle"
  /\ watchdog' = IF reachable = wasDown THEN (IF reachable THEN "up" ELSE "down") ELSE "idle"
  /\ wasDown' = ~reachable
  /\ UNCHANGED <<inputVars, trayVars, announcers, reachable, timerVars, outVars>>

\* Mutant: the flag is set and published in two critical sections
WatchdogMarksOnly ==
  /\ watchdog # "idle"
  /\ daemonDown' = (watchdog = "down")
  /\ watchdog' = "idle"
  /\ UNCHANGED <<trayPause, prompts, trayVars, announcers, wasDown, reachable, timerVars, outVars>>

\* set_daemon_down and the publication, under the lock
WatchdogPublishes ==
  /\ watchdog # "idle"
  /\ daemonDown' = (watchdog = "down")
  /\ Set(Derive(daemonDown', trayPause = "running", prompts))
  /\ watchdog' = "idle"
  /\ UNCHANGED <<trayPause, prompts, announcers, wasDown, reachable, timerVars, outVars>>

-----------------------------------------------------------------------------
(* publish_recent_block and its timers *)

\* Mutant: the outage is not looked at
BlockAnyway ==
  /\ blocks < MaxBlocks
  /\ blocks' = blocks + 1
  /\ timers' = [timers EXCEPT ![blocks + 1] = "asleep"]
  /\ Set(State("RecentBlock", 0))
  /\ UNCHANGED <<inputVars, announcers, dogVars, reachable, outVars>>

\* A denied Ask, under the lock: nothing while the daemon is down
Block ==
  /\ blocks < MaxBlocks
  /\ Truth.kind # "DaemonDown"
  /\ blocks' = blocks + 1
  /\ timers' = [timers EXCEPT ![blocks + 1] = "asleep"]
  /\ Set(State("RecentBlock", 0))
  /\ UNCHANGED <<inputVars, announcers, dogVars, reachable, outVars>>

\* The timer wakes up and compares generations, without the lock ...
TimerFires(b) ==
  /\ timers[b] = "asleep"
  /\ timers' = [timers EXCEPT ![b] = IF blocks = b THEN "reverting" ELSE "gone"]
  /\ UNCHANGED <<inputVars, trayVars, announcers, dogVars, reachable, blocks, outVars>>

\* ... then takes the lock and resyncs
TimerReverts(b) ==
  /\ timers[b] = "reverting"
  /\ timers' = [timers EXCEPT ![b] = "gone"]
  /\ Set(Truth)
  /\ UNCHANGED <<inputVars, announcers, dogVars, reachable, blocks, outVars>>

-----------------------------------------------------------------------------
(* The tray relay of spawn_tray_and_notice_relays, and the snapshot answer *)

\* changed() marks the value seen; borrow() then reads the newest
RelayWakes ==
  /\ relay = "idle" /\ fresh
  /\ fresh' = FALSE /\ relay' = "read"
  /\ UNCHANGED <<inputVars, tray, announcers, dogVars, reachable, timerVars, relayCopy,
                 trayPump, pumpCopy, traySnapshots, shell>>

RelayReads ==
  /\ relay = "read"
  /\ relayCopy' = tray /\ relay' = "send"
  /\ UNCHANGED <<inputVars, trayVars, announcers, dogVars, reachable, timerVars,
                 trayPump, pumpCopy, traySnapshots, shell>>

RelaySends ==
  /\ relay = "send"
  /\ shell' = relayCopy /\ relay' = "idle" /\ relayCopy' = State("Idle", 0)
  /\ UNCHANGED <<inputVars, trayVars, announcers, dogVars, reachable, timerVars,
                 trayPump, pumpCopy, traySnapshots>>

\* RequestSnapshot reads the tray, then sends it
SnapshotReads ==
  /\ trayPump = "idle" /\ traySnapshots < MaxTraySnapshots
  /\ pumpCopy' = tray /\ trayPump' = "send" /\ traySnapshots' = traySnapshots + 1
  /\ UNCHANGED <<inputVars, trayVars, announcers, dogVars, reachable, timerVars,
                 relay, relayCopy, shell>>

SnapshotSends ==
  /\ trayPump = "send"
  /\ shell' = pumpCopy /\ trayPump' = "idle" /\ pumpCopy' = State("Idle", 0)
  /\ UNCHANGED <<inputVars, trayVars, announcers, dogVars, reachable, timerVars,
                 relay, relayCopy, traySnapshots>>

-----------------------------------------------------------------------------
Tasks == {"pump", "clearer", "expirer"}
Timers == 1..MaxBlocks

TrayInit ==
  /\ daemonDown = FALSE /\ trayPause = "none" /\ prompts = 0
  /\ tray = State("Idle", 0) /\ fresh = FALSE
  /\ announcers = {}
  /\ watchdog = "idle" /\ wasDown = FALSE /\ reachable = TRUE
  /\ blocks = 0 /\ timers = [b \in Timers |-> "none"]
  /\ relay = "idle" /\ relayCopy = State("Idle", 0)
  /\ trayPump = "idle" /\ pumpCopy = State("Idle", 0) /\ traySnapshots = 0
  /\ shell = State("Idle", 0)

Relay == RelayWakes \/ RelayReads \/ RelaySends

TrayNext ==
  \/ PromptsChange \/ PauseLapses \/ ReachabilityChanges
  \/ \E t \in Tasks : PauseChanges(t) \/ AnnouncePauseState(t)
  \/ WatchdogTicks \/ WatchdogPublishes \/ Block
  \/ \E b \in Timers : TimerFires(b) \/ TimerReverts(b)
  \/ Relay \/ SnapshotReads \/ SnapshotSends

TraySpec == TrayInit /\ [][TrayNext]_allTrayVars

-----------------------------------------------------------------------------
(* Properties *)

\* Every variable has its type.
TrayTypeOK ==
  /\ daemonDown \in BOOLEAN /\ trayPause \in {"none", "running", "lapsed"} /\ prompts \in Nat
  /\ tray \in Trays /\ fresh \in BOOLEAN /\ announcers \in SUBSET Tasks
  /\ watchdog \in {"idle", "up", "down"} /\ wasDown \in BOOLEAN /\ reachable \in BOOLEAN
  /\ blocks \in Nat /\ timers \in [Timers -> {"none", "asleep", "reverting", "gone"}]
  /\ relay \in {"idle", "read", "send"} /\ relayCopy \in Trays
  /\ trayPump \in {"idle", "send"} /\ pumpCopy \in Trays /\ traySnapshots \in Nat /\ shell \in Trays

\* No resync, prompt, pause or block hides an outage the watchdog has recorded, and
\* none shows one that is over ("every resync publishes it, so none can hide a daemon
\* outage", tray_state.rs:28; "not while the daemon is down", replies.rs:82).
OutageShown == daemonDown <=> tray.kind = "DaemonDown"

\* With every pause change announced, the tray is what the inputs call for, or the
\* overlay of a block: no publisher works from old inputs (connections.rs:127-131).
TrayTells ==
  (announcers = {} /\ trayPause # "lapsed") => (tray = Truth \/ tray.kind = "RecentBlock")

\* Both, with what the watchdog remembers: the inductive invariant.
TrayInv ==
  /\ TrayTells
  /\ OutageShown
  /\ watchdog = "idle" => (wasDown <=> daemonDown)
  /\ watchdog = "up" => daemonDown /\ ~wasDown
  /\ watchdog = "down" => ~daemonDown /\ wasDown

\* "The first's timer becomes a no-op (its captured generation no longer matches)"
\* (replies.rs:77-80): only the newest block's timer takes the overlay down.
OwnTimerReverts ==
  [][\A b \in Timers :
       timers[b] = "reverting" /\ timers'[b] = "gone" /\ tray.kind = "RecentBlock" => b = blocks]_allTrayVars

\* External shells get the tray as in-process ones do (relays.rs:39-40): with nothing left to
\* relay, shells show it.  Where a snapshot request was answered, its answer may have
\* overtaken the relay's, and an older state may be the last one sent.
ShellShowsTray == (traySnapshots = 0 /\ ~fresh /\ relay = "idle") => shell = tray

\* The tray in the bridge and in the shells is true: no publisher hides an outage, works from
\* old inputs or is skipped by the relay.
TrayIsShown == OutageShown /\ TrayTells /\ ShellShowsTray


\* A block's overlay is taken down, whatever happens while it is up.
BlockReverts == tray.kind = "RecentBlock" ~> tray.kind # "RecentBlock"

\* A daemon that stays unreachable ends up shown as down; one that stays reachable
\* does not.
OutageFollowed ==
  /\ <>[]~reachable => <>[](tray.kind = "DaemonDown")
  /\ <>[]reachable => <>[](tray.kind # "DaemonDown")

=============================================================================
