--------------------------- MODULE LearningWindow ---------------------------
(***************************************************************************)
(* The silent mode and the learning window (settings_learning.rs,           *)
(* learning.rs, settings_controller.rs): every change of the settings file  *)
(* is a transaction on a thread of its own, whose snapshot is applied later *)
(* on the Qt thread; a window that cannot be ended on disk is held off in   *)
(* memory by the forced mode.                                               *)
(*                                                                         *)
(* Clocks count ticks of the expiry timer.  A write of the file may fail;   *)
(* the file itself is replaced whole or not at all.                         *)
(***************************************************************************)
EXTENDS Naturals, FiniteSets

CONSTANTS
  StartFiles,      \* what may be on disk at first
  Lengths,         \* how long a window the owner may ask for
  LearningMax,     \* LEARNING_MAX_MS
  MaxWall,         \* bound: the wall clock; no window begins that it cannot end
  MaxSetBacks,     \* bound: times it is set back
  MaxChoices,      \* bound: what the owner does
  MaxThreads,      \* bound: threads at a time
  MaxRestarts      \* bound: restarts of the GUI

Modes   == {"unset", "off", "allow", "deny"}
Picks == Modes \ {"unset"}
NoIntent == "none"
Span(started, ends, length, elapsed, previous) ==
  [started |-> started, ends |-> ends, length |-> length, elapsed |-> elapsed, previous |-> previous]
NoWindow == Span(0, 0, 0, 0, "none")
InWindow(s) == s.window # NoWindow

\* A window keeps the mode it replaced, which may be not chosen
Windows  == [started : Nat, ends : Nat, length : Nat, elapsed : Nat, previous : Modes]
SettingsFiles == [mode : Modes, window : {NoWindow}] \cup [mode : {"allow"}, window : Windows]

\* Files that start() or another transaction has written
ASSUME StartFilesAssumption == StartFiles \subseteq SettingsFiles
ASSUME LengthsAssumption == Lengths \subseteq Nat /\ LearningMax \in Nat \ {0}

VARIABLES
  settingsFile,    \* silent_mode and learning on disk
  forced,          \* the override: the mode that could not be written
  commits, claimed, \* SettingsStore's generation and the newest one applied
  threads,         \* each with a transaction's snapshot on its way to the Qt thread
  qt,              \* the Qt thread, which holds the gate while it applies a snapshot
  silentMode,      \* the property on screen
  recording,       \* learned::LEARNING
  answerMode,      \* silent_mode::STATE
  starts,          \* threads of startLearning, by length, that wait for the write lock
  wall, ran,       \* the wall clock, and running time since the ticker was read
  primed,          \* the ticker has been
  setBacks, choices, restarts,
  wanted, replaced \* the owner's last word, and the word a window replaced

fileVars == <<settingsFile, forced>>
shownVars == <<qt, silentMode, recording, answerMode, claimed>>
clockVars == <<wall, ran, primed, setBacks>>
ownerVars == <<wanted, replaced>>
learningVars == <<fileVars, commits, threads, starts, shownVars, clockVars, choices, restarts, ownerVars>>

-----------------------------------------------------------------------------
(* The window: learning.rs, settings.rs *)

Lesser(a, b) == IF a < b THEN a ELSE b

\* Learning::clamped, of figures that are not negative
Clamped(w) ==
  Span(w.started, Lesser(w.ends, w.started + LearningMax), Lesser(w.length, LearningMax), w.elapsed,
         w.previous)

\* read_settings
Settings == [settingsFile EXCEPT !.window = Clamped(settingsFile.window)]

IsExpired(w) == wall >= w.ends \/ w.elapsed >= w.length

End(s) == IF InWindow(s) THEN [mode |-> s.window.previous, window |-> NoWindow] ELSE s

\* applied: never Allow under the override
Withheld(mode) == IF mode = "allow" THEN "off" ELSE mode

Honor(s) == IF forced # NoIntent THEN [mode |-> Withheld(forced), window |-> NoWindow] ELSE s

\* honor_mode; not chosen acts as off
HonorMode(mode) ==
  LET m == IF forced # NoIntent THEN Withheld(forced) ELSE mode IN IF m = "unset" THEN "off" ELSE m

-----------------------------------------------------------------------------
(* SettingsStore::transact *)

\* The write lock is free: no transaction is between its write and its snapshot
WriteFree == \A t \in threads : t.pc # "report"

\* Mutant: a window that is over is not held off when its end cannot be written
IntentUnlessOver(explicit, changed) == IF explicit # NoIntent THEN explicit ELSE forced

\* The mode that must reach the disk: the owner's choice, one held already, or what an
\* expired window replaced
Intent(explicit, changed) ==
  LET held == IF explicit # NoIntent THEN explicit ELSE forced
  IN  IF held = NoIntent /\ InWindow(changed) /\ IsExpired(changed.window)
      THEN changed.window.previous ELSE held

\* What is written
Final(explicit, changed) ==
  IF Intent(explicit, changed) # NoIntent
  THEN [mode |-> Intent(explicit, changed), window |-> NoWindow]
  ELSE IF InWindow(changed) /\ IsExpired(changed.window) THEN End(changed) ELSE changed

\* Mutant: a failed write leaves no override
WritesForgetting(explicit, changed, touched) ==
  IF Final(explicit, changed) = Settings /\ Intent(explicit, changed) = NoIntent /\ ~touched
  THEN UNCHANGED fileVars
  ELSE \/ settingsFile' = Final(explicit, changed) /\ forced' = NoIntent
       \/ UNCHANGED fileVars

\* touched: another preference changes
WritesFile(explicit, changed, touched) ==
  IF Final(explicit, changed) = Settings /\ Intent(explicit, changed) = NoIntent /\ ~touched
  THEN UNCHANGED fileVars
  ELSE \/ settingsFile' = Final(explicit, changed) /\ forced' = NoIntent
       \/ UNCHANGED settingsFile /\ forced' = Intent(explicit, changed)

-----------------------------------------------------------------------------
(* Threads: one transaction each *)

Thread(kind, at) ==
  [pc |-> "report", number |-> 0, mode |-> "unset", window |-> FALSE, kind |-> kind, at |-> at,
   push |-> "off"]

threadKeeps == <<commits, shownVars, restarts, setBacks, wall>>

Transact(explicit, changed, touched, kind) ==
  /\ WriteFree /\ Cardinality(threads) < MaxThreads
  /\ WritesFile(explicit, changed, touched)
  /\ threads' = threads \cup {Thread(kind, wall)}
  /\ UNCHANGED threadKeeps

\* A transaction that finds the window over ends it
OwnerUnless(changed) ==
  /\ wanted' = (IF forced = NoIntent /\ InWindow(changed) /\ IsExpired(changed.window)
                THEN replaced ELSE wanted)
  /\ UNCHANGED replaced

Chooses == choices < MaxChoices /\ choices' = choices + 1

\* choose_silent_mode
ChooseSilentMode(mode) ==
  /\ Chooses /\ Transact(mode, [mode |-> mode, window |-> NoWindow], FALSE, "other")
  /\ wanted' = mode /\ UNCHANGED <<replaced, ran, primed, starts>>

\* choose_default_duration, toggle_rdap_enabled
SavePreference ==
  /\ Chooses /\ Transact(NoIntent, Settings, TRUE, "other") /\ OwnerUnless(Settings)
  /\ UNCHANGED <<ran, primed, starts>>

\* refresh_preferences, at the start and by a page: startup primes the ticker once
RefreshPreferences ==
  /\ IF primed THEN Chooses ELSE UNCHANGED choices
  /\ Transact(NoIntent, Settings, FALSE, "other") /\ OwnerUnless(Settings)
  /\ primed' = TRUE /\ ran' = (IF primed THEN ran ELSE 0)
  /\ UNCHANGED starts

Advanced(s, delta) == IF InWindow(s) THEN [s EXCEPT !.window.elapsed = @ + delta] ELSE s

\* tick_learning, once a tick at most: the first reading only primes the ticker
TickLearning ==
  LET changed == Advanced(Settings, IF primed THEN ran ELSE 0)
  IN  /\ ran > 0 /\ ran' = 0 /\ primed' = TRUE
      /\ Transact(NoIntent, changed, FALSE, "other") /\ OwnerUnless(changed)
      /\ UNCHANGED <<choices, starts>>

\* stop_learning
StopLearning ==
  LET changed == IF InWindow(Settings) THEN [Settings EXCEPT !.window.ends = Lesser(@, wall)]
                 ELSE Settings
  IN  /\ Chooses /\ Transact(NoIntent, changed, FALSE, "other") /\ OwnerUnless(changed)
      /\ UNCHANGED <<ran, primed, starts>>

\* start_learning: refused while the override holds, which is looked at before the lock
StartLearning(length) ==
  /\ Chooses /\ forced = NoIntent /\ length \in 1..LearningMax /\ starts' = starts \cup {length}
  /\ UNCHANGED <<fileVars, threads, threadKeeps, ran, primed, ownerVars>>

\* Mutant: a window begun over one that is not ended yet keeps that one's Allow to restore
BegunOver(length, previous) ==
  [mode |-> "allow", window |-> Clamped(Span(wall, wall + length, length, 0, Settings.mode))]

Begun(length, previous) ==
  [mode |-> "allow", window |-> Clamped(Span(wall, wall + length, length, 0, previous))]

StartTransacts(length) ==
  LET live == InWindow(Settings) /\ ~IsExpired(Settings.window)
      changed == IF live THEN Settings ELSE Begun(length, End(Settings).mode)
      before == IF InWindow(Settings) THEN replaced ELSE wanted
  IN  /\ length \in starts /\ starts' = starts \ {length} /\ wall + length <= MaxWall
      /\ Transact(NoIntent, changed, FALSE, IF live THEN "running" ELSE "start")
      /\ IF ~live /\ forced = NoIntent /\ settingsFile'.window = changed.window
         THEN wanted' = "allow" /\ replaced' = before
         ELSE UNCHANGED ownerVars
      /\ UNCHANGED <<ran, primed, choices>>

Became(t, u) == threads' = (threads \ {t}) \cup {u}

\* The end of transact, in its lock: the snapshot and its number.  Start drops the snapshot
\* unless its window is in it.
Report(t) ==
  LET seen == Honor(Settings)
      refused == \/ t.kind = "running"
                 \/ t.kind = "start" /\ ~(InWindow(seen) /\ seen.window.started = t.at)
  IN  /\ t.pc = "report" /\ commits' = commits + 1
      /\ IF refused THEN threads' = threads \ {t}
         ELSE Became(t, [t EXCEPT !.pc = "check", !.number = commits + 1, !.mode = seen.mode,
                                  !.window = InWindow(seen)])
      /\ UNCHANGED <<fileVars, shownVars, clockVars, choices, starts, restarts, ownerVars>>

-----------------------------------------------------------------------------
(* push_forced_state, on the thread *)

pushKeeps == <<fileVars, commits, qt, silentMode, claimed, clockVars, choices, starts, restarts, ownerVars>>

PushChecks(t) ==
  /\ t.pc = "check" /\ Became(t, [t EXCEPT !.pc = IF forced # NoIntent THEN "read" ELSE "end"])
  /\ UNCHANGED <<pushKeeps, recording, answerMode>>

PushReads(t) ==
  /\ t.pc = "read" /\ Became(t, [t EXCEPT !.pc = "set", !.push = HonorMode("off")])
  /\ UNCHANGED <<pushKeeps, recording, answerMode>>

PushSets(t) ==
  /\ t.pc = "set" /\ Became(t, [t EXCEPT !.pc = "end"]) /\ answerMode' = t.push
  /\ UNCHANGED <<pushKeeps, recording>>

\* Mutant: recording stops on any snapshot without a window
PushEndsAnyway(t) ==
  /\ t.pc = "end" /\ qt.pc = "idle" /\ Became(t, [t EXCEPT !.pc = "queued"])
  /\ recording' = (recording /\ t.window)
  /\ UNCHANGED <<pushKeeps, answerMode>>

\* end_learning_if_latest, in the gate
PushEnds(t) ==
  /\ t.pc = "end" /\ qt.pc = "idle" /\ Became(t, [t EXCEPT !.pc = "queued"])
  /\ recording' = (recording /\ (t.window \/ t.number < commits))
  /\ UNCHANGED <<pushKeeps, answerMode>>

-----------------------------------------------------------------------------
(* The Qt thread, in the gate: apply_if_newest, apply_preferences *)

qtKeeps == <<fileVars, commits, clockVars, choices, starts, restarts, ownerVars>>
Idle == [pc |-> "idle", mode |-> "unset"]

\* Mutant: snapshots are applied as they come
ClaimAny(t) ==
  /\ t.pc = "queued" /\ qt.pc = "idle" /\ threads' = threads \ {t}
  /\ claimed' = t.number
  /\ qt' = [pc |-> "show", mode |-> IF forced # NoIntent THEN Withheld(forced) ELSE t.mode]
  /\ recording' = (t.window /\ forced = NoIntent)
  /\ UNCHANGED <<qtKeeps, silentMode, answerMode>>

Claim(t) ==
  /\ t.pc = "queued" /\ qt.pc = "idle" /\ threads' = threads \ {t}
  /\ IF claimed >= t.number THEN UNCHANGED <<claimed, qt, recording>>
     ELSE /\ claimed' = t.number
          /\ qt' = [pc |-> "show", mode |-> IF forced # NoIntent THEN Withheld(forced) ELSE t.mode]
          /\ recording' = (t.window /\ forced = NoIntent)
  /\ UNCHANGED <<qtKeeps, silentMode, answerMode>>

\* set_silent_mode; only a change of the property reaches setSilentState (AlertHost.qml)
QtShows ==
  /\ qt.pc = "show" /\ silentMode' = qt.mode
  /\ qt' = (IF silentMode = qt.mode THEN Idle ELSE [pc |-> "set", mode |-> HonorMode(qt.mode)])
  /\ UNCHANGED <<qtKeeps, threads, claimed, recording, answerMode>>

QtSets ==
  /\ qt.pc = "set" /\ answerMode' = qt.mode /\ qt' = Idle
  /\ UNCHANGED <<qtKeeps, threads, claimed, recording, silentMode>>

-----------------------------------------------------------------------------
(* Clocks, and the process *)

clockKeeps == <<fileVars, commits, threads, shownVars, choices, starts, restarts, ownerVars, primed>>

TimeRuns == wall < MaxWall /\ wall' = wall + 1 /\ ran' = ran + 1 /\ UNCHANGED <<clockKeeps, setBacks>>
\* A suspended machine; some running time follows
Asleep   == wall + 1 < MaxWall /\ wall' = wall + 1 /\ UNCHANGED <<clockKeeps, ran, setBacks>>
SetBack  ==
  /\ setBacks < MaxSetBacks /\ setBacks' = setBacks + 1 /\ wall > 0 /\ wall' \in 0..(wall - 1)
  /\ UNCHANGED <<clockKeeps, ran>>

\* The override is lost, and with it the owner's last word if it never reached the disk:
\* the documented limit
Restart ==
  /\ restarts < MaxRestarts /\ restarts' = restarts + 1
  /\ forced' = NoIntent /\ commits' = 0 /\ claimed' = 0 /\ threads' = {} /\ starts' = {} /\ qt' = Idle
  /\ silentMode' = "unset" /\ recording' = FALSE /\ answerMode' = "off" /\ ran' = 0 /\ primed' = FALSE
  /\ wanted' = settingsFile.mode /\ replaced' = settingsFile.window.previous
  /\ UNCHANGED <<settingsFile, wall, setBacks, choices>>

LearningInit ==
  /\ settingsFile \in StartFiles /\ wall = 0 /\ setBacks = 0 /\ choices = 0 /\ restarts = 0
  /\ forced = NoIntent /\ commits = 0 /\ claimed = 0 /\ threads = {} /\ starts = {} /\ qt = Idle
  /\ silentMode = "unset" /\ recording = FALSE /\ answerMode = "off" /\ ran = 0 /\ primed = FALSE
  /\ wanted = settingsFile.mode /\ replaced = settingsFile.window.previous

Owner ==
  \/ \E mode \in Picks : ChooseSilentMode(mode)
  \/ SavePreference \/ StopLearning
  \/ \E length \in Lengths : StartLearning(length)

Going(t) == Report(t) \/ PushChecks(t) \/ PushReads(t) \/ PushSets(t) \/ PushEnds(t) \/ Claim(t)
Shows == QtShows \/ QtSets
Starts == \E length \in starts : StartTransacts(length)

LearningNext ==
  \/ Owner \/ RefreshPreferences \/ TickLearning \/ Starts
  \/ \E t \in threads : Going(t)
  \/ Shows
  \/ TimeRuns \/ Asleep \/ SetBack \/ Restart

LearningSpec == LearningInit /\ [][LearningNext]_learningVars

-----------------------------------------------------------------------------
(* Properties *)

\* The end of a window cannot be undone by another write, and an explicit choice is never
\* replaced by an old mode (settings_learning.rs:1-11): what is on disk, or what the override
\* holds until it can be written, is the owner's last word, and a window on disk gives back
\* the word it replaced.
OwnersWordKept ==
  IF forced # NoIntent THEN forced = wanted
  ELSE /\ settingsFile.mode = wanted
       /\ InWindow(settingsFile) => wanted = "allow" /\ settingsFile.window.previous = replaced

AtRest == threads = {} /\ qt = Idle

\* No snapshot, applied late or in another order than it was taken, leaves Allow applied that
\* the owner does not want (settings_learning.rs:20-23) or a recording that no window ends;
\* once the newest is applied the screen shows the settings in force, and a window records
\* (settings_learning.rs:87-94).
ShownIsWanted ==
  AtRest =>
    /\ answerMode = "allow" => wanted = "allow" /\ silentMode = "allow" /\ forced = NoIntent
    /\ recording => InWindow(Honor(Settings)) /\ silentMode = "allow"
    /\ claimed = commits /\ commits > 0 =>
         silentMode = Honor(Settings).mode /\ recording = InWindow(Honor(Settings))

\* Every window ends, whatever the clock does and whether or not the file can be written, and
\* an Allow the owner no longer wants is taken back (the expiry timer).
WindowsEnd ==
  /\ recording ~> ~recording
  /\ (answerMode = "allow" /\ wanted # "allow") ~> (answerMode # "allow" \/ wanted = "allow")
=============================================================================
