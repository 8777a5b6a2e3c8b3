------------------------------- MODULE MCLive -------------------------------
(***************************************************************************)
(* What the prompts, the tray and the learning window owe, for TLC.  They   *)
(* share no state here: a behaviour is one of Parts, chosen at the start,   *)
(* and the others rest as they began.                                       *)
(***************************************************************************)
EXTENDS MCPromptSettlement, MCLearningWindow, TrayState

CONSTANT Parts

ASSUME PartsAssumption == Parts \subseteq {"settlement", "tray", "learning"}

VARIABLE part

-----------------------------------------------------------------------------
\* The component of that name begins, or rests in its initial state
LiveInit ==
  /\ part \in Parts
  /\ Init
  /\ TrayInit
  /\ LearningInit /\ (part # "learning" => settingsFile.mode = "unset")

LiveNext ==
  \/ part = "settlement" /\ Next /\ UNCHANGED <<part, allTrayVars, learningVars>>
  \/ part = "tray" /\ TrayNext /\ UNCHANGED <<part, vars, learningVars>>
  \/ part = "learning" /\ LearningNext /\ UNCHANGED <<part, vars, allTrayVars>>

liveVars == <<part, vars, allTrayVars, learningVars>>

\* The runtime runs its tasks; one that waits for a lock others take again and again gets
\* it, because the locks are fair (strong fairness).  The watchdog's interval, the revert
\* timers and the Qt timer of a minute fire; the Qt thread and the threads it starts are not
\* starved.  Writes may fail every time.
LiveFair ==
  /\ \A a \in Asks : SF_vars(part = "settlement" /\ Handler(a))
  /\ WF_vars(part = "settlement" /\ PumpGoesOn)
  /\ WF_vars(part = "settlement" /\ ClearOnLoss)
  /\ SF_vars(part = "settlement" /\ ClearerAnnounces)
  /\ WF_vars(part = "settlement" /\ TakeExpired)
  /\ SF_vars(part = "settlement" /\ ExpirerAnnounces)
  /\ WF_allTrayVars(part = "tray" /\ WatchdogTicks)
  /\ WF_allTrayVars(part = "tray" /\ WatchdogPublishes)
  /\ \A b \in Timers : /\ WF_allTrayVars(part = "tray" /\ TimerFires(b))
                       /\ WF_allTrayVars(part = "tray" /\ TimerReverts(b))
  /\ WF_learningVars(part = "learning" /\ RefreshPreferences /\ ~primed)
  /\ WF_learningVars(part = "learning" /\ TickLearning)
  /\ WF_learningVars(part = "learning" /\ \E t \in threads : Going(t))
  /\ WF_learningVars(part = "learning" /\ Shows)
  /\ WF_learningVars(part = "learning" /\ TimeRuns)

LiveSpec == LiveInit /\ [][LiveNext]_liveVars /\ LiveFair

-----------------------------------------------------------------------------
(* Liveness of the part that runs *)

\* Every Ask the daemon sends is settled: answered once, and out of every queue.  A pause
\* does not outlive the GUI sessions that set it (the clearer's task), and GUIs that show a
\* pause that is over stop showing it (the expirer's).  A recent block goes from the tray
\* again (replies.rs, the revert timer); an outage that lasts is shown, and one that is over
\* is not (the watchdog's loop).  Every learning window ends and an Allow no longer wanted is
\* taken back, whatever the clock does and whether or not the settings can be written.
NothingLasts ==
  /\ part = "settlement" => EveryAskSettles /\ PauseEndsWithItsSession /\ EndOfPauseIsShown
  /\ part = "tray" => BlockReverts /\ OutageFollowed
  /\ part = "learning" => WindowsEnd
=============================================================================
