----------------------------- MODULE MCWorkers -----------------------------
(***************************************************************************)
(* The bridge's background tasks, for TLC: the profiles' two, the curated   *)
(* defaults' worker and the history's writer with its budget; and what is   *)
(* kept in files: the state files and the hit counts' maps.  They share no   *)
(* state here: a behaviour is one of Parts, chosen at the start, and the    *)
(* others rest as they began.                                               *)
(***************************************************************************)
EXTENDS ProfileSwitch, ProfileEnforcer, CuratedDefaults, HistoryWriter, HistoryBudget,
        RuleHitMaps, StateFile

CONSTANT Parts

ASSUME PartsAssumption ==
  Parts \subseteq {"switch", "enforcer", "curated", "history", "names", "file", "budget"}

\* Profiles with rules of two contents, one of them past its limit or with a rule the policy
\* does not take any more; a daemon with nothing, or with rules of a profile and a foreign one
Entry(r, what) == [id |-> r, content |-> what]
SomeRules ==
  {[p \in {1, 2} |-> IF p = 1 THEN <<Entry(1, "a"), Entry(2, "a")>> ELSE <<Entry(1, "b")>>],
   [p \in {1, 2} |-> IF p = 1 THEN <<Entry(1, "a"), Entry(2, "bad")>>
                     ELSE <<Entry(1, "a"), Entry(2, "a"), Entry(3, "a")>>]}
SomeMem ==
  {<<>>, [n \in {Name(2, 1), Name(1, 2)} |-> IF n = Name(2, 1) THEN "b" ELSE "foreign"]}

\* A history that is empty, or has events of a third rule, one or all that fit
EventsOf(n) == {[id |-> i, ts |-> 1, hash |-> "l"] : i \in 1..n}
SomeEvents == {{}, EventsOf(1), EventsOf(4)}
NearSmallest == {2192000 + 31 * k : k \in 0..300}

VARIABLE part

-----------------------------------------------------------------------------
\* The component of that name begins, or rests in one of its initial states
WorkersInit ==
  /\ part \in Parts
  /\ SwitchInit /\ (part # "switch" => profileRows = {} /\ matchers = [p \in Profiles |-> {}])
  /\ EnforcerInit /\ (part # "enforcer" => activeId = 0 /\ pMem = <<>> /\ Len(ruleSets[2]) = 1)
  /\ CuratedInit /\ (part # "curated" => ~entryBroad /\ curDaemon.copy = NoCopy)
  /\ HistoryInit /\ (part # "history" => events = {})
  /\ MapsInit
  /\ StateFileInit
  /\ BudgetInit /\ (part # "budget" => budgetBytes = Mib(16))

WorkersNext ==
  \/ part = "switch" /\ SwitchNext
     /\ UNCHANGED <<part, budgetBytes, mapVars, fileVars, enforcerVars, curVars, historyVars>>
  \/ part = "enforcer" /\ EnforcerNext
     /\ UNCHANGED <<part, budgetBytes, mapVars, fileVars, switchVars, curVars, historyVars>>
  \/ part = "curated" /\ CuratedNext
     /\ UNCHANGED <<part, budgetBytes, mapVars, fileVars, switchVars, enforcerVars, historyVars>>
  \/ part = "history" /\ HistoryNext
     /\ UNCHANGED <<part, budgetBytes, mapVars, fileVars, switchVars, enforcerVars, curVars>>
  \/ part = "names" /\ MapsNext
     /\ UNCHANGED <<part, budgetBytes, fileVars, switchVars, enforcerVars, curVars, historyVars>>
  \/ part = "file" /\ StateFileNext
     /\ UNCHANGED <<part, budgetBytes, mapVars, switchVars, enforcerVars, curVars, historyVars>>
  \/ part = "budget" /\ BudgetNext
     /\ UNCHANGED <<part, mapVars, fileVars, switchVars, enforcerVars, curVars, historyVars>>

allWorkerVars == <<part, budgetBytes, mapVars, fileVars, switchVars, enforcerVars, curVars, historyVars>>

\* The tasks and the writer's thread run, their timers fire, and the daemon answers what it
\* was sent
WorkersFair ==
  /\ WF_switchVars(part = "switch" /\ LoopSteps)
  /\ WF_enforcerVars(part = "enforcer" /\ PassSteps)
  /\ WF_enforcerVars(part = "enforcer" /\ DaemonAnswers)
  /\ WF_curVars(part = "curated" /\ CuratedSteps)
  /\ WF_curVars(part = "curated" /\ (CurDaemonDoes \/ CurDaemonRefuses))
  /\ WF_historyVars(part = "history" /\ WriterSteps)

WorkersSpec == WorkersInit /\ [][WorkersNext]_allWorkerVars /\ WorkersFair

-----------------------------------------------------------------------------
(* The parts together *)

\* Types of the part that runs.
WorkersTypeOK ==
  CASE part = "switch" -> SwitchTypeOK [] part = "enforcer" -> EnforcerTypeOK
    [] part = "curated" -> CuratedTypeOK [] part = "history" -> HistoryTypeOK
    [] part = "names" -> MapsTypeOK [] part = "file" -> StateFileTypeOK
    [] OTHER -> TRUE


\* The last network settles (profiles/tasks.rs, spawn_auto_switch_with), no profile rule's status
\* stays pending (spawn_enforcer), the curated defaults' worker comes to rest (curated/manager.rs,
\* spawn), and the join of the history's shutdown returns (history/writer.rs).
WorkersLive ==
  /\ part = "switch" => LastNetworkSettles
  /\ part = "enforcer" => PendingResolves
  /\ part = "curated" => WorkerSettles
  /\ part = "history" => ShutdownReturns
=============================================================================
