------------------------------ MODULE MCRules ------------------------------
(***************************************************************************)
(* What changes the rule list, its count hint and what is said of it, for   *)
(* TLC: rule commands, imports, blocklists, the analysis of rules and their *)
(* simulator.  They share no state here: a behaviour is one of Parts,       *)
(* chosen at the start, and the others rest as they began.                  *)
(***************************************************************************)
EXTENDS MCRuleCommands, RulesImport, Blocklists, CountHint, MCRuleInsights

CONSTANT Parts

ASSUME PartsAssumption == Parts \subseteq {"commands", "import", "blocklists", "count", "insights"}

OfKinds(d, i) == [k \in ListKinds |-> IF k = "domains" THEN d ELSE i]
SomeDownloads == {OfKinds(2, 0), OfKinds(0, 1)}

VARIABLE part

-----------------------------------------------------------------------------
\* The component of that name begins, or rests in one of its initial states
RulesInit ==
  /\ part \in Parts
  /\ CommandsInit
  /\ ImportInit
  /\ BlockInit
  /\ CountInit /\ (part # "count" => held = {})
  /\ InsightsInit /\ (part # "insights" => guiRules = <<>>)

RulesNext ==
  \/ part = "commands" /\ CommandsNext
     /\ UNCHANGED <<part, importVars, blockVars, countVars, insightVars>>
  \/ part = "import" /\ ImportNext
     /\ UNCHANGED <<part, commandVars, blockVars, countVars, insightVars>>
  \/ part = "blocklists" /\ BlockNext
     /\ UNCHANGED <<part, commandVars, importVars, countVars, insightVars>>
  \/ part = "count" /\ CountNext
     /\ UNCHANGED <<part, commandVars, importVars, blockVars, insightVars>>
  \/ part = "insights" /\ InsightsNext
     /\ UNCHANGED <<part, commandVars, importVars, blockVars, countVars>>

rulesVars == <<part, commandVars, importVars, blockVars, countVars, insightVars>>

\* The tasks run, every wait for a reply ends in an answer or its timeout, and the daemon
\* pings every second; a worker thread ends and the Qt thread takes what is queued for it
RulesFair ==
  /\ \A t \in Requests :
       WF_commandVars(part = "commands" /\ (TaskSends(t) \/ TaskSendsAgain(t)))
  /\ WF_commandVars(part = "commands" /\ DaemonAnswersCommand)
  /\ WF_importVars(part = "import" /\ (ChecksRule \/ ClaimsRule \/ SendsRule \/ WaitsToRetry))
  /\ WF_importVars(part = "import" /\ Finishes)
  /\ \A n \in ImportNames : /\ WF_importVars(part = "import" /\ SettlesOne(n))
                            /\ WF_importVars(part = "import" /\ Replied(n, "timeout"))
  /\ WF_countVars(part = "count" /\ PingBuilt)
  /\ WF_countVars(part = "count" /\ PingReadsInFlight)
  /\ WF_countVars(part = "count" /\ PingObserved)
  /\ WF_countVars(part = "count" /\ CountDaemonDoes)
  /\ WF_countVars(part = "count" /\ CommandSettles)
  /\ WF_countVars(part = "count" /\ DaemonTakesAnswer)
  /\ WF_countVars(part = "count" /\ ListAdopted)
  /\ WF_insightVars(part = "insights" /\ \E w \in analysts : AnalystEnds(w))
  /\ WF_insightVars(part = "insights" /\ \E r \in posted : FinishAnalysis(r))

RulesSpec == RulesInit /\ [][RulesNext]_rulesVars /\ RulesFair

-----------------------------------------------------------------------------
(* The parts together *)

\* Types of the part that runs.
RulesTypeOK ==
  CASE part = "commands" -> CommandsTypeOK [] part = "import" -> ImportTypeOK
    [] part = "blocklists" -> BlockTypeOK [] part = "count" -> CountTypeOK
    [] part = "insights" -> InsightsTypeOK

\* Every rule command is answered (rule_commands.rs), every import ends (rules_import/apply.rs),
\* a count that stays different is hinted at, one that is not is not (observe_rule_count), and
\* an analysis of the rules that was asked for ends (finish_analysis).
RulesLive ==
  /\ part = "commands" => EveryCommandAnswered
  /\ part = "import" => ImportEnds
  /\ part = "count" => LastingDisagreementShows
  /\ part = "insights" => AnalysisEnds
=============================================================================
