-------------------------- MODULE ProfileEnforcer --------------------------
(***************************************************************************)
(* How the active profile's rules reach the daemon (ProfilesManager::enforce *)
(* and DaemonProfileSink::apply): passes that read the store, install what  *)
(* is missing, delete the bridge's other profile rules and record statuses, *)
(* while profiles are edited and the daemon comes and goes.                 *)
(*                                                                         *)
(* An edit holds switch_lock; a pass does not take it.  An edit is two      *)
(* steps: the store is written, then statuses and the request for a pass.   *)
(***************************************************************************)
EXTENDS Naturals, Sequences, FiniteSets
LOCAL INSTANCE SequencesExt

CONSTANTS
  ProfileIds, RuleIds,
  GoodRules, BadRules,   \* contents the ProfileRule policy takes, and old ones it does not
  StartRules,            \* the rules of each profile a bridge may start on
  StartMem,              \* the daemon's rules under the profile prefix at the start
  MaxRulesPerProfile,    \* MAX_RULES_PER_PROFILE
  MaxProfileEdits,       \* bound: edits
  MaxProfileFaults       \* bound: failures, timeouts, lost streams and restarts

ASSUME EnforcerAssumption ==
  /\ ProfileIds \subseteq Nat \ {0}
  /\ GoodRules \cap BadRules = {}
  /\ MaxRulesPerProfile \in Nat /\ MaxProfileEdits \in Nat /\ MaxProfileFaults \in Nat

VARIABLES
  pMem, pList, pLink, pWire,   \* DaemonLink's
  ruleSets, activeId,    \* the store: each profile's rules in order; the active one, 0 for none
  after,                 \* what the edit under switch_lock has yet to do
  statuses,              \* the active profile's statuses
  requested, synced,     \* enforce_requested, and rules_synced's unseen change
  pass,                  \* the enforcement pass
  profileEdits, profileFaults,
  calm,                  \* history: nothing went wrong since the pass began
  unread                 \* history: the store could not be read

LOCAL INSTANCE DaemonLink WITH mem <- pMem, list <- pList, link <- pLink, wire <- pWire
pLinkVars == <<pMem, pList, pLink, pWire>>

enforcerVars == <<ruleSets, activeId, after, statuses, requested, synced, pass,
                  profileEdits, profileFaults, calm, unread, pLinkVars>>

NoEdit == [does |-> "nothing", rule |-> 0]
EnforcerIdle == [at |-> "idle", profile |-> 0, rules |-> <<>>, cached |-> <<>>, todo |-> <<>>,
         outcome |-> <<>>, waits |-> FALSE]

Name(p, r) == <<"profile", p, r>>
IdsOf(rs) == {rs[i].id : i \in DOMAIN rs}
RulesOf(p) == IF p = 0 THEN <<>> ELSE ruleSets[p]

Fault == profileFaults < MaxProfileFaults /\ profileFaults' = profileFaults + 1 /\ calm' = FALSE
Trouble == Fault /\ UNCHANGED unread
StoreTrouble == Fault /\ unread' = TRUE
NoTrouble == UNCHANGED <<profileFaults, calm, unread>>

-----------------------------------------------------------------------------
(* Edits: add_rule, remove_rule, activate, deactivate, delete_profile *)

EditBegins ==
  /\ after = NoEdit
  /\ profileEdits < MaxProfileEdits /\ profileEdits' = profileEdits + 1
  /\ UNCHANGED <<statuses, requested, synced, pass, pLinkVars>>

\* Statuses::pending
Pending(p) == [profile |-> p, rules |-> [r \in IdsOf(RulesOf(p)) |-> "pending"]]

\* add_rule: retained without the old rule of that id, refused when full or by the policy
AddRule(p, r, content) ==
  LET others == SelectSeq(ruleSets[p], LAMBDA rule : rule.id # r)
  IN  /\ EditBegins
      /\ Len(others) < MaxRulesPerProfile /\ content \in GoodRules
      /\ ruleSets' = [ruleSets EXCEPT ![p] = Append(others, [id |-> r, content |-> content])]
      /\ after' = IF activeId = p THEN [does |-> "pending", rule |-> r] ELSE NoEdit
      /\ NoTrouble /\ UNCHANGED activeId

RemoveRule(p, r) ==
  /\ EditBegins
  /\ r \in IdsOf(ruleSets[p])
  /\ ruleSets' = [ruleSets EXCEPT ![p] = SelectSeq(@, LAMBDA rule : rule.id # r)]
  /\ after' = IF activeId = p THEN [does |-> "forget", rule |-> r] ELSE NoEdit
  /\ NoTrouble /\ UNCHANGED activeId

\* activate_inner, from a click or the automatic switch; 0: deactivate_inner
ActivateProfile(p) ==
  /\ EditBegins
  /\ p = 0 => activeId # 0
  /\ activeId' = p
  /\ after' = [does |-> "reset", rule |-> 0]
  /\ NoTrouble /\ UNCHANGED ruleSets

\* delete_profile of the active profile; the choice's row cannot be read or cleared and
\* the edit ends there, with no pass asked for
DeleteActive ==
  /\ EditBegins
  /\ activeId # 0 /\ activeId' = 0
  /\ ruleSets' = [ruleSets EXCEPT ![activeId] = <<>>]
  /\ \/ NoTrouble /\ after' = [does |-> "reset", rule |-> 0]
     \/ StoreTrouble /\ after' = NoEdit

\* Mutant: no pass is asked for
EditEndsSilently ==
  /\ after # NoEdit /\ after' = NoEdit
  /\ statuses' =
       CASE after.does = "reset"   -> Pending(activeId)
         [] after.does = "pending" -> [statuses EXCEPT !.rules = With(@, after.rule, "pending")]
         [] after.does = "forget"  -> [statuses EXCEPT !.rules = Without(@, after.rule)]
  /\ NoTrouble /\ UNCHANGED <<ruleSets, activeId, requested, synced, pass, profileEdits, pLinkVars>>

\* The rest of the edit: reset_statuses or the one rule's status, then request_enforcement
EditEnds ==
  /\ after # NoEdit /\ after' = NoEdit
  /\ statuses' =
       CASE after.does = "reset"   -> Pending(activeId)
         [] after.does = "pending" -> [statuses EXCEPT !.rules = With(@, after.rule, "pending")]
         [] after.does = "forget"  -> [statuses EXCEPT !.rules = Without(@, after.rule)]
  /\ requested' = TRUE
  /\ NoTrouble /\ UNCHANGED <<ruleSets, activeId, synced, pass, profileEdits, pLinkVars>>

-----------------------------------------------------------------------------
(* A pass: enforce and apply *)

\* materialize_profile and capped: what the policy takes, within the limit
Wanted(rs) == {i \in DOMAIN rs : rs[i].content \in GoodRules /\ i <= MaxRulesPerProfile}
WantedRules(rs) == LET w == Wanted(rs) IN SelectSeq(rs, LAMBDA rule : \E i \in w : rs[i] = rule)

KeepsEdits == UNCHANGED <<ruleSets, activeId, after, profileEdits>>

\* enforce: the store is read (or cannot be: the request is used up), the list is copied
PassBegins ==
  /\ pass.at = "idle" /\ requested /\ requested' = FALSE
  /\ \/ StoreTrouble /\ UNCHANGED pass
     \/ /\ pass' = [at      |-> IF pLink = "listed" THEN "install" ELSE "record",
                    profile |-> activeId,
                    rules   |-> RulesOf(activeId),
                    cached  |-> pList,
                    todo    |-> IF pLink = "listed" THEN WantedRules(RulesOf(activeId)) ELSE <<>>,
                    outcome |-> <<>>,
                    waits   |-> FALSE]
        /\ calm' = (pLink = "listed" /\ pWire = <<>> /\ pList = pMem)
        /\ UNCHANGED <<profileFaults, unread>>
  /\ KeepsEdits /\ UNCHANGED <<statuses, synced, pLinkVars>>

StatusesSettled(rule, status) == [pass EXCEPT !.outcome = With(@, rule.id, status), !.todo = Tail(@),
                                      !.waits = FALSE]
\* the daemon cannot be reached: the rest is Unconfirmed, and nothing is deleted
Stopped == [pass EXCEPT !.at = "record", !.waits = FALSE]

AsListed(name, content) == name \in DOMAIN pass.cached /\ pass.cached[name] = content

\* apply: a wanted rule as the list has it is in place, any other is sent
InstallNext ==
  /\ pass.at = "install" /\ ~pass.waits /\ pass.todo # <<>>
  /\ LET rule == Head(pass.todo)
         name == Name(pass.profile, rule.id)
     IN  IF AsListed(name, rule.content)
         THEN pass' = StatusesSettled(rule, "installed") /\ NoTrouble /\ UNCHANGED pLinkVars
         ELSE \/ Sends(Change(name, rule.content)) /\ pass' = [pass EXCEPT !.waits = TRUE] /\ NoTrouble
              \/ Trouble /\ pass' = Stopped /\ UNCHANGED pLinkVars
              \/ pLink = "down" /\ pass' = Stopped /\ NoTrouble /\ UNCHANGED pLinkVars
  /\ KeepsEdits /\ UNCHANGED <<statuses, requested, synced>>

\* Mutant: whoever made them
StaleOfAnyone ==
  SetToSeq({n \in DOMAIN pass.cached :
              n \notin {Name(pass.profile, rule.id) : rule \in ToSet(WantedRules(pass.rules))}})

\* purge: the copied list's rules the bridge made and the profile does not want, by name
Stale ==
  SetToSeq({n \in DOMAIN pass.cached :
              /\ pass.cached[n] # "foreign"
              /\ n \notin {Name(pass.profile, rule.id) : rule \in ToSet(WantedRules(pass.rules))}})

PurgeBegins ==
  /\ pass.at = "install" /\ pass.todo = <<>>
  /\ pass' = [pass EXCEPT !.at = "purge", !.todo = Stale]
  /\ NoTrouble /\ KeepsEdits /\ UNCHANGED <<statuses, requested, synced, pLinkVars>>

PurgeNext ==
  /\ pass.at = "purge" /\ ~pass.waits
  /\ \/ pass.todo = <<>> /\ pass' = Stopped /\ NoTrouble /\ UNCHANGED pLinkVars
     \/ /\ pass.todo # <<>>
        /\ \/ /\ Sends(Delete(Head(pass.todo))) /\ pass' = [pass EXCEPT !.waits = TRUE] /\ NoTrouble
           \/ Trouble /\ pass' = Stopped /\ UNCHANGED pLinkVars
           \/ pLink = "down" /\ pass' = Stopped /\ NoTrouble /\ UNCHANGED pLinkVars
  /\ KeepsEdits /\ UNCHANGED <<statuses, requested, synced>>

\* The daemon carries out the oldest command; its waiter, if any, is this pass
Waited == pass.waits /\ Len(pWire) = 1
ProfileAnswered(status) ==
  pass' = IF ~Waited THEN pass
          ELSE IF pass.at = "purge" THEN [pass EXCEPT !.todo = Tail(@), !.waits = FALSE]
          ELSE StatusesSettled(Head(pass.todo), status)

DaemonAnswers ==
  /\ pWire # <<>>
  /\ \/ \E heard \in {TRUE} \cup {Waited} :
          AnswersOk(heard) /\ ProfileAnswered("installed") /\ NoTrouble
     \/ \E heard \in {TRUE} \cup {Waited}, taken \in BOOLEAN :
          AnswersError(heard, taken) /\ ProfileAnswered("notEnforced") /\ Trouble
  /\ KeepsEdits /\ UNCHANGED <<statuses, requested, synced>>

\* PROFILE_COMMAND_TIMEOUT: the command may still be carried out
PassTimesOut ==
  /\ pass.waits /\ pass' = Stopped
  /\ Trouble /\ KeepsEdits /\ UNCHANGED <<statuses, requested, synced, pLinkVars>>

\* The status of a rule after the pass
NewStatus(r, old) ==
  IF r \in DOMAIN pass.outcome THEN pass.outcome[r]
  ELSE IF r \in IdsOf(WantedRules(pass.rules)) THEN "unconfirmed"
  ELSE "notEnforced"

\* record_statuses, unless another profile became active
PassRecords ==
  /\ pass.at = "record" /\ pass' = EnforcerIdle
  /\ statuses' =
       IF statuses.profile # pass.profile THEN statuses
       ELSE [statuses EXCEPT !.rules =
               [r \in DOMAIN @ \cup IdsOf(pass.rules) |->
                  IF r \notin IdsOf(pass.rules) THEN @[r]
                  ELSE NewStatus(r, IF r \in DOMAIN @ THEN @[r] ELSE "pending")]]
  /\ NoTrouble /\ KeepsEdits /\ UNCHANGED <<requested, synced, pLinkVars>>

-----------------------------------------------------------------------------
(* The daemon comes and goes, and the bridge restarts *)

EnforcerLosesStream ==
  /\ \E done \in 0..Len(pWire) : StreamCloses(done)
  /\ pass' = IF pass.waits THEN Stopped ELSE pass
  /\ Trouble /\ KeepsEdits /\ UNCHANGED <<statuses, requested, synced>>

EnforcerGetsStream(listed) ==
  /\ StreamOpens(listed)
  /\ synced' = (synced \/ listed)
  /\ NoTrouble /\ KeepsEdits /\ UNCHANGED <<statuses, requested, pass>>

\* spawn_enforcer's first task: an adopted list asks for a pass
SyncRequests ==
  /\ synced /\ synced' = FALSE /\ requested' = TRUE
  /\ NoTrouble /\ KeepsEdits /\ UNCHANGED <<statuses, pass, pLinkVars>>

\* ProfilesManager::new and spawn_enforcer, on the store as it is
EnforcerRestarts ==
  /\ Trouble
  /\ \E done \in 0..Len(pWire) : pMem' = FoldLeft(Carried, pMem, SubSeq(pWire, 1, done))
  /\ pLink' = "down" /\ pWire' = <<>> /\ pList' = NoList
  /\ statuses' = Pending(activeId)
  /\ after' = NoEdit /\ pass' = EnforcerIdle /\ requested' = TRUE /\ synced' = FALSE
  /\ UNCHANGED <<ruleSets, activeId, profileEdits>>

-----------------------------------------------------------------------------
EnforcerInit ==
  /\ ruleSets \in StartRules /\ activeId \in ProfileIds \cup {0}
  /\ after = NoEdit /\ statuses = Pending(activeId)
  /\ requested = TRUE /\ synced = FALSE /\ pass = EnforcerIdle
  /\ profileEdits = 0 /\ profileFaults = 0 /\ calm = FALSE /\ unread = FALSE
  /\ pMem \in StartMem /\ pList = NoList /\ pLink = "down" /\ pWire = <<>>

PassSteps ==
  PassBegins \/ InstallNext \/ PurgeBegins \/ PurgeNext \/ PassRecords \/ SyncRequests \/ EditEnds

EnforcerNext ==
  \/ \E p \in ProfileIds, r \in RuleIds :
       RemoveRule(p, r) \/ \E content \in GoodRules : AddRule(p, r, content)
  \/ \E p \in ProfileIds \cup {0} : ActivateProfile(p)
  \/ DeleteActive
  \/ PassSteps
  \/ DaemonAnswers \/ PassTimesOut \/ EnforcerLosesStream
  \/ \E listed \in BOOLEAN : EnforcerGetsStream(listed)
  \/ EnforcerRestarts

EnforcerSpec == EnforcerInit /\ [][EnforcerNext]_enforcerVars

-----------------------------------------------------------------------------
(* Properties *)

Status == {"pending", "installed", "notEnforced", "unconfirmed"}

\* Values are of their types: no profile is over its limit but by an old store, and a
\* pass waits for at most one command.
EnforcerTypeOK ==
  /\ activeId \in ProfileIds \cup {0}
  /\ \A p \in ProfileIds : \A i \in DOMAIN ruleSets[p] :
       ruleSets[p][i].id \in RuleIds /\ ruleSets[p][i].content \in GoodRules \cup BadRules
  /\ after.does \in {"nothing", "reset", "pending", "forget"}
  /\ statuses.profile \in ProfileIds \cup {0}
  /\ \A r \in DOMAIN statuses.rules : r \in RuleIds /\ statuses.rules[r] \in Status
  /\ pass.at \in {"idle", "install", "purge", "record"}
  /\ pass.waits => pass.at \in {"install", "purge"} /\ pWire # <<>>
  /\ pLink \in {"down", "unlisted", "listed"} /\ (pLink # "listed" => pList = NoList)

ActiveRules == {<<Name(activeId, rule.id), rule.content>> : rule \in ToSet(WantedRules(RulesOf(activeId)))}

\* When nothing is left to do and nothing went wrong since the last pass began, the daemon
\* holds exactly the active profile's rules among those the bridge made, and the page says
\* so of each; a profile whose deletion ended early leaves its statuses behind ("make the daemon
\* hold exactly the rules it is given", enforcer.rs:3-5).
QuietMeansEnforced ==
  pass.at = "idle" /\ ~requested /\ ~synced /\ after = NoEdit /\ calm =>
    /\ {<<n, pMem[n]>> : n \in {m \in DOMAIN pMem : pMem[m] # "foreign"}} = ActiveRules
    /\ unread \/ statuses.profile = activeId
    /\ \A rule \in ToSet(RulesOf(activeId)) :
         statuses.rules[rule.id] = IF rule \in ToSet(WantedRules(RulesOf(activeId)))
                                   THEN "installed" ELSE "notEnforced"

\* "Switching profiles never leaves a moment without the new profile's denies"
\* (enforcer.rs:18): while old rules are being deleted, every wanted rule that the daemon
\* did not refuse is in its memory.
NewRulesBeforeDeletes ==
  pass.at = "purge" /\ calm =>
    \A rule \in ToSet(WantedRules(pass.rules)) :
      LET name == Name(pass.profile, rule.id) IN name \in DOMAIN pMem /\ pMem[name] = rule.content

\* The daemon ends up with the active profile's rules, and on the way is never without them.
ProfileIsEnforced == QuietMeansEnforced /\ NewRulesBeforeDeletes


\* A rule under the profile prefix that the bridge did not make is never deleted: it stays
\* until a wanted rule of the same name replaces it (made_by_bridge).
ForeignRulesStay == [][{n \in DOMAIN pMem : pMem[n] = "foreign"} \subseteq DOMAIN pMem']_enforcerVars

\* No status stays pending, whatever edits and daemon troubles came before, unless the
\* store could not be read (the request for a pass is used up or never made then).
PendingResolves ==
  []~unread => <>[](\A r \in DOMAIN statuses.rules : statuses.rules[r] # "pending")
=============================================================================
