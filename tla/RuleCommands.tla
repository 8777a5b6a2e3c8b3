---------------------------- MODULE RuleCommands ----------------------------
(***************************************************************************)
(* Rule commands from GUIs (bridge-cli rule_commands.rs and its modules): an *)
(* add, an edit, a rename, a toggle, a delete, and a toggle of a recommended *)
(* rule, each planned against the bridge's list, run as one or two commands *)
(* to the daemon, and answered.                                             *)
(*                                                                         *)
(* The pump plans commands one at a time; a toggle or a delete is sent at   *)
(* once, any other claims its names and is run by a task.  The daemon is    *)
(* rule/loader.go as mock_opensnitchd/src/loader.rs has it: memory and one  *)
(* file per always rule.  The daemon link is the Unix socket's.             *)
(***************************************************************************)
EXTENDS Naturals, Sequences, FiniteSets
LOCAL INSTANCE SequencesExt

CONSTANTS
  RuleNames,       \* names of rules
  Recommended,     \* those under the curated prefix
  NoRule,
  Bodies,          \* what a rule says, apart from duration and enabled
  Requests,        \* the commands GUIs send
  StartFiles,      \* the rule files the daemon starts on
  MaxLinkFaults    \* bound: timeouts, lost streams, answers after the grace, daemon restarts

ASSUME RuleCommandsAssumption == Recommended \subseteq RuleNames /\ MaxLinkFaults \in Nat

VARIABLES
  cMem, cList, cLink, cWire,   \* DaemonLink's
  ruleFiles,           \* the daemon's rule files, by name
  busyNames,            \* BusyNames
  task,            \* each request's plan and how far it is
  linkFaults,
  adrift,          \* history: names the list may be wrong about
  shaken           \* history: requests planned on a stream that closed before all was sent

LOCAL INSTANCE DaemonLink WITH mem <- cMem, list <- cList, link <- cLink, wire <- cWire
cLinkVars == <<cMem, cList, cLink, cWire>>

commandVars == <<cLinkVars, ruleFiles, busyNames, task, linkFaults, adrift, shaken>>

RuleValues == [always : BOOLEAN, on : BOOLEAN, body : Bodies]
NoTask == [plan |-> "none", name |-> "none", new |-> "none", rule |-> NoRule, old |-> NoRule,
           at |-> "free", outcome |-> "none"]

\* f's value at n, NoRule outside its domain
At(f, n) == IF n \in DOMAIN f THEN f[n] ELSE NoRule

LinkFault == linkFaults < MaxLinkFaults /\ linkFaults' = linkFaults + 1
LinkWorks == UNCHANGED linkFaults

-----------------------------------------------------------------------------
(* opensnitchd *)

\* loader.rs: what a command makes of memory and files d.  luck.works: the file operation
\* succeeds; luck.compiles: the operator does; luck.reloads: a removed file drops the rule.
Loader(d, c, luck) ==
  LET n == c.name
      always == n \in DOMAIN d.mem /\ d.mem[n].always
      removed == IF always /\ luck.works THEN Without(d.files, n) ELSE d.files
      left == IF c.op = "delete" \/ ~c.rule.always THEN removed ELSE d.files
  IN  IF c.op = "delete"
      THEN [mem |-> Without(d.mem, n), files |-> left, ok |-> always => luck.works]
      ELSE IF c.rule.on /\ ~luck.compiles
      THEN [mem |-> IF left # d.files /\ luck.reloads THEN Without(d.mem, n) ELSE d.mem,
            files |-> left, ok |-> FALSE]
      ELSE [mem |-> With(d.mem, n, c.rule),
            files |-> IF c.rule.always /\ luck.works THEN With(left, n, c.rule) ELSE left,
            ok |-> c.rule.always => luck.works]

Daemon == [mem |-> cMem, files |-> ruleFiles, ok |-> TRUE]
Luck == [works : BOOLEAN, compiles : BOOLEAN, reloads : BOOLEAN]

\* apply_confirmed and apply_refused on the bridge's list
ListAfter(c, ok) ==
  IF ok \/ c.op = "delete" \/ (c.rule.always /\ ~c.rule.on) THEN Carried(cList, c) ELSE cList

-----------------------------------------------------------------------------
(* The gates: gates.rs, on the list as it is *)

CommandKnown == cLink = "listed"
NameFree(n) == CommandKnown /\ n \notin DOMAIN cList /\ n \notin busyNames
Changeable(n) == CommandKnown /\ n \in DOMAIN cList /\ n \notin busyNames /\ n \notin Recommended
OnlyEnabledDiffers(old, new) == new = [old EXCEPT !.on = new.on]

Planned(t, plan, n, new, rule) ==
  task' = [task EXCEPT ![t] = [plan |-> plan, name |-> n, new |-> new, rule |-> rule,
                               old |-> At(cList, n), at |-> "start", outcome |-> "none"]]

\* RuleCommands::run: the names are claimed, and a task is spawned
Claims(names) ==
  /\ busyNames' = busyNames \cup names
  /\ LinkWorks /\ UNCHANGED <<cLinkVars, ruleFiles, adrift, shaken>>

PlanAdd(t, n, rule) ==
  /\ task[t] = NoTask /\ n \notin Recommended /\ NameFree(n)
  /\ Planned(t, "add", n, n, rule) /\ Claims({n})

PlanEdit(t, n, rule) ==
  /\ task[t] = NoTask /\ Changeable(n) /\ ~OnlyEnabledDiffers(cList[n], rule)
  /\ Planned(t, "edit", n, n, rule) /\ Claims({n})

\* Mutant: the new name is not claimed
PlanRenameOfOld(t, n, new, rule) ==
  /\ task[t] = NoTask /\ n # new /\ Changeable(n) /\ new \notin Recommended /\ NameFree(new)
  /\ Planned(t, "rename", n, new, rule) /\ Claims({n})

PlanRename(t, n, new, rule) ==
  /\ task[t] = NoTask /\ n # new /\ Changeable(n) /\ new \notin Recommended /\ NameFree(new)
  /\ Planned(t, "rename", n, new, rule) /\ Claims({n, new})

\* A toggle or a delete is sent by the pump itself, and claims nothing
PlanToggle(t, n) ==
  /\ task[t] = NoTask /\ Changeable(n)
  /\ LET rule == [cList[n] EXCEPT !.on = ~@]
     IN  /\ Sends([op |-> "change", name |-> n, rule |-> rule, by |-> t, step |-> 1])
         /\ task' = [task EXCEPT ![t] = [NoTask EXCEPT !.plan = "toggle", !.name = n, !.new = n,
                                         !.rule = rule, !.old = cList[n], !.at = "first"]]
  /\ LinkWorks /\ UNCHANGED <<ruleFiles, busyNames, adrift, shaken>>

PlanDelete(t, n) ==
  /\ task[t] = NoTask /\ n \notin busyNames /\ n \notin Recommended
  /\ \/ /\ Sends([op |-> "delete", name |-> n, rule |-> NoRule, by |-> t, step |-> 1])
        /\ task' = [task EXCEPT ![t] = [NoTask EXCEPT !.plan = "delete", !.name = n, !.new = n,
                                        !.old = At(cList, n), !.at = "first"]]
     \/ /\ cLink = "down" /\ UNCHANGED cLinkVars
        /\ task' = [task EXCEPT ![t] = [NoTask EXCEPT !.at = "done", !.outcome = "noDaemon"]]
  /\ LinkWorks /\ UNCHANGED <<ruleFiles, busyNames, adrift, shaken>>

\* plan_curated_toggle and toggle_curated: busy until answered, the undo included
PlanCurated(t, n) ==
  /\ task[t] = NoTask /\ CommandKnown /\ n \in Recommended \cap DOMAIN cList /\ n \notin busyNames
  /\ LET rule == [cList[n] EXCEPT !.on = ~@]
     IN  /\ Sends([op |-> "change", name |-> n, rule |-> rule, by |-> t, step |-> 1])
         /\ task' = [task EXCEPT ![t] = [NoTask EXCEPT !.plan = "curated", !.name = n, !.new = n,
                                         !.rule = rule, !.old = cList[n], !.at = "first"]]
  /\ busyNames' = busyNames \cup {n}
  /\ LinkWorks /\ UNCHANGED <<ruleFiles, adrift, shaken>>

-----------------------------------------------------------------------------
(* The tasks *)

NamesOf(t) == {task[t].name, task[t].new}
Claiming == {"add", "edit", "rename", "curated"}
Released(t) == IF task[t].plan \in Claiming THEN busyNames \ NamesOf(t) ELSE busyNames

\* edit.rs: loses_file
LosesFile(t) == task[t].old.always /\ ~task[t].rule.always

CommandEnds(t, outcome) ==
  /\ task' = [task EXCEPT ![t].at = "done", ![t].outcome = outcome]
  /\ busyNames' = Released(t)

\* The first command of a claimed plan; a stream that does not take it ends the task
TaskSends(t) ==
  /\ task[t].at = "start"
  /\ \/ /\ Sends([op |-> "change", name |-> task[t].new, rule |-> task[t].rule, by |-> t, step |-> 1])
        /\ task' = [task EXCEPT ![t].at = "first"] /\ UNCHANGED busyNames
     \/ cLink = "down" /\ CommandEnds(t, "noDaemon") /\ UNCHANGED cLinkVars
  /\ LinkWorks /\ UNCHANGED <<ruleFiles, adrift, shaken>>

\* The second: a rename deletes the old name, a refused edit is undone, and so is a
\* refused turn-on of a recommended rule
SecondCommand(t) ==
  CASE task[t].plan = "rename"  -> Delete(task[t].name)
    [] task[t].plan = "edit"    -> Change(task[t].name, task[t].old)
    [] task[t].plan = "curated" -> Change(task[t].name, [task[t].rule EXCEPT !.on = FALSE])

TaskSendsAgain(t) ==
  /\ task[t].at = "again"
  /\ \/ LET c == SecondCommand(t)
        IN  /\ Sends([op |-> c.op, name |-> c.name, rule |-> c.rule, by |-> t, step |-> 2])
            /\ task' = [task EXCEPT ![t].at = "second"] /\ UNCHANGED busyNames
     \/ /\ cLink = "down"
        /\ IF task[t].plan = "edit"
           THEN CommandEnds(t, "gone") /\ cList' = Without(cList, task[t].name)
           ELSE CommandEnds(t, IF task[t].plan = "rename" THEN "unsure" ELSE "rejected") /\ UNCHANGED cList
        /\ UNCHANGED <<cMem, cLink, cWire>>
  /\ LinkWorks /\ UNCHANGED <<ruleFiles, adrift, shaken>>

\* Mutant: a refused change that may apply is answered Rejected
RefusedIsRejected(rule) == IF rule.always /\ ~rule.on THEN "note" ELSE "rejected"

\* refused.rs: what a refused change is answered as
IfRefused(rule) ==
  IF rule.always /\ ~rule.on THEN "note" ELSE IF rule.always THEN "unsure" ELSE "rejected"

GoesOn(t) == task' = [task EXCEPT ![t].at = "again"] /\ UNCHANGED busyNames

Undone(t) ==
  (task[t].plan = "edit" /\ LosesFile(t)) \/ (task[t].plan = "curated" /\ task[t].rule.on)

NeedsSecond(t, ok) == (ok /\ task[t].plan = "rename") \/ (~ok /\ Undone(t))

\* The first command was answered
FirstAnswered(t, ok) ==
  LET plan == task[t].plan
  IN  IF NeedsSecond(t, ok) THEN GoesOn(t)
      ELSE CommandEnds(t, IF ok THEN "ok"
                   ELSE IF plan = "rename" THEN "rejected"
                   ELSE IF plan = "delete" THEN "note"
                   ELSE IfRefused(task[t].rule))

\* The second was: a refused delete of a rename's old name left memory all the same
SecondAnswered(t, ok) ==
  CommandEnds(t, CASE task[t].plan = "rename"  -> IF ok THEN "ok" ELSE "note"
            [] task[t].plan = "edit"    -> IF ok THEN "rejected" ELSE "gone"
            [] task[t].plan = "curated" -> "rejected")

Waits(t) == task[t].at \in {"first", "second"}

\* A command timed out, or its stream closed: what the task answers
Unanswered(t) ==
  CASE task[t].plan = "rename" -> "unsure"
    [] task[t].plan = "edit"   -> IF task[t].at = "second" THEN "gone"
                                  ELSE IF LosesFile(t) THEN "unsure" ELSE "timeout"
    [] task[t].plan = "curated" /\ task[t].at = "second" -> "rejected"
    [] OTHER -> "timeout"

\* edit.rs: a rule whose file may be gone leaves the bridge's list
Forgotten(t) == IF task[t].plan = "edit" /\ LosesFile(t) THEN {task[t].name} ELSE {}
ForgetNames(l, names) == [n \in DOMAIN l \ names |-> l[n]]

-----------------------------------------------------------------------------
(* Answers, and their absence *)

\* Two commands for one name are out: a toggle or a delete does not claim it
Crowded(n) == \E i, j \in DOMAIN cWire : i # j /\ cWire[i].name = n /\ cWire[j].name = n

\* The daemon carries out the oldest command.  An answer after the timeout reaches the
\* list only, and after LATE_REPLY_GRACE nothing.
CommandAnswered(luck, heard) ==
  LET c == Head(cWire)
      r == Loader(Daemon, c, luck)
      t == c.by
      waited == task[t].at = IF c.step = 1 THEN "first" ELSE "second"
  IN  /\ waited => heard
      /\ cMem' = r.mem /\ ruleFiles' = r.files /\ UNCHANGED <<cLink, shaken>>
      /\ IF heard THEN LinkWorks ELSE LinkFault
      /\ adrift' = IF heard /\ (waited \/ c.name \notin busyNames) THEN adrift ELSE adrift \cup {c.name}
      /\ cList' = LET l == IF heard /\ CommandKnown THEN ListAfter(c, r.ok) ELSE cList
                 IN  IF waited /\ c.step = 2 /\ ~r.ok THEN ForgetNames(l, Forgotten(t)) ELSE l
      /\ IF ~waited THEN UNCHANGED <<task, busyNames>>
         ELSE IF c.step = 1 THEN FirstAnswered(t, r.ok) ELSE SecondAnswered(t, r.ok)

\* The answer to the oldest command comes, or is lost
DaemonAnswersCommand ==
  /\ cWire # <<>> /\ cWire' = Tail(cWire)
  /\ \E luck \in Luck, heard \in BOOLEAN : CommandAnswered(luck, heard)

\* REPLY_TIMEOUT
ReplyTimesOut(t) ==
  /\ Waits(t) /\ LinkFault
  /\ CommandEnds(t, Unanswered(t))
  /\ cList' = ForgetNames(cList, Forgotten(t))
  /\ adrift' = adrift \cup {n \in NamesOf(t) : Crowded(n)}
  /\ UNCHANGED <<cMem, cLink, cWire, ruleFiles, shaken>>

\* Mutant: nobody tells the tasks that wait
WaitersStay == task

WaitersEnd ==
  [t \in Requests |-> IF Waits(t) THEN [task[t] EXCEPT !.at = "done", !.outcome = Unanswered(t)]
                      ELSE task[t]]

\* The stream closes, some of what was sent on it carried out, and the daemon may restart
LinkLost(done, luck, restarts) ==
  LET d == FoldLeft(LAMBDA x, c : Loader(x, c, luck), Daemon, SubSeq(cWire, 1, done))
  IN  /\ cLink # "down" /\ cLink' = "down" /\ LinkFault
      /\ cMem' = IF restarts THEN d.files ELSE d.mem
      /\ ruleFiles' = d.files /\ cList' = NoList /\ cWire' = <<>> /\ adrift' = {}
      /\ shaken' = shaken \cup {t \in Requests : task[t].at \in {"start", "again"}}
      /\ task' = WaitersEnd
      /\ busyNames' = busyNames \ UNION {NamesOf(t) : t \in {u \in Requests : Waits(u) /\ task[u].plan \in Claiming}}

LinkBack == \E listed \in BOOLEAN : StreamOpens(listed) /\ UNCHANGED <<ruleFiles, busyNames, task, linkFaults, adrift, shaken>>

-----------------------------------------------------------------------------
CommandsInit ==
  /\ ruleFiles \in StartFiles /\ cMem = ruleFiles /\ cList = cMem /\ cLink = "listed" /\ cWire = <<>>
  /\ busyNames = {} /\ task = [t \in Requests |-> NoTask] /\ linkFaults = 0 /\ adrift = {} /\ shaken = {}

CommandsNext ==
  \/ \E t \in {u \in Requests : task[u] = NoTask}, n \in RuleNames :
       \/ PlanToggle(t, n) \/ PlanDelete(t, n) \/ PlanCurated(t, n)
       \/ \E rule \in RuleValues :
            PlanAdd(t, n, rule) \/ PlanEdit(t, n, rule) \/ \E new \in RuleNames : PlanRename(t, n, new, rule)
  \/ \E t \in Requests : TaskSends(t) \/ TaskSendsAgain(t) \/ ReplyTimesOut(t)
  \/ DaemonAnswersCommand
  \/ \E done \in 0..Len(cWire), luck \in Luck, restarts \in BOOLEAN : LinkLost(done, luck, restarts)
  \/ LinkBack

CommandsSpec == CommandsInit /\ [][CommandsNext]_commandVars

-----------------------------------------------------------------------------
(* Properties *)

Outcomes == {"none", "ok", "note", "rejected", "gone", "unsure", "timeout", "noDaemon"}

\* Values are of their types, and a command on the wire is of a planned task.
CommandsTypeOK ==
  /\ DOMAIN cMem \subseteq RuleNames /\ DOMAIN ruleFiles \subseteq RuleNames
  /\ \A n \in DOMAIN cMem : cMem[n] \in RuleValues
  /\ \A n \in DOMAIN ruleFiles : ruleFiles[n] \in RuleValues /\ ruleFiles[n].always
  /\ DOMAIN cList \subseteq RuleNames /\ (cLink # "listed" => cList = NoList)
  /\ \A t \in Requests : /\ task[t].at \in {"free", "start", "first", "again", "second", "done"}
                         /\ task[t].outcome \in Outcomes
  /\ \A i \in DOMAIN cWire : task[cWire[i].by] # NoTask

CommandFinishes(t) == task[t].at # "done" /\ task'[t].at = "done"

\* What a result says is so in the daemon when it is given: OK and OkWithNote that the
\* change applies, Rejected that it does not ("every GUI reads that as not changed",
\* refused.rs:7).  Left out are a refused rename, which may have added the new rule, and a
\* refused turn-on of a recommended rule, which is undone.
ResultsTellTheDaemon ==
  [][\A t \in Requests : CommandFinishes(t) =>
       LET k == task'[t]
       IN  /\ k.outcome \in {"ok", "note"} =>
                IF k.plan = "delete" THEN k.name \notin DOMAIN cMem'
                ELSE /\ t \notin shaken => k.new \in DOMAIN cMem' /\ cMem'[k.new] = k.rule
                     /\ k.plan = "rename" => k.name \notin DOMAIN cMem'
           /\ k.outcome = "ok" /\ k.plan # "delete" /\ k.rule.always =>
                k.new \in DOMAIN ruleFiles' /\ ruleFiles'[k.new] = k.rule
           /\ k.outcome = "rejected" /\ k.plan \in {"add", "toggle", "edit"} =>
                IF task[t].at = "second" THEN At(cMem', k.new) = k.old
                ELSE At(cMem', k.new) = k.rule => At(cMem, k.new) = k.rule]_commandVars

\* "Neither can't result" (rename.rs:18): once the new rule was taken, one of the two
\* applies until the rename is over, unless the daemon restarts.
NeverNeither ==
  \A t \in Requests : task[t].plan = "rename" /\ task[t].at \in {"again", "second"} =>
    task[t].new \in DOMAIN cMem \/ (t \in shaken /\ ~task[t].rule.always)

\* The list names no rule the daemon has lost, but for a rule a command is still out for
\* (edit.rs: "the bridge's list mustn't claim it any more").
ListClaimsNoLostRule ==
  \A n \in DOMAIN cList : n \in DOMAIN cMem \/ n \in busyNames \/ n \in adrift
                         \/ \E t \in shaken : n = task[t].new
                         \/ \E i \in DOMAIN cWire : cWire[i].name = n

\* No two-step command loses a rule, in the daemon or in what the list says of it, since no
\* other command may change its names meanwhile (busy.rs).
NoRuleIsLost == NeverNeither /\ ListClaimsNoLostRule


\* Every command a GUI sends is answered, once.
EveryCommandAnswered == \A t \in Requests : (task[t] # NoTask) ~> (task[t].at = "done")
=============================================================================
