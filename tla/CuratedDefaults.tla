-------------------------- MODULE CuratedDefaults --------------------------
(***************************************************************************)
(* One recommended rule (a curated default) from the user's choice to the   *)
(* daemon and back: CuratedDefaults' worker, the choices it saves, the      *)
(* consent a broad rule (DNS) needs, and a daemon that may refuse, not      *)
(* answer, restart, or have the rule edited behind the bridge's back.       *)
(*                                                                         *)
(* The entry is pinned to a service account, whose uid the worker looks up. *)
(* Entries share nothing but the pass, so one stands for all.  Copies too   *)
(* large for the list, orphans and the private replies to GUIs are left     *)
(* out.  Each stream of the daemon brings one list.                         *)
(***************************************************************************)
EXTENDS Naturals, Sequences
LOCAL INSTANCE SequencesExt

CONSTANTS
  MaxAsks,      \* bound: requests of GUIs
  MaxCurFaults, \* bound: refusals, timeouts, closed streams, failed saves, ends of the bridge
  MaxOutside    \* bound: edits and removals outside the bridge, moves of the account

VARIABLES
  entryBroad,   \* CuratedEntry::broad
  curDaemon,       \* the daemon's rule in memory, and its file
  curCache,        \* RulesCache: its copy of the rule, its mark of a file left; the stream
  curWire,      \* commands sent and not carried out
  state,        \* State of the manager
  curSaved,        \* the choices in the file
  curPass,         \* the worker
  look,         \* a part of the PassKey changed since the worker last read it
  account,      \* the uid of the service account, the last lookup's, whether one is running
  asked, faulted, outside,
  told          \* history: what the user did, and what the bridge cannot know (NoHistory)

curVars == <<entryBroad, curDaemon, curCache, curWire, state, curSaved, curPass, look, account,
             asked, faulted, outside, told>>

-----------------------------------------------------------------------------
(* History, for the properties *)

NoHistory ==
  [revoked |-> TRUE,    \* consent was withdrawn since it was given, or never given
   gone |-> FALSE,      \* a rule that was on was removed outside the bridge
   removing |-> FALSE,  \* the user asked to remove an edited copy
   noteLost |-> FALSE,  \* the bridge ended before it saved that a file is left
   unseen |-> FALSE]    \* what the list of this stream can't tell: a late answer ignored, a
                        \* toggle refused and applied (the Rules page's, or not undone)

-----------------------------------------------------------------------------
(* Copies of the rule *)

Uids == {"uid1", "uid2"}
NoUid == "none"
NoCopy == [what |-> "none", on |-> FALSE]
Copy(what, on) == [what |-> what, on |-> on]
Copies == {NoCopy} \cup [what : Uids \cup {"legacy", "edited"}, on : BOOLEAN]

IsUnedited(c) == c.what \in Uids
IsLegacy(c) == c.what = "legacy"
StillEdited(c) == c.what = "edited"

(* Choices *)

NoChoices == [choice |-> "undecided", ours |-> FALSE, removedOutside |-> FALSE,
              grant |-> "none", fileLeft |-> FALSE]

Enable(ch) == [ch EXCEPT !.choice = "on",
                         !.removedOutside = IF ch.choice = "on" THEN @ ELSE FALSE]
Disable(ch) == [ch EXCEPT !.choice = "off", !.grant = "none"]
UserRemoved(ch) == [ch EXCEPT !.ours = FALSE, !.removedOutside = TRUE, !.grant = "none"]

HasBroadAuthority(ch) == ch.choice = "on" /\ ~ch.removedOutside /\ ch.grant = "enable"

\* keep: a change is saved by the worker, and asks for a look
Keep(s, ch) == IF s.choices = ch THEN s ELSE [s EXCEPT !.choices = ch, !.unsaved = TRUE]

\* revoke_locked
Revoke(s) ==
  IF ~entryBroad THEN s
  ELSE Keep([s EXCEPT !.revision = @ + 1, !.reenable = 0], [s.choices EXCEPT !.grant = "none"])

NoFailure == [stream |-> 0, status |-> "none"]
NoRecord == [stream |-> 0, file |-> FALSE]

NewState(ch) ==
  [choices |-> ch, unsaved |-> FALSE, revision |-> 1, reenable |-> 0, removal |-> FALSE,
   status |-> "off", failed |-> NoFailure, removalFailed |-> 0, maybe |-> NoRecord,
   withheld |-> FALSE, moved |-> FALSE, found |-> NoUid, inert |-> FALSE, ticket |-> "none",
   ticketRevision |-> 0]

CurKnown == curCache.link = "listed"
StillMissing == CurKnown /\ curCache.copy = NoCopy

-----------------------------------------------------------------------------
(* reconcile::plan for the entry: the choices to keep, the action and the status *)

InFirewall(c) == IF c.on THEN "inFirewall" ELSE "inFirewallOff"
Installed(c) == IF c.on THEN "installed" ELSE "installedOff"
CurPlanned(ch, action, status) == [choices |-> ch, action |-> action, status |-> status]

PlanMissing(ch, maybe, fileLeft) ==
  LET next == [ch EXCEPT !.ours = FALSE]
  IN  CASE ch.choice # "on" /\ maybe -> CurPlanned(next, "delete", "removing")
        [] ch.choice # "on" /\ ~maybe /\ fileLeft -> CurPlanned(next, "none", "offFileLeft")
        [] ch.choice # "on" /\ ~maybe /\ ~fileLeft -> CurPlanned(next, "none", "off")
        [] ch.choice = "on" /\ (ch.removedOutside \/ ch.ours) ->
             CurPlanned([next EXCEPT !.removedOutside = TRUE, !.grant = "none"], "none", "deletedOutside")
        [] OTHER ->
             IF entryBroad /\ ~HasBroadAuthority(ch) THEN CurPlanned(next, "none", "awaiting")
             ELSE CurPlanned(next, "install", "installing")

PlanPresent(ch, c) ==
  LET next == [ch EXCEPT !.ours = TRUE, !.removedOutside = FALSE]
  IN  CASE StillEdited(c) -> CurPlanned(ch, "none", "edited")
        [] ~StillEdited(c) /\ ch.choice = "undecided" -> CurPlanned(ch, "none", InFirewall(c))
        [] ~StillEdited(c) /\ ch.choice = "off" -> CurPlanned(next, "delete", "removing")
        [] OTHER -> CurPlanned(next, IF IsLegacy(c) THEN "upgrade" ELSE "none", Installed(c))

PlanEntry(ch, c, maybe, fileLeft) ==
  IF c = NoCopy THEN PlanMissing(ch, maybe, fileLeft) ELSE PlanPresent(ch, c)

\* moved: an unedited copy at another uid than the account's
Moved(c, uid) == uid # NoUid /\ IsUnedited(c) /\ c.what # uid

-----------------------------------------------------------------------------
(* The worker *)

CurIdle == [at |-> "idle", stream |-> 0, copy |-> NoCopy, mark |-> FALSE, todo |-> <<>>,
         revision |-> 0, reenable |-> 0, sent |-> NoCopy, flag |-> FALSE, outcome |-> "none"]

\* save_if_changed: done, or failed, which leaves the bridge inert
SavesState(s) ==
  IF s.inert \/ ~s.unsaved THEN curSaved' = curSaved /\ state' = s /\ UNCHANGED faulted
  ELSE \/ curSaved' = s.choices /\ state' = [s EXCEPT !.unsaved = FALSE] /\ UNCHANGED faulted
       \/ /\ faulted < MaxCurFaults /\ faulted' = faulted + 1
          /\ state' = [s EXCEPT !.inert = TRUE] /\ curSaved' = curSaved

\* Mutant: each step of a pass asks for another pass
LooksEachStep(before, request) == look' = (request \/ before \/ curPass' # curPass)

\* A change of what a pass reads asks for another; GUI requests do so by themselves
Looks(before, request) ==
  look' = \/ request \/ before
          \/ state'.choices # state.choices \/ state'.inert # state.inert \/ curCache' # curCache

\* reconcile, to the account lookup: saves, then reads the stream and the list.  An unknown
\* list forgets the removal asked for.
StartsPass ==
  /\ curPass.at = "idle" /\ look
  /\ SavesState(IF CurKnown THEN state ELSE [state EXCEPT !.removal = FALSE])
  /\ curPass' = IF CurKnown THEN [CurIdle EXCEPT !.at = "looking", !.stream = curCache.stream,
                                        !.copy = curCache.copy, !.mark = curCache.mark]
             ELSE CurIdle
  /\ UNCHANGED <<entryBroad, curDaemon, curCache, curWire, account, asked, outside, told>>
  /\ Looks(FALSE, FALSE)

\* handle_moved, without_failed, show_removal_failures and withhold, over the plan
Decide(s, plan, uid) ==
  LET moved == Moved(curPass.copy, uid)
      active == curPass.copy.on
      rewrite == /\ moved /\ plan.choices.choice = "on"
                 /\ ~(entryBroad /\ active /\ ~HasBroadAuthority(plan.choices))
      action == IF rewrite THEN "upgrade" ELSE plan.action
      failed == IF action # "none" /\ s.failed.stream = curPass.stream THEN s.failed ELSE NoFailure
      refused == s.removalFailed = curPass.stream /\ StillEdited(curPass.copy)
      status == IF refused THEN "notRemoved" ELSE IF failed # NoFailure THEN failed.status ELSE plan.status
      withheld == uid = NoUid
  IN  [action |-> IF failed # NoFailure \/ (withheld /\ action \in {"install", "upgrade"})
                  THEN "none" ELSE action,
       state |-> [Keep(s, plan.choices) EXCEPT
                    !.failed = failed,
                    !.removalFailed = IF refused THEN @ ELSE 0,
                    !.status = IF withheld /\ status \notin {"inFirewall", "inFirewallOff"}
                               THEN "unavailable" ELSE status,
                    !.reenable = IF moved \/ withheld THEN 0 ELSE @,
                    !.withheld = withheld, !.moved = moved, !.found = uid]]

InertStatus(c) ==
  IF c = NoCopy THEN "unavailable" ELSE IF StillEdited(c) THEN "edited" ELSE InFirewall(c)

\* What the pass takes from the lookup: its answer, or the last one's while it is running
Lookup ==
  \/ account' = [account EXCEPT !.found = account.uid] /\ ~account.busy /\ UNCHANGED faulted
  \/ account.busy /\ UNCHANGED <<account, faulted>>
  \/ /\ ~account.busy /\ faulted < MaxCurFaults /\ faulted' = faulted + 1
     /\ account' \in {[account EXCEPT !.found = NoUid], [account EXCEPT !.busy = TRUE]}

\* A lookup the pass gave up on answers: a changed result asks for a pass
LookupLands ==
  /\ account.busy /\ account' = [account EXCEPT !.found = account.uid, !.busy = FALSE]
  /\ look' = (look \/ account'.found # account.found)
  /\ UNCHANGED <<entryBroad, curDaemon, curCache, curWire, state, curSaved, curPass, asked, faulted, outside,
                 told>>

\* The rest of reconcile up to its commands
PlansFor(uid) ==
  LET maybe == IF state.maybe.stream = curPass.stream THEN state.maybe ELSE NoRecord
      noFile == state.maybe # NoRecord /\ ~state.maybe.file /\ curPass.mark
      left == (curPass.mark /\ ~noFile) \/ state.choices.fileLeft
      plan == PlanEntry(state.choices, curPass.copy, maybe # NoRecord, left)
      decided == Decide([state EXCEPT !.maybe = maybe], plan, uid)
      Item(when, do) == IF when THEN <<do, "save">> ELSE <<>>
  IN  /\ curCache' = IF noFile THEN [curCache EXCEPT !.mark = FALSE, !.held = FALSE] ELSE curCache
      /\ state' = [decided.state EXCEPT !.removal = FALSE, !.reenable = 0]
      /\ curPass' = [curPass EXCEPT
                    !.at = "acting", !.revision = decided.state.revision,
                    !.reenable = decided.state.reenable,
                    !.todo = <<"save">> \o Item(decided.state.removal, "remove")
                               \o Item(decided.action # "none", decided.action)
                               \o Item(decided.state.reenable # 0, "reenable")]

Plans ==
  /\ curPass.at = "looking"
  /\ \/ ~state.inert /\ Lookup /\ PlansFor(account'.found)
     \/ /\ state.inert /\ UNCHANGED <<account, curCache, faulted>> /\ curPass' = CurIdle
        /\ state' = [state EXCEPT !.status = InertStatus(curPass.copy), !.removal = FALSE,
                                  !.removalFailed = 0, !.reenable = 0,
                                  !.maybe = IF @.stream = curPass.stream THEN @ ELSE NoRecord]
  /\ Looks(look, FALSE)
  /\ UNCHANGED <<entryBroad, curDaemon, curWire, curSaved, asked, outside, told>>

Doing(item) == curPass.at = "acting" /\ curPass.todo # <<>> /\ Head(curPass.todo) = item
CurDone == [curPass EXCEPT !.todo = Tail(@)]

SavesChoices ==
  /\ Doing("save") /\ SavesState(state)
  /\ curPass' = CurDone
  /\ UNCHANGED <<entryBroad, curDaemon, curCache, curWire, account, asked, outside, told>>
  /\ Looks(look, FALSE)

EndsPass ==
  /\ curPass.at = "acting" /\ curPass.todo = <<>> /\ curPass' = CurIdle
  /\ UNCHANGED <<entryBroad, curDaemon, curCache, curWire, state, curSaved, look, account, asked, faulted,
                 outside, told>>

-----------------------------------------------------------------------------
(* Its commands.  Each is checked against the live state and list when it is sent. *)

SameStream == curCache.stream = curPass.stream

\* The command goes on the wire and is waited for; without a stream, or refused by the
\* send's own guard, it comes to nothing at once, as it does with a full queue
SendsOr(ok, cmd, flag) ==
  LET Comes(outcome) == curPass' = [curPass EXCEPT !.at = "answered", !.outcome = outcome,
                                                !.sent = cmd.rule, !.flag = flag]
  IN  \/ /\ CurKnown /\ ok
         /\ curWire' = Append(curWire, [op |-> cmd.op, rule |-> cmd.rule, by |-> "worker"])
         /\ curPass' = [curPass EXCEPT !.at = "waiting", !.sent = cmd.rule, !.flag = flag]
         /\ UNCHANGED faulted
      \/ ~(CurKnown /\ ok) /\ Comes("unsent") /\ UNCHANGED <<curWire, faulted>>
      \/ /\ CurKnown /\ ok /\ faulted < MaxCurFaults /\ faulted' = faulted + 1
         /\ Comes("busy") /\ UNCHANGED curWire

ChangeTo(c) == [op |-> "change", rule |-> c]
DeleteIt == [op |-> "delete", rule |-> NoCopy]
SkipItem == curPass' = CurDone /\ UNCHANGED <<curWire, faulted>>
\* without the save that follows an item
Unwanted == curPass' = [curPass EXCEPT !.todo = Tail(Tail(@))] /\ UNCHANGED <<curWire, faulted>>

Acts == UNCHANGED <<entryBroad, curDaemon, curCache, curSaved, look, account, asked, outside, told>>

\* Mutant: the grant of the plan stands until the send
GrantAsPlanned == HasBroadAuthority(curSaved)

\* The live grant a broad rule needs to go on
GrantStands ==
  state.revision = curPass.revision /\ HasBroadAuthority(state.choices) /\ ~state.unsaved

WantedOn == state.choices.choice = "on" /\ ~state.choices.removedOutside

Installs ==
  /\ Doing("install") /\ Acts /\ UNCHANGED state
  /\ IF ~SameStream \/ state.inert \/ ~WantedOn \/ ~StillMissing THEN Unwanted
     ELSE IF entryBroad /\ ~GrantStands THEN SkipItem
     ELSE SendsOr(entryBroad => ~curCache.mark, ChangeTo(Copy(state.found, TRUE)), FALSE)

Upgrades ==
  /\ Doing("upgrade") /\ Acts /\ UNCHANGED state
  /\ LET c == curCache.copy
         guarded == entryBroad /\ c.on
     IN  IF ~SameStream \/ state.inert \/ state.choices.choice # "on" THEN Unwanted
         ELSE IF \/ state.choices.removedOutside \/ state.withheld \/ ~CurKnown
                 \/ ~(IsLegacy(c) \/ Moved(c, state.found)) \/ (guarded /\ ~GrantStands)
         THEN SkipItem
         ELSE SendsOr(guarded => ~curCache.mark, ChangeTo(Copy(state.found, c.on)), ~IsLegacy(c))

\* A delete of the plan: still_wanted and still_unedited
Deletes ==
  /\ Doing("delete") /\ Acts /\ UNCHANGED state
  /\ IF \/ ~SameStream \/ state.inert \/ state.choices.choice = "on"
        \/ ~(\/ CurKnown /\ (IsUnedited(curCache.copy) \/ IsLegacy(curCache.copy))
             \/ state.maybe # NoRecord /\ StillMissing)
     THEN Unwanted
     ELSE SendsOr(TRUE, DeleteIt, ~StillMissing)

\* remove, of an edited copy the user confirmed; a reconnect leaves it for the next pass
Removes ==
  /\ Doing("remove") /\ Acts
  /\ IF state.inert \/ ~SameStream
     THEN Unwanted /\ state' = [state EXCEPT !.removal = @ \/ ~state.inert]
     ELSE /\ UNCHANGED state
          /\ IF StillEdited(curPass.copy) THEN SendsOr(TRUE, DeleteIt, TRUE) ELSE SkipItem

Reenables ==
  /\ Doing("reenable") /\ Acts /\ UNCHANGED state
  /\ IF state.inert \/ state.unsaved \/ state.revision # curPass.reenable
          \/ ~HasBroadAuthority(state.choices) \/ ~SameStream \/ curCache.mark \/ state.choices.fileLeft
          \/ ~CurKnown \/ ~IsUnedited(curCache.copy) \/ curCache.copy.on
     THEN SkipItem
     ELSE SendsOr(TRUE, ChangeTo([curCache.copy EXCEPT !.on = TRUE]), FALSE)

\* Mutant: a refused re-enable is left at that
NeverUndoes == Doing("undo") /\ Acts /\ UNCHANGED state /\ SkipItem

\* A refused re-enable is turned off again, once
Undoes ==
  /\ Doing("undo") /\ Acts /\ UNCHANGED state
  /\ IF ~(CurKnown /\ IsUnedited(curCache.copy)) \/ curCache.mark THEN SkipItem
     ELSE SendsOr(TRUE, ChangeTo([curCache.copy EXCEPT !.on = FALSE]), FALSE)

-----------------------------------------------------------------------------
(* What a command's outcome records *)

Refused == curPass.outcome = "refused"
CurUnanswered == curPass.outcome = "timeout"
Sticky == curPass.outcome # "busy"

\* track_maybe_applied
Track(s, install, marked) ==
  IF install /\ (Refused \/ CurUnanswered)
  THEN [s EXCEPT !.maybe = [stream |-> curPass.stream, file |-> CurUnanswered \/ marked \/ @.file]]
  ELSE IF curPass.outcome = "ok" \/ Refused THEN [s EXCEPT !.maybe = NoRecord] ELSE s

\* fail
Fails(s, status) ==
  [s EXCEPT !.status = status,
            !.failed = IF Sticky THEN [stream |-> curPass.stream, status |-> status] ELSE @]

\* The refused install's end: off, the consent gone
TurnedOff(s) ==
  LET off == Revoke(s)
  IN  [Keep(off, Disable(off.choices)) EXCEPT !.failed = NoFailure, !.status = "notInstalled"]

\* deleted
Deleted(s, refused, marked, record) ==
  LET noFile == record # NoRecord /\ ~record.file
      left == ~noFile /\ (refused \/ (marked /\ ~curPass.flag))
      ch == [s.choices EXCEPT !.ours = FALSE,
                              !.fileLeft = IF left THEN TRUE
                                           ELSE IF noFile \/ curPass.flag THEN FALSE ELSE @]
  IN  [Keep(s, ch) EXCEPT !.failed = NoFailure, !.status = IF left THEN "offFileLeft" ELSE "off"]

AfterInstall(s) ==
  CASE curPass.outcome = "ok" ->
         [Keep(s, [s.choices EXCEPT !.ours = TRUE, !.fileLeft = FALSE])
            EXCEPT !.failed = NoFailure, !.status = "installed"]
    [] curPass.outcome # "ok" /\ s.choices.choice # "on" -> s
    [] Refused /\ s.choices.choice = "on" -> TurnedOff(s)
    [] OTHER -> Fails(s, "notInstalled")

AfterUpgrade(s) ==
  CASE curPass.outcome = "ok" ->
         [Keep(s, [s.choices EXCEPT !.ours = TRUE])
            EXCEPT !.failed = NoFailure, !.status = Installed(curPass.sent)]
    [] Refused /\ curPass.flag -> TurnedOff(s)
    [] OTHER -> Fails(s, Installed(curPass.sent))

AfterRemove(s) ==
  CASE curPass.outcome = "ok" \/ Refused ->
         LET ch == [UserRemoved(s.choices) EXCEPT !.fileLeft = Refused]
         IN  [Keep(s, ch) EXCEPT !.removalFailed = 0,
                !.status = IF ch.choice = "on" THEN "deletedOutside"
                           ELSE IF Refused THEN "offFileLeft" ELSE "off"]
    [] OTHER ->
         IF Sticky THEN [s EXCEPT !.status = "notRemoved", !.removalFailed = curPass.stream]
         ELSE [Revoke(s) EXCEPT !.removal = TRUE, !.status = "notRemoved"]

AfterReenable(s) ==
  CASE curPass.outcome = "ok" -> [s EXCEPT !.status = "installed"]
    [] curPass.outcome = "refused" -> Fails(Revoke(s), "installedOff")
    [] OTHER -> Fails(s, "installedOff")

\* The end of apply, upgrade, remove and reenable
TakesOutcome ==
  /\ curPass.at = "answered"
  /\ LET item == Head(curPass.todo)
         marked == curCache.mark \/ state.choices.fileLeft
         tracked == CASE item = "install" \/ (item = "upgrade" /\ curPass.flag) -> Track(state, TRUE, marked)
                      [] item = "delete" -> Track(state, FALSE, marked)
                      [] item = "remove" -> Track(state, FALSE, FALSE)
                      [] OTHER -> state
         dropped == IF tracked.maybe = NoRecord THEN state.maybe ELSE NoRecord
         gaveUp == item = "delete" /\ curPass.outcome \notin {"ok", "refused"}
     IN  /\ state' = CASE item = "install" -> AfterInstall(tracked)
                       [] item = "upgrade" -> AfterUpgrade(tracked)
                       [] item = "remove" -> AfterRemove(tracked)
                       [] item = "delete" -> IF gaveUp THEN Fails(tracked, "notRemoved")
                                             ELSE Deleted(tracked, Refused, marked, dropped)
                       [] item = "reenable" -> AfterReenable(tracked)
                       [] OTHER -> tracked
         /\ curCache' = IF item = "delete" /\ ~gaveUp /\ dropped # NoRecord /\ ~dropped.file
                     THEN [curCache EXCEPT !.mark = FALSE, !.held = FALSE] ELSE curCache
         /\ told' = [told EXCEPT !.revoked = @ \/ (item \in {"install", "upgrade", "reenable"} /\ Refused),
                                 !.unseen = @ \/ (item = "undo" /\ curPass.outcome # "ok")]
         /\ curPass' = [curPass EXCEPT !.at = "acting", !.outcome = "none",
                       !.todo = IF item = "reenable" /\ Refused THEN <<"undo">> \o Tail(@) ELSE Tail(@)]
  /\ Looks(look, FALSE)
  /\ UNCHANGED <<entryBroad, curDaemon, curWire, curSaved, account, asked, faulted, outside>>

-----------------------------------------------------------------------------
(* The daemon *)

CurAnswered(by, outcome) ==
  curPass' = IF by = "worker" THEN [curPass EXCEPT !.at = "answered", !.outcome = outcome] ELSE curPass

ByDaemon == UNCHANGED <<entryBroad, state, curSaved, account, asked, outside>>

\* The delete of a rule in memory fails on its file, if there is none
MustRefuse ==
  Head(curWire).op = "delete" /\ curDaemon.copy # NoCopy /\ curDaemon.file = NoCopy

\* A delete of a name not in memory touches no file
AfterCommand(d, c) ==
  IF c.op = "delete" /\ d.copy = NoCopy THEN d ELSE [copy |-> c.rule, file |-> c.rule]

\* OK.  An answer that comes after its timeout is applied to the list within the grace.
CurDaemonDoes ==
  /\ curWire # <<>> /\ ~MustRefuse /\ ByDaemon /\ UNCHANGED faulted
  /\ LET c == Head(curWire)
         clears == c.op = "change" \/ curCache.held
     IN  /\ curDaemon' = AfterCommand(curDaemon, c)
         /\ \E heard \in IF c.by = "late" THEN BOOLEAN ELSE {TRUE} :
              /\ curCache' = IF heard THEN [curCache EXCEPT !.copy = c.rule, !.mark = @ /\ ~clears,
                                                      !.held = @ /\ ~clears]
                          ELSE curCache
              /\ look' = (look \/ heard) /\ told' = [told EXCEPT !.unseen = @ \/ ~heard]
         /\ CurAnswered(c.by, "ok")
  /\ curWire' = Tail(curWire)

\* ERROR.  A delete left memory and not the file; a change may have come to memory
\* (Save failed) or not, a disabled one always did: apply_refused
CurDaemonRefuses ==
  /\ curWire # <<>> /\ ByDaemon
  /\ \/ MustRefuse /\ UNCHANGED faulted
     \/ ~MustRefuse /\ faulted < MaxCurFaults /\ faulted' = faulted + 1
  /\ LET c == Head(curWire)
         disabled == c.op = "change" /\ ~c.rule.on
     IN  /\ \E taken \in IF c.op = "delete" \/ disabled THEN {TRUE} ELSE BOOLEAN,
               heard \in IF c.by = "late" THEN BOOLEAN ELSE {TRUE} :
              /\ curDaemon' = IF taken THEN [curDaemon EXCEPT !.copy = c.rule] ELSE curDaemon
              /\ told' = [told EXCEPT !.unseen = @ \/ ~heard \/ (taken /\ c.by = "page" /\ ~disabled)]
              /\ curCache' = CASE heard /\ c.op = "delete" ->
                                 [curCache EXCEPT !.copy = NoCopy, !.mark = TRUE, !.held = FALSE]
                            [] heard /\ disabled -> [curCache EXCEPT !.copy = c.rule, !.held = curCache.mark]
                            [] OTHER -> curCache
         /\ c.op = "delete" => curDaemon.copy # NoCopy
         /\ CurAnswered(c.by, "refused")
  /\ curWire' = Tail(curWire) /\ Looks(look, FALSE)

\* No answer within COMMAND_TIMEOUT
WaitTimesOut ==
  /\ curPass.at = "waiting" /\ faulted < MaxCurFaults /\ faulted' = faulted + 1
  /\ curPass' = [curPass EXCEPT !.at = "answered", !.outcome = "timeout"]
  /\ curWire' = [i \in DOMAIN curWire |->
                   IF curWire[i].by = "worker" THEN [curWire[i] EXCEPT !.by = "late"] ELSE curWire[i]]
  /\ ByDaemon /\ UNCHANGED <<curDaemon, curCache, look, told>>

\* What the daemon made of the commands on the wire before the stream went
CarriedOut(done) == FoldLeft(AfterCommand, curDaemon, SubSeq(curWire, 1, done))

\* The stream closes: the list is withdrawn, who waits hears of it
CurStreamCloses ==
  /\ CurKnown /\ faulted < MaxCurFaults /\ faulted' = faulted + 1
  /\ \E done \in 0..Len(curWire) : curDaemon' = CarriedOut(done)
  /\ curCache' = [curCache EXCEPT !.link = "down", !.copy = NoCopy] /\ curWire' = <<>>
  /\ curPass' = IF curPass.at = "waiting" THEN [curPass EXCEPT !.at = "answered", !.outcome = "closed"] ELSE curPass
  /\ ByDaemon /\ UNCHANGED told /\ Looks(look, FALSE)

\* HELLO with a list; a name it holds loses its mark
CurStreamOpens ==
  /\ ~CurKnown
  /\ curCache' = [curCache EXCEPT !.link = "listed", !.copy = curDaemon.copy, !.stream = @ + 1,
                            !.mark = @ /\ curDaemon.copy = NoCopy, !.held = @ /\ curDaemon.copy = NoCopy]
  /\ told' = [told EXCEPT !.gone = @ /\ curDaemon.copy = NoCopy, !.unseen = FALSE]
  /\ UNCHANGED <<entryBroad, curDaemon, curWire, state, curSaved, curPass, account, asked, faulted, outside>>
  /\ Looks(look, FALSE)

\* While the bridge is away: the daemon restarts from its files, the user edits or removes them
DaemonRestarts ==
  /\ ~CurKnown /\ curDaemon.copy # curDaemon.file
  /\ curDaemon' = [curDaemon EXCEPT !.copy = curDaemon.file]
  /\ UNCHANGED <<entryBroad, curCache, curWire, state, curSaved, curPass, look, account, asked, faulted,
                 outside, told>>

ChangedOutside ==
  /\ ~CurKnown /\ outside < MaxOutside /\ outside' = outside + 1
  /\ \/ \E on \in BOOLEAN : curDaemon' = [copy |-> Copy("edited", on), file |-> Copy("edited", on)]
     \/ curDaemon # [copy |-> NoCopy, file |-> NoCopy] /\ curDaemon' = [copy |-> NoCopy, file |-> NoCopy]
  /\ told' = [told EXCEPT !.gone = curDaemon'.copy = NoCopy
                              /\ (@ \/ (curPass.at = "idle" /\ WantedOn /\ state.choices.ours))]
  /\ UNCHANGED <<entryBroad, curCache, curWire, state, curSaved, curPass, look, account, asked, faulted>>

\* The account gets another uid; nobody tells the bridge
AccountMoves ==
  /\ outside < MaxOutside /\ outside' = outside + 1
  /\ account' \in {[account EXCEPT !.uid = u] : u \in Uids \ {account.uid}}
  /\ UNCHANGED <<entryBroad, curDaemon, curCache, curWire, state, curSaved, curPass, look, asked, faulted,
                 told>>

\* The bridge ends, its last choices saved or not, and starts again with what is in the file.
\* The daemon has carried out some of what was sent.
CurBridgeRestarts ==
  /\ faulted < MaxCurFaults /\ faulted' = faulted + 1
  /\ curSaved' \in {curSaved} \cup IF state.inert THEN {} ELSE {state.choices}
  /\ state' = NewState(curSaved')
  /\ \E done \in 0..Len(curWire) : curDaemon' = CarriedOut(done)
  /\ curCache' = [link |-> "down", copy |-> NoCopy, stream |-> curCache.stream, mark |-> FALSE, held |-> FALSE]
  /\ account' = [account EXCEPT !.found = NoUid, !.busy = FALSE]
  /\ curWire' = <<>> /\ curPass' = CurIdle /\ look' = TRUE
  /\ told' = [told EXCEPT !.gone = @ /\ (curSaved'.ours \/ curSaved'.removedOutside),
                          !.revoked = ~HasBroadAuthority(curSaved'),
                          !.noteLost = @ \/ (curDaemon'.file # curDaemon'.copy /\ ~curSaved'.fileLeft)]
  /\ UNCHANGED <<entryBroad, asked, outside>>

-----------------------------------------------------------------------------
(* Requests of GUIs *)

CurRequests == asked < MaxAsks /\ asked' = asked + 1
ByGui == UNCHANGED <<entryBroad, curDaemon, curCache, curSaved, curPass, account, faulted, outside>>

\* choose_legacy; a broad entry is not turned on this way
TurnsOn ==
  /\ CurRequests /\ ByGui /\ ~entryBroad /\ ~state.inert
  /\ state' = [Keep(state, Enable(state.choices)) EXCEPT !.failed = NoFailure]
  /\ Looks(look, TRUE) /\ UNCHANGED <<curWire, told>>

TurnsOff ==
  /\ CurRequests /\ ByGui /\ ~state.inert
  /\ LET s == Revoke(state) IN state' = [Keep(s, Disable(s.choices)) EXCEPT !.failed = NoFailure]
  /\ told' = [told EXCEPT !.revoked = TRUE, !.gone = FALSE]
  /\ Looks(look, TRUE) /\ UNCHANGED curWire

AsksRemoval ==
  /\ CurRequests /\ ByGui /\ ~state.inert
  /\ state' = [Revoke(state) EXCEPT !.removal = TRUE, !.removalFailed = 0]
  /\ told' = [told EXCEPT !.revoked = TRUE, !.removing = TRUE]
  /\ Looks(look, TRUE) /\ UNCHANGED curWire

Purposes == {"enable", "keep", "reenable"}

\* prepare_intent: a ticket for the consent as it stands
PreparesIntent(purpose) ==
  /\ CurRequests /\ ByGui /\ entryBroad /\ ~state.inert /\ ~state.withheld
  /\ state' = [state EXCEPT !.ticket = purpose, !.ticketRevision = state.revision]
  /\ UNCHANGED <<curWire, look, told>>

\* The ticket expires, is cancelled, or its connection ends
TicketDies ==
  /\ state.ticket # "none" /\ state' = [state EXCEPT !.ticket = "none"]
  /\ ByGui /\ UNCHANGED <<curWire, look, asked, told>>

\* What accept_intent checks once the ticket is consumed
Acceptable(purpose) ==
  LET ch == state.choices
      c == curCache.copy
  IN  /\ state.ticketRevision = state.revision /\ ~state.inert /\ ~state.withheld
      /\ CurKnown /\ ~curCache.mark /\ ~ch.fileLeft
      /\ ch.removedOutside => purpose = "enable" /\ ch.choice = "off"
      /\ c = NoCopy \/ IsUnedited(c)
      /\ purpose = "keep" => c # NoCopy
      /\ purpose = "enable" => c = NoCopy \/ c.on
      /\ purpose = "reenable" => c # NoCopy /\ ~c.on

AcceptsIntent ==
  /\ state.ticket # "none" /\ Acceptable(state.ticket) /\ ByGui
  /\ LET activation == state.ticket # "keep" \/ curCache.copy.on
         granted == [Enable(state.choices) EXCEPT
                       !.grant = IF activation THEN "enable" ELSE "adopt",
                       !.ours = @ \/ curCache.copy # NoCopy]
     IN  /\ state' = [Keep(state, granted) EXCEPT
                        !.ticket = "none", !.failed = NoFailure,
                        !.reenable = IF state.ticket = "reenable" THEN state.revision ELSE @]
         /\ told' = [told EXCEPT !.revoked = @ /\ ~activation]
  /\ Looks(look, TRUE) /\ UNCHANGED <<curWire, asked>>

\* send_managed_toggle, a toggle on the Rules page.  Off revokes even if nothing is sent.
PageToggles(on) ==
  /\ CurRequests /\ ByGui /\ ~state.inert
  /\ on => ~entryBroad /\ ~state.moved /\ ~state.withheld
  /\ state' = IF entryBroad THEN Revoke(state) ELSE state
  /\ curWire' = IF CurKnown /\ (IsUnedited(curCache.copy) \/ (IsLegacy(curCache.copy) /\ ~on))
                     /\ (entryBroad => ~curCache.mark)
                THEN Append(curWire, [op |-> "change", rule |-> [curCache.copy EXCEPT !.on = on], by |-> "page"])
                ELSE curWire
  /\ told' = [told EXCEPT !.revoked = @ \/ entryBroad]
  /\ Looks(look, entryBroad)

-----------------------------------------------------------------------------
(* The specification *)

CuratedInit ==
  /\ entryBroad \in BOOLEAN
  /\ \E c \in {NoCopy, Copy("uid1", TRUE)} \cup IF entryBroad THEN {} ELSE {Copy("legacy", TRUE)} :
       curDaemon = [copy |-> c, file |-> c]
  /\ curCache = [link |-> "down", copy |-> NoCopy, stream |-> 0, mark |-> FALSE, held |-> FALSE]
  /\ curWire = <<>> /\ curSaved = NoChoices /\ state = NewState(curSaved)
  /\ curPass = CurIdle /\ look = TRUE /\ account = [uid |-> "uid1", found |-> NoUid, busy |-> FALSE]
  /\ asked = 0 /\ faulted = 0 /\ outside = 0 /\ told = NoHistory

CuratedSteps ==
  \/ StartsPass \/ Plans \/ SavesChoices \/ EndsPass \/ TakesOutcome
  \/ Installs \/ Upgrades \/ Deletes \/ Removes \/ Reenables \/ Undoes

CuratedNext ==
  \/ CuratedSteps \/ LookupLands \/ WaitTimesOut
  \/ CurDaemonDoes \/ CurDaemonRefuses \/ CurStreamCloses \/ CurStreamOpens \/ DaemonRestarts
  \/ ChangedOutside \/ AccountMoves \/ CurBridgeRestarts
  \/ TurnsOn \/ TurnsOff \/ AsksRemoval \/ TicketDies \/ AcceptsIntent
  \/ \E purpose \in Purposes : PreparesIntent(purpose)
  \/ \E on \in BOOLEAN : PageToggles(on)

CuratedSpec == CuratedInit /\ [][CuratedNext]_curVars

-----------------------------------------------------------------------------
(* Properties *)

CurChoices == [choice : {"undecided", "on", "off"}, ours : BOOLEAN, removedOutside : BOOLEAN,
            grant : {"none", "enable", "adopt"}, fileLeft : BOOLEAN]

\* Types, and: no list without a stream, only a broad entry that is on has a grant, and the
\* worker has a command out exactly while it waits
CuratedTypeOK ==
  /\ curDaemon \in [copy : Copies, file : Copies]
  /\ curCache.copy \in Copies /\ (~CurKnown => curCache.copy = NoCopy) /\ (curCache.held => curCache.mark)
  /\ {curSaved, state.choices} \subseteq CurChoices
  /\ \A ch \in {curSaved, state.choices} : ch.grant # "none" => entryBroad /\ ch.choice = "on"
  /\ account.uid \in Uids /\ account.found \in Uids \cup {NoUid}
  /\ curPass.at = "waiting" <=> \E i \in DOMAIN curWire : curWire[i].by = "worker"

\* A broad rule is turned on, by any path, only under a consent that the user has not
\* withdrawn since, and that is in the file
BroadNeedsConsent ==
  Len(curWire') > Len(curWire) =>
    LET c == curWire'[Len(curWire')]
    IN  entryBroad /\ c.op = "change" /\ c.rule.on => ~told.revoked /\ HasBroadAuthority(curSaved)

\* The worker at rest with the list in sight, everything answered, nothing failed
AtRest ==
  curPass.at = "idle" /\ ~look /\ CurKnown /\ curWire = <<>> /\ ~told.unseen /\ ~state.inert /\ state.failed = NoFailure
  /\ ~state.withheld /\ state.status \notin {"notInstalled", "notRemoved"}

\* At rest the daemon is as chosen: none of the entry's own copies while it is off, one while it
\* is on (and consented to, and not removed outside)
QuietMeansChosen ==
  AtRest => /\ state.choices.choice = "off" => ~IsUnedited(curDaemon.copy) /\ ~IsLegacy(curDaemon.copy)
            /\ WantedOn /\ (entryBroad => HasBroadAuthority(state.choices)) => curDaemon.copy # NoCopy

\* A rule that vanished from the daemon's list while on is not installed again until the user
\* turns it off
NotReinstalled ==
  told.gone /\ Len(curWire') > Len(curWire) /\ curWire'[Len(curWire')].op = "change"
    => curCache.copy # NoCopy

\* An edited copy goes only outside the bridge or at the user's word
EditedStays ==
  curDaemon.copy.what = "edited" /\ curDaemon'.copy # curDaemon.copy /\ outside' = outside =>
    told.removing

\* The worker does nothing against the user: no step turns a broad rule on without consent,
\* brings back a rule that was removed, or overwrites or deletes an edited one.
UserDecides == [][BroadNeedsConsent /\ NotReinstalled /\ EditedStays]_curVars

\* An entry that reads off has left no file that loads again at the daemon's next start: the
\* note of a file left "over-warns, never under-warns" (reconcile.rs:30).  A bridge that ended
\* before it saved the note is left aside.
NeverUnderWarned == AtRest /\ ~told.noteLost /\ state.status = "off" => curDaemon.file = NoCopy

\* At rest the status shown is what the daemon does with the rule.  A refused re-enable that
\* the daemon's memory took is undone first.
StatusTellsDaemon ==
  AtRest => /\ state.status = "installed" => curDaemon.copy.on
            /\ state.status = "installedOff" => ~curDaemon.copy.on
            /\ state.status \in {"off", "offFileLeft"} => curDaemon.copy = NoCopy

\* The worker comes to rest: none of its own steps, nor an answer of the daemon, keeps asking
\* for one more pass for ever (manager.rs: the watch the loop waits on).
WorkerSettles == <>[](curPass.at = "idle" /\ ~look)

\* At rest the daemon does what the user chose, and the page says what the daemon does.
StatusIsTrue == QuietMeansChosen /\ StatusTellsDaemon

=============================================================================
