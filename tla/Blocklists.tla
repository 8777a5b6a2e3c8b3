----------------------------- MODULE Blocklists -----------------------------
(***************************************************************************)
(* The bridge's blocklists: the worker that runs one job at a time, the     *)
(* manager that saves downloads and decides which lists fit, and the sink   *)
(* that writes a list's files and puts the rules reading them on the        *)
(* daemon.  A list's rules and its files live in two systems, neither of    *)
(* which can be changed together with the other.                            *)
(*                                                                         *)
(* The hosts of a list are counted per kind: one rule and one file for its  *)
(* domains, one for its addresses.  A count of 0 is no file.  Fetching and  *)
(* parsing, and the time a list is due, are free choices.                   *)
(***************************************************************************)
EXTENDS Integers, Sequences, FiniteSets
LOCAL INSTANCE SequencesExt
LOCAL INSTANCE FiniteSetsExt
LOCAL INSTANCE Functions

CONSTANTS
  ListIds,            \* subscription ids, numbers: the order of the manager's map
  Downloads,        \* the hosts a download can bring, per kind
  AggregateCap,     \* AGGREGATE_MAX_HOSTS
  StoredCap,        \* STORED_MAX_HOSTS
  MaxSubscriptions, \* MAX_SUBSCRIPTIONS
  MaxReleased,      \* MAX_RELEASED_LISTS
  JobCapacity,      \* JOB_QUEUE_CAPACITY
  MaxListRequests,  \* bound: requests of GUIs and refresh ticks
  MaxListFaults     \* bound: refusals, timeouts, closed streams, failed writes, ends of the bridge

ASSUME BlocklistsAssumption == StoredCap >= AggregateCap

VARIABLES
  bMem, bList, bLink, bWire,   \* DaemonLink's
  rows,         \* BlocklistsManager.subscriptions: [hosts, fetched, status]
  savedRows,    \* the same in the store
  order,        \* BlocklistsManager.order
  file,         \* the list files, by list and kind
  verified,     \* DaemonRuleSink.verified: the kinds of each list checked in this run
  confirmed,    \* DaemonRuleSink.confirmed
  released,     \* DaemonRuleSink.released
  enforcement,  \* BlocklistsManager.enforcement
  cleanup,      \* BlocklistsManager.cleanup_pending
  refusals,     \* BlocklistsManager.refusals: lists with an entry
  roomWaits,    \* BlocklistsManager.waiting_for_room
  lane,         \* UnsubscribeLane.ids
  level,        \* UnsubscribeLane.reconcile
  jobs,         \* the worker's queue
  todo,         \* what is left of the worker's current job
  op,           \* the sink call under way
  down,         \* daemon_down of the refresh under way
  ghosts,       \* rules the daemon dropped without removing their files: it loads them again
  listRequests, listFaults,
  \* History
  loose,        \* lists whose last install stopped short: refused or unanswered
  passedOver,   \* lists whose last download was saved, but not written: the daemon was down
  unsureRules,       \* rules sent, or left over from an earlier run, with no answer since
  storeFailed   \* the store failed to clear a list

LOCAL INSTANCE DaemonLink WITH mem <- bMem, list <- bList, link <- bLink, wire <- bWire
bLinkVars == <<bMem, bList, bLink, bWire>>

managerVars == <<rows, savedRows, order, enforcement, cleanup, refusals, roomWaits>>
sinkVars == <<file, verified, confirmed, released>>
workerVars == <<lane, level, jobs, todo, op, down>>
boundVars == <<listRequests, listFaults>>
listHistory == <<loose, passedOver, unsureRules, storeFailed>>
blockVars == <<bLinkVars, ghosts, managerVars, sinkVars, workerVars, boundVars, listHistory>>

-----------------------------------------------------------------------------
(* Lists and their sizes *)

ListKinds == {"domains", "ips"}
NoHosts == [k \in ListKinds |-> 0]

KindsOf(h) == {k \in ListKinds : h[k] > 0}
SizeOf(h) == h["domains"] + h["ips"]
SumOver(s) == FoldLeft(LAMBDA t, l : t + SizeOf(rows[l].hosts), 0, s)

\* subscriptions_in_order, up to a list
UpTo(l) == SelectInSeq(order, LAMBDA x : x = l)

\* over_aggregate_cap
OverCap(l) == SumOver(SubSeq(order, 1, UpTo(l))) > AggregateCap

\* stored_room: only the lists before it count
StoredRoom(l) == Max({0, StoredCap - SumOver(SubSeq(order, 1, UpTo(l) - 1))})

\* lists_past_the_limit: a cleared list adds nothing
PastTheLimit(r, s) ==
  FoldLeft(LAMBDA acc, l :
             IF acc.kept + SizeOf(r[l].hosts) > StoredCap
             THEN [acc EXCEPT !.past = Append(@, l)]
             ELSE [acc EXCEPT !.kept = @ + SizeOf(r[l].hosts)],
           [kept |-> 0, past |-> <<>>], s).past

RefusedForRoom(row) == row.status \in {"room", "cleared"}
ClearedRow(row) == [hosts |-> NoHosts, fetched |-> FALSE, status |-> "cleared"]

\* enforcement() with default_enforcement.  "over" is NotEnforced with the prefix of the
\* size limit.
Shown(l) ==
  IF l \in DOMAIN enforcement THEN enforcement[l]
  ELSE IF SizeOf(rows[l].hosts) = 0 /\ RefusedForRoom(rows[l]) THEN "over" ELSE "pending"

-----------------------------------------------------------------------------
(* The sink: what it knows, and the calls it makes *)

NoOp == [do |-> "idle", list |-> 0, phase |-> "none", cmds |-> <<>>, waiting |-> FALSE,
         refused |-> FALSE]

Call(do, l, phase, cmds) ==
  [do |-> do, list |-> l, phase |-> phase, cmds |-> cmds, waiting |-> FALSE, refused |-> FALSE]

ListShown == bLink = "listed"

\* in_place, for a kind whose file is there
InPlace(name) ==
  /\ file[name[1]][name[2]] > 0
  /\ IF ListShown THEN name \in DOMAIN bList ELSE name \in confirmed

\* cached_rules_of: only names of this list
CachedRulesOf(l) == {name \in DOMAIN bList : name[1] = l}

\* rule_names_to_delete: without the daemon's list, the list's own two names
NamesToDelete(l) == IF ListShown THEN CachedRulesOf(l) ELSE {<<l, k>> : k \in ListKinds}

VerifiedKinds(l) == IF l \in DOMAIN verified THEN verified[l] ELSE {}

\* files_verified and is_current
FilesVerified(l) ==
  VerifiedKinds(l) # {} /\ \A k \in VerifiedKinds(l) : file[l][k] > 0
IsCurrent(l) ==
  /\ ListShown /\ KindsOf(file[l]) # {}
  /\ \A k \in KindsOf(file[l]) : InPlace(<<l, k>>)

InOrder(names) == SetToSortSeq(names, LAMBDA a, b : a[1] < b[1] \/ (a[1] = b[1] /\ a[2] = "domains"))
KindNames(l, kinds) == InOrder({<<l, k>> : k \in kinds})

FilesGone(l) == [file EXCEPT ![l] = NoHosts]

-----------------------------------------------------------------------------
(* How a call ends: RecordOp is record_install, with track_install's schedule *)

RecordOp(l, what) == enforcement' = With(enforcement, l, what)

\* The rest of the job after the item at the head.  A pass stops where the daemon can't
\* be reached.
MovesOn(stop) ==
  /\ todo' = IF stop /\ Head(todo).do = "check" THEN <<>> ELSE Tail(todo)
  /\ UNCHANGED <<lane, level, jobs>>

\* keep_files_for_now: notes past the grace are dropped first
KeepFiles(l) ==
  \E past \in SUBSET released :
    LET kept == released \ past
    IN  IF Cardinality(kept) < MaxReleased
        THEN released' = kept \cup {l} /\ UNCHANGED file
        ELSE released' = kept /\ file' = FilesGone(l)

\* release_blocklist_rules, after its deletes
ReleaseEnds(l, out) ==
  /\ verified' = Without(verified, l)
  /\ \/ out = "ok" /\ KeepFiles(l)
     \/ out # "ok" /\ file' = FilesGone(l) /\ released' = released \ {l}
  /\ UNCHANGED <<enforcement, cleanup, refusals, down>>

\* remove_blocklist_rules (or remove_blocklist_files) in remove_over_limit
RemoveEnds(l, out) ==
  /\ verified' = Without(verified, l)
  /\ file' = FilesGone(l) /\ released' = released \ {l}
  /\ RecordOp(l, IF out = "unreachable" THEN "unconfirmed" ELSE "over")
  /\ cleanup' = cleanup \ {l} /\ refusals' = refusals \ {l}
  /\ down' = (down \/ out = "unreachable")

\* Mutant: the files of kinds the list no longer has stay
InstallLeavesFiles(l, out) ==
  /\ RecordOp(l, IF out = "ok" THEN "installed" ELSE "unconfirmed")
  /\ UNCHANGED <<file, cleanup, refusals, verified, released, down>>

\* install, reinstall and retry_cleanup.  Once the list's own rules are in, the files of
\* the kinds it no longer has go; a refused delete leaves that pending.
InstallEnds(l, out) ==
  LET kinds == VerifiedKinds(l)
      shows == CASE out = "refused" -> "notEnforced"
                 [] out = "unreachable" -> "unconfirmed"
                 [] out = "ok" /\ op.refused -> "unconfirmed"
                 [] out = "ok" /\ kinds = {} -> "notEnforced"
                 [] OTHER -> "installed"
  IN  /\ file' = IF out = "ok"
                 THEN [file EXCEPT ![l] = [k \in ListKinds |-> IF k \in kinds THEN @[k] ELSE 0]]
                 ELSE file
      /\ RecordOp(l, shows)
      /\ cleanup' = IF out = "ok" /\ op.refused THEN cleanup \cup {l} ELSE cleanup \ {l}
      /\ refusals' = CASE op.do = "cleanup" -> refusals
                       [] shows = "installed" -> refusals \ {l}
                       [] out = "refused" -> refusals \cup {l}
                       [] OTHER -> refusals
      /\ UNCHANGED <<verified, released, down>>

\* remove_orphans, after its deletes: only the files of lists released a moment ago stay
OrphansEnd(out) ==
  IF out = "unreachable" THEN UNCHANGED <<sinkVars, enforcement, cleanup, refusals, down>>
  ELSE /\ verified' = Restrict(verified, DOMAIN verified \cap DOMAIN rows)
       /\ \E past \in SUBSET released :
            /\ released' = released \ (past \cup DOMAIN rows)
            /\ file' = [l \in ListIds |-> IF l \in DOMAIN rows \cup released' THEN file[l] ELSE NoHosts]
       /\ UNCHANGED <<enforcement, cleanup, refusals, down>>

CallEnds(out) ==
  LET l == op.list
  IN  /\ CASE op.do = "release" -> ReleaseEnds(l, out)
            [] op.do = "remove" -> RemoveEnds(l, out)
            [] op.do = "orphans" -> OrphansEnd(out)
            [] OTHER -> InstallEnds(l, out)
      /\ loose' = CASE op.do \in {"replace", "reinstall", "cleanup"} /\ out # "ok" -> loose \cup {l}
                    [] op.do = "orphans" -> loose
                    [] OTHER -> loose \ {l}
      /\ passedOver' = IF op.do \in {"release", "remove"} THEN passedOver \ {l} ELSE passedOver
      /\ op' = NoOp /\ MovesOn(out = "unreachable")

CallGoesOn == UNCHANGED <<file, verified, released, enforcement, cleanup, refusals, down, todo,
                          lane, level, jobs, loose, passedOver>>

-----------------------------------------------------------------------------
(* A call's commands, one at a time *)

NextCommand == op' = [op EXCEPT !.cmds = Tail(@), !.waiting = FALSE]

\* install: a rule in place is not sent again
FindsInPlace ==
  /\ op.phase = "install" /\ ~op.waiting /\ op.cmds # <<>> /\ InPlace(Head(op.cmds))
  /\ confirmed' = confirmed \cup {Head(op.cmds)}
  /\ NextCommand /\ CallGoesOn
  /\ UNCHANGED <<bLinkVars, ghosts, rows, savedRows, order, roomWaits, boundVars, unsureRules, storeFailed>>

\* A rule that cannot be sent: no daemon, or for an install no rule list
CannotSend ==
  /\ op.cmds # <<>> /\ ~op.waiting
  /\ \/ bLink = "down"
     \/ op.phase = "install" /\ ~ListShown
  /\ op.phase = "install" => ~InPlace(Head(op.cmds))
  /\ CallEnds("unreachable")
  /\ UNCHANGED <<bLinkVars, ghosts, rows, savedRows, order, roomWaits, confirmed, boundVars, unsureRules, storeFailed>>

SendsListRule ==
  /\ op.cmds # <<>> /\ ~op.waiting
  /\ op.phase = "install" => ListShown /\ ~InPlace(Head(op.cmds))
  /\ Sends(IF op.phase = "install" THEN Change(Head(op.cmds), "ours") ELSE Delete(Head(op.cmds)))
  /\ op' = [op EXCEPT !.waiting = TRUE] /\ CallGoesOn
  /\ UNCHANGED <<ghosts, rows, savedRows, order, roomWaits, confirmed, boundVars, unsureRules, storeFailed>>

\* The answer to the command waited for is the last on the stream
ListAnswered == op.waiting /\ Len(bWire) = 1

\* The daemon's own rule files: a change writes one, a delete of a rule in memory removes it
GhostsAfterOk ==
  ghosts' = IF Head(bWire).op = "change" \/ Head(bWire).name \in DOMAIN bMem
            THEN ghosts \ {Head(bWire).name} ELSE ghosts

DaemonConfirms ==
  /\ ListAnswered /\ AnswersOk(TRUE) /\ GhostsAfterOk
  /\ confirmed' = IF op.phase = "install" THEN confirmed \cup {Head(op.cmds)}
                  ELSE confirmed \ {Head(op.cmds)}
  /\ unsureRules' = unsureRules \ {Head(op.cmds)}
  /\ NextCommand /\ CallGoesOn
  /\ UNCHANGED <<rows, savedRows, order, roomWaits, boundVars, storeFailed>>

\* delete goes on past a refusal; install gives up
ListDaemonRefuses ==
  /\ ListAnswered /\ listFaults < MaxListFaults /\ listFaults' = listFaults + 1
  /\ \E taken \in BOOLEAN : AnswersError(TRUE, taken)
  /\ unsureRules' = IF op.phase = "install" THEN unsureRules \cup {Head(op.cmds)} ELSE unsureRules \ {Head(op.cmds)}
  /\ ghosts' = IF op.phase = "install" THEN ghosts ELSE ghosts \cup {Head(op.cmds)}
  /\ IF op.phase = "install" THEN CallEnds("refused") /\ UNCHANGED confirmed
     ELSE /\ op' = [op EXCEPT !.cmds = Tail(@), !.waiting = FALSE, !.refused = TRUE]
          /\ confirmed' = confirmed \ {Head(op.cmds)} /\ CallGoesOn
  /\ UNCHANGED <<rows, savedRows, order, roomWaits, listRequests, storeFailed>>

\* BLOCKLIST_COMMAND_TIMEOUT
DaemonIsSilent ==
  /\ op.waiting /\ listFaults < MaxListFaults /\ listFaults' = listFaults + 1
  /\ unsureRules' = IF op.phase = "install" THEN unsureRules \cup {Head(op.cmds)} ELSE unsureRules
  /\ CallEnds("unreachable")
  /\ UNCHANGED <<bLinkVars, ghosts, rows, savedRows, order, roomWaits, confirmed, listRequests,
                 storeFailed>>

\* An answer after the timeout: it changes the list, within LATE_REPLY_GRACE
DaemonAnswersLate ==
  /\ bWire # <<>> /\ ~ListAnswered
  /\ \E heard \in BOOLEAN : AnswersOk(heard) /\ GhostsAfterOk
  /\ UNCHANGED <<managerVars, sinkVars, workerVars, boundVars, listHistory>>

\* remove_other_kinds follows the installs: the list's other rules, as listed now
TurnsToOldKinds ==
  /\ op.phase = "install" /\ op.cmds = <<>>
  /\ LET wanted == {<<op.list, k>> : k \in VerifiedKinds(op.list)}
         stale == IF ListShown THEN CachedRulesOf(op.list) \ wanted ELSE {}
     IN  op' = [op EXCEPT !.phase = "others", !.cmds = InOrder(stale)]
  /\ CallGoesOn
  /\ UNCHANGED <<bLinkVars, ghosts, rows, savedRows, order, roomWaits, confirmed, boundVars, unsureRules, storeFailed>>

CallIsDone ==
  /\ op.do # "idle" /\ op.phase # "install" /\ op.cmds = <<>>
  /\ CallEnds(IF op.refused /\ op.do = "release" THEN "refused" ELSE "ok")
  /\ UNCHANGED <<bLinkVars, ghosts, rows, savedRows, order, roomWaits, confirmed, boundVars, unsureRules, storeFailed>>

-----------------------------------------------------------------------------
(* The manager's work, item by item *)

Item(do, l) == [do |-> do, list |-> l]
Check(l, scope, backoff) == [do |-> "check", list |-> l, scope |-> scope, backoff |-> backoff]
Rest(more, tried) == [do |-> "rest", list |-> 0, more |-> more, tried |-> tried]
ItemsOf(do, s) == [i \in DOMAIN s |-> Item(do, s[i])]

\* reconcile_skipping, over the lists as they are when it starts
Pass(skip, scope, backoff) ==
  IF ~ListShown THEN <<>>
  ELSE LET due == SelectSeq(order, LAMBDA l : rows[l].fetched /\ l \notin skip)
       IN  [i \in DOMAIN due |-> Check(due[i], scope, backoff)] \o <<Item("orphans", 0)>>

Starts(do) == op = NoOp /\ todo # <<>> /\ Head(todo).do = do

\* remove_over_limit; once the daemon did not answer, only the files go
RemoveOverLimit(l) ==
  IF down /\ Head(todo).do # "check"
  THEN RemoveEnds(l, "unreachable") /\ op' = NoOp /\ MovesOn(FALSE)
       /\ loose' = loose \ {l} /\ passedOver' = passedOver \ {l}
  ELSE /\ op' = Call("remove", l, "delete", InOrder(NamesToDelete(l))) /\ CallGoesOn

\* replace_blocklist_rules: the files first.  A failed write may have written some.
Replace(l, h) ==
  \/ /\ file' = [file EXCEPT ![l] = [k \in ListKinds |-> IF h[k] > 0 THEN h[k] ELSE @[k]]]
     /\ verified' = With(verified, l, KindsOf(h)) /\ released' = released \ {l}
     /\ op' = Call("replace", l, "install", KindNames(l, KindsOf(h)))
     /\ UNCHANGED <<enforcement, cleanup, refusals, down, todo, lane, level, jobs, listFaults, loose>>
     /\ passedOver' = passedOver \ {l}
  \/ /\ listFaults < MaxListFaults /\ listFaults' = listFaults + 1
     /\ \E some \in SUBSET KindsOf(h) \ {KindsOf(h)} :
          file' = [file EXCEPT ![l] = [k \in ListKinds |-> IF k \in some THEN h[k] ELSE @[k]]]
     /\ verified' = Without(verified, l) /\ released' = released \ {l}
     /\ RecordOp(l, "notEnforced") /\ cleanup' = cleanup \ {l} /\ refusals' = refusals \cup {l}
     /\ op' = NoOp /\ MovesOn(FALSE) /\ UNCHANGED <<down, loose, passedOver>>

\* install: over the limit, what the list had goes
Install(l, h) ==
  IF OverCap(l) THEN RemoveOverLimit(l) /\ UNCHANGED listFaults ELSE Replace(l, h)

\* clear_lists_past_the_saved_limit, one list; a store that fails leaves it
ClearsList ==
  /\ Starts("clear")
  /\ LET l == Head(todo).list
     IN  \/ /\ rows' = [rows EXCEPT ![l] = ClearedRow(@)]
            /\ savedRows' = [savedRows EXCEPT ![l] = ClearedRow(@)]
            /\ RemoveOverLimit(l) /\ UNCHANGED <<listFaults, storeFailed>>
         \/ /\ listFaults < MaxListFaults /\ listFaults' = listFaults + 1
            /\ todo' = Tail(todo) /\ storeFailed' = TRUE
            /\ UNCHANGED <<rows, savedRows, file, verified, released, enforcement, cleanup,
                           refusals, down, op, lane, level, jobs, loose, passedOver>>
  /\ UNCHANGED <<bLinkVars, ghosts, order, roomWaits, confirmed, listRequests, unsureRules>>

\* demote_lists_past_the_limit, one list
DemotesList ==
  /\ Starts("demote")
  /\ LET l == Head(todo).list
     IN  IF OverCap(l) /\ Shown(l) # "over" THEN RemoveOverLimit(l)
         ELSE /\ todo' = Tail(todo)
              /\ UNCHANGED <<file, verified, released, enforcement, cleanup, refusals, down, op,
                             lane, level, jobs, loose, passedOver>>
  /\ UNCHANGED <<bLinkVars, ghosts, rows, savedRows, order, roomWaits, confirmed, boundVars, unsureRules, storeFailed>>

\* install_downloaded
PutsDownload ==
  /\ Starts("put")
  /\ LET l == Head(todo).list
     IN  IF down
         THEN /\ RecordOp(l, "unconfirmed") /\ cleanup' = cleanup \ {l} /\ MovesOn(FALSE)
              /\ passedOver' = passedOver \cup {l}
              /\ UNCHANGED <<op, file, verified, released, refusals, down, listFaults, loose>>
         ELSE Install(l, rows[l].hosts)
  /\ UNCHANGED <<bLinkVars, ghosts, rows, savedRows, order, roomWaits, confirmed, listRequests, unsureRules, storeFailed>>

\* reconcile_one
ChecksList ==
  /\ Starts("check")
  /\ LET l == Head(todo).list
         shown == Shown(l)
         current == FilesVerified(l) /\ IsCurrent(l)
         tried == shown \in {"notEnforced", "over", "installed"}
         Skip == /\ todo' = Tail(todo)
                 /\ UNCHANGED <<file, verified, released, enforcement, cleanup, refusals, down, op,
                                lane, level, jobs, listFaults, loose, passedOver>>
     IN  CASE OverCap(l) -> RemoveOverLimit(l) /\ UNCHANGED listFaults
           [] ~OverCap(l) /\ current /\ l \in cleanup ->
                /\ op' = Call("cleanup", l, "install", <<>>) /\ CallGoesOn /\ UNCHANGED listFaults
           [] ~OverCap(l) /\ current /\ l \notin cleanup ->
                IF shown = "installed" THEN Skip
                ELSE /\ RecordOp(l, "installed") /\ MovesOn(FALSE)
                     /\ UNCHANGED <<file, verified, released, cleanup, refusals, down, op, listFaults, loose,
                                    passedOver>>
           [] OTHER ->
                \/ Head(todo).scope = 1 /\ tried /\ Skip
                \/ /\ Head(todo).backoff /\ shown \in {"notEnforced", "over"} /\ l \in refusals
                   /\ Skip
                \/ /\ ~(Head(todo).scope = 1 /\ tried) /\ FilesVerified(l)
                   /\ op' = Call("reinstall", l, "install", KindNames(l, VerifiedKinds(l)))
                   /\ CallGoesOn /\ UNCHANGED listFaults
                \/ /\ ~(Head(todo).scope = 1 /\ tried) /\ ~FilesVerified(l)
                   /\ Replace(l, savedRows[l].hosts)
  /\ UNCHANGED <<bLinkVars, ghosts, rows, savedRows, order, roomWaits, confirmed, listRequests, unsureRules, storeFailed>>

ReleasesList ==
  /\ Starts("release")
  /\ op' = Call("release", Head(todo).list, "delete", InOrder(NamesToDelete(Head(todo).list)))
  /\ CallGoesOn
  /\ UNCHANGED <<bLinkVars, ghosts, rows, savedRows, order, roomWaits, confirmed, boundVars, unsureRules, storeFailed>>

\* remove_orphans: nothing while the list is unknown
RemovesOrphans ==
  /\ Starts("orphans")
  /\ IF ListShown
     THEN /\ op' = Call("orphans", 0, "delete", InOrder({n \in DOMAIN bList : n[1] \notin DOMAIN rows}))
          /\ CallGoesOn
     ELSE /\ todo' = Tail(todo)
          /\ UNCHANGED <<file, verified, released, enforcement, cleanup, refusals, down, op, lane,
                         level, jobs, loose, passedOver>>
  /\ UNCHANGED <<bLinkVars, ghosts, rows, savedRows, order, roomWaits, confirmed, boundVars, unsureRules, storeFailed>>

-----------------------------------------------------------------------------
(* Downloads: refresh_now *)

RestOfJob == Tail(todo)

\* fetch_in_room and note_failed_download
DownloadFails(l, status) ==
  /\ rows' = [rows EXCEPT ![l].status = status]
  /\ savedRows' = [savedRows EXCEPT ![l].status = status]
  /\ enforcement' = IF l \in DOMAIN enforcement THEN enforcement
                    ELSE With(enforcement, l, "notEnforced")
  /\ todo' = RestOfJob /\ UNCHANGED listFaults

\* Mutant: the list goes on the daemon before the lists past the limit come off
PutBeforeDemote(l, h) ==
  LET row == [hosts |-> h, fetched |-> TRUE, status |-> "ok"]
      others == SelectSeq(order, LAMBDA x : x # l)
  IN  /\ rows' = [rows EXCEPT ![l] = row]
      /\ savedRows' = [savedRows EXCEPT ![l] = row]
      /\ todo' = ItemsOf("clear", PastTheLimit(rows', order)) \o <<Item("put", l)>>
                   \o ItemsOf("demote", others) \o RestOfJob
      /\ UNCHANGED <<enforcement, listFaults>>

\* store_download: saved, then the lists past the saved limit are cleared, those past the
\* size limit come off the daemon, and the list goes on it
DownloadSaved(l, h) ==
  LET row == [hosts |-> h, fetched |-> TRUE, status |-> "ok"]
      others == SelectSeq(order, LAMBDA x : x # l)
  IN  /\ rows' = [rows EXCEPT ![l] = row]
      /\ savedRows' = [savedRows EXCEPT ![l] = row]
      /\ todo' = ItemsOf("clear", PastTheLimit(rows', order)) \o ItemsOf("demote", others)
                   \o <<Item("put", l)>> \o RestOfJob
      /\ UNCHANGED <<enforcement, listFaults>>

\* save_hosts failed: the earlier hosts stay
DownloadNotSaved(l) ==
  /\ listFaults < MaxListFaults /\ listFaults' = listFaults + 1
  /\ rows' = [rows EXCEPT ![l].fetched = FALSE, ![l].status = "failed"]
  /\ todo' = RestOfJob /\ UNCHANGED <<savedRows, enforcement>>

Refreshes ==
  /\ Starts("refresh")
  /\ LET l == Head(todo).list
         room == StoredRoom(l)
     IN  /\ roomWaits' = roomWaits \ {l}
         /\ \/ room = 0 /\ DownloadFails(l, "room")
            \/ /\ room > 0
               /\ \/ DownloadFails(l, "failed")
                  \/ \E h \in Downloads :
                       \/ SizeOf(h) > room /\ DownloadFails(l, "room")
                       \/ SizeOf(h) <= room /\ (DownloadSaved(l, h) \/ DownloadNotSaved(l))
  /\ down' = FALSE
  /\ UNCHANGED <<bLinkVars, ghosts, sinkVars, order, cleanup, refusals, lane, level, jobs, op,
                 listRequests, listHistory>>

\* refresh_tick, after its download: the rest of the tick queues again, or one full pass
EndsTick ==
  /\ Starts("rest")
  /\ LET item == Head(todo)
         \* FetchStatus::Ok: the list was installed or refused just now
         tried == IF item.list # 0 /\ rows[item.list].status = "ok"
                  THEN item.tried \cup {item.list} ELSE item.tried
     IN  IF item.more /\ Len(jobs) < JobCapacity
         THEN jobs' = Append(jobs, [job |-> "tick", list |-> 0, tried |-> tried]) /\ todo' = <<>>
         ELSE todo' = Pass(tried, 2, TRUE) /\ UNCHANGED jobs
  /\ UNCHANGED <<bLinkVars, ghosts, managerVars, sinkVars, lane, level, op, down, boundVars, listHistory>>

-----------------------------------------------------------------------------
(* The worker's loop: unsubscribes first, then one reconcile, then a job *)

Ready == op = NoOp /\ todo = <<>>

\* remove_subscription
Unsubscribes ==
  /\ Ready /\ lane # {}
  /\ LET l == Min(lane)
         after == SubSeq(order, UpTo(l) + 1, Len(order))
     IN  /\ lane' = lane \ {l} /\ level' = 2
         /\ \/ /\ rows' = Without(rows, l) /\ savedRows' = Without(savedRows, l)
               /\ order' = SelectSeq(order, LAMBDA x : x # l)
               /\ enforcement' = Without(enforcement, l)
               /\ cleanup' = cleanup \ {l} /\ refusals' = refusals \ {l}
               /\ roomWaits' = (roomWaits \ {l}) \cup {x \in Range(after) : RefusedForRoom(rows[x])}
               /\ todo' = <<Item("release", l)>> /\ loose' = loose \ {l}
               /\ passedOver' = passedOver \ {l} /\ UNCHANGED listFaults
            \/ /\ listFaults < MaxListFaults /\ listFaults' = listFaults + 1
               /\ UNCHANGED <<managerVars, todo, loose, passedOver>>
  /\ UNCHANGED <<bLinkVars, ghosts, sinkVars, jobs, op, down, listRequests, unsureRules,
                 storeFailed>>

Reconciles ==
  /\ Ready /\ lane = {} /\ level > 0
  /\ level' = 0 /\ todo' = Pass({}, level, FALSE)
  /\ UNCHANGED <<bLinkVars, ghosts, managerVars, sinkVars, lane, jobs, op, down, boundVars, listHistory>>

\* subscribe_url; a full set, a known list and a failed save change nothing
Subscribes(l) ==
  /\ level' = Max({level, 1})
  /\ IF l \in DOMAIN rows \/ Len(order) >= MaxSubscriptions
     THEN UNCHANGED <<rows, savedRows, order, todo, listFaults>>
     ELSE \/ LET row == [hosts |-> NoHosts, fetched |-> FALSE, status |-> "pending"]
            IN  /\ rows' = With(rows, l, row) /\ savedRows' = With(savedRows, l, row)
                /\ order' = Append(order, l)
                /\ todo' = <<Item("refresh", l)>> /\ UNCHANGED listFaults
          \/ /\ listFaults < MaxListFaults /\ listFaults' = listFaults + 1
             /\ UNCHANGED <<rows, savedRows, order, todo>>

\* refresh_tick: which lists are due is a matter of time, but for those waiting for room
Ticks(tried) ==
  /\ \E due \in SUBSET (DOMAIN rows \ tried) :
       /\ roomWaits \ tried \subseteq due
       /\ todo' = IF due = {} THEN <<Rest(FALSE, tried)>>
                  ELSE <<Item("refresh", Min(due)),
                         [Rest(Cardinality(due) > 1, tried) EXCEPT !.list = Min(due)]>>
  /\ UNCHANGED <<rows, savedRows, order, level, listFaults>>

TakesJob ==
  /\ Ready /\ lane = {} /\ level = 0 /\ jobs # <<>>
  /\ jobs' = Tail(jobs)
  /\ \/ Head(jobs).job = "subscribe" /\ Subscribes(Head(jobs).list)
     \/ Head(jobs).job = "tick" /\ Ticks(Head(jobs).tried)
  /\ UNCHANGED <<bLinkVars, ghosts, sinkVars, enforcement, cleanup, refusals, roomWaits, lane, op, down,
                 listRequests, listHistory>>

-----------------------------------------------------------------------------
(* What comes from outside: GUIs, the refresh loop, the daemon's streams, the end of the bridge *)

Asks == /\ listRequests < MaxListRequests /\ listRequests' = listRequests + 1
        /\ UNCHANGED <<bLinkVars, ghosts, managerVars, sinkVars, todo, op, down, listFaults, listHistory>>

\* enqueue: a full queue refuses the job
Queued(job) == jobs' = IF Len(jobs) < JobCapacity THEN Append(jobs, job) ELSE jobs

GuiSubscribes(l) == Asks /\ Queued([job |-> "subscribe", list |-> l, tried |-> {}]) /\ UNCHANGED <<lane, level>>
LoopTicks == Asks /\ Queued([job |-> "tick", list |-> 0, tried |-> {}]) /\ UNCHANGED <<lane, level>>
GuiUnsubscribes(l) == l \in DOMAIN rows /\ Asks /\ lane' = lane \cup {l} /\ UNCHANGED <<level, jobs>>

StreamLost ==
  /\ listFaults < MaxListFaults /\ listFaults' = listFaults + 1
  /\ \E done \in 0..Len(bWire) : StreamCloses(done)
  /\ IF op.waiting THEN CallEnds("unreachable")
     ELSE UNCHANGED op /\ CallGoesOn
  /\ unsureRules' = IF op.waiting /\ op.phase = "install" THEN unsureRules \cup {Head(op.cmds)} ELSE unsureRules
  /\ UNCHANGED <<ghosts, rows, savedRows, order, roomWaits, confirmed, listRequests,
                 storeFailed>>

\* A daemon that starts again loads the rule files it could not remove
DaemonReloads ==
  /\ bLink = "down" /\ ghosts # {} /\ ghosts' = {}
  /\ bMem' = [n \in DOMAIN bMem \cup ghosts |-> "ours"]
  /\ UNCHANGED <<bList, bLink, bWire, managerVars, sinkVars, workerVars, boundVars, listHistory>>

\* Every committed list asks for a full pass
StreamBack ==
  /\ \E listed \in BOOLEAN : StreamOpens(listed)
  /\ level' = IF bLink' = "listed" THEN 2 ELSE level
  /\ UNCHANGED <<ghosts, managerVars, sinkVars, lane, jobs, todo, op, down, boundVars, listHistory>>

\* The bridge ends at any point and starts again over its store and files.  new() clears
\* the lists past the saved limit.
BridgeStartsAgain ==
  /\ listFaults < MaxListFaults /\ listFaults' = listFaults + 1
  /\ LET past == Range(PastTheLimit(savedRows, order))
     IN  savedRows' = [l \in DOMAIN savedRows |-> IF l \in past THEN ClearedRow(savedRows[l])
                                                  ELSE savedRows[l]]
  /\ rows' = savedRows'
  /\ IF bLink = "down" THEN UNCHANGED bLinkVars ELSE \E done \in 0..Len(bWire) : StreamCloses(done)
  /\ verified' = <<>> /\ confirmed' = {} /\ released' = {}
  /\ enforcement' = <<>> /\ cleanup' = {} /\ refusals' = {} /\ roomWaits' = {}
  /\ lane' = {} /\ level' = 0 /\ jobs' = <<>> /\ todo' = <<>> /\ op' = NoOp /\ down' = FALSE
  /\ loose' = {} /\ passedOver' = {} /\ storeFailed' = FALSE
  /\ unsureRules' = unsureRules \cup {n \in DOMAIN bMem' \cup ghosts : n[1] \notin DOMAIN rows'}
                  \cup (IF op.waiting /\ op.phase = "install" THEN {Head(op.cmds)} ELSE {})
  /\ UNCHANGED <<ghosts, file, order, listRequests>>

-----------------------------------------------------------------------------
BlockInit ==
  /\ rows = <<>> /\ savedRows = <<>> /\ order = <<>>
  /\ file = [l \in ListIds |-> NoHosts]
  /\ verified = <<>> /\ confirmed = {} /\ released = {}
  /\ enforcement = <<>> /\ cleanup = {} /\ refusals = {} /\ roomWaits = {}
  /\ lane = {} /\ level = 0 /\ jobs = <<>> /\ todo = <<>> /\ op = NoOp /\ down = FALSE
  /\ bMem = <<>> /\ bList = NoList /\ bLink = "down" /\ bWire = <<>> /\ ghosts = {}
  /\ listRequests = 0 /\ listFaults = 0
  /\ loose = {} /\ passedOver = {} /\ unsureRules = {} /\ storeFailed = FALSE

BlockSteps ==
  \/ Unsubscribes \/ Reconciles \/ TakesJob \/ Refreshes \/ EndsTick
  \/ ClearsList \/ DemotesList \/ PutsDownload \/ ChecksList \/ ReleasesList \/ RemovesOrphans
  \/ FindsInPlace \/ CannotSend \/ SendsListRule \/ TurnsToOldKinds \/ CallIsDone

DaemonSteps == DaemonConfirms \/ ListDaemonRefuses \/ DaemonIsSilent \/ DaemonAnswersLate

BlockNext ==
  \/ BlockSteps \/ DaemonSteps
  \/ \E l \in ListIds : GuiSubscribes(l) \/ GuiUnsubscribes(l)
  \/ LoopTicks \/ StreamLost \/ DaemonReloads \/ StreamBack \/ BridgeStartsAgain

BlockSpec == BlockInit /\ [][BlockNext]_blockVars

-----------------------------------------------------------------------------
Hosts == [ListKinds -> 0..Max({SizeOf(h) : h \in Downloads})]
Row == [hosts : Hosts, fetched : BOOLEAN, status : {"pending", "ok", "failed", "room", "cleared"}]

\* Types, and what BlocklistsManager and its worker keep together: a row in memory, in the
\* store and in the order for every subscription, nothing noted of a list that is gone, and the
\* limits of the job queue and of the released lists (worker.rs, manager.rs, daemon_sink.rs).
BlockTypeOK ==
  /\ DOMAIN rows = Range(order) /\ DOMAIN savedRows = Range(order) /\ IsInjective(order)
  /\ \A l \in DOMAIN rows : rows[l] \in Row /\ savedRows[l] \in Row
  /\ file \in [ListIds -> Hosts] /\ DOMAIN verified \subseteq ListIds
  /\ DOMAIN enforcement \subseteq DOMAIN rows
  /\ cleanup \cup refusals \cup roomWaits \cup lane \subseteq DOMAIN rows
  /\ released \subseteq ListIds /\ Cardinality(released) <= MaxReleased
  /\ level \in 0..2 /\ Len(jobs) <= JobCapacity

\* The files of the kinds checked in this run that a rule in the daemon reads: together they
\* never hold more hosts than AGGREGATE_MAX_HOSTS, at no step of a download that grows one list
\* and takes others off (store_download, install, remove_over_limit).
CheckedHosts ==
  MapThenSumSet(LAMBDA n : file[n[1]][n[2]], {n \in DOMAIN bMem : n[2] \in VerifiedKinds(n[1])})
CheckedListsFit == CheckedHosts <= AggregateCap

\* A list being dropped or worked on
Busy(l) == l \in lane \/ op.list = l \/ (todo # <<>> /\ Head(todo).list = l)

\* After an unsubscribe a rule the daemon still has reads no host of the list: the files of a
\* released list stay only when its rules' deletes were all confirmed (release_blocklist_rules).
\* Left out are the rules whose own install was refused or never answered, and those a bridge
\* that ended left behind: the next pass with the daemon's list removes them.
DroppedListBlocksNothing ==
  \A n \in DOMAIN bMem \ unsureRules :
    n[1] \notin DOMAIN rows /\ ~Busy(n[1]) => file[n[1]][n[2]] = 0

\* Between two jobs a list shown as installed is enforced with the hosts saved for it, if its
\* last install ran to its end: neither refused, unanswered nor passed over because the
\* daemon did not answer (record_install, install_downloaded).
WholeInstallIsSaved ==
  \A l \in DOMAIN rows \ (loose \cup passedOver) :
    Ready /\ Shown(l) = "installed" => file[l] = savedRows[l].hosts

\* Between two jobs the saved lists hold at most STORED_MAX_HOSTS, whichever list a download
\* grew (clear_lists_past_the_saved_limit), but where the store failed to clear one.
SavedWithinLimit == Ready /\ ~storeFailed => SumOver(order) <= StoredCap

\* What is blocked is what is shown, an installed list's saved hosts and nothing of a list
\* that was dropped; and the lists stay within both limits, the daemon's and the store's.
ListsAreRight ==
  WholeInstallIsSaved /\ DroppedListBlocksNothing /\ CheckedListsFit /\ SavedWithinLimit
=============================================================================
