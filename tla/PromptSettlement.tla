-------------------------- MODULE PromptSettlement --------------------------
(***************************************************************************)
(* How an AskRule call of the daemon is settled.                            *)
(*                                                                         *)
(* Four kinds of task meet on two locks:                                    *)
(*   - one handler per Ask (grpc_server.rs ask_rule, answer_wait.rs,        *)
(*     pending_cleanup.rs),                                                 *)
(*   - the pump, the single task that handles GUI messages                  *)
(*     (bridge-cli lib.rs),                                                 *)
(*   - the task that clears a pause when the last GUI leaves, and the task  *)
(*     that expires one (client_presence.rs, filter_pause.rs),              *)
(*   - GUI sessions that come and go (ws_server.rs holds the lease).        *)
(* The cache lock makes each cache operation one step.  The presence lock   *)
(* is a different lock, so a session can end between two presence checks    *)
(* of one holder of the cache lock: the pause's scan of the waiting prompts *)
(* is therefore several steps, taken with the cache lock held.              *)
(*                                                                         *)
(* The tray published by these operations is in TrayState.tla.              *)
(***************************************************************************)
EXTENDS Integers, Sequences, FiniteSets

CONSTANTS
  Asks,              \* the AskRule calls the daemon makes, each with its own row id
  Events,            \* rows of connections the daemon decided itself (Ping)
  Bindable,          \* the Asks whose row has a program path a rule can name
  DefaultRowAction,  \* daemon_config.default_row_action(): "none" while unknown
  Capacity,          \* rows the cache keeps
  MaxClients,        \* bound: GUI sessions authenticated at once
  MaxGeneration,     \* bound: times the last GUI session ends
  MaxRequests,       \* bound: pause and resume requests sent
  MaxWallSteps,      \* bound: times the wall clock is stepped back over a deadline
  MaxSnapshots       \* bound: RequestSnapshot messages the pump handles

ASSUME SettlementAssumption ==
  /\ Asks \cap Events = {}
  /\ Bindable \subseteq Asks
  /\ DefaultRowAction \in {"none", "allow", "deny"}
  /\ Capacity \in Nat /\ MaxClients \in Nat /\ MaxGeneration \in Nat
  /\ MaxRequests \in Nat /\ MaxWallSteps \in Nat /\ MaxSnapshots \in Nat

VARIABLES
  clients, generation,          \* client_presence State
  pause, owner,                 \* FilterPause.active: where its clocks stand, who set it
  wallSteps,                    \* wall-clock steps back so far
  inbox, sent,                  \* pause requests queued to the pump; how many so far
  requesters,                   \* history: generations a pause was asked for by or under
  pc, adm, chan, reply,         \* per Ask: handler, admission generation, oneshot, answer
  pending, listed, at, row,     \* ConnectionCache: pending map, rows, push order, contents
  pushes,                       \* rows pushed so far, the clock of "at"
  holders,                      \* prompt slot holders
  pump, todo, hits, copy,       \* the pump's step and its local variables
  snapshots,                    \* snapshot requests handled so far
  clearer, seenLoss, expirer,   \* the two pause tasks
  shown, pauseShown             \* what the broadcasts so far tell a GUI

presenceVars == <<clients, generation>>
pauseVars    == <<pause, owner, wallSteps>>
askVars      == <<pc, adm, chan, reply>>
cacheVars    == <<pending, listed, at, row, pushes>>
pumpVars     == <<pump, todo, hits, copy, snapshots>>
taskVars     == <<clearer, seenLoss, expirer>>
vars == <<presenceVars, pauseVars, inbox, sent, requesters, askVars, cacheVars,
          holders, pumpVars, taskVars, shown, pauseShown>>

RowIds == Asks \cup Events

-----------------------------------------------------------------------------
(* Client presence and the filtering pause *)

\* A pause that is set is "running" while both its deadlines are ahead.  "wallPast":
\* only the wall deadline is behind (a suspend, or the clock was set forward).
\* "over": the monotonic deadline is behind, for good.
PauseStates == {"none", "running", "wallPast", "over"}
PauseActive == pause = "running"
PauseLapsed == pause \in {"wallPast", "over"}

\* resume, and the two ways a task clears a pause
ClearPause == pause' = "none" /\ owner' = 0

\* while_generation_current's test
Current(g) == clients > 0 /\ generation = g

\* Mutant: a pause counts whoever set it
AppliesToAnyone(g) == Current(g) /\ PauseActive

\* FilterPause::applies_to, under the presence lock
AppliesTo(g) == Current(g) /\ PauseActive /\ owner = g

\* ClientPresence::authenticated_session
Authenticate ==
  /\ clients < MaxClients
  /\ clients' = clients + 1
  /\ UNCHANGED <<generation, pauseVars, inbox, sent, requesters, askVars, cacheVars,
                 holders, pumpVars, taskVars, shown, pauseShown>>

\* SessionLease::drop: the last one starts a new generation
SessionEnds ==
  /\ clients > 0
  /\ clients = 1 => generation < MaxGeneration
  /\ clients' = clients - 1
  /\ generation' = IF clients = 1 THEN generation + 1 ELSE generation
  /\ UNCHANGED <<pauseVars, inbox, sent, requesters, askVars, cacheVars, holders,
                 pumpVars, taskVars, shown, pauseShown>>

\* A request carries the generation its session was stamped with; one from an
\* in-process sender has no session and no stamp.
Unstamped == -1
RequestKinds == {"pause", "resume"}
Requests == [kind : RequestKinds, gen : Nat \cup {Unstamped}]

\* stamp_sender: a session forwards a request with the generation it read while
\* holding its lease.
SendPauseRequest(r) ==
  /\ sent < MaxRequests
  /\ r.gen = Unstamped \/ Current(r.gen)
  /\ inbox' = Append(inbox, r) /\ sent' = sent + 1
  /\ requesters' = IF r.kind = "pause" /\ r.gen # Unstamped THEN requesters \cup {r.gen} ELSE requesters
  /\ UNCHANGED <<presenceVars, pauseVars, askVars, cacheVars, holders,
                 pumpVars, taskVars, shown, pauseShown>>

\* The clocks.  A step back of the wall clock makes a pause active again, unless
\* the expiry task has cleared it.
PauseDeadlinePasses ==
  /\ \/ pause = "running" /\ pause' = "wallPast" /\ UNCHANGED wallSteps
     \/ pause \in {"running", "wallPast"} /\ pause' = "over" /\ UNCHANGED wallSteps
     \/ /\ pause = "wallPast" /\ wallSteps < MaxWallSteps
        /\ pause' = "running" /\ wallSteps' = wallSteps + 1
  /\ UNCHANGED owner
  /\ UNCHANGED <<presenceVars, inbox, sent, requesters, askVars, cacheVars, holders,
                 pumpVars, taskVars, shown, pauseShown>>

-----------------------------------------------------------------------------
(* The connection cache.  Every operation runs with the cache lock held. *)

\* The pump holds the lock across its scan of the waiting prompts.
CacheFree == pump \notin {"match", "settle"}

\* A row's action and what is said about it: the pause allowed it, nobody answered it
\* in time, or a person put it off.  The last two are the deferred rows.
Row(action, label) == [action |-> action, label |-> label]
Rows == [action : {"none", "allow", "deny"}, label : {"none", "filterPaused", "noAnswer", "later"}]
Deferred(r) == r.label \in {"noAnswer", "later"}
PromptRow == Row("none", "none")
\* What a GUI makes of a row it is sent
View(r) == IF r.action = "none" /\ ~Deferred(r) THEN "prompt" ELSE "settled"
Views == {"absent", "prompt", "settled"}

\* evict_if_needed: the oldest rows that are not pending go, until the rest fit or
\* only pending rows are left.
Evict(L, P, stamp) ==
  {i \in L : i \in P \/ Cardinality({j \in L : j \in P \/ stamp[j] >= stamp[i]}) <= Capacity}

\* rows.push then evict_if_needed
Push(i, P) ==
  /\ pushes' = pushes + 1
  /\ at' = [at EXCEPT ![i] = pushes + 1]
  /\ listed' = Evict(listed \cup {i}, P, at')

\* Mutant: the row stays listed
CancelKeepsRow(a) ==
  IF a \in pending
  THEN /\ pending' = pending \ {a}
       /\ chan' = [chan EXCEPT ![a] = "closed"]
       /\ shown' = [shown EXCEPT ![a] = "absent"]
       /\ UNCHANGED listed
  ELSE UNCHANGED <<pending, listed, chan, shown>>

\* Mutant: the removal is not broadcast
CancelUntold(a) ==
  IF a \in pending
  THEN /\ pending' = pending \ {a} /\ listed' = listed \ {a}
       /\ chan' = [chan EXCEPT ![a] = "closed"]
       /\ UNCHANGED shown
  ELSE UNCHANGED <<pending, listed, chan, shown>>

\* cancel_pending: broadcasts the removal; a verdict that already won is preserved
CancelPending(a) ==
  IF a \in pending
  THEN /\ pending' = pending \ {a}
       /\ listed' = listed \ {a}
       /\ chan' = [chan EXCEPT ![a] = "closed"]
       /\ shown' = [shown EXCEPT ![a] = "absent"]
  ELSE UNCHANGED <<pending, listed, chan, shown>>

\* The handler still owns the receiver
ReceiverOpen(a) == pc[a] \in {"inserted", "waiting", "loss", "timeout", "await"}

\* resolve's "delivered": the send, made under while_current
Delivered(a) == Current(adm[a]) /\ ReceiverOpen(a)

\* resolve when the verdict is delivered; decided is the row the caller leaves
Settle(a, verdict, decided) ==
  /\ pending' = pending \ {a}
  /\ chan' = [chan EXCEPT ![a] = verdict]
  /\ row' = [row EXCEPT ![a] = decided]
  /\ UNCHANGED <<listed, at, pushes>>

\* resolve when it is not: the row goes, its removal is broadcast
Undelivered(a) ==
  /\ CancelPending(a)
  /\ UNCHANGED <<at, row, pushes>>

\* defer_pending
DeferPending(a, label) ==
  /\ pending' = pending \ {a}
  /\ chan' = [chan EXCEPT ![a] = "closed"]
  /\ row' = [row EXCEPT ![a] = Row(DefaultRowAction, label)]
  /\ shown' = [shown EXCEPT ![a] = View(row'[a])]
  /\ UNCHANGED <<listed, at, pushes>>

\* ping's insert_decided of one event.  The row never was a prompt.
PingEvent(e) ==
  /\ CacheFree /\ at[e] = 0
  /\ Push(e, pending)
  /\ UNCHANGED <<presenceVars, pauseVars, inbox, sent, requesters, askVars, pending, row,
                 holders, pumpVars, taskVars, shown, pauseShown>>

-----------------------------------------------------------------------------
(* ask_rule, one handler per Ask *)

Goto(a, step) == pc' = [pc EXCEPT ![a] = step]
Answer(a, what) == reply' = [reply EXCEPT ![a] = what] /\ Goto(a, "leaving")

AllowedByPause == Row("allow", "filterPaused")

\* admit(), or Unavailable
Admit(a) ==
  /\ pc[a] = "new"
  /\ IF clients > 0
     THEN adm' = [adm EXCEPT ![a] = generation] /\ Goto(a, "admitted") /\ UNCHANGED reply
     ELSE reply' = [reply EXCEPT ![a] = "noGui"] /\ Goto(a, "done") /\ UNCHANGED adm
  /\ UNCHANGED <<presenceVars, pauseVars, inbox, sent, requesters, chan, cacheVars,
                 holders, pumpVars, taskVars, shown, pauseShown>>

\* The pause decides the Ask on arrival: a decided row, Allow once
AllowOnArrival(a) ==
  /\ pc[a] = "admitted" /\ CacheFree /\ AppliesTo(adm[a])
  /\ Push(a, pending)
  /\ row' = [row EXCEPT ![a] = AllowedByPause]
  /\ shown' = [shown EXCEPT ![a] = "settled"]
  /\ reply' = [reply EXCEPT ![a] = "allow"] /\ Goto(a, "done")
  /\ UNCHANGED <<presenceVars, pauseVars, inbox, sent, requesters, adm, chan, pending,
                 holders, pumpVars, taskVars, pauseShown>>

\* Mutant: the pause is not asked again under the cache lock
InsertUnderPause(a) ==
  /\ pc[a] = "admitted" /\ CacheFree /\ Current(adm[a])
  /\ pending' = pending \cup {a}
  /\ chan' = [chan EXCEPT ![a] = "open"]
  /\ Push(a, pending')
  /\ row' = [row EXCEPT ![a] = PromptRow]
  /\ shown' = [shown EXCEPT ![a] = "prompt"]
  /\ Goto(a, "inserted")
  /\ UNCHANGED <<presenceVars, pauseVars, inbox, sent, requesters, adm, reply,
                 holders, pumpVars, taskVars, pauseShown>>

\* insert_admitted, and the broadcast of the row under the same lock
InsertAdmitted(a) ==
  /\ pc[a] = "admitted" /\ CacheFree /\ ~AppliesTo(adm[a]) /\ Current(adm[a])
  /\ pending' = pending \cup {a}
  /\ chan' = [chan EXCEPT ![a] = "open"]
  /\ Push(a, pending')
  /\ row' = [row EXCEPT ![a] = PromptRow]
  /\ shown' = [shown EXCEPT ![a] = "prompt"]
  /\ Goto(a, "inserted")
  /\ UNCHANGED <<presenceVars, pauseVars, inbox, sent, requesters, adm, reply,
                 holders, pumpVars, taskVars, pauseShown>>

\* The session was lost before admission: Unavailable
RefuseLost(a) ==
  /\ pc[a] = "admitted" /\ CacheFree /\ ~Current(adm[a])
  /\ reply' = [reply EXCEPT ![a] = "noGui"] /\ Goto(a, "done")
  /\ UNCHANGED <<presenceVars, pauseVars, inbox, sent, requesters, adm, chan, cacheVars,
                 holders, pumpVars, taskVars, shown, pauseShown>>

\* PendingCleanup::hold.  Nothing is awaited between the insertion and this.
Hold(a) ==
  /\ pc[a] = "inserted"
  /\ holders' = holders \cup {a}
  /\ Goto(a, "waiting")
  /\ UNCHANGED <<presenceVars, pauseVars, inbox, sent, requesters, adm, chan, reply,
                 cacheVars, pumpVars, taskVars, shown, pauseShown>>

askOnly == <<presenceVars, pauseVars, inbox, sent, requesters, adm, cacheVars, holders,
             pumpVars, taskVars, shown, pauseShown>>

\* verdict_rx is ready, in the select or after a lost race.  A Deny still takes
\* the cache lock for the tray before it is returned.
TakeVerdict(a) ==
  /\ pc[a] \in {"waiting", "await"}
  /\ \/ chan[a] = "allow"  /\ Answer(a, "allow")
     \/ chan[a] = "deny"   /\ Goto(a, "deny") /\ UNCHANGED reply
     \/ chan[a] = "closed" /\ Answer(a, "noAnswer")
  /\ UNCHANGED <<askOnly, chan>>

\* publish_recent_block, then the reply
ReplyDeny(a) ==
  /\ pc[a] = "deny" /\ CacheFree
  /\ Answer(a, "deny")
  /\ UNCHANGED <<askOnly, chan>>

\* select! is unbiased: with several branches ready it may take any of them.
NoticeLoss(a) ==
  /\ pc[a] = "waiting" /\ generation # adm[a]
  /\ Goto(a, "loss") /\ UNCHANGED <<askOnly, chan, reply>>

Timeout(a) ==
  /\ pc[a] = "waiting"
  /\ Goto(a, "timeout") /\ UNCHANGED <<askOnly, chan, reply>>

\* The loss branch with the cache lock
CancelLost(a) ==
  /\ pc[a] = "loss" /\ CacheFree
  /\ CancelPending(a)
  /\ IF a \in pending THEN Answer(a, "guiLost") ELSE Goto(a, "await") /\ UNCHANGED reply
  /\ UNCHANGED <<presenceVars, pauseVars, inbox, sent, requesters, adm, at, row, pushes,
                 holders, pumpVars, taskVars, pauseShown>>

\* The timeout branch with the cache lock: answer_unanswered
AnswerUnanswered(a) ==
  /\ pc[a] = "timeout" /\ CacheFree
  /\ IF a \in pending
     THEN DeferPending(a, "noAnswer") /\ Answer(a, "noAnswer")
     ELSE Goto(a, "await") /\ UNCHANGED <<chan, reply, cacheVars, shown>>
  /\ UNCHANGED <<presenceVars, pauseVars, inbox, sent, requesters, adm, holders,
                 pumpVars, taskVars, pauseShown>>

\* The transport is cancelled and the future dropped, at any point it awaits.  Once
\* the row is inserted the receiver goes first, then PendingCleanup.
Abandon(a) ==
  /\ pc[a] \in {"admitted", "waiting", "loss", "timeout", "await", "deny"}
  /\ reply' = [reply EXCEPT ![a] = "abandoned"]
  /\ Goto(a, IF pc[a] = "admitted" THEN "done" ELSE "leaving")
  /\ UNCHANGED <<askOnly, chan>>

\* PendingCleanup::drop: the slot is released at once
ReleaseSlot(a) ==
  /\ pc[a] = "leaving"
  /\ holders' = holders \ {a}
  /\ Goto(a, "cleanup")
  /\ UNCHANGED <<presenceVars, pauseVars, inbox, sent, requesters, adm, chan, reply,
                 cacheVars, pumpVars, taskVars, shown, pauseShown>>

\* Mutant: the row is left to a cleanup that never comes
CleanupSkipped(a) ==
  /\ pc[a] = "cleanup"
  /\ Goto(a, "done")
  /\ UNCHANGED <<askOnly, chan, reply>>

\* the row is withdrawn with the cache lock, now or by a spawned task
Cleanup(a) ==
  /\ pc[a] = "cleanup" /\ CacheFree
  /\ CancelPending(a)
  /\ Goto(a, "done")
  /\ UNCHANGED <<presenceVars, pauseVars, inbox, sent, requesters, adm, reply, at, row,
                 pushes, holders, pumpVars, taskVars, pauseShown>>

-----------------------------------------------------------------------------
(* The pump: one message of a GUI at a time *)

pumpKeeps == <<presenceVars, wallSteps, inbox, sent, requesters, pc, adm, reply, holders, taskVars>>

\* SetVerdict: resolve, and if that worked the row is fanned out afterwards,
\* with the lock taken again
SetVerdict(a, verdict) ==
  /\ pump = "idle" /\ at[a] > 0
  /\ IF a \notin pending
     THEN UNCHANGED <<pump, hits, chan, cacheVars, shown>>
     ELSE IF Delivered(a)
          THEN /\ Settle(a, verdict, Row(verdict, "none"))
               /\ pump' = "fanOut" /\ hits' = {a} /\ UNCHANGED shown
          ELSE Undelivered(a) /\ UNCHANGED <<pump, hits>>
  /\ UNCHANGED <<pumpKeeps, pause, owner, todo, copy, snapshots, pauseShown>>

\* The row may have been evicted meanwhile: then nothing is sent
FanOut ==
  /\ pump = "fanOut"
  /\ shown' = [a \in Asks |-> IF a \in hits \cap listed THEN View(row[a]) ELSE shown[a]]
  /\ pump' = "idle" /\ hits' = {}
  /\ UNCHANGED <<pumpKeeps, pause, owner, chan, cacheVars, todo, copy, snapshots, pauseShown>>

\* Mutant: a prompt is put off whether or not it still waits
DecideLaterAnyway(a) ==
  /\ pump = "idle" /\ at[a] > 0
  /\ DeferPending(a, "later")
  /\ UNCHANGED <<pumpKeeps, pause, owner, pumpVars, pauseShown>>

\* decide_later: Deny for five minutes if a rule can name the program, else put off
DecideLater(a) ==
  /\ pump = "idle" /\ at[a] > 0
  /\ IF a \notin pending
     THEN UNCHANGED <<chan, cacheVars, shown>>
     ELSE IF a \notin Bindable
          THEN DeferPending(a, "later")
          ELSE IF Delivered(a)
               THEN /\ Settle(a, "deny", Row("deny", "later"))
                    /\ shown' = [shown EXCEPT ![a] = "settled"]
               ELSE Undelivered(a)
  /\ UNCHANGED <<pumpKeeps, pause, owner, pumpVars, pauseShown>>

\* apply_pause_request.  A pause is ignored when its sender's generation is over, and
\* rejected when its length is not one of the allowed ones.
Sender(r) == IF r.gen = Unstamped THEN generation ELSE r.gen
Apply(r) ==
  \/ r.kind = "resume" /\ ClearPause /\ UNCHANGED requesters
  \/ /\ r.kind = "pause" /\ Current(Sender(r))
     /\ pause' = "running" /\ owner' = Sender(r)
     /\ requesters' = requesters \cup IF r.gen = Unstamped THEN {generation} ELSE {}
  \/ r.kind = "pause" /\ UNCHANGED <<pause, owner, requesters>>

\* The pump applies a request without the cache lock.  Whatever came of it, the scan
\* and the announcement follow.
ApplyPauseRequest ==
  /\ pump = "idle" /\ inbox # <<>>
  /\ Apply(Head(inbox))
  /\ inbox' = Tail(inbox)
  /\ pump' = "scan"
  /\ UNCHANGED <<presenceVars, wallSteps, sent, askVars, cacheVars, holders, todo,
                 hits, copy, snapshots, taskVars, shown, pauseShown>>

\* answer_waiting takes the cache lock ...
ScanBegins ==
  /\ pump = "scan"
  /\ pump' = "match" /\ todo' = pending /\ hits' = {}
  /\ UNCHANGED <<pumpKeeps, pause, owner, chan, cacheVars, copy, snapshots, shown, pauseShown>>

\* ... pending_admitted_where asks of each waiting prompt whether the pause applies ...
ScanMatch(a) ==
  /\ pump = "match" /\ a \in todo
  /\ hits' = IF AppliesTo(adm[a]) THEN hits \cup {a} ELSE hits
  /\ todo' = todo \ {a}
  /\ UNCHANGED <<pumpKeeps, pause, owner, pump, chan, cacheVars, copy, snapshots, shown, pauseShown>>

ScanMatched ==
  /\ pump = "match" /\ todo = {}
  /\ pump' = "settle"
  /\ UNCHANGED <<pumpKeeps, pause, owner, chan, cacheVars, todo, hits, copy, snapshots, shown, pauseShown>>

\* ... and each that matched is resolved, Allow once, and labelled.
ScanSettle(a) ==
  /\ pump = "settle" /\ a \in hits
  /\ hits' = hits \ {a}
  /\ IF Delivered(a)
     THEN Settle(a, "allow", AllowedByPause) /\ shown' = [shown EXCEPT ![a] = "settled"]
     ELSE Undelivered(a)
  /\ UNCHANGED <<pumpKeeps, pause, owner, pump, todo, copy, snapshots, pauseShown>>

ScanEnds ==
  /\ pump = "settle" /\ hits = {}
  /\ pump' = "announce"
  /\ UNCHANGED <<pumpKeeps, pause, owner, chan, cacheVars, todo, hits, copy, snapshots, shown, pauseShown>>

\* announce_pause_state, under the cache lock
PumpAnnounces ==
  /\ pump = "announce"
  /\ pauseShown' = PauseActive
  /\ pump' = "idle"
  /\ UNCHANGED <<pumpKeeps, pause, owner, chan, cacheVars, todo, hits, copy, snapshots, shown>>

\* RequestSnapshot: the rows are copied with the lock and sent without it
SnapshotCopies ==
  /\ pump = "idle" /\ snapshots < MaxSnapshots
  /\ copy' = [a \in Asks |-> IF a \in listed THEN View(row[a]) ELSE "absent"]
  /\ pump' = "send" /\ snapshots' = snapshots + 1
  /\ UNCHANGED <<pumpKeeps, pause, owner, chan, cacheVars, todo, hits, shown, pauseShown>>

\* ClearConnectionRows, then InsertConnectionRows with the copied rows
SnapshotClears ==
  /\ pump = "send"
  /\ shown' = [a \in Asks |-> "absent"]
  /\ pump' = "insert"
  /\ UNCHANGED <<pumpKeeps, pause, owner, chan, cacheVars, todo, hits, copy, snapshots, pauseShown>>

\* The pause state that ends the answer is sent with the lock, as in PumpAnnounces
SnapshotInserts ==
  /\ pump = "insert"
  /\ shown' = [a \in Asks |-> IF copy[a] = "absent" THEN shown[a] ELSE copy[a]]
  /\ pump' = "announce" /\ copy' = [a \in Asks |-> "absent"]
  /\ UNCHANGED <<pumpKeeps, pause, owner, chan, cacheVars, todo, hits, snapshots, pauseShown>>

-----------------------------------------------------------------------------
(* The two pause tasks: each changes the pause, then announces it *)

taskKeeps == <<presenceVars, wallSteps, inbox, sent, requesters, askVars, cacheVars, holders,
               pumpVars, shown>>

\* Mutant: off by one in clear_if_owner_ended
ClearOnNextLoss ==
  /\ clearer = "idle" /\ seenLoss # generation
  /\ seenLoss' = generation
  /\ IF pause # "none" /\ owner < generation - 1
     THEN ClearPause /\ clearer' = "announce"
     ELSE UNCHANGED <<pause, owner, clearer>>
  /\ UNCHANGED <<taskKeeps, expirer, pauseShown>>

\* Mutant: the clear is not announced
ClearUnannounced ==
  /\ clearer = "idle" /\ seenLoss # generation
  /\ seenLoss' = generation
  /\ IF pause # "none" /\ owner < generation THEN ClearPause ELSE UNCHANGED <<pause, owner>>
  /\ UNCHANGED <<taskKeeps, clearer, expirer, pauseShown>>

\* clear_pause_on_last_session_loss wakes up, maybe late: it acts on the newest
\* generation, and only on the pause of an older one
ClearOnLoss ==
  /\ clearer = "idle" /\ seenLoss # generation
  /\ seenLoss' = generation
  /\ IF pause # "none" /\ owner < generation
     THEN ClearPause /\ clearer' = "announce"
     ELSE UNCHANGED <<pause, owner, clearer>>
  /\ UNCHANGED <<taskKeeps, expirer, pauseShown>>

ClearerAnnounces ==
  /\ clearer = "announce" /\ CacheFree
  /\ pauseShown' = PauseActive
  /\ clearer' = "idle"
  /\ UNCHANGED <<taskKeeps, pause, owner, seenLoss, expirer>>

\* expire_pause_on_deadline: a tick that finds the pause expired takes it
TakeExpired ==
  /\ expirer = "idle" /\ PauseLapsed
  /\ ClearPause
  /\ expirer' = "announce"
  /\ UNCHANGED <<taskKeeps, clearer, seenLoss, pauseShown>>

ExpirerAnnounces ==
  /\ expirer = "announce" /\ CacheFree
  /\ pauseShown' = PauseActive
  /\ expirer' = "idle"
  /\ UNCHANGED <<taskKeeps, pause, owner, clearer, seenLoss>>

-----------------------------------------------------------------------------
Init ==
  /\ clients = 0 /\ generation = 0
  /\ pause = "none" /\ owner = 0 /\ wallSteps = 0
  /\ inbox = <<>> /\ sent = 0 /\ requesters = {}
  /\ pc = [a \in Asks |-> "new"] /\ adm = [a \in Asks |-> 0]
  /\ chan = [a \in Asks |-> "none"] /\ reply = [a \in Asks |-> "none"]
  /\ pending = {} /\ listed = {} /\ at = [i \in RowIds |-> 0] /\ pushes = 0
  /\ row = [a \in Asks |-> PromptRow]
  /\ holders = {}
  /\ pump = "idle" /\ todo = {} /\ hits = {} /\ copy = [a \in Asks |-> "absent"]
  /\ snapshots = 0
  /\ clearer = "idle" /\ seenLoss = 0 /\ expirer = "idle"
  /\ shown = [a \in Asks |-> "absent"] /\ pauseShown = FALSE

Sessions ==
  \/ Authenticate \/ SessionEnds
  \/ \E k \in RequestKinds, g \in {generation, Unstamped} : SendPauseRequest([kind |-> k, gen |-> g])

Handler(a) ==
  \/ Admit(a) \/ AllowOnArrival(a) \/ InsertAdmitted(a) \/ RefuseLost(a) \/ Hold(a)
  \/ TakeVerdict(a) \/ ReplyDeny(a) \/ NoticeLoss(a) \/ Timeout(a)
  \/ CancelLost(a) \/ AnswerUnanswered(a) \/ ReleaseSlot(a) \/ Cleanup(a)

PumpTakes ==
  \/ \E a \in Asks : DecideLater(a) \/ \E v \in {"allow", "deny"} : SetVerdict(a, v)
  \/ ApplyPauseRequest \/ SnapshotCopies

PumpGoesOn ==
  \/ FanOut \/ ScanBegins \/ ScanMatched \/ ScanEnds \/ PumpAnnounces
  \/ SnapshotClears \/ SnapshotInserts
  \/ \E a \in Asks : ScanMatch(a) \/ ScanSettle(a)

PauseTasks == ClearOnLoss \/ ClearerAnnounces \/ TakeExpired \/ ExpirerAnnounces

Next ==
  \/ Sessions \/ PauseDeadlinePasses \/ PumpTakes \/ PumpGoesOn \/ PauseTasks
  \/ \E a \in Asks : Handler(a) \/ Abandon(a)
  \/ \E e \in Events : PingEvent(e)

Spec == Init /\ [][Next]_vars

-----------------------------------------------------------------------------
(* Properties *)

Steps == {"new", "admitted", "inserted", "waiting", "loss", "timeout", "await", "deny",
          "leaving", "cleanup", "done"}
PumpSteps == {"idle", "fanOut", "scan", "match", "settle", "announce", "send", "insert"}
Replies == {"none", "noGui", "allow", "deny", "guiLost", "noAnswer", "abandoned"}

\* Every variable has its type.
TypeOK ==
  /\ clients \in Nat /\ generation \in Nat
  /\ pause \in PauseStates /\ owner \in Nat
  /\ wallSteps \in Nat
  /\ inbox \in Seq(Requests) /\ sent \in Nat /\ requesters \in SUBSET Nat
  /\ pc \in [Asks -> Steps] /\ adm \in [Asks -> Nat]
  /\ chan \in [Asks -> {"none", "open", "allow", "deny", "closed"}]
  /\ reply \in [Asks -> Replies]
  /\ pending \in SUBSET Asks /\ listed \in SUBSET RowIds
  /\ at \in [RowIds -> Nat] /\ pushes \in Nat /\ row \in [Asks -> Rows]
  /\ holders \in SUBSET Asks
  /\ pump \in PumpSteps /\ todo \in SUBSET Asks /\ hits \in SUBSET Asks
  /\ copy \in [Asks -> Views] /\ snapshots \in Nat
  /\ clearer \in {"idle", "announce"} /\ seenLoss \in Nat /\ expirer \in {"idle", "announce"}
  /\ shown \in [Asks -> Views] /\ pauseShown \in BOOLEAN

\* "Pending rows are never evicted by retention policy" (connections.rs:4), however many
\* rows are pushed meanwhile; and a waiting prompt's row never reads as decided.
PendingStaysListed ==
  \A a \in pending : a \in listed /\ row[a] = PromptRow /\ chan[a] = "open"

\* "A verdict that settled first always wins over the loss and the timeout"
\* (answer_wait.rs:31): once resolve delivered a verdict, the daemon is answered
\* with it and nothing else, unless it hung up.
VerdictWins ==
  \A a \in Asks : chan[a] \in {"allow", "deny"} =>
                     reply[a] \in {"none", "abandoned", chan[a]}

\* What the daemon was told about an Ask is what its row shows for as long as the row
\* is listed: the verdict, or that the default action applied.
RowTellsTheAnswer ==
  \A a \in Asks \cap listed :
    /\ reply[a] \in {"allow", "deny"} => row[a].action = reply[a]
    /\ reply[a] = "noAnswer" => Deferred(row[a]) /\ row[a].action = DefaultRowAction
    /\ reply[a] \notin {"noGui", "guiLost"}

\* The three together: an Ask is answered with its verdict or with none, and its row says
\* which (AskRule, from insertion to the reply).
AnswersAreTold == PendingStaysListed /\ VerdictWins /\ RowTellsTheAnswer


\* The inductive invariant behind the three above, per Ask: how the handler's step, the
\* oneshot channel, the answer given and the row fit together.
AskInv(a) ==
  /\ chan[a] = "open" <=> a \in pending
  /\ a \in pending => a \in listed /\ row[a] = PromptRow
  /\ pc[a] \in {"new", "admitted"} => chan[a] = "none" /\ reply[a] = "none" /\ a \notin listed
  /\ pc[a] \in {"inserted", "waiting", "loss", "timeout", "await", "deny"} =>
       chan[a] # "none" /\ reply[a] = "none"
  /\ pc[a] = "await" => a \notin pending
  /\ pc[a] = "deny" => chan[a] = "deny"
  /\ a \in listed =>
       /\ chan[a] = "none" => reply[a] = "allow" /\ row[a].action = "allow"
       /\ chan[a] \in {"allow", "deny"} => row[a].action = chan[a]
       /\ chan[a] = "closed" => Deferred(row[a]) /\ row[a].action = DefaultRowAction
  /\ reply[a] = "allow" => chan[a] \in {"none", "allow"}
  /\ reply[a] = "deny" => chan[a] = "deny"
  /\ reply[a] = "noAnswer" => chan[a] = "closed"
  /\ reply[a] = "guiLost" => chan[a] = "closed" /\ a \notin listed
  /\ reply[a] = "noGui" => chan[a] = "none" /\ a \notin listed
SettleInv ==
  /\ \A a \in Asks : AskInv(a)
  /\ pump = "match" => todo \cup hits \subseteq pending
  /\ pump = "settle" => hits \subseteq pending

\* "No waiting prompt is missed" (pause_answers.rs:10): whenever the pause applies to a
\* waiting prompt, the pump has yet to reach that prompt in its scan.
NoneLeftWaiting ==
  \A a \in pending : AppliesTo(adm[a]) =>
     \/ pump = "scan"
     \/ pump = "match" /\ a \in todo \cup hits
     \/ pump = "settle" /\ a \in hits

\* Its inductive form: a waiting prompt was admitted under a generation that is current
\* or over, and over when no GUI is left.
WaitInv ==
  /\ NoneLeftWaiting
  /\ \A a \in pending : adm[a] <= generation /\ (clients = 0 => adm[a] < generation)

\* A pause allows only connections asked about under the GUI sessions that wanted it
\* (filter_pause.rs:9-13): no request that waited in the queue while every GUI left, no
\* pause not yet cleared, lets through an Ask of a later session.
PausedOnlyByOwnSession ==
  \A a \in Asks : row[a].label = "filterPaused" => adm[a] \in requesters

\* Between two GUI messages, the prompts the broadcasts show are the ones waiting: an
\* insertion is published under the lock its removal is (grpc_server.rs:419-420).  Only a
\* snapshot, sent without that lock, may show otherwise (NoStalePrompt), and a prompt whose
\* row was evicted between its verdict and the look-up for the broadcast (lib.rs:629).
GuiShowsTheWaiting ==
  pump = "idle" /\ snapshots = 0 =>
    \A a \in Asks : /\ a \in pending => shown[a] = "prompt"
                    /\ shown[a] = "prompt" => a \in pending \/ (a \notin listed /\ chan[a] \in {"allow", "deny"})

\* No stale prompt is left behind (grpc_server.rs:419-420): between two GUI messages, a
\* row that broadcasts show as a prompt is a prompt.
NoStalePrompt ==
  pump = "idle" => \A a \in Asks : shown[a] = "prompt" => a \in pending

\* "The last [announcement] always matches the last change" (relays.rs:25-28): with no
\* announcement outstanding and no deadline just passed, GUIs show the pause as it is, until
\* the wall clock is stepped back over a deadline (no task announces that).
PauseShownIsTrue ==
  /\ clearer = "idle" /\ expirer = "idle"
  /\ pump \notin {"scan", "match", "settle", "announce"}
  /\ ~PauseLapsed /\ wallSteps = 0
  => (pauseShown <=> PauseActive)

\* GUIs are shown what is: the prompts that wait, and the pause.
GuisAreShownWhatIs == GuiShowsTheWaiting /\ PauseShownIsTrue

\* A decision is final: no step changes the verdict a row shows or a delivered one.
DecisionIsFinal ==
  [][\A a \in Asks :
       /\ chan[a] \in {"allow", "deny", "closed"} => chan'[a] = chan[a]
       /\ row[a].action # "none" => row'[a].action = row[a].action]_vars

\* Every Ask is answered or given up, its row withdrawn or settled, its slot released.
EveryAskSettles ==
  \A a \in Asks : pc[a] # "new" ~> (pc[a] = "done" /\ a \notin pending \cup holders)

\* A pause does not outlive the GUI sessions that set it.
PauseEndsWithItsSession ==
  (pause # "none" /\ owner < generation) ~> (pause = "none" \/ owner = generation)

\* GUIs that show a pause that is over stop showing it, or a new one starts.
EndOfPauseIsShown == (pauseShown /\ ~PauseActive) ~> (~pauseShown \/ PauseActive)

=============================================================================
