------------------------------ MODULE GuiLink ------------------------------
(***************************************************************************)
(* The GUI's link to the bridge (bridge_runtime.rs, pending_rows.rs) and    *)
(* the silent answers given over it (silent_mode.rs, bridge_feed.rs): one   *)
(* task relays both ways and reconnects, the feed task and the sweeps       *)
(* answer waiting rows under one lock, the owner answers on the Qt thread.  *)
(*                                                                         *)
(* The bridge is external: it asks about rows, takes answers and may        *)
(* restart, when it uses its row ids again.                                 *)
(***************************************************************************)
EXTENDS Naturals, Sequences, FiniteSets

CONSTANTS
  WireIds,         \* ids of rows on the wire
  QueueCap,        \* inbound_tx's capacity
  FeedCap,         \* broadcast_tx's capacity
  Advertised,      \* what the bridge of each session advertises, by the session's number
  MaxActs          \* bound: sessions, changes of the silent mode, starts of learning and answers of the
                   \* owner's, together

ASSUME AdvertisedAssumption == \A s \in 1..MaxActs : Advertised[s] \subseteq {"appBound", "decideLater"}
ASSUME CapsAssumption == QueueCap \in Nat \ {0} /\ FeedCap \in Nat \ {0}

VARIABLES
  asks,            \* external: what the bridge asks, by id
  wire,            \* external: messages on their way to the GUI
  snapshotDue,     \* external: the snapshot that was asked for is not sent yet
  link,            \* ConnectionState
  guiRelay,           \* client_loop: where it is, and the message in its hands
  queue,           \* inbound_rx
  feed, lagged,    \* the feed task's receiver
  silentState,     \* silent_mode::STATE
  learning,        \* learned::LEARNING
  answered,        \* shared_answered
  answering,       \* who holds its lock, and what is left to send
  sweeps,          \* spawned sweeps: of a switch, of a lag or of learning
  click,           \* an answer in dispatch_to on the Qt thread
  recorded,        \* what the recorder was given
  acts,
  sent, twice,     \* silent answers queued; one was queued again
  full,            \* rows whose answer found the queue full
  got              \* what a bridge was sent last

serverVars == <<asks, wire, snapshotDue, got>>
linkVars   == <<link, guiRelay, queue>>
feedVars   == <<feed, lagged>>
modeVars   == <<silentState, learning, acts>>
answerVars == <<answered, answering, sweeps, recorded, sent, twice, full>>
guiLinkVars == <<serverVars, linkVars, feedVars, modeVars, answerVars, click>>

Acts == acts < MaxActs /\ acts' = acts + 1
Waiting == {r \in WireIds : asks[r] = "waiting"}
IsCurrent(session) == link.connected /\ link.id = session

Link(connected, id, pending) == [connected |-> connected, id |-> id, pending |-> pending]
Memory(session, ids, allowed) == [session |-> session, ids |-> ids, allowed |-> allowed]

Rows(ids) == [kind |-> "rows", rows |-> ids]     \* Insert or Update, still pending
Gone(ids) == [kind |-> "gone", rows |-> ids]     \* decided, put off or removed
Clear     == [kind |-> "clear", rows |-> {}]

-----------------------------------------------------------------------------
(* The bridge *)

Wired == guiRelay.pc \in {"relay", "cast"}
Tells(msgs) == wire' = IF Wired THEN wire \o msgs ELSE wire

BridgeAsks(r) ==
  /\ asks[r] = "none" /\ asks' = [asks EXCEPT ![r] = "waiting"] /\ Tells(<<Rows({r})>>)
  /\ UNCHANGED <<snapshotDue, got, linkVars, feedVars, modeVars, answerVars, click>>

\* Answered elsewhere, or by its default
BridgeDecides(r) ==
  /\ asks[r] = "waiting" /\ asks' = [asks EXCEPT ![r] = "decided"] /\ Tells(<<Gone({r})>>)
  /\ UNCHANGED <<snapshotDue, got, linkVars, feedVars, modeVars, answerVars, click>>

BridgeSnapshots ==
  /\ snapshotDue /\ snapshotDue' = FALSE /\ Wired
  /\ wire' = wire \o <<Clear, Rows(Waiting)>>
  /\ UNCHANGED <<asks, got, linkVars, feedVars, modeVars, answerVars, click>>

-----------------------------------------------------------------------------
(* client_loop *)

RelayAt(pc, msg) == [pc |-> pc, msg |-> msg]

\* connect_and_relay up to the loop; the snapshot was asked for on the way
Connects ==
  /\ guiRelay.pc = "down" /\ Acts
  /\ link' = Link(TRUE, link.id + 1, {})
  /\ guiRelay' = RelayAt("relay", Clear) /\ wire' = <<>> /\ snapshotDue' = TRUE
  /\ UNCHANGED <<asks, got, queue, feedVars, silentState, learning, answerVars, click>>

\* PendingRows::observe
Observed(msg) ==
  CASE msg.kind = "rows"  -> link.pending \cup msg.rows
    [] msg.kind = "gone"  -> link.pending \ msg.rows
    [] msg.kind = "clear" -> {}

\* Mutant: the waiting rows get a message after the feed
ObservesLate ==
  LET msg == [session |-> link.id, rows |-> Head(wire).rows, kind |-> "rows"]
  IN  /\ guiRelay.pc = "relay" /\ wire # <<>>
      /\ \/ /\ Head(wire).kind # "rows" /\ wire' = Tail(wire) /\ UNCHANGED feed
            /\ link' = Link(link.connected, link.id, Observed(Head(wire))) /\ guiRelay' = RelayAt("cast", Head(wire))
         \/ /\ Head(wire).kind = "rows" /\ guiRelay.msg = Clear /\ Len(feed) < FeedCap
            /\ feed' = Append(feed, msg) /\ guiRelay' = RelayAt("relay", Head(wire)) /\ UNCHANGED <<wire, link>>
         \/ /\ guiRelay.msg # Clear /\ guiRelay' = RelayAt("relay", Clear) /\ wire' = Tail(wire)
            /\ link' = Link(link.connected, link.id, Observed(guiRelay.msg)) /\ UNCHANGED feed
      /\ UNCHANGED <<asks, snapshotDue, got, queue, lagged, modeVars, answerVars, click>>

Observes ==
  /\ guiRelay.pc = "relay" /\ wire # <<>> /\ wire' = Tail(wire)
  /\ link' = Link(link.connected, link.id, Observed(Head(wire)))
  /\ guiRelay' = RelayAt("cast", Head(wire))
  /\ UNCHANGED <<asks, snapshotDue, got, queue, feedVars, modeVars, answerVars, click>>

\* broadcast_tx.send: the oldest message gives way, and the receiver is told
Casts ==
  LET msg == [session |-> link.id, rows |-> guiRelay.msg.rows, kind |-> guiRelay.msg.kind]
  IN  /\ guiRelay.pc = "cast" /\ guiRelay' = RelayAt("relay", Clear)
      /\ IF Len(feed) < FeedCap THEN feed' = Append(feed, msg) /\ UNCHANGED lagged
         ELSE feed' = Append(Tail(feed), msg) /\ lagged' = TRUE
      /\ UNCHANGED <<serverVars, link, queue, modeVars, answerVars, click>>

\* The queue's next message goes out if it is this session's.  The bridge takes an answer
\* for a row that waits.
Sends ==
  LET m == Head(queue)
      taken == asks[m.row] = "waiting"
  IN  /\ guiRelay.pc = "relay" /\ queue # <<>> /\ queue' = Tail(queue)
      /\ IF ~IsCurrent(m.session) THEN UNCHANGED <<asks, wire, got>>
         ELSE /\ got' = {[to |-> link.id, of |-> m.of, kind |-> m.kind]}
              /\ asks' = IF taken THEN [asks EXCEPT ![m.row] = "decided"] ELSE asks
              /\ wire' = IF taken THEN Append(wire, Gone({m.row})) ELSE wire
      /\ UNCHANGED <<snapshotDue, link, guiRelay, feedVars, modeVars, answerVars, click>>

\* disconnect_and_discard: the gate closes, then the queue is drained
Disconnects ==
  /\ guiRelay.pc = "relay" /\ guiRelay' = RelayAt("drain", Clear)
  /\ link' = Link(FALSE, link.id, {})
  /\ wire' = <<>> /\ snapshotDue' = FALSE
  /\ UNCHANGED <<asks, got, queue, feedVars, modeVars, answerVars, click>>

\* The bridge may be another by the next session
Drains(again) ==
  /\ guiRelay.pc = "drain" /\ guiRelay' = RelayAt("down", Clear) /\ queue' = <<>>
  /\ asks' = IF again THEN [r \in WireIds |-> "none"] ELSE asks
  /\ UNCHANGED <<wire, snapshotDue, got, link, feedVars, modeVars, answerVars, click>>

-----------------------------------------------------------------------------
(* try_send_with_session *)

\* Mutant: a message goes to whatever session is live
AdmitsAny(session) == link.connected /\ Len(queue) < QueueCap

Admits(session) == IsCurrent(session) /\ Len(queue) < QueueCap
Queued(session, r, kind) ==
  Append(queue, [session |-> link.id, of |-> session, row |-> r, kind |-> kind])

-----------------------------------------------------------------------------
(* Silent answers, under the lock of shared_answered *)

Nobody == [pc |-> "free", session |-> 0, rows |-> {}, choice |-> "off", records |-> FALSE]
Answering(pc, session, rows, given, records) ==
  [pc |-> pc, session |-> session, rows |-> rows, choice |-> given, records |-> records]
answerKeeps == <<serverVars, guiRelay, link, modeVars, click>>

\* The feed task.  A lag is told before the next message, and sweeps (on_lagged).
FeedLags ==
  /\ lagged /\ lagged' = FALSE /\ sweeps' = [sweeps EXCEPT !.recording = @ + 1]
  /\ UNCHANGED <<answerKeeps, queue, feed, answered, answering, recorded, sent, twice, full>>

\* answer_new_rows, to its choice
FeedTakes ==
  LET m == Head(feed)
  IN  /\ ~lagged /\ feed # <<>> /\ feed' = Tail(feed) /\ answering = Nobody
      /\ answering' = IF silentState = "off" THEN Nobody
                      ELSE Answering("plan", m.session, IF m.kind = "rows" THEN m.rows ELSE {},
                                     silentState, FALSE)
      /\ UNCHANGED <<answerKeeps, queue, lagged, answered, sweeps, recorded, sent, twice, full>>

\* Answered::enter
Entered(session) ==
  IF answered.session = session THEN answered ELSE Memory(session, {}, {})

\* Mutant: a row is planned each time it is told
PlannedAgain(session, rows, given) == rows

Planned(session, rows, given) == rows \ Entered(session).ids

\* Answered::plan, plan_waiting and note_allowed
Plans(session, rows, given, records) ==
  LET new == Planned(session, rows, given)
      was == Entered(session)
  IN  /\ answered' = Memory(session, was.ids \cup rows,
                            IF given = "allow" THEN was.allowed \cup new ELSE was.allowed)
      /\ answering' = Answering("send", session, new, given, records)

FeedPlans ==
  /\ answering.pc = "plan"
  /\ IF IsCurrent(answering.session) /\ answering.rows # {}
     THEN Plans(answering.session, answering.rows, answering.choice, FALSE)
     ELSE answering' = Nobody /\ UNCHANGED answered
  /\ UNCHANGED <<answerKeeps, queue, feedVars, sweeps, recorded, sent, twice, full>>

\* answer_pending_now (of a switch) or sweep_waiting
SweepTakes(kind) ==
  LET records == kind = "recording"
  IN  /\ answering = Nobody /\ sweeps[kind] > 0 /\ sweeps' = [sweeps EXCEPT ![kind] = @ - 1]
      /\ IF silentState = "off" THEN answering' = Answering("send", 0, {}, "off", records)
         ELSE answering' = Answering("snapshot", 0, {}, silentState, records)
      /\ UNCHANGED <<answerKeeps, queue, feedVars, answered, recorded, sent, twice, full>>

SweepPlans ==
  /\ answering.pc = "snapshot"
  /\ IF link.connected THEN Plans(link.id, link.pending, answering.choice, answering.records)
     ELSE answering' = Answering("send", 0, {}, answering.choice, answering.records) /\ UNCHANGED answered
  /\ UNCHANGED <<answerKeeps, queue, feedVars, sweeps, recorded, sent, twice, full>>

\* Answered::forget
Forgotten(was, session, r) ==
  IF was.session = session THEN Memory(session, was.ids \ {r}, was.allowed \ {r}) ELSE was

\* Mutant: every silent answer is recorded
RecordsAny(given) == learning

Records(given) == given = "allow" /\ learning

\* One turn of send_plan's loop
Answers(r) ==
  LET session == answering.session
      given == answering.choice
      this == [session |-> session, row |-> r]
  IN  /\ answering.pc = "send" /\ r \in answering.rows
      /\ answering' = Answering("send", session, answering.rows \ {r}, given, answering.records)
      /\ IF Admits(session)
         THEN /\ queue' = Queued(session, r, "once")
              /\ sent' = sent \cup {[at |-> this, choice |-> given]}
              /\ twice' = (twice \/ \E s \in sent : s.at = this)
              /\ recorded' = IF Records(given) THEN recorded \cup {this} ELSE recorded
              /\ full' = full \ {this}
              /\ UNCHANGED answered
         ELSE /\ answered' = Forgotten(answered, session, r)
              /\ full' = full \cup {this}
              /\ UNCHANGED <<queue, sent, twice, recorded>>
      /\ UNCHANGED <<answerKeeps, feedVars, sweeps>>

\* The plan is sent; a sweep records what was answered before
AnswersEnd ==
  LET was == {r \in link.pending : answered.session = link.id /\ r \in answered.allowed}
  IN  /\ answering.pc = "send" /\ answering.rows = {} /\ answering' = Nobody
      /\ recorded' = IF answering.records /\ link.connected /\ learning
                     THEN recorded \cup {[session |-> link.id, row |-> r] : r \in was} ELSE recorded
      /\ UNCHANGED <<answerKeeps, queue, feedVars, answered, sweeps, sent, twice, full>>

-----------------------------------------------------------------------------
(* The Qt thread *)

qtKept == <<serverVars, linkVars, feedVars, answered, answering, recorded, sent, twice, full>>

\* set_silent_state
SetSilentState(mode) ==
  /\ Acts /\ mode # silentState /\ silentState' = mode
  /\ sweeps' = IF mode = "off" THEN sweeps ELSE [sweeps EXCEPT !.switch = @ + 1]
  /\ UNCHANGED <<qtKept, learning, click>>

\* publish_learning: recording starts before the mode is switched, and ends
LearningStarts ==
  /\ Acts /\ ~learning /\ learning' = TRUE /\ sweeps' = [sweeps EXCEPT !.recording = @ + 1]
  /\ UNCHANGED <<qtKept, silentState, click>>

LearningEnds ==
  /\ learning /\ learning' = FALSE
  /\ UNCHANGED <<qtKept, silentState, acts, sweeps, click>>

NoClick == [session |-> 0, row |-> "none", kind |-> "none"]

\* dispatch_to for a row of the session, which may be gone: what its bridge does not take is
\* sent once only, or not at all
Clicks(session, r, kind) ==
  LET has(cap) == IsCurrent(session) /\ cap \in Advertised[session]
  IN  /\ click = NoClick /\ Acts
      /\ click' = CASE kind = "remember" /\ ~has("appBound") -> [session |-> session, row |-> r, kind |-> "once"]
                    [] kind = "later" /\ ~has("decideLater") -> NoClick
                    [] OTHER -> [session |-> session, row |-> r, kind |-> kind]
      /\ UNCHANGED <<qtKept, silentState, learning, sweeps>>

ClickSends ==
  /\ click # NoClick /\ click' = NoClick
  /\ queue' = IF Admits(click.session) THEN Queued(click.session, click.row, click.kind) ELSE queue
  /\ UNCHANGED <<serverVars, link, guiRelay, feedVars, modeVars, answerVars>>

-----------------------------------------------------------------------------

GuiLinkInit ==
  /\ asks = [r \in WireIds |-> "none"] /\ wire = <<>> /\ snapshotDue = FALSE /\ got = {}
  /\ link = Link(FALSE, 0, {})
  /\ guiRelay = RelayAt("down", Clear) /\ queue = <<>> /\ feed = <<>> /\ lagged = FALSE
  /\ silentState = "off" /\ learning = FALSE /\ acts = 0
  /\ answered = Memory(0, {}, {}) /\ answering = Nobody
  /\ sweeps = [switch |-> 0, recording |-> 0] /\ recorded = {} /\ sent = {} /\ twice = FALSE
  /\ full = {} /\ click = NoClick 

GuiLinkNext ==
  \/ \E r \in WireIds : BridgeAsks(r) \/ BridgeDecides(r) \/ Answers(r)
  \/ BridgeSnapshots
  \/ Connects \/ Observes \/ Casts \/ Sends \/ Disconnects
  \/ \E again \in BOOLEAN : Drains(again)
  \/ FeedLags \/ FeedTakes \/ FeedPlans
  \/ \E kind \in {"switch", "recording"} : SweepTakes(kind)
  \/ SweepPlans \/ AnswersEnd
  \/ \E mode \in {"off", "allow", "deny"} : SetSilentState(mode)
  \/ LearningStarts \/ LearningEnds
  \/ \E session \in 1..link.id, r \in WireIds, kind \in {"once", "remember", "later"} :
       Clicks(session, r, kind)
  \/ ClickSends

GuiLinkSpec == GuiLinkInit /\ [][GuiLinkNext]_guiLinkVars

-----------------------------------------------------------------------------
(* Properties *)

\* An answer given for a row goes to the bridge session the row came from or to none, however
\* reconnects fall between the click, the queue and the socket (bridge_runtime.rs:195-199);
\* and what a session's bridge did not advertise is not asked of it (bridge_feed.rs).
AnswersReachTheirSession ==
  \A g \in got :
    /\ g.of = g.to
    /\ g.kind = "remember" => "appBound" \in Advertised[g.to]
    /\ g.kind = "later" => "decideLater" \in Advertised[g.to]

Settled ==
  /\ link.connected /\ ~snapshotDue /\ wire = <<>> /\ guiRelay.pc = "relay" /\ feed = <<>> /\ ~lagged
  /\ answering = Nobody /\ sweeps = [switch |-> 0, recording |-> 0]

\* In Allow or Deny every waiting row of the session has been answered, once: neither a switch
\* of the mode that races a row's arrival, nor a lag of the feed, nor a failed send leaves one
\* unanswered and unasked; only a row whose answer found the queue full waits for the next
\* sweep (silent_mode.rs:321-325).
SilentAnswersAll ==
  /\ ~twice
  /\ Settled =>
       /\ link.pending = Waiting
       /\ silentState # "off" =>
            \A r \in link.pending : LET this == [session |-> link.id, row |-> r]
                                    IN  this \in full \/ \E s \in sent : s.at = this

\* Learning records what was really answered with Allow: a row denied before learning began,
\* or whose Allow could not be sent, is not recorded (silent_mode.rs:142-144, 337-339).
RecordIsTrue == \A this \in recorded : [at |-> this, choice |-> "allow"] \in sent

\* What is answered reaches the session it is for, and is recorded as it was answered.
AnswersAreTrue == AnswersReachTheirSession /\ RecordIsTrue
=============================================================================
