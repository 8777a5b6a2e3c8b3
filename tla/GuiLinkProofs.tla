--------------------------- MODULE GuiLinkProofs ----------------------------
(***************************************************************************)
(* Silent answers over the GUI's link, for any rows and numbers of         *)
(* sessions.                                                               *)
(*                                                                         *)
(* WaysInv says where an answer can be and AnswerInv that each way keeps   *)
(* the record true; WireInv and SweepInv say which rows are still to be    *)
(* told to the answerer.                                                   *)
(***************************************************************************)
EXTENDS GuiLink, TLAPS

-----------------------------------------------------------------------------
(* Answers over the link *)

Sessions == 1..link.id
Kinds == {"once", "remember", "later"}
Allowed(session, r) == [at |-> [session |-> session, row |-> r], choice |-> "allow"]
QueueEntries == [session : Nat, of : Nat, row : WireIds, kind : Kinds]

\* A session's bridge takes an answer of that kind
Takes(session, kind) ==
  /\ kind = "remember" => "appBound" \in Advertised[session]
  /\ kind = "later" => "decideLater" \in Advertised[session]

\* What waits in the queue, or is on its way to it, is for its own session
WaysInv ==
  /\ link.id \in Nat /\ (link.connected => link.id \in Sessions)
  /\ queue \in Seq(QueueEntries)
  /\ \A i \in 1..Len(queue) : /\ queue[i].of = queue[i].session
                              /\ Takes(queue[i].session, queue[i].kind)
  /\ click # NoClick => /\ click.session \in Nat /\ click.row \in WireIds /\ click.kind \in Kinds
                        /\ Takes(click.session, click.kind)
  /\ AnswersReachTheirSession

\* Under the lock: the rows still to be sent are the only ones that are planned and not
\* answered, and what was answered is remembered for as long as its session is
AnswerInv ==
  /\ answered.session \in 0..link.id
  /\ answering.pc = "free" => answering = Nobody
  /\ answering.pc = "send" /\ answering.rows # {} =>
       answering.session = answered.session /\ answering.rows \subseteq answered.ids
  /\ \A s \in sent : /\ s.at.session \in 0..answered.session
                     /\ s.at.session = answered.session =>
                          /\ s.at.row \in answered.ids
                          /\ answering.pc = "send" => s.at.row \notin answering.rows
  /\ \A r \in answered.allowed :
       \/ Allowed(answered.session, r) \in sent
       \/ answering.pc = "send" /\ answering.choice = "allow" /\ r \in answering.rows
  /\ ~twice /\ RecordIsTrue

\* What the bridge does, what the feed is told and the changes of the modes touch neither.
Elsewhere ==
  \/ \E r \in WireIds : BridgeAsks(r) \/ BridgeDecides(r)
  \/ BridgeSnapshots \/ Casts \/ FeedLags \/ LearningStarts \/ LearningEnds
  \/ \E mode \in {"off", "allow", "deny"} : SetSilentState(mode)

\* Those steps change nothing of the link, the answers or the queue.
LEMMA ElsewhereKeeps ==
  ASSUME Elsewhere
  PROVE  UNCHANGED <<link, queue, click, got, answered, answering, sent, recorded, twice>>
  BY Zenon DEF Elsewhere, BridgeAsks, BridgeDecides, BridgeSnapshots, Casts, FeedLags, LearningStarts,
         LearningEnds, SetSilentState, linkVars, feedVars, modeVars, answerVars, answerKeeps, serverVars,
         qtKept

\* The relay's steps and the answers' keep what is on its way for its own session.
LEMMA WaysStep ==
  ASSUME WaysInv, GuiLinkNext
  PROVE  WaysInv'
<1> USE DEF WaysInv
<1>1. CASE Elsewhere
  BY <1>1, ElsewhereKeeps DEF AnswersReachTheirSession, Takes, Sessions
<1>2. CASE Connects
  <2>1. link'.id = link.id + 1 /\ UNCHANGED <<queue, click, got>>
    BY <1>2 DEF Connects, Link, answerVars
  <2> QED BY <1>2, <2>1 DEF AnswersReachTheirSession, Takes, Sessions
<1>3. CASE Observes
  <2>1. link'.id = link.id /\ link'.connected = link.connected /\ UNCHANGED <<queue, click, got>>
    BY <1>3 DEF Observes, Link
  <2> QED BY <2>1 DEF AnswersReachTheirSession, Takes, Sessions
<1>4. CASE Sends
  <2> DEFINE m == queue[1]
  <2>1. Len(queue) \in Nat /\ Len(queue) > 0 /\ Head(queue) = m /\ queue' = Tail(queue)
    BY <1>4 DEF Sends
  <2>2. UNCHANGED <<link, click>> BY <1>4 DEF Sends
  <2>3. queue' \in Seq(QueueEntries) /\ Len(queue') = Len(queue) - 1
        /\ \A i \in 1..Len(queue') : queue'[i] = queue[i + 1]
    BY <2>1
  <2>4. \A i \in 1..Len(queue') : queue'[i].of = queue'[i].session
                                  /\ Takes(queue'[i].session, queue'[i].kind)
    BY <2>1, <2>3
  <2>5. got' = got \/ (m.session = link.id /\ got' = {[to |-> link.id, of |-> m.of, kind |-> m.kind]})
    BY <1>4, <2>1 DEF Sends, IsCurrent
  <2>6. m.of = m.session /\ Takes(m.session, m.kind) BY <2>1
  <2>7. AnswersReachTheirSession'
    BY <2>5, <2>6 DEF AnswersReachTheirSession, Takes
  <2> QED BY <2>2, <2>3, <2>4, <2>7 DEF Takes, Sessions
<1>5. CASE Disconnects
  <2>1. link'.id = link.id /\ link'.connected = FALSE /\ UNCHANGED <<queue, click, got>>
    BY <1>5 DEF Disconnects, Link
  <2> QED BY <2>1 DEF AnswersReachTheirSession, Takes, Sessions
<1>6. CASE \E again \in BOOLEAN : Drains(again)
  <2>1. queue' = <<>> /\ UNCHANGED <<link, click, got>> BY <1>6 DEF Drains
  <2> QED BY <2>1 DEF AnswersReachTheirSession, Takes, Sessions
<1>7. CASE FeedTakes \/ FeedPlans \/ SweepPlans \/ AnswersEnd
           \/ \E kind \in {"switch", "recording"} : SweepTakes(kind)
  <2>1. UNCHANGED <<link, queue, click, got>>
    BY Zenon, <1>7 DEF FeedTakes, FeedPlans, SweepPlans, AnswersEnd, SweepTakes, answerKeeps, serverVars
  <2> QED BY <2>1 DEF AnswersReachTheirSession, Takes, Sessions
<1>8. ASSUME NEW session \in Nat, NEW r \in WireIds, NEW kind \in Kinds, Takes(session, kind), Admits(session),
             queue' = Queued(session, r, kind)
      PROVE  /\ queue' \in Seq(QueueEntries)
             /\ \A i \in 1..Len(queue') : queue'[i].of = queue'[i].session
                                          /\ Takes(queue'[i].session, queue'[i].kind)
  <2> DEFINE new == [session |-> link.id, of |-> session, row |-> r, kind |-> kind]
  <2>1. link.id = session /\ new \in QueueEntries /\ new.of = new.session /\ Takes(new.session, new.kind)
    BY <1>8 DEF Admits, IsCurrent, QueueEntries
  <2>2. queue' = Append(queue, new) BY <1>8 DEF Queued
  <2> HIDE DEF new
  <2>3. queue' \in Seq(QueueEntries) /\ Len(queue') = Len(queue) + 1
        /\ \A i \in 1..Len(queue') : queue'[i] = IF i <= Len(queue) THEN queue[i] ELSE new
    BY <2>1, <2>2
  <2> QED BY <2>1, <2>3
<1>9. CASE \E r \in WireIds : Answers(r)
  <2>1. PICK r \in WireIds : Answers(r) BY <1>9
  <2>2. UNCHANGED <<link, click, got>> BY <2>1 DEF Answers, answerKeeps, serverVars
  <2>3. CASE Admits(answering.session)
    <3>1. queue' = Queued(answering.session, r, "once") /\ answering.session = link.id
      BY <2>1, <2>3 DEF Answers, Admits, IsCurrent
    <3>2. "once" \in Kinds /\ Takes(answering.session, "once") BY DEF Kinds, Takes
    <3> QED BY <1>8, <2>2, <2>3, <3>1, <3>2 DEF AnswersReachTheirSession, Takes, Sessions
  <2>4. CASE ~Admits(answering.session)
    <3>1. queue' = queue BY <2>1, <2>4 DEF Answers
    <3> QED BY Zenon, <2>2, <3>1 DEF AnswersReachTheirSession, Takes, Sessions
  <2> QED BY <2>3, <2>4
<1>10. CASE \E session \in 1..link.id, r \in WireIds, kind \in {"once", "remember", "later"} :
              Clicks(session, r, kind)
  <2>1. UNCHANGED <<link, queue, got>> BY <1>10 DEF Clicks, qtKept, linkVars, serverVars
  <2>2. click' # NoClick => /\ click'.session \in Nat /\ click'.row \in WireIds /\ click'.kind \in Kinds
                            /\ Takes(click'.session, click'.kind)
    BY <1>10 DEF Clicks, Takes, Kinds
  <2> QED BY <2>1, <2>2 DEF AnswersReachTheirSession, Takes, Sessions
<1>11. CASE ClickSends
  <2>1. UNCHANGED <<link, got>> /\ click' = NoClick BY Zenon, <1>11 DEF ClickSends, serverVars
  <2>2. CASE Admits(click.session)
    BY <1>8, <1>11, <2>1, <2>2 DEF ClickSends, AnswersReachTheirSession, Takes, Sessions
  <2>3. CASE ~Admits(click.session)
    <3>1. queue' = queue BY <1>11, <2>3 DEF ClickSends
    <3> QED BY <2>1, <3>1 DEF AnswersReachTheirSession, Takes, Sessions
  <2> QED BY <2>2, <2>3
<1> QED BY Zenon, <1>1, <1>2, <1>3, <1>4, <1>5, <1>6, <1>7, <1>9, <1>10, <1>11 DEF GuiLinkNext, Elsewhere

\* Answered::plan and plan_waiting: what is planned has not been answered, and what was
\* answered with Allow before has been sent.
LEMMA PlansStep ==
  ASSUME WaysInv, AnswerInv, NEW rows, NEW given, NEW records,
         answering.pc # "send", Plans(link.id, rows, given, records),
         UNCHANGED <<link, sent, recorded, twice>>
  PROVE  AnswerInv'
<1> DEFINE was == Entered(link.id)
           new == Planned(link.id, rows, given)
<1>1. /\ answered'.session = link.id /\ answered'.ids = was.ids \cup rows
      /\ answered'.allowed = IF given = "allow" THEN was.allowed \cup new ELSE was.allowed
      /\ answering'.pc = "send" /\ answering'.session = link.id /\ answering'.rows = new
      /\ answering'.choice = given
  BY DEF Plans, Memory, Answering
<1>2. new = rows \ was.ids BY DEF Planned
<1>3. CASE answered.session = link.id
  <2>1. was = answered BY Zenon, <1>3 DEF Entered
  <2> HIDE DEF was, new
  <2> QED BY <1>1, <1>2, <1>3, <2>1 DEF AnswerInv, WaysInv, RecordIsTrue, Allowed
<1>4. CASE answered.session # link.id
  <2>1. was.ids = {} /\ was.allowed = {} BY <1>4 DEF Entered, Memory
  <2>2. \A s \in sent : s.at.session \in 0..link.id /\ s.at.session # link.id
    BY <1>4 DEF AnswerInv, WaysInv
  <2> HIDE DEF was, new
  <2> QED BY <1>1, <1>2, <2>1, <2>2 DEF AnswerInv, WaysInv, RecordIsTrue
<1> QED BY <1>3, <1>4

\* One turn of send_plan: the row's answer is queued, for the first time, or the row is
\* forgotten.
LEMMA AnswersStep ==
  ASSUME WaysInv, AnswerInv, NEW r \in WireIds, Answers(r)
  PROVE  AnswerInv'
<1> DEFINE session == answering.session
           given == answering.choice
           this == [session |-> session, row |-> r]
<1>1. /\ answering.pc = "send" /\ r \in answering.rows /\ UNCHANGED link
      /\ answering'.pc = "send" /\ answering'.session = session /\ answering'.choice = given
      /\ answering'.rows = answering.rows \ {r}
  BY DEF Answers, Answering, answerKeeps
<1>2. session = answered.session /\ answering.rows \subseteq answered.ids /\ session \in Nat
  BY <1>1 DEF AnswerInv, WaysInv
<1>3. \A s \in sent : s.at # this
  BY <1>1, <1>2 DEF AnswerInv
<1>4. CASE Admits(session)
  <2>1. /\ sent' = sent \cup {[at |-> this, choice |-> given]} /\ answered' = answered
        /\ twice' = (twice \/ \E s \in sent : s.at = this)
        /\ recorded' = IF Records(given) THEN recorded \cup {this} ELSE recorded
    BY <1>4 DEF Answers
  <2>2. ~twice' BY Zenon, <1>3, <2>1 DEF AnswerInv
  <2>3. RecordIsTrue' BY Zenon, <2>1 DEF AnswerInv, RecordIsTrue, Records
  <2>4. \A s \in sent' : /\ s.at.session \in 0..answered'.session
                         /\ s.at.session = answered'.session =>
                              s.at.row \in answered'.ids /\ s.at.row \notin answering'.rows
    BY <1>1, <1>2, <2>1 DEF AnswerInv
  <2>5. \A q \in answered'.allowed :
          \/ Allowed(answered'.session, q) \in sent'
          \/ answering'.choice = "allow" /\ q \in answering'.rows
    BY Zenon, <1>1, <1>2, <2>1 DEF AnswerInv, Allowed
  <2> QED BY <1>1, <1>2, <2>1, <2>2, <2>3, <2>4, <2>5 DEF AnswerInv
<1>5. CASE ~Admits(session)
  <2>1. UNCHANGED <<sent, twice, recorded>> /\ answered' = Forgotten(answered, session, r)
    BY ZenonT(30), <1>5 DEF Answers
  <2>2. answered'.session = answered.session /\ answered'.ids = answered.ids \ {r}
        /\ answered'.allowed = answered.allowed \ {r}
    BY <1>2, <2>1 DEF Forgotten, Memory
  <2>3. \A s \in sent' : /\ s.at.session \in 0..answered'.session
                         /\ s.at.session = answered'.session =>
                              s.at.row \in answered'.ids /\ s.at.row \notin answering'.rows
    BY <1>1, <2>1, <2>2 DEF AnswerInv
  <2> QED BY <1>1, <1>2, <2>1, <2>2, <2>3 DEF AnswerInv, RecordIsTrue
<1> QED BY <1>4, <1>5

\* Every step keeps the record of the answers true.
LEMMA AnswerStep ==
  ASSUME WaysInv, AnswerInv, GuiLinkNext
  PROVE  AnswerInv'
<1>1. CASE Elsewhere
  BY <1>1, ElsewhereKeeps DEF AnswerInv, RecordIsTrue
<1>2. CASE Connects \/ Observes \/ Sends \/ Disconnects \/ (\E again \in BOOLEAN : Drains(again))
           \/ ClickSends \/ (\E session \in 1..link.id, r \in WireIds, kind \in {"once", "remember", "later"} :
                             Clicks(session, r, kind))
  <2>1. UNCHANGED <<answered, answering, sent, recorded, twice>>
    BY Zenon, <1>2 DEF Connects, Observes, Sends, Disconnects, Drains, ClickSends, Clicks, answerVars, qtKept
  <2>2. link'.id \in Nat /\ link'.id >= link.id
    BY <1>2 DEF Connects, Observes, Sends, Disconnects, Drains, ClickSends, Clicks, Link, qtKept, linkVars,
               WaysInv
  <2> QED BY <2>1, <2>2 DEF AnswerInv, WaysInv, RecordIsTrue
<1>3. CASE FeedTakes \/ \E kind \in {"switch", "recording"} : SweepTakes(kind)
  <2>1. answering = Nobody /\ UNCHANGED <<link, answered, sent, recorded, twice>>
    BY Zenon, <1>3 DEF FeedTakes, SweepTakes, answerKeeps
  <2>2. answering.pc # "send" BY <2>1 DEF Nobody
  <2>3. /\ answering'.pc = "free" => answering' = Nobody
        /\ answering'.pc = "send" => answering'.rows = {}
    BY <1>3 DEF FeedTakes, SweepTakes, Nobody, Answering
  <2> QED BY <2>1, <2>2, <2>3 DEF AnswerInv, RecordIsTrue
<1>4. CASE FeedPlans
  <2>1. answering.pc # "send" /\ UNCHANGED <<link, sent, recorded, twice>>
    BY <1>4 DEF FeedPlans, answerKeeps
  <2>2. CASE IsCurrent(answering.session) /\ answering.rows # {}
    BY Zenon, <1>4, <2>1, <2>2, PlansStep DEF FeedPlans, IsCurrent
  <2>3. CASE ~(IsCurrent(answering.session) /\ answering.rows # {})
    <3>1. answering' = Nobody /\ answered' = answered BY Zenon, <1>4, <2>3 DEF FeedPlans
    <3> QED BY <2>1, <3>1 DEF AnswerInv, RecordIsTrue, Nobody
  <2> QED BY <2>2, <2>3
<1>5. CASE SweepPlans
  <2>1. answering.pc # "send" /\ UNCHANGED <<link, sent, recorded, twice>>
    BY <1>5 DEF SweepPlans, answerKeeps
  <2>2. CASE link.connected BY <1>5, <2>1, <2>2, PlansStep DEF SweepPlans
  <2>3. CASE ~link.connected
    <3>1. answering'.pc = "send" /\ answering'.rows = {} /\ answered' = answered
      BY <1>5, <2>3 DEF SweepPlans, Answering
    <3> QED BY <2>1, <3>1 DEF AnswerInv, RecordIsTrue
  <2> QED BY <2>2, <2>3
<1>6. CASE \E r \in WireIds : Answers(r) BY <1>6, AnswersStep
<1>7. CASE AnswersEnd
  <2>1. /\ answering.rows = {} /\ answering' = Nobody /\ UNCHANGED <<link, answered, sent, twice>>
        /\ \A this \in recorded' \ recorded :
             \E r \in answered.allowed : answered.session = link.id
                                        /\ this = [session |-> link.id, row |-> r]
    BY <1>7 DEF AnswersEnd, answerKeeps
  <2>2. RecordIsTrue' BY Zenon, <2>1 DEF AnswerInv, RecordIsTrue, Allowed
  <2> QED BY <2>1, <2>2 DEF AnswerInv, Nobody
<1> QED BY Zenon, <1>1, <1>2, <1>3, <1>4, <1>5, <1>6, <1>7 DEF GuiLinkNext, Elsewhere

\* The ways of the link and the record of the answers hold always.
LEMMA LinkInvHolds == GuiLinkSpec => [](WaysInv /\ AnswerInv)
<1>1. GuiLinkInit => WaysInv /\ AnswerInv
  BY DEF GuiLinkInit, WaysInv, AnswerInv, AnswersReachTheirSession, RecordIsTrue, Link, Memory, Nobody
<1>2. WaysInv /\ AnswerInv /\ [GuiLinkNext]_guiLinkVars => (WaysInv /\ AnswerInv)'
  <2>1. CASE UNCHANGED guiLinkVars
    BY <2>1 DEF guiLinkVars, serverVars, linkVars, feedVars, modeVars, answerVars, WaysInv, AnswerInv,
               AnswersReachTheirSession, RecordIsTrue, Takes, Sessions
  <2> QED BY Zenon, <2>1, WaysStep, AnswerStep
<1> QED BY <1>1, <1>2, PTL DEF GuiLinkSpec

\* Whatever reconnects, lags, sweeps and switches of the mode come between: no answer reaches
\* another session than its row's, nor a bridge that does not take it, and only what was
\* answered with Allow is recorded (try_send_with_session, dispatch_to, send_plan).
THEOREM AnswersStayTrue == GuiLinkSpec => []AnswersAreTrue
<1>1. WaysInv /\ AnswerInv => AnswersAreTrue BY DEF WaysInv, AnswerInv, AnswersAreTrue
<1> QED BY <1>1, LinkInvHolds, PTL

-----------------------------------------------------------------------------
(* Every waiting row is answered *)

Messages == [kind : {"rows", "gone", "clear"}, rows : SUBSET WireIds]
FedMessages == [session : Nat, kind : {"rows", "gone", "clear"}, rows : SUBSET WireIds]
Removes(m, r) == m.kind = "clear" \/ (m.kind = "gone" /\ r \in m.rows)
Brings(m, r) == m.kind = "rows" /\ r \in m.rows

\* What PendingRows will hold once the relay has read what is on the wire
WillWait(r) ==
  \/ r \in link.pending /\ \A j \in 1..Len(wire) : ~Removes(wire[j], r)
  \/ \E i \in 1..Len(wire) : Brings(wire[i], r) /\ \A j \in (i + 1)..Len(wire) : ~Removes(wire[j], r)

\* It is what the bridge waits for, from the first snapshot of the session on
WireInv ==
  /\ asks \in [WireIds -> {"none", "waiting", "decided"}] /\ wire \in Seq(Messages)
  /\ link.pending \subseteq WireIds /\ (link.connected <=> Wired)
  /\ link.connected /\ ~snapshotDue => \A r \in WireIds : asks[r] = "waiting" <=> WillWait(r)

Handled(r) ==
  LET this == [session |-> link.id, row |-> r]
  IN  \/ this \in full \/ \E s \in sent : s.at = this
      \/ answering.pc = "send" /\ answering.session = link.id /\ r \in answering.rows

\* A row that is not answered yet is on its way to be, or a sweep will find it
Told(r) ==
  \/ guiRelay.pc = "cast" /\ Brings(guiRelay.msg, r)
  \/ \E i \in 1..Len(feed) : feed[i].session = link.id /\ Brings(feed[i], r)
  \/ answering.pc = "plan" /\ answering.session = link.id /\ r \in answering.rows
Due == lagged \/ sweeps.switch > 0 \/ sweeps.recording > 0 \/ answering.pc = "snapshot"

SweepInv ==
  /\ sweeps \in [switch : Nat, recording : Nat] /\ feed \in Seq(FedMessages)
  /\ guiRelay.pc = "cast" => guiRelay.msg \in Messages
  /\ link.connected /\ answered.session = link.id => \A r \in answered.ids : Handled(r)
  /\ link.connected /\ silentState # "off" => \A r \in link.pending : Handled(r) \/ Told(r) \/ Due

\* A message more on the wire.
LEMMA WireGrows ==
  ASSUME NEW m \in Messages, wire \in Seq(Messages), wire' = Append(wire, m), UNCHANGED link
  PROVE  \A r : WillWait(r)' <=> Brings(m, r) \/ (WillWait(r) /\ ~Removes(m, r))
<1>1. /\ Len(wire') = Len(wire) + 1 /\ Len(wire) \in Nat /\ wire'[Len(wire) + 1] = m
      /\ \A i \in 1..Len(wire) : wire'[i] = wire[i]
  OBVIOUS
<1> SUFFICES ASSUME NEW r PROVE WillWait(r)' <=> Brings(m, r) \/ (WillWait(r) /\ ~Removes(m, r)) OBVIOUS
<1> DEFINE n == Len(wire)
<1>2. ASSUME Brings(m, r) PROVE WillWait(r)'
  <2>1. Brings(wire'[n + 1], r) /\ n + 1 \in 1..Len(wire') /\ (n + 2)..Len(wire') = {}
    BY <1>1, <1>2
  <2> QED BY <1>1, <2>1 DEF WillWait
<1>3. ASSUME WillWait(r), ~Removes(m, r) PROVE WillWait(r)'
  <2>1. CASE r \in link.pending /\ \A j \in 1..n : ~Removes(wire[j], r)
    <3>1. \A j \in 1..Len(wire') : ~Removes(wire'[j], r)
      <4> TAKE j \in 1..Len(wire')
      <4>1. CASE j \in 1..n BY <1>1, <2>1, <4>1
      <4>2. CASE j = n + 1 BY <1>1, <1>3, <4>2
      <4> QED BY <1>1, <4>1, <4>2
    <3> QED BY <2>1, <3>1 DEF WillWait
  <2>2. ASSUME NEW i \in 1..n, Brings(wire[i], r), \A j \in (i + 1)..n : ~Removes(wire[j], r)
        PROVE  WillWait(r)'
    <3>1. \A j \in (i + 1)..Len(wire') : ~Removes(wire'[j], r)
      <4> TAKE j \in (i + 1)..Len(wire')
      <4>1. CASE j \in (i + 1)..n
        <5>1. j \in 1..n BY <4>1
        <5>2. wire'[j] = wire[j] BY <1>1, <5>1
        <5> QED BY <2>2, <4>1, <5>2
      <4>2. CASE j = n + 1 BY <1>1, <1>3, <4>2
      <4> QED BY <1>1, <4>1, <4>2
    <3>2. i \in 1..Len(wire') /\ Brings(wire'[i], r) BY <1>1, <2>2
    <3> QED BY <3>1, <3>2 DEF WillWait
  <2> QED BY Zenon, <1>3, <2>1, <2>2 DEF WillWait
<1>4. ASSUME WillWait(r)', ~Brings(m, r) PROVE WillWait(r) /\ ~Removes(m, r)
  <2>0. n + 1 \in 1..Len(wire') BY <1>1
  <2>1. CASE r \in link'.pending /\ \A j \in 1..Len(wire') : ~Removes(wire'[j], r)
    <3>1. ~Removes(m, r) BY <1>1, <2>0, <2>1
    <3>2. \A j \in 1..n : j \in 1..Len(wire') /\ ~Removes(wire[j], r) BY <1>1, <2>1
    <3> QED BY <2>1, <3>1, <3>2 DEF WillWait
  <2>2. ASSUME NEW i \in 1..Len(wire'), Brings(wire'[i], r),
               \A j \in (i + 1)..Len(wire') : ~Removes(wire'[j], r)
        PROVE  WillWait(r) /\ ~Removes(m, r)
    <3>1. i # n + 1 BY <1>1, <1>4, <2>2
    <3>2. i \in 1..n /\ Brings(wire[i], r) /\ n + 1 \in (i + 1)..Len(wire') BY <1>1, <2>2, <3>1
    <3>3. ~Removes(m, r) BY <1>1, <2>2, <3>2
    <3>4. \A j \in (i + 1)..n : ~Removes(wire[j], r)
      <4> TAKE j \in (i + 1)..n
      <4>1. j \in (i + 1)..Len(wire') /\ j \in 1..n BY <1>1, <3>2
      <4> QED BY <1>1, <2>2, <4>1
    <3> QED BY <3>2, <3>3, <3>4 DEF WillWait
  <2> QED BY Zenon, <1>4, <2>1, <2>2 DEF WillWait
<1> QED BY <1>2, <1>3, <1>4

\* The relay observes the next one.
LEMMA WireRead ==
  ASSUME wire \in Seq(Messages), wire # <<>>, link.pending \subseteq WireIds, wire' = Tail(wire),
         link' = Link(link.connected, link.id, Observed(Head(wire)))
  PROVE  /\ link'.pending \subseteq WireIds
         /\ \A r : WillWait(r)' <=> WillWait(r)
<1> DEFINE m == wire[1]
           n == Len(wire)
<1>1. /\ n \in Nat /\ n > 0 /\ Head(wire) = m /\ m \in Messages /\ Len(wire') = n - 1
      /\ \A i \in 1..(n - 1) : wire'[i] = wire[i + 1]
  OBVIOUS
<1>2. \A r : r \in link'.pending <=> Brings(m, r) \/ (r \in link.pending /\ ~Removes(m, r))
  BY <1>1 DEF Link, Observed, Brings, Removes, Messages
<1>3. link'.pending \subseteq WireIds
  BY <1>1, <1>2 DEF Brings, Messages
<1> HIDE DEF m, n
<1> SUFFICES ASSUME NEW r PROVE WillWait(r)' <=> WillWait(r) BY Zenon, <1>3
<1>4. ASSUME WillWait(r)' PROVE WillWait(r)
  <2>1. CASE r \in link'.pending /\ \A j \in 1..(n - 1) : ~Removes(wire'[j], r)
    <3>1. \A j \in 2..n : ~Removes(wire[j], r)
      <4> TAKE j \in 2..n
      <4>1. j - 1 \in 1..(n - 1) /\ wire'[j - 1] = wire[j] BY <1>1
      <4> QED BY Zenon, <2>1, <4>1
    <3>2. CASE Brings(m, r)
      <4>1. 1 \in 1..n /\ Brings(wire[1], r) /\ \A j \in (1 + 1)..n : ~Removes(wire[j], r)
        BY <1>1, <3>1, <3>2 DEF m
      <4> QED BY <4>1 DEF WillWait, n
    <3>3. CASE ~Brings(m, r)
      <4>1. r \in link.pending /\ ~Removes(wire[1], r) BY <1>2, <2>1, <3>3 DEF m
      <4>2. \A j \in 1..n : ~Removes(wire[j], r)
        <5> TAKE j \in 1..n
        <5>1. j = 1 \/ j \in 2..n BY <1>1
        <5> QED BY <3>1, <4>1, <5>1
      <4> QED BY <4>1, <4>2 DEF WillWait, n
    <3> QED BY <3>2, <3>3
  <2>2. ASSUME NEW i \in 1..(n - 1), Brings(wire'[i], r),
               \A j \in (i + 1)..(n - 1) : ~Removes(wire'[j], r)
        PROVE  WillWait(r)
    <3>1. i + 1 \in 1..n /\ Brings(wire[i + 1], r) BY <1>1, <2>2
    <3>2. \A j \in (i + 1 + 1)..n : ~Removes(wire[j], r)
      <4> TAKE j \in (i + 1 + 1)..n
      <4>1. j - 1 \in (i + 1)..(n - 1) /\ j - 1 \in 1..(n - 1) /\ (j - 1) + 1 = j BY <1>1
      <4>2. wire'[j - 1] = wire[j] BY Zenon, <1>1, <4>1
      <4> QED BY Zenon, <2>2, <4>1, <4>2
    <3> QED BY <3>1, <3>2 DEF WillWait, n
  <2> QED BY <1>1, <1>4, <2>1, <2>2 DEF WillWait
<1>5. ASSUME WillWait(r) PROVE WillWait(r)'
  <2>1. ASSUME \A j \in 2..n : ~Removes(wire[j], r), r \in link'.pending PROVE WillWait(r)'
    <3>1. \A j \in 1..(n - 1) : ~Removes(wire'[j], r)
      <4> TAKE j \in 1..(n - 1)
      <4>1. j + 1 \in 2..n /\ wire'[j] = wire[j + 1] BY <1>1
      <4> QED BY Zenon, <2>1, <4>1
    <3> QED BY Zenon, <1>1, <2>1, <3>1 DEF WillWait
  <2>2. CASE r \in link.pending /\ \A j \in 1..n : ~Removes(wire[j], r)
    <3>1. ~Removes(m, r) /\ \A j \in 2..n : ~Removes(wire[j], r) BY <1>1, <2>2 DEF m
    <3> QED BY <1>2, <2>1, <2>2, <3>1
  <2>3. ASSUME NEW i \in 1..n, Brings(wire[i], r), \A j \in (i + 1)..n : ~Removes(wire[j], r)
        PROVE  WillWait(r)'
    <3>1. CASE i = 1
      <4>1. r \in link'.pending /\ \A j \in 2..n : ~Removes(wire[j], r) BY <1>2, <2>3, <3>1 DEF m
      <4> QED BY <2>1, <4>1
    <3>2. CASE i # 1
      <4>1. i - 1 \in 1..(n - 1) /\ wire'[i - 1] = wire[i] BY <1>1, <3>2
      <4>2. \A j \in ((i - 1) + 1)..(n - 1) : ~Removes(wire'[j], r)
        <5> TAKE j \in ((i - 1) + 1)..(n - 1)
        <5>1. j + 1 \in (i + 1)..n /\ j \in 1..(n - 1) BY <1>1, <3>2
        <5> QED BY <1>1, <2>3, <5>1
      <4> QED BY Zenon, <1>1, <2>3, <4>1, <4>2 DEF WillWait
    <3> QED BY <3>1, <3>2
  <2> QED BY Zenon, <1>5, <2>2, <2>3 DEF WillWait, n
<1> QED BY <1>4, <1>5

\* The snapshot replaces what was on the wire before it.
LEMMA WireSnapshot ==
  ASSUME wire \in Seq(Messages), NEW ids \in SUBSET WireIds, wire' = wire \o <<Clear, Rows(ids)>>
  PROVE  wire' \in Seq(Messages) /\ \A r : WillWait(r)' <=> r \in ids
<1> DEFINE n == Len(wire)
<1>1. Clear \in Messages /\ Rows(ids) \in Messages BY DEF Clear, Rows, Messages
<1>2. n \in Nat /\ wire' \in Seq(Messages) /\ Len(wire') = n + 2
  BY <1>1
<1>3. wire'[n + 1] = Clear /\ wire'[n + 2] = Rows(ids)
  BY <1>1, <1>2
<1> HIDE DEF n
<1> SUFFICES ASSUME NEW r PROVE WillWait(r)' <=> r \in ids BY <1>2
<1>4. /\ Removes(wire'[n + 1], r) /\ ~Brings(wire'[n + 1], r)
      /\ Brings(wire'[n + 2], r) <=> r \in ids
  <2>1. Clear.kind = "clear" /\ Rows(ids).kind = "rows" /\ Rows(ids).rows = ids BY DEF Clear, Rows
  <2> QED BY Zenon, <1>3, <2>1 DEF Removes, Brings
<1>5. ASSUME r \in ids PROVE WillWait(r)'
  <2>1. n + 2 \in 1..Len(wire') /\ \A j \in (n + 2 + 1)..Len(wire') : ~Removes(wire'[j], r) BY <1>2
  <2> QED BY Zenon, <1>4, <1>5, <2>1 DEF WillWait
<1>6. ASSUME WillWait(r)' PROVE r \in ids
  <2>1. n + 1 \in 1..Len(wire') BY <1>2
  <2>2. ~\A j \in 1..Len(wire') : ~Removes(wire'[j], r) BY <1>4, <2>1
  <2>3. PICK i \in 1..Len(wire') : Brings(wire'[i], r) /\ \A j \in (i + 1)..Len(wire') : ~Removes(wire'[j], r)
    BY Zenon, <1>6, <2>2 DEF WillWait
  <2>4. ~(n + 1 \in (i + 1)..Len(wire')) BY Zenon, <1>4, <2>3
  <2>5. i = n + 1 \/ i = n + 2 BY <1>2, <2>4
  <2> QED BY <1>4, <2>3, <2>5
<1> QED BY <1>5, <1>6

\* The bridge tells of one row's change.
LEMMA WireTold ==
  ASSUME WireInv, NEW q \in WireIds, NEW m \in Messages, NEW now \in {"waiting", "decided"},
         asks' = [asks EXCEPT ![q] = now],
         m = IF now = "waiting" THEN Rows({q}) ELSE Gone({q}),
         wire' = IF Wired THEN Append(wire, m) ELSE wire, UNCHANGED <<link, guiRelay, snapshotDue>>
  PROVE  WireInv'
<1>1. asks' \in [WireIds -> {"none", "waiting", "decided"}] /\ wire' \in Seq(Messages)
  BY DEF WireInv
<1>2. ASSUME link.connected, ~snapshotDue, NEW r \in WireIds PROVE asks'[r] = "waiting" <=> WillWait(r)'
  <2>1. wire' = Append(wire, m) /\ (asks[r] = "waiting" <=> WillWait(r)) BY <1>2 DEF WireInv
  <2>2. WillWait(r)' <=> Brings(m, r) \/ (WillWait(r) /\ ~Removes(m, r)) BY Zenon, <2>1, WireGrows DEF WireInv
  <2>3. asks'[r] = IF r = q THEN now ELSE asks[r] BY DEF WireInv
  <2> QED BY <2>1, <2>2, <2>3 DEF Brings, Removes, Rows, Gone
<1> QED BY <1>1, <1>2 DEF WireInv, Wired

\* What the relay has observed and what is still on the wire make up what the bridge waits for.
LEMMA WireStep ==
  ASSUME WaysInv, WireInv, GuiLinkNext
  PROVE  WireInv'
<1>0. ASSUME UNCHANGED <<asks, wire, snapshotDue, link>>, Wired' <=> Wired PROVE WireInv'
  BY Zenon, <1>0 DEF WireInv, WillWait
<1>1. ASSUME NEW r \in WireIds, BridgeAsks(r) PROVE WireInv'
  <2>1. Rows({r}) \in Messages BY DEF Rows, Messages
  <2>2. wire \o <<Rows({r})>> = Append(wire, Rows({r})) BY <2>1 DEF WireInv
  <2> QED BY Zenon, <1>1, <2>1, <2>2, WireTold DEF BridgeAsks, Tells, linkVars
<1>2. ASSUME NEW r \in WireIds, BridgeDecides(r) PROVE WireInv'
  <2>1. Gone({r}) \in Messages BY DEF Gone, Messages
  <2>2. wire \o <<Gone({r})>> = Append(wire, Gone({r})) BY <2>1 DEF WireInv
  <2> QED BY Zenon, <1>2, <2>1, <2>2, WireTold DEF BridgeDecides, Tells, linkVars
<1>3. CASE BridgeSnapshots
  <2>1. /\ wire' = wire \o <<Clear, Rows(Waiting)>> /\ Waiting \in SUBSET WireIds
        /\ UNCHANGED <<asks, link, guiRelay>>
    BY <1>3 DEF BridgeSnapshots, Waiting, linkVars
  <2>2. wire' \in Seq(Messages) /\ \A r : WillWait(r)' <=> r \in Waiting BY Zenon, <2>1, WireSnapshot DEF WireInv
  <2> QED BY <2>1, <2>2 DEF WireInv, Waiting, Wired
<1>4. CASE Connects
  <2>1. /\ link'.connected /\ link'.pending = {} /\ Wired' /\ wire' = <<>> /\ snapshotDue' /\ asks' = asks
    BY <1>4 DEF Connects, Link, RelayAt, Wired
  <2> QED BY <2>1 DEF WireInv
<1>5. CASE Observes
  <2>1. /\ wire # <<>> /\ wire' = Tail(wire) /\ UNCHANGED <<asks, snapshotDue>> /\ Wired /\ Wired'
        /\ link' = Link(link.connected, link.id, Observed(Head(wire)))
    BY <1>5 DEF Observes, RelayAt, Wired
  <2>2. link'.connected = link.connected BY Zenon, <2>1 DEF Link
  <2>3. link'.pending \subseteq WireIds /\ \A r : WillWait(r)' <=> WillWait(r)
    BY <2>1, WireRead DEF WireInv
  <2>4. wire' \in Seq(Messages) BY <2>1 DEF WireInv
  <2> QED BY <2>1, <2>2, <2>3, <2>4 DEF WireInv
<1>6. CASE Sends
  <2>1. guiRelay.pc = "relay" /\ queue # <<>> /\ UNCHANGED <<snapshotDue, link, guiRelay>> BY <1>6 DEF Sends
  <2>2. Head(queue).row \in WireIds
    <3>1. Head(queue) \in QueueEntries BY <2>1 DEF WaysInv
    <3> QED BY <3>1 DEF QueueEntries
  <2>3. Gone({Head(queue).row}) \in Messages BY <2>2 DEF Gone, Messages
  <2>4. CASE UNCHANGED <<asks, wire>> BY <1>0, <2>1, <2>4 DEF Wired
  <2>5. CASE asks' = [asks EXCEPT ![Head(queue).row] = "decided"] /\ wire' = Append(wire, Gone({Head(queue).row}))
    BY Zenon, <2>1, <2>2, <2>3, <2>5, WireTold DEF Wired
  <2> QED BY Zenon, <1>6, <2>4, <2>5 DEF Sends
<1>7. CASE Disconnects
  <2>1. ~link'.connected /\ link'.pending = {} /\ ~Wired' /\ wire' = <<>> /\ asks' = asks
    BY <1>7 DEF Disconnects, Link, RelayAt, Wired
  <2> QED BY <2>1 DEF WireInv
<1>8. ASSUME NEW again \in BOOLEAN, Drains(again) PROVE WireInv'
  <2>1. /\ ~Wired /\ ~Wired' /\ UNCHANGED <<link, wire>>
        /\ asks' = IF again THEN [r \in WireIds |-> "none"] ELSE asks
    BY <1>8 DEF Drains, RelayAt, Wired
  <2> QED BY <2>1 DEF WireInv
<1>9. CASE Casts
  BY <1>0, <1>9 DEF Casts, RelayAt, Wired, serverVars
<1>10. CASE \/ FeedLags \/ FeedTakes \/ FeedPlans \/ SweepPlans \/ AnswersEnd
            \/ (\E kind \in {"switch", "recording"} : SweepTakes(kind)) \/ \E r \in WireIds : Answers(r)
  <2>1. UNCHANGED <<asks, wire, snapshotDue, link, guiRelay>>
    BY Zenon, <1>10 DEF FeedLags, FeedTakes, FeedPlans, SweepPlans, AnswersEnd, SweepTakes, Answers, answerKeeps,
                 serverVars
  <2> QED BY <1>0, <2>1 DEF Wired
<1>11. CASE \/ LearningStarts \/ LearningEnds \/ ClickSends
            \/ (\E mode \in {"off", "allow", "deny"} : SetSilentState(mode))
            \/ \E session \in 1..link.id, r \in WireIds, kind \in {"once", "remember", "later"} :
                 Clicks(session, r, kind)
  <2>1. UNCHANGED <<asks, wire, snapshotDue, link, guiRelay>>
    BY Zenon, <1>11 DEF LearningStarts, LearningEnds, ClickSends, SetSilentState, Clicks, qtKept, serverVars, linkVars
  <2> QED BY <1>0, <2>1 DEF Wired
<1> QED BY <1>1, <1>2, <1>3, <1>4, <1>5, <1>6, <1>7, <1>8, <1>9, <1>10, <1>11 DEF GuiLinkNext

\* Once it is planned a row is handled, and so is all that was planned before.
LEMMA PlansHandle ==
  ASSUME SweepInv, NEW rows, NEW given, NEW records, link.connected,
         answering.pc # "send", Plans(link.id, rows, given, records), UNCHANGED <<link, sent, full>>
  PROVE  /\ answered'.session = link.id
         /\ \A r \in answered'.ids : Handled(r)'
         /\ \A r : Handled(r) \/ r \in rows => Handled(r)'
         /\ answering'.pc = "send"
<1> DEFINE was == Entered(link.id)
<1>1. /\ answered'.session = link.id /\ answered'.ids = was.ids \cup rows
      /\ answering'.pc = "send" /\ answering'.session = link.id /\ answering'.rows = rows \ was.ids
  BY ZenonT(30) DEF Plans, Memory, Answering, Planned
<1>2. \A r \in was.ids : Handled(r)
  BY Zenon DEF SweepInv, Entered, Memory
<1>3. \A r : Handled(r) => Handled(r)'
  BY Zenon DEF Handled
<1> HIDE DEF was
<1>4. \A r \in rows \ was.ids : Handled(r)'
  BY <1>1 DEF Handled
<1> QED BY <1>1, <1>2, <1>3, <1>4

\* No step loses a row: one that is not answered stays on its way, or a sweep is due.
LEMMA SweepStep ==
  ASSUME WaysInv, AnswerInv, WireInv, SweepInv, GuiLinkNext
  PROVE  SweepInv'
<1> DEFINE Kept == <<link, guiRelay, feed, lagged, silentState, answered, answering, sweeps, sent, full>>
<1>1. ASSUME UNCHANGED Kept PROVE SweepInv'
  BY ZenonT(30), <1>1 DEF SweepInv, Handled, Told, Due
<1>2. CASE \/ (\E r \in WireIds : BridgeAsks(r) \/ BridgeDecides(r)) \/ BridgeSnapshots \/ LearningEnds
           \/ ClickSends \/ Sends
           \/ \E session \in 1..link.id, r \in WireIds, kind \in {"once", "remember", "later"} :
                Clicks(session, r, kind)
  <2>1. UNCHANGED Kept
    BY Zenon, <1>2 DEF BridgeAsks, BridgeDecides, BridgeSnapshots, LearningEnds, ClickSends, Sends, Clicks, linkVars,
                feedVars, modeVars, answerVars, qtKept
  <2> QED BY <1>1, <2>1
<1>3. CASE LearningStarts \/ \E mode \in {"off", "allow", "deny"} : SetSilentState(mode)
  <2>1. UNCHANGED <<link, guiRelay, feed, lagged, answered, answering, sent, full>>
    BY <1>3 DEF LearningStarts, SetSilentState, linkVars, feedVars, qtKept
  <2>2. /\ sweeps' \in [switch : Nat, recording : Nat]
        /\ silentState' # "off" => sweeps'.switch > 0 \/ sweeps'.recording > 0
    BY <1>3 DEF LearningStarts, SetSilentState, SweepInv
  <2> QED BY ZenonT(30), <2>1, <2>2 DEF SweepInv, Handled, Due
<1>4. CASE Connects
  <2>1. /\ link'.id = link.id + 1 /\ link'.pending = {} /\ guiRelay'.pc = "relay"
        /\ UNCHANGED <<feed, answered, sweeps>>
    BY Zenon, <1>4 DEF Connects, Link, RelayAt, feedVars, answerVars
  <2>2. answered.session # link'.id BY <2>1 DEF AnswerInv, WaysInv
  <2> QED BY Zenon, <2>1, <2>2 DEF SweepInv
<1>5. CASE Disconnects \/ \E again \in BOOLEAN : Drains(again)
  <2>1. ~link'.connected /\ guiRelay'.pc # "cast" /\ UNCHANGED <<feed, sweeps>>
    BY <1>5 DEF Disconnects, Drains, Link, RelayAt, feedVars, answerVars, WireInv, Wired
  <2> QED BY Zenon, <2>1 DEF SweepInv
<1>6. CASE Observes
  <2>1. /\ guiRelay.pc = "relay" /\ link'.connected = link.connected /\ link'.id = link.id
        /\ link'.pending = Observed(Head(wire)) /\ guiRelay'.pc = "cast" /\ guiRelay'.msg = Head(wire)
        /\ Head(wire) \in Messages
        /\ UNCHANGED <<feed, lagged, silentState, answered, answering, sweeps, sent, full>>
    BY <1>6 DEF Observes, Link, RelayAt, feedVars, modeVars, answerVars, WireInv
  <2>2. \A r : Handled(r) => Handled(r)' BY Zenon, <2>1 DEF Handled
  <2>3. \A r : Told(r) => Told(r)' BY <2>1 DEF Told
  <2>4. Due => Due' BY Zenon, <2>1 DEF Due
  <2>5. \A r \in link'.pending : r \in link.pending \/ Told(r)'
    <3>1. \A r \in link'.pending : r \in link.pending \/ Brings(Head(wire), r)
      BY <2>1 DEF Observed, Brings, Messages
    <3> QED BY <2>1, <3>1 DEF Told
  <2> QED BY ZenonT(30), <2>1, <2>2, <2>3, <2>4, <2>5 DEF SweepInv
<1>7. CASE Casts
  <2> DEFINE m == [session |-> link.id, rows |-> guiRelay.msg.rows, kind |-> guiRelay.msg.kind]
  <2>1. /\ guiRelay.pc = "cast" /\ guiRelay'.pc = "relay" /\ guiRelay.msg \in Messages
        /\ UNCHANGED <<link, silentState, answered, answering, sweeps, sent, full>>
    BY ZenonT(30), <1>7 DEF Casts, RelayAt, modeVars, answerVars, SweepInv
  <2>2. m \in FedMessages /\ m.session = link.id /\ \A r : Brings(m, r) <=> Brings(guiRelay.msg, r)
    BY ZenonT(30), <2>1 DEF FedMessages, Messages, Brings, WaysInv
  <2>3. \A r : Handled(r) => Handled(r)' BY ZenonT(30), <2>1 DEF Handled
  <2>4. CASE feed' = Append(feed, m) /\ UNCHANGED lagged
    <3> HIDE DEF m
    <3>1. /\ feed' \in Seq(FedMessages) /\ Len(feed) \in Nat /\ Len(feed') = Len(feed) + 1
          /\ feed'[Len(feed) + 1] = m /\ \A i \in 1..Len(feed) : feed'[i] = feed[i]
      BY <2>2, <2>4 DEF SweepInv
    <3>2. Len(feed) + 1 \in 1..Len(feed') /\ \A i \in 1..Len(feed) : i \in 1..Len(feed') BY <3>1
    <3>3. \A r : Told(r) => Told(r)' BY Zenon, <2>1, <2>2, <3>1, <3>2 DEF Told
    <3>4. Due => Due' BY <2>1, <2>4 DEF Due
    <3> QED BY Zenon, <2>1, <2>3, <3>1, <3>3, <3>4 DEF SweepInv
  <2>5. CASE feed' = Append(Tail(feed), m) /\ lagged' /\ Len(feed) >= FeedCap
    <3>1. feed # <<>> BY <2>5, CapsAssumption DEF SweepInv
    <3> HIDE DEF m
    <3>2. feed' \in Seq(FedMessages) BY <2>2, <2>5, <3>1 DEF SweepInv
    <3> QED BY ZenonT(30), <2>1, <2>3, <2>5, <3>2 DEF SweepInv, Due
  <2>6. Len(feed) \in Nat BY DEF SweepInv
  <2> QED BY <1>7, <2>4, <2>5, <2>6, CapsAssumption DEF Casts
<1>8. CASE FeedLags
  <2>1. /\ sweeps' \in [switch : Nat, recording : Nat] /\ sweeps'.recording > 0
        /\ UNCHANGED <<link, guiRelay, feed, silentState, answered, answering, sent, full>>
    BY <1>8 DEF FeedLags, answerKeeps, modeVars, SweepInv
  <2> QED BY ZenonT(30), <2>1 DEF SweepInv, Handled, Due
<1>9. CASE FeedTakes
  <2> DEFINE m == feed[1]
  <2>1. /\ answering = Nobody /\ feed # <<>> /\ feed' = Tail(feed) /\ Head(feed) = m /\ m \in FedMessages
        /\ UNCHANGED <<link, guiRelay, lagged, silentState, answered, sweeps, sent, full>>
    BY <1>9 DEF FeedTakes, answerKeeps, modeVars, SweepInv
  <2>2. /\ feed' \in Seq(FedMessages) /\ Len(feed) \in Nat /\ Len(feed') = Len(feed) - 1
        /\ \A i \in 1..Len(feed') : feed'[i] = feed[i + 1]
    BY <2>1 DEF SweepInv
  <2>3. \A r : Handled(r) => Handled(r)' BY <2>1 DEF Handled, Nobody
  <2>4. Due => Due' BY <2>1 DEF Due, Nobody
  <2>5. ASSUME silentState # "off", NEW r, Told(r) PROVE Told(r)'
    <3>1. /\ answering'.pc = "plan" /\ answering'.session = m.session
          /\ answering'.rows = IF m.kind = "rows" THEN m.rows ELSE {}
      BY ZenonT(30), <1>9, <2>1, <2>5 DEF FeedTakes, Answering
    <3>2. CASE guiRelay.pc = "cast" /\ Brings(guiRelay.msg, r) BY Zenon, <2>1, <3>2 DEF Told
    <3>3. ASSUME NEW i \in 1..Len(feed), feed[i].session = link.id, Brings(feed[i], r) PROVE Told(r)'
      <4>1. CASE i = 1 BY Zenon, <2>1, <3>1, <3>3, <4>1 DEF Told, Brings
      <4>2. CASE i # 1
        <5>1. i - 1 \in 1..Len(feed') /\ feed'[i - 1] = feed[i] BY <2>2, <4>2
        <5> QED BY Zenon, <2>1, <3>3, <5>1 DEF Told
      <4> QED BY <4>1, <4>2
    <3> QED BY Zenon, <2>1, <2>5, <3>2, <3>3 DEF Told, Nobody
  <2> QED BY Zenon, <2>1, <2>2, <2>3, <2>4, <2>5 DEF SweepInv
<1>10. CASE FeedPlans
  <2>1. /\ answering.pc = "plan"
        /\ UNCHANGED <<link, guiRelay, feed, lagged, silentState, sweeps, sent, full>>
    BY <1>10 DEF FeedPlans, answerKeeps, feedVars, modeVars
  <2>2. CASE IsCurrent(answering.session) /\ answering.rows # {}
    <3>1. Plans(link.id, answering.rows, answering.choice, FALSE) /\ link.connected
      BY Zenon, <1>10, <2>2 DEF FeedPlans, IsCurrent
    <3>2. /\ answering'.pc = "send"
          /\ \A r \in answered'.ids : Handled(r)'
          /\ \A r : Handled(r) \/ r \in answering.rows => Handled(r)'
      BY Zenon, <2>1, <3>1, PlansHandle
    <3>3. \A r : Told(r) => Told(r)' \/ r \in answering.rows BY <2>1 DEF Told
    <3>4. Due => Due' BY <2>1 DEF Due
    <3> QED BY Zenon, <2>1, <3>2, <3>3, <3>4 DEF SweepInv
  <2>3. CASE ~(IsCurrent(answering.session) /\ answering.rows # {})
    <3>1. answering' = Nobody /\ answered' = answered BY Zenon, <1>10, <2>3 DEF FeedPlans
    <3>2. \A r : Handled(r) => Handled(r)' BY Zenon, <2>1, <3>1 DEF Handled
    <3>3. link.connected => \A r : Told(r) => Told(r)' BY Zenon, <2>1, <2>3, <3>1 DEF Told, IsCurrent
    <3>4. Due => Due' BY <2>1 DEF Due
    <3> QED BY Zenon, <2>1, <3>1, <3>2, <3>3, <3>4 DEF SweepInv
  <2> QED BY Zenon, <2>2, <2>3
<1>11. ASSUME NEW kind \in {"switch", "recording"}, SweepTakes(kind) PROVE SweepInv'
  <2>1. /\ answering = Nobody /\ UNCHANGED <<link, guiRelay, feed, lagged, silentState, answered, sent, full>>
        /\ silentState # "off" => answering'.pc = "snapshot"
    <3>1. /\ answering = Nobody /\ UNCHANGED <<link, guiRelay, feed, lagged, silentState, answered, sent, full>>
          /\ silentState # "off" => answering' = Answering("snapshot", 0, {}, silentState, kind = "recording")
      BY Zenon, <1>11 DEF SweepTakes, answerKeeps, feedVars, modeVars
    <3>2. Answering("snapshot", 0, {}, silentState, kind = "recording").pc = "snapshot" BY Zenon DEF Answering
    <3> QED BY Zenon, <3>1, <3>2
  <2>2. sweeps' \in [switch : Nat, recording : Nat]
    <3>1. sweeps[kind] > 0 /\ sweeps' = [sweeps EXCEPT ![kind] = sweeps[kind] - 1] BY Zenon, <1>11 DEF SweepTakes
    <3>2. sweeps \in [switch : Nat, recording : Nat] BY Zenon DEF SweepInv
    <3> QED BY <1>11, <3>1, <3>2
  <2>3. \A r : Handled(r) => Handled(r)' BY <2>1 DEF Handled, Nobody
  <2> QED BY Zenon, <2>1, <2>2, <2>3 DEF SweepInv, Due
<1>12. CASE SweepPlans
  <2>1. /\ answering.pc = "snapshot"
        /\ UNCHANGED <<link, guiRelay, feed, lagged, silentState, sweeps, sent, full>>
    BY Zenon, <1>12 DEF SweepPlans, answerKeeps, feedVars, modeVars
  <2>2. CASE link.connected
    <3>1. Plans(link.id, link.pending, answering.choice, answering.records) BY Zenon, <1>12, <2>2 DEF SweepPlans
    <3>2. /\ \A r \in answered'.ids : Handled(r)'
          /\ \A r \in link.pending : Handled(r)'
      BY Zenon, <2>1, <2>2, <3>1, PlansHandle
    <3> QED BY <2>1, <3>2 DEF SweepInv
  <2>3. CASE ~link.connected BY Zenon, <2>1, <2>3 DEF SweepInv
  <2> QED BY <2>2, <2>3
<1>13. ASSUME NEW q \in WireIds, Answers(q) PROVE SweepInv'
  <2> DEFINE this == [session |-> answering.session, row |-> q]
  <2>1. /\ answering.pc = "send" /\ answering'.pc = "send" /\ answering'.session = answering.session
        /\ answering'.rows = answering.rows \ {q}
        /\ UNCHANGED <<link, guiRelay, feed, lagged, silentState, sweeps>>
    BY ZenonT(30), <1>13 DEF Answers, Answering, answerKeeps, feedVars, modeVars
  <2>2. /\ sent \subseteq sent' /\ (this \in full' \/ \E s \in sent' : s.at = this)
        /\ full \subseteq full' \cup {this}
    <3>1. CASE Admits(answering.session)
      <4>1. sent' = sent \cup {[at |-> this, choice |-> answering.choice]} /\ full' = full \ {this}
        BY Zenon, <1>13, <3>1 DEF Answers
      <4> HIDE DEF this
      <4>2. [at |-> this, choice |-> answering.choice].at = this OBVIOUS
      <4> QED BY Zenon, <4>1, <4>2
    <3>2. CASE ~Admits(answering.session)
      <4>1. sent' = sent /\ full' = full \cup {this} BY ZenonT(30), <1>13, <3>2 DEF Answers
      <4> QED BY <4>1
    <3> QED BY <3>1, <3>2
  <2>3. answered'.session = answered.session /\ answered'.ids \subseteq answered.ids
    <3> DEFINE less == Memory(answering.session, answered.ids \ {q}, answered.allowed \ {q})
    <3>1. answered' = answered \/ (answered' = less /\ answered.session = answering.session)
      BY Zenon, <1>13 DEF Answers, Forgotten
    <3>2. less.session = answering.session /\ less.ids = answered.ids \ {q} BY Zenon DEF Memory
    <3> HIDE DEF less
    <3> QED BY Zenon, <3>1, <3>2
  <2> HIDE DEF this
  <2>4. \A r : Handled(r) => Handled(r)'
    <3> SUFFICES ASSUME NEW r, Handled(r) PROVE Handled(r)' OBVIOUS
    <3>1. CASE [session |-> link.id, row |-> r] = this BY Zenon, <2>1, <2>2, <3>1 DEF Handled
    <3>2. CASE [session |-> link.id, row |-> r] # this
      <4>1. answering.session = link.id => r # q BY Zenon, <3>2 DEF this
      <4> QED BY Zenon, <2>1, <2>2, <3>2, <4>1 DEF Handled
    <3> QED BY <3>1, <3>2
  <2>5. \A r : Told(r) => Told(r)' BY Zenon, <2>1 DEF Told
  <2>6. Due => Due' BY <2>1 DEF Due
  <2> QED BY <2>1, <2>3, <2>4, <2>5, <2>6 DEF SweepInv
<1>14. CASE AnswersEnd
  <2>1. /\ answering.pc = "send" /\ answering.rows = {} /\ answering' = Nobody
        /\ UNCHANGED <<link, guiRelay, feed, lagged, silentState, answered, sweeps, sent, full>>
    BY ZenonT(30), <1>14 DEF AnswersEnd, answerKeeps, feedVars, modeVars
  <2>2. \A r : Handled(r) => Handled(r)' BY Zenon, <2>1 DEF Handled
  <2>3. \A r : Told(r) => Told(r)' BY <2>1 DEF Told
  <2>4. Due => Due' BY <2>1 DEF Due
  <2> QED BY Zenon, <2>1, <2>2, <2>3, <2>4 DEF SweepInv
<1> QED BY <1>2, <1>3, <1>4, <1>5, <1>6, <1>7, <1>8, <1>9, <1>10, <1>11, <1>12, <1>13, <1>14 DEF GuiLinkNext

\* No row that waits is left unanswered in Allow or Deny, and none is answered twice, whatever
\* races between arrivals, switches of the mode, lags of the feed, full queues and reconnects
\* there are (answer_new_rows, answer_pending_now, sweep_waiting, send_plan).
THEOREM NoRowForgotten == GuiLinkSpec => []SilentAnswersAll
<1>1. GuiLinkInit => WireInv /\ SweepInv
  BY DEF GuiLinkInit, WireInv, SweepInv, Link, RelayAt, Wired
<1>2. WaysInv /\ AnswerInv /\ WireInv /\ SweepInv /\ [GuiLinkNext]_guiLinkVars => WireInv' /\ SweepInv'
  <2>1. CASE UNCHANGED guiLinkVars
    BY ZenonT(30), <2>1 DEF guiLinkVars, serverVars, linkVars, feedVars, modeVars, answerVars, WireInv, SweepInv, WillWait,
               Wired, Handled, Told, Due
  <2> QED BY <2>1, WireStep, SweepStep
<1>3. WaysInv /\ AnswerInv /\ WireInv /\ SweepInv => SilentAnswersAll
  <2> SUFFICES ASSUME WaysInv, AnswerInv, WireInv, SweepInv, Settled
               PROVE  /\ link.pending = Waiting
                      /\ silentState # "off" =>
                           \A r \in link.pending : LET this == [session |-> link.id, row |-> r]
                                                   IN  this \in full \/ \E s \in sent : s.at = this
    BY Zenon DEF SilentAnswersAll, AnswerInv
  <2>1. \A r \in WireIds : WillWait(r) <=> r \in link.pending BY DEF Settled, WillWait
  <2>2. link.pending = Waiting BY <2>1 DEF WireInv, Waiting, Settled
  <2>3. \A r : ~Told(r) BY DEF Told, Settled, Nobody
  <2>4. ~Due BY DEF Due, Settled, Nobody
  <2>5. \A r : Handled(r) => LET this == [session |-> link.id, row |-> r]
                             IN  this \in full \/ \E s \in sent : s.at = this
    BY Zenon DEF Handled, Settled, Nobody
  <2> QED BY Zenon, <2>2, <2>3, <2>4, <2>5 DEF SweepInv, Settled
<1> QED BY <1>1, <1>2, <1>3, LinkInvHolds, PTL DEF GuiLinkSpec

=============================================================================
