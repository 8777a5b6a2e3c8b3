----------------------- MODULE PromptSettlementProofs -----------------------
(***************************************************************************)
(* Every Ask is answered once and told, for any sets of Asks and rows and  *)
(* any bounds.                                                             *)
(***************************************************************************)
EXTENDS PromptSettlement, TLAPS

-----------------------------------------------------------------------------
(* What the cache's operators do *)

\* evict_if_needed only removes rows, and no pending one.
LEMMA EvictFacts ==
  \A L, P, stamp : Evict(L, P, stamp) \subseteq L /\ L \cap P \subseteq Evict(L, P, stamp)
  BY DEF Evict

\* A push lists the new row, keeps the pending rows and lists nothing else.
LEMMA PushFacts ==
  ASSUME TypeOK, NEW i \in RowIds, NEW P, Push(i, P)
  PROVE  /\ listed' \subseteq listed \cup {i}
         /\ (listed \cup {i}) \cap P \subseteq listed'
         /\ pushes' \in Nat /\ at' \in [RowIds -> Nat]
  BY EvictFacts DEF Push, TypeOK

\* The rows the operations build are rows, and a row has a view.
LEMMA RowTypes ==
  /\ \A act \in {"none", "allow", "deny"}, lab \in {"none", "filterPaused", "noAnswer", "later"} :
       Row(act, lab) \in Rows
  /\ PromptRow \in Rows /\ AllowedByPause \in Rows
  BY DEF Row, Rows, PromptRow, AllowedByPause

\* What a GUI is shown of a row is a view.
LEMMA ViewTypes ==
  "absent" \in Views /\ "prompt" \in Views /\ "settled" \in Views /\ \A r : View(r) \in Views
  BY DEF View, Views

\* What the cache operations do to the types.
CacheTypes ==
  /\ pending \in SUBSET Asks /\ listed \in SUBSET RowIds
  /\ at \in [RowIds -> Nat] /\ pushes \in Nat /\ row \in [Asks -> Rows]
  /\ chan \in [Asks -> {"none", "open", "allow", "deny", "closed"}]
  /\ shown \in [Asks -> Views]

\* cancel_pending keeps the types of the cache.
LEMMA CancelTypes ==
  ASSUME TypeOK, NEW a \in Asks, CancelPending(a), UNCHANGED <<at, row, pushes>>
  PROVE  CacheTypes'
<1>1. CASE a \in pending
  BY Zenon, <1>1, ViewTypes DEF TypeOK, CancelPending, CacheTypes
<1>2. CASE a \notin pending
  BY <1>2 DEF TypeOK, CancelPending, CacheTypes
<1> QED
  BY <1>1, <1>2

\* defer_pending keeps the types of the cache.
LEMMA DeferTypes ==
  ASSUME TypeOK, NEW a \in Asks, NEW label \in {"noAnswer", "later"}, DeferPending(a, label)
  PROVE  CacheTypes'
<1>1. Row(DefaultRowAction, label) \in Rows
  BY RowTypes, SettlementAssumption
<1>2. row' \in [Asks -> Rows]
  BY <1>1 DEF TypeOK, DeferPending
<1>3. View(row'[a]) \in Views
  BY ViewTypes
<1> QED
  BY <1>2, <1>3 DEF TypeOK, DeferPending, CacheTypes

\* Settling a row keeps the types of the cache.
LEMMA SettleTypes ==
  ASSUME TypeOK, NEW a \in Asks, NEW v \in {"allow", "deny"}, NEW r \in Rows,
         Settle(a, v, r), shown' \in [Asks -> Views]
  PROVE  CacheTypes'
  BY Zenon DEF TypeOK, Settle, CacheTypes

USE DEF presenceVars, pauseVars, askVars, cacheVars, pumpVars, taskVars, pumpKeeps, taskKeeps,
        askOnly, RowIds

\* Every action of the sessions, the clocks and the pause tasks keeps the types.
LEMMA TypesOfTasks ==
  TypeOK /\ (Sessions \/ PauseDeadlinePasses \/ PauseTasks) => TypeOK'
<1> SUFFICES ASSUME TypeOK PROVE Sessions \/ PauseDeadlinePasses \/ PauseTasks => TypeOK'
  OBVIOUS
<1> USE DEF TypeOK
<1>1. Authenticate => TypeOK'
  BY DEF Authenticate
<1>2. SessionEnds => TypeOK'
  BY DEF SessionEnds
<1>3. ASSUME NEW k \in RequestKinds, NEW g \in {generation, Unstamped},
             SendPauseRequest([kind |-> k, gen |-> g])
      PROVE  TypeOK'
  BY <1>3 DEF SendPauseRequest, Requests, Unstamped
<1>4. PauseDeadlinePasses => TypeOK'
  BY DEF PauseDeadlinePasses, PauseStates
<1>5. ClearOnLoss => TypeOK'
  BY DEF ClearOnLoss, ClearPause, PauseStates
<1>6. ClearerAnnounces => TypeOK'
  BY DEF ClearerAnnounces, PauseActive
<1>7. TakeExpired => TypeOK'
  BY DEF TakeExpired, ClearPause, PauseStates
<1>8. ExpirerAnnounces => TypeOK'
  BY DEF ExpirerAnnounces, PauseActive
<1> QED
  BY Zenon, <1>1, <1>2, <1>3, <1>4, <1>5, <1>6, <1>7, <1>8 DEF Sessions, PauseTasks

\* Every step of an Ask's handler, and its end when the call is cancelled, keeps the types.
LEMMA TypesOfHandler ==
  ASSUME TypeOK, NEW a \in Asks, Handler(a) \/ Abandon(a)
  PROVE  TypeOK'
<1> USE RowTypes, ViewTypes DEF TypeOK, Goto, Answer, Steps, Replies
<1>1. Admit(a) => TypeOK'
  BY Zenon DEF Admit
<1>2. AllowOnArrival(a) => TypeOK'
  <2> SUFFICES ASSUME AllowOnArrival(a) PROVE TypeOK'
    BY Zenon
  <2>1. listed' \subseteq listed \cup {a} /\ pushes' \in Nat /\ at' \in [RowIds -> Nat]
    BY Zenon, PushFacts DEF AllowOnArrival
  <2> QED
    BY Zenon, <2>1 DEF AllowOnArrival
<1>3. InsertAdmitted(a) => TypeOK'
  <2> SUFFICES ASSUME InsertAdmitted(a) PROVE TypeOK'
    BY Zenon
  <2>1. listed' \subseteq listed \cup {a} /\ pushes' \in Nat /\ at' \in [RowIds -> Nat]
    BY PushFacts DEF InsertAdmitted
  <2> QED
    BY Zenon, <2>1 DEF InsertAdmitted
<1>4. RefuseLost(a) => TypeOK'
  BY DEF RefuseLost
<1>5. Hold(a) => TypeOK'
  BY DEF Hold
<1>6. TakeVerdict(a) => TypeOK'
  BY Zenon DEF TakeVerdict
<1>7. ReplyDeny(a) => TypeOK'
  BY DEF ReplyDeny
<1>8. NoticeLoss(a) \/ Timeout(a) => TypeOK'
  BY Zenon DEF NoticeLoss, Timeout
<1>9. CancelLost(a) => TypeOK'
  <2> SUFFICES ASSUME CancelLost(a) PROVE TypeOK'
    BY Zenon
  <2>1. CacheTypes'
    BY CancelTypes DEF CancelLost
  <2> QED
    BY Zenon, <2>1 DEF CancelLost, CacheTypes
<1>10. AnswerUnanswered(a) => TypeOK'
  <2> SUFFICES ASSUME AnswerUnanswered(a) PROVE TypeOK'
    BY Zenon
  <2>1. CASE a \in pending
    <3>1. CacheTypes'
      BY <2>1, DeferTypes DEF AnswerUnanswered
    <3> QED
      BY Zenon, <2>1, <3>1 DEF AnswerUnanswered, CacheTypes, DeferPending
  <2>2. CASE a \notin pending
    BY Zenon, <2>2 DEF AnswerUnanswered
  <2> QED
    BY Zenon, <2>1, <2>2
<1>11. Abandon(a) => TypeOK'
  BY Zenon DEF Abandon
<1>12. ReleaseSlot(a) => TypeOK'
  BY DEF ReleaseSlot
<1>13. Cleanup(a) => TypeOK'
  <2> SUFFICES ASSUME Cleanup(a) PROVE TypeOK'
    BY Zenon
  <2>1. CacheTypes'
    BY CancelTypes DEF Cleanup
  <2> QED
    BY Zenon, <2>1 DEF Cleanup, CacheTypes
<1> QED
  BY Zenon, <1>1, <1>2, <1>3, <1>4, <1>5, <1>6, <1>7, <1>8, <1>9, <1>10, <1>11, <1>12, <1>13
  DEF Handler

\* Every step of the pump keeps the types.
LEMMA TypesOfPump ==
  ASSUME TypeOK, PumpTakes \/ PumpGoesOn
  PROVE  TypeOK'
<1> USE RowTypes, ViewTypes DEF TypeOK, PumpSteps
<1>1. ASSUME NEW a \in Asks, NEW v \in {"allow", "deny"}, SetVerdict(a, v)
      PROVE  TypeOK'
  <2>1. CASE a \in pending
    <3>1. CacheTypes'
      BY <1>1, <2>1, SettleTypes, CancelTypes DEF SetVerdict, Undelivered
    <3> QED
      BY Zenon, <1>1, <3>1 DEF SetVerdict, CacheTypes
  <2>2. CASE a \notin pending
    BY <1>1, <2>2 DEF SetVerdict
  <2> QED
    BY Zenon, <2>1, <2>2
<1>2. ASSUME NEW a \in Asks, DecideLater(a)
      PROVE  TypeOK'
  <2>1. CASE a \notin pending
    BY <1>2, <2>1 DEF DecideLater
  <2>2. CASE a \in pending
    <3>1. CacheTypes'
      BY Zenon, <1>2, <2>2, SettleTypes, CancelTypes, DeferTypes DEF DecideLater, Undelivered
    <3> QED
      BY Zenon, <1>2, <3>1 DEF DecideLater, CacheTypes
  <2> QED
    BY Zenon, <2>1, <2>2
<1>3. ApplyPauseRequest => TypeOK'
  <2> SUFFICES ASSUME ApplyPauseRequest PROVE TypeOK'
    BY Zenon
  <2>1. inbox \in Seq(Requests) /\ inbox # <<>>
    BY DEF ApplyPauseRequest
  <2>2. Head(inbox) \in Requests /\ Tail(inbox) \in Seq(Requests)
    BY <2>1
  <2>3. ASSUME NEW r \in Requests, Apply(r)
        PROVE  pause' \in PauseStates /\ owner' \in Nat /\ requesters' \in SUBSET Nat
    <3>1. r.gen \in Nat \cup {Unstamped}
      BY DEF Requests
    <3>2. Sender(r) \in Nat
      BY <3>1 DEF Sender
    <3>3. requesters' \subseteq requesters \cup {generation}
      BY <2>3 DEF Apply
    <3> QED
      BY <2>3, <3>2, <3>3 DEF Apply, ClearPause, PauseStates
  <2> QED
    BY <2>2, <2>3 DEF ApplyPauseRequest
<1>4. FanOut => TypeOK'
  BY DEF FanOut
<1>5. ScanBegins \/ ScanMatched \/ ScanEnds => TypeOK'
  BY Zenon DEF ScanBegins, ScanMatched, ScanEnds
<1>6. ASSUME NEW a \in Asks, ScanMatch(a)
      PROVE  TypeOK'
  BY <1>6 DEF ScanMatch
<1>7. ASSUME NEW a \in Asks, ScanSettle(a)
      PROVE  TypeOK'
  <2>1. CacheTypes'
    BY Zenon, <1>7, SettleTypes, CancelTypes DEF ScanSettle, Undelivered
  <2> QED
    BY <1>7, <2>1 DEF ScanSettle, CacheTypes
<1>8. PumpAnnounces => TypeOK'
  BY DEF PumpAnnounces, PauseActive
<1>9. SnapshotCopies => TypeOK'
  BY DEF SnapshotCopies
<1>10. SnapshotClears \/ SnapshotInserts => TypeOK'
  BY Zenon DEF SnapshotClears, SnapshotInserts
<1> QED
  BY Zenon, <1>1, <1>2, <1>3, <1>4, <1>5, <1>6, <1>7, <1>8, <1>9, <1>10 DEF PumpTakes, PumpGoesOn

\* The types hold when the bridge starts.
LEMMA TypeInit == Init => TypeOK
<1> SUFFICES ASSUME Init PROVE TypeOK
  OBVIOUS
<1>1. CacheTypes
  BY RowTypes, ViewTypes DEF Init, CacheTypes
<1> QED
  <2>1. inbox \in Seq(Requests) /\ copy \in [Asks -> Views]
    BY ViewTypes DEF Init
  <2>2. pc \in [Asks -> Steps] /\ adm \in [Asks -> Nat] /\ reply \in [Asks -> Replies]
    BY DEF Init, Steps, Replies
  <2>3. pause \in PauseStates /\ pump \in PumpSteps
    BY DEF Init, PauseStates, PumpSteps
  <2> QED
    BY Zenon, <1>1, <2>1, <2>2, <2>3 DEF Init, TypeOK, CacheTypes

\* Every step keeps the types.
LEMMA TypeStep == TypeOK /\ [Next]_vars => TypeOK'
<1> SUFFICES ASSUME TypeOK, [Next]_vars PROVE TypeOK'
  OBVIOUS
<1>1. ASSUME NEW e \in Events, PingEvent(e) PROVE TypeOK'
  <2>1. listed' \subseteq listed \cup {e} /\ pushes' \in Nat /\ at' \in [RowIds -> Nat]
    BY <1>1, PushFacts DEF PingEvent
  <2> QED
    BY <1>1, <2>1 DEF PingEvent, TypeOK
<1>2. CASE UNCHANGED vars
  BY <1>2 DEF vars, TypeOK
<1> QED
  BY <1>1, <1>2, TypesOfTasks, TypesOfHandler, TypesOfPump DEF Next

\* The types hold in every reachable state.
THEOREM Typing == Spec => []TypeOK
  BY TypeInit, TypeStep, PTL DEF Spec

-----------------------------------------------------------------------------
(* How an Ask is settled *)

\* The handler's steps that leave the cache alone keep the invariant.
LEMMA SettleOfHandlerAlone ==
  ASSUME TypeOK, SettleInv, NEW a \in Asks,
         \/ Admit(a) \/ RefuseLost(a) \/ Hold(a) \/ TakeVerdict(a) \/ ReplyDeny(a)
         \/ NoticeLoss(a) \/ Timeout(a) \/ Abandon(a) \/ ReleaseSlot(a)
  PROVE  SettleInv'
<1>1. UNCHANGED <<pending, listed, row, chan, pump, todo, hits>>
  BY Zenon DEF Admit, RefuseLost, Hold, TakeVerdict, ReplyDeny, NoticeLoss, Timeout, Abandon, ReleaseSlot
<1>2. \A b \in Asks : b # a => pc'[b] = pc[b] /\ reply'[b] = reply[b]
  <2> USE DEF Goto, Answer
  <2>1. DOMAIN pc = Asks /\ DOMAIN reply = Asks
    BY DEF TypeOK
  <2>2. CASE Admit(a) \/ RefuseLost(a) \/ Hold(a)
    BY Zenon, <2>1, <2>2 DEF Admit, RefuseLost, Hold
  <2>3. CASE TakeVerdict(a) \/ ReplyDeny(a) \/ NoticeLoss(a)
    BY Zenon, <2>1, <2>3 DEF TakeVerdict, ReplyDeny, NoticeLoss
  <2>4. CASE Timeout(a) \/ Abandon(a) \/ ReleaseSlot(a)
    BY Zenon, <2>1, <2>4 DEF Timeout, Abandon, ReleaseSlot
  <2> QED
    BY Zenon, <2>2, <2>3, <2>4
<1>3. \A b \in Asks : b # a => AskInv(b)'
  <2> SUFFICES ASSUME NEW b \in Asks, b # a PROVE AskInv(b)'
    OBVIOUS
  <2>1. AskInv(b)
    BY DEF SettleInv
  <2>2. pc'[b] = pc[b] /\ reply'[b] = reply[b]
    BY <1>2
  <2> QED
    BY <1>1, <2>1, <2>2 DEF AskInv
<1>4. AskInv(a)
  BY DEF SettleInv
<1>5. AskInv(a)'
  <2> USE <1>1, <1>4 DEF TypeOK, AskInv, Goto, Answer
  <2>1. Admit(a) => AskInv(a)'
    BY Zenon DEF Admit
  <2>2. RefuseLost(a) => AskInv(a)'
    BY DEF RefuseLost
  <2>3. Hold(a) => AskInv(a)'
    BY DEF Hold
  <2>4. TakeVerdict(a) => AskInv(a)'
    BY Zenon DEF TakeVerdict
  <2>5. ReplyDeny(a) => AskInv(a)'
    BY DEF ReplyDeny
  <2>6. NoticeLoss(a) => AskInv(a)'
    BY DEF NoticeLoss
  <2>7. Timeout(a) => AskInv(a)'
    BY DEF Timeout
  <2>8. Abandon(a) => AskInv(a)'
    BY Zenon DEF Abandon
  <2>9. ReleaseSlot(a) => AskInv(a)'
    BY DEF ReleaseSlot
  <2> QED
    BY Zenon, <2>1, <2>2, <2>3, <2>4, <2>5, <2>6, <2>7, <2>8, <2>9
<1> QED
  BY <1>1, <1>3, <1>5 DEF SettleInv

\* An Ask whose row only gains or loses company keeps its invariant.
LEMMA SettleFrame ==
  ASSUME SettleInv, NEW b \in Asks,
         pc'[b] = pc[b], reply'[b] = reply[b], chan'[b] = chan[b], row'[b] = row[b],
         b \in pending' <=> b \in pending,
         b \in listed' => b \in listed, b \in listed /\ b \in pending => b \in listed'
  PROVE  AskInv(b)'
  BY Zenon DEF SettleInv, AskInv

\* The arrival of an Ask at the cache keeps the invariant.
LEMMA SettleOfArrival ==
  ASSUME TypeOK, SettleInv, NEW a \in Asks, AllowOnArrival(a) \/ InsertAdmitted(a)
  PROVE  SettleInv'
<1>1. CASE AllowOnArrival(a)
  <2>1. /\ listed' \subseteq listed \cup {a} /\ (listed \cup {a}) \cap pending \subseteq listed'
        /\ pending' = pending /\ a \notin pending
    BY Zenon, <1>1, PushFacts DEF AllowOnArrival, SettleInv, AskInv
  <2>2. AskInv(a)'
    BY <1>1, <2>1 DEF AllowOnArrival, SettleInv, AskInv, TypeOK, Goto, AllowedByPause, Row
  <2>3. ASSUME NEW b \in Asks, b # a PROVE AskInv(b)'
    BY Zenon, <1>1, <2>1, <2>3, SettleFrame DEF AllowOnArrival, TypeOK, Goto
  <2> QED
    BY Zenon, <1>1, <2>2, <2>3 DEF AllowOnArrival, SettleInv
<1>2. CASE InsertAdmitted(a)
  <2>1. /\ listed' \subseteq listed \cup {a} /\ (listed \cup {a}) \cap pending' \subseteq listed'
        /\ pending' = pending \cup {a}
    BY Zenon, <1>2, PushFacts DEF InsertAdmitted
  <2>2. AskInv(a)'
    BY Zenon, <1>2, <2>1 DEF InsertAdmitted, SettleInv, AskInv, TypeOK, Goto
  <2>3. ASSUME NEW b \in Asks, b # a PROVE AskInv(b)'
    BY Zenon, <1>2, <2>1, <2>3, SettleFrame DEF InsertAdmitted, TypeOK, Goto
  <2> QED
    BY Zenon, <1>2, <2>2, <2>3 DEF InsertAdmitted, SettleInv, CacheFree
<1> QED
  BY <1>1, <1>2

\* The cache operations that settle one Ask keep the invariant of the others.
LEMMA SettleOthers ==
  ASSUME TypeOK, SettleInv, NEW a \in Asks,
         \/ CancelPending(a) /\ UNCHANGED row
         \/ \E v, r : Settle(a, v, r)
         \/ \E l : DeferPending(a, l),
         \A b \in Asks : b # a => pc'[b] = pc[b] /\ reply'[b] = reply[b]
  PROVE  \A b \in Asks : b # a => AskInv(b)'
<1> SUFFICES ASSUME NEW b \in Asks, b # a PROVE AskInv(b)'
  BY Zenon
<1>1. /\ b \in pending' <=> b \in pending
      /\ b \in listed' <=> b \in listed
      /\ chan'[b] = chan[b] /\ row'[b] = row[b]
  BY Zenon DEF TypeOK, CancelPending, Settle, DeferPending
<1> QED
  BY Zenon, <1>1, SettleFrame

\* What putting off or settling an Ask does to that Ask.
LEMMA DeferFacts ==
  ASSUME TypeOK, NEW a \in Asks, NEW l \in {"noAnswer", "later"}, DeferPending(a, l)
  PROVE  /\ a \notin pending' /\ chan'[a] = "closed" /\ listed' = listed
         /\ Deferred(row'[a]) /\ row'[a].action = DefaultRowAction
  BY DEF DeferPending, TypeOK, Row, Deferred

\* Settling a row takes it out of pending, sends its verdict, and shows it.
LEMMA SettleFacts ==
  ASSUME TypeOK, NEW a \in Asks, NEW v \in {"allow", "deny"}, NEW l, Settle(a, v, Row(v, l))
  PROVE  /\ a \notin pending' /\ chan'[a] = v /\ listed' = listed /\ row'[a].action = v
  BY DEF Settle, TypeOK, Row

\* An Ask whose verdict was delivered to a handler still waiting keeps its invariant.
LEMMA SettleDelivered ==
  ASSUME TypeOK, NEW a \in Asks, AskInv(a), Delivered(a), NEW v \in {"allow", "deny"}, NEW l,
         a \in pending, Settle(a, v, Row(v, l)), UNCHANGED <<pc, reply>>
  PROVE  AskInv(a)'
<1>1. /\ a \notin pending' /\ chan'[a] = v /\ listed' = listed /\ row'[a].action = v
  BY Zenon, SettleFacts
<1>2. pc[a] \in {"inserted", "waiting", "loss", "timeout", "await"}
  BY DEF Delivered, ReceiverOpen
<1>3. reply[a] = "none" /\ pc'[a] = pc[a] /\ reply'[a] = reply[a]
  BY Zenon, <1>2 DEF AskInv
<1> QED
  BY Zenon, <1>1, <1>2, <1>3 DEF AskInv

\* So is an Ask whose entry is cancelled.
LEMMA CancelUndelivered ==
  ASSUME TypeOK, NEW a \in Asks, AskInv(a), a \in pending, CancelPending(a), UNCHANGED <<pc, reply, row>>
  PROVE  AskInv(a)'
<1>1. a \notin pending' /\ a \notin listed' /\ chan'[a] = "closed"
  BY Zenon DEF CancelPending, TypeOK
<1>2. pc[a] \notin {"new", "admitted", "deny"} /\ reply[a] \notin {"allow", "deny", "noGui"}
  BY Zenon DEF AskInv
<1>3. pc[a] \in {"inserted", "waiting", "loss", "timeout", "await"} => reply[a] = "none"
  BY Zenon DEF AskInv
<1> QED
  BY Zenon, <1>1, <1>2, <1>3 DEF AskInv

\* The handler's steps with the cache lock keep the invariant.
LEMMA SettleOfLockedHandler ==
  ASSUME TypeOK, SettleInv, NEW a \in Asks, CancelLost(a) \/ AnswerUnanswered(a) \/ Cleanup(a)
  PROVE  SettleInv'
<1>1. \A b \in Asks : b # a => pc'[b] = pc[b] /\ reply'[b] = reply[b]
  BY Zenon DEF TypeOK, CancelLost, AnswerUnanswered, Cleanup, Goto, Answer
<1>2. pump' = pump /\ pump \notin {"match", "settle"}
  BY DEF CancelLost, AnswerUnanswered, Cleanup, CacheFree
<1>3. AskInv(a)
  BY DEF SettleInv
<1>4. CASE CancelLost(a)
  <2>1. AskInv(a)'
    BY <1>3, <1>4 DEF CancelLost, CancelPending, AskInv, TypeOK, Goto, Answer
  <2> QED
    BY Zenon, <1>1, <1>2, <1>4, <2>1, SettleOthers DEF CancelLost, SettleInv
<1>5. CASE Cleanup(a)
  <2>1. AskInv(a)'
    BY Zenon, <1>3, <1>5 DEF Cleanup, CancelPending, AskInv, TypeOK, Goto
  <2> QED
    BY Zenon, <1>1, <1>2, <1>5, <2>1, SettleOthers DEF Cleanup, SettleInv
<1>6. CASE AnswerUnanswered(a) /\ a \in pending
  <2>1. AskInv(a)'
    <3>1. /\ a \notin pending' /\ chan'[a] = "closed" /\ listed' = listed
          /\ Deferred(row'[a]) /\ row'[a].action = DefaultRowAction
      BY Zenon, <1>6, DeferFacts DEF AnswerUnanswered
    <3>2. pc'[a] = "leaving" /\ reply'[a] = "noAnswer"
      BY <1>6 DEF AnswerUnanswered, Answer, Goto, TypeOK
    <3> QED
      BY Zenon, <3>1, <3>2 DEF AskInv
  <2> QED
    BY Zenon, <1>1, <1>2, <1>6, <2>1, SettleOthers DEF AnswerUnanswered, SettleInv
<1>7. CASE AnswerUnanswered(a) /\ a \notin pending
  <2>1. AskInv(a)'
    BY Zenon, <1>3, <1>7 DEF AnswerUnanswered, AskInv, TypeOK, Goto
  <2>2. ASSUME NEW b \in Asks, b # a PROVE AskInv(b)'
    BY Zenon, <1>1, <1>7, <2>2, SettleFrame DEF AnswerUnanswered
  <2> QED
    BY <1>2, <2>1, <2>2 DEF SettleInv
<1> QED
  BY <1>4, <1>5, <1>6, <1>7

\* Every step of the pump keeps the invariant.
LEMMA SettleOfPump ==
  ASSUME TypeOK, SettleInv, PumpTakes \/ PumpGoesOn
  PROVE  SettleInv'
<1>1. UNCHANGED <<pc, reply>>
  BY Zenon DEF PumpTakes, PumpGoesOn, DecideLater, SetVerdict, ApplyPauseRequest, SnapshotCopies, FanOut,
         ScanBegins, ScanMatched, ScanEnds, PumpAnnounces, SnapshotClears, SnapshotInserts,
         ScanMatch, ScanSettle
<1>2. ASSUME UNCHANGED <<pending, listed, chan, row>>
      PROVE  \A b \in Asks : AskInv(b)'
  BY <1>1, <1>2, SettleFrame
<1>3. ASSUME NEW a \in Asks, NEW v \in {"allow", "deny"}, SetVerdict(a, v)
      PROVE  SettleInv'
  <2>1. pump' \notin {"match", "settle"}
    BY <1>3 DEF SetVerdict
  <2>2. CASE a \notin pending
    BY <1>2, <1>3, <2>1, <2>2 DEF SetVerdict, SettleInv
  <2>3. CASE a \in pending /\ Delivered(a)
    <3>1. AskInv(a)'
      BY <1>1, <1>3, <2>3, SettleDelivered DEF SetVerdict, SettleInv
    <3> QED
      BY Zenon, <1>1, <1>3, <2>1, <2>3, <3>1, SettleOthers DEF SetVerdict, SettleInv
  <2>4. CASE a \in pending /\ ~Delivered(a)
    <3>1. AskInv(a)'
      BY <1>1, <1>3, <2>4, CancelUndelivered DEF SetVerdict, Undelivered, SettleInv
    <3> QED
      BY Zenon, <1>1, <1>3, <2>1, <2>4, <3>1, SettleOthers DEF SetVerdict, Undelivered, SettleInv
  <2> QED
    BY <2>2, <2>3, <2>4
<1>4. ASSUME NEW a \in Asks, DecideLater(a)
      PROVE  SettleInv'
  <2>1. pump' \notin {"match", "settle"}
    BY <1>4 DEF DecideLater
  <2>2. CASE a \notin pending
    BY <1>2, <1>4, <2>1, <2>2 DEF DecideLater, SettleInv
  <2>3. CASE a \in pending /\ a \notin Bindable
    <3>1. AskInv(a)
      BY DEF SettleInv
    <3>2. DeferPending(a, "later")
      BY <1>4, <2>3 DEF DecideLater
    <3>3. AskInv(a)'
      <4>1. /\ a \notin pending' /\ chan'[a] = "closed" /\ listed' = listed
            /\ Deferred(row'[a]) /\ row'[a].action = DefaultRowAction
        BY <3>2, DeferFacts
      <4>2. pc'[a] = pc[a] /\ reply'[a] = reply[a] /\ chan[a] = "open" /\ a \in listed
        BY Zenon, <1>1, <2>3, <3>1 DEF AskInv
      <4> QED
        BY Zenon, <3>1, <4>1, <4>2 DEF AskInv
    <3> QED
      BY Zenon, <1>1, <2>1, <3>2, <3>3, SettleOthers DEF DecideLater, SettleInv
  <2>4. CASE a \in pending /\ a \in Bindable /\ Delivered(a)
    <3>1. AskInv(a)'
      BY <1>1, <1>4, <2>4, SettleDelivered DEF DecideLater, SettleInv
    <3> QED
      BY Zenon, <1>1, <1>4, <2>1, <2>4, <3>1, SettleOthers DEF DecideLater, SettleInv
  <2>5. CASE a \in pending /\ a \in Bindable /\ ~Delivered(a)
    <3>1. AskInv(a)'
      BY <1>1, <1>4, <2>5, CancelUndelivered DEF DecideLater, Undelivered, SettleInv
    <3> QED
      BY Zenon, <1>1, <1>4, <2>1, <2>5, <3>1, SettleOthers DEF DecideLater, Undelivered, SettleInv
  <2> QED
    BY <2>2, <2>3, <2>4, <2>5
<1>5. ASSUME NEW a \in Asks, ScanSettle(a)
      PROVE  SettleInv'
  <2>1. a \in pending /\ pump' = "settle" /\ hits' \subseteq pending'
    BY <1>5 DEF ScanSettle, SettleInv, Settle, Undelivered, CancelPending
  <2>2. AskInv(a)'
    <3>1. AskInv(a)
      BY DEF SettleInv
    <3>2. CASE Delivered(a)
      BY <1>1, <1>5, <2>1, <3>1, <3>2, SettleDelivered DEF ScanSettle, AllowedByPause
    <3>3. CASE ~Delivered(a)
      BY <1>1, <1>5, <2>1, <3>1, <3>3, CancelUndelivered DEF ScanSettle, Undelivered
    <3> QED
      BY <3>2, <3>3
  <2> QED
    BY Zenon, <1>1, <1>5, <2>1, <2>2, SettleOthers DEF ScanSettle, Undelivered, SettleInv
<1>6. ASSUME NEW a \in Asks, ScanMatch(a)
      PROVE  SettleInv'
  BY Zenon, <1>2, <1>6 DEF ScanMatch, SettleInv
<1>7. ApplyPauseRequest \/ SnapshotCopies \/ FanOut \/ ScanBegins \/ ScanMatched \/ ScanEnds
        \/ PumpAnnounces \/ SnapshotClears \/ SnapshotInserts => SettleInv'
  BY Zenon, <1>2 DEF ApplyPauseRequest, SnapshotCopies, FanOut, ScanBegins, ScanMatched, ScanEnds,
              PumpAnnounces, SnapshotClears, SnapshotInserts, SettleInv
<1> QED
  BY <1>3, <1>4, <1>5, <1>6, <1>7 DEF PumpTakes, PumpGoesOn

\* No Ask is anywhere when the bridge starts.
LEMMA SettleInit == Init => SettleInv
  BY DEF Init, SettleInv, AskInv

\* Every step keeps what is known of each Ask.
LEMMA SettleStep == TypeOK /\ SettleInv /\ [Next]_vars => SettleInv'
<1> SUFFICES ASSUME TypeOK, SettleInv, [Next]_vars PROVE SettleInv'
  OBVIOUS
<1>1. ASSUME NEW a \in Asks, Handler(a) \/ Abandon(a) PROVE SettleInv'
  BY <1>1, SettleOfHandlerAlone, SettleOfArrival, SettleOfLockedHandler DEF Handler
<1>2. ASSUME NEW e \in Events, PingEvent(e) PROVE SettleInv'
  <2>1. listed' \subseteq listed \cup {e} /\ (listed \cup {e}) \cap pending \subseteq listed'
    BY <1>2, PushFacts DEF PingEvent
  <2>2. \A b \in Asks : b # e
    BY SettlementAssumption
  <2>3. ASSUME NEW b \in Asks PROVE AskInv(b)'
    BY <1>2, <2>1, <2>2, SettleFrame DEF PingEvent
  <2> QED
    BY <1>2, <2>3 DEF PingEvent, SettleInv
<1>3. ASSUME UNCHANGED <<pc, reply, chan, row, pending, listed, pump, todo, hits>> PROVE SettleInv'
  BY <1>3, SettleFrame DEF SettleInv
<1>4. Sessions \/ PauseDeadlinePasses \/ PauseTasks \/ UNCHANGED vars => SettleInv'
  BY Zenon, <1>3 DEF Sessions, Authenticate, SessionEnds, SendPauseRequest, PauseDeadlinePasses, PauseTasks,
              ClearOnLoss, ClearerAnnounces, TakeExpired, ExpirerAnnounces, vars
<1> QED
  BY <1>1, <1>2, <1>4, SettleOfPump DEF Next

\* However verdicts, losses, timeouts, cancelled calls and evictions interleave: a waiting
\* prompt is never evicted, a delivered verdict is what the daemon is told, and the row
\* tells what the daemon was told.
THEOREM Settlement == Spec => []AnswersAreTold
<1>1. TypeOK /\ SettleInv => AnswersAreTold
  BY Zenon DEF AnswersAreTold, TypeOK, SettleInv, AskInv, PendingStaysListed, VerdictWins, RowTellsTheAnswer, Replies
<1> QED
  BY <1>1, TypeInit, TypeStep, SettleInit, SettleStep, PTL DEF Spec

-----------------------------------------------------------------------------
(* A decision is final *)

\* An Ask that is not at the cache yet has no decided row
FreshRows == \A a \in Asks : pc[a] \in {"new", "admitted"} => row[a].action = "none"

\* A step that changes the oneshot or the row of an Ask is its arrival at the cache or
\* finds it waiting; and no handler goes back to before its arrival.
LEMMA WhoDecides ==
  ASSUME TypeOK, SettleInv, [Next]_vars, NEW b \in Asks
  PROVE  /\ \/ chan'[b] = chan[b] /\ row'[b] = row[b]
            \/ pc[b] = "admitted" /\ pc'[b] \notin {"new", "admitted"}
            \/ b \in pending
         /\ pc'[b] \in {"new", "admitted"} => pc[b] \in {"new", "admitted"}
<1> DEFINE Goal == /\ \/ chan'[b] = chan[b] /\ row'[b] = row[b]
                      \/ pc[b] = "admitted" /\ pc'[b] \notin {"new", "admitted"}
                      \/ b \in pending
                   /\ pc'[b] \in {"new", "admitted"} => pc[b] \in {"new", "admitted"}
<1>0. DOMAIN pc = Asks /\ DOMAIN chan = Asks /\ DOMAIN row = Asks /\ DOMAIN reply = Asks
  BY DEF TypeOK
<1>1. ASSUME UNCHANGED <<pc, chan, row>> PROVE Goal
  BY <1>1
<1>2. ASSUME NEW a \in Asks, Handler(a) \/ Abandon(a) PROVE Goal
  <2> USE <1>0 DEF Goto, Answer
  <2>1. CASE Admit(a) \/ RefuseLost(a) \/ Hold(a)  BY Zenon, <2>1 DEF Admit, RefuseLost, Hold, cacheVars
  <2>2. CASE TakeVerdict(a)  BY Zenon, <2>2 DEF TakeVerdict, askOnly, cacheVars
  <2>3. CASE ReplyDeny(a) \/ NoticeLoss(a) \/ Timeout(a) \/ ReleaseSlot(a)
    BY Zenon, <2>3 DEF ReplyDeny, NoticeLoss, Timeout, ReleaseSlot, askOnly, cacheVars
  <2>4. CASE Abandon(a)  BY Zenon, <2>4 DEF Abandon, askOnly, cacheVars
  <2>5. CASE AllowOnArrival(a)  BY <2>5 DEF AllowOnArrival
  <2>6. CASE InsertAdmitted(a)  BY Zenon, <2>6 DEF InsertAdmitted
  <2>7. CASE CancelLost(a)  BY <2>7 DEF CancelLost, CancelPending
  <2>8. CASE Cleanup(a)  BY <2>8 DEF Cleanup, CancelPending
  <2>9. CASE AnswerUnanswered(a)  BY <2>9 DEF AnswerUnanswered, DeferPending, cacheVars
  <2> QED  BY Zenon, <1>2, <2>1, <2>2, <2>3, <2>4, <2>5, <2>6, <2>7, <2>8, <2>9 DEF Handler
<1>3. ASSUME NEW a \in Asks, UNCHANGED pc,
             \/ UNCHANGED <<chan, cacheVars>>
             \/ a \in pending /\ (Undelivered(a) \/ (\E v, r : Settle(a, v, r)) \/ \E l : DeferPending(a, l))
      PROVE  Goal
  BY Zenon, <1>0, <1>3 DEF Undelivered, CancelPending, Settle, DeferPending, cacheVars
<1>4. ASSUME NEW a \in Asks, NEW v, SetVerdict(a, v) PROVE Goal
  BY Zenon, <1>3, <1>4 DEF SetVerdict, pumpKeeps
<1>5. ASSUME NEW a \in Asks, DecideLater(a) PROVE Goal
  BY Zenon, <1>3, <1>5 DEF DecideLater, pumpKeeps
<1>6. ASSUME NEW a \in Asks, ScanSettle(a) PROVE Goal
  <2>1. a \in pending  BY <1>6 DEF ScanSettle, SettleInv
  <2> QED  BY Zenon, <1>3, <1>6, <2>1 DEF ScanSettle, pumpKeeps
<1>7. ASSUME NEW a \in Asks, ScanMatch(a) PROVE Goal
  BY Zenon, <1>1, <1>7 DEF ScanMatch, pumpKeeps, cacheVars
<1>8. ASSUME NEW e \in Events, PingEvent(e) PROVE Goal
  BY Zenon, <1>1, <1>8 DEF PingEvent, askVars
<1>9. ASSUME \/ ApplyPauseRequest \/ SnapshotCopies \/ FanOut \/ ScanBegins \/ ScanMatched \/ ScanEnds
             \/ PumpAnnounces \/ SnapshotClears \/ SnapshotInserts
      PROVE  Goal
  BY Zenon, <1>1, <1>9 DEF ApplyPauseRequest, SnapshotCopies, FanOut, ScanBegins, ScanMatched, ScanEnds,
     PumpAnnounces, SnapshotClears, SnapshotInserts, pumpKeeps, askVars, cacheVars
<1>10. ASSUME Sessions \/ PauseDeadlinePasses \/ PauseTasks \/ UNCHANGED vars PROVE Goal
  BY Zenon, <1>1, <1>10 DEF Sessions, Authenticate, SessionEnds, SendPauseRequest, PauseDeadlinePasses,
     PauseTasks, ClearOnLoss, ClearerAnnounces, TakeExpired, ExpirerAnnounces, taskKeeps, vars, askVars, cacheVars
<1> HIDE DEF Goal
<1>11. Goal
  BY Zenon, <1>2, <1>4, <1>5, <1>6, <1>7, <1>8, <1>9, <1>10 DEF Next, PumpTakes, PumpGoesOn
<1> QED  BY <1>11 DEF Goal

\* DecisionIsFinal: no step changes a verdict that was delivered, a prompt that was
\* withdrawn or put off, or the action a row shows.
THEOREM Finality == Spec => DecisionIsFinal
<1> DEFINE Final == \A a \in Asks :
                      /\ chan[a] \in {"allow", "deny", "closed"} => chan'[a] = chan[a]
                      /\ row[a].action # "none" => row'[a].action = row[a].action
<1>1. ASSUME SettleInv, FreshRows, NEW a \in Asks
      PROVE  /\ pc[a] = "admitted" => chan[a] = "none" /\ row[a].action = "none"
             /\ a \in pending => /\ chan[a] = "open" /\ row[a].action = "none"
                                 /\ pc[a] \notin {"new", "admitted"}
  BY <1>1 DEF SettleInv, AskInv, FreshRows, PromptRow, Row
<1>2. Init => FreshRows
  BY DEF Init, FreshRows, PromptRow, Row
<1>3. TypeOK /\ SettleInv /\ FreshRows /\ [Next]_vars => FreshRows'
  BY <1>1, WhoDecides DEF FreshRows
<1>4. TypeOK /\ SettleInv /\ FreshRows /\ [Next]_vars => [Final]_vars
  BY <1>1, WhoDecides
<1> QED
  BY <1>2, <1>3, <1>4, TypeInit, TypeStep, SettleInit, SettleStep, PTL DEF Spec, DecisionIsFinal

-----------------------------------------------------------------------------
(* The pause and the waiting prompts *)

\* A step that adds no waiting prompt, makes no pause apply and does not advance the scan
\* keeps WaitInv.
LEMMA WaitFrame ==
  ASSUME WaitInv, pending' \subseteq pending, \A a \in pending' : adm'[a] = adm[a],
         UNCHANGED <<clients, generation, pause, owner>>,
         \/ UNCHANGED <<pump, todo, hits>>
         \/ pump \notin {"scan", "match", "settle"}
  PROVE  WaitInv'
  BY DEF WaitInv, NoneLeftWaiting, AppliesTo, Current, PauseActive

\* Sessions and pause requests leave no row waiting under a pause.
LEMMA WaitOfTasks ==
  ASSUME TypeOK, WaitInv, MaxWallSteps = 0, Sessions \/ PauseDeadlinePasses \/ PauseTasks
  PROVE  WaitInv'
<1> USE DEF TypeOK, WaitInv, NoneLeftWaiting, AppliesTo, Current, PauseActive
<1>1. Authenticate => WaitInv'
  BY DEF Authenticate
<1>2. SessionEnds => WaitInv'
  BY DEF SessionEnds
<1>3. ASSUME NEW r, SendPauseRequest(r) PROVE WaitInv'
  BY <1>3 DEF SendPauseRequest
<1>4. PauseDeadlinePasses => WaitInv'
  BY DEF PauseDeadlinePasses
<1>5. ClearOnLoss \/ TakeExpired => WaitInv'
  BY Zenon DEF ClearOnLoss, TakeExpired, ClearPause
<1>6. ClearerAnnounces \/ ExpirerAnnounces => WaitInv'
  BY Zenon DEF ClearerAnnounces, ExpirerAnnounces
<1> QED
  BY Zenon, <1>1, <1>2, <1>3, <1>4, <1>5, <1>6 DEF Sessions, PauseTasks

\* An Ask that arrives, is answered or is abandoned leaves no row waiting under a pause.
LEMMA WaitOfHandler ==
  ASSUME TypeOK, SettleInv, WaitInv, NEW a \in Asks, Handler(a) \/ Abandon(a)
  PROVE  WaitInv'
<1>1. CASE InsertAdmitted(a)
  BY <1>1 DEF InsertAdmitted, CacheFree, TypeOK, WaitInv, NoneLeftWaiting, AppliesTo, Current,
              PauseActive
<1>2. CASE ~InsertAdmitted(a)
  <2>1. UNCHANGED <<clients, generation, pause, owner, pump, todo, hits>>
    BY Zenon, <1>2 DEF Handler, Admit, AllowOnArrival, RefuseLost, Hold, TakeVerdict, ReplyDeny, NoticeLoss,
                Timeout, CancelLost, AnswerUnanswered, Abandon, ReleaseSlot, Cleanup
  <2>2. pending' \subseteq pending
    BY Zenon, <1>2 DEF Handler, Admit, AllowOnArrival, RefuseLost, Hold, TakeVerdict, ReplyDeny, NoticeLoss,
                Timeout, CancelLost, AnswerUnanswered, Abandon, ReleaseSlot, Cleanup, CancelPending,
                DeferPending
  <2>3. \A b \in Asks : b \in pending => adm'[b] = adm[b]
    <3>1. Admit(a) => a \notin pending
      BY Zenon DEF Admit, SettleInv, AskInv
    <3> QED
      BY Zenon, <1>2, <3>1 DEF TypeOK, Handler, Admit, AllowOnArrival, RefuseLost, Hold, TakeVerdict,
                ReplyDeny, NoticeLoss, Timeout, CancelLost, AnswerUnanswered, Abandon, ReleaseSlot,
                Cleanup
  <2> QED
    BY <2>1, <2>2, <2>3, WaitFrame DEF TypeOK
<1> QED
  BY <1>1, <1>2

\* The pump leaves no row waiting under a pause: the scan visits every row that matches.
LEMMA WaitOfPump ==
  ASSUME TypeOK, SettleInv, WaitInv, PumpTakes \/ PumpGoesOn
  PROVE  WaitInv'
<1>1. UNCHANGED <<adm, clients, generation>> /\ pending' \subseteq pending
  BY Zenon DEF PumpTakes, PumpGoesOn, DecideLater, SetVerdict, ApplyPauseRequest, SnapshotCopies, FanOut,
         ScanBegins, ScanMatched, ScanEnds, PumpAnnounces, SnapshotClears, SnapshotInserts,
         ScanMatch, ScanSettle, Settle, Undelivered, CancelPending, DeferPending
<1>2. CASE \/ SnapshotCopies \/ FanOut \/ PumpAnnounces \/ SnapshotClears \/ SnapshotInserts
           \/ \E a \in Asks : DecideLater(a) \/ \E v \in {"allow", "deny"} : SetVerdict(a, v)
  BY Zenon, <1>1, <1>2, WaitFrame
  DEF SnapshotCopies, FanOut, PumpAnnounces, SnapshotClears, SnapshotInserts, DecideLater, SetVerdict
<1>3. CASE ApplyPauseRequest
  BY <1>1, <1>3 DEF ApplyPauseRequest, WaitInv, NoneLeftWaiting
<1>4. CASE ScanBegins \/ ScanMatched \/ ScanEnds
  BY Zenon, <1>1, <1>4 DEF ScanBegins, ScanMatched, ScanEnds, WaitInv, NoneLeftWaiting, AppliesTo, Current,
                    PauseActive
<1>5. ASSUME NEW a \in Asks, ScanMatch(a) PROVE WaitInv'
  BY Zenon, <1>1, <1>5 DEF ScanMatch, WaitInv, NoneLeftWaiting, AppliesTo, Current, PauseActive
<1>6. ASSUME NEW a \in Asks, ScanSettle(a) PROVE WaitInv'
  <2>1. a \notin pending'
    BY <1>6 DEF ScanSettle, Settle, Undelivered, CancelPending
  <2> QED
    BY Zenon, <1>1, <1>6, <2>1 DEF ScanSettle, WaitInv, NoneLeftWaiting, AppliesTo, Current, PauseActive
<1> QED
  BY <1>2, <1>3, <1>4, <1>5, <1>6 DEF PumpTakes, PumpGoesOn

\* Every step keeps it, while the wall clock is not set.
LEMMA WaitStep == MaxWallSteps = 0 /\ TypeOK /\ SettleInv /\ WaitInv /\ [Next]_vars => WaitInv'
<1> SUFFICES ASSUME MaxWallSteps = 0, TypeOK, SettleInv, WaitInv, [Next]_vars PROVE WaitInv'
  OBVIOUS
<1>1. ASSUME NEW e \in Events, PingEvent(e) PROVE WaitInv'
  BY <1>1, WaitFrame DEF PingEvent
<1>2. CASE UNCHANGED vars
  BY <1>2, WaitFrame DEF vars
<1> QED
  BY <1>1, <1>2, WaitOfTasks, WaitOfHandler, WaitOfPump DEF Next

\* As long as the wall clock is not stepped back over a pause's deadline, no waiting prompt
\* is missed by a pause that applies to it.
THEOREM NoPromptMissed == MaxWallSteps = 0 /\ Spec => []NoneLeftWaiting
<1>1. Init => WaitInv
  BY DEF Init, WaitInv, NoneLeftWaiting
<1>2. WaitInv => NoneLeftWaiting
  BY DEF WaitInv
<1>3. ASSUME MaxWallSteps = 0 PROVE Spec => []NoneLeftWaiting
  <2>1. TypeOK /\ SettleInv /\ WaitInv /\ [Next]_vars => WaitInv'
    BY <1>3, WaitStep
  <2> QED
    BY <1>1, <1>2, <2>1, TypeInit, TypeStep, SettleInit, SettleStep, PTL DEF Spec
<1> QED
  BY <1>3

=============================================================================
