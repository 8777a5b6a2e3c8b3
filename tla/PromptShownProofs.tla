------------------------- MODULE PromptShownProofs --------------------------
(***************************************************************************)
(* What is shown of the prompts, for any sets of Asks and rows and any     *)
(* bounds.                                                                 *)
(*                                                                         *)
(* The prompt slot: SlotInv says that no reading of the daemon's counters  *)
(* is ahead of the misses there were.                                      *)
(*                                                                         *)
(* The GUIs: OwnInv follows a pause from its request to its rows; ShowInv  *)
(* says what the GUIs have been shown of each row, and what is still to be *)
(* said.                                                                   *)
(***************************************************************************)
EXTENDS PromptSettlementProofs, PromptSlot

-----------------------------------------------------------------------------
(* The prompt slot *)

Readings == [misses : Int, uptime : Int, generation : Int]
Holders == [seq : Nat, baseline : Readings, last : Readings]

\* No reading is ahead of the misses there were: since a row's baseline, or since the ping
\* that will be its baseline, no more were missed than while it holds
SlotInv ==
  /\ Holding \subseteq SlotRows /\ slotHolders \in [Holding -> Holders] /\ nextSeq \in Nat
  /\ misses \in Nat /\ uptime \in Nat /\ rulesGeneration \in Nat /\ missesSince \in [SlotRows -> Nat]
  /\ pingSent \in Readings /\ (pingSent # NoReading => pingSent.misses \in 0..misses)
  /\ \A r \in Holding \ early :
       LET h == slotHolders[r]
       IN  /\ pingSent # NoReading => misses - pingSent.misses <= missesSince[r]
           /\ h.baseline # NoReading => h.baseline.misses \in Nat /\ misses - h.baseline.misses <= missesSince[r]
           /\ h.baseline # NoReading /\ h.last # NoReading =>
                h.last.misses - h.baseline.misses <= missesSince[r]
  /\ SlotShownIsCurrent

\* observe: the reading becomes the baseline, or the last one after it.
LEMMA PingStep ==
  ASSUME SlotInv, PingArrivesAtSlot
  PROVE  SlotInv'
<1> DEFINE reading == [pingSent EXCEPT !.generation = rulesGeneration]
<1>1. /\ pingSent # NoReading /\ pingSent' = NoReading
      /\ slotHolders' = [r \in Holding |-> Observe(slotHolders[r], reading)]
      /\ UNCHANGED <<nextSeq, misses, uptime, rulesGeneration, missesSince, early>>
  BY DEF PingArrivesAtSlot
<1>2. /\ reading \in Readings /\ reading.misses = pingSent.misses /\ reading.misses \in Nat /\ NoReading \in Readings
  BY <1>1 DEF SlotInv, Readings, NoReading
<1> HIDE DEF reading
<1>3. ASSUME NEW h \in Holders
      PROVE  LET g == Observe(h, reading)
             IN  /\ g \in Holders
                 /\ \/ g.baseline = reading /\ g.last = NoReading
                    \/ h.baseline # NoReading /\ g.baseline = h.baseline /\ g.last = reading
  BY Zenon, <1>2 DEF Observe, Holders
<1>4. DOMAIN slotHolders' = Holding /\ slotHolders' \in [Holding -> Holders]
  BY <1>1, <1>3 DEF SlotInv
<1>5. ASSUME NEW r \in Holding \ early
      PROVE  LET h == slotHolders'[r]
             IN  /\ h.baseline # NoReading => h.baseline.misses \in Nat /\ misses - h.baseline.misses <= missesSince[r]
                 /\ h.baseline # NoReading /\ h.last # NoReading =>
                      h.last.misses - h.baseline.misses <= missesSince[r]
  <2> DEFINE h == slotHolders[r]
             g == slotHolders'[r]
  <2>1. h \in Holders /\ g = Observe(h, reading) BY <1>1 DEF SlotInv
  <2>2. /\ pingSent.misses <= misses /\ misses - pingSent.misses <= missesSince[r] /\ missesSince[r] \in Nat
        /\ misses \in Nat
    BY <1>1 DEF SlotInv
  <2>3. CASE g.baseline = reading /\ g.last = NoReading BY <1>2, <2>2, <2>3
  <2>4. CASE h.baseline # NoReading /\ g.baseline = h.baseline /\ g.last = reading
    <3>1. h.baseline.misses \in Nat /\ misses - h.baseline.misses <= missesSince[r] BY <2>4 DEF SlotInv
    <3>2. g.last.misses = pingSent.misses /\ g.baseline.misses = h.baseline.misses BY <1>2, <2>4
    <3>3. pingSent.misses \in Nat BY <1>2
    <3> HIDE DEF h, g
    <3>4. g.last.misses - g.baseline.misses <= missesSince[r] BY <2>2, <3>1, <3>2, <3>3
    <3> QED BY <2>4, <3>1, <3>2, <3>4 DEF g
  <2> QED BY <1>3, <2>1, <2>3, <2>4
<1>6. SlotShownIsCurrent' BY DEF PingArrivesAtSlot, Announce, SlotInv, SlotShownIsCurrent
<1> QED BY <1>1, <1>2, <1>4, <1>5, <1>6 DEF SlotInv, Holding

\* hold: a row begins with no reading, and its own count of misses.
LEMMA HoldStep ==
  ASSUME SlotInv, NEW q \in SlotRows, HoldSlot(q)
  PROVE  SlotInv'
<1> DEFINE new == [seq |-> nextSeq + 1, baseline |-> NoReading, last |-> NoReading]
<1>1. /\ q \notin Holding /\ nextSeq' = nextSeq + 1
      /\ slotHolders' = [s \in Holding \cup {q} |-> IF s = q THEN new ELSE slotHolders[s]]
      /\ missesSince' = [missesSince EXCEPT ![q] = 0]
      /\ early' = (IF pingSent = NoReading THEN early \ {q} ELSE early \cup {q})
      /\ SlotShownIsCurrent' /\ UNCHANGED <<misses, uptime, rulesGeneration, pingSent>>
  BY Zenon DEF HoldSlot, NextSeq, Announce, SlotShownIsCurrent
<1>2. new \in Holders /\ new.baseline = NoReading BY DEF Holders, Readings, NoReading, SlotInv
<1> HIDE DEF new
<1>3. Holding' = Holding \cup {q} /\ slotHolders' \in [Holding' -> Holders] BY <1>1, <1>2 DEF SlotInv, Holding
<1>4. missesSince' \in [SlotRows -> Nat] /\ \A r \in SlotRows : r # q => missesSince'[r] = missesSince[r]
  BY <1>1 DEF SlotInv
<1>5. \A r \in Holding' \ early' :
        \/ r = q /\ pingSent = NoReading /\ slotHolders'[r] = new
        \/ r \in Holding \ early /\ r # q /\ slotHolders'[r] = slotHolders[r]
  BY <1>1, <1>3
<1> QED BY <1>1, <1>2, <1>3, <1>4, <1>5 DEF SlotInv

\* What the clients are told of the slot is who holds it now, and a lower bound of the
\* connections that got the default meanwhile, over restarts of the daemon, new rule lists
\* and late pings (hold, release, observe).
THEOREM SlotAlwaysTold == SlotSpec => []SlotIsTold
<1>1. SlotInit => SlotInv
  BY DEF SlotInit, SlotInv, SlotShownIsCurrent, Holding, Readings, NoReading
<1>2. SlotInv /\ [SlotNext]_slotVars => SlotInv'
  <2> SUFFICES ASSUME SlotInv, [SlotNext]_slotVars PROVE SlotInv' OBVIOUS
  <2>1. ASSUME NEW r \in SlotRows, HoldSlot(r) PROVE SlotInv' BY <2>1, HoldStep
  <2>2. ASSUME NEW q \in SlotRows, Release(q) PROVE SlotInv'
    <3>1. /\ slotHolders' = [s \in Holding \ {q} |-> slotHolders[s]] /\ SlotShownIsCurrent'
          /\ UNCHANGED <<nextSeq, misses, uptime, rulesGeneration, pingSent, missesSince, early>>
      BY <2>2 DEF Release, Announce, SlotShownIsCurrent
    <3>2. /\ Holding' = Holding \ {q} /\ slotHolders' \in [Holding' -> Holders]
          /\ \A r \in Holding' : slotHolders'[r] = slotHolders[r]
      BY <3>1 DEF SlotInv, Holding
    <3> QED BY <3>1, <3>2 DEF SlotInv
  <2>3. CASE PingArrivesAtSlot BY <2>3, PingStep
  <2>4. CASE Miss
    <3>1. /\ misses' = misses + 1
          /\ missesSince' = [r \in SlotRows |-> IF r \in Holding THEN missesSince[r] + 1 ELSE missesSince[r]]
          /\ UNCHANGED <<slotHolders, nextSeq, slotShown, uptime, rulesGeneration, pingSent, early>>
      BY <2>4 DEF Miss
    <3>2. /\ missesSince' \in [SlotRows -> Nat] /\ \A r \in Holding : missesSince'[r] = missesSince[r] + 1
      BY <3>1 DEF SlotInv
    <3>3. \A r \in Holding \ early : slotHolders[r] \in Holders BY DEF SlotInv
    <3> QED BY <3>1, <3>2, <3>3 DEF SlotInv, Holding, SlotShownIsCurrent, Holders, Readings
  <2>5. CASE TimePasses \/ NewSnapshot \/ UNCHANGED slotVars
    <3>1. /\ uptime' \in Nat /\ rulesGeneration' \in Nat
          /\ UNCHANGED <<slotHolders, nextSeq, slotShown, misses, pingSent, missesSince, early>>
      BY <2>5 DEF TimePasses, NewSnapshot, slotVars, SlotInv
    <3> QED BY <3>1 DEF SlotInv, Holding, SlotShownIsCurrent
  <2>6. CASE AnotherDaemon
    <3>1. /\ misses' = 0 /\ uptime' = 0 /\ pingSent' = NoReading
          /\ UNCHANGED <<slotHolders, nextSeq, slotShown, rulesGeneration, missesSince, early>>
      BY <2>6 DEF AnotherDaemon
    <3>2. NoReading \in Readings BY DEF NoReading, Readings
    <3> QED BY <3>1, <3>2 DEF SlotInv, Holding, SlotShownIsCurrent
  <2>7. CASE SendPing
    <3>1. /\ pingSent' = [misses |-> misses, uptime |-> uptime, generation |-> 0]
          /\ UNCHANGED <<slotHolders, nextSeq, slotShown, misses, uptime, rulesGeneration, missesSince, early>>
      BY <2>7 DEF SendPing
    <3>2. pingSent' \in Readings /\ pingSent'.misses = misses BY <3>1 DEF Readings, SlotInv
    <3> QED BY <3>1, <3>2 DEF SlotInv, Holding, SlotShownIsCurrent
  <2> QED BY <2>1, <2>2, <2>3, <2>4, <2>5, <2>6, <2>7 DEF SlotNext
<1>3. SlotInv => SlotIsTold
  <2> SUFFICES ASSUME SlotInv, NEW r \in Holding \ early
               PROVE  DefaultedAtLeast(slotHolders[r]) <= missesSince[r]
    BY DEF SlotIsTold, CountIsLowerBound, SlotInv
  <2> DEFINE h == slotHolders[r]
  <2>1. h \in Holders /\ missesSince[r] \in Nat BY DEF SlotInv
  <2>2. CASE h.baseline = NoReading \/ h.last = NoReading BY <2>1, <2>2 DEF DefaultedAtLeast
  <2>3. CASE h.baseline # NoReading /\ h.last # NoReading
    <3>1. h.last.misses - h.baseline.misses <= missesSince[r] BY <2>3 DEF SlotInv
    <3>2. h.last.misses \in Int /\ h.baseline.misses \in Int BY <2>1 DEF Holders, Readings
    <3> HIDE DEF h
    <3>3. DefaultedAtLeast(h) = SaturatingSub(h.last.misses, h.baseline.misses) BY <2>3 DEF DefaultedAtLeast
    <3>4. DefaultedAtLeast(h) <= missesSince[r] BY <2>1, <3>1, <3>2, <3>3 DEF SaturatingSub
    <3> QED BY <3>4 DEF h
  <2> QED BY <2>2, <2>3
<1> QED BY <1>1, <1>2, <1>3, PTL DEF SlotSpec

-----------------------------------------------------------------------------
USE DEF presenceVars, pauseVars, askVars, cacheVars, pumpVars, taskVars, pumpKeeps, taskKeeps,
        askOnly, RowIds

-----------------------------------------------------------------------------
(* Whose pause it is *)

\* A pause that is set, or that a request in the queue asks for, was wanted under its own
\* generation, and so was every pause that the scan matched a prompt with; an Ask that has
\* not been admitted has no label.
OwnInv ==
  /\ PausedOnlyByOwnSession
  /\ pause # "none" => owner \in requesters
  /\ \A i \in 1..Len(inbox) : inbox[i].kind = "pause" /\ inbox[i].gen # Unstamped => inbox[i].gen \in requesters
  /\ pump \in {"match", "settle"} => \A a \in hits : adm[a] \in requesters
  /\ \A a \in Asks : pc[a] = "new" => row[a].label # "filterPaused"

\* A step that keeps the pause and its requests, admits no Ask and labels no row for the
\* pause keeps the invariant.
LEMMA OwnFrame ==
  ASSUME OwnInv, UNCHANGED <<pause, owner, inbox, requesters, adm>>,
         \A a \in Asks : row'[a] = row[a] \/ row'[a].label # "filterPaused",
         \A a \in Asks : pc'[a] = "new" => pc[a] = "new",
         pump' \in {"match", "settle"} => pump \in {"match", "settle"} /\ hits' \subseteq hits
  PROVE  OwnInv'
  BY DEF OwnInv, PausedOnlyByOwnSession

\* The sessions, the clocks and the two tasks.
LEMMA OwnOfTasks ==
  ASSUME TypeOK, OwnInv, Sessions \/ PauseDeadlinePasses \/ PauseTasks
  PROVE  OwnInv'
<1>1. CASE Authenticate \/ SessionEnds \/ ClearerAnnounces \/ ExpirerAnnounces
  BY Zenon, <1>1, OwnFrame DEF Authenticate, SessionEnds, ClearerAnnounces, ExpirerAnnounces
<1>2. ASSUME NEW k \in RequestKinds, NEW g \in {generation, Unstamped}, SendPauseRequest([kind |-> k, gen |-> g])
      PROVE  OwnInv'
  <2> DEFINE r == [kind |-> k, gen |-> g]
  <2>1. r.kind = k /\ r.gen = g /\ r \in Requests
    BY DEF Requests, TypeOK
  <2>2. inbox' = Append(inbox, r) /\ requesters \subseteq requesters'
        /\ (r.kind = "pause" /\ r.gen # Unstamped => r.gen \in requesters')
        /\ UNCHANGED <<pause, owner, adm, row, pc, pump, hits>>
    BY Zenon, <1>2 DEF SendPauseRequest
  <2> HIDE DEF r
  <2>3. inbox \in Seq(Requests) /\ Len(inbox') = Len(inbox) + 1
        /\ \A i \in 1..Len(inbox') : inbox'[i] = IF i <= Len(inbox) THEN inbox[i] ELSE r
    BY <2>1, <2>2 DEF TypeOK
  <2>4. \A i \in 1..Len(inbox') : inbox'[i].kind = "pause" /\ inbox'[i].gen # Unstamped =>
                                    inbox'[i].gen \in requesters'
    BY <2>2, <2>3 DEF OwnInv
  <2> QED
    BY <2>2, <2>4 DEF OwnInv, PausedOnlyByOwnSession
<1>3. CASE PauseDeadlinePasses
  BY Zenon, <1>3 DEF PauseDeadlinePasses, OwnInv, PausedOnlyByOwnSession
<1>4. CASE ClearOnLoss \/ TakeExpired
  <2>1. UNCHANGED <<inbox, requesters, adm, row, pc, pump, hits>> /\ (pause' = "none" \/ UNCHANGED <<pause, owner>>)
    BY <1>4 DEF ClearOnLoss, TakeExpired, ClearPause
  <2> QED
    BY <2>1 DEF OwnInv, PausedOnlyByOwnSession
<1> QED
  BY Zenon, <1>1, <1>2, <1>3, <1>4 DEF Sessions, PauseTasks

\* No handler goes back to the start.
LEMMA WhoMoves ==
  ASSUME TypeOK, NEW a \in Asks, Handler(a) \/ Abandon(a)
  PROVE  \A b \in Asks : pc'[b] = "new" => pc[b] = "new"
<1> USE DEF Goto, Answer
<1>0. DOMAIN pc = Asks
  BY DEF TypeOK
<1>1. ASSUME NEW step \in Steps \ {"new"}, pc' = [pc EXCEPT ![a] = step]
      PROVE  \A b \in Asks : pc'[b] = "new" => pc[b] = "new"
  BY <1>0, <1>1
<1>2. \E step \in Steps \ {"new"} : pc' = [pc EXCEPT ![a] = step]
  BY Zenon DEF Steps, Handler, Admit, AllowOnArrival, InsertAdmitted, RefuseLost, Hold, TakeVerdict, ReplyDeny, NoticeLoss,
     Timeout, CancelLost, AnswerUnanswered, Abandon, ReleaseSlot, Cleanup
<1> QED
  BY <1>1, <1>2

\* The handler: only an Ask to which its own session's pause applies is let through by it.
LEMMA OwnOfHandler ==
  ASSUME TypeOK, SettleInv, OwnInv, NEW a \in Asks, Handler(a) \/ Abandon(a)
  PROVE  OwnInv'
<1> USE DEF Goto, Answer
<1>0. DOMAIN pc = Asks /\ DOMAIN row = Asks /\ DOMAIN adm = Asks
  BY Zenon DEF TypeOK
<1>1. CASE Admit(a)
  <2>1. UNCHANGED <<pause, owner, inbox, requesters, row, pump, hits>> /\ pc[a] = "new" /\ pc'[a] # "new"
    BY <1>0, <1>1 DEF Admit
  <2>2. \A b \in Asks : b # a => adm'[b] = adm[b] /\ pc'[b] = pc[b]
    BY Zenon, <1>0, <1>1 DEF Admit
  <2>3. row[a].label # "filterPaused"
    BY Zenon, <2>1 DEF OwnInv
  <2>4. pump \in {"match", "settle"} => a \notin hits
    BY <2>1 DEF SettleInv, AskInv
  <2>5. pump \in {"match", "settle"} => hits \subseteq Asks
    BY Zenon DEF TypeOK
  <2> QED
    BY <2>1, <2>2, <2>3, <2>4, <2>5 DEF OwnInv, PausedOnlyByOwnSession
<1>2. CASE AllowOnArrival(a)
  <2>1. adm[a] \in requesters
    BY Zenon, <1>2 DEF AllowOnArrival, AppliesTo, PauseActive, OwnInv
  <2>2. \A b \in Asks : b # a => row'[b] = row[b]
    BY Zenon, <1>0, <1>2 DEF AllowOnArrival
  <2>3. \A b \in Asks : pc'[b] = "new" => pc[b] = "new" /\ b # a
    BY Zenon, <1>0, <1>2 DEF AllowOnArrival
  <2> QED
    BY Zenon, <1>2, <2>1, <2>2, <2>3 DEF AllowOnArrival, OwnInv, PausedOnlyByOwnSession
<1>3. CASE ~Admit(a) /\ ~AllowOnArrival(a)
  <2>1. UNCHANGED <<pause, owner, inbox, requesters, adm, pump, hits>>
    BY Zenon, <1>3 DEF Handler, RefuseLost, Hold, TakeVerdict, ReplyDeny, NoticeLoss, Timeout, CancelLost,
       AnswerUnanswered, Abandon, ReleaseSlot, Cleanup, InsertAdmitted
  <2>2. \A b \in Asks : pc'[b] = "new" => pc[b] = "new"
    BY Zenon, WhoMoves, <1>3
  <2>3. \A b \in Asks : row'[b] = row[b] \/ row'[b].label # "filterPaused"
    <3>1. CASE InsertAdmitted(a)
      BY Zenon, <1>0, <3>1 DEF InsertAdmitted, PromptRow, Row
    <3>2. CASE AnswerUnanswered(a)
      BY <1>0, <3>2 DEF AnswerUnanswered, DeferPending, Row
    <3>3. CASE ~InsertAdmitted(a) /\ ~AnswerUnanswered(a)
      <4>1. row' = row
        BY Zenon, <1>3, <3>3 DEF Handler, RefuseLost, Hold, TakeVerdict, ReplyDeny, NoticeLoss, Timeout, CancelLost,
           Abandon, ReleaseSlot, Cleanup
      <4> QED
        BY <4>1
    <3> QED
      BY Zenon, <3>1, <3>2, <3>3
  <2> QED
    BY <2>1, <2>2, <2>3, OwnFrame
<1> QED
  BY <1>1, <1>2, <1>3

\* The pump: a request from the queue sets the pause only for a generation that is current,
\* and the scan takes only prompts to which that pause applies.
LEMMA OwnOfPump ==
  ASSUME TypeOK, SettleInv, OwnInv, PumpTakes \/ PumpGoesOn
  PROVE  OwnInv'
<1>0. DOMAIN row = Asks /\ UNCHANGED <<pc, adm>>
  BY Zenon DEF TypeOK, PumpTakes, PumpGoesOn, DecideLater, SetVerdict, ApplyPauseRequest, SnapshotCopies, FanOut,
         ScanBegins, ScanMatched, ScanEnds, PumpAnnounces, SnapshotClears, SnapshotInserts, ScanMatch, ScanSettle
<1>1. ASSUME NEW a \in Asks, NEW v \in {"allow", "deny"}, SetVerdict(a, v) PROVE OwnInv'
  <2>1. \A b \in Asks : row'[b] = row[b] \/ row'[b].label # "filterPaused"
    BY <1>0, <1>1 DEF SetVerdict, Settle, Undelivered, Row
  <2> QED
    BY Zenon, <1>0, <1>1, <2>1, OwnFrame DEF SetVerdict
<1>2. ASSUME NEW a \in Asks, DecideLater(a) PROVE OwnInv'
  <2>1. \A b \in Asks : row'[b] = row[b] \/ row'[b].label # "filterPaused"
    BY <1>0, <1>2 DEF DecideLater, Settle, DeferPending, Undelivered, Row
  <2> QED
    BY Zenon, <1>0, <1>2, <2>1, OwnFrame DEF DecideLater
<1>3. CASE ApplyPauseRequest
  <2> DEFINE r == inbox[1]
  <2>1. inbox \in Seq(Requests) /\ inbox # <<>> /\ Head(inbox) = r /\ inbox' = Tail(inbox) /\ Apply(r)
        /\ UNCHANGED <<row, adm, pc>> /\ pump' = "scan"
    BY <1>3 DEF ApplyPauseRequest, TypeOK
  <2>2. Len(inbox) \in Nat /\ Len(inbox) > 0 /\ Len(inbox') = Len(inbox) - 1
        /\ \A i \in 1..Len(inbox') : inbox'[i] = inbox[i + 1]
    BY <2>1
  <2>3. r.kind = "pause" /\ r.gen # Unstamped => r.gen \in requesters
    BY <2>2 DEF OwnInv
  <2>4. requesters \subseteq requesters' /\ (pause' # "none" => owner' \in requesters')
    BY <2>1, <2>3 DEF Apply, Sender, ClearPause, OwnInv
  <2>5. \A i \in 1..Len(inbox') : inbox'[i].kind = "pause" /\ inbox'[i].gen # Unstamped =>
                                    inbox'[i].gen \in requesters'
    BY <2>2, <2>4 DEF OwnInv
  <2> QED
    BY Zenon, <2>1, <2>4, <2>5 DEF OwnInv, PausedOnlyByOwnSession
<1>4. CASE ScanBegins
  BY Zenon, <1>0, <1>4 DEF ScanBegins, OwnInv, PausedOnlyByOwnSession
<1>5. ASSUME NEW a \in Asks, ScanMatch(a) PROVE OwnInv'
  <2>1. AppliesTo(adm[a]) => adm[a] \in requesters
    BY Zenon DEF AppliesTo, PauseActive, OwnInv
  <2> QED
    BY Zenon, <1>0, <1>5, <2>1 DEF ScanMatch, OwnInv, PausedOnlyByOwnSession
<1>6. ASSUME NEW a \in Asks, ScanSettle(a) PROVE OwnInv'
  <2>1. adm[a] \in requesters /\ hits' \subseteq hits /\ pump' = pump /\ UNCHANGED <<pause, owner, inbox, requesters>>
    BY <1>6 DEF ScanSettle, OwnInv
  <2>2. \A b \in Asks : b # a => row'[b] = row[b]
    BY Zenon, <1>0, <1>6 DEF ScanSettle, Settle, Undelivered
  <2>3. a \in pending => pc[a] # "new"
    BY DEF SettleInv, AskInv
  <2>4. a \in pending
    BY Zenon, <1>6 DEF ScanSettle, SettleInv
  <2> QED
    BY Zenon, <1>0, <2>1, <2>2, <2>3, <2>4 DEF OwnInv, PausedOnlyByOwnSession
<1>7. CASE SnapshotCopies \/ FanOut \/ ScanMatched \/ ScanEnds \/ PumpAnnounces \/ SnapshotClears \/ SnapshotInserts
  BY <1>0, <1>7, OwnFrame DEF SnapshotCopies, FanOut, ScanMatched, ScanEnds, PumpAnnounces, SnapshotClears,
     SnapshotInserts
<1> QED
  BY <1>1, <1>2, <1>3, <1>4, <1>5, <1>6, <1>7 DEF PumpTakes, PumpGoesOn

\* Every step keeps the pause its own session's.
LEMMA OwnStep == TypeOK /\ SettleInv /\ OwnInv /\ [Next]_vars => OwnInv'
<1> SUFFICES ASSUME TypeOK, SettleInv, OwnInv, [Next]_vars PROVE OwnInv'
  OBVIOUS
<1>1. ASSUME NEW e \in Events, PingEvent(e) PROVE OwnInv'
  BY ZenonT(30), <1>1, OwnFrame DEF PingEvent
<1>2. CASE UNCHANGED vars
  BY Zenon, <1>2, OwnFrame DEF vars
<1> QED
  BY <1>1, <1>2, OwnOfTasks, OwnOfHandler, OwnOfPump DEF Next

\* A pause lets through only what was asked about under the GUI sessions that wanted it,
\* however long its request waited in the queue and whenever the sessions end.
THEOREM PauseStaysOwn == Spec => []PausedOnlyByOwnSession
<1>1. Init => OwnInv
  BY DEF Init, OwnInv, PausedOnlyByOwnSession, PromptRow, Row
<1>2. OwnInv => PausedOnlyByOwnSession
  BY Zenon DEF OwnInv
<1> QED
  BY <1>1, <1>2, OwnStep, TypeInit, TypeStep, SettleInit, SettleStep, PTL DEF Spec

-----------------------------------------------------------------------------
(* What GUIs are shown *)

\* A prompt that no longer waits is still shown as one only until the fan-out of its verdict,
\* or for good when its row is no longer listed by then
ShownRight(a) ==
  /\ a \in pending => shown[a] = "prompt"
  /\ shown[a] = "prompt" =>
       a \in pending \/ (chan[a] \in {"allow", "deny"} /\ (a \notin listed \/ (pump = "fanOut" /\ a \in hits)))
ShowInv ==
  /\ pump \in {"send", "insert"} => snapshots # 0
  /\ pump = "fanOut" => \A a \in hits : chan[a] \in {"allow", "deny"}
  /\ snapshots = 0 => \A a \in Asks : ShownRight(a)

\* An Ask that keeps its oneshot and is shown as before.
LEMMA ShowFrame ==
  ASSUME NEW b \in Asks, ShownRight(b), chan'[b] = chan[b], shown'[b] = shown[b],
         b \in pending' <=> b \in pending, b \in listed' => b \in listed,
         pump = "fanOut" /\ b \in hits => pump' = "fanOut" /\ b \in hits'
  PROVE  ShownRight(b)'
  BY DEF ShownRight

\* The handler's steps: what it inserts, withdraws or puts off is broadcast with the same lock.
LEMMA ShowOfHandler ==
  ASSUME TypeOK, SettleInv, ShowInv, NEW a \in Asks, Handler(a) \/ Abandon(a)
  PROVE  ShowInv'
<1> USE DEF Goto, Answer
<1>0. DOMAIN chan = Asks /\ DOMAIN shown = Asks /\ DOMAIN row = Asks
  BY DEF TypeOK
<1>1. UNCHANGED <<pump, hits, snapshots>>
  BY Zenon DEF Handler, Admit, AllowOnArrival, InsertAdmitted, RefuseLost, Hold, TakeVerdict, ReplyDeny, NoticeLoss,
     Timeout, CancelLost, AnswerUnanswered, Abandon, ReleaseSlot, Cleanup
<1>2. hits \subseteq Asks BY DEF TypeOK
<1>3. ASSUME chan' = chan, \A b \in Asks : snapshots = 0 => ShownRight(b)' PROVE ShowInv'
  BY <1>1, <1>3 DEF ShowInv
<1>4. CASE AllowOnArrival(a)
  <2>1. listed' \subseteq listed \cup {a} /\ pending' = pending /\ chan' = chan /\ a \notin pending
    BY Zenon, <1>4, PushFacts DEF AllowOnArrival, SettleInv, AskInv
  <2>2. \A b \in Asks : b # a => shown'[b] = shown[b]
    BY Zenon, <1>0, <1>4 DEF AllowOnArrival
  <2>3. shown'[a] = "settled"
    BY Zenon, <1>0, <1>4 DEF AllowOnArrival
  <2>4. ShownRight(a)'
    BY Zenon, <2>1, <2>3 DEF ShownRight
  <2>5. ASSUME NEW b \in Asks, b # a, snapshots = 0 PROVE ShownRight(b)'
    BY Zenon, <1>1, <2>1, <2>2, <2>5, ShowFrame DEF ShowInv
  <2> QED
    BY <1>3, <2>1, <2>4, <2>5
<1>5. CASE InsertAdmitted(a)
  <2>1. listed' \subseteq listed \cup {a} /\ pending' = pending \cup {a}
    BY Zenon, <1>5, PushFacts DEF InsertAdmitted
  <2>2. \A b \in Asks : b # a => shown'[b] = shown[b] /\ chan'[b] = chan[b]
    BY Zenon, <1>0, <1>5 DEF InsertAdmitted
  <2>3. shown'[a] = "prompt" /\ chan[a] = "none"
    BY Zenon, <1>0, <1>5 DEF InsertAdmitted, SettleInv, AskInv
  <2>4. ShownRight(a)'
    BY Zenon, <2>1, <2>3 DEF ShownRight
  <2>5. ASSUME NEW b \in Asks, b # a, snapshots = 0 PROVE ShownRight(b)'
    BY Zenon, <1>1, <2>1, <2>2, <2>5, ShowFrame DEF ShowInv
  <2>6. pump = "fanOut" => a \notin hits
    BY <2>3 DEF ShowInv
  <2> QED
    BY <1>1, <1>2, <2>2, <2>4, <2>5, <2>6 DEF ShowInv
<1>6. ASSUME CancelPending(a) PROVE ShowInv'
  <2>1. CASE a \in pending
    <3>1. \A b \in Asks : b # a => shown'[b] = shown[b] /\ chan'[b] = chan[b]
      BY Zenon, <1>0, <1>6, <2>1 DEF CancelPending
    <3>2. shown'[a] = "absent" /\ chan[a] = "open" /\ a \notin pending' /\ pending' = pending \ {a} /\ listed' \subseteq listed
      BY Zenon, <1>0, <1>6, <2>1 DEF CancelPending, SettleInv, AskInv
    <3>3. ShownRight(a)'
      BY Zenon, <3>2 DEF ShownRight
    <3>4. ASSUME NEW b \in Asks, b # a, snapshots = 0 PROVE ShownRight(b)'
      BY Zenon, <1>1, <3>1, <3>2, <3>4, ShowFrame DEF ShowInv
    <3>5. pump = "fanOut" => a \notin hits
      BY Zenon, <3>2 DEF ShowInv
    <3> QED
      BY <1>1, <1>2, <3>1, <3>3, <3>4, <3>5 DEF ShowInv
  <2>2. CASE a \notin pending
    BY Zenon, <1>1, <1>6, <2>2 DEF CancelPending, ShowInv, ShownRight
  <2> QED
    BY Zenon, <2>1, <2>2
<1>7. CASE AnswerUnanswered(a) /\ a \in pending
  <2>1. DeferPending(a, "noAnswer")
    BY <1>7 DEF AnswerUnanswered
  <2>2. \A b \in Asks : b # a => shown'[b] = shown[b] /\ chan'[b] = chan[b]
    BY Zenon, <1>0, <2>1 DEF DeferPending
  <2>3. shown'[a] = "settled" /\ chan[a] = "open" /\ pending' = pending \ {a} /\ listed' = listed
    <3>1. row'[a] = Row(DefaultRowAction, "noAnswer")
      BY Zenon, <1>0, <2>1 DEF DeferPending
    <3>2. View(row'[a]) = "settled"
      BY <3>1 DEF View, Row, Deferred
    <3> QED
      BY Zenon, <1>0, <1>7, <2>1, <3>2 DEF DeferPending, SettleInv, AskInv
  <2>4. ShownRight(a)'
    BY Zenon, <2>3 DEF ShownRight
  <2>5. ASSUME NEW b \in Asks, b # a, snapshots = 0 PROVE ShownRight(b)'
    BY Zenon, <1>1, <2>2, <2>3, <2>5, ShowFrame DEF ShowInv
  <2>6. pump = "fanOut" => a \notin hits
    BY Zenon, <2>3 DEF ShowInv
  <2> QED
    BY <1>1, <1>2, <2>2, <2>4, <2>5, <2>6 DEF ShowInv
<1>8. CASE UNCHANGED <<pending, listed, chan, shown>>
  BY <1>1, <1>8 DEF ShowInv, ShownRight
<1>9. \/ AllowOnArrival(a) \/ InsertAdmitted(a) \/ CancelPending(a) \/ (AnswerUnanswered(a) /\ a \in pending)
      \/ UNCHANGED <<pending, listed, chan, shown>>
  BY Zenon DEF Handler, Admit, RefuseLost, Hold, TakeVerdict, ReplyDeny, NoticeLoss,
     Timeout, CancelLost, AnswerUnanswered, Abandon, ReleaseSlot, Cleanup
<1> QED
  BY Zenon, <1>4, <1>5, <1>6, <1>7, <1>8, <1>9

\* The pump's steps: a verdict is shown by the fan-out after it, everything else at once.
LEMMA ShowOfPump ==
  ASSUME TypeOK, SettleInv, ShowInv, PumpTakes \/ PumpGoesOn
  PROVE  ShowInv'
<1>0. DOMAIN chan = Asks /\ DOMAIN shown = Asks /\ DOMAIN row = Asks /\ hits \subseteq Asks
  BY Zenon DEF TypeOK
<1>1. ASSUME NEW a \in Asks, a \in pending, pump # "fanOut", pump' \notin {"send", "insert", "fanOut"}, snapshots' = snapshots,
             \/ Undelivered(a)
             \/ shown' = [shown EXCEPT ![a] = "settled"] /\ \E v, r : Settle(a, v, r)
             \/ shown' = [shown EXCEPT ![a] = "settled"] /\ pending' = pending \ {a} /\ listed' = listed
                /\ chan' = [chan EXCEPT ![a] = "closed"]
      PROVE  ShowInv'
  <2>1. pending' = pending \ {a} /\ listed' \subseteq listed
    BY <1>1 DEF Undelivered, CancelPending, Settle
  <2>2. \A b \in Asks : b # a => shown'[b] = shown[b] /\ chan'[b] = chan[b]
    BY Zenon, <1>0, <1>1 DEF Undelivered, CancelPending, Settle
  <2>3. shown'[a] # "prompt"
    BY Zenon, <1>0, <1>1 DEF Undelivered, CancelPending
  <2>4. ASSUME NEW b \in Asks, b # a, snapshots = 0 PROVE ShownRight(b)'
    BY Zenon, <1>1, <2>1, <2>2, <2>4, ShowFrame DEF ShowInv
  <2>5. ShownRight(a)'
    BY <2>1, <2>3 DEF ShownRight
  <2> QED
    BY Zenon, <1>1, <2>4, <2>5 DEF ShowInv
<1>2. ASSUME NEW a \in Asks, NEW v \in {"allow", "deny"}, SetVerdict(a, v) PROVE ShowInv'
  <2>1. CASE a \notin pending
    BY Zenon, <1>2, <2>1 DEF SetVerdict, ShowInv, ShownRight
  <2>2. CASE a \in pending /\ ~Delivered(a)
    BY Zenon, <1>1, <1>2, <2>2 DEF SetVerdict
  <2>3. CASE a \in pending /\ Delivered(a)
    <3>1. pump = "idle" /\ pump' = "fanOut" /\ hits' = {a} /\ shown' = shown /\ snapshots' = snapshots
          /\ pending' = pending \ {a} /\ listed' = listed /\ chan' = [chan EXCEPT ![a] = v]
      BY Zenon, <1>2, <2>3 DEF SetVerdict, Settle
    <3>2. chan'[a] = v /\ \A b \in Asks : b # a => chan'[b] = chan[b]
      BY Zenon, <1>0, <3>1
    <3>3. ASSUME NEW b \in Asks, b # a, snapshots = 0 PROVE ShownRight(b)'
      BY Zenon, <3>1, <3>2, <3>3, ShowFrame DEF ShowInv
    <3>4. ShownRight(a)'
      BY <3>1, <3>2 DEF ShownRight
    <3> QED
      BY Zenon, <3>1, <3>2, <3>3, <3>4 DEF ShowInv
  <2> QED
    BY Zenon, <2>1, <2>2, <2>3
<1>3. ASSUME NEW a \in Asks, DecideLater(a) PROVE ShowInv'
  <2>1. CASE a \notin pending
    BY Zenon, <1>3, <2>1 DEF DecideLater, ShowInv, ShownRight
  <2>2. CASE a \in pending /\ a \notin Bindable
    <3>1. row'[a] = Row(DefaultRowAction, "later")
      BY ZenonT(30), <1>0, <1>3, <2>2 DEF DecideLater, DeferPending
    <3>2. View(row'[a]) = "settled"
      BY <3>1 DEF View, Row, Deferred
    <3> QED
      BY <1>1, <1>3, <2>2, <3>2 DEF DecideLater, DeferPending
  <2>3. CASE a \in pending /\ a \in Bindable
    BY Zenon, <1>1, <1>3, <2>3 DEF DecideLater
  <2> QED
    BY <2>1, <2>2, <2>3
<1>4. ASSUME NEW a \in Asks, ScanSettle(a) PROVE ShowInv'
  <2>1. a \in pending
    BY <1>4 DEF ScanSettle, SettleInv
  <2> QED
    BY <1>1, <1>4, <2>1 DEF ScanSettle
<1>5. CASE FanOut
  <2>1. pump = "fanOut" /\ pump' = "idle" /\ snapshots' = snapshots /\ UNCHANGED <<pending, listed, chan, row>>
        /\ \A b \in Asks : shown'[b] = IF b \in hits \cap listed THEN View(row[b]) ELSE shown[b]
    BY Zenon, <1>5 DEF FanOut
  <2>2. ASSUME NEW b \in Asks, snapshots = 0 PROVE ShownRight(b)'
    <3>1. CASE b \in hits \cap listed
      <4>1. chan[b] \in {"allow", "deny"} /\ row[b].action = chan[b] /\ b \notin pending
        BY Zenon, <2>1, <3>1 DEF ShowInv, SettleInv, AskInv
      <4>2. View(row[b]) = "settled"
        BY Zenon, <4>1 DEF View
      <4> QED
        BY Zenon, <2>1, <3>1, <4>1, <4>2 DEF ShownRight
    <3>2. CASE b \notin hits \cap listed
      <4>1. ShownRight(b)
        BY Zenon, <2>2 DEF ShowInv
      <4> QED
        BY <2>1, <3>2, <4>1 DEF ShownRight
    <3> QED
      BY Zenon, <3>1, <3>2
  <2> QED
    BY ZenonT(30), <2>1, <2>2 DEF ShowInv
<1>6. CASE ApplyPauseRequest \/ ScanBegins \/ ScanMatched \/ ScanEnds \/ PumpAnnounces
           \/ \E a \in Asks : ScanMatch(a)
  <2>1. UNCHANGED <<pending, listed, chan, shown, snapshots>> /\ pump # "fanOut" /\ pump' \notin {"fanOut", "send", "insert"}
    BY Zenon, <1>6 DEF ApplyPauseRequest, ScanBegins, ScanMatched, ScanEnds, PumpAnnounces, ScanMatch
  <2> QED
    BY <2>1 DEF ShowInv, ShownRight
<1>7. CASE SnapshotCopies \/ SnapshotClears \/ SnapshotInserts
  <2>1. snapshots' # 0 /\ pump' # "fanOut"
    BY <1>7 DEF SnapshotCopies, SnapshotClears, SnapshotInserts, ShowInv, TypeOK
  <2> QED
    BY Zenon, <2>1 DEF ShowInv
<1> QED
  BY <1>2, <1>3, <1>4, <1>5, <1>6, <1>7 DEF PumpTakes, PumpGoesOn

\* Every step keeps what the GUIs are shown.
LEMMA ShowStep == TypeOK /\ SettleInv /\ ShowInv /\ [Next]_vars => ShowInv'
<1> SUFFICES ASSUME TypeOK, SettleInv, ShowInv, [Next]_vars PROVE ShowInv'
  OBVIOUS
<1>1. ASSUME NEW e \in Events, PingEvent(e) PROVE ShowInv'
  <2>1. listed' \subseteq listed \cup {e} /\ \A b \in Asks : b # e
    BY Zenon, <1>1, PushFacts, SettlementAssumption DEF PingEvent
  <2>2. UNCHANGED <<pending, chan, shown, pump, hits, snapshots>>
    BY Zenon, <1>1 DEF PingEvent
  <2> QED
    BY Zenon, <2>1, <2>2 DEF ShowInv, ShownRight
<1>2. CASE Sessions \/ PauseDeadlinePasses \/ PauseTasks \/ UNCHANGED vars
  <2>1. UNCHANGED <<pending, listed, chan, shown, pump, hits, snapshots>>
    BY Zenon, <1>2 DEF Sessions, Authenticate, SessionEnds, SendPauseRequest, PauseDeadlinePasses, PauseTasks,
              ClearOnLoss, ClearerAnnounces, TakeExpired, ExpirerAnnounces, vars
  <2> QED
    BY <2>1 DEF ShowInv, ShownRight
<1> QED
  BY Zenon, <1>1, <1>2, ShowOfHandler, ShowOfPump DEF Next

\* Every change of the pause leaves an announcement to be made, and none is made of an older
\* state than the pause's.
LEMMA PauseShownStep == TypeOK /\ PauseShownIsTrue /\ [Next]_vars => PauseShownIsTrue'
<1> SUFFICES ASSUME TypeOK, PauseShownIsTrue, [Next]_vars PROVE PauseShownIsTrue'
  OBVIOUS
<1> USE DEF PauseShownIsTrue, PauseLapsed, PauseActive
<1>1. CASE PauseDeadlinePasses
  BY <1>1 DEF PauseDeadlinePasses, TypeOK
<1>2. CASE ClearOnLoss
  BY <1>2 DEF ClearOnLoss, ClearPause
<1>3. CASE ClearerAnnounces \/ ExpirerAnnounces
  BY Zenon, <1>3 DEF ClearerAnnounces, ExpirerAnnounces
<1>4. CASE TakeExpired
  BY <1>4 DEF TakeExpired, ClearPause
<1>5. CASE PumpAnnounces
  BY Zenon, <1>5 DEF PumpAnnounces
<1>6. CASE ApplyPauseRequest
  BY <1>6 DEF ApplyPauseRequest
<1>7. ASSUME UNCHANGED <<pause, wallSteps, clearer, expirer, pauseShown>>,
             \/ pump' = pump
             \/ pump' \in {"scan", "match", "settle", "announce"}
             \/ pump \notin {"scan", "match", "settle", "announce"}
      PROVE  PauseShownIsTrue'
  BY Zenon, <1>7
<1>8. CASE Authenticate \/ SessionEnds \/ (\E r : SendPauseRequest(r)) \/ UNCHANGED vars
           \/ \E e \in Events : PingEvent(e)
  BY Zenon, <1>7, <1>8 DEF Authenticate, SessionEnds, SendPauseRequest, PingEvent, vars
<1>9. CASE \E a \in Asks : Handler(a) \/ Abandon(a)
  BY Zenon, <1>7, <1>9 DEF Handler, Admit, AllowOnArrival, InsertAdmitted, RefuseLost, Hold, TakeVerdict, ReplyDeny,
     NoticeLoss, Timeout, CancelLost, AnswerUnanswered, Abandon, ReleaseSlot, Cleanup
<1>10. CASE \/ FanOut \/ ScanBegins \/ ScanMatched \/ ScanEnds \/ SnapshotCopies \/ SnapshotClears \/ SnapshotInserts
            \/ \E a \in Asks : \/ ScanMatch(a) \/ ScanSettle(a) \/ DecideLater(a)
                               \/ \E v \in {"allow", "deny"} : SetVerdict(a, v)
  <2>1. UNCHANGED <<pause, wallSteps, clearer, expirer, pauseShown>>
    BY Zenon, <1>10 DEF FanOut, ScanBegins, ScanMatched, ScanEnds, SnapshotCopies, SnapshotClears, SnapshotInserts,
       ScanMatch, ScanSettle, DecideLater, SetVerdict
  <2>2. \/ pump' = pump
        \/ pump' \in {"scan", "match", "settle", "announce"}
        \/ pump \notin {"scan", "match", "settle", "announce"}
    BY Zenon, <1>10 DEF FanOut, ScanBegins, ScanMatched, ScanEnds, SnapshotCopies, SnapshotClears, SnapshotInserts,
       ScanMatch, ScanSettle, DecideLater, SetVerdict
  <2> QED
    BY <1>7, <2>1, <2>2
<1> QED
  BY Zenon, <1>1, <1>2, <1>3, <1>4, <1>5, <1>6, <1>8, <1>9, <1>10 DEF Next, Sessions, PumpTakes, PumpGoesOn, PauseTasks

\* GUIs are shown the prompts that wait and the pause that is, whatever verdicts, losses,
\* timeouts, evictions and pauses cross the broadcasts.
THEOREM GuisStayShown == Spec => []GuisAreShownWhatIs
<1>1. Init => ShowInv /\ PauseShownIsTrue
  BY Zenon DEF Init, ShowInv, ShownRight, PauseShownIsTrue, PauseActive
<1>2. ShowInv /\ PauseShownIsTrue => GuisAreShownWhatIs
  BY DEF ShowInv, ShownRight, GuisAreShownWhatIs, GuiShowsTheWaiting
<1> QED
  BY <1>1, <1>2, ShowStep, PauseShownStep, TypeInit, TypeStep, SettleInit, SettleStep, PTL DEF Spec

=============================================================================
