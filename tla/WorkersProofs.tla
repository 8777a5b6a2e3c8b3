--------------------------- MODULE WorkersProofs ----------------------------
(***************************************************************************)
(* What the user is told by the workers beside the bridge, for any rules,  *)
(* profiles and networks and any bounds.                                   *)
(*                                                                         *)
(* An import's report is exact: RunInv says that each of its rules is      *)
(* left, in flight or told, and never two of these.                        *)
(*                                                                         *)
(* The active profile: SwitchInv ties what was promised at a click to what *)
(* is saved.                                                               *)
(***************************************************************************)
EXTENDS RulesImport, ProfileSwitch, FiniteSetTheorems, TLAPS

-----------------------------------------------------------------------------
(* Numbers *)

\* A set of naturals that is not empty has a least element: what is claimed of every number is
\* proved by showing that there is no least number of which it fails.
LEMMA LeastNat ==
  ASSUME NEW T, T \subseteq Nat, T # {}
  PROVE  \E x \in T : \A y \in T : x <= y
<1>1. PICK x \in T : \A y \in T : ~(<<y, x>> \in OpToRel(<, Nat))
  BY Zenon, WFMin, NatLessThanWellFounded
<1>2. \A y \in T : ~(y < x)
  BY Zenon, <1>1 DEF OpToRel
<1> QED BY <1>2

-----------------------------------------------------------------------------
(* Importing rules *)

Pcs == {"idle", "next", "claim", "send", "retry"}
Ended == {"applied", "rejected", "no_answer", "not_sent"}
Stops == {"none", "reconnected", "no daemon", "closed", "not answering", "died"}
Runs ==
  [pc : Pcs, left : SUBSET ImportNames, at : Nat, startedOn : Nat, before : [ImportNames -> Nat],
   stop : Stops, unanswered : Nat, retries : Nat, hold : BOOLEAN,
   outcome : [ImportNames -> Ended \cup {"none", "out"}], totals : Nat]

In(r) == {n \in ImportNames : r.outcome[n] # "out"}
Told(r) == {n \in ImportNames : r.outcome[n] \in Ended}

\* A run r with the commands fl in flight: each of its rules is left, in flight or told
RunInv(r, fl) ==
  /\ r \in Runs
  /\ r.totals = Cardinality(Told(r))
  /\ fl \subseteq In(r) /\ r.left \subseteq In(r) /\ r.left \cap fl = {} /\ Told(r) \cap (r.left \cup fl) = {}
  /\ r.pc # "idle" => In(r) \subseteq r.left \cup fl \cup Told(r)
  /\ r.pc \in {"claim", "send", "retry"} => r.at \in r.left
  /\ r.pc = "idle" => fl = {}
  /\ r.hold <=> r.pc # "idle"

\* An outcome told.
LEMMA ReportTells ==
  ASSUME NEW r \in Runs, NEW n \in ImportNames, r.outcome[n] = "none", r.totals = Cardinality(Told(r)), NEW w \in Ended
  PROVE  /\ Report(r, n, w) \in Runs /\ Report(r, n, w).totals = Cardinality(Told(Report(r, n, w)))
         /\ In(Report(r, n, w)) = In(r) /\ Told(Report(r, n, w)) = Told(r) \cup {n}
         /\ \A f \in {"pc", "left", "at", "startedOn", "before", "stop", "unanswered", "retries", "hold"} : Report(r, n, w)[f] = r[f]
<1> DEFINE q == Report(r, n, w)
<1>1. q \in Runs /\ q.totals = r.totals + 1 /\ q.outcome = [r.outcome EXCEPT ![n] = w]
  <2>1. q = [[r EXCEPT !.outcome = [r.outcome EXCEPT ![n] = w]] EXCEPT !.totals = r.totals + 1]
    BY DEF Report, Runs
  <2>2. [r.outcome EXCEPT ![n] = w] \in [ImportNames -> Ended \cup {"none", "out"}] /\ r.totals + 1 \in Nat
    BY DEF Runs
  <2> DEFINE o == [r.outcome EXCEPT ![n] = w]
             t == r.totals + 1
  <2> HIDE DEF o, t
  <2>3. q = [[r EXCEPT !.outcome = o] EXCEPT !.totals = t] /\ o \in [ImportNames -> Ended \cup {"none", "out"}] /\ t \in Nat
    BY <2>1, <2>2 DEF o, t
  <2>4. q \in Runs /\ q.totals = t /\ q.outcome = o BY Zenon, <2>3 DEF Runs
  <2> QED BY <2>4 DEF o, t
<1>2. \A f \in {"pc", "left", "at", "startedOn", "before", "stop", "unanswered", "retries", "hold"} : q[f] = r[f]
  BY Zenon DEF Report, Runs
<1>3. r.outcome \in [ImportNames -> Ended \cup {"none", "out"}] BY DEF Runs
<1> HIDE DEF q
<1>4. In(q) = In(r) BY <1>1, <1>3 DEF In, Ended
<1>5. Told(q) = Told(r) \cup {n} /\ n \notin Told(r) BY <1>1, <1>3 DEF Told, Ended
<1>6. IsFiniteSet(Told(r))
  <2>1. IsFiniteSet(ImportNames) BY FS_Interval, ImportAssumption DEF ImportNames
  <2> QED BY <2>1, FS_Subset DEF Told
<1>7. Cardinality(Told(q)) = Cardinality(Told(r)) + 1 BY Zenon, <1>5, <1>6, FS_AddElement
<1> QED BY <1>1, <1>2, <1>4, <1>5, <1>7 DEF q

\* The next in name order is one that is left.
LEMMA FirstIsLeft ==
  ASSUME NEW names \in SUBSET ImportNames, names # {}
  PROVE  FirstOf(names) \in names
<1>1. names \subseteq Nat BY ImportAssumption DEF ImportNames
<1>2. \E n \in names : \A m \in names : n <= m BY Zenon, <1>1, LeastNat
<1> QED BY <1>2 DEF FirstOf

\* Only the reason to stop is set, or the step.
LEMMA OnlyStop ==
  ASSUME NEW r, NEW fl, RunInv(r, fl), NEW why \in Stops
  PROVE  /\ RunInv([r EXCEPT !.stop = why], fl) /\ [r EXCEPT !.stop = why].stop = why
         /\ \A f \in {"pc", "left", "at", "startedOn", "before", "unanswered", "retries", "hold", "outcome", "totals"} :
              [r EXCEPT !.stop = why][f] = r[f]
<1> DEFINE q == [r EXCEPT !.stop = why]
<1>1. q \in Runs /\ q.stop = why BY DEF RunInv, Runs
<1>2. \A f \in {"pc", "left", "at", "startedOn", "before", "unanswered", "retries", "hold", "outcome", "totals"} : q[f] = r[f]
  BY DEF RunInv, Runs
<1> HIDE DEF q
<1>3. In(q) = In(r) /\ Told(q) = Told(r) BY <1>2 DEF In, Told
<1>4. RunInv(q, fl) BY <1>1, <1>2, <1>3 DEF RunInv
<1> QED BY <1>1, <1>2, <1>4 DEF q

Same(p, q) == \A f \in {"pc", "left", "at", "startedOn", "before", "retries", "hold", "outcome", "totals"} : p[f] = q[f]

\* A reason to stop leaves the rest of a run alone.
LEMMA StopSame ==
  ASSUME NEW r \in Runs, NEW why \in Stops
  PROVE  GetOrInsert(r, why) \in Runs /\ Same(GetOrInsert(r, why), r)
<1>1. [r EXCEPT !.stop = why] \in Runs /\ Same([r EXCEPT !.stop = why], r) BY DEF Runs, Same
<1> QED BY <1>1 DEF GetOrInsert, Same

\* The count of unanswered commands leaves the rest of a run alone.
LEMMA CountSame ==
  ASSUME NEW r \in Runs, NEW k \in Nat
  PROVE  [r EXCEPT !.unanswered = k] \in Runs /\ Same([r EXCEPT !.unanswered = k], r)
  BY DEF Runs, Same

\* A rule that is not sent, or refused before it is, is told and no longer left.
LEMMA DoneTold ==
  ASSUME NEW r, NEW fl, RunInv(r, fl), r.pc # "idle", r.at \in r.left, NEW w \in Ended
  PROVE  /\ RunInv(Done(Report(r, r.at, w)), fl) /\ Done(Report(r, r.at, w)).pc = "next"
         /\ Done(Report(r, r.at, w)).startedOn = r.startedOn
<1> DEFINE q == Report(r, r.at, w)
           d == Done(q)
<1>1. r \in Runs /\ r.at \in ImportNames /\ r.outcome[r.at] = "none" /\ r.totals = Cardinality(Told(r))
  <2>1. r \in Runs /\ r.at \in ImportNames /\ r.at \in In(r) /\ r.at \notin Told(r) BY DEF RunInv, In
  <2>2. r.outcome[r.at] \in Ended \cup {"none", "out"} BY <2>1 DEF Runs
  <2> QED BY <2>1, <2>2 DEF RunInv, In, Told
<1>2. /\ q \in Runs /\ q.totals = Cardinality(Told(q)) /\ In(q) = In(r) /\ Told(q) = Told(r) \cup {r.at}
      /\ \A f \in {"pc", "left", "at", "startedOn", "before", "stop", "unanswered", "retries", "hold"} : q[f] = r[f]
  BY <1>1, ReportTells
<1> HIDE DEF q
<1>3. d \in Runs /\ d.pc = "next" /\ d.left = q.left \ {q.at} /\ d.outcome = q.outcome /\ d.totals = q.totals
      /\ d.hold = q.hold /\ d.startedOn = q.startedOn
  BY Zenon, <1>2 DEF Done, Runs, Pcs
<1> HIDE DEF d
<1>4. In(d) = In(q) /\ Told(d) = Told(q) BY <1>3 DEF In, Told
<1>5. q.left = r.left /\ q.at = r.at /\ q.hold = r.hold /\ q.startedOn = r.startedOn BY <1>2
<1>6. RunInv(d, fl) BY <1>2, <1>3, <1>4, <1>5 DEF RunInv
<1> QED BY <1>3, <1>5, <1>6 DEF d, q

\* A rule that is sent is in flight.
LEMMA DoneSent ==
  ASSUME NEW r, NEW fl, RunInv(r, fl), r.pc # "idle", r.at \in r.left
  PROVE  RunInv(Done(r), fl \cup {r.at}) /\ Done(r).pc = "next" /\ Done(r).startedOn = r.startedOn
<1> DEFINE d == Done(r)
<1>1. r \in Runs BY DEF RunInv
<1>2. d \in Runs /\ d.pc = "next" /\ d.left = r.left \ {r.at} /\ d.outcome = r.outcome /\ d.totals = r.totals
      /\ d.hold = r.hold /\ d.startedOn = r.startedOn
  BY Zenon, <1>1 DEF Done, Runs, Pcs
<1> HIDE DEF d
<1>3. In(d) = In(r) /\ Told(d) = Told(r) BY <1>2 DEF In, Told
<1>4. RunInv(d, fl \cup {r.at}) BY <1>2, <1>3 DEF RunInv
<1> QED BY <1>2, <1>4 DEF d

\* The loop's place, the place in it and the retries are all that is set.
LEMMA OnlyPlace ==
  ASSUME NEW r, NEW fl, RunInv(r, fl), r.pc # "idle", NEW q \in Runs, q.pc # "idle",
         q.pc \in {"claim", "send", "retry"} => q.at \in q.left,
         q.left = r.left, q.hold = r.hold, q.outcome = r.outcome, q.totals = r.totals
  PROVE  RunInv(q, fl)
<1>1. In(q) = In(r) /\ Told(q) = Told(r) BY DEF In, Told
<1> QED BY <1>1 DEF RunInv

\* settle_one: the reply of a command in flight is told.
LEMMA SettledTold ==
  ASSUME NEW r, NEW fl, RunInv(r, fl), NEW n \in fl
  PROVE  /\ RunInv(Settled(r, n), fl \ {n})
         /\ \A f \in {"pc", "left", "at", "startedOn", "hold"} : Settled(r, n)[f] = r[f]
<1> DEFINE w == CASE replies[n] = "ok" -> "applied" [] replies[n] = "rejected" -> "rejected" [] OTHER -> "no_answer"
           r1 == Report(r, n, w)
           r2 == IF replies[n] = "closed" THEN GetOrInsert(r1, "closed") ELSE r1
           s == Settled(r, n)
<1>1. w \in Ended BY DEF Ended
<1> HIDE DEF w
<1>2. n \in ImportNames /\ r \in Runs /\ r.outcome[n] = "none" /\ r.totals = Cardinality(Told(r))
  <2>1. r \in Runs /\ n \in ImportNames /\ n \in In(r) /\ n \notin Told(r) BY DEF RunInv, In
  <2>2. r.outcome[n] \in Ended \cup {"none", "out"} BY <2>1 DEF Runs
  <2> QED BY <2>1, <2>2 DEF RunInv, In, Told
<1>3. /\ r1 \in Runs /\ r1.totals = Cardinality(Told(r1)) /\ In(r1) = In(r) /\ Told(r1) = Told(r) \cup {n}
      /\ \A f \in {"pc", "left", "at", "startedOn", "before", "stop", "unanswered", "retries", "hold"} : r1[f] = r[f]
  BY <1>1, <1>2, ReportTells
<1> HIDE DEF r1
<1>4. s = IF replies[n] \in {"ok", "rejected"} THEN [r2 EXCEPT !.unanswered = 0]
          ELSE IF r2.unanswered + 1 >= MaxUnansweredInARow
               THEN GetOrInsert([r2 EXCEPT !.unanswered = MaxUnansweredInARow], "not answering")
               ELSE [r2 EXCEPT !.unanswered = @ + 1]
  BY DEF Settled, r1, w
<1>5. r2 \in Runs /\ Same(r2, r1)
  <2>1. "closed" \in Stops BY DEF Stops
  <2>2. GetOrInsert(r1, "closed") \in Runs /\ Same(GetOrInsert(r1, "closed"), r1) BY <1>3, <2>1, StopSame
  <2> QED BY <1>3, <2>2 DEF Same
<1> HIDE DEF r2, s
<1>6. s \in Runs /\ Same(s, r2)
  <2>1. MaxUnansweredInARow \in Nat /\ r2.unanswered \in Nat BY <1>5, ImportAssumption DEF Runs
  <2> DEFINE t == [r2 EXCEPT !.unanswered = MaxUnansweredInARow]
             k == r2.unanswered + 1
  <2>2. t \in Runs /\ Same(t, r2) BY <1>5, <2>1, CountSame
  <2>3. [r2 EXCEPT !.unanswered = 0] \in Runs /\ Same([r2 EXCEPT !.unanswered = 0], r2) BY <1>5, CountSame
  <2>4. [r2 EXCEPT !.unanswered = k] \in Runs /\ Same([r2 EXCEPT !.unanswered = k], r2)
    <3>1. k \in Nat BY <2>1
    <3> HIDE DEF k
    <3> QED BY <1>5, <3>1, CountSame
  <2>5. GetOrInsert(t, "not answering") \in Runs /\ Same(GetOrInsert(t, "not answering"), t)
    <3>1. "not answering" \in Stops BY DEF Stops
    <3> HIDE DEF t
    <3> QED BY Zenon, <2>2, <3>1, StopSame
  <2>6. s \in {[r2 EXCEPT !.unanswered = 0], GetOrInsert(t, "not answering"), [r2 EXCEPT !.unanswered = k]}
    BY Zenon, <1>4
  <2> HIDE DEF t, k
  <2> QED BY ZenonT(30), <2>2, <2>3, <2>4, <2>5, <2>6 DEF Same
<1>7. Same(s, r1) BY <1>5, <1>6 DEF Same
<1>8. In(s) = In(r1) /\ Told(s) = Told(r1) BY <1>7 DEF In, Told, Same
<1>9. \A f \in {"pc", "left", "at", "startedOn", "hold"} : s[f] = r[f] BY <1>3, <1>7 DEF Same
<1>10. s.totals = r1.totals BY <1>7 DEF Same
<1>11. s.pc = r.pc /\ s.left = r.left /\ s.at = r.at /\ s.hold = r.hold BY <1>9
<1>12. RunInv(s, fl \ {n})
  BY <1>3, <1>6, <1>8, <1>10, <1>11 DEF RunInv
<1> QED BY <1>9, <1>12 DEF s

-----------------------------------------------------------------------------
\* The rules sent to another stream than the one the import was started on
Elsewhere == {n \in ImportNames : sentOn[n].sent /\ sentOn[n].generation # importRun.startedOn}

ImportInv ==
  /\ RunInv(importRun, InFlight)
  /\ imports > 0 /\ importRun.pc = "idle" /\ importRun.stop # "died" => In(importRun) \subseteq Told(importRun)
  /\ ruleList \in [ImportNames -> Nat] /\ preview.before \in [ImportNames -> Nat]
  /\ listChanges \in Nat /\ DOMAIN stream = {"generation", "open"}
  /\ stream.generation \in Nat /\ importRun.startedOn <= stream.generation
  /\ DOMAIN sentOn = ImportNames
  /\ \A n, m \in Elsewhere : n = m
  /\ Elsewhere # {} => stream.generation # importRun.startedOn
  /\ importRun.pc \in {"claim", "send", "retry"} => Elsewhere = {}

\* A step that changes the run alone.
LEMMA ImportFrame ==
  ASSUME ImportInv, UNCHANGED <<ruleList, listChanges, preview, stream, sentOn, imports>>,
         RunInv(importRun', InFlight'), importRun'.startedOn = importRun.startedOn,
         importRun'.pc = "idle" /\ importRun'.stop # "died" => In(importRun') \subseteq Told(importRun'),
         importRun'.pc \in {"claim", "send", "retry"} => Elsewhere = {}
  PROVE  ImportInv'
<1>1. Elsewhere' = Elsewhere BY DEF Elsewhere
<1> QED BY <1>1 DEF ImportInv

\* Starting an import.
LEMMA ImportOfStart ==
  ASSUME ImportInv, NEW include \in SUBSET ImportNames, ApplyStarts(include)
  PROVE  ImportInv'
<1> DEFINE o == [n \in ImportNames |-> IF n \in include THEN "none" ELSE "out"]
           r == importRun'
<1>1. r = [pc |-> "next", left |-> include, at |-> 0, startedOn |-> stream.generation, before |-> preview.before,
           stop |-> "none", unanswered |-> 0, retries |-> 0, hold |-> TRUE, outcome |-> o, totals |-> 0]
  BY Zenon DEF ApplyStarts, NoRun
<1>2. o \in [ImportNames -> Ended \cup {"none", "out"}] /\ \A n \in ImportNames : (o[n] # "out" <=> n \in include) /\ o[n] \notin Ended
  BY DEF Ended
<1> HIDE DEF o
<1>3. r \in Runs BY <1>1, <1>2 DEF Runs, Pcs, Stops, ImportInv
<1>4. r.pc = "next" /\ r.left = include /\ r.startedOn = stream.generation /\ r.hold = TRUE /\ r.outcome = o /\ r.totals = 0
  BY <1>1
<1> HIDE DEF r
<1>5. In(r) = include /\ Told(r) = {} BY <1>2, <1>4 DEF In, Told
<1>6. Cardinality({}) = 0 BY FS_EmptySet
<1>7. InFlight' = {}
  <2>1. importRun.pc = "idle" BY DEF ApplyStarts, Running
  <2> QED BY <2>1 DEF ApplyStarts, ImportInv, RunInv, InFlight
<1>8. RunInv(r, InFlight') BY <1>3, <1>4, <1>5, <1>6, <1>7 DEF RunInv
<1>9. sentOn' = NeverSent /\ preview' = NoPreview /\ UNCHANGED <<ruleList, listChanges, stream>>
  BY DEF ApplyStarts, world
<1>10. Elsewhere' = {} /\ DOMAIN sentOn' = ImportNames
  BY <1>9 DEF Elsewhere, NeverSent
<1>11. preview'.before \in [ImportNames -> Nat] BY <1>9 DEF NoPreview
<1> QED BY <1>4, <1>8, <1>9, <1>10, <1>11 DEF ImportInv, r

\* The run's own steps.
LEMMA ImportOfRun ==
  ASSUME ImportInv, ChecksRule \/ ClaimsRule \/ WaitsToRetry \/ Finishes \/ RunDies
  PROVE  ImportInv'
<1>0. importRun \in Runs /\ RunInv(importRun, InFlight) BY DEF ImportInv, RunInv
<1>1. "not_sent" \in Ended /\ "rejected" \in Ended /\ "reconnected" \in Stops /\ "died" \in Stops BY DEF Ended, Stops
<1>2. CASE ChecksRule
  <2> DEFINE n == FirstOf(importRun.left)
             s == StopReason(importRun)
             r == [s EXCEPT !.at = n]
  <2>1. n \in importRun.left
    <3>1. importRun.left \in SUBSET ImportNames /\ importRun.left # {} BY <1>0, <1>2 DEF ChecksRule, Runs
    <3> QED BY <3>1, FirstIsLeft
  <2>2. UNCHANGED <<ruleList, listChanges, preview, stream, sentOn, imports>> /\ InFlight' = InFlight /\ importRun.pc = "next"
    BY <1>2 DEF ChecksRule, world, InFlight
  <2>3. \/ importRun' \in {NotSent(r), Done(Report(r, r.at, "rejected"))}
        \/ importRun' = To(r, "claim") /\ r.stop = "none"
    BY <1>2 DEF ChecksRule, StopsAll
  <2>4. RunInv(s, InFlight) /\ s.pc = "next" /\ s.left = importRun.left /\ s.startedOn = importRun.startedOn
        /\ (stream.generation # importRun.startedOn => s.stop # "none")
    <3> DEFINE q == [importRun EXCEPT !.stop = "reconnected"]
    <3>1. RunInv(q, InFlight) /\ q.stop = "reconnected" /\ q.pc = importRun.pc /\ q.left = importRun.left /\ q.startedOn = importRun.startedOn
      BY <1>0, <1>1, OnlyStop
    <3>2. s = IF stream.generation # importRun.startedOn THEN (IF importRun.stop = "none" THEN q ELSE importRun) ELSE importRun
      BY DEF StopReason, GetOrInsert
    <3> HIDE DEF q, s
    <3> QED BY <1>0, <2>2, <3>1, <3>2
  <2> HIDE DEF n, s
  <2>5. RunInv(r, InFlight) /\ r.pc = "next" /\ r.at = n /\ r.left = importRun.left /\ r.startedOn = importRun.startedOn /\ r.stop = s.stop
    <3>1. s \in Runs /\ n \in Nat
      <4>1. n \in ImportNames BY <1>0, <2>1 DEF Runs
      <4> QED BY <2>4, <4>1, ImportAssumption DEF RunInv, ImportNames
    <3>2. r \in Runs /\ \A f \in {"pc", "left", "startedOn", "stop", "hold", "outcome", "totals"} : r[f] = s[f]
      BY <3>1 DEF Runs
    <3>3. r.at = n BY <3>1 DEF Runs
    <3> HIDE DEF r
    <3>4. r.pc = s.pc /\ r.left = s.left /\ r.hold = s.hold /\ r.outcome = s.outcome /\ r.totals = s.totals
      BY <3>2
    <3>5. RunInv(r, InFlight)
      BY Zenon, <2>4, <3>2, <3>4, OnlyPlace
    <3> QED BY <2>4, <3>2, <3>3, <3>4, <3>5
  <2> HIDE DEF r
  <2>6. CASE importRun' \in {NotSent(r), Done(Report(r, r.at, "rejected"))}
    <3>1. RunInv(importRun', InFlight) /\ importRun'.pc = "next" /\ importRun'.startedOn = importRun.startedOn
      BY <1>1, <2>1, <2>5, <2>6, DoneTold DEF NotSent
    <3> QED BY Zenon, <2>2, <3>1, ImportFrame
  <2>7. CASE importRun' = To(r, "claim") /\ r.stop = "none"
    <3> DEFINE q == To(r, "claim")
    <3>1. r \in Runs BY <2>5 DEF RunInv
    <3>2. q \in Runs /\ q.pc = "claim" /\ \A f \in {"left", "at", "startedOn", "hold", "outcome", "totals"} : q[f] = r[f]
      BY <3>1 DEF To, Runs, Pcs
    <3> HIDE DEF q
    <3>3. q.left = r.left /\ q.at = r.at /\ q.startedOn = r.startedOn /\ q.hold = r.hold /\ q.outcome = r.outcome /\ q.totals = r.totals
      BY <3>2
    <3>4. RunInv(q, InFlight) BY Zenon, <2>1, <2>5, <3>2, <3>3, OnlyPlace
    <3>5. Elsewhere = {} BY <2>4, <2>5, <2>7 DEF ImportInv
    <3>6. importRun' = q BY <2>7 DEF q
    <3> QED BY Zenon, <2>2, <2>5, <3>2, <3>3, <3>4, <3>5, <3>6, ImportFrame
  <2> QED BY <2>3, <2>6, <2>7
<1>3. CASE ClaimsRule
  <2>1. UNCHANGED <<ruleList, listChanges, preview, stream, sentOn, imports>> /\ InFlight' = InFlight /\ importRun.pc = "claim"
    BY <1>3 DEF ClaimsRule, world, InFlight
  <2>2. importRun.at \in importRun.left /\ Elsewhere = {} BY <2>1 DEF ImportInv, RunInv
  <2>3. CASE importRun' = NotSent(importRun)
    <3>1. RunInv(importRun', InFlight) /\ importRun'.pc = "next" /\ importRun'.startedOn = importRun.startedOn
      BY Zenon, <1>0, <1>1, <2>1, <2>2, <2>3, DoneTold DEF NotSent
    <3> QED BY Zenon, <2>1, <3>1, ImportFrame
  <2>4. CASE importRun' = [To(importRun, "send") EXCEPT !.retries = 0]
    <3> DEFINE q == [To(importRun, "send") EXCEPT !.retries = 0]
    <3>1. q \in Runs /\ q.pc = "send" /\ \A f \in {"left", "at", "startedOn", "hold", "outcome", "totals"} : q[f] = importRun[f]
      BY Zenon, <1>0 DEF To, Runs, Pcs
    <3> HIDE DEF q
    <3>2. q.left = importRun.left /\ q.at = importRun.at /\ q.startedOn = importRun.startedOn /\ q.hold = importRun.hold
          /\ q.outcome = importRun.outcome /\ q.totals = importRun.totals
      BY <3>1
    <3>3. RunInv(q, InFlight) BY <1>0, <2>1, <2>2, <3>1, <3>2, OnlyPlace
    <3>4. importRun' = q BY <2>4 DEF q
    <3> QED BY <2>1, <2>2, <3>1, <3>2, <3>3, <3>4, ImportFrame
  <2> QED BY <1>3, <2>3, <2>4 DEF ClaimsRule
<1>4. CASE WaitsToRetry
  <2>1. UNCHANGED <<ruleList, listChanges, preview, stream, sentOn, imports>> /\ InFlight' = InFlight /\ importRun.pc = "retry"
    BY <1>4 DEF WaitsToRetry, world, InFlight
  <2>2. importRun.at \in importRun.left /\ Elsewhere = {} BY <2>1 DEF ImportInv, RunInv
  <2>3. CASE importRun' = NotSent(importRun)
    <3>1. RunInv(importRun', InFlight) /\ importRun'.pc = "next" /\ importRun'.startedOn = importRun.startedOn
      BY Zenon, <1>0, <1>1, <2>1, <2>2, <2>3, DoneTold DEF NotSent
    <3> QED BY Zenon, <2>1, <3>1, ImportFrame
  <2>4. CASE importRun' = To(importRun, "send")
    <3> DEFINE q == To(importRun, "send")
    <3>1. q \in Runs /\ q.pc = "send" /\ \A f \in {"left", "at", "startedOn", "hold", "outcome", "totals"} : q[f] = importRun[f]
      BY <1>0 DEF To, Runs, Pcs
    <3> HIDE DEF q
    <3>2. q.left = importRun.left /\ q.at = importRun.at /\ q.startedOn = importRun.startedOn /\ q.hold = importRun.hold
          /\ q.outcome = importRun.outcome /\ q.totals = importRun.totals
      BY <3>1
    <3>3. RunInv(q, InFlight) BY <1>0, <2>1, <2>2, <3>1, <3>2, OnlyPlace
    <3>4. importRun' = q BY <2>4 DEF q
    <3> QED BY <2>1, <2>2, <3>1, <3>2, <3>3, <3>4, ImportFrame
  <2> QED BY <1>4, <2>3, <2>4 DEF WaitsToRetry
<1>5. ASSUME NEW r, NEW fl, RunInv(r, fl) PROVE Ends(r) \in Runs /\ Ends(r).pc = "idle" /\ RunInv(Ends(r), {})
             /\ In(Ends(r)) = In(r) /\ Told(Ends(r)) = Told(r) /\ Ends(r).startedOn = r.startedOn /\ Ends(r).stop = r.stop
  <2> DEFINE e == Ends(r)
  <2>1. r \in Runs BY <1>5 DEF RunInv
  <2>2. e \in Runs /\ e.pc = "idle" /\ e.hold = FALSE /\ e.left = r.left /\ e.outcome = r.outcome /\ e.totals = r.totals
        /\ e.startedOn = r.startedOn /\ e.stop = r.stop
    BY Zenon, <2>1 DEF Ends, Runs, Pcs
  <2> HIDE DEF e
  <2>3. In(e) = In(r) /\ Told(e) = Told(r) BY <2>2 DEF In, Told
  <2>4. RunInv(e, {}) BY <1>5, <2>2, <2>3 DEF RunInv
  <2> QED BY <2>2, <2>3, <2>4 DEF e
<1>6. CASE Finishes
  <2>1. UNCHANGED <<ruleList, listChanges, preview, stream, sentOn, imports>> /\ InFlight' = {} /\ InFlight = {} /\ importRun.pc = "next" /\ importRun.left = {}
        /\ importRun' = Ends(importRun)
    BY <1>6 DEF Finishes, world, InFlight
  <2>2. RunInv(importRun', InFlight') /\ importRun'.pc = "idle" /\ importRun'.startedOn = importRun.startedOn
        /\ In(importRun') = In(importRun) /\ Told(importRun') = Told(importRun)
    BY <1>0, <1>5, <2>1
  <2>3. In(importRun) \subseteq Told(importRun) BY Zenon, <1>0, <2>1 DEF RunInv
  <2> QED BY <2>1, <2>2, <2>3, ImportFrame
<1>7. CASE RunDies
  <2> DEFINE d == [importRun EXCEPT !.stop = "died"]
  <2>1. UNCHANGED <<ruleList, listChanges, preview, stream, sentOn, imports>> /\ InFlight' = {} /\ importRun' = Ends(d)
    BY <1>7 DEF RunDies, world, InFlight
  <2>2. RunInv(d, InFlight) /\ d.stop = "died" /\ d.startedOn = importRun.startedOn BY <1>0, <1>1, OnlyStop
  <2> HIDE DEF d
  <2>3. RunInv(importRun', InFlight') /\ importRun'.pc = "idle" /\ importRun'.startedOn = importRun.startedOn /\ importRun'.stop = "died"
    BY <1>5, <2>1, <2>2
  <2> QED BY <2>1, <2>3, ImportFrame
<1> QED BY Zenon, <1>2, <1>3, <1>4, <1>6, <1>7

\* Sending a rule: only the one that was past its check may go to another stream.
LEMMA ImportOfSend ==
  ASSUME ImportInv, SendsRule
  PROVE  ImportInv'
<1> DEFINE n == importRun.at
<1>0. importRun \in Runs /\ RunInv(importRun, InFlight) /\ importRun.pc = "send" BY Zenon DEF ImportInv, RunInv, SendsRule
<1>1. "not_sent" \in Ended /\ "no daemon" \in Stops BY Zenon DEF Ended, Stops
<1>2. n \in importRun.left /\ n \in ImportNames /\ Elsewhere = {} BY <1>0 DEF ImportInv, RunInv, Runs
<1>3. UNCHANGED <<ruleList, listChanges, stream, preview, imports>> BY Zenon DEF SendsRule, world
<1>4. CASE /\ ~stream.open /\ importRun' = NotSent([importRun EXCEPT !.stop = "no daemon"])
           /\ UNCHANGED <<replies, sentOn>>
  <2> DEFINE q == [importRun EXCEPT !.stop = "no daemon"]
  <2>1. RunInv(q, InFlight) /\ q.pc = "send" /\ q.left = importRun.left /\ q.at = n /\ q.startedOn = importRun.startedOn
    BY Zenon, <1>0, <1>1, OnlyStop
  <2> HIDE DEF q
  <2>2. importRun' = Done(Report(q, q.at, "not_sent")) /\ InFlight' = InFlight BY Zenon, <1>4 DEF NotSent, q, InFlight
  <2>3. RunInv(importRun', InFlight') /\ importRun'.pc = "next" /\ importRun'.startedOn = importRun.startedOn
    BY Zenon, <1>1, <1>2, <2>1, <2>2, DoneTold
  <2> QED BY Zenon, <1>3, <1>4, <2>3, ImportFrame
<1>5. CASE stream.open /\ importRun' = QueueFull(importRun) /\ UNCHANGED <<replies, sentOn>>
  <2>0. InFlight' = InFlight BY <1>5 DEF InFlight
  <2>1. CASE importRun' = NotSent(importRun)
    <3>1. RunInv(importRun', InFlight') /\ importRun'.pc = "next" /\ importRun'.startedOn = importRun.startedOn
      BY ZenonT(30), <1>0, <1>1, <1>2, <2>0, <2>1, DoneTold DEF NotSent
    <3> QED BY <1>3, <1>5, <3>1, ImportFrame
  <2>2. CASE importRun' = [To(importRun, "retry") EXCEPT !.retries = @ + 1]
    <3> DEFINE q == [To(importRun, "retry") EXCEPT !.retries = @ + 1]
    <3>1. q \in Runs /\ q.pc = "retry" /\ \A f \in {"left", "at", "startedOn", "hold", "outcome", "totals"} : q[f] = importRun[f]
      <4>1. To(importRun, "retry") \in Runs /\ To(importRun, "retry").pc = "retry"
            /\ \A f \in {"left", "at", "startedOn", "hold", "outcome", "totals"} : To(importRun, "retry")[f] = importRun[f]
        BY <1>0 DEF To, Runs, Pcs
      <4> DEFINE t == To(importRun, "retry")
                 k == t.retries + 1
      <4>2. q = [t EXCEPT !.retries = k] /\ k \in Nat /\ t \in Runs BY <4>1 DEF Runs
      <4> HIDE DEF q, t, k
      <4>3. q \in Runs /\ q.pc = t.pc /\ \A f \in {"left", "at", "startedOn", "hold", "outcome", "totals"} : q[f] = t[f]
        BY <4>2 DEF Runs
      <4> QED BY <4>1, <4>3 DEF t
    <3> HIDE DEF q
    <3>2. q.left = importRun.left /\ q.at = importRun.at /\ q.startedOn = importRun.startedOn /\ q.hold = importRun.hold
          /\ q.outcome = importRun.outcome /\ q.totals = importRun.totals
      BY <3>1
    <3>3. RunInv(q, InFlight) BY <1>0, <1>2, <3>1, <3>2, OnlyPlace
    <3>4. importRun' = q BY Zenon, <2>2 DEF q
    <3> QED BY Zenon, <1>2, <1>3, <1>5, <2>0, <3>1, <3>2, <3>3, <3>4, ImportFrame
  <2> QED BY <1>5, <2>1, <2>2 DEF QueueFull
<1>6. CASE /\ stream.open /\ importRun' = Done(importRun)
           /\ replies' = [m \in InFlight \cup {n} |-> IF m = n THEN "waits" ELSE replies[m]]
           /\ sentOn' = [sentOn EXCEPT ![n] = [sent |-> TRUE, generation |-> stream.generation,
                                               over |-> ruleList[n], retried |-> importRun.retries > 0]]
  <2>1. InFlight' = InFlight \cup {n} BY Zenon, <1>6 DEF InFlight
  <2>2. RunInv(importRun', InFlight') /\ importRun'.pc = "next" /\ importRun'.startedOn = importRun.startedOn
    BY <1>0, <1>2, <1>6, <2>1, DoneSent
  <2>3. DOMAIN sentOn' = ImportNames /\ sentOn'[n].generation = stream.generation
        /\ \A m \in ImportNames : m # n => sentOn'[m] = sentOn[m]
    BY ZenonT(30), <1>2, <1>6 DEF ImportInv
  <2>4. Elsewhere' \subseteq {n} BY <1>2, <2>2, <2>3 DEF Elsewhere
  <2>5. Elsewhere' # {} => stream.generation # importRun.startedOn
    <3>1. Elsewhere' # {} => n \in Elsewhere' BY <2>4
    <3> QED BY <2>2, <2>3, <3>1 DEF Elsewhere
  <2> HIDE DEF n
  <2> QED BY Zenon, <1>3, <2>2, <2>3, <2>4, <2>5 DEF ImportInv
<1> QED BY Zenon, <1>4, <1>5, <1>6 DEF SendsRule

\* Awaiting a reply; before a retry, the run may have to stop.
LEMMA ImportOfReply ==
  ASSUME ImportInv, NEW n \in ImportNames, SettlesOne(n)
  PROVE  ImportInv'
<1> DEFINE s == Settled(importRun, n)
<1>0. importRun \in Runs /\ RunInv(importRun, InFlight) /\ n \in InFlight BY DEF ImportInv, RunInv, SettlesOne
<1>1. UNCHANGED <<ruleList, listChanges, preview, stream, sentOn, imports>> /\ importRun.pc \in {"next", "retry"} BY DEF SettlesOne, world
<1>2. InFlight' = InFlight \ {n}
  <2>1. replies' = [m \in InFlight \ {n} |-> replies[m]] BY DEF SettlesOne
  <2> QED BY Zenon, <2>1 DEF InFlight
<1>3. importRun' = IF s.pc # "retry" THEN s ELSE IF s.stop # "none" THEN NotSent(s) ELSE To(s, "send")
  BY Zenon DEF SettlesOne
<1>4. RunInv(s, InFlight') /\ s.pc = importRun.pc /\ s.left = importRun.left /\ s.at = importRun.at /\ s.startedOn = importRun.startedOn
  <2>1. /\ RunInv(s, InFlight \ {n})
        /\ \A f \in {"pc", "left", "at", "startedOn", "hold"} : s[f] = importRun[f]
    BY Zenon, <1>0, SettledTold
  <2> HIDE DEF s
  <2> QED BY <1>2, <2>1
<1> HIDE DEF s
<1>5. CASE s.pc # "retry"
  BY <1>1, <1>3, <1>4, <1>5, ImportFrame
<1>6. CASE s.pc = "retry"
  <2>1. s.at \in s.left /\ Elsewhere = {} /\ s \in Runs BY <1>4, <1>6 DEF ImportInv, RunInv
  <2>2. CASE s.stop # "none"
    <3>1. "not_sent" \in Ended BY DEF Ended
    <3>2. importRun' = Done(Report(s, s.at, "not_sent")) BY Zenon, <1>3, <1>6, <2>2 DEF NotSent
    <3>3. RunInv(importRun', InFlight') /\ importRun'.pc = "next" /\ importRun'.startedOn = importRun.startedOn
      BY Zenon, <1>4, <1>6, <2>1, <3>1, <3>2, DoneTold
    <3> QED BY <1>1, <3>3, ImportFrame
  <2>3. CASE s.stop = "none"
    <3> DEFINE q == To(s, "send")
    <3>1. q \in Runs /\ q.pc = "send" /\ \A f \in {"left", "at", "startedOn", "hold", "outcome", "totals"} : q[f] = s[f]
      BY <2>1 DEF To, Runs, Pcs
    <3>2. importRun' = q BY <1>3, <1>6, <2>3
    <3> HIDE DEF q
    <3>3. q.left = s.left /\ q.at = s.at /\ q.startedOn = s.startedOn /\ q.hold = s.hold
          /\ q.outcome = s.outcome /\ q.totals = s.totals
      BY Zenon, <3>1
    <3>4. RunInv(q, InFlight') BY Zenon, <1>4, <1>6, <2>1, <3>1, <3>3, OnlyPlace
    <3> QED BY <1>1, <1>4, <2>1, <3>1, <3>2, <3>3, <3>4, ImportFrame
  <2> QED BY Zenon, <2>2, <2>3
<1> QED BY Zenon, <1>5, <1>6

\* What the daemon, the other commands and the page do leaves the run alone.
LEMMA ImportOfWorld ==
  ASSUME ImportInv,
         \/ Preview \/ ApplyStale \/ StreamGoes \/ StreamComes
         \/ \E n \in ImportNames : \/ OtherClaims(n) \/ OtherEnds(n)
                                   \/ \E what \in {"ok", "rejected", "timeout", "closed"} : Replied(n, what)
  PROVE  ImportInv'
<1>1. ASSUME UNCHANGED <<importRun, imports, sentOn>>, InFlight' = InFlight, ruleList' \in [ImportNames -> Nat],
             preview'.before \in [ImportNames -> Nat], stream'.generation \in {stream.generation, stream.generation + 1},
             listChanges' \in {listChanges, listChanges + 1}, DOMAIN stream' = {"generation", "open"}
      PROVE  ImportInv'
  <2>1. Elsewhere' = Elsewhere BY Zenon, <1>1 DEF Elsewhere
  <2>2. importRun.startedOn \in Nat /\ stream.generation \in Nat /\ importRun.startedOn <= stream.generation
    BY DEF ImportInv, RunInv, Runs
  <2>3. stream'.generation \in Nat /\ importRun'.startedOn <= stream'.generation BY <1>1, <2>2
  <2>4. Elsewhere' # {} => stream'.generation # importRun'.startedOn BY <1>1, <2>1, <2>2 DEF ImportInv
  <2> QED BY <1>1, <2>1, <2>3, <2>4 DEF ImportInv
<1>2. /\ ruleList \in [ImportNames -> Nat] /\ preview.before \in [ImportNames -> Nat]
      /\ ImportCount \in Nat /\ MaxListChanges \in Nat
      /\ DOMAIN stream = {"generation", "open"} /\ listChanges \in Nat
  BY Zenon, ImportAssumption DEF ImportInv
<1>3. CASE Preview
  <2>1. UNCHANGED <<importRun, imports, sentOn, ruleList, listChanges, stream>> /\ InFlight' = InFlight /\ preview'.before = ruleList
    BY Zenon, <1>3 DEF Preview, world, InFlight
  <2> QED BY <1>1, <1>2, <2>1
<1>4. CASE ApplyStale
  <2>1. UNCHANGED <<importRun, imports, sentOn, ruleList, listChanges, stream>> /\ InFlight' = InFlight /\ preview'.before = [n \in ImportNames |-> 0]
    BY <1>4 DEF ApplyStale, world, InFlight, NoPreview
  <2> QED BY <1>1, <1>2, <2>1
<1>5. CASE StreamGoes
  <2>1. UNCHANGED <<importRun, imports, sentOn, ruleList, listChanges, preview>> /\ InFlight' = InFlight /\ stream' = [stream EXCEPT !.open = FALSE]
    BY <1>5 DEF StreamGoes, InFlight
  <2>2. stream'.generation = stream.generation /\ DOMAIN stream' = DOMAIN stream BY Zenon, <2>1 DEF ImportInv
  <2> QED BY <1>1, <1>2, <2>1, <2>2
<1>6. CASE StreamComes
  <2>1. UNCHANGED <<importRun, imports, sentOn, listChanges, preview>> /\ InFlight' = InFlight /\ stream'.generation = stream.generation + 1
        /\ DOMAIN stream' = {"generation", "open"}
    BY Zenon, <1>6 DEF StreamComes, InFlight
  <2>2. ruleList' \in [ImportNames -> Nat] BY <1>2, <1>6 DEF StreamComes
  <2> QED BY Zenon, <1>1, <1>2, <2>1, <2>2
<1>7. ASSUME NEW n \in ImportNames, OtherClaims(n) PROVE ImportInv'
  <2>1. UNCHANGED <<importRun, imports, sentOn, preview, stream, ruleList>> /\ InFlight' = InFlight /\ listChanges' = listChanges + 1
    BY <1>7 DEF OtherClaims, InFlight
  <2> QED BY Zenon, <1>1, <1>2, <2>1
<1>8. ASSUME NEW n \in ImportNames, OtherEnds(n) PROVE ImportInv'
  <2>1. UNCHANGED <<importRun, imports, sentOn, listChanges, preview, stream>> /\ InFlight' = InFlight /\ ruleList' = [ruleList EXCEPT ![n] = listChanges]
    BY Zenon, <1>8 DEF OtherEnds, InFlight
  <2> QED BY Zenon, <1>1, <1>2, <2>1 DEF ImportInv
<1>9. ASSUME NEW n \in ImportNames, NEW what \in {"ok", "rejected", "timeout", "closed"}, Replied(n, what) PROVE ImportInv'
  <2>1. UNCHANGED <<importRun, imports, sentOn, listChanges, preview, stream>> /\ InFlight' = InFlight
    BY Zenon, <1>9 DEF Replied, InFlight
  <2>2. ruleList' \in [ImportNames -> Nat] BY <1>2, <1>9 DEF Replied
  <2> QED BY Zenon, <1>1, <1>2, <2>1, <2>2
<1> QED BY Zenon, <1>3, <1>4, <1>5, <1>6, <1>7, <1>8, <1>9

\* ImportInv is kept by every step.
LEMMA ImportStep == ImportInv /\ [ImportNext]_importVars => ImportInv'
<1> SUFFICES ASSUME ImportInv, [ImportNext]_importVars PROVE ImportInv'
  OBVIOUS
<1>1. CASE UNCHANGED importVars
  BY <1>1 DEF importVars, world, ImportInv, InFlight, Elsewhere
<1> QED
  BY Zenon, <1>1, ImportOfStart, ImportOfRun, ImportOfSend, ImportOfReply, ImportOfWorld DEF ImportNext

\* ImportIsExact: whatever is refused, unanswered or changed meanwhile, and wherever the run
\* dies, each rule of an import has at most one outcome and at its end exactly one, the totals
\* are the outcomes', at most one rule is sent to another daemon stream, and the hold on the
\* list goes with the run, for any number of rules, limits and reconnects (apply.rs, run_guard.rs).
THEOREM ImportsAreExact == ImportSpec => []ImportIsExact
<1>1. ImportInit => ImportInv
  <2> SUFFICES ASSUME ImportInit PROVE ImportInv
    OBVIOUS
  <2> DEFINE o == [n \in ImportNames |-> "none"]
             r == importRun
  <2>1. r = [pc |-> "idle", left |-> {}, at |-> 0, startedOn |-> 0, before |-> [n \in ImportNames |-> 0],
             stop |-> "none", unanswered |-> 0, retries |-> 0, hold |-> FALSE, outcome |-> o, totals |-> 0]
    BY DEF ImportInit, NoRun, NoPreview
  <2>2. o \in [ImportNames -> Ended \cup {"none", "out"}] /\ \A n \in ImportNames : o[n] \notin Ended BY DEF Ended
  <2> HIDE DEF o
  <2>3. r \in Runs BY Zenon, <2>1, <2>2 DEF Runs, Pcs, Stops
  <2>4. r.pc = "idle" /\ r.left = {} /\ r.startedOn = 0 /\ r.hold = FALSE /\ r.outcome = o /\ r.totals = 0 BY <2>1
  <2> HIDE DEF r
  <2>5. Told(r) = {} BY <2>2, <2>4 DEF Told
  <2>6. Cardinality({}) = 0 BY FS_EmptySet
  <2>7. InFlight = {} BY DEF ImportInit, InFlight
  <2>8. RunInv(r, InFlight) BY Zenon, <2>3, <2>4, <2>5, <2>6, <2>7 DEF RunInv
  <2>9. Elsewhere = {} /\ DOMAIN sentOn = ImportNames BY DEF ImportInit, Elsewhere, NeverSent
  <2>10. preview.before \in [ImportNames -> Nat] /\ ruleList \in [ImportNames -> Nat] BY DEF ImportInit, NoPreview
  <2>11. stream.generation = 1 /\ DOMAIN stream = {"generation", "open"} /\ listChanges = 0 /\ imports = 0 BY DEF ImportInit
  <2> QED BY <2>4, <2>8, <2>9, <2>10, <2>11 DEF ImportInv, r
<1>2. ImportInv => ImportIsExact
  <2> SUFFICES ASSUME ImportInv PROVE ImportIsExact
    OBVIOUS
  <2> DEFINE told == {n \in Included : importRun.outcome[n] # "none"}
  <2>0. importRun \in Runs /\ RunInv(importRun, InFlight) BY DEF ImportInv, RunInv
  <2>1. told = Told(importRun) /\ Included = In(importRun)
    <3>1. \A n \in ImportNames : importRun.outcome[n] \in Ended \cup {"none", "out"} BY Zenon, <2>0 DEF Runs
    <3> QED BY <3>1 DEF Told, In, Included, Ended
  <2>2. EveryRuleHasItsOutcome
    <3> SUFFICES ASSUME imports > 0
                 PROVE  /\ importRun.totals = Cardinality(told)
                        /\ InFlight \cap told = {}
                        /\ (importRun.pc = "idle" /\ importRun.stop # "died") => told = Included
      BY DEF EveryRuleHasItsOutcome
    <3> HIDE DEF told
    <3>1. Told(importRun) \subseteq In(importRun) BY DEF Told, In, Ended
    <3> QED BY Zenon, <2>0, <2>1, <3>1 DEF ImportInv, RunInv
  <2>3. HeldOnlyWhileRunning BY <2>0 DEF HeldOnlyWhileRunning, Running, RunInv
  <2>4. AtMostOneOnAnotherStream
    <3>1. AtMostOneOnAnotherStream <=> Cardinality(Elsewhere) <= 1 BY DEF AtMostOneOnAnotherStream, Elsewhere
    <3>2. CASE Elsewhere = {}
      <4>1. Cardinality({}) = 0 BY FS_EmptySet
      <4> QED BY <3>1, <3>2, <4>1
    <3>3. CASE Elsewhere # {}
      <4>1. PICK x \in Elsewhere : TRUE BY Zenon, <3>3
      <4>2. Elsewhere = {x} BY <4>1 DEF ImportInv
      <4>3. Cardinality({x}) = 1 BY FS_Singleton
      <4> QED BY <3>1, <4>2, <4>3
    <3> QED BY Zenon, <3>2, <3>3
  <2> QED BY <2>2, <2>3, <2>4 DEF ImportIsExact
<1> QED BY <1>1, <1>2, ImportStep, PTL DEF ImportSpec

-----------------------------------------------------------------------------
(* The active profile *)

\* What the loop noted is what a click is made on; a promise that holds is what is saved,
\* until another network settles and the saved choice is dropped
SwitchInv ==
  /\ choice \in Choice /\ promise \in Choice
  /\ {lastSettled, latest, watch, current} \subseteq AnyNet /\ seen = latest
  /\ lastSettled # NoNet => latest # NoNet
  /\ loop \in {"settle", "observe"} /\ current # NoNet => latest # NoNet
  /\ promise.held => \/ choice = promise
                     \/ /\ ~choice.held /\ promise.network # NoNet
                        /\ ~(settledSince \subseteq {promise.network})
  /\ promise.held /\ promise.network = NoNet => lastSettled = NoNet /\ settledSince = {} /\ choseThisRun
  /\ ProfileIsRight

\* activate and deactivate: the choice is saved for the network that was seen, or not at all.
LEMMA ClickStep ==
  ASSUME SwitchInv, NEW p \in Profiles \cup {0}, active' = p, SaveManualChoice(p), acted' = FALSE,
         UNCHANGED <<profileRows, matchers, lastSettled, latest, loopVars, seen>>
  PROVE  SwitchInv'
<1>1. ChoiceNetwork = seen /\ seen \in AnyNet BY DEF SwitchInv, ChoiceNetwork
<1>2. settledSince' = {} /\ choseThisRun' = TRUE BY DEF SaveManualChoice
<1>3. ~acted' OBVIOUS
<1>4. CASE choice' = [held |-> TRUE, profile |-> p, network |-> ChoiceNetwork]
           /\ promise' = [held |-> TRUE, profile |-> p, network |-> seen]
  <2>1. choice' \in Choice /\ promise' = choice' /\ promise'.profile = p /\ promise'.network = latest
    BY <1>1, <1>4 DEF Choice, SwitchInv
  <2>2. ProfileIsRight' BY Zenon, <1>3, <2>1 DEF ProfileIsRight, ChoiceStands, NetworkDecides
  <2> QED BY Zenon, <1>2, <2>1, <2>2 DEF SwitchInv, loopVars
<1>5. CASE choice' = choice /\ promise' = NoChoice
  <2>1. promise' \in Choice /\ ~promise'.held BY <1>5 DEF Choice, NoChoice, AnyNet
  <2>2. ProfileIsRight' BY <1>3, <2>1 DEF ProfileIsRight, ChoiceStands, NetworkDecides
  <2> QED BY <1>5, <2>1, <2>2 DEF SwitchInv, loopVars
<1> QED BY Zenon, <1>4, <1>5 DEF SaveManualChoice

\* on_network_observed: a choice made on this network, or before any, is kept; any other is
\* dropped, and the network decides.
LEMMA ObservedStep ==
  ASSUME SwitchInv, OnNetworkObserved
  PROVE  SwitchInv'
<1> DEFINE net == current
<1>0. /\ loop = "observe" /\ loop' = "idle" /\ settledSince' = settledSince \cup ({net} \ {NoNet})
      /\ UNCHANGED <<profileRows, matchers, latest, choseThisRun, watch, current, seen>>
  BY Zenon DEF OnNetworkObserved
<1>1. CASE net \in {NoNet, lastSettled} /\ UNCHANGED <<active, choice, lastSettled, promise, acted>>
  <2>1. promise.held /\ promise.network = NoNet => settledSince' = {} BY Zenon, <1>0, <1>1 DEF SwitchInv
  <2>2. ProfileIsRight'
    BY Zenon, <1>0, <1>1 DEF SwitchInv, ProfileIsRight, ChoiceStands, NetworkDecides, FirstMatch
  <2> QED BY Zenon, <1>0, <1>1, <2>1, <2>2 DEF SwitchInv
<1>2. ASSUME net \notin {NoNet, lastSettled}, lastSettled' = net PROVE SwitchInv'
  <2>0. latest # NoNet /\ net \in settledSince' BY Zenon, <1>0, <1>2 DEF SwitchInv
  <2>1. CASE KeepChoice(net)
    <3>1. /\ choice.held /\ choice.network = NoNet /\ ~acted' /\ active' = active
          /\ choice' = [choice EXCEPT !.network = net] /\ promise' = [promise EXCEPT !.network = net]
      BY <2>1 DEF KeepChoice
    <3>2. /\ choice' \in Choice /\ promise' \in Choice /\ promise'.held = promise.held
          /\ promise'.profile = promise.profile /\ promise'.network = net
      BY <3>1 DEF SwitchInv, Choice
    <3>3. promise.held => choice' = promise' /\ settledSince = {} /\ promise.network = NoNet
      BY <3>1 DEF SwitchInv
    <3>4. ProfileIsRight'
      BY Zenon, <3>1, <3>2, <3>3 DEF SwitchInv, ProfileIsRight, ChoiceStands, NetworkDecides
    <3> QED BY <1>0, <1>2, <2>0, <3>2, <3>3, <3>4 DEF SwitchInv
  <2>2. CASE HoldChoice(net)
    <3>1. choice.held /\ choice.network = net /\ ~acted' /\ UNCHANGED <<choice, active, promise>>
      BY Zenon, <2>2 DEF HoldChoice
    <3>2. promise.held => promise = choice BY <3>1 DEF SwitchInv
    <3>3. ProfileIsRight' BY ZenonT(30), <1>0, <3>1 DEF SwitchInv, ProfileIsRight, ChoiceStands, NetworkDecides
    <3> QED BY Zenon, <1>0, <1>2, <2>0, <3>1, <3>2, <3>3 DEF SwitchInv
  <2>3. CASE Switch(net)
    <3>1. /\ choice.held => choice.network # net /\ ~(choice.network = NoNet /\ choseThisRun)
          /\ choice' = NoChoice /\ promise' = promise
          /\ active' = IF FirstMatch(net) = 0 THEN active ELSE FirstMatch(net)
      BY <2>3 DEF Switch
    <3>2. choice' \in Choice /\ ~choice'.held BY <3>1 DEF Choice, NoChoice, AnyNet
    <3>3. promise.held => promise.network # NoNet /\ ~(settledSince' \subseteq {promise.network})
      <4>1. CASE choice = promise BY Zenon, <2>0, <3>1, <4>1 DEF SwitchInv
      <4>2. CASE choice # promise BY Zenon, <1>0, <4>2 DEF SwitchInv
      <4> QED BY Zenon, <4>1, <4>2
    <3>4. FirstMatch(net)' = FirstMatch(net) BY <1>0 DEF FirstMatch
    <3>5. ProfileIsRight'
      BY Zenon, <1>0, <1>2, <3>1, <3>2, <3>3, <3>4 DEF ProfileIsRight, ChoiceStands, NetworkDecides
    <3> QED BY Zenon, <1>0, <1>2, <2>0, <3>1, <3>2, <3>3, <3>5 DEF SwitchInv
  <2>4. CASE GiveUp(net)
    <3>1. /\ choice' = choice \/ (choice.network # net /\ ~(choice.network = NoNet /\ choseThisRun)
                                  /\ choice' = NoChoice)
          /\ promise' = IF promise.network = NoNet THEN NoChoice ELSE promise
          /\ ~acted' /\ active' = active
      BY <2>4 DEF GiveUp
    <3>2. NoChoice \in Choice /\ ~NoChoice.held BY Zenon DEF Choice, NoChoice, AnyNet
    <3>3. promise'.held => /\ promise' = promise /\ promise.network # NoNet
                           /\ \/ choice' = promise'
                              \/ ~choice'.held /\ ~(settledSince' \subseteq {promise.network})
      BY <1>0, <2>0, <3>1, <3>2 DEF SwitchInv
    <3>4. ProfileIsRight' BY Zenon, <1>0, <3>1, <3>3 DEF SwitchInv, ProfileIsRight, ChoiceStands, NetworkDecides
    <3> QED BY Zenon, <1>0, <1>2, <2>0, <3>1, <3>2, <3>3, <3>4 DEF SwitchInv
  <2> QED BY Zenon, <1>2, <2>1, <2>2, <2>3, <2>4 DEF OnNetworkObserved
<1> QED BY <1>1, <1>2 DEF OnNetworkObserved

\* A saved click stands until another network settles, over failures of the store and
\* restarts; where none stands, the profile that matches the network is active (activate,
\* on_network_observed, delete_profile).
THEOREM ProfileStaysRight == SwitchSpec => []ProfileIsRight
<1>1. SwitchInit => SwitchInv
  BY DEF SwitchInit, SwitchInv, Choice, NoChoice, AnyNet, ProfileIsRight, ChoiceStands, NetworkDecides
<1>2. SwitchInv /\ [SwitchNext]_switchVars => SwitchInv'
  <2> SUFFICES ASSUME SwitchInv, [SwitchNext]_switchVars PROVE SwitchInv' OBVIOUS
  <2>1. ASSUME NEW p \in Profiles, Activate(p) PROVE SwitchInv'
    BY Zenon, <2>1, ClickStep DEF Activate
  <2>2. CASE Deactivate BY Zenon, <2>2, ClickStep DEF Deactivate
  <2>3. ASSUME NEW p \in Profiles, DeleteProfile(p) PROVE SwitchInv'
    <3>1. /\ active' = (IF active = p THEN 0 ELSE active) /\ ~acted'
          /\ choice' = choice \/ choice' = IF choice.held /\ choice.profile = p THEN NoChoice ELSE choice
          /\ promise' = IF promise.profile = p THEN NoChoice ELSE promise
          /\ UNCHANGED <<seenVars, loopVars, settledSince, seen>>
      BY <2>3 DEF DeleteProfile
    <3>2. NoChoice \in Choice /\ ~NoChoice.held BY DEF Choice, NoChoice, AnyNet
    <3>3. ProfileIsRight' BY Zenon, <3>1, <3>2 DEF SwitchInv, ProfileIsRight, ChoiceStands, NetworkDecides
    <3> QED BY Zenon, <3>1, <3>2, <3>3 DEF SwitchInv, seenVars, loopVars
  <2>4. ASSUME NEW p \in Profiles, NEW nets \in SUBSET Networks, SaveProfile(p, nets) PROVE SwitchInv'
    <3>1. ~acted' /\ UNCHANGED <<active, choice, seenVars, loopVars, promise, settledSince, seen>>
      BY <2>4 DEF SaveProfile
    <3> QED BY Zenon, <3>1 DEF SwitchInv, seenVars, loopVars, ProfileIsRight, ChoiceStands, NetworkDecides
  <2>5. CASE OnNetworkObserved BY <2>5, ObservedStep
  <2>6. CASE RestartBridge
    <3>1. /\ promise' = (IF promise.network = NoNet THEN NoChoice ELSE promise) /\ ~acted'
          /\ lastSettled' = NoNet /\ latest' = NoNet /\ seen' = NoNet /\ loop' = "start" /\ current' = NoNet
          /\ watch' \in {watch, NoNet} /\ UNCHANGED <<active, choice, settledSince>>
      BY Zenon, <2>6 DEF RestartBridge, storeVars
    <3>2. NoChoice \in Choice /\ ~NoChoice.held /\ NoNet \in AnyNet BY Zenon DEF Choice, NoChoice, AnyNet
    <3>3. ProfileIsRight' BY Zenon, <3>1, <3>2 DEF SwitchInv, ProfileIsRight, ChoiceStands, NetworkDecides
    <3> QED BY Zenon, <3>1, <3>2, <3>3 DEF SwitchInv
  <2>7. CASE (\E net \in AnyNet : NetworkChanges(net)) \/ LoopStarts \/ ReadAgain \/ Settles \/ NoteNetwork
             \/ UNCHANGED switchVars
    <3>1. /\ UNCHANGED <<storeVars, lastSettled, choseThisRun, promise, settledSince, acted>>
          /\ seen' = latest' /\ {latest', watch', current'} \subseteq AnyNet /\ (latest # NoNet => latest' # NoNet)
          /\ loop' \in {"settle", "observe"} /\ current' # NoNet => latest' # NoNet
      BY ZenonT(30), <2>7 DEF NetworkChanges, LoopStarts, ReadAgain, Settles, NoteNetwork, switchVars, seenVars, loopVars,
                  switchHistoryVars, SwitchInv, storeVars
    <3>2. ProfileIsRight'
      BY Zenon, <3>1 DEF storeVars, SwitchInv, ProfileIsRight, ChoiceStands, NetworkDecides, FirstMatch
    <3> QED BY <3>1, <3>2 DEF storeVars, SwitchInv
  <2> QED BY <2>1, <2>2, <2>3, <2>4, <2>5, <2>6, <2>7 DEF SwitchNext, CreateProfile, UpdateProfile, LoopSteps
<1>3. SwitchInv => ProfileIsRight BY DEF SwitchInv
<1> QED BY <1>1, <1>2, <1>3, PTL DEF SwitchSpec

=============================================================================
