-------------------------- MODULE RulesListProofs ---------------------------
(***************************************************************************)
(* The rule list the bridge holds, for any names, journals and numbers of  *)
(* Subscribes, changes and adoptions.                                      *)
(*                                                                         *)
(* That GUIs have the list the bridge holds is inductive as it stands.     *)
(* That the list never goes back to an older Subscribe is not: a Subscribe *)
(* older than the list may still be on its way to be staged, and an entry  *)
(* older than the list may be staged or copied.  OrderInv says why neither *)
(* is adopted.                                                             *)
(*                                                                         *)
(* That the list is the daemon's rests on ListInv: every copy of a         *)
(* Subscribe, wherever it is kept, becomes the daemon's list once the      *)
(* changes still owed to it are replayed.                                  *)
(***************************************************************************)
EXTENDS RulesSync, WellFoundedInduction, TLAPS

-----------------------------------------------------------------------------
(* The order of the lists *)

\* Nothing older than Subscribe s can become the staged entry
NoneBefore(s) ==
  /\ entry.seq # 0 => entry.seq >= s
  /\ \A r \in receipts : r.seq >= s \/ entry.seq > r.seq

OrderInv ==
  /\ seq \in Nat /\ subs \in Nat /\ entry.seq \in 0..subs /\ clone.seq \in 0..subs /\ seq <= subs
  /\ \A r \in receipts : r.seq \in 1..subs
  /\ entry.seq = 0 => entry = NoEntry
  /\ known => seq # 0
  /\ busy = "replace" => seq # 0
  /\ NoneBefore(seq)
  /\ busy = "sequence" => clone.seq # 0 /\ clone.seq >= seq /\ NoneBefore(clone.seq)

-----------------------------------------------------------------------------
\* A step of Next is a step of one of its actions
LEMMA NextCases ==
  ASSUME Next
  PROVE  \/ \E restarts \in BOOLEAN : Subscribe(restarts)
         \/ \E r \in receipts : Stage(r)
         \/ EntryExpires \/ AdoptBegins \/ AdoptSequence \/ AdoptReplace \/ Publish \/ Withdraw
         \/ \E d, sent, open : Answered(d, sent, open)
         \/ \E n \in Names, v \in {"on", "temp"} : Prompt(n, v)
<1>1. ASSUME NEW n \in Names, Delete(n)
      PROVE  \E d, sent, open : Answered(d, sent, open)
  BY <1>1, Zenon DEF Delete
<1>2. ASSUME NEW n \in Names, NEW v \in {"on", "off", "temp"}, Change(n, v)
      PROVE  \E d, sent, open : Answered(d, sent, open)
  BY <1>2, Zenon DEF Change
<1> QED  BY <1>1, <1>2, Zenon DEF Next

\* GuiListIsTheList: what GUIs were sent is the list, whenever no adoption and no command
\* is about to publish it (rules_sync.rs:223-226).
THEOREM GuisHaveTheList == Spec => []GuiListIsTheList
<1>1. Init => GuiListIsTheList
  BY DEF Init, GuiListIsTheList, EmptyCache
<1>2. GuiListIsTheList /\ [Next]_vars => GuiListIsTheList'
  <2> SUFFICES ASSUME GuiListIsTheList, [Next]_vars, busy' = "no" PROVE shown' = cache'.list
    BY DEF GuiListIsTheList
  <2>1. CASE UNCHANGED vars  BY <2>1 DEF GuiListIsTheList, vars, listVars
  <2>2. ASSUME NEW restarts \in BOOLEAN, Subscribe(restarts) PROVE shown' = cache'.list
    BY <2>2 DEF Subscribe, GuiListIsTheList, listVars
  <2>3. ASSUME NEW r \in receipts, Stage(r) PROVE shown' = cache'.list
    BY <2>3 DEF Stage, GuiListIsTheList, listVars
  <2>4. CASE EntryExpires  BY <2>4 DEF EntryExpires, GuiListIsTheList, listVars
  <2>5. CASE AdoptBegins \/ AdoptSequence \/ AdoptReplace
    BY <2>5 DEF AdoptBegins, AdoptSequence, AdoptReplace
  <2>6. CASE Publish  BY <2>6 DEF Publish, listVars
  <2>7. CASE Withdraw  BY <2>7 DEF Withdraw, Forget, Relisted
  <2>8. ASSUME NEW d, NEW sent, NEW open, Answered(d, sent, open) PROVE shown' = cache'.list
    <3>1. busy = "no" /\ shown' = shown  BY <2>8 DEF Answered
    <3>2. busy' = IF d.answer = "ok" \/ cache' # cache THEN "publish" ELSE "no"  BY <2>8 DEF Answered
    <3>3. cache' = cache  BY <3>2
    <3> QED  BY <3>1, <3>3 DEF GuiListIsTheList
  <2>9. ASSUME NEW n \in Names, NEW v \in {"on", "temp"}, Prompt(n, v) PROVE shown' = cache'.list
    <3> DEFINE change == [how |-> "prompt", sent |-> [type |-> "change", name |-> n, value |-> v]]
    <3>1. busy = "no" /\ cache' = Apply(cache, known, change)
      BY <2>9 DEF Prompt
    <3>2. shown' = IF known THEN [shown EXCEPT ![n] = v] ELSE shown  BY <2>9 DEF Prompt
    <3>3. cache' = IF known THEN Put(cache, n, v) ELSE cache  BY <3>1 DEF Apply
    <3> QED  BY <3>1, <3>2, <3>3 DEF GuiListIsTheList, Put, Relisted
  <2> QED  BY <2>1, <2>2, <2>3, <2>4, <2>5, <2>6, <2>7, <2>8, <2>9, NextCases
<1> QED  BY <1>1, <1>2, PTL DEF Spec

-----------------------------------------------------------------------------
\* OrderInv holds initially and is kept by every step
LEMMA OrderInvHolds == Spec => []OrderInv
<1>1. Init => OrderInv
  <2> SUFFICES ASSUME Init PROVE OrderInv
    OBVIOUS
  <2>1. NoEntry.seq = 0  BY DEF NoEntry
  <2>2. seq = 0 /\ subs = 0 /\ entry = NoEntry /\ clone = NoEntry /\ receipts = {}
        /\ known = FALSE /\ busy = "no"
    BY DEF Init
  <2>3. entry.seq = 0 /\ clone.seq = 0  BY <2>1, <2>2
  <2> QED  BY <2>2, <2>3 DEF OrderInv, NoneBefore
<1>2. OrderInv /\ [Next]_vars => OrderInv'
  <2> SUFFICES ASSUME OrderInv, [Next]_vars PROVE OrderInv'
    OBVIOUS
  <2>1. CASE UNCHANGED vars
    BY <2>1 DEF OrderInv, NoneBefore, vars, listVars, daemonVars
  <2>2. ASSUME NEW restarts \in BOOLEAN, Subscribe(restarts) PROVE OrderInv'
    BY <2>2 DEF Subscribe, OrderInv, NoneBefore, listVars
  <2>3. ASSUME NEW r \in receipts, Stage(r) PROVE OrderInv'
    <3>1. CASE entry.seq > r.seq
      BY <2>3, <3>1 DEF Stage, OrderInv, NoneBefore, listVars
    <3>2. CASE ~(entry.seq > r.seq)
      <4>1. r.seq \in 1..subs /\ entry'.seq = r.seq /\ receipts' = receipts \ {r}
        BY <2>3, <3>2 DEF Stage, OrderInv
      <4>2. UNCHANGED <<cache, known, seq, busy, clone, subs>>
        BY <2>3 DEF Stage, listVars
      <4> QED  BY <3>2, <4>1, <4>2 DEF OrderInv, NoneBefore
    <3> QED  BY <3>1, <3>2
  <2>4. CASE EntryExpires
    <3>1. entry'.seq = 0 /\ entry' = NoEntry  BY <2>4 DEF EntryExpires, NoEntry
    <3>2. entry.seq # 0 /\ \A r \in receipts : r.seq > entry.seq
      BY <2>4 DEF EntryExpires, OrderInv
    <3>3. UNCHANGED <<cache, known, seq, receipts, busy, clone, subs>>
      BY <2>4 DEF EntryExpires, listVars
    <3> QED  BY <3>1, <3>2, <3>3 DEF OrderInv, NoneBefore
  <2>5. CASE AdoptBegins
    BY <2>5 DEF AdoptBegins, OrderInv, NoneBefore, listVars
  <2>6. CASE AdoptSequence
    BY <2>6 DEF AdoptSequence, OrderInv, NoneBefore
  <2>7. CASE AdoptReplace
    <3>1. busy = "replace" /\ busy' = "publish" /\ known' = TRUE /\ clone'.seq = 0
      BY <2>7 DEF AdoptReplace, NoEntry
    <3>2. UNCHANGED <<seq, entry, receipts, subs>>  BY <2>7 DEF AdoptReplace
    <3> QED  BY <3>1, <3>2 DEF OrderInv, NoneBefore
  <2>8. CASE Publish
    BY <2>8 DEF Publish, OrderInv, NoneBefore, listVars
  <2>9. CASE Withdraw
    <3>1. UNCHANGED <<seq, entry, receipts, busy, clone, subs>> /\ known' = FALSE
      BY <2>9 DEF Withdraw
    <3> QED  BY <3>1 DEF OrderInv, NoneBefore
  <2>10. ASSUME NEW change, entry' = Recorded(change), busy' \in {busy, "publish"},
                UNCHANGED <<known, seq, receipts, clone, subs>>
         PROVE  OrderInv'
    <3>1. entry'.seq = entry.seq  BY <2>10 DEF Recorded
    <3>2. entry'.seq = 0 => entry' = NoEntry
      BY <2>10, <3>1 DEF Recorded, OrderInv
    <3> QED  BY <2>10, <3>1, <3>2 DEF OrderInv, NoneBefore
  <2>11. ASSUME NEW d, NEW sent, NEW open, Answered(d, sent, open) PROVE OrderInv'
    BY <2>10, <2>11 DEF Answered
  <2>12. ASSUME NEW n \in Names, NEW v \in {"on", "temp"}, Prompt(n, v) PROVE OrderInv'
    BY <2>10, <2>12 DEF Prompt
  <2> QED  BY <2>1, <2>2, <2>3, <2>4, <2>5, <2>6, <2>7, <2>8, <2>9, <2>11, <2>12, NextCases
<1> QED  BY <1>1, <1>2, PTL DEF Spec

\* ListsInOrder: whatever the order in which Subscribes are staged, entries expire and
\* streams adopt, the list never goes back to an older Subscribe (rules_sync.rs:93).
THEOREM ListNeverGoesBack == Spec => [][ListsInOrder]_vars
<1>1. OrderInv /\ [Next]_vars => [ListsInOrder]_vars
  <2> SUFFICES ASSUME OrderInv, Next PROVE seq' >= seq
    BY DEF ListsInOrder
  <2>1. seq \in Nat  BY DEF OrderInv
  <2>2. CASE AdoptSequence  BY <2>2 DEF AdoptSequence, OrderInv
  <2>3. CASE seq' = seq  BY <2>1, <2>3
  <2>4. Next => seq' = seq \/ AdoptSequence
    BY Zenon, NextCases DEF Subscribe, Stage, EntryExpires, AdoptBegins, AdoptReplace, Publish,
       Withdraw, Answered, Prompt, listVars
  <2> QED  BY <2>2, <2>3, <2>4
<1> QED  BY <1>1, OrderInvHolds, PTL DEF Spec

-----------------------------------------------------------------------------
(* Numbers *)

\* A set of naturals that is not empty has a least element: what is claimed of every number is
\* proved by showing that there is no least number of which it fails.
LEMMA LeastNat ==
  ASSUME NEW T, T \subseteq Nat, T # {}
  PROVE  \E x \in T : \A y \in T : x <= y
<1>1. PICK x \in T : \A y \in T : ~(<<y, x>> \in OpToRel(<, Nat))
  BY Zenon, WFMin, NatLessThanWellFounded
<1>2. \A y \in T : ~(y < x)
  BY Zenon, <1>1 DEF OpToRel
<1> QED BY <1>2

-----------------------------------------------------------------------------
(* Replaying a journal *)

\* A change made to a list that is there
Onto(c, ch) == Apply(c, TRUE, ch)

HasList(c) == "list" \in DOMAIN c /\ c.list \in Lists

\* What a change makes of a name listed as x: an answer that tells nothing leaves it alone
Tells(ch, n) == ch.sent.name = n /\ ~(ch.how = "error" /\ ch.sent.type = "change" /\ ch.sent.value # "off")
Effect(ch, n, x) == IF Tells(ch, n) THEN ch.sent.value ELSE x

\* A change's fields are of their types.
LEMMA ChangeFields ==
  ASSUME NEW ch \in Changes
  PROVE  /\ ch.how \in {"ok", "error", "prompt"} /\ ch.sent.name \in Names
         /\ ch.sent.type \in {"change", "delete"} /\ ch.sent.value \in Values
         /\ ch.sent.type = "delete" <=> ch.sent.value = "absent"
         /\ ch.how = "prompt" => ch.sent.type = "change"
  BY DEF Changes, Commands, Values

\* Listing a name.
LEMMA PutPart ==
  ASSUME NEW c, HasList(c), NEW n \in Names, NEW v \in Values
  PROVE  HasList(Put(c, n, v)) /\ Put(c, n, v).list = [c.list EXCEPT ![n] = v]
  BY DEF Put, Relisted, HasList, Lists

\* Removing, marking and forgetting.
LEMMA ListParts ==
  ASSUME NEW c, HasList(c), NEW n \in Names
  PROVE  /\ HasList(Remove(c, n)) /\ Remove(c, n).list = [c.list EXCEPT ![n] = "absent"]
         /\ HasList(MarkFileLeft(c, n)) /\ MarkFileLeft(c, n).list = c.list
         /\ HasList(ForgetFileLeft(c, n)) /\ ForgetFileLeft(c, n).list = c.list
         /\ HasList(ForgetFileLeftIfHeld(c, n)) /\ ForgetFileLeftIfHeld(c, n).list = c.list
         /\ \A held : HasList([c EXCEPT !.heldAgain = held]) /\ [c EXCEPT !.heldAgain = held].list = c.list
<1> USE DEF HasList, Lists, Values
<1>1. HasList(Put(c, n, "absent")) /\ Put(c, n, "absent").list = [c.list EXCEPT ![n] = "absent"]
  BY Zenon, PutPart
<1>2. HasList(Remove(c, n)) /\ Remove(c, n).list = [c.list EXCEPT ![n] = "absent"]
  <2>1. CASE c.list[n] = "absent"
    <3>1. c.list = [c.list EXCEPT ![n] = "absent"] BY <2>1
    <3> QED BY <2>1, <3>1 DEF Remove
  <2>2. CASE c.list[n] # "absent" BY <1>1, <2>2 DEF Remove
  <2> QED BY <2>1, <2>2
<1>3. HasList(MarkFileLeft(c, n)) /\ MarkFileLeft(c, n).list = c.list BY DEF MarkFileLeft
<1>4. HasList(ForgetFileLeft(c, n)) /\ ForgetFileLeft(c, n).list = c.list BY DEF ForgetFileLeft
<1>5. HasList(ForgetFileLeftIfHeld(c, n)) /\ ForgetFileLeftIfHeld(c, n).list = c.list
  BY <1>4 DEF ForgetFileLeftIfHeld
<1>6. \A held : HasList([c EXCEPT !.heldAgain = held]) /\ [c EXCEPT !.heldAgain = held].list = c.list OBVIOUS
<1> QED BY <1>1, <1>2, <1>3, <1>4, <1>5, <1>6

\* A change does to the list, while there is one, what it tells.
LEMMA ApplyEffect ==
  ASSUME NEW c, HasList(c), NEW ch \in Changes
  PROVE  HasList(Onto(c, ch)) /\ \A n \in Names : Onto(c, ch).list[n] = Effect(ch, n, c.list[n])
<1> DEFINE d == Onto(c, ch)
           m == ch.sent.name
           v == ch.sent.value
<1>a. SUFFICES HasList(d) /\ \A n \in Names : d.list[n] = Effect(ch, n, c.list[n]) OBVIOUS
<1>d. d = Apply(c, TRUE, ch) BY DEF Onto
<1> HIDE DEF d
<1>0. m \in Names /\ v \in Values /\ (ch.sent.type = "delete" <=> v = "absent") BY ChangeFields
<1>1. ASSUME HasList(d), d.list = [c.list EXCEPT ![m] = v], \A n \in Names : Tells(ch, n) <=> m = n
      PROVE  HasList(d) /\ \A n \in Names : d.list[n] = Effect(ch, n, c.list[n])
  BY <1>0, <1>1 DEF HasList, Lists, Effect
<1>2. CASE ch.how = "ok" /\ ch.sent.type = "delete"
  <2>1. d = ForgetFileLeftIfHeld(Remove(c, m), m) BY <1>2, <1>d DEF Apply, ApplyConfirmed
  <2>2. HasList(Remove(c, m)) /\ Remove(c, m).list = [c.list EXCEPT ![m] = v] BY <1>0, <1>2, ListParts
  <2>3. HasList(d) /\ d.list = Remove(c, m).list BY Zenon, <1>0, <2>1, <2>2, ListParts
  <2> QED BY <1>1, <1>2, <2>2, <2>3 DEF Tells
<1>3. CASE ch.how = "ok" /\ ch.sent.type # "delete"
  <2> DEFINE saved == IF v = "temp" THEN [c EXCEPT !.heldAgain = @ \ {m}] ELSE ForgetFileLeft(c, m)
  <2>1. d = Put(saved, m, v) BY <1>3, <1>d DEF Apply, ApplyConfirmed
  <2>2. HasList(saved) /\ saved.list = c.list BY Zenon, <1>0, ListParts
  <2> HIDE DEF saved
  <2>3. HasList(d) /\ d.list = [saved.list EXCEPT ![m] = v] BY <1>0, <2>1, <2>2, PutPart
  <2> QED BY <1>1, <1>3, <2>2, <2>3 DEF Tells
<1>4. CASE ch.how = "error" /\ ch.sent.type = "delete"
  <2>1. d = MarkFileLeft(Remove(c, m), m) BY <1>4, <1>d DEF Apply, ApplyRefused
  <2>2. HasList(Remove(c, m)) /\ Remove(c, m).list = [c.list EXCEPT ![m] = v] BY <1>0, <1>4, ListParts
  <2>3. HasList(d) /\ d.list = Remove(c, m).list BY Zenon, <1>0, <2>1, <2>2, ListParts
  <2> QED BY <1>1, <1>4, <2>2, <2>3 DEF Tells
<1>5. CASE ch.how = "error" /\ ch.sent.type # "delete" /\ v = "off"
  <2> DEFINE noted == [c EXCEPT !.heldAgain = @ \cup ({m} \cap c.left)]
  <2>1. d = Put(noted, m, v) BY <1>5, <1>d DEF Apply, ApplyRefused
  <2>2. HasList(noted) /\ noted.list = c.list BY Zenon, <1>0, ListParts
  <2> HIDE DEF noted
  <2>3. HasList(d) /\ d.list = [noted.list EXCEPT ![m] = v] BY <1>0, <2>1, <2>2, PutPart
  <2> QED BY <1>1, <1>5, <2>2, <2>3 DEF Tells
<1>6. CASE ch.how = "error" /\ ch.sent.type # "delete" /\ v # "off"
  <2>1. d = c BY <1>6, <1>d DEF Apply, ApplyRefused
  <2>2. \A n \in Names : ~Tells(ch, n) BY <1>6, ChangeFields DEF Tells
  <2> QED BY <2>1, <2>2 DEF Effect
<1>7. CASE ch.how = "prompt"
  <2>1. d = Put(c, m, v) BY <1>7, <1>d DEF Apply
  <2>2. HasList(d) /\ d.list = [c.list EXCEPT ![m] = v] BY <1>0, <2>1, PutPart
  <2> QED BY <1>1, <1>7, <2>2 DEF Tells
<1> QED BY <1>2, <1>3, <1>4, <1>5, <1>6, <1>7, ChangeFields

\* The caches of a replay are what their definition says.
LEMMA ReplayedIs ==
  ASSUME NEW c, NEW s \in Seq(Changes)
  PROVE  Replayed(c, s) =
           [k \in 0..Len(s) |-> IF k = 0 THEN c ELSE Onto(Replayed(c, s)[k - 1], s[k])]
<1> DEFINE Good(g, n) == g = [k \in 0..n |-> IF k = 0 THEN c ELSE Onto(g[k - 1], s[k])]
           T == {n \in 0..Len(s) : ~\E g : Good(g, n)}
<1>0. Len(s) \in Nat OBVIOUS
<1>1. T = {}
  <2> SUFFICES ASSUME T # {} PROVE FALSE OBVIOUS
  <2>1. PICK n \in T : \A m \in T : n <= m
    <3>1. T \subseteq Nat BY <1>0
    <3> HIDE DEF T
    <3> QED BY Zenon, <3>1, LeastNat
  <2>2. n \in 0..Len(s) /\ ~\E g : Good(g, n) BY <2>1
  <2>3. n # 0
    <3> DEFINE g == [k \in 0..0 |-> c]
    <3>1. Good(g, 0) OBVIOUS
    <3> QED BY Zenon, <2>2, <3>1
  <2>4. n - 1 \in 0..Len(s) /\ n - 1 \notin T
    <3>1. n \in Nat /\ n - 1 \in 0..Len(s) /\ ~(n <= n - 1) BY <1>0, <2>2, <2>3
    <3> HIDE DEF T
    <3> QED BY <2>1, <3>1
  <2>5. PICK g : Good(g, n - 1) BY <2>4
  <2> DEFINE h == [k \in 0..n |-> IF k = n THEN Onto(g[n - 1], s[n]) ELSE g[k]]
  <2>6. \A k \in 0..n : h[k] = IF k = 0 THEN c ELSE Onto(h[k - 1], s[k])
    <3> TAKE k \in 0..n
    <3>1. CASE k = 0 BY <2>2, <2>3, <2>5, <3>1
    <3>2. CASE k = n BY <1>0, <2>2, <2>3, <3>2
    <3>3. CASE k # 0 /\ k # n
      <4>1. k \in 0..(n - 1) /\ k - 1 \in 0..n /\ k - 1 # n BY <1>0, <2>2, <3>3
      <4>2. g[k] = Onto(g[k - 1], s[k]) BY <2>5, <3>3, <4>1
      <4> QED BY <3>3, <4>1, <4>2
    <3> QED BY <3>1, <3>2, <3>3
  <2>7. Good(h, n)
    <3>1. h = [k \in 0..n |-> h[k]] OBVIOUS
    <3> HIDE DEF h
    <3> QED BY Zenon, <2>6, <3>1
  <2> QED BY Zenon, <2>2, <2>7
<1>2. \E g : Good(g, Len(s)) BY <1>0, <1>1
<1>3. Replayed(c, s) = CHOOSE g : Good(g, Len(s)) BY DEF Replayed, Onto
<1>4. Good(Replayed(c, s), Len(s)) BY Zenon, <1>2, <1>3
<1> QED BY <1>4

\* The list a replay ends with is that of the list it began with, whatever else the two caches
\* hold: a first place where they differ would follow one where they do not.
LEMMA ReplaySame ==
  ASSUME NEW c, NEW d, HasList(c), HasList(d), c.list = d.list, NEW s \in Seq(Changes)
  PROVE  HasList(Replay(c, s)) /\ Replay(c, s).list = Replay(d, s).list
<1> DEFINE C == Replayed(c, s)
           D == Replayed(d, s)
           T == {k \in 0..Len(s) : ~(HasList(C[k]) /\ HasList(D[k]) /\ C[k].list = D[k].list)}
<1>0. Len(s) \in Nat OBVIOUS
<1>1. C = [k \in 0..Len(s) |-> IF k = 0 THEN c ELSE Onto(C[k - 1], s[k])] BY ReplayedIs
<1>2. D = [k \in 0..Len(s) |-> IF k = 0 THEN d ELSE Onto(D[k - 1], s[k])] BY ReplayedIs
<1> HIDE DEF C, D
<1>3. T = {}
  <2> SUFFICES ASSUME T # {} PROVE FALSE OBVIOUS
  <2>1. PICK n \in T : \A m \in T : n <= m
    <3>1. T \subseteq Nat BY <1>0
    <3> HIDE DEF T
    <3> QED BY Zenon, <3>1, LeastNat
  <2>2. n \in 0..Len(s) /\ ~(HasList(C[n]) /\ HasList(D[n]) /\ C[n].list = D[n].list) BY <2>1
  <2>3. n # 0 BY <1>0, <1>1, <1>2, <2>2
  <2>4. n - 1 \in 0..Len(s) /\ n - 1 \notin T /\ n \in 1..Len(s) BY <1>0, <2>1, <2>2, <2>3
  <2>5. HasList(C[n - 1]) /\ HasList(D[n - 1]) /\ C[n - 1].list = D[n - 1].list BY <2>4
  <2>6. C[n] = Onto(C[n - 1], s[n]) /\ D[n] = Onto(D[n - 1], s[n])
    BY Zenon, <1>1, <1>2, <2>2, <2>3
  <2>7. s[n] \in Changes BY <2>4
  <2>8. /\ HasList(C[n]) /\ \A m \in Names : C[n].list[m] = Effect(s[n], m, C[n - 1].list[m])
        /\ HasList(D[n]) /\ \A m \in Names : D[n].list[m] = Effect(s[n], m, D[n - 1].list[m])
    <3> DEFINE cc == C[n - 1]
               dd == D[n - 1]
               ch == s[n]
    <3>1. HasList(cc) /\ HasList(dd) /\ ch \in Changes BY <2>5, <2>7
    <3> HIDE DEF cc, dd, ch
    <3>2. HasList(Onto(cc, ch)) /\ \A m \in Names : Onto(cc, ch).list[m] = Effect(ch, m, cc.list[m])
      BY <3>1, ApplyEffect
    <3>3. HasList(Onto(dd, ch)) /\ \A m \in Names : Onto(dd, ch).list[m] = Effect(ch, m, dd.list[m])
      BY Zenon, <3>1, ApplyEffect
    <3> QED BY <2>6, <3>2, <3>3 DEF cc, dd, ch
  <2>9. C[n].list = D[n].list BY <2>5, <2>8 DEF HasList, Lists
  <2> QED BY <2>2, <2>8, <2>9
<1>4. Len(s) \in 0..Len(s) /\ Len(s) \notin T BY <1>0, <1>3
<1>5. HasList(C[Len(s)]) /\ C[Len(s)].list = D[Len(s)].list BY <1>4
<1> QED BY <1>5 DEF Replay, C, D

\* A journal with one more change is replayed as far as before, then that change.
LEMMA ReplayAppend ==
  ASSUME NEW c, NEW s \in Seq(Changes), NEW ch \in Changes
  PROVE  Replay(c, Append(s, ch)) = Onto(Replay(c, s), ch)
<1> DEFINE u == Append(s, ch)
           C == Replayed(c, s)
           D == Replayed(c, u)
           T == {k \in 0..Len(s) : C[k] # D[k]}
<1>0. Len(s) \in Nat /\ u \in Seq(Changes) /\ Len(u) = Len(s) + 1 /\ u[Len(u)] = ch
      /\ \A k \in 1..Len(s) : u[k] = s[k]
  OBVIOUS
<1> HIDE DEF u
<1>1. C = [k \in 0..Len(s) |-> IF k = 0 THEN c ELSE Onto(C[k - 1], s[k])] BY ReplayedIs
<1>2. D = [k \in 0..Len(u) |-> IF k = 0 THEN c ELSE Onto(D[k - 1], u[k])] BY Zenon, <1>0, ReplayedIs
<1> HIDE DEF C, D
<1>3. T = {}
  <2> SUFFICES ASSUME T # {} PROVE FALSE OBVIOUS
  <2>1. PICK n \in T : \A m \in T : n <= m
    <3>1. T \subseteq Nat BY <1>0
    <3> HIDE DEF T
    <3> QED BY Zenon, <3>1, LeastNat
  <2>2. n \in 0..Len(s) /\ C[n] # D[n] BY <2>1
  <2>3. n # 0 BY <1>0, <1>1, <1>2, <2>2
  <2>4. n - 1 \in 0..Len(s) /\ n - 1 \notin T /\ n \in 1..Len(s) /\ n \in 0..Len(u) BY <1>0, <2>1, <2>2, <2>3
  <2>5. C[n - 1] = D[n - 1] /\ u[n] = s[n] BY <1>0, <2>4
  <2>6. C[n] = Onto(C[n - 1], s[n]) BY <1>1, <2>3, <2>4
  <2>7. D[n] = Onto(D[n - 1], u[n]) BY Zenon, <1>2, <2>3, <2>4
  <2> QED BY <2>2, <2>5, <2>6, <2>7
<1>4. Len(s) \in 0..Len(s) /\ Len(s) \notin T BY <1>0, <1>3
<1>5. C[Len(s)] = D[Len(s)] BY <1>4
<1>6. Len(u) \in 0..Len(u) /\ Len(u) # 0 /\ Len(u) - 1 = Len(s) BY <1>0
<1>7. D[Len(u)] = Onto(D[Len(s)], ch) BY <1>0, <1>2, <1>6
<1> QED BY <1>5, <1>7 DEF Replay, C, D, u

-----------------------------------------------------------------------------
(* The list is the daemon's *)

\* The list that adopting entry e gives
Bare(list) == Relisted(EmptyCache, list)
ListOf(e) == Replay(Bare(e.snapshot), e.journal.changes).list
Whole(e) == ~e.journal.overflowed

IsEntry(e) == e.snapshot \in Lists /\ e.journal \in [changes : Seq(Changes), overflowed : BOOLEAN]

ListTypes ==
  /\ HasList(cache) /\ memory \in Lists /\ files \in Lists /\ raced \in [Names -> Nat]
  /\ IsEntry(entry) /\ IsEntry(clone) /\ (\A r \in receipts : r.snapshot \in Lists)

Adopting == busy \in {"sequence", "replace"}

\* A Subscribe is received, staged or adopted, and what is linked is the newest
PlacesInv ==
  /\ \A r \in receipts : r.seq \notin {entry.seq, clone.seq, seq} /\ \A q \in receipts : q.seq = r.seq => q = r
  /\ linked => known /\ seq = subs
  /\ busy = "replace" => clone.seq = seq
  /\ busy \in {"no", "sequence", "replace", "publish"}

\* The newest Subscribe, wherever it has got to, makes the daemon's list
NewestInv ==
  \A n \in Names \ unsure : raced[n] <= subs =>
    /\ linked /\ ~Adopting => cache.list[n] = memory[n]
    /\ \A r \in receipts : r.seq = subs => r.snapshot[n] = memory[n]
    /\ entry.seq = subs /\ subs # 0 /\ Whole(entry) => ListOf(entry)[n] = memory[n]
    /\ Adopting /\ clone.seq = subs /\ Whole(clone) => ListOf(clone)[n] = memory[n]

\* The list's own entry makes the list again, and a copy of the entry the same as the entry
AgainInv ==
  /\ known /\ ~Adopting /\ entry.seq = seq /\ Whole(entry) =>
       \A n \in Names : raced[n] <= seq => ListOf(entry)[n] = cache.list[n]
  /\ Adopting /\ entry.seq = clone.seq /\ Whole(entry) =>
       Whole(clone) /\ \A n \in Names : raced[n] <= clone.seq => ListOf(entry)[n] = ListOf(clone)[n]

ListInv == ListTypes /\ PlacesInv /\ NewestInv /\ AgainInv

\* Adopting a whole entry over any list gives the list of the entry.
LEMMA AdoptedList ==
  ASSUME NEW c, HasList(c), NEW e, IsEntry(e)
  PROVE  HasList(AdoptedFrom(c, e)) /\ (Whole(e) => AdoptedFrom(c, e).list = ListOf(e))
<1> DEFINE bare == ReplaceAll(c, e.snapshot, e.observed)
<1>1. e.snapshot \in Lists /\ e.journal.changes \in Seq(Changes) BY DEF IsEntry
<1>2. HasList(bare) /\ bare.list = e.snapshot BY <1>1 DEF ReplaceAll, HasList
<1>3. HasList(Bare(e.snapshot)) /\ Bare(e.snapshot).list = e.snapshot BY <1>1 DEF Bare, Relisted, HasList
<1> HIDE DEF bare
<1>4. HasList(Replay(bare, e.journal.changes))
      /\ Replay(bare, e.journal.changes).list = Replay(Bare(e.snapshot), e.journal.changes).list
  BY <1>1, <1>2, <1>3, ReplaySame
<1>5. AdoptedFrom(c, e) = IF e.journal.overflowed THEN bare ELSE Replay(bare, e.journal.changes)
  BY DEF AdoptedFrom, bare
<1> QED BY <1>2, <1>4, <1>5 DEF Whole, ListOf

\* An entry that was just staged has the list that was received.
LEMMA FreshList ==
  ASSUME NEW e, e.snapshot \in Lists, e.journal = NewJournal
  PROVE  IsEntry(e) /\ Whole(e) /\ ListOf(e) = e.snapshot
<1>1. e.journal.changes = <<>> /\ e.journal.overflowed = FALSE BY DEF NewJournal
<1>2. IsEntry(e) BY <1>1 DEF IsEntry, NewJournal
<1> DEFINE s == e.journal.changes
           b == Bare(e.snapshot)
           C == Replayed(b, s)
<1>3. s \in Seq(Changes) /\ Len(s) = 0 BY <1>1
<1> HIDE DEF s, b
<1>4. C = [k \in 0..Len(s) |-> IF k = 0 THEN b ELSE Onto(C[k - 1], s[k])] BY Zenon, <1>3, ReplayedIs
<1> HIDE DEF C
<1>5. C[0] = b BY <1>3, <1>4
<1>6. Replay(b, s) = b BY <1>3, <1>5 DEF Replay, C
<1>7. b.list = e.snapshot BY DEF b, Bare, Relisted
<1> QED BY <1>1, <1>2, <1>6, <1>7 DEF Whole, ListOf, b, s

\* A change recorded in an entry does to its list what it tells, if it still fits.
LEMMA RecordedList ==
  ASSUME NEW e, IsEntry(e), NEW ch \in Changes, NEW f, f.snapshot = e.snapshot, f.journal = Record(e.journal, ch)
  PROVE  /\ IsEntry(f)
         /\ Whole(f) => Whole(e) /\ \A n \in Names : ListOf(f)[n] = Effect(ch, n, ListOf(e)[n])
<1> DEFINE j == e.journal
<1>1. j \in [changes : Seq(Changes), overflowed : BOOLEAN] /\ e.snapshot \in Lists BY DEF IsEntry
<1>2. CASE Len(j.changes) >= MaxJournal
  <2>1. f.journal = [j EXCEPT !.overflowed = TRUE] BY <1>2 DEF Record
  <2>2. f.journal \in [changes : Seq(Changes), overflowed : BOOLEAN] /\ f.journal.overflowed = TRUE BY Zenon, <1>1, <2>1
  <2> QED BY <1>1, <2>2 DEF IsEntry, Whole
<1>3. CASE ~(Len(j.changes) >= MaxJournal) /\ j.overflowed
  <2>1. f.journal = j BY Zenon, <1>3 DEF Record
  <2> QED BY <1>1, <1>3, <2>1 DEF IsEntry, Whole
<1>4. CASE ~(Len(j.changes) >= MaxJournal) /\ ~j.overflowed
  <2>1. f.journal = [j EXCEPT !.changes = Append(@, ch)] BY <1>4 DEF Record
  <2>2. f.journal \in [changes : Seq(Changes), overflowed : BOOLEAN]
        /\ f.journal.changes = Append(j.changes, ch) /\ j.changes \in Seq(Changes)
    <3>1. j.changes \in Seq(Changes) /\ j = [changes |-> j.changes, overflowed |-> j.overflowed]
          /\ j.overflowed \in BOOLEAN
      BY <1>1
    <3>2. Append(j.changes, ch) \in Seq(Changes) BY <3>1
    <3> DEFINE u == Append(j.changes, ch)
    <3> HIDE DEF u
    <3>3. f.journal = [changes |-> u, overflowed |-> j.overflowed] BY Zenon, <2>1, <3>1 DEF u
    <3>4. u \in Seq(Changes) BY <3>2 DEF u
    <3> QED BY <3>1, <3>3, <3>4 DEF u
  <2> DEFINE b == Bare(e.snapshot)
             c == Replay(b, j.changes)
  <2>3. HasList(b) BY <1>1 DEF Bare, Relisted, HasList
  <2>4. HasList(c) BY <2>2, <2>3, ReplaySame
  <2>5. Replay(b, f.journal.changes) = Onto(c, ch) BY <2>2, ReplayAppend
  <2> HIDE DEF b, c
  <2>6. \A n \in Names : Onto(c, ch).list[n] = Effect(ch, n, c.list[n]) BY <2>4, ApplyEffect
  <2>7. ListOf(f) = Onto(c, ch).list /\ ListOf(e) = c.list BY <2>5 DEF ListOf, b, c
  <2> QED BY <1>1, <1>4, <2>2, <2>6, <2>7 DEF IsEntry, Whole
<1> QED BY <1>2, <1>3, <1>4

\* A change made to the list and recorded.
LEMMA ChangeTaken ==
  ASSUME ListTypes, known, NEW ch \in Changes, cache' = Apply(cache, known, ch), entry' = Recorded(ch)
  PROVE  /\ HasList(cache') /\ IsEntry(entry') /\ entry'.seq = entry.seq
         /\ \A n \in Names : cache'.list[n] = Effect(ch, n, cache.list[n])
         /\ Whole(entry') => Whole(entry)
         /\ entry.seq # seq => entry' = entry
         /\ entry.seq = seq /\ Whole(entry') => \A n \in Names : ListOf(entry')[n] = Effect(ch, n, ListOf(entry)[n])
<1>1. cache' = Onto(cache, ch)
  <2>1. known = TRUE => cache' = Onto(cache, ch) BY DEF Onto
  <2>2. known /\ Apply(cache, known, ch) = Apply(cache, TRUE, ch) BY Zenon DEF Apply, ApplyConfirmed, ApplyRefused
  <2> QED BY <2>2 DEF Onto
<1>2. HasList(Onto(cache, ch)) /\ \A n \in Names : Onto(cache, ch).list[n] = Effect(ch, n, cache.list[n])
  <2>1. HasList(cache) BY DEF ListTypes
  <2> QED BY <2>1, ApplyEffect
<1>3. IsEntry(entry) BY DEF ListTypes
<1>4. CASE entry.seq # seq
  <2>1. entry' = entry BY <1>4 DEF Recorded
  <2> QED BY Zenon, <1>1, <1>2, <1>3, <1>4, <2>1
<1>5. CASE entry.seq = seq
  <2>1. entry'.snapshot = entry.snapshot /\ entry'.journal = Record(entry.journal, ch) /\ entry'.seq = entry.seq
    BY <1>5 DEF Recorded
  <2>2. IsEntry(entry') /\ (Whole(entry') => Whole(entry) /\ \A n \in Names : ListOf(entry')[n] = Effect(ch, n, ListOf(entry)[n]))
    BY <1>3, <2>1, RecordedList
  <2> QED BY Zenon, <1>1, <1>2, <1>5, <2>1, <2>2
<1> QED BY Zenon, <1>4, <1>5

\* The daemon drops the rule whatever it answers to a delete.
LEMMA DeleteDone ==
  ASSUME memory \in Lists, files \in Lists, NEW n \in Names, NEW works \in BOOLEAN, NEW d, d = DaemonDeletes(n, works)
  PROVE  /\ d.memory \in Lists /\ d.files \in Lists /\ d.answer \in {"ok", "error"}
         /\ d.memory[n] = "absent" /\ \A m \in Names \ {n} : d.memory[m] = memory[m]
<1>1. d.memory = [memory EXCEPT ![n] = "absent"] /\ d.answer \in {"ok", "error"} BY DEF DaemonDeletes
<1>2. d.files \in {files, [files EXCEPT ![n] = "absent"]} BY DEF DaemonDeletes
<1> QED BY <1>1, <1>2 DEF Lists, Values

\* The daemon has a rule it confirmed, and a disabled one that it could not save.
LEMMA ChangeDone ==
  ASSUME memory \in Lists, files \in Lists, NEW n \in Names, NEW v \in {"on", "off", "temp"},
         NEW works \in BOOLEAN, NEW compiles \in BOOLEAN, NEW reloads \in BOOLEAN,
         NEW d, d = DaemonChanges(n, v, works, compiles, reloads)
  PROVE  /\ d.memory \in Lists /\ d.files \in Lists /\ d.answer \in {"ok", "error"}
         /\ \A m \in Names \ {n} : d.memory[m] = memory[m]
         /\ d.answer = "ok" \/ v = "off" \/ compiles => d.memory[n] = v
<1> DEFINE loses == memory[n] \in Always /\ v = "temp" /\ (works \/ ~StuckFileStays)
           kept == IF loses THEN [files EXCEPT ![n] = "absent"] ELSE files
<1>1. kept \in Lists BY DEF Lists, Values
<1> HIDE DEF loses
<1>2. CASE v # "off" /\ ~compiles
  <2>1. d = [memory |-> IF kept # files /\ reloads THEN [memory EXCEPT ![n] = "absent"] ELSE memory,
             files  |-> kept,
             answer |-> "error"]
    BY <1>2 DEF DaemonChanges, loses
  <2> HIDE DEF kept
  <2>2. d.memory \in {memory, [memory EXCEPT ![n] = "absent"]} /\ d.files = kept /\ d.answer = "error" BY <2>1
  <2> QED BY <1>1, <1>2, <2>2 DEF Lists, Values
<1>3. CASE ~(v # "off" /\ ~compiles)
  <2>1. d = [memory |-> [memory EXCEPT ![n] = v],
             files  |-> IF v \in Always /\ works THEN [files EXCEPT ![n] = v] ELSE kept,
             answer |-> IF v \in Always /\ ~works THEN "error" ELSE "ok"]
    BY <1>3 DEF DaemonChanges, loses
  <2> HIDE DEF kept
  <2>2. d.memory = [memory EXCEPT ![n] = v] /\ d.files \in {kept, [files EXCEPT ![n] = v]} /\ d.answer \in {"ok", "error"}
    BY <2>1
  <2> QED BY <1>1, <2>2 DEF Lists, Values
<1> QED BY <1>2, <1>3

\* An answer: the list and its entry take what the daemon did, unless the answer tells nothing.
LEMMA ListOfAnswer ==
  ASSUME ListInv, OrderInv, NEW d, NEW sent \in Commands, NEW open \in BOOLEAN, Answered(d, sent, open),
         d.memory \in Lists, d.files \in Lists, d.answer \in {"ok", "error"},
         \A m \in Names \ {sent.name} : d.memory[m] = memory[m],
         open <=> (d.answer = "error" /\ sent.type = "change" /\ sent.value # "off"),
         ~open => d.memory[sent.name] = sent.value
  PROVE  ListInv'
<1> DEFINE ch == [how |-> d.answer, sent |-> sent]
           n == sent.name
<1>1. ch \in Changes /\ ch.sent.name = n /\ ch.sent.value = sent.value /\ n \in Names
  BY DEF Changes, Commands
<1>2. \A m \in Names : Tells(ch, m) <=> (m = n /\ ~open) BY Zenon DEF Tells
<1>3. busy = "no" /\ linked /\ busy' \in {"no", "publish"} /\ cache' = Apply(cache, known, ch) /\ entry' = Recorded(ch)
  BY Zenon DEF Answered
<1>4. memory' = d.memory /\ files' = d.files /\ UNCHANGED <<known, seq, receipts, clone, linked, subs>>
  BY Zenon DEF Answered
<1>5. unsure' = (IF open THEN unsure \cup {n} ELSE unsure \ {n}) /\ raced' = (IF open THEN raced ELSE [raced EXCEPT ![n] = 0])
  BY DEF Answered
<1> HIDE DEF ch, n
<1>6. known /\ seq = subs /\ ListTypes BY <1>3 DEF ListInv, PlacesInv
<1>7. /\ HasList(cache') /\ IsEntry(entry') /\ entry'.seq = entry.seq
      /\ \A m \in Names : cache'.list[m] = Effect(ch, m, cache.list[m])
      /\ Whole(entry') => Whole(entry)
      /\ entry.seq = seq /\ Whole(entry') => \A m \in Names : ListOf(entry')[m] = Effect(ch, m, ListOf(entry)[m])
  BY Zenon, <1>1, <1>3, <1>6, ChangeTaken
<1>8. ListTypes'
  BY Zenon, <1>1, <1>4, <1>5, <1>6, <1>7 DEF ListTypes
<1>9. PlacesInv'
  BY Zenon, <1>3, <1>4, <1>7 DEF ListInv, PlacesInv
<1>10. NewestInv'
  <2> SUFFICES ASSUME NEW m \in Names, m \notin unsure', raced'[m] <= subs'
               PROVE  /\ cache'.list[m] = memory'[m]
                      /\ \A r \in receipts' : r.seq = subs' => r.snapshot[m] = memory'[m]
                      /\ entry'.seq = subs' /\ Whole(entry') => ListOf(entry')[m] = memory'[m]
    BY Zenon, <1>3 DEF NewestInv, Adopting
  <2>1. \A r \in receipts' : r.seq # subs' BY Zenon, <1>4, <1>6 DEF ListInv, PlacesInv
  <2>2. CASE m = n
    <3>1. ~open BY Zenon, <1>5, <2>2
    <3>2. \A x : Effect(ch, m, x) = sent.value BY Zenon, <1>1, <1>2, <2>2, <3>1 DEF Effect
    <3>3. memory'[m] = sent.value BY <1>4, <2>2, <3>1 DEF n
    <3> QED BY Zenon, <1>4, <1>6, <1>7, <2>1, <3>2, <3>3
  <2>3. CASE m # n
    <3>1. \A x : Effect(ch, m, x) = x BY Zenon, <1>2, <2>3 DEF Effect
    <3>2. memory'[m] = memory[m] BY Zenon, <1>4, <2>3 DEF n
    <3>3. m \notin unsure /\ raced[m] <= subs BY Zenon, <1>4, <1>5, <1>6, <2>3 DEF ListTypes
    <3>4. cache.list[m] = memory[m] BY Zenon, <1>3, <3>3 DEF ListInv, NewestInv, Adopting
    <3>5. entry.seq = subs /\ Whole(entry) => ListOf(entry)[m] = memory[m]
      <4>1. subs # 0 BY Zenon, <1>6 DEF OrderInv
      <4> QED BY <3>3, <4>1 DEF ListInv, NewestInv
    <3> QED BY ZenonT(30), <1>4, <1>6, <1>7, <2>1, <3>1, <3>2, <3>4, <3>5
  <2> QED BY <2>2, <2>3
<1>11. AgainInv'
  <2> SUFFICES ASSUME entry'.seq = seq', Whole(entry'), NEW m \in Names, raced'[m] <= seq'
               PROVE  ListOf(entry')[m] = cache'.list[m]
    BY Zenon, <1>3 DEF AgainInv, Adopting
  <2>1. ListOf(entry')[m] = Effect(ch, m, ListOf(entry)[m]) /\ cache'.list[m] = Effect(ch, m, cache.list[m]) /\ Whole(entry)
        /\ entry.seq = seq
    BY Zenon, <1>4, <1>7
  <2>2. CASE m = n /\ ~open BY <1>2, <2>1, <2>2 DEF Effect
  <2>3. CASE ~(m = n /\ ~open)
    <3>1. raced[m] <= seq BY <1>1, <1>4, <1>5, <1>6, <2>3 DEF ListTypes
    <3> QED BY Zenon, <1>3, <1>6, <2>1, <3>1 , <1>2, <2>3 DEF ListInv, AgainInv, Adopting, Effect
  <2> QED BY Zenon, <2>2, <2>3
<1> QED BY Zenon, <1>8, <1>9, <1>10, <1>11 DEF ListInv

\* A prompt verdict: one that the list was current for is in it and in its entry; any other
\* is counted as raced.
LEMMA ListOfPrompt ==
  ASSUME ListInv, OrderInv, NEW n \in Names, NEW v \in {"on", "temp"}, Prompt(n, v)
  PROVE  ListInv'
<1> DEFINE ch == [how |-> "prompt", sent |-> [type |-> "change", name |-> n, value |-> v]]
           current == linked /\ busy \in {"no", "publish"}
           taken == memory[n] # "absent"
<1>1. ch \in Changes /\ ch.sent.name = n /\ ch.sent.value = v /\ ch.how = "prompt"
  BY DEF Changes
<1>2. \A m \in Names : Tells(ch, m) <=> m = n BY Zenon DEF Tells
<1>3. cache' = Apply(cache, known, ch) /\ entry' = Recorded(ch)
  BY Zenon DEF Prompt
<1>4. UNCHANGED <<known, seq, receipts, busy, clone, linked, subs>>
  BY Zenon DEF Prompt
<1>5. unsure' = (IF taken THEN unsure \cup {n} ELSE unsure \ {n}) /\ raced' = [raced EXCEPT ![n] = IF current THEN 0 ELSE subs + 1]
  BY DEF Prompt
<1>6. ListTypes /\ subs \in Nat /\ seq \in Nat /\ clone.seq \in Nat /\ seq <= subs /\ clone.seq <= subs BY DEF ListInv, OrderInv
<1>7. /\ memory' \in Lists /\ files' \in Lists /\ (\A m \in Names \ {n} : memory'[m] = memory[m]) /\ (~taken => memory'[n] = v)
  <2>1. PICK works \in BOOLEAN :
           LET d == DaemonChanges(n, v, works, TRUE, FALSE)
           IN  /\ memory' = IF taken THEN memory ELSE d.memory
               /\ files' = IF taken THEN files ELSE d.files
    BY ZenonT(30) DEF Prompt
  <2> DEFINE d == DaemonChanges(n, v, works, TRUE, FALSE)
  <2>2. memory' = (IF taken THEN memory ELSE d.memory) /\ files' = (IF taken THEN files ELSE d.files) BY <2>1
  <2>3. memory \in Lists /\ files \in Lists BY <1>6 DEF ListTypes
  <2>4. d.memory \in Lists /\ d.files \in Lists /\ (\A m \in Names \ {n} : d.memory[m] = memory[m]) /\ d.memory[n] = v
    <3>1. d.memory = [memory EXCEPT ![n] = v] BY DEF DaemonChanges
    <3>2. d.files \in {files, [files EXCEPT ![n] = "absent"], [files EXCEPT ![n] = v]} BY Zenon DEF DaemonChanges
    <3> HIDE DEF d
    <3> QED BY Zenon, <2>3, <3>1, <3>2 DEF Lists, Values
  <2> HIDE DEF d, taken
  <2> QED BY <2>2, <2>3, <2>4
<1> HIDE DEF ch, taken, current
<1>8. /\ HasList(cache') /\ IsEntry(entry') /\ entry'.seq = entry.seq
      /\ Whole(entry') => Whole(entry)
      /\ known => \A m \in Names : cache'.list[m] = Effect(ch, m, cache.list[m])
      /\ ~known => entry' = entry
      /\ entry.seq # seq => entry' = entry
      /\ known /\ entry.seq = seq /\ Whole(entry') => \A m \in Names : ListOf(entry')[m] = Effect(ch, m, ListOf(entry)[m])
  <2>1. CASE known BY Zenon, <1>1, <1>3, <1>6, <2>1, ChangeTaken
  <2>2. CASE ~known
    <3>1. cache' = cache BY <1>1, <1>3, <2>2 DEF Apply
    <3>2. entry' = entry BY <1>3, <2>2 DEF Recorded
    <3> QED BY Zenon, <1>6, <2>2, <3>1, <3>2 DEF ListTypes
  <2> QED BY <2>1, <2>2
<1>9. \A m \in Names : m # n => raced'[m] = raced[m]
  BY <1>5, <1>6 DEF ListTypes
<1>10. raced'[n] = IF current THEN 0 ELSE subs + 1
  BY Zenon, <1>5, <1>6 DEF ListTypes
<1>11. \A m \in Names : m # n /\ Whole(entry') => ListOf(entry')[m] = ListOf(entry)[m] /\ Whole(entry)
  BY Zenon, <1>2, <1>8 DEF Effect
<1>12. ListTypes'
  <2>1. raced' \in [Names -> Nat] BY <1>5, <1>6 DEF ListTypes
  <2> QED BY Zenon, <1>4, <1>6, <1>7, <1>8, <2>1 DEF ListTypes
<1>13. PlacesInv'
  BY Zenon, <1>4, <1>8 DEF ListInv, PlacesInv
<1>14. NewestInv'
  <2> SUFFICES ASSUME NEW m \in Names, m \notin unsure', raced'[m] <= subs'
               PROVE  /\ linked' /\ ~Adopting' => cache'.list[m] = memory'[m]
                      /\ \A r \in receipts' : r.seq = subs' => r.snapshot[m] = memory'[m]
                      /\ entry'.seq = subs' /\ subs' # 0 /\ Whole(entry') => ListOf(entry')[m] = memory'[m]
                      /\ Adopting' /\ clone'.seq = subs' /\ Whole(clone') => ListOf(clone')[m] = memory'[m]
    BY Zenon DEF NewestInv
  <2>1. CASE m = n
    <3>1. current /\ ~taken /\ memory'[m] = v
      <4>1. ~taken BY <1>5, <2>1
      <4>2. current BY <1>4, <1>6, <1>10, <2>1
      <4> QED BY <1>7, <2>1, <4>1, <4>2
    <3>2. known /\ seq = subs /\ ~Adopting' BY <1>4, <3>1 DEF current, ListInv, PlacesInv, Adopting
    <3>3. \A r \in receipts' : r.seq # subs' BY Zenon, <1>4, <3>2 DEF ListInv, PlacesInv
    <3>4. \A x : Effect(ch, m, x) = v BY Zenon, <1>1, <1>2, <2>1 DEF Effect
    <3> QED BY Zenon, <1>4, <1>8, <3>1, <3>2, <3>3, <3>4
  <2>2. CASE m # n
    <3>1. m \notin unsure /\ raced[m] <= subs /\ memory'[m] = memory[m] BY Zenon, <1>4, <1>5, <1>7, <1>9, <2>2
    <3>2. known => cache'.list[m] = cache.list[m] BY <1>2, <1>8, <2>2 DEF Effect
    <3>3. linked => known BY Zenon DEF ListInv, PlacesInv
    <3>4. /\ linked /\ ~Adopting => cache.list[m] = memory[m]
          /\ \A r \in receipts : r.seq = subs => r.snapshot[m] = memory[m]
          /\ entry.seq = subs /\ subs # 0 /\ Whole(entry) => ListOf(entry)[m] = memory[m]
          /\ Adopting /\ clone.seq = subs /\ Whole(clone) => ListOf(clone)[m] = memory[m]
      BY <3>1 DEF ListInv, NewestInv
    <3>5. Adopting' <=> Adopting BY Zenon, <1>4 DEF Adopting
    <3>6. entry'.seq = subs' /\ subs' # 0 /\ Whole(entry') => ListOf(entry')[m] = memory'[m]
      BY Zenon, <1>4, <1>8, <1>11, <2>2, <3>1, <3>4
    <3> QED BY Zenon, <1>4, <3>1, <3>2, <3>3, <3>4, <3>5, <3>6
  <2> QED BY Zenon, <2>1, <2>2
<1>15. AgainInv'
  <2>1. ASSUME known', ~Adopting', entry'.seq = seq', Whole(entry'), NEW m \in Names, raced'[m] <= seq'
        PROVE  ListOf(entry')[m] = cache'.list[m]
    <3>1. known /\ ~Adopting /\ entry.seq = seq /\ Whole(entry) BY Zenon, <1>4, <1>8, <2>1 DEF Adopting
    <3>2. ListOf(entry')[m] = Effect(ch, m, ListOf(entry)[m]) /\ cache'.list[m] = Effect(ch, m, cache.list[m])
      BY Zenon, <1>8, <2>1, <3>1
    <3>3. CASE m = n BY Zenon, <1>2, <3>2, <3>3 DEF Effect
    <3>4. CASE m # n
      <4>1. raced[m] <= seq BY Zenon, <1>4, <1>9, <2>1, <3>4
      <4>2. ListOf(entry)[m] = cache.list[m] BY Zenon, <3>1, <4>1 DEF ListInv, AgainInv
      <4> QED BY Zenon, <3>2, <4>2
    <3> QED BY Zenon, <3>3, <3>4
  <2>2. ASSUME Adopting', entry'.seq = clone'.seq, Whole(entry')
        PROVE  Whole(clone') /\ \A m \in Names : raced'[m] <= clone'.seq => ListOf(entry')[m] = ListOf(clone')[m]
    <3>1. Adopting /\ entry.seq = clone.seq /\ Whole(entry) BY Zenon, <1>4, <1>8, <2>2 DEF Adopting
    <3>2. Whole(clone) /\ \A m \in Names : raced[m] <= clone.seq => ListOf(entry)[m] = ListOf(clone)[m]
      BY <3>1 DEF ListInv, AgainInv
    <3>3. ~(raced'[n] <= clone.seq)
      <4>1. ~current BY <3>1 DEF Adopting, current
      <4> QED BY <1>6, <1>10, <4>1
    <3> QED BY Zenon, <1>4, <1>9, <1>11, <2>2, <3>2, <3>3
  <2> QED BY <2>1, <2>2 DEF AgainInv
<1> QED BY Zenon, <1>12, <1>13, <1>14, <1>15 DEF ListInv

\* A Subscribe: what the daemon has is what it sends.
LEMMA ListOfSubscribe ==
  ASSUME ListInv, OrderInv, NEW restarts \in BOOLEAN, Subscribe(restarts)
  PROVE  ListInv'
<1> DEFINE new == [seq |-> subs', snapshot |-> memory', observed |-> cache.revision]
<1>1. subs' = subs + 1 /\ memory' = (IF restarts THEN files ELSE memory) /\ receipts' = receipts \cup {new}
      /\ linked' = FALSE /\ unsure' = {} /\ UNCHANGED <<cache, known, seq, entry, busy, clone, files, raced>>
  BY DEF Subscribe, listVars
<1>2. new.seq = subs' /\ new.snapshot = memory' OBVIOUS
<1> HIDE DEF new
<1>3. ListTypes'
  BY <1>1, <1>2 DEF ListInv, ListTypes
<1>4. subs \in Nat /\ seq \in 0..subs /\ entry.seq \in 0..subs /\ clone.seq \in 0..subs /\ \A r \in receipts : r.seq \in 1..subs
  BY DEF OrderInv
<1>5. PlacesInv'
  BY <1>1, <1>2, <1>4 DEF ListInv, PlacesInv
<1>6. NewestInv'
  BY <1>1, <1>2, <1>4 DEF NewestInv
<1>7. AgainInv'
  BY <1>1 DEF ListInv, AgainInv, Adopting
<1> QED BY Zenon, <1>3, <1>5, <1>6, <1>7 DEF ListInv

\* Staging, with or without effect.
LEMMA ListOfStage ==
  ASSUME ListInv, OrderInv, NEW r \in receipts, Stage(r)
  PROVE  ListInv'
<1>1. receipts' = receipts \ {r} /\ UNCHANGED <<cache, known, seq, busy, clone, memory, files, linked, unsure, raced, subs>>
  BY DEF Stage, listVars, daemonVars
<1>2. CASE entry.seq > r.seq
  <2>1. entry' = entry BY <1>2 DEF Stage
  <2> QED BY Zenon, <1>1, <2>1 DEF ListInv, ListTypes, PlacesInv, NewestInv, AgainInv, Adopting
<1>3. CASE ~(entry.seq > r.seq)
  <2>1. entry'.seq = r.seq /\ entry'.snapshot = r.snapshot /\ entry'.journal = NewJournal
    BY <1>3 DEF Stage
  <2>2. r.snapshot \in Lists BY DEF ListInv, ListTypes
  <2>3. IsEntry(entry') /\ Whole(entry') /\ ListOf(entry') = r.snapshot BY <2>1, <2>2, FreshList
  <2>4. ListTypes' BY Zenon, <1>1, <2>3 DEF ListInv, ListTypes
  <2>5. PlacesInv' BY Zenon, <1>1, <2>1 DEF ListInv, PlacesInv
  <2>6. NewestInv' BY Zenon, <1>1, <2>1, <2>3 DEF ListInv, NewestInv, Adopting
  <2>7. AgainInv' BY <1>1, <2>1 DEF ListInv, PlacesInv, AgainInv, Adopting
  <2> QED BY <2>4, <2>5, <2>6, <2>7 DEF ListInv
<1> QED BY <1>2, <1>3

\* An adoption's steps, and the list given up.
LEMMA ListOfAdoption ==
  ASSUME ListInv, OrderInv, EntryExpires \/ AdoptBegins \/ AdoptSequence \/ AdoptReplace \/ Publish \/ Withdraw
  PROVE  ListInv'
<1>0. /\ seq \in Nat /\ subs \in Nat /\ clone.seq \in 0..subs /\ seq <= subs /\ NoEntry.seq = 0
      /\ \A r \in receipts : r.seq \in 1..subs
  BY Zenon DEF OrderInv, NoEntry
<1>1. IsEntry(NoEntry)
  BY FreshList DEF NoEntry, NoRules, Lists, Values
<1>2. CASE EntryExpires
  <2>1. entry' = NoEntry /\ UNCHANGED <<cache, known, seq, receipts, busy, clone, memory, files, linked, unsure, raced, subs>>
    BY <1>2 DEF EntryExpires, listVars, daemonVars
  <2>2. known \/ busy = "replace" => seq # 0 BY DEF OrderInv
  <2>3. busy = "sequence" => clone.seq # 0 BY DEF OrderInv
  <2>4. ListTypes' BY <1>1, <2>1 DEF ListInv, ListTypes
  <2>5. PlacesInv' BY <1>0, <2>1 DEF ListInv, PlacesInv
  <2>6. NewestInv' BY Zenon, <1>0, <2>1 DEF ListInv, NewestInv, Adopting
  <2>7. AgainInv' BY Zenon, <1>0, <2>1, <2>2, <2>3 DEF ListInv, PlacesInv, AgainInv, Adopting
  <2> QED BY Zenon, <2>4, <2>5, <2>6, <2>7 DEF ListInv
<1>3. CASE AdoptBegins
  <2>1. clone' = entry /\ busy' = "sequence" /\ busy = "no" /\ entry # NoEntry
        /\ UNCHANGED <<cache, known, seq, entry, receipts, memory, files, linked, unsure, raced, subs>>
    BY <1>3 DEF AdoptBegins, listVars, daemonVars
  <2>2. entry.seq # 0 BY <2>1 DEF OrderInv
  <2>3. ListTypes' BY Zenon, <2>1 DEF ListInv, ListTypes
  <2>4. PlacesInv' BY Zenon, <2>1 DEF ListInv, PlacesInv
  <2>5. NewestInv' BY Zenon, <2>1, <2>2 DEF ListInv, NewestInv, Adopting
  <2>6. AgainInv' BY Zenon, <2>1 DEF AgainInv, Adopting
  <2> QED BY <2>3, <2>4, <2>5, <2>6 DEF ListInv
<1>4. CASE AdoptSequence
  <2>1. busy = "sequence" /\ busy' = "replace" /\ seq' = clone.seq
        /\ UNCHANGED <<cache, known, entry, receipts, clone, memory, files, linked, unsure, raced, subs>>
    BY <1>4 DEF AdoptSequence, daemonVars
  <2>2. clone.seq >= seq BY <2>1 DEF OrderInv
  <2>3. ListTypes' BY <2>1 DEF ListInv, ListTypes
  <2>4. PlacesInv' BY <1>0, <2>1, <2>2 DEF ListInv, PlacesInv
  <2>5. NewestInv' BY <2>1 DEF ListInv, NewestInv, Adopting
  <2>6. AgainInv' BY Zenon, <2>1 DEF ListInv, AgainInv, Adopting
  <2> QED BY <2>3, <2>4, <2>5, <2>6 DEF ListInv
<1>5. CASE AdoptReplace
  <2>1. busy = "replace" /\ busy' = "publish" /\ cache' = AdoptedFrom(cache, clone) /\ known' = TRUE
        /\ linked' = (clone.seq = subs) /\ unsure' = (IF clone.journal.overflowed THEN Names ELSE unsure) /\ clone' = NoEntry
        /\ UNCHANGED <<seq, entry, receipts, memory, files, raced, subs>>
    BY Zenon, <1>5 DEF AdoptReplace
  <2>2. clone.seq = seq BY <2>1 DEF ListInv, PlacesInv
  <2>3. HasList(cache') /\ (Whole(clone) => cache'.list = ListOf(clone))
    <3>1. HasList(cache) /\ IsEntry(clone) BY Zenon DEF ListInv, ListTypes
    <3> QED BY <2>1, <3>1, AdoptedList
  <2>4. ListTypes' BY Zenon, <1>1, <2>1, <2>3 DEF ListInv, ListTypes
  <2>5. PlacesInv'
    <3>1. clone'.seq = 0 /\ (linked' => clone.seq = subs) BY Zenon, <1>0, <2>1
    <3>2. \A r \in receipts : r.seq \notin {entry.seq, 0, seq} /\ \A q \in receipts : q.seq = r.seq => q = r
      BY <1>0 DEF ListInv, PlacesInv
    <3> QED BY <2>1, <2>2, <3>1, <3>2 DEF PlacesInv
  <2>6. NewestInv'
    <3>1. CASE Whole(clone)
      <4>1. unsure' = unsure BY Zenon, <2>1, <3>1 DEF Whole
      <4> QED BY ZenonT(30), <2>1, <2>3, <3>1, <4>1 DEF ListInv, NewestInv, Adopting
    <3>2. CASE ~Whole(clone)
      <4>1. unsure' = Names BY Zenon, <2>1, <3>2 DEF Whole
      <4> QED BY <4>1 DEF NewestInv
    <3> QED BY <3>1, <3>2
  <2>7. AgainInv' BY <2>1, <2>2, <2>3 DEF ListInv, AgainInv, Adopting
  <2> QED BY <2>4, <2>5, <2>6, <2>7 DEF ListInv
<1>6. CASE Publish
  <2>1. busy = "publish" /\ busy' = "no"
        /\ UNCHANGED <<cache, known, seq, entry, receipts, clone, memory, files, linked, unsure, raced, subs>>
    BY Zenon, <1>6 DEF Publish, listVars, daemonVars
  <2> QED BY Zenon, <2>1 DEF ListInv, ListTypes, PlacesInv, NewestInv, AgainInv, Adopting
<1>7. CASE Withdraw
  <2>1. known' = FALSE /\ linked' = FALSE /\ cache' = Forget(cache, known) /\ known /\ busy = "no"
        /\ UNCHANGED <<seq, entry, receipts, busy, clone, memory, files, unsure, raced, subs>>
    BY Zenon, <1>7 DEF Withdraw
  <2>2. HasList(cache') BY <2>1 DEF Forget, Relisted, HasList, NoRules, Lists, Values
  <2>3. ListTypes' BY Zenon, <2>1, <2>2 DEF ListInv, ListTypes
  <2>4. PlacesInv' BY <2>1 DEF ListInv, PlacesInv
  <2>5. NewestInv' BY Zenon, <2>1 DEF ListInv, NewestInv, Adopting
  <2>6. AgainInv' BY Zenon, <2>1 DEF ListInv, AgainInv, Adopting
  <2> QED BY <2>3, <2>4, <2>5, <2>6 DEF ListInv
<1> QED BY Zenon, <1>2, <1>3, <1>4, <1>5, <1>6, <1>7

\* ListInv is kept by every step.
LEMMA ListStep == ListInv /\ OrderInv /\ [Next]_vars => ListInv'
<1> SUFFICES ASSUME ListInv, OrderInv, [Next]_vars PROVE ListInv'
  OBVIOUS
<1>0. memory \in Lists /\ files \in Lists BY Zenon DEF ListInv, ListTypes
<1>1. ASSUME NEW n \in Names, Delete(n) PROVE ListInv'
  <2> DEFINE sent == [type |-> "delete", name |-> n, value |-> "absent"]
  <2>1. PICK works \in BOOLEAN : Answered(DaemonDeletes(n, works), sent, FALSE) BY Zenon, <1>1 DEF Delete
  <2> DEFINE d == DaemonDeletes(n, works)
  <2>2. sent \in Commands /\ sent.name = n /\ sent.type = "delete" /\ sent.value = "absent" BY DEF Commands
  <2>3. Answered(d, sent, FALSE) BY Zenon, <2>1
  <2>4. /\ d.memory \in Lists /\ d.files \in Lists /\ d.answer \in {"ok", "error"}
        /\ d.memory[n] = "absent" /\ \A m \in Names \ {n} : d.memory[m] = memory[m]
    BY <1>0, DeleteDone
  <2>5. PICK open \in BOOLEAN : open = FALSE BY Zenon
  <2> HIDE DEF d, sent
  <2>6. Answered(d, sent, open) BY Zenon, <2>3, <2>5
  <2> QED BY <2>2, <2>4, <2>5, <2>6, ListOfAnswer
<1>2. ASSUME NEW n \in Names, NEW v \in {"on", "off", "temp"}, Change(n, v) PROVE ListInv'
  <2> DEFINE sent == [type |-> "change", name |-> n, value |-> v]
  <2>1. PICK works \in BOOLEAN, compiles \in BOOLEAN, reloads \in BOOLEAN :
          LET d == DaemonChanges(n, v, works, compiles, reloads)
          IN  Answered(d, sent, d.answer = "error" /\ v # "off")
    BY Zenon, <1>2 DEF Change
  <2> DEFINE d == DaemonChanges(n, v, works, compiles, reloads)
  <2>2. sent \in Commands /\ sent.name = n /\ sent.type = "change" /\ sent.value = v BY Zenon DEF Commands
  <2>3. Answered(d, sent, d.answer = "error" /\ v # "off") BY Zenon, <2>1
  <2>4. /\ d.memory \in Lists /\ d.files \in Lists /\ d.answer \in {"ok", "error"}
        /\ \A m \in Names \ {n} : d.memory[m] = memory[m]
        /\ d.answer = "ok" \/ v = "off" => d.memory[n] = v
    BY <1>0, ChangeDone
  <2> HIDE DEF d, sent
  <2>5. PICK open \in BOOLEAN : open = (d.answer = "error" /\ v # "off") BY Zenon
  <2>6. Answered(d, sent, open) BY <2>3, <2>5
  <2> QED BY Zenon, <2>2, <2>4, <2>5, <2>6, ListOfAnswer
<1>3. CASE UNCHANGED vars
  BY ZenonT(30), <1>3 DEF vars, listVars, daemonVars, ListInv, ListTypes, PlacesInv, NewestInv, AgainInv, Adopting
<1> QED BY Zenon, <1>1, <1>2, <1>3, ListOfPrompt, ListOfSubscribe, ListOfStage, ListOfAdoption DEF Next

\* GuisHaveTheDaemons: what GUIs were sent is the list, the list is what the daemon uses, and
\* adopting it again makes no other list of it, for any journal limit and any number of names,
\* Subscribes, changes, withdrawals and adoptions (rules_sync.rs:85-87, 223-226).
THEOREM GuisHaveTheDaemonsList == Spec => []GuisHaveTheDaemons
<1>1. Init => ListInv
  <2> SUFFICES ASSUME Init PROVE ListInv
    OBVIOUS
  <2>1. NoRules \in Lists BY Zenon DEF NoRules, Lists, Values
  <2>2. IsEntry(NoEntry) BY Zenon, <2>1, FreshList DEF NoEntry
  <2>3. ListTypes
    <3>1. files \in Lists BY DEF Init, Lists, Values
    <3> QED BY Zenon, <2>1, <2>2, <3>1 DEF Init, ListTypes, HasList, EmptyCache
  <2> QED BY Zenon, <2>3 DEF Init, ListInv, PlacesInv, NewestInv, AgainInv, Adopting
<1>2. ListInv /\ OrderInv => ListIsTheDaemons /\ ListAdoptedAgain
  <2> SUFFICES ASSUME ListInv, OrderInv PROVE ListIsTheDaemons /\ ListAdoptedAgain
    OBVIOUS
  <2>0. raced \in [Names -> Nat] /\ seq \in Nat BY Zenon DEF ListInv, ListTypes, OrderInv
  <2>1. ASSUME linked, busy \in {"no", "publish"}, NEW n \in Names \ (unsure \cup Raced)
        PROVE  cache.list[n] = memory[n]
    <3>1. seq = subs /\ raced[n] <= seq BY <2>0, <2>1 DEF ListInv, PlacesInv, Raced
    <3> QED BY <2>1, <3>1 DEF ListInv, NewestInv, Adopting
  <2>2. ASSUME CanBeAdoptedAgain, NEW n \in Names \ Raced
        PROVE  Again.list[n] = cache.list[n]
    <3>1. known /\ ~Adopting /\ entry.seq = seq /\ Whole(entry) BY <2>2 DEF CanBeAdoptedAgain, Adopting, Whole
    <3>2. raced[n] <= seq BY <2>0, <2>2 DEF Raced
    <3>3. Again.list = ListOf(entry)
      <4>1. HasList(cache) /\ IsEntry(entry) BY DEF ListInv, ListTypes
      <4> QED BY <3>1, <4>1, AdoptedList DEF Again
    <3> QED BY <3>1, <3>2, <3>3 DEF ListInv, AgainInv
  <2> QED BY <2>1, <2>2 DEF ListIsTheDaemons, ListAdoptedAgain
<1>3. GuiListIsTheList /\ ListIsTheDaemons /\ ListAdoptedAgain => GuisHaveTheDaemons
  BY DEF GuisHaveTheDaemons
<1> QED BY <1>1, <1>2, <1>3, ListStep, OrderInvHolds, GuisHaveTheList, PTL DEF Spec

=============================================================================
