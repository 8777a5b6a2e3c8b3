--------------------------- MODULE HistoryProofs ----------------------------
(***************************************************************************)
(* What happened is counted, for any rows, sizes and caps.                 *)
(*                                                                         *)
(* HistInv counts what the queue holds against what was pushed, taken and  *)
(* dropped, and orders the rows of the table by their ids; MapsInv does    *)
(* the same for the two maps of rule hits.                                 *)
(*                                                                         *)
(* The disk budget: the page cap's two quotients bound the file and its    *)
(* full journal, and the check in Budget::new leaves the mark above zero.  *)
(***************************************************************************)
EXTENDS HistoryWriter, HistoryBudget, RuleHitMaps, SequenceTheorems, FiniteSetTheorems, TLAPS

-----------------------------------------------------------------------------
(* Numbers *)

\* A set of naturals that is not empty has a least element: what is claimed of every number is
\* proved by showing that there is no least number of which it fails.
LEMMA LeastNat ==
  ASSUME NEW T, T \subseteq Nat, T # {}
  PROVE  \E x \in T : \A y \in T : x <= y
<1>1. PICK x \in T : \A y \in T : ~(<<y, x>> \in OpToRel(<, Nat))
  BY Zenon, WFMin, NatLessThanWellFounded
<1>2. \A y \in T : ~(y < x)
  BY Zenon, <1>1 DEF OpToRel
<1> QED BY <1>2

\* A finite set of naturals has a bound: a smallest set without one would have an element to
\* take away.
LEMMA FiniteBound ==
  ASSUME NEW S, S \subseteq Nat, IsFiniteSet(S)
  PROVE  \E top \in Nat : \A x \in S : x <= top
<1> DEFINE Bounded(U) == \E top \in Nat : \A x \in U : x <= top
           T == {n \in Nat : \E U \in SUBSET S : Cardinality(U) = n /\ ~Bounded(U)}
<1>1. SUFFICES ASSUME ~Bounded(S) PROVE FALSE OBVIOUS
<1>2. Cardinality(S) \in T BY <1>1, FS_CardinalityType
<1>3. PICK n \in T : \A m \in T : n <= m
  <2>1. T \subseteq Nat /\ T # {} BY <1>2
  <2> HIDE DEF T
  <2> QED BY Zenon, <2>1, LeastNat
<1>4. PICK U \in SUBSET S : Cardinality(U) = n /\ ~Bounded(U) BY <1>3
<1>5. PICK x \in U : TRUE
  <2>1. U # {} BY <1>4
  <2> QED BY Zenon, <2>1
<1>6. IsFiniteSet(U) /\ x \in Nat BY Zenon, <1>5, FS_Subset
<1>7. Cardinality(U \ {x}) = n - 1 /\ Cardinality(U \ {x}) \in Nat
  BY <1>4, <1>5, <1>6, FS_RemoveElement, FS_CardinalityType
<1>8. Bounded(U \ {x})
  <2>1. n \in Nat /\ ~(n - 1 \in T) BY <1>3
  <2>2. U \ {x} \in SUBSET S OBVIOUS
  <2> HIDE DEF Bounded
  <2> QED BY <1>7, <2>1, <2>2
<1>9. PICK top \in Nat : \A y \in U \ {x} : y <= top BY <1>8
<1> DEFINE higher == IF x > top THEN x ELSE top
<1>10. higher \in Nat /\ \A y \in U : y <= higher BY <1>6, <1>9
<1> QED BY Zenon, <1>4, <1>10

\* A finite set of naturals that is not empty has a largest element.
LEMMA FiniteMax ==
  ASSUME NEW S, S \subseteq Nat, S # {}, IsFiniteSet(S)
  PROVE  \E m \in S : \A x \in S : x <= m
<1> DEFINE T == {n \in Nat : \A x \in S : x <= n}
<1>1. T \subseteq Nat /\ T # {} BY Zenon, FiniteBound
<1>2. PICK m \in T : \A n \in T : m <= n
  <2> HIDE DEF T
  <2> QED BY Zenon, <1>1, LeastNat
<1>3. m \in S
  <2>1. SUFFICES ASSUME m \notin S PROVE FALSE OBVIOUS
  <2>2. m \in Nat /\ \A x \in S : x <= m /\ x # m /\ x \in Nat BY <1>2, <2>1
  <2>3. m > 0
    <3>1. PICK x \in S : x <= m /\ x # m /\ x \in Nat BY Zenon, <2>2
    <3> QED BY <2>2, <3>1
  <2>4. m - 1 \in T BY <2>2, <2>3
  <2> QED BY <1>2, <2>2, <2>4
<1> QED BY <1>2, <1>3

-----------------------------------------------------------------------------
(* The connection history *)

Items == [ts : Nat, hash : Hashes, size : Sizes]
IsRow(e) == e.id \in Nat /\ e.ts \in Nat

\* The sum of a queue's sizes is what its definition says: were there a place up to which it
\* cannot be built, the place before the first of these would do.
LEMMA RunningIs ==
  ASSUME NEW s \in Seq(Items)
  PROVE  Running(s) = [i \in 0..Len(s) |-> IF i = 0 THEN 0 ELSE Running(s)[i - 1] + s[i].size]
<1> DEFINE Good(g, n) == g = [i \in 0..n |-> IF i = 0 THEN 0 ELSE g[i - 1] + s[i].size]
           T == {n \in 0..Len(s) : ~\E g : Good(g, n)}
<1>0. Len(s) \in Nat OBVIOUS
<1>1. T = {}
  <2> SUFFICES ASSUME T # {} PROVE FALSE OBVIOUS
  <2>1. PICK n \in T : \A m \in T : n <= m
    <3>1. T \subseteq Nat BY <1>0
    <3> HIDE DEF T
    <3> QED BY Zenon, <3>1, LeastNat
  <2>2. n \in 0..Len(s) /\ ~\E g : Good(g, n) BY <2>1
  <2>3. n # 0
    <3> DEFINE g == [i \in 0..0 |-> 0]
    <3>1. Good(g, 0) OBVIOUS
    <3> QED BY Zenon, <2>2, <3>1
  <2>4. n - 1 \in 0..Len(s) /\ n - 1 \notin T
    <3>1. n \in Nat /\ n - 1 \in 0..Len(s) /\ n - 1 < n BY <1>0, <2>2, <2>3
    <3> HIDE DEF T
    <3> QED BY <2>1, <3>1
  <2>5. PICK g : Good(g, n - 1) BY <2>4
  <2> DEFINE h == [i \in 0..n |-> IF i = n THEN g[n - 1] + s[n].size ELSE g[i]]
  <2>6. \A i \in 0..n : h[i] = IF i = 0 THEN 0 ELSE h[i - 1] + s[i].size
    <3> SUFFICES ASSUME NEW i \in 0..n PROVE h[i] = IF i = 0 THEN 0 ELSE h[i - 1] + s[i].size
      BY Zenon
    <3>1. CASE i = 0 BY <2>2, <2>3, <2>5, <3>1
    <3>2. CASE i = n BY <1>0, <2>2, <2>3, <3>2
    <3>3. CASE i # 0 /\ i # n
      <4>1. i \in 0..(n - 1) /\ i - 1 \in 0..n /\ i - 1 # n BY <1>0, <2>2, <3>3
      <4>2. g[i] = g[i - 1] + s[i].size BY Zenon, <2>5, <3>3, <4>1
      <4> QED BY <3>3, <4>1, <4>2
    <3> QED BY <3>1, <3>2, <3>3
  <2>7. Good(h, n)
    <3>1. h = [i \in 0..n |-> h[i]] OBVIOUS
    <3> HIDE DEF h
    <3> QED BY Zenon, <2>6, <3>1
  <2> QED BY Zenon, <2>2, <2>7
<1>2. \E g : Good(g, Len(s)) BY <1>0, <1>1
<1>3. Running(s) = CHOOSE g : Good(g, Len(s)) BY DEF Running
<1>4. Good(Running(s), Len(s)) BY Zenon, <1>2, <1>3
<1> QED BY <1>4

\* The sums are naturals.
LEMMA RunningNat ==
  ASSUME NEW s \in Seq(Items)
  PROVE  \A i \in 0..Len(s) : Running(s)[i] \in Nat
<1> DEFINE R == Running(s)
           T == {i \in 0..Len(s) : R[i] \notin Nat}
<1>1. Len(s) \in Nat OBVIOUS
<1>2. R = [i \in 0..Len(s) |-> IF i = 0 THEN 0 ELSE R[i - 1] + s[i].size] BY RunningIs
<1>3. \A i \in 1..Len(s) : s[i].size \in Nat
  <2>1. \A i \in 1..Len(s) : s[i] \in Items OBVIOUS
  <2>2. \A x \in Items : x.size \in Nat BY Zenon, HistoryAssumption DEF Items
  <2> QED BY <2>1, <2>2
<1> HIDE DEF R
<1> SUFFICES ASSUME T # {} PROVE FALSE BY DEF R
<1>4. PICK n \in T : \A m \in T : n <= m
  <2>1. T \subseteq Nat BY <1>1
  <2> HIDE DEF T
  <2> QED BY Zenon, <2>1, LeastNat
<1>5. n \in 0..Len(s) /\ R[n] \notin Nat BY <1>4
<1>6. n # 0 BY <1>1, <1>2, <1>5
<1>7. n - 1 \in 0..Len(s) /\ n - 1 \notin T BY <1>1, <1>4, <1>5, <1>6
<1>8. R[n - 1] \in Nat /\ R[n] = R[n - 1] + s[n].size BY Zenon, <1>2, <1>5, <1>6, <1>7
<1> QED BY <1>1, <1>3, <1>5, <1>6, <1>8

\* The sums of a queue and of a part of it that begins after place k.
LEMMA RunningOn ==
  ASSUME NEW s \in Seq(Items), NEW t \in Seq(Items), NEW k \in Nat, k + Len(t) <= Len(s),
         \A i \in 1..Len(t) : t[i] = s[k + i]
  PROVE  \A i \in 0..Len(t) : Running(s)[k + i] = Running(s)[k] + Running(t)[i]
<1> DEFINE R == Running(s)
           Q == Running(t)
           T == {i \in 0..Len(t) : R[k + i] # R[k] + Q[i]}
<1>1. Len(s) \in Nat /\ Len(t) \in Nat OBVIOUS
<1>2. R = [i \in 0..Len(s) |-> IF i = 0 THEN 0 ELSE R[i - 1] + s[i].size] BY RunningIs
<1>3. Q = [i \in 0..Len(t) |-> IF i = 0 THEN 0 ELSE Q[i - 1] + t[i].size] BY RunningIs
<1>4. (\A i \in 0..Len(s) : R[i] \in Nat) /\ (\A i \in 0..Len(t) : Q[i] \in Nat) BY RunningNat
<1>5. \A i \in 1..Len(t) : t[i].size \in Nat
  <2>1. \A i \in 1..Len(t) : t[i] \in Items OBVIOUS
  <2>2. \A x \in Items : x.size \in Nat BY Zenon, HistoryAssumption DEF Items
  <2> QED BY <2>1, <2>2
<1> HIDE DEF R, Q
<1> SUFFICES ASSUME T # {} PROVE FALSE BY Zenon DEF R, Q
<1>6. PICK n \in T : \A m \in T : n <= m
  <2>1. T \subseteq Nat BY <1>1
  <2> HIDE DEF T
  <2> QED BY Zenon, <2>1, LeastNat
<1>7. n \in 0..Len(t) /\ R[k + n] # R[k] + Q[n] BY <1>6
<1>8. n # 0
  <2>1. Q[0] = 0 BY <1>1, <1>3
  <2>2. k \in 0..Len(s) BY <1>1
  <2>3. R[k] \in Nat /\ k + 0 = k BY <1>4, <2>2
  <2> QED BY <1>7, <2>1, <2>3
<1>9. n - 1 \in 0..Len(t) /\ n - 1 \notin T BY <1>1, <1>6, <1>7, <1>8
<1>10. R[k + (n - 1)] = R[k] + Q[n - 1] BY <1>9
<1>11. Q[n] = Q[n - 1] + t[n].size BY Zenon, <1>3, <1>7, <1>8
<1>12. R[k + n] = R[k + (n - 1)] + t[n].size
  <2>1. k + n \in 0..Len(s) /\ k + n # 0 /\ (k + n) - 1 = k + (n - 1) BY <1>1, <1>7, <1>8
  <2>2. R[k + n] = R[(k + n) - 1] + s[k + n].size BY Zenon, <1>2, <2>1
  <2>3. t[n] = s[k + n] BY <1>1, <1>7, <1>8
  <2> QED BY Zenon, <2>1, <2>2, <2>3
<1>13. k \in 0..Len(s) /\ n \in 1..Len(t) BY <1>1, <1>7, <1>8
<1>14. R[k] \in Nat /\ Q[n - 1] \in Nat /\ t[n].size \in Nat BY Zenon, <1>4, <1>5, <1>9, <1>13
<1>15. \A a, b, c \in Nat : (a + b) + c = a + (b + c) OBVIOUS
<1>16. (R[k] + Q[n - 1]) + t[n].size = R[k] + (Q[n - 1] + t[n].size) BY Zenon, <1>14, <1>15
<1> QED BY Zenon, <1>7, <1>10, <1>11, <1>12, <1>16

\* An item more adds its size.
LEMMA SumAppend ==
  ASSUME NEW s \in Seq(Items), NEW x \in Items
  PROVE  SumOf(Append(s, x)) = SumOf(s) + x.size
<1> DEFINE u == Append(s, x)
           n == Len(s)
<1>1. u \in Seq(Items) /\ Len(u) = n + 1 /\ n \in Nat /\ u[n + 1] = x /\ \A i \in 1..n : s[i] = u[0 + i]
  OBVIOUS
<1> HIDE DEF u
<1>2. \A i \in 0..n : Running(u)[0 + i] = Running(u)[0] + Running(s)[i] BY <1>1, RunningOn
<1>3. Running(u)[0] = 0 /\ Running(u)[n + 1] = Running(u)[n] + x.size
  <2>1. 0 \in 0..Len(u) /\ n + 1 \in 0..Len(u) /\ n + 1 # 0 /\ (n + 1) - 1 = n BY <1>1
  <2> HIDE DEF n
  <2> QED BY <1>1, <2>1, RunningIs
<1>4. Running(s)[n] \in Nat /\ n \in 0..n /\ 0 + n = n BY <1>1, RunningNat
<1>5. Running(u)[n] = Running(s)[n] BY <1>2, <1>3, <1>4
<1> QED BY Zenon, <1>1, <1>3, <1>5 DEF SumOf, u

\* A queue counts for its first k items and the others.
LEMMA SumSplit ==
  ASSUME NEW s \in Seq(Items), NEW k \in 0..Len(s)
  PROVE  /\ SumOf(SubSeq(s, 1, k)) \in Nat /\ SumOf(SubSeq(s, k + 1, Len(s))) \in Nat
         /\ SumOf(s) = SumOf(SubSeq(s, 1, k)) + SumOf(SubSeq(s, k + 1, Len(s)))
<1> DEFINE p == SubSeq(s, 1, k)
           q == SubSeq(s, k + 1, Len(s))
           n == Len(s)
<1>0. n \in Nat /\ k \in Nat /\ k <= n OBVIOUS
<1>1. p \in Seq(Items) /\ Len(p) = k /\ \A i \in 1..k : p[i] = s[0 + i] BY <1>0, SubSeqProperties
<1>2. q \in Seq(Items) /\ Len(q) = n - k /\ \A i \in 1..(n - k) : q[i] = s[k + i] BY <1>0, SubSeqProperties
<1> HIDE DEF p, q
<1>3. \A i \in 0..k : Running(s)[0 + i] = Running(s)[0] + Running(p)[i] BY <1>0, <1>1, RunningOn
<1>4. \A i \in 0..(n - k) : Running(s)[k + i] = Running(s)[k] + Running(q)[i]
  <2>1. k + Len(q) <= Len(s) BY <1>0, <1>2
  <2>2. \A i \in 1..Len(q) : q[i] = s[k + i] BY <1>2
  <2>3. \A i \in 0..Len(q) : Running(s)[k + i] = Running(s)[k] + Running(q)[i] BY Zenon, <1>0, <1>2, <2>1, <2>2, RunningOn
  <2> QED BY <1>2, <2>3
<1>5. Running(s)[0] = 0 BY <1>0, RunningIs
<1>6. Running(p)[k] \in Nat /\ Running(q)[n - k] \in Nat BY <1>0, <1>1, <1>2, RunningNat
<1>7. Running(s)[k] = Running(p)[k] BY <1>0, <1>3, <1>5, <1>6
<1>8. Running(s)[n] = Running(s)[k] + Running(q)[n - k]
  <2>1. n - k \in 0..(n - k) /\ k + (n - k) = n BY <1>0
  <2> QED BY <1>4, <2>1
<1> QED BY Zenon, <1>1, <1>2, <1>6, <1>7, <1>8 DEF SumOf, p, q

\* Events are finitely many, with an id each
TableInv ==
  /\ IsFiniteSet(events) /\ (\A e \in events : IsRow(e)) /\ \A e, f \in events : e.id = f.id => e = f
  /\ free \in Nat /\ SnapshotsOfEvents /\ FileWithinCap

\* Only the writer's own steps hold a batch, and what was offered is somewhere
QueueInv ==
  /\ items \in Seq(Items) /\ batch \in Seq(Items)
  /\ {dropped, lost, pushes, written, swallowed} \subseteq Nat
  /\ writer \in {"loop", "room", "vacuum", "ended", "unwinding", "panicked"}
  /\ writer \notin {"room", "vacuum"} => batch = <<>>
  /\ bytes \in Nat /\ QueueBounded /\ EveryEventIsAccounted /\ NothingQueuedForNobody

\* The hashes of finitely many events are finitely many.
LEMMA HashesFinite ==
  ASSUME NEW S, IsFiniteSet(S)
  PROVE  IsFiniteSet({e.hash : e \in S})
<1> DEFINE T == {e.hash : e \in S}
           f == [e \in S |-> e.hash]
<1>1. f \in Surjection(S, T) BY DEF Surjection
<1> HIDE DEF f, T
<1>2. IsFiniteSet(T) BY <1>1, FS_Surjection
<1> QED BY <1>2 DEF T

\* The id of the next event is larger than every other.
LEMMA NextIdIsNew ==
  ASSUME TableInv
  PROVE  NextId \in Nat /\ \A e \in events : e.id < NextId
<1>1. CASE events = {} BY <1>1 DEF NextId
<1>2. CASE events # {}
  <2> DEFINE ids == {e.id : e \in events}
             f == [e \in events |-> e.id]
  <2>1. f \in Surjection(events, ids) BY DEF Surjection
  <2>2. ids \subseteq Nat /\ ids # {} BY <1>2 DEF TableInv, IsRow
  <2>3. IsFiniteSet(ids)
    <3> HIDE DEF f, ids
    <3> QED BY <2>1, FS_Surjection DEF TableInv
  <2>4. \E n \in ids : \A x \in ids : x <= n
    <3> HIDE DEF ids
    <3> QED BY Zenon, <2>2, <2>3, FiniteMax
  <2>5. \E n \in ids : \A e \in events : e.id <= n BY <2>4
  <2> DEFINE top == CHOOSE n \in ids : \A e \in events : e.id <= n
  <2>6. top \in ids /\ \A e \in events : e.id <= top BY <2>5
  <2>7. NextId = 1 + top BY <1>2 DEF NextId
  <2> HIDE DEF top
  <2>8. top \in Nat BY <2>2, <2>6
  <2> QED BY <2>6, <2>7, <2>8 DEF TableInv, IsRow
<1> QED BY <1>1, <1>2

\* evict_chunk gives the pages of what it takes to the freelist, and takes the snapshots that
\* no event refers to any more.
LEMMA EvictKeeps ==
  ASSUME TableInv, EvictChunk
  PROVE  TableInv'
<1> DEFINE gone == Oldest(RowsPerTxn)
           rest == events \ gone
           orphans == {h \in snapshotted : (\E e \in gone : e.hash = h) /\ ~\E e \in rest : e.hash = h}
<1>1. /\ events' = rest /\ snapshotted' = snapshotted \ orphans
      /\ free' = free + Cardinality(gone) + Cardinality(orphans)
  BY DEF EvictChunk
<1>2. gone \subseteq events /\ orphans \subseteq snapshotted BY DEF Oldest
<1>3. IsFiniteSet(events) /\ IsFiniteSet(snapshotted) BY HashesFinite DEF TableInv, SnapshotsOfEvents
<1>4. /\ IsFiniteSet(rest) /\ Cardinality(rest) = Cardinality(events) - Cardinality(gone)
      /\ Cardinality(events) \in Nat /\ Cardinality(gone) \in Nat
  <2>1. events \cap gone = gone BY <1>2
  <2>2. IsFiniteSet(gone) BY <1>2, <1>3, FS_Subset
  <2> HIDE DEF gone
  <2> QED BY Zenon, <1>3, <2>1, <2>2, FS_Difference, FS_CardinalityType
<1>5. /\ Cardinality(snapshotted \ orphans) = Cardinality(snapshotted) - Cardinality(orphans)
      /\ Cardinality(snapshotted) \in Nat /\ Cardinality(orphans) \in Nat
  <2>1. snapshotted \cap orphans = orphans BY <1>2
  <2>2. IsFiniteSet(orphans) BY <1>2, <1>3, FS_Subset
  <2> HIDE DEF orphans
  <2> QED BY Zenon, <1>3, <2>1, <2>2, FS_Difference, FS_CardinalityType
<1>6. SnapshotsOfEvents' BY <1>1, <1>2 DEF TableInv, SnapshotsOfEvents
<1>7. FileWithinCap' /\ free' \in Nat
  <2> HIDE DEF gone, rest, orphans
  <2> QED BY <1>1, <1>4, <1>5 DEF TableInv, FileWithinCap, UsedPages
<1> QED BY Zenon, <1>1, <1>4, <1>6, <1>7 DEF TableInv

\* insert_batch: new ids, the snapshots of what is inserted, and no page above the cap.
LEMMA InsertKeeps ==
  ASSUME TableInv, batch \in Seq(Items), InsertBatch
  PROVE  TableInv'
<1> DEFINE row(i) == [id |-> NextId + i - 1, ts |-> batch[i].ts, hash |-> batch[i].hash]
           new == {row(i) : i \in DOMAIN batch}
           all == events \cup new
           hashes == snapshotted \cup {e.hash : e \in new}
           grown == Cardinality(all) + Cardinality(hashes)
<1>1. CASE /\ WithinPages(grown) /\ events' = all /\ snapshotted' = hashes
           /\ free' = IF grown > UsedPages + free THEN 0 ELSE UsedPages + free - grown
  <2>1. DOMAIN batch = 1..Len(batch) /\ Len(batch) \in Nat /\ \A i \in 1..Len(batch) : batch[i] \in Items
    OBVIOUS
  <2>2. NextId \in Nat /\ \A e \in events : e.id < NextId BY NextIdIsNew
  <2>3. IsFiniteSet(new)
    <3> DEFINE f == [i \in 1..Len(batch) |-> row(i)]
    <3>1. f \in Surjection(1..Len(batch), new) BY <2>1 DEF Surjection
    <3>2. IsFiniteSet(1..Len(batch)) BY <2>1, FS_Interval
    <3> HIDE DEF f, new
    <3> QED BY Zenon, <3>1, <3>2, FS_Surjection
  <2>4. \A e \in new : IsRow(e)
    <3> SUFFICES ASSUME NEW i \in 1..Len(batch) PROVE IsRow(row(i)) BY <2>1
    <3> QED BY <2>1, <2>2 DEF IsRow, Items
  <2>5. \A e, f \in all : e.id = f.id => e = f
    <3>1. \A i \in 1..Len(batch) : row(i).id = NextId + i - 1 OBVIOUS
    <3>2. \A e \in new : e.id >= NextId BY <2>1, <2>2, <3>1
    <3>3. \A e, f \in new : e.id = f.id => e = f
      <4> SUFFICES ASSUME NEW i \in 1..Len(batch), NEW j \in 1..Len(batch), row(i).id = row(j).id
                   PROVE  i = j
        BY <2>1
      <4> QED BY <2>2, <3>1
    <3> HIDE DEF new
    <3>4. \A e \in events, f \in new : e.id # f.id
      <4> TAKE e \in events, f \in new
      <4>1. e.id \in Nat /\ f.id \in Nat BY <2>4 DEF TableInv, IsRow
      <4> QED BY <2>2, <3>2, <4>1
    <3> QED BY <3>3, <3>4 DEF TableInv
  <2>6. IsFiniteSet(all) /\ Cardinality(all) \in Nat
    <3> HIDE DEF new
    <3> QED BY Zenon, <2>3, FS_Union, FS_CardinalityType DEF TableInv
  <2>7. hashes = {e.hash : e \in all} BY DEF TableInv, SnapshotsOfEvents
  <2>8. Cardinality(hashes) \in Nat
    <3> HIDE DEF all, hashes
    <3> QED BY Zenon, <2>6, <2>7, HashesFinite, FS_CardinalityType
  <2>9. SnapshotsOfEvents' /\ UsedPages' = grown BY Zenon, <1>1, <2>7 DEF SnapshotsOfEvents, UsedPages
  <2>10. free' \in Nat /\ FileWithinCap'
    <3>1. UsedPages \in Nat
      <4>1. IsFiniteSet(events) /\ IsFiniteSet(snapshotted) BY Zenon, HashesFinite DEF TableInv, SnapshotsOfEvents
      <4> QED BY <4>1, FS_CardinalityType DEF UsedPages
    <3>2. grown \in Nat BY <2>6, <2>8
    <3>3. UsedPages + free <= MaxPages /\ free \in Nat /\ grown <= MaxPages /\ MaxPages \in Nat
      BY Zenon, <1>1, HistoryAssumption DEF TableInv, FileWithinCap, WithinPages
    <3> HIDE DEF grown
    <3> QED BY <1>1, <2>9, <3>1, <3>2, <3>3 DEF FileWithinCap
  <2> HIDE DEF new
  <2> QED BY Zenon, <1>1, <2>4, <2>5, <2>6, <2>9, <2>10 DEF TableInv
<1>2. CASE UNCHANGED tableVars
  BY <1>2 DEF tableVars, TableInv, SnapshotsOfEvents, FileWithinCap, UsedPages
<1> QED BY Zenon, <1>1, <1>2 DEF InsertBatch, WriteFails

\* try_push: what is refused is counted, what is taken is within both bounds.
LEMMA PushStep ==
  ASSUME QueueInv, NEW x \in Items, TryPush(x)
  PROVE  QueueInv'
<1>1. pushes' = pushes + 1 /\ batch' = batch /\ writer' = writer /\ closed' = closed
      /\ lost' = lost /\ written' = written /\ swallowed' = swallowed
  BY Zenon DEF TryPush, historyCountVars
<1>2. CASE Fits(x) /\ items' = Append(items, x) /\ bytes' = bytes + x.size /\ dropped' = dropped
  <2>1. items' \in Seq(Items) /\ Len(items') = Len(items) + 1 /\ Len(items) \in Nat /\ Len(batch) \in Nat
    BY <1>2 DEF QueueInv
  <2>2. SumOf(items') = SumOf(items) + x.size BY <1>2, SumAppend DEF QueueInv
  <2>3. x.size \in Nat BY Zenon, HistoryAssumption DEF Items
  <2>4. QueueBounded' /\ bytes' \in Nat
    <3>1. QueueMaxCount \in Nat /\ QueueMaxBytes \in Nat BY HistoryAssumption
    <3>2. Len(items) < QueueMaxCount /\ bytes + x.size <= QueueMaxBytes BY <1>2 DEF Fits
    <3>3. bytes \in Nat /\ bytes = SumOf(items) BY DEF QueueInv, QueueBounded
    <3>4. Len(items') <= QueueMaxCount BY <2>1, <3>1, <3>2
    <3>5. bytes' = SumOf(items') /\ bytes' \in Nat /\ bytes' <= QueueMaxBytes BY <1>2, <2>2, <2>3, <3>2, <3>3
    <3> QED BY Zenon, <3>4, <3>5 DEF QueueBounded
  <2>5. EveryEventIsAccounted'
    <3>1. /\ pushes = dropped + Len(items) + Len(batch) + written + lost + swallowed
          /\ dropped \in Nat /\ written \in Nat /\ lost \in Nat /\ swallowed \in Nat
      BY Zenon DEF QueueInv, EveryEventIsAccounted
    <3>2. pushes' = dropped + (Len(items) + 1) + Len(batch) + written + lost + swallowed
      BY <1>1, <2>1, <3>1
    <3> QED BY Zenon, <1>1, <1>2, <2>1, <3>2 DEF EveryEventIsAccounted
  <2>6. NothingQueuedForNobody'
    <3>1. writer \notin {"ended", "panicked"} BY Zenon, <1>2 DEF QueueInv, NothingQueuedForNobody, Fits
    <3> QED BY Zenon, <1>1, <3>1 DEF NothingQueuedForNobody
  <2> QED BY <1>1, <1>2, <2>1, <2>4, <2>5, <2>6 DEF QueueInv
<1>3. CASE dropped' = dropped + 1 /\ items' = items /\ bytes' = bytes
  <2>1. Len(items) \in Nat /\ Len(batch) \in Nat BY DEF QueueInv
  <2>2. EveryEventIsAccounted'
    <3>1. dropped \in Nat /\ lost \in Nat /\ pushes \in Nat /\ written \in Nat /\ swallowed \in Nat BY DEF QueueInv
    <3>2. pushes = dropped + Len(items) + Len(batch) + written + lost + swallowed
      BY DEF QueueInv, EveryEventIsAccounted
    <3>3. pushes + 1 = (dropped + 1) + Len(items) + Len(batch) + written + lost + swallowed BY <2>1, <3>1, <3>2
    <3> QED BY <1>1, <1>3, <3>3 DEF EveryEventIsAccounted
  <2>3. QueueBounded' BY Zenon, <1>3 DEF QueueInv, QueueBounded
  <2>4. NothingQueuedForNobody' BY Zenon, <1>1, <1>3 DEF QueueInv, NothingQueuedForNobody
  <2> QED BY <1>1, <1>3, <2>2, <2>3, <2>4 DEF QueueInv
<1> QED BY <1>2, <1>3 DEF TryPush

\* pop_batch: the batch and the rest are the queue, and the bytes taken off are the batch's.
LEMMA PopStep ==
  ASSUME QueueInv, PopBatch
  PROVE  QueueInv'
<1>1. Len(items) \in Nat /\ items \in Seq(Items) BY DEF QueueInv
<1>2. Takes \in 0..Len(items) BY <1>1, HistoryAssumption DEF Takes
<1>3. /\ batch' = SubSeq(items, 1, Takes) /\ items' = SubSeq(items, Takes + 1, Len(items))
      /\ bytes' = (IF SumOf(SubSeq(items, 1, Takes)) > bytes THEN 0 ELSE bytes - SumOf(SubSeq(items, 1, Takes)))
      /\ writer = "loop" /\ writer' = "room" /\ closed' = closed /\ pushes' = pushes
      /\ dropped' = dropped /\ lost' = lost /\ written' = written /\ swallowed' = swallowed
  BY DEF PopBatch, historyCountVars
<1>4. batch' \in Seq(Items) /\ Len(batch') = Takes BY <1>1, <1>2, <1>3, SubSeqProperties
<1>5. items' \in Seq(Items) /\ Len(items') = Len(items) - Takes BY <1>1, <1>2, <1>3, SubSeqProperties
<1>6. bytes = SumOf(items) /\ bytes \in Nat BY DEF QueueInv, QueueBounded
<1>7. bytes' = SumOf(items') /\ bytes' \in Nat /\ bytes' <= bytes
  <2>1. /\ SumOf(SubSeq(items, 1, Takes)) \in Nat /\ SumOf(items') \in Nat
        /\ SumOf(items) = SumOf(SubSeq(items, 1, Takes)) + SumOf(items')
    BY Zenon, <1>1, <1>2, <1>3, SumSplit
  <2> QED BY <1>3, <1>6, <2>1
<1>8. QueueBounded'
  <2>1. Len(items) <= QueueMaxCount /\ bytes <= QueueMaxBytes BY DEF QueueInv, QueueBounded
  <2>2. QueueMaxCount \in Nat /\ QueueMaxBytes \in Nat BY HistoryAssumption
  <2>3. Len(items') <= QueueMaxCount BY <1>1, <1>2, <1>5, <2>1, <2>2
  <2>4. bytes' <= QueueMaxBytes BY <1>6, <1>7, <2>1, <2>2
  <2> QED BY Zenon, <1>7, <2>3, <2>4 DEF QueueBounded
<1>9. EveryEventIsAccounted'
  <2>1. Len(batch) = 0 BY <1>3 DEF QueueInv
  <2> QED BY <1>1, <1>2, <1>3, <1>4, <1>5, <2>1 DEF QueueInv, EveryEventIsAccounted
<1>10. NothingQueuedForNobody' BY <1>3 DEF NothingQueuedForNobody
<1> QED BY Zenon, <1>3, <1>4, <1>5, <1>7, <1>8, <1>9, <1>10 DEF QueueInv

\* A batch leaves the writer's hand into exactly one of the three counts.
LEMMA BatchLeaves ==
  ASSUME QueueInv, UNCHANGED queueVars, batch' = <<>>, writer \in {"room", "vacuum"},
         \/ lost' = lost + Len(batch) /\ written' = written /\ swallowed' = swallowed /\ writer' = "loop"
         \/ lost' = lost /\ written' = written + Len(batch) /\ swallowed' = swallowed /\ writer' = "loop"
         \/ lost' = lost /\ written' = written /\ swallowed' = swallowed + Len(batch) /\ writer' = "unwinding"
  PROVE  QueueInv'
<1>1. Len(items) \in Nat /\ Len(batch) \in Nat /\ Len(batch') = 0 BY DEF QueueInv
<1>2. {lost', written', swallowed'} \subseteq Nat BY <1>1 DEF QueueInv
<1>3. EveryEventIsAccounted' BY <1>1 DEF QueueInv, EveryEventIsAccounted, queueVars
<1>4. QueueBounded' BY DEF QueueInv, QueueBounded, queueVars
<1>5. NothingQueuedForNobody' BY DEF NothingQueuedForNobody
<1>6. writer' \in {"loop", "unwinding"} /\ batch' \in Seq(Items) OBVIOUS
<1> QED BY Zenon, <1>2, <1>3, <1>4, <1>5, <1>6 DEF QueueInv, queueVars

\* A step of the thread that moves no event.
LEMMA ThreadMoves ==
  ASSUME QueueInv, items' = items, bytes' = bytes, dropped' = dropped, pushes' = pushes, batch' = batch,
         UNCHANGED historyCountVars, NothingQueuedForNobody',
         writer' \in {"loop", "room", "vacuum", "ended", "unwinding", "panicked"},
         writer' \notin {"room", "vacuum"} => batch = <<>>
  PROVE  QueueInv'
<1>1. EveryEventIsAccounted' BY DEF QueueInv, EveryEventIsAccounted, historyCountVars
<1>2. QueueBounded' BY DEF QueueInv, QueueBounded
<1> QED BY <1>1, <1>2 DEF QueueInv, historyCountVars

HistInv == QueueInv /\ TableInv

\* Every step keeps the queue, the writer's hand and the table in order.
LEMMA HistoryStep ==
  ASSUME HistInv, [HistoryNext]_historyVars
  PROVE  HistInv'
<1> USE DEF HistInv
<1>0. UNCHANGED tableVars => TableInv'
  BY DEF tableVars, TableInv, SnapshotsOfEvents, FileWithinCap, UsedPages
<1>1. ASSUME NEW ts \in Stamps, NEW h \in Hashes, NEW size \in Sizes,
             TryPush([ts |-> ts, hash |-> h, size |-> size])
      PROVE  HistInv'
  <2>1. [ts |-> ts, hash |-> h, size |-> size] \in Items BY HistoryAssumption DEF Items
  <2>2. QueueInv' BY Zenon, <1>1, <2>1, PushStep
  <2>3. UNCHANGED tableVars BY <1>1 DEF TryPush
  <2> QED BY Zenon, <1>0, <2>2, <2>3
<1>2. CASE CloseQueue
  <2>1. NothingQueuedForNobody' BY Zenon, <1>2 DEF CloseQueue, QueueInv, NothingQueuedForNobody
  <2>2. QueueInv' BY Zenon, <1>2, <2>1, ThreadMoves DEF CloseQueue, QueueInv
  <2> QED BY Zenon, <1>0, <1>2, <2>2 DEF CloseQueue
<1>3. CASE WriterEnds
  <2>1. NothingQueuedForNobody'
    BY Zenon, <1>3 DEF WriterEnds, Finished, QueueInv, NothingQueuedForNobody, queueVars
  <2>2. QueueInv' BY Zenon, <1>3, <2>1, ThreadMoves DEF WriterEnds, QueueInv, queueVars
  <2> QED BY Zenon, <1>0, <1>3, <2>2 DEF WriterEnds
<1>4. CASE PopBatch BY <1>0, <1>4, PopStep DEF PopBatch
<1>5. CASE MakeRoom
  <2>1. TableInv' BY <1>5, EvictKeeps DEF MakeRoom
  <2>2. NothingQueuedForNobody' BY Zenon, <1>5 DEF MakeRoom, NothingQueuedForNobody
  <2>3. QueueInv' BY Zenon, <1>5, <2>2, ThreadMoves DEF MakeRoom, QueueInv, queueVars
  <2> QED BY <2>1, <2>3
<1>6. CASE VacuumChunk
  <2>1. free' \in Nat /\ free' <= free BY <1>6, HistoryAssumption DEF VacuumChunk, TableInv
  <2>2. UsedPages \in Nat
    <3>1. IsFiniteSet(events) /\ IsFiniteSet(snapshotted) BY HashesFinite DEF TableInv, SnapshotsOfEvents
    <3> QED BY <3>1, FS_CardinalityType DEF UsedPages
  <2>3. FileWithinCap'
    <3>1. UsedPages' = UsedPages BY Zenon, <1>6 DEF VacuumChunk, UsedPages
    <3> QED BY <2>1, <2>2, <3>1, HistoryAssumption DEF FileWithinCap, TableInv
  <2>4. TableInv' BY <1>6, <2>1, <2>3 DEF VacuumChunk, TableInv, SnapshotsOfEvents
  <2>5. writer = "vacuum" /\ writer' \in {"room", "vacuum"} BY <1>6 DEF VacuumChunk
  <2>6. NothingQueuedForNobody' BY Zenon, <2>5 DEF NothingQueuedForNobody
  <2>7. QueueInv' BY Zenon, <1>6, <2>5, <2>6, ThreadMoves DEF VacuumChunk, QueueInv, queueVars
  <2> QED BY <2>4, <2>7
<1>7. CASE NoRoom BY Zenon, <1>0, <1>7, BatchLeaves DEF NoRoom, WriteFails
<1>8. CASE InsertBatch
  <2>1. TableInv' BY <1>8, InsertKeeps DEF QueueInv
  <2>2. QueueInv' BY Zenon, <1>8, BatchLeaves DEF InsertBatch, WriteFails
  <2> QED BY <2>1, <2>2
<1>9. CASE CloseOnExit
  <2>1. NothingQueuedForNobody' BY Zenon, <1>9 DEF CloseOnExit, NothingQueuedForNobody
  <2>2. QueueInv' BY Zenon, <1>9, <2>1, ThreadMoves DEF CloseOnExit, QueueInv
  <2> QED BY <1>0, <1>9, <2>2 DEF CloseOnExit
<1>10. CASE WriteError BY <1>0, <1>10, BatchLeaves DEF WriteError, WriteFails
<1>11. CASE WriterPanics BY <1>0, <1>11, BatchLeaves DEF WriterPanics
<1>12. CASE UNCHANGED historyVars
  <2>1. NothingQueuedForNobody' BY Zenon, <1>12 DEF historyVars, QueueInv, NothingQueuedForNobody
  <2>2. QueueInv' BY <1>12, <2>1, ThreadMoves DEF historyVars, historyCountVars, QueueInv
  <2> QED BY Zenon, <1>0, <1>12, <2>2 DEF historyVars, tableVars
<1> QED BY Zenon, <1>1, <1>2, <1>3, <1>4, <1>5, <1>6, <1>7, <1>8, <1>9, <1>10, <1>11, <1>12
        DEF HistoryNext, WriterSteps

\* A file that an earlier run left within the cap is in order.
LEMMA HistoryStart ==
  ASSUME HistoryInit
  PROVE  HistInv
<1>1. SumOf(<<>>) = 0
  <2>1. <<>> \in Seq(Items) /\ Len(<<>>) = 0 OBVIOUS
  <2>2. Running(<<>>) = [i \in 0..0 |-> IF i = 0 THEN 0 ELSE Running(<<>>)[i - 1] + <<>>[i].size]
    BY Zenon, <2>1, RunningIs
  <2>3. Running(<<>>)[0] = 0 BY <2>2
  <2> QED BY <2>1, <2>3 DEF SumOf
<1>2. QueueInv
  BY <1>1, HistoryAssumption DEF HistoryInit, QueueInv, QueueBounded, EveryEventIsAccounted, NothingQueuedForNobody
<1>3. IsFiniteSet(events) /\ IsFiniteSet(snapshotted)
  BY HistoryAssumption, HashesFinite DEF HistoryInit
<1>4. UsedPages \in Nat BY <1>3, FS_CardinalityType DEF UsedPages
<1>5. TableInv
  BY <1>3, <1>4, HistoryAssumption DEF HistoryInit, TableInv, IsRow, SnapshotsOfEvents, FileWithinCap
<1> QED BY <1>2, <1>5 DEF HistInv

\* The history loses nothing silently and outgrows nothing, whatever its bounds, budget and
\* batch size are: every event offered is queued, in hand or in one of the counts, the queue
\* counts its own bytes, the file stays within its cap, and the snapshots are those of the
\* events it holds.
THEOREM HistoryStaysAccounted == HistorySpec => []HistoryIsAccounted
<1>1. HistoryInit => HistInv BY HistoryStart
<1>2. HistInv /\ [HistoryNext]_historyVars => HistInv' BY HistoryStep
<1>3. HistInv => HistoryIsAccounted BY DEF HistInv, QueueInv, TableInv, HistoryIsAccounted
<1> QED BY <1>1, <1>2, <1>3, PTL DEF HistorySpec

\* What evict_chunk takes is older than what it leaves: an event that is not taken has as
\* many before it as a chunk, so none of the taken can come after it.
LEMMA OldestFirst ==
  ASSUME TableInv, NEW n \in Nat, NEW e \in Oldest(n), NEW f \in events \ Oldest(n)
  PROVE  Before(e, f)
<1> DEFINE earlier(x) == {g \in events : Before(g, x)}
<1>1. e \in events /\ IsRow(e) /\ IsRow(f) BY DEF Oldest, TableInv
<1>2. SUFFICES ASSUME ~Before(e, f) PROVE FALSE OBVIOUS
<1>3. Before(f, e)
  <2>1. e.id # f.id BY <1>1 DEF TableInv
  <2> QED BY <1>1, <1>2, <2>1 DEF Before, IsRow
<1>4. earlier(f) \subseteq earlier(e)
  <2> SUFFICES ASSUME NEW g \in events, Before(g, f) PROVE Before(g, e) OBVIOUS
  <2>1. IsRow(g) BY DEF TableInv
  <2> QED BY <1>1, <1>3, <2>1 DEF Before, IsRow
<1>5. IsFiniteSet(earlier(e)) BY Zenon, FS_Subset DEF TableInv
<1>6. /\ Cardinality(earlier(f)) <= Cardinality(earlier(e))
      /\ Cardinality(earlier(f)) \in Nat /\ Cardinality(earlier(e)) \in Nat
  <2> HIDE DEF earlier
  <2> QED BY Zenon, <1>4, <1>5, FS_Subset, FS_CardinalityType
<1>7. Cardinality(earlier(e)) < n /\ ~(Cardinality(earlier(f)) < n) BY DEF Oldest
<1> QED BY <1>6, <1>7

\* An event goes only to make room, and only after all that are older.
THEOREM OldestAlwaysFirst == HistorySpec => OldestGoFirst
<1> DEFINE Fair == \A e \in events \ events' : UsedPages > HighWater /\ \A f \in events' : Before(e, f)
<1>1. HistoryInit => HistInv BY HistoryStart
<1>2. HistInv /\ [HistoryNext]_historyVars => HistInv' BY HistoryStep
<1>3. ASSUME HistInv, [HistoryNext]_historyVars
      PROVE  Fair
  <2>1. CASE MakeRoom
    <3>1. events' = events \ Oldest(RowsPerTxn) /\ UsedPages > HighWater BY Zenon, <2>1 DEF MakeRoom, EvictChunk
    <3>2. RowsPerTxn \in Nat /\ TableInv BY <1>3, HistoryAssumption DEF HistInv
    <3> QED BY Zenon, <3>1, <3>2, OldestFirst
  <2>2. CASE InsertBatch
    <3>1. events \subseteq events' BY <2>2 DEF InsertBatch, WriteFails, tableVars
    <3> QED BY Zenon, <3>1
  <2>3. CASE ~MakeRoom /\ ~InsertBatch
    <3>1. events' = events
      BY Zenon, <1>3, <2>3 DEF HistoryNext, WriterSteps, TryPush, CloseQueue, WriterEnds, PopBatch, VacuumChunk, NoRoom,
         CloseOnExit, WriteError, WriterPanics, WriteFails, tableVars, historyVars
    <3> QED BY <3>1
  <2> QED BY Zenon, <2>1, <2>2, <2>3
<1>4. HistInv /\ [HistoryNext]_historyVars => [Fair]_historyVars BY <1>3
<1> HIDE DEF Fair
<1>5. HistorySpec => [][Fair]_historyVars BY <1>1, <1>2, <1>4, PTL DEF HistorySpec
<1> QED BY <1>5 DEF OldestGoFirst, Fair

-----------------------------------------------------------------------------
(* The maps of rule hits *)

\* The maps' values are counts, and what is owed bounds and, without a gap, equals what is held
MapsInv ==
  /\ mainMap \in [HitNames -> Nat] /\ sideMap \in [HitNames -> Nat] /\ restoredMap \in [HitNames -> Nat]
  /\ owed \in [HitNames -> Nat] /\ lossy \in BOOLEAN
  /\ HitsStay

\* count: the hit goes to one map, or the gap is noted.
LEMMA CountStep ==
  ASSUME MapsInv, NEW n \in HitNames, HitIsCounted(n)
  PROVE  MapsInv'
<1>1. owed' = [owed EXCEPT ![n] = @ + 1] /\ owed' \in [HitNames -> Nat] BY DEF HitIsCounted, MapsInv
<1>2. CASE lossy' = TRUE /\ UNCHANGED maps
  <2>1. \A m \in HitNames : Held(m)' <= owed'[m]
    BY <1>1, <1>2 DEF maps, Held, MapsInv, HitsStay, NoHitOfAnother
  <2> QED BY Zenon, <1>1, <1>2, <2>1 DEF MapsInv, maps, HitsStay, NoHitVanishes, NoHitOfAnother
<1>3. CASE /\ mainMap' = [mainMap EXCEPT ![n] = @ + sideMap[n] + 1]
           /\ sideMap' = [sideMap EXCEPT ![n] = 0] /\ UNCHANGED <<restoredMap, lossy>>
  <2>1. mainMap' \in [HitNames -> Nat] /\ sideMap' \in [HitNames -> Nat] BY <1>3 DEF MapsInv
  <2>2. \A m \in HitNames : Held(m)' = IF m = n THEN Held(m) + 1 ELSE Held(m)
    BY <1>3 DEF Held, MapsInv
  <2>3. \A m \in HitNames : owed'[m] = IF m = n THEN owed[m] + 1 ELSE owed[m] BY <1>1 DEF MapsInv
  <2>4. \A m \in HitNames : Held(m) \in Nat /\ owed[m] \in Nat BY DEF Held, MapsInv
  <2> QED BY <1>1, <1>3, <2>1, <2>2, <2>3, <2>4 DEF MapsInv, HitsStay, NoHitVanishes, NoHitOfAnother
<1>4. CASE sideMap' = [sideMap EXCEPT ![n] = @ + 1] /\ UNCHANGED <<mainMap, restoredMap, lossy>>
  <2>1. sideMap' \in [HitNames -> Nat] BY <1>4 DEF MapsInv
  <2>2. \A m \in HitNames : Held(m)' = IF m = n THEN Held(m) + 1 ELSE Held(m)
    BY <1>4 DEF Held, MapsInv
  <2>3. \A m \in HitNames : owed'[m] = IF m = n THEN owed[m] + 1 ELSE owed[m] BY <1>1 DEF MapsInv
  <2>4. \A m \in HitNames : Held(m) \in Nat /\ owed[m] \in Nat BY DEF Held, MapsInv
  <2> QED BY <1>1, <1>4, <2>1, <2>2, <2>3, <2>4 DEF MapsInv, HitsStay, NoHitVanishes, NoHitOfAnother
<1> QED BY Zenon, <1>2, <1>3, <1>4 DEF HitIsCounted, CountListed, CountWaiting

\* adopt_snapshot: what a listed name has goes to the main map, whole or not at all.
LEMMA AdoptStep ==
  ASSUME MapsInv, NEW new \in SUBSET HitNames, ListIsAdopted(new)
  PROVE  MapsInv'
<1>1. PICK kept \in SUBSET HitNames : AdoptedInto(new, kept) BY Zenon DEF ListIsAdopted
<1> DEFINE joins == {n \in new : mainMap[n] = 0 /\ sideMap[n] + restoredMap[n] > 0}
           stays == {n \in new : mainMap[n] > 0}
<1>2. /\ kept \subseteq joins
      /\ mainMap' = [n \in HitNames |-> IF n \in stays \cup kept THEN Held(n) ELSE 0]
      /\ lossy' = (lossy \/ kept # joins \/ \E n \in HitNames : mainMap[n] > 0 /\ n \notin new)
  BY <1>1 DEF AdoptedInto
<1>3. \A n \in HitNames : Held(n) \in Nat /\ owed[n] \in Nat BY DEF Held, MapsInv
<1>4. /\ sideMap' = Empty /\ restoredMap' = Empty
      /\ owed' = [n \in HitNames |-> IF n \in new THEN owed[n] ELSE 0]
  BY Zenon DEF ListIsAdopted
<1>5. mainMap' \in [HitNames -> Nat] /\ owed' \in [HitNames -> Nat] BY Zenon, <1>2, <1>3, <1>4
<1>6. \A n \in HitNames : Held(n)' = IF n \in stays \cup kept THEN Held(n) ELSE 0
  BY <1>2, <1>3, <1>4 DEF Held, Empty
<1>7. \A n \in HitNames : Held(n)' <= owed'[n]
  BY <1>2, <1>3, <1>4, <1>6 DEF MapsInv, HitsStay, NoHitOfAnother
<1>8. ASSUME ~lossy', NEW n \in HitNames PROVE Held(n)' = owed'[n]
  <2>1. kept = joins /\ ~lossy BY Zenon, <1>2, <1>8 DEF MapsInv
  <2>2. Held(n) = owed[n] BY Zenon, <2>1 DEF MapsInv, HitsStay, NoHitVanishes
  <2>3. CASE n \in new
    <3>1. n \in stays \cup kept \/ Held(n) = 0
      BY <2>1, <2>3 DEF MapsInv, Held
    <3> QED BY Zenon, <1>4, <1>6, <2>2, <2>3, <3>1
  <2>4. CASE n \notin new BY Zenon, <1>2, <1>4, <1>6, <2>4
  <2> QED BY <2>3, <2>4
<1>9. lossy' \in BOOLEAN BY Zenon, <1>2
<1> QED BY Zenon, <1>4, <1>5, <1>7, <1>8, <1>9 DEF MapsInv, HitsStay, NoHitVanishes, NoHitOfAnother, Empty

\* to_saved and restore: everything that is held is saved, or what was cut off is a gap.
LEMMA RestartStep ==
  ASSUME MapsInv, BridgeRestarts, IsFiniteSet(HitNames), MaxTracked \in Nat
  PROVE  MapsInv'
<1> DEFINE all == {n \in HitNames : Held(n) > 0}
<1>1. PICK names \in SUBSET HitNames :
        /\ Saves(names)
        /\ restoredMap' = [n \in HitNames |-> IF n \in names THEN Held(n) ELSE 0]
        /\ lossy' = (lossy \/ Cardinality(all) > MaxTracked)
  BY Zenon DEF BridgeRestarts
<1>2. names \subseteq all /\ (names = all \/ Cardinality(names) = MaxTracked) BY <1>1 DEF Saves
<1>3. \A n \in HitNames : Held(n) \in Nat /\ owed[n] \in Nat BY DEF Held, MapsInv
<1>4. mainMap' = Empty /\ sideMap' = Empty /\ owed' = owed BY DEF BridgeRestarts
<1>5. restoredMap' \in [HitNames -> Nat] BY Zenon, <1>1, <1>3
<1>6. \A n \in HitNames : Held(n)' = IF n \in names THEN Held(n) ELSE 0
  BY <1>1, <1>3, <1>4 DEF Held, Empty
<1>7. \A n \in HitNames : Held(n)' <= owed'[n]
  BY <1>3, <1>4, <1>6 DEF MapsInv, HitsStay, NoHitOfAnother
<1>8. ASSUME ~lossy', NEW n \in HitNames PROVE Held(n)' = owed'[n]
  <2>1. ~lossy /\ ~(Cardinality(all) > MaxTracked) BY Zenon, <1>1, <1>8 DEF MapsInv
  <2>2. IsFiniteSet(all) BY FS_Subset
  <2>3. Cardinality(all) \in Nat BY Zenon, <2>2, FS_CardinalityType
  <2>4. names = all
    <3>1. SUFFICES ASSUME names # all PROVE FALSE OBVIOUS
    <3>2. /\ Cardinality(names) \in Nat /\ Cardinality(names) <= Cardinality(all)
          /\ Cardinality(all) # Cardinality(names)
      <4>1. names \in SUBSET all BY <1>2
      <4> HIDE DEF all
      <4> QED BY Zenon, <2>2, <3>1, <4>1, FS_Subset, FS_CardinalityType
    <3> HIDE DEF all
    <3> QED BY <1>2, <2>1, <2>3, <3>1, <3>2
  <2>5. Held(n) = owed[n] BY <2>1 DEF MapsInv, HitsStay, NoHitVanishes
  <2> QED BY <1>3, <1>4, <1>6, <2>4, <2>5
<1> QED BY Zenon, <1>1, <1>4, <1>5, <1>7, <1>8 DEF MapsInv, HitsStay, NoHitVanishes, NoHitOfAnother, Empty

\* Every hit stays with its rule, whatever lists, deletes, withdrawals and restarts come
\* between: it is in one of the three maps unless a gap was noted, and no name has more than
\* its own (count, adopt_snapshot, forget, to_saved, restore).
THEOREM HitsAlwaysStay == MapsSpec => []HitsStay
<1>1. MapsInit => MapsInv
  <2> SUFFICES ASSUME MapsInit PROVE MapsInv OBVIOUS
  <2>1. Empty \in [HitNames -> Nat] /\ \A n \in HitNames : Empty[n] = 0 BY DEF Empty
  <2>2. \A n \in HitNames : Held(n) = 0 /\ owed[n] = 0 BY <2>1 DEF MapsInit, Held
  <2>3. HitsStay BY <2>2 DEF HitsStay, NoHitVanishes, NoHitOfAnother
  <2> QED BY Zenon, <2>1, <2>3 DEF MapsInit, MapsInv
<1>2. MapsInv /\ [MapsNext]_mapVars => MapsInv'
  <2> SUFFICES ASSUME MapsInv, [MapsNext]_mapVars PROVE MapsInv' OBVIOUS
  <2>1. ASSUME NEW n \in HitNames, HitIsCounted(n) PROVE MapsInv' BY Zenon, <2>1, CountStep
  <2>2. ASSUME NEW n \in HitNames, RuleIsForgotten(n) PROVE MapsInv'
    <3>1. \A m \in HitNames : Held(m)' = IF m = n THEN 0 ELSE Held(m)
      BY <2>2 DEF RuleIsForgotten, ForgetAll, Held, MapsInv
    <3>2. /\ mainMap' \in [HitNames -> Nat] /\ sideMap' \in [HitNames -> Nat]
          /\ restoredMap' \in [HitNames -> Nat] /\ owed' \in [HitNames -> Nat] /\ lossy' = lossy
      BY Zenon, <2>2 DEF RuleIsForgotten, ForgetAll, MapsInv
    <3>3. \A m \in HitNames : owed'[m] = IF m = n THEN 0 ELSE owed[m] BY <2>2 DEF RuleIsForgotten, MapsInv
    <3> QED BY <3>1, <3>2, <3>3 DEF MapsInv, HitsStay, NoHitVanishes, NoHitOfAnother
  <2>3. ASSUME NEW new \in SUBSET HitNames, ListIsAdopted(new) PROVE MapsInv' BY Zenon, <2>3, AdoptStep
  <2>4. CASE (\E n \in HitNames : RuleIsListed(n)) \/ ListIsWithdrawn \/ UNCHANGED mapVars
    <3>1. UNCHANGED <<maps, lossy, owed>> BY <2>4 DEF RuleIsListed, ListIsWithdrawn, mapVars
    <3> QED BY Zenon, <3>1 DEF maps, MapsInv, HitsStay, NoHitVanishes, NoHitOfAnother, Held
  <2>5. CASE BridgeRestarts BY <2>5, RestartStep, MapsAssumption
  <2> QED BY Zenon, <2>1, <2>2, <2>3, <2>4, <2>5 DEF MapsNext
<1>3. MapsInv => HitsStay BY Zenon DEF MapsInv
<1> QED BY <1>1, <1>2, <1>3, PTL DEF MapsSpec

-----------------------------------------------------------------------------
(* The disk budget *)

\* The cap is a number of pages, at most either of the quotients Budget::new takes.
LEMMA CapBounds ==
  ASSUME NEW total \in Nat, BudgetOk(total)
  PROVE  /\ MaxPageCount(total) \in Nat
         /\ 2 * PAGE * MaxPageCount(total) <= total
         /\ (PAGE + JOURNAL_RECORD) * MaxPageCount(total)
              + SETTINGS_PEAK_RESERVE_BYTES + JOURNAL_HEADER <= total
  BY DEF BudgetOk, MaxPageCount, LedgerPages, DivCeil, PAGE, JOURNAL_HEADER, JOURNAL_RECORD,
         SETTINGS_PEAK_RESERVE_BYTES, ROWS_PER_TXN, GROWTH_PAGES_PER_ROW

\* The ledger's share is a number of pages.
LEMMA LedgerIsNat == ASSUME NEW total \in Nat PROVE LedgerPages(total) \in Nat
  BY DEF LedgerPages, DivCeil, PAGE

\* budget.rs: main file, full journal and settings never exceed the budget, for any total
\* that Budget::new accepts, and eviction starts with room for the ledger and one batch.
THEOREM BudgetAlwaysKept == \A total \in Nat : BudgetKept(total)
<1> SUFFICES ASSUME NEW total \in Nat, BudgetOk(total)
             PROVE  /\ WorstCaseBytes(total) <= total
                    /\ 2 * MaxPageCount(total) * PAGE <= total
                    /\ HighWaterPages(total) > 0
                    /\ HighWaterPages(total) + LedgerPages(total) + ROWS_PER_TXN * GROWTH_PAGES_PER_ROW
                         <= MaxPageCount(total)
  BY DEF BudgetKept
<1>1. WorstCaseBytes(total) <= total
  BY CapBounds DEF WorstCaseBytes, JournalLimitBytes, PAGE, JOURNAL_HEADER, JOURNAL_RECORD,
                   SETTINGS_PEAK_RESERVE_BYTES
<1>2. 2 * MaxPageCount(total) * PAGE <= total
  BY CapBounds DEF PAGE
<1>3. MaxPageCount(total) > LedgerPages(total) + ROWS_PER_TXN * GROWTH_PAGES_PER_ROW
  BY Zenon DEF BudgetOk
<1>4. /\ HighWaterPages(total) > 0
      /\ HighWaterPages(total) + LedgerPages(total) + ROWS_PER_TXN * GROWTH_PAGES_PER_ROW
           <= MaxPageCount(total)
  BY <1>3, CapBounds, LedgerIsNat DEF HighWaterPages, ROWS_PER_TXN, GROWTH_PAGES_PER_ROW
<1> QED BY Zenon, <1>1, <1>2, <1>4

\* Whatever budget is in use, the history keeps to it: each of the three a user may choose is
\* accepted, and no total the program can be given breaks the bound.
THEOREM HistoryKeepsBudget == BudgetSpec => []BudgetsKept
<1> DEFINE Inv == budgetBytes \in Nat
<1>1. \A n \in BUDGET_MIB : Mib(n) \in Nat /\ BudgetOk(Mib(n))
  <2> USE DEF Mib, BudgetOk, MaxPageCount, LedgerPages, DivCeil, PAGE, JOURNAL_HEADER,
              JOURNAL_RECORD, SETTINGS_PEAK_RESERVE_BYTES, ROWS_PER_TXN, GROWTH_PAGES_PER_ROW
  <2>1. Mib(16) \in Nat /\ BudgetOk(Mib(16))
    OBVIOUS
  <2>2. Mib(64) \in Nat /\ BudgetOk(Mib(64))
    OBVIOUS
  <2>3. Mib(256) \in Nat /\ BudgetOk(Mib(256))
    OBVIOUS
  <2> HIDE DEF Mib, BudgetOk
  <2> QED BY Zenon, <2>1, <2>2, <2>3 DEF BUDGET_MIB
<1>2. BudgetInit => Inv
  BY Zenon, <1>1, TotalsAssumption DEF BudgetInit
<1>3. Inv /\ [BudgetNext]_budgetBytes => Inv'
  BY <1>1 DEF BudgetNext
<1>4. Inv => BudgetsKept
  BY <1>1, BudgetAlwaysKept DEF BudgetsKept
<1> QED BY <1>2, <1>3, <1>4, PTL DEF BudgetSpec

=============================================================================
