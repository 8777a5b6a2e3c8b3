---------------------------- MODULE BridgeProofs ----------------------------
(***************************************************************************)
(* What the bridge shows and keeps, for any bounds.                        *)
(*                                                                         *)
(* Streams: whose list the bridge shows.  The properties of                *)
(* DaemonStreams.tla are not inductive. What they need besides: HELLOs are *)
(* numbered in order; every staged entry carries the connection of its     *)
(* Subscribe; and, on the Unix socket, a stream that said HELLO after an   *)
(* entry was adopted has adopted that entry too, which is why a fallback   *)
(* stream always finds the list that is shown.                             *)
(*                                                                         *)
(* The state files: FileInv says that what a crash keeps lies between what *)
(* was acknowledged and what is in place, that everything in place was     *)
(* synced whole, that temp files are told apart by the save that made      *)
(* them, and that a read that tries again has seen the file replaced as    *)
(* often as it tried.                                                      *)
(*                                                                         *)
(* The tray: its kind is derived from the outage, the pause and the rows   *)
(* waiting, and ShellInv carries that to the windows.                      *)
(***************************************************************************)
EXTENDS DaemonStreams, StateFile, TrayState, TLAPS

-----------------------------------------------------------------------------
(* Streams *)

\* HELLOs are numbered in order, and only a stream that said HELLO has adopted anything
HelloOrder ==
  /\ \A s \in Streams : hello[s] <= hellos /\ (hello[s] # 0 => s \in used)
  /\ \A e \in staged : \A s \in e.adoptedBy : hello[s] # 0

\* Entries carry the connection of their Subscribe; the Unix socket has one key
Stamped ==
  /\ \A r \in received : r.seq \in DOMAIN sender /\ sender[r.seq] = r.key
  /\ \A e \in staged : e.seq \in DOMAIN sender /\ sender[e.seq] = e.key
  /\ transport = "Unix" => /\ \A s \in used : conn[s] = UnixKey
                           /\ \A r \in received : r.key = UnixKey
                           /\ \A e \in staged : e.key = UnixKey

\* On the Unix socket, streams with a newer HELLO than an adopter's are adopters
NewerAdopted ==
  transport = "Unix" =>
    \A e \in staged : \A t \in e.adoptedBy : \A s \in Streams : hello[t] <= hello[s] => s \in e.adoptedBy

\* A plan made since the last HELLO was made on the list held now
PlansCurrent ==
  \A c \in StreamCommands : plan[c] # NoPlan =>
    /\ plan[c].generation <= hellos
    /\ plan[c].generation = hellos => plan[c].from = from

IInv ==
  /\ StreamsTypeOK /\ HelloOrder /\ Stamped /\ NewerAdopted /\ PlansCurrent
  /\ CurrentIsNewestHello /\ ListIsCurrents /\ WaitersHaveStreams /\ RedialKeepsList

\* The steps that change nothing but commands
CommandStep ==
  \E c \in StreamCommands :
    \/ Send(c) \/ SendLeftoverDelete(c) \/ Plan(c) \/ SendCurated(c)
    \/ WaitEnds(c) \/ WaitTimesOut(c) \/ TimeoutLocks(c) \/ GracePasses(c)
    \/ \E s \in Streams : OnReply(c, s)

\* What such steps leave alone
CommandFrame == UNCHANGED <<transport, streamVars, streamListVars, subVars>>

\* A step of a command leaves the streams, the list and the Subscribes alone.
LEMMA CommandsOnly == CommandStep => CommandFrame
BY DEF CommandStep, CommandFrame, Send, SendLeftoverDelete, Plan, SendCurated, WaitEnds, WaitTimesOut,
   TimeoutLocks, GracePasses, OnReply

\* Only Plan makes a plan
LEMMA PlansMade ==
  CommandStep => \/ UNCHANGED plan
                 \/ \E c \in StreamCommands : plan' = [plan EXCEPT ![c] = [generation |-> hellos, from |-> from]]
BY DEF CommandStep, Send, SendLeftoverDelete, Plan, SendCurated, WaitEnds, WaitTimesOut, TimeoutLocks, GracePasses,
   OnReply

\* A command step tells one sender something, or none.
LEMMA CallersTold ==
  CommandStep => UNCHANGED caller \/ \E c \in StreamCommands, v \in {"none", "waits", "timesOut", "timeout", "answer", "closed"} :
                                        caller' = [caller EXCEPT ![c] = v]
<1> SUFFICES ASSUME NEW c \in StreamCommands,
                    \/ Send(c) \/ SendLeftoverDelete(c) \/ Plan(c) \/ SendCurated(c)
                    \/ WaitEnds(c) \/ WaitTimesOut(c) \/ TimeoutLocks(c) \/ GracePasses(c)
                    \/ \E s \in Streams : OnReply(c, s)
             PROVE  UNCHANGED caller \/ \E v \in {"none", "waits", "timesOut", "timeout", "answer", "closed"} :
                                           caller' = [caller EXCEPT ![c] = v]
    BY DEF CommandStep
<1>1. CASE Send(c) \/ SendLeftoverDelete(c) \/ SendCurated(c)
    BY Zenon, <1>1 DEF Send, SendLeftoverDelete, SendCurated, Dispatched
<1>2. CASE WaitEnds(c)
    BY Zenon, <1>2 DEF WaitEnds
<1>3. CASE WaitTimesOut(c) \/ TimeoutLocks(c)
    BY Zenon, <1>3 DEF WaitTimesOut, TimeoutLocks
<1>4. CASE Plan(c) \/ GracePasses(c) \/ \E s \in Streams : OnReply(c, s)
    BY Zenon, <1>4 DEF Plan, GracePasses, OnReply
<1> QED
    BY Zenon, <1>1, <1>2, <1>3, <1>4

\* Appending keeps what a sequence has
LEMMA AppendKeeps ==
  ASSUME NEW S, NEW q \in Seq(S), NEW x \in S
  PROVE  /\ Append(q, x) \in Seq(S)
         /\ \A i \in DOMAIN q : i \in DOMAIN Append(q, x) /\ Append(q, x)[i] = q[i]
         /\ Len(q) + 1 \in DOMAIN Append(q, x) /\ Append(q, x)[Len(q) + 1] = x
OBVIOUS

\* The invariant holds when the bridge starts.
LEMMA InitHolds == StreamsInit => IInv
BY StreamsAssumption DEF StreamsInit, IInv, StreamsTypeOK, HelloOrder, Stamped, NewerAdopted, PlansCurrent, CurrentIsNewestHello,
   ListIsCurrents, WaitersHaveStreams, RedialKeepsList, NoPlan, SubEntries

\* The cases of Next
LEMMA NextCases ==
  ASSUME StreamsNext
  PROVE  \/ \E key \in Keys : Receive(key)
         \/ \E r \in received : StageReceived(r)
         \/ \E e \in staged : SubEntryExpires(e)
         \/ \E e \in staged : JournalOverflows(e)
         \/ \E s \in Streams : OpenStream(s)
         \/ \E s \in Streams : Hello(s)
         \/ \E s \in Streams : CloseStream(s)
         \/ CommandStep
BY DEF StreamsNext, CommandStep

\* No step of a command, and no Subscribe, touches what the list rests on
LEMMA CommandSteps ==
  ASSUME IInv, CommandFrame
  PROVE  HelloOrder' /\ Stamped' /\ NewerAdopted' /\ CurrentIsNewestHello' /\ ListIsCurrents' /\ RedialKeepsList'
BY DEF CommandFrame, streamVars, streamListVars, subVars, IInv, HelloOrder, Stamped, NewerAdopted, CurrentIsNewestHello,
   ListIsCurrents, RedialKeepsList

-----------------------------------------------------------------------------
(* Type correctness *)

\* Every step keeps the types.
LEMMA TypeStep ==
  ASSUME IInv, StreamsNext
  PROVE  StreamsTypeOK'
<1> USE StreamsAssumption
<1> StreamsTypeOK
    BY DEF IInv
<1>1. CASE \E key \in Keys : Receive(key)
  <2> PICK key \in Keys : Receive(key)
      BY <1>1
  <2> key \in Conns \cup {UnixKey}
      BY DEF Keys
  <2> sender' \in Seq(Conns \cup {UnixKey}) /\ Len(sender) \in Nat
      BY AppendKeeps DEF Receive, StreamsTypeOK
  <2> QED
      BY DEF Receive, StreamsTypeOK, streamVars, streamListVars, cmdVars
<1>2. CASE \E r \in received : StageReceived(r)
  <2> PICK r \in received : StageReceived(r)
      BY <1>2
  <2> DEFINE entry == [key |-> r.key, seq |-> r.seq, over |-> r.over, full |-> FALSE,
                       adoptedBy |-> {}, at |-> stagings']
  <2>1. stagings' \in Nat
      BY DEF StageReceived, StreamsTypeOK
  <2>2. entry \in SubEntries /\ entry.key = r.key
      BY ZenonT(30), <2>1 DEF StreamsTypeOK, SubEntries
  <2>3. staged' \subseteq {e \in staged : e.key # r.key} \cup {entry} \/ staged' = staged
      BY Zenon DEF StageReceived, Capped
  <2>4. staged' \subseteq SubEntries /\ \A e, f \in staged' : e.key = f.key => e = f
      BY Zenon, <2>2, <2>3 DEF StreamsTypeOK
  <2> QED
      BY Zenon, <2>1, <2>4 DEF StageReceived, StreamsTypeOK, streamVars, streamListVars, cmdVars
<1>3. CASE \E e \in staged : SubEntryExpires(e)
      BY <1>3 DEF SubEntryExpires, StreamsTypeOK, streamVars, streamListVars, cmdVars
<1>4. CASE \E e \in staged : JournalOverflows(e)
  <2> PICK e \in staged : JournalOverflows(e)
      BY <1>4
  <2>1. With(e, TRUE, e.adoptedBy) \in SubEntries /\ With(e, TRUE, e.adoptedBy).key = e.key
      BY DEF With, StreamsTypeOK, SubEntries
  <2>2. staged' = (staged \ {e}) \cup {With(e, TRUE, e.adoptedBy)}
      BY DEF JournalOverflows
  <2>3. staged' \subseteq SubEntries /\ \A f, g \in staged' : f.key = g.key => f = g
      BY Zenon, <2>1, <2>2 DEF StreamsTypeOK
  <2> QED
      BY Zenon, <2>3 DEF JournalOverflows, StreamsTypeOK, streamVars, streamListVars, cmdVars
<1>5. CASE \E s \in Streams : OpenStream(s)
      BY <1>5 DEF OpenStream, Keys, StreamsTypeOK, streamListVars, subVars, cmdVars
<1>6. CASE \E s \in Streams : Hello(s)
  <2> PICK s \in Streams : Hello(s)
      BY <1>6
  <2>1. staged' \subseteq SubEntries /\ (\A f, g \in staged' : f.key = g.key => f = g)
        /\ list' \in {"none", "list", "count"} /\ from' \in Nat /\ committed' \in Streams \cup {None}
    <3>1. CASE \E e \in staged :
                 /\ e.key = conn[s] /\ s \notin e.adoptedBy
                 /\ staged' = (staged \ {e}) \cup {With(e, e.full, e.adoptedBy \cup {s})}
                 /\ list' = Holds(e) /\ from' = e.seq /\ committed' = s
      <4> PICK e \in staged :
                 /\ staged' = (staged \ {e}) \cup {With(e, e.full, e.adoptedBy \cup {s})}
                 /\ list' = Holds(e) /\ from' = e.seq /\ committed' = s
          BY Zenon, <3>1
      <4>1. With(e, e.full, e.adoptedBy \cup {s}) \in SubEntries
            /\ With(e, e.full, e.adoptedBy \cup {s}).key = e.key
          BY DEF With, StreamsTypeOK, SubEntries
      <4>2. e.seq \in Nat
          BY DEF StreamsTypeOK, SubEntries
      <4> QED
          BY Zenon, <4>1, <4>2 DEF StreamsTypeOK, Holds
    <3>2. CASE UNCHANGED staged /\ (Withdrawn \/ UNCHANGED <<committed, list, from>>)
          BY <3>2 DEF StreamsTypeOK, Withdrawn
    <3> QED
          BY Zenon, <3>1, <3>2 DEF Hello
  <2> QED
      BY <2>1 DEF Hello, StreamsTypeOK, cmdVars
<1>7. CASE \E s \in Streams : CloseStream(s)
  <2> PICK s \in Streams : CloseStream(s)
      BY <1>7
  <2>1. current' \in Streams \cup {None} /\ list' \in {"none", "list", "count"} /\ from' \in Nat
        /\ committed' \in Streams \cup {None}
      BY DEF CloseStream, Withdrawn, Holds, StreamsTypeOK, SubEntries
  <2>2. st' \in [StreamCommands -> {"new", "waiting", "late", "stale", "applied", "dropped", "failed"}]
      BY DEF CloseStream, StreamsTypeOK
  <2> QED
      BY <2>1, <2>2 DEF CloseStream, StreamsTypeOK, subVars
<1>8. CASE CommandStep
  <2>1. st' \in [StreamCommands -> {"new", "waiting", "late", "stale", "applied", "dropped", "failed"}]
      BY Zenon, <1>8 DEF CommandStep, Dispatched, Send, SendLeftoverDelete, Plan, SendCurated, WaitEnds, WaitTimesOut,
         TimeoutLocks, GracePasses, OnReply, StreamsTypeOK
  <2>2. to' \in [StreamCommands -> Streams \cup {None}]
      BY <1>8 DEF CommandStep, Dispatched, Send, SendLeftoverDelete, Plan, SendCurated, WaitEnds, WaitTimesOut,
         TimeoutLocks, GracePasses, OnReply, StreamsTypeOK
  <2>3. plan' \in [StreamCommands -> [generation : Nat, from : Nat]]
    <3> [generation |-> hellos, from |-> from] \in [generation : Nat, from : Nat]
        BY DEF StreamsTypeOK
    <3> DEFINE P == [generation |-> hellos, from |-> from]
    <3> P \in [generation : Nat, from : Nat]
        OBVIOUS
    <3> UNCHANGED plan \/ \E c \in StreamCommands : plan' = [plan EXCEPT ![c] = P]
        BY <1>8, PlansMade
    <3> HIDE DEF P
    <3> QED
        BY Zenon DEF StreamsTypeOK
  <2>4. caller' \in [StreamCommands -> {"none", "waits", "timesOut", "timeout", "answer", "closed"}]
    <3>1. caller \in [StreamCommands -> {"none", "waits", "timesOut", "timeout", "answer", "closed"}]
        BY DEF StreamsTypeOK
    <3>2. UNCHANGED caller \/ \E c \in StreamCommands, v \in {"none", "waits", "timesOut", "timeout", "answer", "closed"} :
                                  caller' = [caller EXCEPT ![c] = v]
        BY <1>8, CallersTold
    <3> QED
        BY Zenon, <3>1, <3>2
  <2> QED
      BY Zenon, <1>8, <2>1, <2>2, <2>3, <2>4, CommandsOnly DEF CommandFrame, streamVars, streamListVars, subVars, StreamsTypeOK
<1> QED
    BY <1>1, <1>2, <1>3, <1>4, <1>5, <1>6, <1>7, <1>8, NextCases

-----------------------------------------------------------------------------
(* The invariants behind *)

\* HELLOs stay in order: only hello numbers a stream, with the next number.
LEMMA OrderStep ==
  ASSUME IInv, StreamsNext
  PROVE  HelloOrder'
<1> USE DEF HelloOrder
<1> StreamsTypeOK /\ HelloOrder
    BY Zenon DEF IInv
<1>1. CASE \E key \in Keys : Receive(key)
      BY <1>1 DEF Receive, streamVars
<1>2. CASE \E r \in received : StageReceived(r)
  <2>1. \A e \in staged' : e \in staged \/ e.adoptedBy = {}
      BY <1>2 DEF StageReceived, Capped
  <2> QED
      BY Zenon, <1>2, <2>1 DEF StageReceived, streamVars
<1>3. CASE \E e \in staged : SubEntryExpires(e)
      BY <1>3 DEF SubEntryExpires, streamVars
<1>4. CASE \E e \in staged : JournalOverflows(e)
      BY <1>4 DEF JournalOverflows, With, streamVars
<1>5. CASE \E s \in Streams : OpenStream(s)
      BY ZenonT(30), <1>5 DEF OpenStream, subVars
<1>6. CASE \E s \in Streams : Hello(s)
  <2> PICK s \in Streams : Hello(s)
      BY <1>6
  <2>1. hellos' = hellos + 1 /\ hello' = [hello EXCEPT ![s] = hellos + 1] /\ s \in used /\ used' = used
      BY DEF Hello, StreamsTypeOK
  <2>2. \A e \in staged' : \A t \in e.adoptedBy : t = s \/ \E f \in staged : t \in f.adoptedBy
      BY DEF Hello, With
  <2>3. \A e \in staged : e.adoptedBy \subseteq Streams
      BY DEF StreamsTypeOK, SubEntries
  <2> QED
      BY <2>1, <2>2, <2>3 DEF StreamsTypeOK
<1>7. CASE \E s \in Streams : CloseStream(s)
      BY Zenon, <1>7 DEF CloseStream, subVars
<1>8. CASE CommandStep
      BY <1>8, CommandsOnly, CommandSteps
<1> QED
    BY ZenonT(30), <1>1, <1>2, <1>3, <1>4, <1>5, <1>6, <1>7, <1>8, NextCases

\* Entries keep their connection: receive and stage record the key they were sent on.
LEMMA StampStep ==
  ASSUME IInv, StreamsNext
  PROVE  Stamped'
<1> StreamsTypeOK /\ Stamped
    BY Zenon DEF IInv
<1>1. CASE \E key \in Keys : Receive(key)
  <2> PICK key \in Keys : Receive(key)
      BY <1>1
  <2>1. key \in Conns \cup {UnixKey} /\ (transport = "Unix" => key = UnixKey)
      BY Zenon DEF Keys
  <2>2. /\ \A i \in DOMAIN sender : i \in DOMAIN sender' /\ sender'[i] = sender[i]
        /\ Len(sender) + 1 \in DOMAIN sender' /\ sender'[Len(sender) + 1] = key
      BY <2>1, AppendKeeps DEF Receive, StreamsTypeOK
  <2>3. \A r \in received' : r \in received \/ (r.key = key /\ r.seq = Len(sender) + 1)
      BY DEF Receive
  <2> QED
      BY <2>1, <2>2, <2>3 DEF Receive, Stamped, streamVars
<1>2. CASE \E r \in received : StageReceived(r)
  <2> PICK r \in received : StageReceived(r)
      BY <1>2
  <2>1. \A e \in staged' : e \in staged \/ (e.key = r.key /\ e.seq = r.seq)
      BY DEF StageReceived, Capped
  <2> QED
      BY Zenon, <2>1 DEF StageReceived, Stamped, streamVars
<1>3. CASE \E e \in staged : SubEntryExpires(e)
      BY <1>3 DEF SubEntryExpires, Stamped, streamVars
<1>4. CASE \E e \in staged : JournalOverflows(e)
      BY <1>4 DEF JournalOverflows, With, Stamped, streamVars
<1>5. CASE \E s \in Streams : OpenStream(s)
      BY ZenonT(30), <1>5 DEF OpenStream, Keys, Stamped, StreamsTypeOK, subVars
<1>6. CASE \E s \in Streams : Hello(s)
  <2> PICK s \in Streams : Hello(s)
      BY <1>6
  <2>1. \A e \in staged' : \E f \in staged : e.key = f.key /\ e.seq = f.seq
      BY DEF Hello, With
  <2> QED
      BY Zenon, <2>1 DEF Hello, Stamped
<1>7. CASE \E s \in Streams : CloseStream(s)
      BY Zenon, <1>7 DEF CloseStream, Stamped, subVars
<1>8. CASE CommandStep
      BY <1>8, CommandsOnly, CommandSteps
<1> QED
    BY <1>1, <1>2, <1>3, <1>4, <1>5, <1>6, <1>7, <1>8, NextCases

\* On the Unix socket a HELLO adopts whatever is staged
LEMMA UnixHello ==
  ASSUME IInv, transport = "Unix", NEW s \in Streams, Hello(s)
  PROVE  \/ staged = {} /\ staged' = {}
         \/ \E e \in staged : /\ staged = {e}
                            /\ staged' = {With(e, e.full, e.adoptedBy \cup {s})}
                            /\ from' = e.seq /\ committed' = s
<1>1. \A e \in staged : e.key = conn[s] /\ s \notin e.adoptedBy
    BY Zenon DEF IInv, Stamped, HelloOrder, StreamsTypeOK, Hello
<1>2. \A e, f \in staged : e = f
    BY Zenon, <1>1 DEF IInv, StreamsTypeOK
<1> QED
    BY Zenon, <1>1, <1>2 DEF Hello

\* On the Unix socket a newer stream adopts what an older one adopted: its HELLO takes the
\* newest staged entry, which is also what it would fall back to.
LEMMA AdoptersStep ==
  ASSUME IInv, StreamsNext
  PROVE  NewerAdopted'
<1> StreamsTypeOK /\ HelloOrder /\ NewerAdopted
    BY DEF IInv
<1>1. CASE \E key \in Keys : Receive(key)
      BY Zenon, <1>1 DEF Receive, NewerAdopted, streamVars
<1>2. CASE \E r \in received : StageReceived(r)
  <2>1. \A e \in staged' : e \in staged \/ e.adoptedBy = {}
      BY <1>2 DEF StageReceived, Capped
  <2> QED
      BY <1>2, <2>1 DEF StageReceived, NewerAdopted, streamVars
<1>3. CASE \E e \in staged : SubEntryExpires(e)
      BY <1>3 DEF SubEntryExpires, NewerAdopted, streamVars
<1>4. CASE \E e \in staged : JournalOverflows(e)
      BY <1>4 DEF JournalOverflows, With, NewerAdopted, streamVars
<1>5. CASE \E s \in Streams : OpenStream(s)
      BY Zenon, <1>5 DEF OpenStream, NewerAdopted, subVars
<1>6. CASE \E s \in Streams : Hello(s)
  <2> PICK s \in Streams : Hello(s)
      BY Zenon, <1>6
  <2> SUFFICES ASSUME transport = "Unix", NEW f \in staged', NEW t \in f.adoptedBy, NEW q \in Streams,
                      hello'[t] <= hello'[q]
               PROVE  q \in f.adoptedBy
      BY DEF NewerAdopted, Hello
  <2>1. PICK e \in staged : f = With(e, e.full, e.adoptedBy \cup {s})
      BY Zenon, UnixHello
  <2>2. f.adoptedBy = e.adoptedBy \cup {s} /\ e.adoptedBy \subseteq Streams
      BY <2>1 DEF With, StreamsTypeOK, SubEntries
  <2>3. hello' = [hello EXCEPT ![s] = hellos + 1] /\ \A u \in Streams : hello[u] <= hellos
      BY ZenonT(30) DEF Hello, HelloOrder
  <2> QED
      BY <2>2, <2>3 DEF NewerAdopted, StreamsTypeOK
<1>7. CASE \E s \in Streams : CloseStream(s)
      BY Zenon, <1>7 DEF CloseStream, NewerAdopted, subVars
<1>8. CASE CommandStep
      BY <1>8, CommandsOnly, CommandSteps
<1> QED
    BY <1>1, <1>2, <1>3, <1>4, <1>5, <1>6, <1>7, <1>8, NextCases

-----------------------------------------------------------------------------
(* The list and its stream *)

\* The current stream is the one with the newest HELLO, after a close and a fallback too.
LEMMA CurrentStep ==
  ASSUME IInv, StreamsNext
  PROVE  CurrentIsNewestHello'
<1> USE DEF CurrentIsNewestHello
<1> StreamsTypeOK /\ HelloOrder /\ CurrentIsNewestHello
    BY DEF IInv
<1>1. CASE UNCHANGED <<streamVars, streamListVars>>
      BY Zenon, <1>1 DEF streamVars, streamListVars
<1>2. CASE \E s \in Streams : OpenStream(s)
      BY <1>2 DEF OpenStream, HelloOrder, streamListVars, StreamsTypeOK
<1>3. CASE \E s \in Streams : Hello(s)
      BY <1>3, StreamsAssumption DEF Hello, HelloOrder, StreamsTypeOK
<1>4. CASE \E s \in Streams : CloseStream(s)
      BY <1>4, StreamsAssumption DEF CloseStream, Newest, StreamsTypeOK
<1> QED
    BY Zenon, <1>1, <1>2, <1>3, <1>4, NextCases, CommandsOnly
    DEF Receive, StageReceived, SubEntryExpires, JournalOverflows, CommandFrame

\* The list shown is one the current stream adopted.
LEMMA ListStep ==
  ASSUME IInv, StreamsNext
  PROVE  ListIsCurrents'
<1> StreamsTypeOK /\ Stamped /\ CurrentIsNewestHello /\ ListIsCurrents
    BY DEF IInv
<1>1. CASE \E key \in Keys : Receive(key)
  <2> \A i \in DOMAIN sender : i \in DOMAIN sender' /\ sender'[i] = sender[i]
      BY <1>1, AppendKeeps DEF Receive, Keys, StreamsTypeOK
  <2> QED
      BY Zenon, <1>1 DEF Receive, ListIsCurrents, streamVars, streamListVars
<1>2. CASE UNCHANGED <<conn, streamListVars, sender>>
      BY Zenon, <1>2 DEF ListIsCurrents, streamListVars
<1>3. CASE \E s \in Streams : OpenStream(s)
      BY <1>3 DEF OpenStream, ListIsCurrents, CurrentIsNewestHello, StreamsTypeOK, streamListVars, subVars
<1>4. CASE \E s \in Streams : Hello(s)
  <2> PICK s \in Streams : Hello(s)
      BY Zenon, <1>4
  <2>1. conn' = conn /\ sender' = sender /\ current' = s /\ s # None
      BY Zenon, StreamsAssumption DEF Hello
  <2>2. CASE \E e \in staged : e.key = conn[s] /\ list' = Holds(e) /\ from' = e.seq /\ committed' = s
      BY Zenon, <2>1, <2>2 DEF Holds, ListIsCurrents, Stamped
  <2>3. CASE Withdrawn
      BY <2>1, <2>3 DEF Withdrawn, ListIsCurrents
  <2>4. CASE committed \in {None, s} /\ UNCHANGED <<committed, list, from>>
      BY <2>1, <2>4 DEF ListIsCurrents
  <2> QED
      BY Zenon, <2>2, <2>3, <2>4 DEF Hello
<1>5. CASE \E s \in Streams : CloseStream(s)
  <2> PICK s \in Streams : CloseStream(s)
      BY <1>5
  <2>1. PICK next \in Streams \cup {None} :
          /\ current # s => next = current
          /\ current' = next
          /\ \/ /\ committed = s
                /\ \E e \in staged :
                     /\ Readopts(next, e)
                     /\ list' = Holds(e) /\ from' = e.seq /\ committed' = next
             \/ Withdrawn
             \/ committed # s /\ UNCHANGED <<committed, list, from>>
      BY DEF CloseStream
  <2>2. conn' = conn /\ sender' = sender
      BY Zenon DEF CloseStream, subVars
  <2>3. CASE \E e \in staged : /\ Readopts(next, e)
                             /\ list' = Holds(e) /\ from' = e.seq /\ committed' = next
      BY Zenon, <2>1, <2>2, <2>3 DEF Readopts, Holds, ListIsCurrents, Stamped
  <2>4. CASE Withdrawn
      BY Zenon, <2>2, <2>4 DEF Withdrawn, ListIsCurrents
  <2>5. CASE committed # s /\ UNCHANGED <<committed, list, from>>
      BY <2>1, <2>2, <2>5 DEF ListIsCurrents
  <2> QED
      BY Zenon, <2>1, <2>3, <2>4, <2>5
<1> QED
    BY Zenon, <1>1, <1>2, <1>3, <1>4, <1>5, NextCases, CommandsOnly
    DEF StageReceived, SubEntryExpires, JournalOverflows, CommandFrame, streamVars, subVars

\* A daemon that dials again before its Subscribe leaves the list as it was.
LEMMA RedialStep ==
  ASSUME IInv, StreamsNext
  PROVE  RedialKeepsList'
<1> StreamsTypeOK /\ Stamped /\ NewerAdopted /\ CurrentIsNewestHello /\ ListIsCurrents /\ RedialKeepsList
    BY Zenon DEF IInv
<1>1. CASE \E key \in Keys : Receive(key)
      BY Zenon, <1>1 DEF Receive, RedialKeepsList, streamListVars
<1>2. CASE \E r \in received : StageReceived(r)
  <2>1. \A e \in staged' : e \in staged \/ e.adoptedBy = {}
      BY <1>2 DEF StageReceived, Capped
  <2> QED
      BY Zenon, <1>2, <2>1 DEF StageReceived, RedialKeepsList, streamListVars
<1>3. CASE \E e \in staged : SubEntryExpires(e)
      BY Zenon, <1>3 DEF SubEntryExpires, RedialKeepsList, streamListVars
<1>4. CASE \E e \in staged : JournalOverflows(e)
      BY <1>4 DEF JournalOverflows, With, RedialKeepsList, streamListVars
<1>5. CASE \E s \in Streams : OpenStream(s)
      BY Zenon, <1>5 DEF OpenStream, RedialKeepsList, streamListVars, subVars
<1>6. CASE \E s \in Streams : Hello(s)
  <2> PICK s \in Streams : Hello(s)
      BY <1>6
  <2>1. transport' = transport /\ current' = s
      BY ZenonT(30) DEF Hello
  <2>2. \A e \in staged : With(e, e.full, e.adoptedBy \cup {s}).seq = e.seq
      BY DEF With
  <2>3. transport = "Unix" => \A f \in staged' : committed' = s /\ from' = f.seq
      BY Zenon, <2>2, UnixHello
  <2> QED
      BY <2>1, <2>3 DEF RedialKeepsList
<1>7. CASE \E s \in Streams : CloseStream(s)
  <2> PICK s \in Streams : CloseStream(s)
      BY <1>7
  <2> SUFFICES ASSUME transport = "Unix", NEW e \in staged, current' \in e.adoptedBy, ~e.full
               PROVE  committed' = current' /\ from' = e.seq
      BY Zenon DEF CloseStream, RedialKeepsList, subVars
  <2>1. current' # None /\ current' \in Streams
      BY StreamsAssumption DEF StreamsTypeOK, SubEntries
  <2>2. CASE current # s
      BY ZenonT(30), <2>1, <2>2 DEF CloseStream, RedialKeepsList, ListIsCurrents, StreamsTypeOK
  <2>3. CASE current = s
    <3>1. s \in Streams /\ hello[current'] <= hello[s] /\ current' \in open
        BY Zenon, <2>1, <2>3, StreamsAssumption DEF CloseStream, Newest, CurrentIsNewestHello, StreamsTypeOK
    <3>2. s \in e.adoptedBy
        BY Zenon, <3>1 DEF NewerAdopted
    <3>3. committed = s
        BY Zenon, <2>3, <3>2 DEF RedialKeepsList
    <3>4. \A f \in staged : f = e
      <4>1. \A f \in staged : f.key = e.key
          BY Zenon DEF Stamped
      <4>2. \A f, g \in staged : f.key = g.key => f = g
          BY ZenonT(30) DEF StreamsTypeOK
      <4> QED
          BY Zenon, <4>1, <4>2
    <3>5. e.key = conn[current']
        BY Zenon, <3>1 DEF Stamped, StreamsTypeOK
    <3>6. Readopts(current', e)
        BY <2>1, <3>5 DEF Readopts
    <3> QED
        BY Zenon, <3>3, <3>4, <3>6 DEF CloseStream
  <2> QED
      BY <2>2, <2>3
<1>8. CASE CommandStep
      BY <1>8, CommandsOnly, CommandSteps
<1> QED
    BY <1>1, <1>2, <1>3, <1>4, <1>5, <1>6, <1>7, <1>8, NextCases

-----------------------------------------------------------------------------
(* Commands *)

\* A command that waits for a reply waits on a stream that is still open.
LEMMA WaitersStep ==
  ASSUME IInv, StreamsNext
  PROVE  WaitersHaveStreams'
<1> StreamsTypeOK /\ CurrentIsNewestHello /\ ListIsCurrents /\ WaitersHaveStreams
    BY DEF IInv
<1>1. CASE UNCHANGED <<transport, open, st, to>>
      BY Zenon, <1>1 DEF WaitersHaveStreams
<1>2. CASE \E s \in Streams : OpenStream(s)
      BY Zenon, <1>2 DEF OpenStream, WaitersHaveStreams, cmdVars
<1>3. CASE \E s \in Streams : CloseStream(s)
  <2> PICK s \in Streams : CloseStream(s)
      BY <1>3
  <2>1. /\ open' = open \ {s} /\ transport' = transport /\ to' = to
        /\ st' = [c \in StreamCommands |-> IF FailsOnClose(c, s, open \ {s}) THEN "failed" ELSE st[c]]
      BY DEF CloseStream
  <2> QED
      BY <2>1 DEF FailsOnClose, WaitersHaveStreams, StreamsTypeOK
<1>4. CASE CommandStep
  <2>1. transport' = transport /\ open' = open
      BY <1>4, CommandsOnly DEF CommandFrame, streamVars
  <2>2. CASE \E c \in StreamCommands : Send(c) \/ SendLeftoverDelete(c) \/ SendCurated(c)
    <3> PICK c \in StreamCommands : Send(c) \/ SendLeftoverDelete(c) \/ SendCurated(c)
        BY <2>2
    <3>1. PICK target \in Streams \cup {None} :
            /\ st' = [st EXCEPT ![c] = "waiting"] /\ to' = [to EXCEPT ![c] = target]
            /\ IF transport = "Tcp" THEN open # {} ELSE target \in open
        BY Zenon, StreamsAssumption DEF Send, SendLeftoverDelete, SendCurated, Dispatched, CurrentIsNewestHello,
           ListIsCurrents, StreamsTypeOK
    <3> QED
        BY <2>1, <3>1 DEF WaitersHaveStreams, StreamsTypeOK
  <2>3. CASE to' = to /\ \A c \in StreamCommands : st'[c] = "waiting" => st[c] = "waiting"
      BY Zenon, <2>1, <2>3 DEF WaitersHaveStreams
  <2> QED
      BY Zenon, <1>4, <2>2, <2>3
      DEF CommandStep, Plan, WaitEnds, WaitTimesOut, TimeoutLocks, GracePasses, OnReply, StreamsTypeOK
<1> QED
    BY Zenon, <1>1, <1>2, <1>3, <1>4, NextCases
    DEF Receive, StageReceived, SubEntryExpires, JournalOverflows, Hello, streamVars, cmdVars

\* A stream that takes the list over on closing takes over the same list
LEMMA SameList ==
  ASSUME IInv, NEW s \in Streams, CloseStream(s)
  PROVE  from' = from
<1> StreamsTypeOK /\ NewerAdopted /\ CurrentIsNewestHello /\ ListIsCurrents /\ RedialKeepsList
    BY DEF IInv
<1>1. CASE committed = s /\ \E e \in staged : Readopts(current', e) /\ from' = e.seq
  <2> PICK e \in staged : Readopts(current', e) /\ from' = e.seq
      BY <1>1
  <2>1. current = s /\ current' \in open /\ current' # None
      BY Zenon, <1>1, StreamsAssumption DEF CloseStream, Newest, Readopts, ListIsCurrents, StreamsTypeOK
  <2>2. hello[current'] <= hello[s]
      BY <2>1, StreamsAssumption DEF CurrentIsNewestHello
  <2> QED
      BY Zenon, <2>1, <2>2 DEF Readopts, NewerAdopted, RedialKeepsList
<1>2. CASE from' = from
      BY <1>2
<1> QED
    BY <1>1, <1>2 DEF CloseStream, Withdrawn

\* A plan is of the list held, until the next HELLO.
LEMMA PlansStep ==
  ASSUME IInv, StreamsNext
  PROVE  PlansCurrent'
<1> StreamsTypeOK /\ PlansCurrent
    BY DEF IInv
<1>1. CASE UNCHANGED <<plan, hellos, from>>
      BY Zenon, <1>1 DEF PlansCurrent, NoPlan
<1>2. CASE \E s \in Streams : Hello(s)
      BY <1>2 DEF Hello, PlansCurrent, StreamsTypeOK, NoPlan, cmdVars
<1>3. CASE CommandStep
  <2>1. hellos' = hellos /\ from' = from
      BY Zenon, <1>3, CommandsOnly DEF CommandFrame, streamVars, streamListVars
  <2>2. CASE \E c \in StreamCommands : plan' = [plan EXCEPT ![c] = [generation |-> hellos, from |-> from]]
      BY <2>1, <2>2 DEF PlansCurrent, StreamsTypeOK, NoPlan
  <2> QED
      BY <1>1, <1>3, <2>1, <2>2, PlansMade
<1> QED
    BY Zenon, <1>1, <1>2, <1>3, NextCases, SameList
    DEF Receive, StageReceived, SubEntryExpires, JournalOverflows, OpenStream, CloseStream, streamVars, streamListVars, cmdVars

-----------------------------------------------------------------------------
\* A step of something else changes nothing the invariant is about.
LEMMA Stutter == IInv /\ UNCHANGED allStreamVars => IInv'
<1> SUFFICES ASSUME IInv, UNCHANGED allStreamVars PROVE IInv'
    OBVIOUS
<1> USE DEF allStreamVars, streamVars, streamListVars, subVars, cmdVars, IInv
<1>1. StreamsTypeOK'
    BY DEF StreamsTypeOK
<1>2. HelloOrder' /\ Stamped' /\ NewerAdopted'
    BY ZenonT(30) DEF HelloOrder, Stamped, NewerAdopted
<1>3. PlansCurrent' /\ CurrentIsNewestHello' /\ ListIsCurrents'
    BY Zenon DEF PlansCurrent, CurrentIsNewestHello, ListIsCurrents
<1>4. WaitersHaveStreams' /\ RedialKeepsList'
    BY Zenon DEF WaitersHaveStreams, RedialKeepsList
<1> QED
    BY <1>1, <1>2, <1>3, <1>4

\* The invariant is inductive.
LEMMA Inductive == IInv /\ [StreamsNext]_allStreamVars => IInv'
<1>1. ASSUME IInv, StreamsNext PROVE IInv'
    BY <1>1, TypeStep, OrderStep, StampStep, AdoptersStep, PlansStep, CurrentStep, ListStep, WaitersStep, RedialStep
    DEF IInv
<1> QED
    BY <1>1, Stutter

\* The invariant holds always.
LEMMA Invariance == StreamsSpec => []IInv
BY InitHolds, Inductive, PTL DEF StreamsSpec

\* Every variable keeps its type, and no connection has two staged entries, for any
\* numbers of streams, connections, Subscribes and commands.
THEOREM StreamsTyping == StreamsSpec => []StreamsTypeOK
<1> IInv => StreamsTypeOK
    BY DEF IInv
<1> QED
    BY Invariance, PTL

\* The list or the count shown always belongs to the stream whose answers count, came by
\* that stream's own connection, and that stream is the open one with the newest HELLO; no
\* command waits for a stream that is gone; and whichever streams of a redialling daemon
\* close, a stream that adopted the snapshot still staged and is current holds its list.
THEOREM ListHasItsStream == StreamsSpec => []StreamOwnsList
<1> IInv => StreamOwnsList
    BY DEF IInv, StreamOwnsList
<1> QED
    BY Invariance, PTL

\* On TCP a list gets a new stream only by that stream's own HELLO.
THEOREM ListNotInherited == StreamsSpec => NeverHandedOver
<1> DEFINE A == (transport = "Tcp" /\ committed' \notin {committed, None}) => hello'[committed'] # hello[committed']
<1>1. ASSUME IInv, StreamsNext PROVE A
  <2> StreamsTypeOK /\ HelloOrder
      BY <1>1 DEF IInv
  <2>1. CASE UNCHANGED committed
      BY Zenon, <2>1
  <2>2. CASE \E s \in Streams : Hello(s)
    <3> PICK s \in Streams : Hello(s)
        BY <2>2
    <3>1. committed' \in {committed, None, s}
        BY Zenon DEF Hello, Withdrawn
    <3>2. hello'[s] = hellos + 1 /\ hello[s] <= hellos /\ hello[s] \in Nat /\ hellos \in Nat
        BY Zenon DEF Hello, HelloOrder, StreamsTypeOK
    <3> QED
        BY <3>1, <3>2
  <2>3. CASE \E s \in Streams : CloseStream(s)
      BY Zenon, <2>3 DEF CloseStream, Readopts, Withdrawn
  <2> QED
      BY Zenon, <1>1, <2>1, <2>2, <2>3, NextCases, CommandsOnly
      DEF Receive, StageReceived, SubEntryExpires, JournalOverflows, OpenStream, CommandFrame, streamListVars
<1>2. IInv /\ [StreamsNext]_allStreamVars => [A]_allStreamVars
    BY <1>1
<1> QED
    BY <1>2, Invariance, PTL DEF StreamsSpec, NeverHandedOver

\* A curated rule is sent only under the list it was planned on, also when a fallback
\* stream took that list over meanwhile.
THEOREM PlanSafe == StreamsSpec => PlanIsForThisList
<1> DEFINE A == \A c \in StreamCommands :
                  (st[c] = "new" /\ st'[c] = "waiting" /\ plan[c] # NoPlan) => plan[c].from = from
<1>1. ASSUME IInv, StreamsNext PROVE A
  <2> SUFFICES ASSUME NEW c \in StreamCommands, st[c] = "new", st'[c] = "waiting", plan[c] # NoPlan
               PROVE  plan[c].from = from
      OBVIOUS
  <2> StreamsTypeOK /\ PlansCurrent
      BY ZenonT(30), <1>1 DEF IInv
  <2>1. CASE st' = st
      BY <2>1
  <2>2. CASE \E s \in Streams : CloseStream(s)
      BY Zenon, <2>2 DEF CloseStream
  <2>3. CASE CommandStep
    <3>1. SendCurated(c)
        BY Zenon, <2>3 DEF CommandStep, Send, SendLeftoverDelete, Plan, SendCurated, Dispatched, WaitEnds, WaitTimesOut,
           TimeoutLocks, GracePasses, OnReply, StreamsTypeOK
    <3> QED
        BY Zenon, <3>1 DEF SendCurated, PlansCurrent
  <2> QED
      BY Zenon, <1>1, <2>1, <2>2, <2>3, NextCases
      DEF Receive, StageReceived, SubEntryExpires, JournalOverflows, OpenStream, Hello, cmdVars
<1>2. IInv /\ [StreamsNext]_allStreamVars => [A]_allStreamVars
    BY Zenon, <1>1
<1> QED
    BY <1>2, Invariance, PTL DEF StreamsSpec, PlanIsForThisList

-----------------------------------------------------------------------------
(* The state files *)

SaverSteps == {"idle", "created", "synced", "renamed"}
ReaderSteps == {"idle", "again", "opened", "done", "refused"}
Writing == {"created", "synced"}

\* The numbers and the records have their types
Shape ==
  /\ named \in Nat /\ onDisk \in Nat /\ returned \in Nat /\ saves \in Nat /\ crashes \in Nat
  /\ saver \in [Savers -> [at : SaverSteps, temp : Nat, file : Nat]]
  /\ reader \in [Readers -> [at : ReaderSteps, open : Nat, tries : Nat, since : Nat]]

\* What is acknowledged is on disk, and what is on disk was put in place
Order ==
  /\ returned <= onDisk /\ onDisk <= named
  /\ \A s \in Savers : saver[s].at = "renamed" => saver[s].file <= named
  /\ 0..named \subseteq whole

\* Each save in flight has a temp file of its own
Apart ==
  /\ \A s \in Savers : saver[s].at \in Writing => saver[s].temp \in temps /\ saver[s].temp <= saves
  /\ \A s, t \in Savers : s # t /\ saver[s].at \in Writing /\ saver[t].at \in Writing =>
       saver[s].temp # saver[t].temp

\* Every failed try saw the file replaced
Tries ==
  \A r \in Readers :
    LET rd == reader[r]
    IN  /\ rd.at = "opened" => rd.tries >= 1 /\ rd.open <= named /\ rd.since + rd.tries <= rd.open + 1
        /\ rd.at = "again" => rd.tries >= 1 /\ rd.since + rd.tries <= named
        /\ rd.at = "refused" => rd.since + rd.tries <= named /\ rd.tries >= Retries

FileInv == Shape /\ Order /\ Apart /\ Tries

-----------------------------------------------------------------------------
(* What the steps do to the parts of FileInv *)

\* At the start nothing is saved, and nobody saves or reads.
LEMMA InitInv == StateFileInit => FileInv
  BY DEF StateFileInit, FileInv, Shape, Order, Apart, Tries, FileIdle, NotReading, SaverSteps,
         ReaderSteps, Writing

\* Creating a temp file under a new number keeps the saves in flight apart.
LEMMA CreatesInv ==
  ASSUME FileInv, NEW s \in Savers, SaveCreates(s)
  PROVE  FileInv'
<1> saver[s].at = "idle" /\ saves \in Nat /\ saves' = saves + 1 /\ temps' = temps \cup {saves + 1}
    /\ saver' = [saver EXCEPT ![s] = [at |-> "created", temp |-> saves + 1, file |-> 0]]
    /\ UNCHANGED <<named, onDisk, whole, returned, crashes, reader>>
  BY Zenon DEF SaveCreates, FileInv, Shape
<1>1. Shape'
  BY DEF FileInv, Shape, SaverSteps
<1>2. Order'
  BY Zenon DEF FileInv, Shape, Order
<1>3. Apart'
  BY DEF FileInv, Shape, Apart, Writing
<1>4. Tries'
  BY DEF FileInv, Tries
<1> QED BY Zenon, <1>1, <1>2, <1>3, <1>4 DEF FileInv

\* Syncing the temp file changes nobody else.
LEMMA SyncsInv ==
  ASSUME FileInv, NEW s \in Savers, SaveSyncs(s)
  PROVE  FileInv'
<1> saver[s].at = "created" /\ saver' = [saver EXCEPT ![s].at = "synced"]
    /\ UNCHANGED <<named, onDisk, whole, temps, returned, saves, crashes, reader>>
  BY DEF SaveSyncs
<1>1. Shape'
  BY DEF FileInv, Shape, SaverSteps
<1>2. Order'
  BY DEF FileInv, Shape, Order
<1>3. Apart'
  BY DEF FileInv, Shape, Apart, Writing
<1>4. Tries'
  BY DEF FileInv, Tries
<1> QED BY <1>1, <1>2, <1>3, <1>4 DEF FileInv

\* A failed save takes away its own temp file only.
LEMMA FailsInv ==
  ASSUME FileInv, NEW s \in Savers, SaveFails(s)
  PROVE  FileInv'
<1> saver[s].at \in Writing /\ saver' = [saver EXCEPT ![s] = FileIdle]
    /\ temps' = temps \ {saver[s].temp}
    /\ UNCHANGED <<named, onDisk, whole, returned, saves, crashes, reader>>
  BY Zenon DEF SaveFails, Writing
<1>1. Shape'
  BY Zenon DEF FileInv, Shape, SaverSteps, FileIdle
<1>2. Order'
  BY Zenon DEF FileInv, Shape, Order, FileIdle
<1>3. Apart'
  BY DEF FileInv, Shape, Apart, FileIdle, Writing
<1>4. Tries'
  BY Zenon DEF FileInv, Tries
<1> QED BY <1>1, <1>2, <1>3, <1>4 DEF FileInv

\* A rename puts a synced file in place, and every read that is under way can tell.
LEMMA RenamesInv ==
  ASSUME FileInv, NEW s \in Savers, SaveRenames(s)
  PROVE  FileInv'
<1> saver[s].at = "synced" /\ named' = named + 1 /\ temps' = temps \ {saver[s].temp}
    /\ whole' = whole \cup {named + 1}
    /\ saver' = [saver EXCEPT ![s] = [at |-> "renamed", temp |-> saver[s].temp, file |-> named + 1]]
    /\ UNCHANGED <<onDisk, returned, saves, crashes, reader>>
  BY Zenon DEF SaveRenames, Renamed
<1>1. Shape'
  BY DEF FileInv, Shape, SaverSteps
<1>2. Order'
  BY DEF FileInv, Shape, Order
<1>3. Apart'
  BY Zenon DEF FileInv, Shape, Apart, Writing
<1>4. Tries'
  BY DEF FileInv, Shape, Tries
<1> QED BY Zenon, <1>1, <1>2, <1>3, <1>4 DEF FileInv

\* The directory is synced before Ok, so what is acknowledged is on disk.
LEMMA ReturnsInv ==
  ASSUME FileInv, NEW s \in Savers, SaveReturns(s) \/ SaveFailsLate(s)
  PROVE  FileInv'
<1> saver[s].at = "renamed" /\ saver' = [saver EXCEPT ![s] = FileIdle]
    /\ UNCHANGED <<named, whole, temps, saves, crashes, reader>>
    /\ \/ onDisk' = named /\ returned' = IF saver[s].file > returned THEN saver[s].file ELSE returned
       \/ UNCHANGED <<onDisk, returned>>
  BY Zenon DEF SaveReturns, Returned, SaveFailsLate
<1>1. Shape'
  BY DEF FileInv, Shape, SaverSteps, FileIdle
<1>2. Order'
  BY DEF FileInv, Shape, Order, FileIdle
<1>3. Apart'
  BY Zenon DEF FileInv, Shape, Apart, FileIdle, Writing
<1>4. Tries'
  BY DEF FileInv, Tries
<1> QED BY Zenon, <1>1, <1>2, <1>3, <1>4 DEF FileInv

\* A try opens the file in place; a failed one has seen it replaced, once more than before.
LEMMA ReadsInv ==
  ASSUME FileInv, NEW r \in Readers, ReadOpens(r) \/ ReadChecks(r) \/ ReadEnds(r)
  PROVE  FileInv'
<1> UNCHANGED <<named, onDisk, whole, saver, temps, returned, saves, crashes>>
  BY Zenon DEF ReadOpens, ReadChecks, ReadEnds
<1>1. Order' /\ Apart'
  BY DEF FileInv, Order, Apart
<1>2. CASE ReadOpens(r)
  <2> DEFINE new == [at |-> "opened", open |-> named,
                     tries |-> IF reader[r].at = "idle" THEN 1 ELSE reader[r].tries + 1,
                     since |-> IF reader[r].at = "idle" THEN named ELSE reader[r].since]
  <2>1. reader[r].at \in {"idle", "again"} /\ reader' = [reader EXCEPT ![r] = new]
    BY Zenon, <1>2 DEF ReadOpens
  <2>2. Shape' /\ Tries'
    BY <2>1 DEF FileInv, Shape, Tries, ReaderSteps
  <2> QED BY Zenon, <1>1, <2>2 DEF FileInv
<1>3. CASE ReadChecks(r)
  <2> DEFINE at == IF ~Replaced(r) THEN "done"
                   ELSE IF reader[r].tries < Retries THEN "again" ELSE "refused"
  <2>1. reader[r].at = "opened" /\ reader' = [reader EXCEPT ![r].at = at]
    BY Zenon, <1>3 DEF ReadChecks
  <2>2. reader[r] \in [at : ReaderSteps, open : Nat, tries : Nat, since : Nat] /\ at \in ReaderSteps
    BY DEF FileInv, Shape, ReaderSteps
  <2>3. /\ reader'[r].at = at /\ reader'[r].open = reader[r].open
        /\ reader'[r].tries = reader[r].tries /\ reader'[r].since = reader[r].since
        /\ \A x \in Readers : x # r => reader'[x] = reader[x]
    BY <2>1, <2>2, Zenon DEF FileInv, Shape
  <2>4. Shape'
    BY <2>1, <2>2 DEF FileInv, Shape
  <2>5. Tries'
    <3>1. /\ named \in Nat /\ reader[r].tries >= 1 /\ reader[r].open <= named
          /\ reader[r].since + reader[r].tries <= reader[r].open + 1
      BY Zenon, <2>1 DEF FileInv, Shape, Tries
    <3>2. at \in {"again", "refused"} => reader[r].since + reader[r].tries <= named
      BY <2>2, <3>1 DEF Replaced
    <3>3. at = "refused" => reader[r].tries >= Retries
      <4>1. Retries \in Nat /\ reader[r].tries \in Nat BY Zenon, <2>2, StateFileAssumption
      <4>2. at = "refused" => ~(reader[r].tries < Retries) OBVIOUS
      <4> HIDE DEF at
      <4> QED BY <4>1, <4>2
    <3>4. at # "opened"
      OBVIOUS
    <3> HIDE DEF at
    <3> SUFFICES ASSUME NEW x \in Readers
                 PROVE  LET rd == reader'[x]
                        IN  /\ rd.at = "opened" => rd.tries >= 1 /\ rd.open <= named /\ rd.since + rd.tries <= rd.open + 1
                            /\ rd.at = "again" => rd.tries >= 1 /\ rd.since + rd.tries <= named
                            /\ rd.at = "refused" => rd.since + rd.tries <= named /\ rd.tries >= Retries
      BY Zenon DEF Tries
    <3>5. CASE x = r
      BY ZenonT(30), <2>3, <3>1, <3>2, <3>3, <3>4, <3>5
    <3>6. CASE x # r
      BY Zenon, <2>3, <3>6 DEF FileInv, Tries
    <3> QED BY Zenon, <3>5, <3>6
  <2> QED BY <1>1, <2>4, <2>5 DEF FileInv
<1>4. CASE ReadEnds(r)
  <2>1. reader' = [reader EXCEPT ![r] = NotReading]
    BY Zenon, <1>4 DEF ReadEnds
  <2>2. Shape' /\ Tries'
    BY Zenon, <2>1 DEF FileInv, Shape, Tries, NotReading, ReaderSteps
  <2> QED BY <1>1, <2>2 DEF FileInv
<1> QED BY <1>2, <1>3, <1>4

\* A crash leaves the file that was on disk or one renamed into place after it.
LEMMA CrashInv ==
  ASSUME FileInv, Crash
  PROVE  FileInv'
<1> /\ named' \in onDisk..named /\ onDisk' = named' /\ whole' = whole \cap 0..named'
    /\ crashes' = crashes + 1
    /\ saver' = [s \in Savers |-> FileIdle] /\ reader' = [r \in Readers |-> NotReading]
    /\ UNCHANGED <<temps, returned, saves>>
  BY Zenon DEF Crash
<1>1. Shape'
  BY DEF FileInv, Shape, SaverSteps, ReaderSteps, FileIdle, NotReading
<1>2. Order'
  BY DEF FileInv, Shape, Order, FileIdle
<1>3. Apart' /\ Tries'
  BY DEF Apart, Tries, Writing, FileIdle, NotReading
<1> QED BY Zenon, <1>1, <1>2, <1>3 DEF FileInv

\* Only temp files that no live save uses are removed.
LEMMA LeftoversInv ==
  ASSUME FileInv, RemoveLeftovers
  PROVE  FileInv'
<1> temps' = LiveTemps
    /\ UNCHANGED <<named, onDisk, whole, saver, returned, saves, crashes, reader>>
  BY Zenon DEF RemoveLeftovers
<1>1. Shape' /\ Order' /\ Tries'
  BY Zenon DEF FileInv, Shape, Order, Tries
<1>2. Apart'
  BY DEF FileInv, Shape, Apart, LiveTemps, Writing
<1> QED BY <1>1, <1>2 DEF FileInv

\* Every step of a save, a read, a crash or a cleanup keeps FileInv.
LEMMA NextInv == FileInv /\ [StateFileNext]_fileVars => FileInv'
<1> SUFFICES ASSUME FileInv, [StateFileNext]_fileVars PROVE FileInv'
  OBVIOUS
<1>1. CASE UNCHANGED fileVars
  BY Zenon, <1>1 DEF fileVars, FileInv, Shape, Order, Apart, Tries
<1>2. ASSUME NEW s \in Savers,
             \/ SaveCreates(s) \/ SaveSyncs(s) \/ SaveFails(s)
             \/ SaveRenames(s) \/ SaveReturns(s) \/ SaveFailsLate(s)
      PROVE  FileInv'
  BY Zenon, <1>2, CreatesInv, SyncsInv, FailsInv, RenamesInv, ReturnsInv
<1>3. ASSUME NEW r \in Readers, ReadOpens(r) \/ ReadChecks(r) \/ ReadEnds(r)
      PROVE  FileInv'
  BY <1>3, ReadsInv
<1> QED BY <1>1, <1>2, <1>3, CrashInv, LeftoversInv DEF StateFileNext

\* The inductive invariant holds of every behaviour of the saves and reads of a state file
\* (state_file.rs, write and read_with).
THEOREM FileInvHolds == StateFileSpec => []FileInv
  BY InitInv, NextInv, PTL DEF StateFileSpec

-----------------------------------------------------------------------------
\* A save that returned Ok outlives every crash, every file a crash may leave was synced
\* whole, no cleanup takes a live save's temp file, and a read is refused only after the
\* file was replaced as often as it tried (state_file.rs write and read_with).
THEOREM StateFileSafe == StateFileSpec => []FileIsSafe
<1>1. FileInv => OkSaveOutlivesCrash /\ CrashFindsWholeFile
  BY DEF FileInv, Shape, Order, OkSaveOutlivesCrash, CrashFindsWholeFile
<1>2. FileInv => TempOfLiveSaveStays
  BY Zenon DEF FileInv, Apart, TempOfLiveSaveStays, LiveTemps, Writing
<1>3. FileInv => ReadsSurviveSaves
  BY StateFileAssumption DEF FileInv, Shape, Tries, ReadsSurviveSaves
<1>4. FileInv => FileIsSafe
  BY Zenon, <1>1, <1>2, <1>3 DEF FileIsSafe
<1> QED BY FileInvHolds, <1>4, PTL

-----------------------------------------------------------------------------
(* The refinement *)

\* Each step is a step of the abstract file, or changes nothing of it: a rename replaces, a
\* directory sync acknowledges, a crash undoes, all other steps stutter.
LEMMA StepKeepsPromise ==
  FileInv /\ [StateFileNext]_fileVars => [Promise!AtomicNext]_<<named, returned>>
<1> SUFFICES ASSUME FileInv, [StateFileNext]_fileVars
             PROVE  [Promise!AtomicNext]_<<named, returned>>
  OBVIOUS
<1> USE DEF Promise!AtomicNext
<1>1. CASE UNCHANGED fileVars
  BY <1>1 DEF fileVars
<1>2. ASSUME NEW s \in Savers, SaveCreates(s) \/ SaveSyncs(s) \/ SaveFails(s) \/ SaveFailsLate(s)
      PROVE  UNCHANGED <<named, returned>>
  BY Zenon, <1>2 DEF SaveCreates, SaveSyncs, SaveFails, SaveFailsLate
<1>3. ASSUME NEW s \in Savers, SaveRenames(s)
      PROVE  Promise!Replace
  BY Zenon, <1>3 DEF SaveRenames, Renamed, Promise!Replace
<1>4. ASSUME NEW s \in Savers, SaveReturns(s)
      PROVE  Promise!Acknowledge
  BY <1>4 DEF SaveReturns, Returned, Promise!Acknowledge, FileInv, Shape, Order
<1>5. ASSUME NEW r \in Readers, ReadOpens(r) \/ ReadChecks(r) \/ ReadEnds(r)
      PROVE  UNCHANGED <<named, returned>>
  BY <1>5 DEF ReadOpens, ReadChecks, ReadEnds
<1>6. CASE Crash
  <2>1. Promise!Undo
    BY <1>6 DEF Crash, Promise!Undo, FileInv, Shape, Order
  <2> QED BY Zenon, <2>1
<1>7. CASE RemoveLeftovers
  BY <1>7 DEF RemoveLeftovers
<1> QED BY Zenon, <1>1, <1>2, <1>3, <1>4, <1>5, <1>6, <1>7 DEF StateFileNext

\* Temp files, syncs, renames and retries implement an atomic file (AtomicFile), whatever the
\* number of saves, readers and crashes.
THEOREM StateFileRefines == StateFileSpec => KeepsPromise
<1>1. StateFileInit => Promise!AtomicInit
  BY Zenon DEF StateFileInit, Promise!AtomicInit
<1> QED BY <1>1, FileInvHolds, StepKeepsPromise, PTL DEF StateFileSpec, KeepsPromise, Promise!AtomicSpec

-----------------------------------------------------------------------------
(* The tray *)

USE TrayAssumption

\* What is derived has the type of a tray, and reads DaemonDown exactly in an outage.
LEMMA DeriveFacts ==
  ASSUME NEW down \in BOOLEAN, NEW paused \in BOOLEAN, NEW waiting \in Nat
  PROVE  /\ Derive(down, paused, waiting) \in Trays
         /\ down <=> Derive(down, paused, waiting).kind = "DaemonDown"
         /\ Derive(down, paused, waiting).kind # "RecentBlock"
  BY DEF Derive, State, Trays

\* The initial state has the types.
LEMMA TrayTypeInit == TrayInit => TrayTypeOK
<1> SUFFICES ASSUME TrayInit PROVE TrayTypeOK
  OBVIOUS
<1>1. State("Idle", 0) \in Trays
  BY DEF State, Trays
<1>2. timers \in [Timers -> {"none", "asleep", "reverting", "gone"}]
  BY Zenon DEF TrayInit
<1> QED
  BY Zenon, <1>1, <1>2 DEF TrayInit, TrayTypeOK

\* Every step keeps the types.
LEMMA TrayTypeStep == TrayTypeOK /\ [TrayNext]_allTrayVars => TrayTypeOK'
<1> SUFFICES ASSUME TrayTypeOK, [TrayNext]_allTrayVars PROVE TrayTypeOK'
  OBVIOUS
<1> USE DEF TrayTypeOK
<1>d. (daemonDown \in BOOLEAN /\ prompts \in Nat) => Truth \in Trays
  BY Zenon, DeriveFacts DEF Truth
<1>1. CASE PromptsChange
  <2>1. prompts' \in Nat
    BY <1>1 DEF PromptsChange
  <2>2. tray' \in Trays
    BY Zenon, <1>1, <2>1, DeriveFacts DEF PromptsChange, Set
  <2> QED
    BY Zenon, <1>1, <2>1, <2>2 DEF PromptsChange, Set, dogVars, timerVars, outVars
<1>2. CASE PauseLapses \/ ReachabilityChanges \/ WatchdogTicks
  <2>1. CASE PauseLapses
    BY Zenon, <2>1 DEF PauseLapses, trayVars, dogVars, timerVars, outVars
  <2>2. CASE ReachabilityChanges
    BY Zenon, <2>2 DEF ReachabilityChanges, inputVars, trayVars, dogVars, timerVars, outVars
  <2>3. CASE WatchdogTicks
    BY Zenon, <2>3 DEF WatchdogTicks, inputVars, trayVars, timerVars, outVars
  <2> QED
    BY Zenon, <1>2, <2>1, <2>2, <2>3
<1>3. ASSUME NEW t \in Tasks, PauseChanges(t) PROVE TrayTypeOK'
  BY Zenon, <1>3 DEF PauseChanges, inputVars, trayVars, dogVars, timerVars, outVars
<1>4. ASSUME NEW t \in Tasks, AnnouncePauseState(t) PROVE TrayTypeOK'
  BY Zenon, <1>4, <1>d DEF AnnouncePauseState, Set, inputVars, dogVars, timerVars, outVars
<1>5. CASE WatchdogPublishes
  <2>1. daemonDown' \in BOOLEAN
    BY <1>5 DEF WatchdogPublishes
  <2>2. tray' \in Trays
    BY Zenon, <1>5, <2>1, DeriveFacts DEF WatchdogPublishes, Set
  <2> QED
    BY Zenon, <1>5, <2>1, <2>2 DEF WatchdogPublishes, Set, timerVars, outVars
<1>6. CASE Block
  BY <1>6 DEF Block, Set, State, Trays, Timers, inputVars, dogVars, outVars
<1>7. ASSUME NEW b \in Timers, TimerFires(b) PROVE TrayTypeOK'
  BY Zenon, <1>7 DEF TimerFires, inputVars, trayVars, dogVars, outVars
<1>8. ASSUME NEW b \in Timers, TimerReverts(b) PROVE TrayTypeOK'
  BY Zenon, <1>8, <1>d DEF TimerReverts, Set, inputVars, dogVars, outVars
<1>9. CASE Relay
  <2>1. CASE RelayWakes \/ RelayReads
    BY Zenon, <2>1 DEF RelayWakes, RelayReads, inputVars, trayVars, dogVars, timerVars
  <2>2. CASE RelaySends
    BY <2>2 DEF RelaySends, State, Trays, inputVars, trayVars, dogVars, timerVars
  <2> QED
    BY <1>9, <2>1, <2>2 DEF Relay
<1>10. CASE SnapshotReads \/ SnapshotSends
  BY <1>10 DEF SnapshotReads, SnapshotSends, State, Trays, inputVars, trayVars, dogVars, timerVars
<1>11. CASE UNCHANGED allTrayVars
  BY Zenon, <1>11 DEF allTrayVars, inputVars, trayVars, dogVars, timerVars, outVars
<1> QED
  BY Zenon, <1>1, <1>2, <1>3, <1>4, <1>5, <1>6, <1>7, <1>8, <1>9, <1>10, <1>11 DEF TrayNext

\* Every step keeps the tray truthful, and the watchdog's memory in line with the flag.
LEMMA TrayStep == TrayTypeOK /\ TrayInv /\ [TrayNext]_allTrayVars => TrayInv'
<1> SUFFICES ASSUME TrayTypeOK, TrayInv, [TrayNext]_allTrayVars PROVE TrayInv'
  OBVIOUS
<1> USE DEF TrayTypeOK
<1>d. (daemonDown <=> Truth.kind = "DaemonDown") /\ Truth.kind # "RecentBlock"
  <2>1. daemonDown \in BOOLEAN /\ (trayPause = "running") \in BOOLEAN /\ prompts \in Nat
    BY Zenon
  <2> HIDE DEF TrayTypeOK
  <2> QED
    BY Zenon, <2>1, DeriveFacts DEF Truth
<1>f. ASSUME UNCHANGED <<daemonDown, watchdog, wasDown>>, tray' = Truth',
             Truth'.kind = "DaemonDown" <=> daemonDown'
      PROVE TrayInv'
  BY <1>f DEF TrayInv, TrayTells, OutageShown
<1>1. CASE PromptsChange
  <2>1. prompts' \in Nat /\ tray' = Truth'
    BY <1>1 DEF PromptsChange, Set, Truth
  <2>2. Truth'.kind = "DaemonDown" <=> daemonDown'
    <3>1. daemonDown \in BOOLEAN /\ (trayPause' = "running") \in BOOLEAN /\ daemonDown' = daemonDown
      BY Zenon, <1>1 DEF PromptsChange
    <3> HIDE DEF TrayTypeOK
    <3> QED
      BY Zenon, <2>1, <3>1, DeriveFacts DEF Truth
  <2> QED
    BY Zenon, <1>1, <2>1, <2>2, <1>f DEF PromptsChange, dogVars
<1>2. CASE PauseLapses \/ ReachabilityChanges \/ Relay \/ SnapshotReads \/ SnapshotSends
  <2>1. /\ UNCHANGED <<prompts, daemonDown, tray, watchdog, wasDown, announcers>>
        /\ trayPause' \in {trayPause, "lapsed"}
    BY Zenon, <1>2 DEF PauseLapses, ReachabilityChanges, Relay, RelayWakes, RelayReads, RelaySends,
       SnapshotReads, SnapshotSends, inputVars, trayVars, dogVars
  <2> QED BY Zenon, <2>1 DEF TrayInv, TrayTells, OutageShown, Truth
<1>3. ASSUME NEW t \in Tasks, PauseChanges(t) PROVE TrayInv'
  BY Zenon, <1>3 DEF TrayInv, TrayTells, OutageShown, PauseChanges, trayVars, dogVars
<1>4. ASSUME NEW t \in Tasks, AnnouncePauseState(t) PROVE TrayInv'
  BY <1>4, <1>d, <1>f DEF AnnouncePauseState, Set, Truth, inputVars, dogVars
<1>5. CASE WatchdogTicks
  BY Zenon, <1>5 DEF TrayInv, TrayTells, OutageShown, Truth, WatchdogTicks, inputVars, trayVars
<1>6. CASE WatchdogPublishes
  <2>1. daemonDown' \in BOOLEAN /\ tray' = Truth'
    BY Zenon, <1>6 DEF WatchdogPublishes, Set, Truth
  <2>2. daemonDown' <=> tray'.kind = "DaemonDown"
    <3>1. tray' = Derive(daemonDown', trayPause = "running", prompts)
      BY Zenon, <1>6 DEF WatchdogPublishes, Set
    <3> QED
      BY <2>1, <3>1 DEF Derive, State
  <2>3. watchdog' = "idle" /\ (wasDown' <=> daemonDown')
    BY Zenon, <1>6 DEF WatchdogPublishes, TrayInv
  <2> QED
    BY Zenon, <2>1, <2>2, <2>3 DEF TrayInv, TrayTells, OutageShown
<1>7. CASE Block
  BY Zenon, <1>7, <1>d DEF TrayInv, TrayTells, OutageShown, Block, Set, State, inputVars, dogVars
<1>8. ASSUME NEW b \in Timers, TimerFires(b) PROVE TrayInv'
  BY Zenon, <1>8 DEF TrayInv, TrayTells, OutageShown, Truth, TimerFires, inputVars, trayVars, dogVars
<1>9. ASSUME NEW b \in Timers, TimerReverts(b) PROVE TrayInv'
  BY Zenon, <1>9, <1>d, <1>f DEF TimerReverts, Set, Truth, inputVars, dogVars
<1>10. CASE UNCHANGED allTrayVars
  BY <1>10 DEF TrayInv, TrayTells, OutageShown, Truth, allTrayVars, inputVars, trayVars, dogVars
<1> QED
  BY Zenon, <1>1, <1>2, <1>3, <1>4, <1>5, <1>6, <1>7, <1>8, <1>9, <1>10 DEF TrayNext

\* Every variable keeps its type, for any bounds.
THEOREM TrayTyping == TraySpec => []TrayTypeOK
<1> QED
  BY TrayTypeInit, TrayTypeStep, PTL DEF TraySpec

\* For any number of prompts, blocks and timers and any interleaving of the publishers,
\* a recorded outage is what the tray shows (derive, publish_recent_block, the watchdog),
\* and a settled tray is what the inputs call for.
LEMMA TrayIsTrue == TraySpec => [](OutageShown /\ TrayTells)
<1>1. TrayInit => TrayInv
  BY DEF TrayInit, TrayInv, TrayTells, OutageShown, Truth, Derive, State
<1>2. TrayTypeOK /\ TrayInv /\ [TrayNext]_allTrayVars => (TrayTypeOK /\ TrayInv)'
  BY TrayTypeStep, TrayStep
<1>3. TrayInv => OutageShown /\ TrayTells
  BY Zenon DEF TrayInv
<1> QED
  BY <1>1, <1>2, <1>3, TrayTypeInit, PTL DEF TraySpec

-----------------------------------------------------------------------------
(* Shells follow the tray *)

\* While no snapshot request was answered, a value not marked unseen is sent, or is what the
\* relay is about to send.
ShellInv ==
  traySnapshots = 0 =>
    /\ trayPump = "idle"
    /\ ~fresh /\ relay = "idle" => shell = tray
    /\ ~fresh /\ relay = "send" => relayCopy = tray

\* Publishing marks the value unseen; waking marks it seen before it is read.
LEMMA ShellStep == TrayTypeOK /\ ShellInv /\ [TrayNext]_allTrayVars => ShellInv'
<1> SUFFICES ASSUME TrayTypeOK, ShellInv, [TrayNext]_allTrayVars PROVE ShellInv'
  OBVIOUS
<1> USE DEF ShellInv
<1>1. ASSUME UNCHANGED <<outVars, trayVars>> PROVE ShellInv'
  BY <1>1 DEF outVars, trayVars
<1>2. ASSUME UNCHANGED outVars, NEW t, Set(t) PROVE ShellInv'
  BY Zenon, <1>2 DEF outVars, Set
<1>3. CASE PromptsChange \/ PauseLapses \/ ReachabilityChanges
  BY Zenon, <1>1, <1>2, <1>3 DEF PromptsChange, PauseLapses, ReachabilityChanges
<1>4. ASSUME NEW t \in Tasks, PauseChanges(t) \/ AnnouncePauseState(t) PROVE ShellInv'
  BY Zenon, <1>1, <1>2, <1>4 DEF PauseChanges, AnnouncePauseState
<1>5. CASE WatchdogTicks \/ WatchdogPublishes
  BY Zenon, <1>1, <1>2, <1>5 DEF WatchdogTicks, WatchdogPublishes
<1>6. CASE Block
  BY Zenon, <1>1, <1>2, <1>6 DEF Block
<1>7. ASSUME NEW b \in Timers, TimerFires(b) \/ TimerReverts(b) PROVE ShellInv'
  BY Zenon, <1>1, <1>2, <1>7 DEF TimerFires, TimerReverts
<1>8. CASE Relay
  BY Zenon, <1>8 DEF Relay, RelayWakes, RelayReads, RelaySends, trayVars, TrayTypeOK
<1>9. CASE SnapshotReads \/ SnapshotSends
  BY <1>9 DEF SnapshotReads, SnapshotSends, trayVars, TrayTypeOK
<1>10. CASE UNCHANGED allTrayVars
  BY <1>1, <1>10 DEF allTrayVars
<1> QED
  BY <1>3, <1>4, <1>5, <1>6, <1>7, <1>8, <1>9, <1>10 DEF TrayNext

\* However many tasks publish the tray and whenever the relay runs, shells end up with it
\* (watch::changed, then borrow, in spawn_tray_and_notice_relays).
LEMMA ShellsFollow == TraySpec => []ShellShowsTray
<1>1. TrayInit => ShellInv
  BY DEF TrayInit, ShellInv
<1>2. ShellInv => ShellShowsTray
  BY DEF ShellInv, ShellShowsTray
<1> QED
  BY <1>1, <1>2, TrayTypeInit, TrayTypeStep, ShellStep, PTL DEF TraySpec

\* For any number of prompts, blocks, timers and shells: an outage is never covered, the
\* settled tray is what its inputs call for, and an idle relay has sent it on.
THEOREM TrayIsRight == TraySpec => []TrayIsShown
<1>1. OutageShown /\ TrayTells /\ ShellShowsTray => TrayIsShown
  BY DEF TrayIsShown
<1> QED
  BY <1>1, TrayIsTrue, ShellsFollow, PTL

=============================================================================
