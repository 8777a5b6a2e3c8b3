--------------------------- MODULE DaemonStreams ---------------------------
(***************************************************************************)
(* The daemon's Notifications streams (daemon_commands.rs): which stream is *)
(* current, which one the rule list belongs to, and what becomes of the     *)
(* commands sent.  Every operation holds the stream lock, so each is one    *)
(* step.  Subscribes are received and staged without the lock, and a wait   *)
(* times out without it.  Of the list only the Subscribe it came from       *)
(* matters here; its rules are in RulesSync.tla.                            *)
(*                                                                         *)
(* On TCP any process may open a stream, say HELLO again and answer any id. *)
(***************************************************************************)
EXTENDS Integers, Sequences, FiniteSets

CONSTANTS
  Streams, StreamCommands,
  Conns,            \* connection keys on TCP: peer addresses
  None,             \* Option::None
  UnixKey,          \* the one connection key of the Unix socket
  PendingCap,       \* PENDING_SNAPSHOT_CAP
  MaxStreamSubs,          \* bound: Subscribes
  MaxHellos         \* bound: HELLOs

ASSUME StreamsAssumption ==
  /\ None \notin Streams /\ UnixKey \notin Conns
  /\ PendingCap \in Nat \ {0} /\ MaxStreamSubs \in Nat /\ MaxHellos \in Nat

VARIABLES
  transport,          \* "Tcp" or "Unix"
  open, used, conn,   \* streams: open now; ever opened; their connection keys
  hello, hellos,      \* each stream's HELLO, 0 for none; next_hello (and ready)
  current, committed, \* current, committed_by
  list, from,         \* what the cache holds: "none", "list" or "count"; snapshot_sequence
  received, staged,   \* Subscribes not yet staged; PendingSnapshots.entries
  sender, stagings,   \* the connection each Subscribe came by; Subscribes staged so far
  st, to, plan,       \* each command: its state, its stream, what it was planned on
  caller              \* what the command's sender has learnt

streamVars == <<open, used, conn, hello, hellos>>
streamListVars   == <<current, committed, list, from>>
subVars    == <<received, staged, sender, stagings>>
cmdVars    == <<st, to, plan, caller>>
allStreamVars == <<transport, streamVars, streamListVars, subVars, cmdVars>>

\* ConnKey: a peer address, nothing on the Unix socket
Keys == IF transport = "Unix" THEN {UnixKey} ELSE Conns

-----------------------------------------------------------------------------
(* Subscribe: received at once, staged after the account lookup *)

Receive(key) ==
  /\ Len(sender) < MaxStreamSubs /\ sender' = Append(sender, key)
  /\ \E over \in BOOLEAN :
       received' = received \cup {[key |-> key, seq |-> Len(sender) + 1, over |-> over]}
  /\ UNCHANGED <<transport, streamVars, streamListVars, staged, stagings, cmdVars>>

\* Past the cap the entry staged first goes
Capped(entries) ==
  IF Cardinality(entries) > PendingCap
  THEN {e \in entries : \E f \in entries : f.at < e.at} ELSE entries

\* stage_received: one entry a key, the latest by arrival
StageReceived(r) ==
  LET entry == [key |-> r.key, seq |-> r.seq, over |-> r.over, full |-> FALSE,
                adoptedBy |-> {}, at |-> stagings']
  IN  /\ received' = received \ {r}
      /\ stagings' = stagings + 1
      /\ staged' = IF \E e \in staged : e.key = r.key /\ e.seq > r.seq THEN staged
                   ELSE Capped({e \in staged : e.key # r.key} \cup {entry})
      /\ UNCHANGED <<transport, streamVars, streamListVars, sender, cmdVars>>

\* PENDING_SNAPSHOT_TTL: an entry goes stale, and counts as gone.  No Subscribe that came
\* before it still waits for account names then.
SubEntryExpires(e) ==
  /\ \A r \in received : r.seq > e.seq
  /\ \A f \in staged : e.at <= f.at
  /\ staged' = staged \ {e}
  /\ UNCHANGED <<transport, streamVars, streamListVars, received, stagings, sender, cmdVars>>

\* Entry e, changed
With(e, full, adoptedBy) ==
  [key |-> e.key, seq |-> e.seq, over |-> e.over, full |-> full, adoptedBy |-> adoptedBy, at |-> e.at]

\* Journal::record: the list's journal overflows
JournalOverflows(e) ==
  /\ list = "list" /\ e.seq = from
  /\ staged' = (staged \ {e}) \cup {With(e, TRUE, e.adoptedBy)}
  /\ UNCHANGED <<transport, streamVars, streamListVars, received, stagings, sender, cmdVars>>

-----------------------------------------------------------------------------
(* Streams *)

OpenStream(s) ==
  /\ s \notin used
  /\ used' = used \cup {s} /\ open' = open \cup {s}
  /\ \E key \in Keys : conn' = [conn EXCEPT ![s] = key]
  /\ UNCHANGED <<transport, hello, hellos, streamListVars, subVars, cmdVars>>

\* What adopting entry e makes of the cache
Holds(e) == IF e.over THEN "count" ELSE "list"

\* withdraw
Withdrawn == list' = "none" /\ committed' = None /\ UNCHANGED from

\* Mutant: a stream without a list of its own keeps the other's
HelloKeeps(s) ==
  /\ s \in open /\ hellos < MaxHellos
  /\ transport = "Unix" => hello[s] = 0
  /\ hellos' = hellos + 1 /\ hello' = [hello EXCEPT ![s] = hellos']
  /\ current' = s
  /\ \/ \E e \in staged :
          /\ e.key = conn[s] /\ s \notin e.adoptedBy
          /\ staged' = (staged \ {e}) \cup {With(e, e.full, e.adoptedBy \cup {s})}
          /\ list' = Holds(e) /\ from' = e.seq /\ committed' = s
     \/ /\ \A e \in staged : e.key = conn[s] => s \in e.adoptedBy
        /\ UNCHANGED <<committed, list, from, staged>>
  /\ UNCHANGED <<transport, open, used, conn, received, sender, stagings, cmdVars>>

\* hello, and commit: adopt_fresh finds the key's entry unless this stream adopted it
Hello(s) ==
  /\ s \in open /\ hellos < MaxHellos
  /\ transport = "Unix" => hello[s] = 0
  /\ hellos' = hellos + 1 /\ hello' = [hello EXCEPT ![s] = hellos']
  /\ current' = s
  /\ \/ \E e \in staged :
          /\ e.key = conn[s] /\ s \notin e.adoptedBy
          /\ staged' = (staged \ {e}) \cup {With(e, e.full, e.adoptedBy \cup {s})}
          /\ list' = Holds(e) /\ from' = e.seq /\ committed' = s
     \/ /\ \A e \in staged : e.key = conn[s] => s \in e.adoptedBy
        /\ IF committed \notin {None, s} THEN Withdrawn ELSE UNCHANGED <<committed, list, from>>
        /\ UNCHANGED staged
  /\ UNCHANGED <<transport, open, used, conn, received, sender, stagings, cmdVars>>

\* next is the stream with the newest HELLO, None without one
Newest(next, streams) ==
  IF next = None THEN \A s \in streams : hello[s] = 0
  ELSE next \in streams /\ hello[next] # 0 /\ \A s \in streams : hello[s] <= hello[next]

\* Mutants: on TCP as well; never
ReadoptsOnTcp(next, e) ==
  next # None /\ e.key = conn[next] /\ next \in e.adoptedBy /\ ~e.full
ReadoptsNothing(next, e) == FALSE

\* readopt_for_current: on the Unix socket, when the next stream adopted the key's entry
\* and its journal is complete
Readopts(next, e) ==
  /\ transport = "Unix" /\ next # None
  /\ e.key = conn[next] /\ next \in e.adoptedBy /\ ~e.full

\* What becomes of a waiter when stream s closes and streams are left
FailsOnClose(c, s, left) ==
  /\ st[c] = "waiting"
  /\ IF transport = "Tcp" THEN left = {} ELSE to[c] = s

\* close_stream
CloseStream(s) ==
  LET left == open \ {s}
  IN  /\ s \in open /\ open' = left
      /\ \E next \in Streams \cup {None} :
           /\ IF current = s THEN Newest(next, left) ELSE next = current
           /\ current' = next
           /\ \/ /\ committed = s
                 /\ \E e \in staged :
                      /\ Readopts(next, e)
                      /\ list' = Holds(e) /\ from' = e.seq /\ committed' = next
              \/ committed = s /\ (\A e \in staged : ~Readopts(next, e)) /\ Withdrawn
              \/ committed # s /\ UNCHANGED <<committed, list, from>>
      /\ st' = [c \in StreamCommands |-> IF FailsOnClose(c, s, left) THEN "failed" ELSE st[c]]
      /\ UNCHANGED <<transport, used, conn, hello, hellos, subVars, to, plan, caller>>

-----------------------------------------------------------------------------
(* Commands *)

NoPlan == [generation |-> 0, from |-> 0]

Dispatched(c, target) ==
  /\ st' = [st EXCEPT ![c] = "waiting"]
  /\ to' = [to EXCEPT ![c] = target]
  /\ caller' = [caller EXCEPT ![c] = "waits"]

\* send: to every open stream on TCP, to the current one on the Unix socket
Send(c) ==
  /\ st[c] = "new" /\ plan[c] = NoPlan
  /\ IF transport = "Tcp" THEN open # {} ELSE current # None
  /\ Dispatched(c, IF transport = "Tcp" THEN None ELSE current)
  /\ UNCHANGED <<transport, streamVars, streamListVars, subVars, plan>>

\* send_leftover_delete: only to the stream of the list, only on the Unix socket
SendLeftoverDelete(c) ==
  /\ st[c] = "new" /\ plan[c] = NoPlan
  /\ transport = "Unix" /\ committed # None /\ list = "list"
  /\ Dispatched(c, current)
  /\ UNCHANGED <<transport, streamVars, streamListVars, subVars, plan>>

\* The curated defaults are planned on a list: its generation (ready) is noted
Plan(c) ==
  /\ st[c] = "new" /\ plan[c] = NoPlan /\ list = "list"
  /\ plan' = [plan EXCEPT ![c] = [generation |-> hellos, from |-> from]]
  /\ UNCHANGED <<transport, streamVars, streamListVars, subVars, st, to, caller>>

\* Mutant: the plan's generation is not compared
SendCuratedLate(c) ==
  /\ st[c] = "new" /\ plan[c] # NoPlan
  /\ current = committed /\ committed # None /\ list = "list"
  /\ Dispatched(c, committed)
  /\ UNCHANGED <<transport, streamVars, streamListVars, subVars, plan>>

\* send_curated: only if no HELLO came since, to the stream of the list
SendCurated(c) ==
  /\ st[c] = "new" /\ plan[c] # NoPlan
  /\ plan[c].generation = hellos
  /\ current = committed /\ committed # None /\ list = "list"
  /\ Dispatched(c, committed)
  /\ UNCHANGED <<transport, streamVars, streamListVars, subVars, plan>>

RightStream(c, s) == to[c] \in {None, s}

\* on_reply with an id: taken from the current stream only, and only from the one the
\* command went to.  A late answer from another stream is used up without effect.
OnReply(c, s) ==
  /\ s \in open /\ st[c] \in {"waiting", "late", "stale"}
  /\ current = s
  /\ \/ st[c] = "waiting" /\ RightStream(c, s) /\ st' = [st EXCEPT ![c] = "applied"]
     \/ st[c] = "late" /\ st' = [st EXCEPT ![c] = IF RightStream(c, s) THEN "applied" ELSE "dropped"]
     \/ st[c] = "stale" /\ st' = [st EXCEPT ![c] = "dropped"]
  /\ UNCHANGED <<transport, streamVars, streamListVars, subVars, to, plan, caller>>

\* PendingReply::wait: the answer is there ...
WaitEnds(c) ==
  /\ caller[c] = "waits" /\ st[c] \in {"applied", "failed"}
  /\ caller' = [caller EXCEPT ![c] = IF st[c] = "applied" THEN "answer" ELSE "closed"]
  /\ UNCHANGED <<transport, streamVars, streamListVars, subVars, st, to, plan>>

\* ... or the timeout fires first ...
WaitTimesOut(c) ==
  /\ caller[c] = "waits" /\ st[c] = "waiting"
  /\ caller' = [caller EXCEPT ![c] = "timesOut"]
  /\ UNCHANGED <<transport, streamVars, streamListVars, subVars, st, to, plan>>

\* ... and the lock is taken later: the waiter, if still there, is kept as late
TimeoutLocks(c) ==
  /\ caller[c] = "timesOut"
  /\ caller' = [caller EXCEPT ![c] = "timeout"]
  /\ st' = [st EXCEPT ![c] = IF @ = "waiting" THEN "late" ELSE @]
  /\ UNCHANGED <<transport, streamVars, streamListVars, subVars, to, plan>>

\* LATE_REPLY_GRACE passes
GracePasses(c) ==
  /\ st[c] = "late"
  /\ st' = [st EXCEPT ![c] = "stale"]
  /\ UNCHANGED <<transport, streamVars, streamListVars, subVars, to, plan, caller>>

-----------------------------------------------------------------------------
StreamsInit ==
  /\ transport \in {"Tcp", "Unix"}
  /\ open = {} /\ used = {} /\ conn = [s \in Streams |-> UnixKey]
  /\ hello = [s \in Streams |-> 0] /\ hellos = 0
  /\ current = None /\ committed = None /\ list = "none" /\ from = 0
  /\ received = {} /\ staged = {} /\ sender = <<>> /\ stagings = 0
  /\ st = [c \in StreamCommands |-> "new"] /\ to = [c \in StreamCommands |-> None]
  /\ plan = [c \in StreamCommands |-> NoPlan] /\ caller = [c \in StreamCommands |-> "none"]

StreamsNext ==
  \/ \E key \in Keys : Receive(key)
  \/ \E r \in received : StageReceived(r)
  \/ \E e \in staged : SubEntryExpires(e) \/ JournalOverflows(e)
  \/ \E s \in Streams : OpenStream(s) \/ Hello(s) \/ CloseStream(s)
  \/ \E c \in StreamCommands :
       \/ Send(c) \/ SendLeftoverDelete(c) \/ Plan(c) \/ SendCurated(c)
       \/ WaitEnds(c) \/ WaitTimesOut(c) \/ TimeoutLocks(c) \/ GracePasses(c)
       \/ \E s \in Streams : OnReply(c, s)

StreamsSpec == StreamsInit /\ [][StreamsNext]_allStreamVars

-----------------------------------------------------------------------------
(* Properties *)

SubEntries == [key : Conns \cup {UnixKey}, seq : Nat, over : BOOLEAN, full : BOOLEAN,
            adoptedBy : SUBSET Streams, at : Nat]

\* Every variable has its type, and a connection key has one staged entry.
StreamsTypeOK ==
  /\ transport \in {"Tcp", "Unix"}
  /\ used \subseteq Streams /\ open \subseteq used
  /\ conn \in [Streams -> Conns \cup {UnixKey}] /\ hello \in [Streams -> Nat] /\ hellos \in Nat
  /\ current \in Streams \cup {None} /\ committed \in Streams \cup {None}
  /\ list \in {"none", "list", "count"} /\ from \in Nat
  /\ received \subseteq [key : Conns \cup {UnixKey}, seq : Nat, over : BOOLEAN]
  /\ staged \subseteq SubEntries /\ \A e, f \in staged : e.key = f.key => e = f
  /\ sender \in Seq(Conns \cup {UnixKey}) /\ stagings \in Nat
  /\ st \in [StreamCommands -> {"new", "waiting", "late", "stale", "applied", "dropped", "failed"}]
  /\ to \in [StreamCommands -> Streams \cup {None}]
  /\ plan \in [StreamCommands -> [generation : Nat, from : Nat]]
  /\ caller \in [StreamCommands -> {"none", "waits", "timesOut", "timeout", "answer", "closed"}]

\* "The open stream with the newest HELLO.  When it closes, current falls back to the
\* newest still-open stream that sent a HELLO" (daemon_commands.rs:11-12).
CurrentIsNewestHello ==
  /\ current = None => \A s \in open : hello[s] = 0
  /\ current # None => /\ current \in open /\ hello[current] # 0
                       /\ \A s \in open : hello[s] <= hello[current]

\* "Always None or current" (daemon_commands.rs:259-260), and the cache holds a list or a
\* count exactly while there is such a stream, one that came by its own connection: no
\* list is left standing under another stream than the one that answers commands.
ListIsCurrents ==
  /\ committed \in {None, current}
  /\ committed = None <=> list = "none"
  /\ committed # None => from \in DOMAIN sender /\ sender[from] = conn[committed]

\* In-flight waiters fail when the stream they went to closes (Unix), or the last one
\* (TCP): no command waits for a stream that is not there (daemon_commands.rs:36-60).
WaitersHaveStreams ==
  \A c \in StreamCommands : st[c] = "waiting" => IF transport = "Tcp" THEN open # {} ELSE to[c] \in open

\* "A redialled daemon's old and new streams saying HELLO in either order don't leave the
\* new stream without a list" (daemon_commands.rs:29-33): on the Unix socket, a current
\* stream that adopted the entry still staged holds its list, whichever streams closed.
RedialKeepsList ==
  transport = "Unix" =>
    \A e \in staged : current \in e.adoptedBy /\ ~e.full => committed = current /\ from = e.seq

\* The stream that answers commands, the list shown and the commands waiting belong
\* together, and a redial does not part them.
StreamOwnsList == ListIsCurrents /\ CurrentIsNewestHello /\ WaitersHaveStreams /\ RedialKeepsList

\* "On TCP ... a closed stream's list is never handed to another" (rules_sync.rs:84-85):
\* a list gets a new stream only by that stream's HELLO.
NeverHandedOver ==
  [][(transport = "Tcp" /\ committed' \notin {committed, None}) => hello'[committed'] # hello[committed']]_allStreamVars

\* A curated rule planned on one list is not sent under another (daemon_commands.rs:584-586:
\* "preventing a new stream or edited snapshot from receiving a previously planned install").
PlanIsForThisList ==
  [][\A c \in StreamCommands : (st[c] = "new" /\ st'[c] = "waiting" /\ plan[c] # NoPlan) => plan[c].from = from]_allStreamVars

=============================================================================
