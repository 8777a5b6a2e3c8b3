------------------------------ MODULE CountHint ------------------------------
(***************************************************************************)
(* The hint that the daemon holds other rules than the list shows (bridge   *)
(* cache/rules_count.rs): each ping brings the daemon's rule count, which   *)
(* is compared with the list, with room for the rules that the daemon may   *)
(* hold for a known reason.  How the list itself changes is RulesSync's     *)
(* subject; here it changes with the daemon, in the order in which the two  *)
(* do.  Copies of a name (`<name>-2`) are counted, not named.               *)
(***************************************************************************)
EXTENDS Integers, FiniteSets, Functions

CONSTANTS
  CountNames,        \* rule names
  Timed,             \* those of temporary rules: the daemon's timer removes them
  QuietPings, PingsToRaise, PingsToClear, MaxMaybeApplied,
  MaxCountChanges

ASSUME CountHintAssumption == Timed \subseteq CountNames /\ QuietPings \in Nat

VARIABLES
  held, copies,      \* the daemon's rules, and how many copies it made
  hintShown, shownCopies,\* the list
  hintKnown,             \* whether there is one
  awaiting,          \* a snapshot waits for its HELLO
  command,           \* the rule command in flight
  answering,         \* a prompt answer that is in the list and not yet in the daemon
  lag,               \* pings built since then
  renamed, refused, pruned, \* MayHold; pruned counts each name's room that has not run out
  countWatch,             \* CountWatch; seen is "the list has not changed since the last reading"
  ping,              \* the count of the ping under way, and what its reader saw in flight
  changes,           \* the changes so far
  astray             \* history: the daemon's rules changed in a way the bridge keeps no room for

daemonSide == <<held, copies>>
listSide == <<hintShown, shownCopies, hintKnown>>
room == <<renamed, refused, pruned>>
countVars == <<daemonSide, listSide, awaiting, command, answering, lag, room, countWatch, ping, changes, astray>>

NoCommand == [op |-> "none", name |-> "none", at |-> "none"]
HintNoRoom == [n \in Timed |-> 0]
NoAnswer == "no answer"
NoPing == [is |-> FALSE, count |-> 0, settling |-> FALSE, read |-> FALSE]
FreshWatch == [seen |-> FALSE, quiet |-> 0, key |-> <<>>, run |-> 0, raised |-> FALSE]

Count == Cardinality(held) + copies
Expected == Cardinality(hintShown) + shownCopies
PrunedRoom == FoldFunctionOnSet(+, 0, pruned, Timed)
Allowance == renamed + Cardinality(refused) + PrunedRoom
TimersMayDropRules == hintShown \cap Timed # {}
Agrees(count) == count \in Expected..(Expected + Allowance)
ListChanges == countWatch' = [countWatch EXCEPT !.seen = FALSE]

-----------------------------------------------------------------------------
(* Rule commands.  No room is kept for a command and a prompt answer of one name that      *)
(* cross: the name the daemon gives the answer depends on which of the two comes first.    *)

Ask(op, n) ==
  /\ command = NoCommand /\ hintKnown /\ changes < MaxCountChanges
  /\ op = "delete" => n \in hintShown
  /\ command' = [op |-> op, name |-> n, at |-> "sent"] /\ changes' = changes + 1
  /\ astray' = (astray \/ answering = n)
  /\ UNCHANGED <<daemonSide, listSide, awaiting, answering, lag, room, countWatch, ping>>

\* The daemon carries it out, or refuses: an add it refuses may be in its memory
CountDaemonDoes ==
  /\ command # NoCommand /\ command.at = "sent"
  /\ \E ok \in BOOLEAN, stores \in BOOLEAN :
       /\ command.op = "delete" \/ ok => stores
       /\ command.op = "delete" => ok
       /\ command' = [command EXCEPT !.at = IF ok THEN "ok" ELSE "refused"]
       /\ held' = IF command.op = "delete" THEN held \ {command.name}
                  ELSE IF stores THEN held \cup {command.name} ELSE held
  /\ UNCHANGED <<copies, listSide, awaiting, answering, lag, room, countWatch, ping, changes, astray>>

\* Mutant: a refused add is not noted
MaybeAppliedForgotten(n) == UNCHANGED <<refused, astray>>

\* note_maybe_applied; past its limit a refused add gets no room
NoteMaybeApplied(n) ==
  \/ (~hintKnown \/ n \in hintShown \/ n \in refused) /\ UNCHANGED <<refused, astray>>
  \/ /\ hintKnown /\ n \notin hintShown \cup refused
     /\ IF Cardinality(refused) < MaxMaybeApplied THEN refused' = refused \cup {n} /\ UNCHANGED astray
        ELSE UNCHANGED refused /\ astray' = TRUE

\* The reply: upsert, remove, or apply_refused
CommandSettles ==
  /\ command # NoCommand /\ command.at # "sent" /\ command' = NoCommand
  /\ LET n == command.name
     IN  \/ /\ command.at = "refused" /\ NoteMaybeApplied(n)
            /\ UNCHANGED <<hintShown, countWatch, renamed, pruned>>
         \/ /\ command.at = "ok" /\ hintKnown
            /\ hintShown' = IF command.op = "delete" THEN hintShown \ {n} ELSE hintShown \cup {n}
            /\ refused' = refused \ {n} /\ ListChanges
            /\ UNCHANGED <<renamed, pruned, astray>>
         \/ command.at = "ok" /\ ~hintKnown /\ UNCHANGED <<hintShown, countWatch, room, astray>>
  /\ UNCHANGED <<daemonSide, shownCopies, hintKnown, awaiting, answering, lag, ping, changes>>

-----------------------------------------------------------------------------
(* Prompt answers, timers, and changes the bridge does not make *)

\* note_prompt_answer
NotePromptAnswer(n) == renamed' = IF n \in hintShown \cup refused THEN renamed + 1 ELSE renamed

\* A remembered verdict goes to the list as it is sent (one without a timer)
PromptAnswer(n) ==
  /\ n \notin Timed
  /\ answering = NoAnswer /\ hintKnown /\ changes < MaxCountChanges /\ changes' = changes + 1
  /\ answering' = n /\ lag' = 0
  /\ NotePromptAnswer(n) /\ hintShown' = hintShown \cup {n} /\ refused' = refused \ {n} /\ ListChanges
  /\ astray' = (astray \/ command.name = n)
  /\ UNCHANGED <<daemonSide, shownCopies, hintKnown, awaiting, command, pruned, ping>>

\* addUserRule: under another name when the name is taken
DaemonTakesAnswer ==
  /\ answering # NoAnswer /\ answering' = NoAnswer
  /\ IF answering \in held THEN copies' = copies + 1 /\ UNCHANGED held
     ELSE held' = held \cup {answering} /\ UNCHANGED copies
  /\ UNCHANGED <<listSide, awaiting, command, lag, room, countWatch, ping, changes, astray>>

\* The daemon's timer
TimerFires(n) ==
  /\ n \in Timed \cap held /\ held' = held \ {n}
  /\ UNCHANGED <<copies, listSide, awaiting, command, answering, lag, room, countWatch, ping, changes, astray>>

\* note_pruned
NotePruned(n) == pruned' = [pruned EXCEPT ![n] = @ + 1]

\* prune_expired: by the wall clock, so possibly before the timer
ListPrunes(n) ==
  /\ hintKnown /\ n \in Timed \cap hintShown
  /\ hintShown' = hintShown \ {n} /\ NotePruned(n) /\ ListChanges
  /\ UNCHANGED <<daemonSide, shownCopies, hintKnown, awaiting, command, answering, lag, renamed, refused, ping, changes, astray>>

\* PRUNED_SLACK past the timer's end, so not while the timer still has to remove the rule
RoomRunsOut(n) ==
  /\ n \in Timed /\ pruned[n] > (IF n \in held \ hintShown THEN 1 ELSE 0)
  /\ pruned' = [pruned EXCEPT ![n] = @ - 1]
  /\ UNCHANGED <<daemonSide, listSide, awaiting, command, answering, lag, renamed, refused, countWatch, ping, changes, astray>>

\* A change made outside of the bridge
OutsideChange(n) ==
  /\ changes < MaxCountChanges /\ changes' = changes + 1 /\ astray' = TRUE
  /\ held' = IF n \in held THEN held \ {n} ELSE held \cup {n}
  /\ UNCHANGED <<copies, listSide, awaiting, command, answering, lag, room, countWatch, ping>>

-----------------------------------------------------------------------------
(* Lists *)

\* A daemon subscribes (again): what it held only in memory is gone when it restarted.  What
\* was under way is lost with its stream
DaemonSubscribes ==
  /\ ~awaiting /\ changes < MaxCountChanges /\ changes' = changes + 1
  /\ held' \in {held, held \ Timed} /\ awaiting' = TRUE
  /\ hintKnown' = FALSE /\ hintShown' = {} /\ shownCopies' = 0
  /\ command' = NoCommand /\ answering' = NoAnswer /\ ping' = NoPing
  /\ renamed' = 0 /\ refused' = {} /\ pruned' = HintNoRoom /\ countWatch' = FreshWatch
  /\ UNCHANGED <<copies, lag, astray>>

\* replace_all
ListAdopted ==
  /\ awaiting /\ awaiting' = FALSE /\ hintKnown' = TRUE
  /\ countWatch' = FreshWatch /\ renamed' = 0 /\ refused' = {} /\ pruned' = HintNoRoom
  /\ hintShown' = held /\ shownCopies' = copies /\ astray' = FALSE
  /\ UNCHANGED <<daemonSide, command, answering, lag, ping, changes>>

-----------------------------------------------------------------------------
(* Pings *)

\* A ping is read before the next is built, and the daemon stores an answer before it has
\* built two more
PingBuilt ==
  /\ ~ping.is /\ hintKnown /\ (answering # NoAnswer => lag < 2)
  /\ ping' = [NoPing EXCEPT !.is = TRUE, !.count = Count]
  /\ lag' = IF answering # NoAnswer THEN lag + 1 ELSE lag
  /\ UNCHANGED <<daemonSide, listSide, awaiting, command, answering, room, countWatch, changes, astray>>

\* observe_daemon_rules reads what is in flight, then takes the cache lock
PingReadsInFlight ==
  /\ ping.is /\ ~ping.read
  /\ ping' = [ping EXCEPT !.read = TRUE, !.settling = awaiting \/ command # NoCommand]
  /\ UNCHANGED <<daemonSide, listSide, awaiting, command, answering, lag, room, countWatch, changes, astray>>

\* A run of readings below the room
Shrinks(w, agrees) == agrees /\ ~TimersMayDropRules /\ w.run >= PingsToClear

\* The hint flips after enough readings in a row
Flips(w, agrees) ==
  \/ ~w.raised /\ ~agrees /\ w.run >= PingsToRaise
  \/ w.raised /\ agrees /\ w.run >= PingsToClear

\* observe_rule_count
ObserveRuleCount ==
  LET reported == ping.count
      w0 == IF countWatch.seen THEN countWatch
            ELSE [countWatch EXCEPT !.seen = TRUE, !.quiet = QuietPings, !.key = <<>>, !.run = 0]
      cannotCompare == ping.settling \/ (reported = 0 /\ Expected > 0)
      key == <<reported, Expected, Allowance>>
      most == IF PingsToRaise > PingsToClear THEN PingsToRaise ELSE PingsToClear
      run == IF w0.key # key THEN 1 ELSE IF w0.run < most THEN w0.run + 1 ELSE most
      w1 == [w0 EXCEPT !.key = key, !.run = run]
      agrees == Agrees(reported)
  IN  IF w0.quiet > 0
      THEN countWatch' = [w0 EXCEPT !.quiet = @ - 1] /\ UNCHANGED renamed
      ELSE IF cannotCompare \/ (TimersMayDropRules /\ ~countWatch.raised)
      THEN countWatch' = [w0 EXCEPT !.key = <<>>, !.run = 0] /\ UNCHANGED renamed
      ELSE /\ renamed' = IF Shrinks(w1, agrees) /\ reported - Expected < renamed
                         THEN reported - Expected ELSE renamed
           /\ countWatch' = IF Flips(w1, agrees) THEN [w1 EXCEPT !.raised = ~@] ELSE w1

PingObserved ==
  /\ ping.is /\ ping.read /\ ping' = NoPing
  /\ IF hintKnown THEN ObserveRuleCount ELSE UNCHANGED <<countWatch, renamed>>
  /\ UNCHANGED <<daemonSide, listSide, awaiting, command, answering, lag, refused, pruned, changes, astray>>

-----------------------------------------------------------------------------
CountInit ==
  /\ held \in SUBSET CountNames /\ copies = 0
  /\ hintShown = {} /\ shownCopies = 0 /\ hintKnown = FALSE /\ awaiting = TRUE
  /\ command = NoCommand /\ answering = NoAnswer /\ lag = 0
  /\ renamed = 0 /\ refused = {} /\ pruned = HintNoRoom /\ countWatch = FreshWatch /\ ping = NoPing
  /\ changes = 0 /\ astray = FALSE

CountNext ==
  \/ \E n \in CountNames : \/ \E op \in {"change", "delete"} : Ask(op, n)
                           \/ PromptAnswer(n) \/ TimerFires(n) \/ ListPrunes(n) \/ RoomRunsOut(n)
                           \/ OutsideChange(n)
  \/ CountDaemonDoes \/ CommandSettles \/ DaemonTakesAnswer \/ DaemonSubscribes \/ ListAdopted
  \/ PingBuilt \/ PingReadsInFlight \/ PingObserved

CountSpec == CountInit /\ [][CountNext]_countVars

-----------------------------------------------------------------------------
(* Properties *)

\* Values are of their types, and the names that were refused are not listed.
CountTypeOK ==
  /\ held \subseteq CountNames /\ hintShown \subseteq CountNames /\ copies \in Nat
  /\ renamed \in Nat /\ refused \subseteq CountNames \ hintShown /\ pruned \in [Timed -> Nat]
  /\ Cardinality(refused) <= MaxMaybeApplied
  /\ countWatch.quiet \in 0..QuietPings /\ countWatch.raised \in BOOLEAN /\ astray \in BOOLEAN

\* The hint is never a false alarm: while every change of the daemon's rules came through
\* the bridge, was a timer's, or is one that the bridge keeps room for, no sequence of
\* commands, refusals, answers, prunes and late pings raises it.
NoFalseAlarm == countWatch.raised => astray

\* The room is enough: with nothing on its way, the daemon holds no more than the list and
\* the room (so shrinking the room after a quiet run never made it too small).
RoomIsEnough ==
  hintKnown /\ ~awaiting /\ ~astray /\ command = NoCommand /\ answering = NoAnswer
    => Count <= Expected + Allowance

\* The hint is true of what the daemon holds, now and after the room it keeps has shrunk.
HintIsTrue == NoFalseAlarm /\ RoomIsEnough


Comparable == hintKnown /\ ~awaiting /\ command = NoCommand /\ answering = NoAnswer
              /\ ~TimersMayDropRules /\ Count > 0

\* A disagreement that stays is shown, and one that is gone is not.
LastingDisagreementShows ==
  /\ <>[](Comparable /\ ~Agrees(Count)) => <>[]countWatch.raised
  /\ <>[](Comparable /\ Agrees(Count)) => <>[]~countWatch.raised
=============================================================================
