----------------------------- MODULE RulesImport -----------------------------
(***************************************************************************)
(* Importing rules (bridge-cli rules_import.rs, rules_import/apply.rs,      *)
(* rules_import/run_guard.rs): a preview is compared with the rule list,    *)
(* then its rules are sent one by one, a few in flight, while other         *)
(* commands change rules and the daemon's stream may close and reopen.      *)
(* Rules are numbered in name order; a rule's content in the list is a      *)
(* version number.                                                          *)
(***************************************************************************)
EXTENDS Naturals, FiniteSets

CONSTANTS
  ImportCount,       \* the rules of the document: 1..ImportCount
  MaxInFlight, MaxUnansweredInARow, SendRetries,
  MaxImports, MaxListChanges, MaxStreams

ASSUME ImportAssumption ==
  {ImportCount, MaxInFlight, MaxUnansweredInARow, SendRetries, MaxImports, MaxListChanges, MaxStreams} \subseteq Nat

ImportNames == 1..ImportCount

VARIABLES
  ruleList,          \* the version of each rule in the list, 0 when it is absent
  revision,
  stream,            \* the daemon stream's generation, and whether it is open
  claimed,           \* names that another rule command is changing
  preview,           \* the pending preview
  importRun,         \* the apply that runs, or the last one
  replies,           \* what the waiters of the commands in flight got
  imports, listChanges, \* how many there were
  sentOn             \* history: how each rule was sent, on which stream, and over which version

world == <<ruleList, revision, stream, claimed, listChanges>>
importVars == <<world, preview, importRun, replies, imports, sentOn>>

NoPreview == [is |-> FALSE, revision |-> 0, before |-> [n \in ImportNames |-> 0]]
NoRun == [pc |-> "idle", left |-> {}, at |-> 0, startedOn |-> 0, before |-> NoPreview.before,
          stop |-> "none", unanswered |-> 0, retries |-> 0, hold |-> FALSE,
          outcome |-> [n \in ImportNames |-> "none"], totals |-> 0]
NeverSent == [n \in ImportNames |-> [sent |-> FALSE, generation |-> 0, over |-> 0, retried |-> FALSE]]

Running == importRun.pc # "idle"
InFlight == DOMAIN replies
Included == {n \in ImportNames : importRun.outcome[n] # "out"}

\* report: an outcome, counted
Report(r, n, what) == [r EXCEPT !.outcome[n] = what, !.totals = @ + 1]
GetOrInsert(r, reason) == IF r.stop = "none" THEN [r EXCEPT !.stop = reason] ELSE r
To(r, pc) == [r EXCEPT !.pc = pc]
\* The rule is done with; the next in name order
Done(r) == [r EXCEPT !.pc = "next", !.at = 0, !.left = @ \ {r.at}]

NotSent(r) == Done(Report(r, r.at, "not_sent"))
StopReason(r) == IF stream.generation # r.startedOn THEN GetOrInsert(r, "reconnected") ELSE r

-----------------------------------------------------------------------------
(* Preview and apply requests *)

\* check_preview, under the cache lock
Preview ==
  /\ preview' = [is |-> TRUE, revision |-> revision, before |-> ruleList]
  /\ UNCHANGED <<world, importRun, replies, imports, sentOn>>

\* apply is refused as stale: the preview is gone
ApplyStale ==
  /\ ~Running /\ preview.is /\ revision # preview.revision /\ preview' = NoPreview
  /\ UNCHANGED <<world, importRun, replies, imports, sentOn>>

\* apply, start_apply
ApplyStarts(include) ==
  /\ imports < MaxImports /\ imports' = imports + 1
  /\ ~Running /\ preview.is /\ revision = preview.revision /\ preview' = NoPreview
  /\ importRun' = [NoRun EXCEPT !.pc = "next", !.left = include, !.startedOn = stream.generation,
                                !.before = preview.before, !.hold = TRUE,
                                !.outcome = [n \in ImportNames |-> IF n \in include THEN "none" ELSE "out"]]
  /\ sentOn' = NeverSent
  /\ UNCHANGED <<world, replies>>

-----------------------------------------------------------------------------
(* Sending *)

\* Mutant: as many in flight as there are rules
NoLimit == TRUE

RoomInFlight == Cardinality(InFlight) < MaxInFlight

FirstOf(names) == CHOOSE n \in names : \A m \in names : n <= m

\* Mutant: a stop is only for the rule that met it
StopsOnce(r) == "none"

StopsAll(r) == r.stop

\* send: whether this rule may still be sent, is what was previewed, and passes the policy
ChecksRule ==
  /\ importRun.pc = "next" /\ importRun.left # {} /\ RoomInFlight
  /\ LET r == [StopReason(importRun) EXCEPT !.at = FirstOf(importRun.left)]
     IN  importRun' \in IF StopsAll(r) # "none" \/ ruleList[r.at] # r.before[r.at] THEN {NotSent(r)}
                        ELSE {To(r, "claim"), Done(Report(r, r.at, "rejected"))}
  /\ UNCHANGED <<world, preview, replies, imports, sentOn>>

\* The name is claimed, unless another command is changing the rule
ClaimsRule ==
  /\ importRun.pc = "claim"
  /\ importRun' = IF importRun.at \in claimed THEN NotSent(importRun)
                  ELSE [To(importRun, "send") EXCEPT !.retries = 0]
  /\ UNCHANGED <<world, preview, replies, imports, sentOn>>

\* NotQueued
QueueFull(r) == IF r.retries < SendRetries THEN [To(r, "retry") EXCEPT !.retries = @ + 1] ELSE NotSent(r)

\* commands.send, to whichever stream is current
SendsRule ==
  /\ importRun.pc = "send"
  /\ LET n == importRun.at
     IN  \/ /\ ~stream.open /\ importRun' = NotSent([importRun EXCEPT !.stop = "no daemon"])
            /\ UNCHANGED <<replies, sentOn>>
         \/ /\ stream.open /\ importRun' = QueueFull(importRun) /\ UNCHANGED <<replies, sentOn>>
         \/ /\ stream.open /\ importRun' = Done(importRun)
            /\ replies' = [m \in InFlight \cup {n} |-> IF m = n THEN "waits" ELSE replies[m]]
            /\ sentOn' = [sentOn EXCEPT ![n] = [sent |-> TRUE, generation |-> stream.generation,
                                                over |-> ruleList[n], retried |-> importRun.retries > 0]]
  /\ UNCHANGED <<world, preview, imports>>

\* settle_one's outcome
Settled(r, n) ==
  LET r1 == Report(r, n, CASE replies[n] = "ok" -> "applied" [] replies[n] = "rejected" -> "rejected"
                           [] OTHER -> "no_answer")
      r2 == IF replies[n] = "closed" THEN GetOrInsert(r1, "closed") ELSE r1
  IN  IF replies[n] \in {"ok", "rejected"} THEN [r2 EXCEPT !.unanswered = 0]
      ELSE IF r2.unanswered + 1 >= MaxUnansweredInARow
           THEN GetOrInsert([r2 EXCEPT !.unanswered = MaxUnansweredInARow], "not answering")
           ELSE [r2 EXCEPT !.unanswered = @ + 1]

\* One reply is awaited while there is no room, before a retry, and when all are sent
SettlesOne(n) ==
  /\ n \in InFlight /\ replies[n] # "waits"
  /\ \/ importRun.pc = "next" /\ (~RoomInFlight \/ importRun.left = {})
     \/ importRun.pc = "retry"
  /\ LET r == Settled(importRun, n)
     IN  importRun' = IF r.pc # "retry" THEN r
                      ELSE IF r.stop # "none" THEN NotSent(r) ELSE To(r, "send")
  /\ replies' = [m \in InFlight \ {n} |-> replies[m]]
  /\ UNCHANGED <<world, preview, imports, sentOn>>

\* With nothing in flight a retry waits retry_delay
WaitsToRetry ==
  /\ importRun.pc = "retry" /\ InFlight = {}
  /\ importRun' = IF importRun.stop # "none" THEN NotSent(importRun) ELSE To(importRun, "send")
  /\ UNCHANGED <<world, preview, replies, imports, sentOn>>

\* ApplyRun::end
Ends(r) == [r EXCEPT !.pc = "idle", !.hold = FALSE]

Finishes ==
  /\ importRun.pc = "next" /\ importRun.left = {} /\ InFlight = {}
  /\ importRun' = Ends(importRun)
  /\ UNCHANGED <<world, preview, replies, imports, sentOn>>

\* The task panics or is cancelled: dropping the guard ends the run, dropping the waiters
\* frees their names
RunDies ==
  /\ Running /\ importRun' = Ends([importRun EXCEPT !.stop = "died"]) /\ replies' = <<>>
  /\ UNCHANGED <<world, preview, imports, sentOn>>

-----------------------------------------------------------------------------
(* The daemon and the other commands *)

\* The waiter of a command in flight gets its reply; a confirmed rule is in the list
Replied(n, what) ==
  /\ n \in InFlight /\ replies[n] = "waits"
  /\ replies' = [replies EXCEPT ![n] = what]
  /\ IF what = "ok" THEN ruleList' = [ruleList EXCEPT ![n] = ImportCount + MaxListChanges] /\ revision' = revision + 1
     ELSE UNCHANGED <<ruleList, revision>>
  /\ what = "closed" => ~stream.open \/ sentOn[n].generation # stream.generation
  /\ UNCHANGED <<stream, claimed, listChanges, preview, importRun, imports, sentOn>>

\* Another rule command claims a name, and changes the rule
OtherClaims(n) ==
  /\ listChanges < MaxListChanges /\ listChanges' = listChanges + 1
  /\ n \notin claimed /\ ~(importRun.pc \in {"send", "retry"} /\ importRun.at = n)
  /\ ~(n \in InFlight /\ replies[n] = "waits")
  /\ claimed' = claimed \cup {n}
  /\ UNCHANGED <<ruleList, revision, stream, preview, importRun, replies, imports, sentOn>>

OtherEnds(n) ==
  /\ n \in claimed /\ claimed' = claimed \ {n}
  /\ ruleList' = [ruleList EXCEPT ![n] = listChanges] /\ revision' = revision + 1
  /\ UNCHANGED <<stream, listChanges, preview, importRun, replies, imports, sentOn>>

StreamGoes ==
  /\ stream.open /\ stream.generation < MaxStreams /\ stream' = [stream EXCEPT !.open = FALSE]
  /\ UNCHANGED <<ruleList, revision, claimed, listChanges, preview, importRun, replies, imports, sentOn>>

\* A new HELLO: its snapshot may show a rule changed meanwhile
StreamComes ==
  /\ ~stream.open /\ stream' = [generation |-> stream.generation + 1, open |-> TRUE]
  /\ \/ UNCHANGED ruleList
     \/ \E n \in ImportNames : ruleList' = [ruleList EXCEPT ![n] = ImportCount + MaxListChanges + 1]
  /\ revision' = revision + 1
  /\ UNCHANGED <<claimed, listChanges, preview, importRun, replies, imports, sentOn>>

-----------------------------------------------------------------------------
ImportInit ==
  /\ ruleList = [n \in ImportNames |-> 0] /\ revision = 0
  /\ stream = [generation |-> 1, open |-> TRUE] /\ claimed = {} /\ listChanges = 0
  /\ preview = NoPreview /\ importRun = NoRun /\ replies = <<>> /\ imports = 0 /\ sentOn = NeverSent

ImportNext ==
  \/ Preview \/ ApplyStale \/ \E include \in SUBSET ImportNames : ApplyStarts(include)
  \/ ChecksRule \/ ClaimsRule \/ SendsRule \/ WaitsToRetry \/ Finishes \/ RunDies
  \/ \E n \in ImportNames :
       \/ SettlesOne(n) \/ OtherClaims(n) \/ OtherEnds(n)
       \/ \E what \in {"ok", "rejected", "timeout", "closed"} : Replied(n, what)
  \/ StreamGoes \/ StreamComes

ImportSpec == ImportInit /\ [][ImportNext]_importVars

-----------------------------------------------------------------------------
(* Properties *)

\* Values are of their types, and no more commands are in flight than may be.
ImportTypeOK ==
  /\ InFlight \subseteq ImportNames /\ Cardinality(InFlight) <= MaxInFlight
  /\ importRun.pc \in {"idle", "next", "claim", "send", "retry"} /\ claimed \subseteq ImportNames
  /\ importRun.unanswered \in 0..MaxUnansweredInARow /\ importRun.retries \in 0..SendRetries

\* Every rule of an import gets one outcome, and the totals of its result are those of its
\* outcomes; a rule in flight has none yet.
EveryRuleHasItsOutcome ==
  LET told == {n \in Included : importRun.outcome[n] # "none"}
  IN  imports > 0 =>
        /\ importRun.totals = Cardinality(told)
        /\ InFlight \cap told = {}
        /\ (importRun.pc = "idle" /\ importRun.stop # "died") => told = Included

\* However an import ends, the rule list is published again and the next import may start.
HeldOnlyWhileRunning == importRun.hold <=> Running

\* An import does not go on with another daemon: after a reconnect at most one rule is sent,
\* the one that was past its check when the stream was replaced.
AtMostOneOnAnotherStream ==
  Cardinality({n \in ImportNames : sentOn[n].sent /\ sentOn[n].generation # importRun.startedOn}) <= 1

\* An import is exact about what it did: one outcome per rule, one daemon, and nothing held
\* back once it is over.
ImportIsExact == EveryRuleHasItsOutcome /\ HeldOnlyWhileRunning /\ AtMostOneOnAnotherStream


\* An import ends.
ImportEnds == Running ~> ~Running
=============================================================================
