----------------------------- MODULE PromptSlot -----------------------------
(***************************************************************************)
(* Who holds the daemon's prompt slot, and how many connections got the     *)
(* default action meanwhile (bridge prompt_slot.rs; held and released by    *)
(* grpc_server/pending_cleanup.rs, observed by the Ping handler of          *)
(* grpc_server.rs).  The daemon's counter of misses reaches the bridge in   *)
(* pings, which are built before they arrive.                               *)
(***************************************************************************)
EXTENDS Integers, FiniteSets

CONSTANTS SlotRows, MaxMisses, MaxUptime, MaxDaemons, MaxGenerations, MaxHolds

VARIABLES
  slotHolders,       \* the rows that hold the slot: seq, baseline and last reading
  nextSeq,
  slotShown,         \* the PromptSlot message that the clients have
  misses, uptime, daemons, \* the daemon
  rulesGeneration,   \* the rule-snapshot generation
  pingSent,          \* the reading of the ping under way
  missesSince,       \* history: the misses while each row holds
  early              \* history: the rows held while a ping was under way that became their baseline

slotVars == <<slotHolders, nextSeq, slotShown, misses, uptime, daemons, rulesGeneration, pingSent, missesSince, early>>

NoReading == [misses |-> -1, uptime |-> -1, generation |-> -1]
Holding == DOMAIN slotHolders

\* Mutant: from the first reading to the last, resets included
CountAcross(h) == IF h.last = NoReading THEN -1 ELSE h.last.misses

SaturatingSub(x, y) == IF x > y THEN x - y ELSE 0

\* defaulted_at_least; -1 while it is unknown
DefaultedAtLeast(h) ==
  IF h.baseline = NoReading \/ h.last = NoReading THEN -1
  ELSE SaturatingSub(h.last.misses, h.baseline.misses)

OldestHolder(holders) == CHOOSE r \in DOMAIN holders : \A s \in DOMAIN holders : holders[r].seq <= holders[s].seq

\* message
Message(holders) ==
  IF DOMAIN holders = {} THEN [holder |-> {}, count |-> -1, holders |-> 0]
  ELSE [holder |-> {OldestHolder(holders)}, count |-> DefaultedAtLeast(holders[OldestHolder(holders)]),
        holders |-> Cardinality(DOMAIN holders)]

-----------------------------------------------------------------------------

\* Sent with the slot's lock held
Announce(holders) == slotShown' = Message(holders)

NextSeq == nextSeq + 1

HoldSlot(r) ==
  /\ r \notin Holding /\ nextSeq < MaxHolds /\ nextSeq' = NextSeq
  /\ slotHolders' = [s \in Holding \cup {r} |->
                       IF s = r THEN [seq |-> nextSeq', baseline |-> NoReading, last |-> NoReading]
                       ELSE slotHolders[s]]
  /\ Announce(slotHolders')
  /\ missesSince' = [missesSince EXCEPT ![r] = 0]
  /\ early' = IF pingSent = NoReading THEN early \ {r} ELSE early \cup {r}
  /\ UNCHANGED <<misses, uptime, daemons, rulesGeneration, pingSent>>

Release(r) ==
  /\ r \in Holding
  /\ slotHolders' = [s \in Holding \ {r} |-> slotHolders[s]]
  /\ Announce(slotHolders')
  /\ UNCHANGED <<nextSeq, misses, uptime, daemons, rulesGeneration, pingSent, missesSince, early>>

\* Holder::observe
Observe(h, reading) ==
  LET latest == IF h.last = NoReading THEN h.baseline ELSE h.last
      reset == reading.uptime < latest.uptime \/ reading.generation # latest.generation
  IN  IF h.baseline = NoReading \/ reset THEN [h EXCEPT !.baseline = reading, !.last = NoReading]
      ELSE [h EXCEPT !.last = reading]

\* A ping arrives: announced only when what is shown changes
PingArrivesAtSlot ==
  /\ pingSent # NoReading /\ pingSent' = NoReading
  /\ LET reading == [pingSent EXCEPT !.generation = rulesGeneration]
     IN  slotHolders' = [r \in Holding |-> Observe(slotHolders[r], reading)]
  /\ IF Message(slotHolders') # Message(slotHolders) THEN Announce(slotHolders') ELSE UNCHANGED slotShown
  /\ UNCHANGED <<nextSeq, misses, uptime, daemons, rulesGeneration, missesSince, early>>

-----------------------------------------------------------------------------
(* The daemon *)

Miss ==
  /\ misses < MaxMisses /\ misses' = misses + 1
  /\ missesSince' = [r \in SlotRows |-> IF r \in Holding THEN missesSince[r] + 1 ELSE missesSince[r]]
  /\ UNCHANGED <<slotHolders, nextSeq, slotShown, uptime, daemons, rulesGeneration, pingSent, early>>

TimePasses ==
  /\ uptime < MaxUptime /\ uptime' = uptime + 1
  /\ UNCHANGED <<slotHolders, nextSeq, slotShown, misses, daemons, rulesGeneration, pingSent, missesSince, early>>

\* A prompt of the old process may still be open for a while
AnotherDaemon ==
  /\ daemons < MaxDaemons /\ daemons' = daemons + 1 /\ misses' = 0 /\ uptime' = 0 /\ pingSent' = NoReading
  /\ UNCHANGED <<slotHolders, nextSeq, slotShown, rulesGeneration, missesSince, early>>

NewSnapshot ==
  /\ rulesGeneration < MaxGenerations /\ rulesGeneration' = rulesGeneration + 1
  /\ UNCHANGED <<slotHolders, nextSeq, slotShown, misses, uptime, daemons, pingSent, missesSince, early>>

SendPing ==
  /\ pingSent = NoReading /\ pingSent' = [misses |-> misses, uptime |-> uptime, generation |-> 0]
  /\ UNCHANGED <<slotHolders, nextSeq, slotShown, misses, uptime, daemons, rulesGeneration, missesSince, early>>

SlotInit ==
  /\ slotHolders = <<>> /\ nextSeq = 0 /\ slotShown = Message(<<>>)
  /\ misses = 0 /\ uptime = 0 /\ daemons = 1 /\ rulesGeneration = 0 /\ pingSent = NoReading
  /\ missesSince = [r \in SlotRows |-> 0] /\ early = {}

SlotNext ==
  \/ \E r \in SlotRows : HoldSlot(r) \/ Release(r)
  \/ PingArrivesAtSlot \/ Miss \/ TimePasses \/ AnotherDaemon \/ NewSnapshot \/ SendPing

SlotSpec == SlotInit /\ [][SlotNext]_slotVars

-----------------------------------------------------------------------------
(* Properties *)

\* Values are of their types, and no two holds have one place in the order.
SlotTypeOK ==
  /\ Holding \subseteq SlotRows /\ nextSeq \in Nat /\ early \subseteq SlotRows
  /\ \A r \in Holding, s \in Holding : slotHolders[r].seq = slotHolders[s].seq => r = s

\* The count is a lower bound (prompt_slot.rs: "Misses before the baseline go uncounted, so
\* the figure is a lower bound"): it never exceeds the misses while the row holds, through
\* restarts of the daemon and new rule lists.  Except for a row that was held while a ping
\* was under way: that ping, older than the hold, is its baseline.
CountIsLowerBound ==
  \A r \in Holding \ early : DefaultedAtLeast(slotHolders[r]) <= missesSince[r]

\* What the clients were last sent is the slot as it is, whatever order holds, releases and
\* pings came in.
SlotShownIsCurrent == slotShown = Message(slotHolders)

\* What the clients are told of the slot: who holds it now, and no more misses than there were.
SlotIsTold == CountIsLowerBound /\ SlotShownIsCurrent
=============================================================================
