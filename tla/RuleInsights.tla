---------------------------- MODULE RuleInsights ----------------------------
(***************************************************************************)
(* What the Rules page says the rules do: which rule would decide a given   *)
(* connection (rules/simulator.rs), and which rules can never decide one    *)
(* (rules/insights), looked for by a worker over a copy of the list that    *)
(* may change meanwhile.                                                    *)
(*                                                                         *)
(* A condition is one of Leaves; what it compares, and how, is Leaf's.  A   *)
(* text is told apart only by what folding and lowercasing make of it, a    *)
(* pattern by the texts it matches, and an address by its bits.             *)
(***************************************************************************)
EXTENDS Naturals, FiniteSets

CONSTANTS
  RuleNumbers,     \* rules' names, as their places in byte order
  Leaves, Leaf,    \* conditions, with the kind, the operand, the data...
  Texts,           \* what a text operand's subject may be
  FoldOf, LowerOf, \* Go's strings.EqualFold and strings.ToLower
  Plain,           \* ASCII texts with no s
  AddrBits,
  NotKnown,        \* an input left unknown
  StartLists,      \* rule lists the page may begin with
  NewLists,        \* and get
  MaxAnalyzed,     \* MAX_ANALYZED_RULES
  MaxListGenerations \* bound: changes of the list

Addresses == [1..AddrBits -> {0, 1}]

\* Folding puts together all that lowercasing does, and of a plain text no more
ASSUME TextAssumption ==
  /\ FoldOf \in [Texts -> Texts] /\ LowerOf \in [Texts -> Texts] /\ Plain \subseteq Texts
  /\ \A t \in Plain, u \in Texts : FoldOf[u] = FoldOf[t] => LowerOf[u] = LowerOf[t]

ASSUME RuleNumbersAssumption == RuleNumbers \subseteq Nat

Nets == [addr : Addresses, prefix : 0..AddrBits]

\* Conditions are well formed: a network that is written out is one network
ASSUME LeafAssumption ==
  \A l \in Leaves :
    /\ Leaf[l].sensitive \in BOOLEAN /\ Leaf[l].compiles \in BOOLEAN /\ Leaf[l].literal \in BOOLEAN
    /\ Leaf[l].kind \in {"true", "lists", "simple", "regexp", "network"}
    /\ Leaf[l].kind = "simple" =>
         \/ Leaf[l].operand = "path" /\ Leaf[l].data \in Texts
         \/ Leaf[l].operand \in {"destIp", "sourceIp"} /\ Leaf[l].data \in Addresses
    /\ Leaf[l].kind = "regexp" => Leaf[l].operand = "path" /\ Leaf[l].data \subseteq Texts
    /\ Leaf[l].kind = "network" =>
         /\ Leaf[l].operand \in {"destNet", "sourceNet"} /\ Leaf[l].data \subseteq Nets
         /\ Leaf[l].literal => \E net \in Nets : Leaf[l].data = {net}

ASSUME AddrBitsAssumption == AddrBits \in Nat

InsightRules ==
  [on : BOOLEAN, action : {"allow", "deny", "reject", "other"}, precedence : BOOLEAN, always : BOOLEAN,
   profile : BOOLEAN, managed : BOOLEAN, conds : SUBSET Leaves]
IsRuleList(list) ==
  DOMAIN list \subseteq RuleNumbers /\ \A n \in DOMAIN list : list[n] \in InsightRules

ASSUME ListsAssumption == \A list \in StartLists \cup NewLists : IsRuleList(list)

VARIABLES
  guiRules,        \* RulesStore's rules, by name
  phase, generation, running, insightFindings,  \* AnalysisState
  analysts,        \* worker threads: the run's generation, its copy, its cancel flag
  posted           \* results queued for the Qt thread

insightVars == <<guiRules, phase, generation, running, insightFindings, analysts, posted>>

Connections == [path : Texts, destIp : Addresses, sourceIp : Addresses, listed : BOOLEAN]

-----------------------------------------------------------------------------
(* One condition: simulator/compare.rs, simulator/network.rs *)

SimpleCmp(subject, data, sensitive) ==
  IF sensitive THEN subject = data ELSE FoldOf[subject] = FoldOf[data]

\* compile and is_match: unless sensitive, pattern and subject are lowercased
RegexpMatches(pattern, sensitive, subject) ==
  IF sensitive THEN subject \in pattern
  ELSE LowerOf[subject] \in {LowerOf[t] : t \in pattern}

\* ip & mask(prefix)
Masked(ip, prefix) == [b \in 1..AddrBits |-> IF b <= prefix THEN ip[b] ELSE 0]

InNet(ip, net) == Masked(ip, net.prefix) = Masked(net.addr, net.prefix)

AddressOf(c, operand) == IF operand \in {"destIp", "destNet"} THEN c.destIp ELSE c.sourceIp

\* Operator.Match of the daemon for one condition: a list's contents are the daemon host's
LeafMatches(l, c) ==
  LET x == Leaf[l]
  IN  CASE x.kind = "true"    -> TRUE
        [] x.kind = "lists"   -> c.listed
        [] x.kind = "simple"  -> IF x.operand = "path" THEN SimpleCmp(c.path, x.data, x.sensitive)
                                 ELSE AddressOf(c, x.operand) = x.data
        [] x.kind = "regexp"  -> RegexpMatches(x.data, x.sensitive, c.path)
        [] x.kind = "network" -> \E net \in x.data : InNet(AddressOf(c, x.operand), net)

\* listMatch: all of them, so an empty list matches
Matches(rule, c) == \A l \in rule.conds : LeafMatches(l, c)

-----------------------------------------------------------------------------
(* The scan: simulator.rs *)

StopsScan(rule) == rule.precedence \/ rule.action \in {"deny", "reject"}

Active(list) == {n \in DOMAIN list : list[n].on}

\* Loader.FindFirstMatch in name order: a match is remembered, one of a stop rule ends the
\* scan.  yes: the rules that match.
Scanned(list, yes) ==
  {n \in Active(list) : \A m \in Active(list) : m < n /\ m \in yes => ~StopsScan(list[m])}

IsDecider(list, yes, n) ==
  /\ n \in Scanned(list, yes) \cap yes
  /\ \A m \in Scanned(list, yes) \cap yes : m <= n

Matching(list, c) == {n \in DOMAIN list : Matches(list[n], c)}
Decides(list, n, c) == IsDecider(list, Matching(list, c), n)

-----------------------------------------------------------------------------
(* The simulator: three-valued, because an input may be unknown *)

SimulationInputs ==
  [path : Texts \cup {NotKnown}, destIp : Addresses \cup {NotKnown}, sourceIp : Addresses \cup {NotKnown}]

SubjectOf(i, operand) == IF operand = "path" THEN i.path ELSE AddressOf(i, operand)

\* evaluate_leaf: a regexp the engine does not compile and a list cannot be simulated
LeafUnknown(l, i) ==
  LET x == Leaf[l]
  IN  /\ x.kind # "true"
      /\ x.kind = "lists" \/ SubjectOf(i, x.operand) = NotKnown \/ (x.kind = "regexp" /\ ~x.compiles)

LeafYes(l, i) ==
  LeafMatches(l, [path |-> i.path, destIp |-> i.destIp, sourceIp |-> i.sourceIp, listed |-> FALSE])

\* evaluate_list: a definite No decides whatever is unknown
RuleNo(rule, i) == \E l \in rule.conds : ~LeafUnknown(l, i) /\ ~LeafYes(l, i)
RuleUnknown(rule, i) == ~RuleNo(rule, i) /\ \E l \in rule.conds : LeafUnknown(l, i)
RuleYes(rule, i) == ~RuleNo(rule, i) /\ \A l \in rule.conds : ~LeafUnknown(l, i)

SimulatedYes(list, i) == {n \in DOMAIN list : RuleYes(list[n], i)}
Undecided(list, i) ==
  {n \in Scanned(list, SimulatedYes(list, i)) : RuleUnknown(list[n], i)}

\* Mutant: only undecided rules after the deciding one are named
GapsAfterOnly(list, i) ==
  {n \in Undecided(list, i) : \A d \in DOMAIN list : IsDecider(list, SimulatedYes(list, i), d) => n > d}

\* gaps_that_matter: the undecided rules the result names
GapsThatMatter(list, i) ==
  {n \in Undecided(list, i) :
     StopsScan(list[n]) \/ \A d \in DOMAIN list : IsDecider(list, SimulatedYes(list, i), d) => n > d}

-----------------------------------------------------------------------------
(* Covering: insights/atoms.rs *)

Modelled(rule) == rule.conds # {} /\ \A l \in rule.conds : Leaf[l].kind # "lists"
Atoms(rule) == {l \in rule.conds : Leaf[l].kind \notin {"true", "lists"}}

SimpleImpliesSimple(p, g) ==
  IF p.operand # "path" THEN p.data = g.data
  ELSE IF g.sensitive THEN p.sensitive /\ p.data = g.data
  ELSE SimpleCmp(p.data, g.data, FALSE)

\* Mutant: any literal of the pattern will do, one with an s too
SimpleImpliesRegexpAny(p, g) ==
  g.compiles /\ (p.sensitive \/ ~g.sensitive) /\ RegexpMatches(g.data, g.sensitive, p.data)

SimpleImpliesRegexp(p, g) ==
  /\ g.compiles /\ RegexpMatches(g.data, g.sensitive, p.data)
  /\ p.sensitive \/ (~g.sensitive /\ p.data \in Plain)

\* V4Net::parse reads a literal network; an alias is the daemon host's
Literal(x) == x.literal
NetOf(x) == CHOOSE net \in x.data : TRUE

LiteralIpInNetwork(p, g) ==
  /\ <<p.operand, g.operand>> \in {<<"destIp", "destNet">>, <<"sourceIp", "sourceNet">>}
  /\ Literal(g) /\ InNet(p.data, NetOf(g))

NetworkInNetwork(p, g) ==
  /\ Literal(p) /\ Literal(g)
  /\ NetOf(p).prefix >= NetOf(g).prefix /\ InNet(NetOf(p).addr, NetOf(g))

Identical(p, g) ==
  p.operand = g.operand /\ p.kind = g.kind /\ p.data = g.data /\ p.sensitive = g.sensitive

\* implies, split by how strong the proof is
ImpliesExactly(l, k) ==
  LET p == Leaf[l]
      g == Leaf[k]
  IN  \/ Identical(p, g)
      \/ p.kind = "simple" /\ g.kind = "simple" /\ p.operand = g.operand /\ SimpleImpliesSimple(p, g)
      \/ p.kind = "simple" /\ g.kind = "network" /\ LiteralIpInNetwork(p, g)
      \/ p.kind = "network" /\ g.kind = "network" /\ p.operand = g.operand /\ NetworkInNetwork(p, g)

ImpliesByEngine(l, k) ==
  LET p == Leaf[l]
      g == Leaf[k]
  IN  p.kind = "simple" /\ g.kind = "regexp" /\ p.operand = g.operand /\ SimpleImpliesRegexp(p, g)

CoversExactly(a, b) ==
  Modelled(a) /\ \A k \in Atoms(a) : \E l \in Atoms(b) : ImpliesExactly(l, k)
Covers(a, b) ==
  Modelled(a) /\ \A k \in Atoms(a) : \E l \in Atoms(b) : ImpliesExactly(l, k) \/ ImpliesByEngine(l, k)

-----------------------------------------------------------------------------
(* Shadowing: insights/shadow.rs *)

\* Mutant: a stop rule shadows whatever comes before it
CanShadowAnywhere(list, a, b) ==
  IF StopsScan(list[a]) THEN TRUE ELSE ~StopsScan(list[b]) /\ a > b

\* Whether rule a, covering b, takes precedence over it
CanShadow(list, a, b) ==
  IF StopsScan(list[a]) THEN ~StopsScan(list[b]) \/ a < b ELSE ~StopsScan(list[b]) /\ a > b

MayShadow(list, a, b) ==
  a # b /\ list[a].always /\ ~list[a].profile /\ CanShadow(list, a, b) /\ Covers(list[a], list[b])

Covering(list, b) == {a \in Active(list) : MayShadow(list, a, b)}

\* Those with the strongest proof
Strongest(list, b) ==
  LET exact == {a \in Covering(list, b) : CoversExactly(list[a], list[b])}
  IN  IF exact # {} THEN exact ELSE Covering(list, b)

\* The rule that is named: the earliest that stops the scan, else the last
Named(list, b, a) ==
  LET tier == Strongest(list, b)
      stops == {n \in tier : StopsScan(list[n])}
  IN  IF stops # {} THEN a \in stops /\ \A n \in stops : a <= n
                    ELSE a \in tier /\ \A n \in tier : n <= a

\* analyze_until, when it is not cancelled
Analysis(list) ==
  {f \in [rule : Active(list), by : Active(list), exact : BOOLEAN] :
     /\ ~list[f.rule].managed /\ Named(list, f.rule, f.by)
     /\ f.exact <=> CoversExactly(list[f.by], list[f.rule])}

TooMany(list) == Cardinality(Active(list)) > MaxAnalyzed

-----------------------------------------------------------------------------
(* The analysis on demand: insights/state.rs, and rules_model.rs for its threads *)

NoAnalysis == 0

Cancelled(w) == IF w.generation = running THEN [w EXCEPT !.cancel = TRUE] ELSE w

\* AnalysisState::rules_changed, after the store took a list or an update
RulesChanged(list) ==
  /\ generation < MaxListGenerations /\ list # guiRules /\ guiRules' = list
  /\ generation' = generation + 1
  /\ analysts' = {Cancelled(w) : w \in analysts} /\ running' = NoAnalysis
  /\ insightFindings' = {} /\ phase' = (IF phase = "idle" THEN "idle" ELSE "stale")
  /\ UNCHANGED posted

\* AnalysisState::start, and the worker with its copy
StartAnalysis ==
  /\ phase # "running" /\ phase' = "running" /\ running' = generation /\ insightFindings' = {}
  /\ analysts' = analysts \cup {[generation |-> generation, copy |-> guiRules, cancel |-> FALSE]}
  /\ UNCHANGED <<guiRules, generation, posted>>

\* Run::execute ends: with a result, queued for the Qt thread, or with none if the flag
\* was seen in time
AnalystEnds(w) ==
  /\ w \in analysts /\ analysts' = analysts \ {w}
  /\ \/ posted' = posted \cup {[generation |-> w.generation, copy |-> w.copy]}
     \/ w.cancel /\ UNCHANGED posted
  /\ UNCHANGED <<guiRules, phase, generation, running, insightFindings>>

\* Mutant: any result is taken while one is wanted
FinishAny(r) ==
  /\ r \in posted /\ posted' = posted \ {r}
  /\ IF running = NoAnalysis THEN UNCHANGED <<running, phase, insightFindings>>
     ELSE /\ running' = NoAnalysis
          /\ IF TooMany(r.copy) THEN phase' = "tooMany" /\ UNCHANGED insightFindings
             ELSE phase' = "done" /\ insightFindings' = Analysis(r.copy)
  /\ UNCHANGED <<guiRules, generation, analysts>>

\* finish_analysis on the Qt thread: the result of a run no longer wanted changes nothing
FinishAnalysis(r) ==
  /\ r \in posted /\ posted' = posted \ {r}
  /\ IF running # r.generation THEN UNCHANGED <<running, phase, insightFindings>>
     ELSE /\ running' = NoAnalysis
          /\ IF TooMany(r.copy) THEN phase' = "tooMany" /\ UNCHANGED insightFindings
             ELSE phase' = "done" /\ insightFindings' = Analysis(r.copy)
  /\ UNCHANGED <<guiRules, generation, analysts>>

InsightsInit ==
  /\ guiRules \in StartLists /\ phase = "idle" /\ generation = 1 /\ running = NoAnalysis
  /\ insightFindings = {} /\ analysts = {} /\ posted = {}

InsightsNext ==
  \/ \E list \in NewLists : RulesChanged(list)
  \/ StartAnalysis
  \/ \E w \in analysts : AnalystEnds(w)
  \/ \E r \in posted : FinishAnalysis(r)

InsightsSpec == InsightsInit /\ [][InsightsNext]_insightVars

-----------------------------------------------------------------------------
(* Properties *)

\* Values are of their types.
InsightsTypeOK ==
  /\ IsRuleList(guiRules) /\ generation \in Nat /\ running \in Nat
  /\ phase \in {"idle", "running", "done", "tooMany", "stale"}
  /\ \A w \in analysts : w.generation \in Nat /\ IsRuleList(w.copy) /\ w.cancel \in BOOLEAN
  /\ \A r \in posted : r.generation \in Nat /\ IsRuleList(r.copy)

\* What the Rules page says of a rule is true of the list it shows ("Never decides: ...
\* matches every connection this rule does and takes precedence", shadow.rs), whatever list
\* the worker read: no connection is decided by a rule with a finding, and the named rule
\* matches all that it does.
FindingsAreTrue ==
  \A f \in insightFindings : \A c \in Connections :
    /\ ~Decides(guiRules, f.rule, c)
    /\ Matches(guiRules[f.rule], c) => Matches(guiRules[f.by], c)

\* The connections an input leaves possible
Possible(known, all) == IF known = NotKnown THEN all ELSE {known}
Completions(i) ==
  [path : Possible(i.path, Texts), destIp : Possible(i.destIp, Addresses),
   sourceIp : Possible(i.sourceIp, Addresses), listed : BOOLEAN]

\* What the simulator answers is what the daemon does with every connection that the given
\* inputs leave possible, if the rules it names as not evaluated do not match ("The verdict
\* assumes those rules did not match", simulator.rs).
SimulationHolds(list) ==
  \A i \in SimulationInputs :
    LET simulated == SimulatedYes(list, i)
        gaps == GapsThatMatter(list, i)
    IN  \A c \in Completions(i) :
          LET matching == Matching(list, c)
          IN  gaps \cap matching = {} =>
                \A n \in DOMAIN list : IsDecider(list, simulated, n) <=> IsDecider(list, matching, n)

\* It is so of the list shown, whether an analysis was asked for or not: TLC looks where
\* none was.
SimulationIsRight == phase = "idle" /\ guiRules # <<>> => SimulationHolds(guiRules)

\* An analysis that was asked for ends.
AnalysisEnds == phase = "running" ~> phase # "running"
=============================================================================
