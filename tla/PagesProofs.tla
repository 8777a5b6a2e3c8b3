---------------------------- MODULE PagesProofs -----------------------------
(***************************************************************************)
(* What the GUI's pages say and keep, for every list of rules, every       *)
(* condition, every connection and every learning window.                  *)
(*                                                                         *)
(* The Rules page: what it says of a rule holds, however the list changes  *)
(* while a worker reads it.                                                *)
(*                                                                         *)
(* Learning windows: the owner's word is kept by every transaction,        *)
(* whichever writes fail and whatever the clocks do.                       *)
(***************************************************************************)
EXTENDS RuleInsights, LearningWindow, WellFoundedInduction, TLAPS

-----------------------------------------------------------------------------
(* Numbers *)

\* A set of naturals that is not empty has a least element: what is claimed of every number is
\* proved by showing that there is no least number of which it fails.
LEMMA LeastNat ==
  ASSUME NEW T, T \subseteq Nat, T # {}
  PROVE  \E x \in T : \A y \in T : x <= y
<1>1. PICK x \in T : \A y \in T : ~(<<y, x>> \in OpToRel(<, Nat))
  BY Zenon, WFMin, NatLessThanWellFounded
<1>2. \A y \in T : ~(y < x)
  BY Zenon, <1>1 DEF OpToRel
<1> QED BY <1>2

-----------------------------------------------------------------------------
(* Conditions *)

\* An address in a network is in every wider network that holds the network's own address
\* (network_in_network, atoms.rs).
LEMMA NetsNest ==
  ASSUME NEW ip \in Addresses, NEW inner \in Nets, NEW outer \in Nets,
         inner.prefix >= outer.prefix, InNet(ip, inner), InNet(inner.addr, outer)
  PROVE  InNet(ip, outer)
<1> USE AddrBitsAssumption DEF Nets, Addresses
<1>1. \A b \in 1..AddrBits : b <= inner.prefix => ip[b] = inner.addr[b]
  <2> TAKE b \in 1..AddrBits
  <2> HAVE b <= inner.prefix
  <2>1. Masked(ip, inner.prefix)[b] = Masked(inner.addr, inner.prefix)[b]
    BY DEF InNet
  <2> QED BY <2>1 DEF Masked
<1>2. \A b \in 1..AddrBits : b <= outer.prefix => inner.addr[b] = outer.addr[b]
  <2> TAKE b \in 1..AddrBits
  <2> HAVE b <= outer.prefix
  <2>1. Masked(inner.addr, outer.prefix)[b] = Masked(outer.addr, outer.prefix)[b]
    BY DEF InNet
  <2> QED BY <2>1 DEF Masked
<1>3. \A b \in 1..AddrBits : b <= outer.prefix => ip[b] = outer.addr[b]
  BY <1>1, <1>2
<1> QED BY <1>3 DEF InNet, Masked

\* A condition that implies another, as the analysis decides it, matches nothing the other
\* does not (implies, atoms.rs).
LEMMA ImpliesSound ==
  ASSUME NEW l \in Leaves, NEW k \in Leaves, NEW c \in Connections,
         ImpliesExactly(l, k) \/ ImpliesByEngine(l, k), LeafMatches(l, c)
  PROVE  LeafMatches(k, c)
<1> DEFINE p == Leaf[l]
           g == Leaf[k]
<1>0. c.path \in Texts /\ c.destIp \in Addresses /\ c.sourceIp \in Addresses
  BY DEF Connections
<1>1. CASE Identical(p, g)
  BY Zenon, <1>1, LeafAssumption DEF Identical, LeafMatches
<1>2. CASE p.kind = "simple" /\ g.kind = "simple" /\ p.operand = g.operand /\ SimpleImpliesSimple(p, g)
  <2>1. CASE p.operand = "path"
    <3>1. p.data \in Texts /\ g.data \in Texts
      BY Zenon, <1>2, <2>1, LeafAssumption
    <3>2. SimpleCmp(c.path, p.data, p.sensitive)
      BY <1>2, <2>1 DEF LeafMatches
    <3>3. SimpleCmp(c.path, g.data, g.sensitive)
      BY <1>2, <2>1, <3>2 DEF SimpleImpliesSimple, SimpleCmp
    <3> QED BY <1>2, <2>1, <3>3 DEF LeafMatches
  <2>2. CASE p.operand # "path"
    BY <1>2, <2>2 DEF LeafMatches, SimpleImpliesSimple
  <2> QED BY <2>1, <2>2
<1>3. CASE p.kind = "simple" /\ g.kind = "network" /\ LiteralIpInNetwork(p, g)
  <2>1. PICK net \in Nets : g.data = {net}
    BY <1>3, LeafAssumption DEF LiteralIpInNetwork, Literal
  <2>2. NetOf(g) = net
    BY <2>1 DEF NetOf
  <2>3. AddressOf(c, p.operand) = p.data /\ AddressOf(c, g.operand) = p.data
    BY <1>3 DEF LiteralIpInNetwork, LeafMatches, AddressOf
  <2> QED BY <1>3, <2>1, <2>2, <2>3 DEF LiteralIpInNetwork, LeafMatches
<1>4. CASE p.kind = "network" /\ g.kind = "network" /\ p.operand = g.operand /\ NetworkInNetwork(p, g)
  <2>1. PICK net \in Nets : g.data = {net}
    BY <1>4, LeafAssumption DEF NetworkInNetwork, Literal
  <2>2. PICK own \in Nets : p.data = {own}
    BY <1>4, LeafAssumption DEF NetworkInNetwork, Literal
  <2>3. NetOf(g) = net /\ NetOf(p) = own
    BY <2>1, <2>2 DEF NetOf
  <2>4. AddressOf(c, p.operand) \in Addresses
    BY <1>0 DEF AddressOf
  <2>5. InNet(AddressOf(c, p.operand), own)
    BY <1>4, <2>2 DEF LeafMatches
  <2>6. InNet(AddressOf(c, p.operand), net)
    BY <1>4, <2>3, <2>4, <2>5, NetsNest DEF NetworkInNetwork
  <2> QED BY <1>4, <2>1, <2>6 DEF LeafMatches
<1>5. CASE ImpliesByEngine(l, k)
  <2>1. p.kind = "simple" /\ g.kind = "regexp" /\ p.operand = "path" /\ g.operand = "path"
        /\ SimpleImpliesRegexp(p, g)
    BY <1>5, LeafAssumption DEF ImpliesByEngine
  <2>2. p.data \in Texts /\ g.data \subseteq Texts /\ p.sensitive \in BOOLEAN /\ g.sensitive \in BOOLEAN
    BY <2>1, LeafAssumption
  <2>3. SimpleCmp(c.path, p.data, p.sensitive)
    BY <2>1 DEF LeafMatches
  <2>4. RegexpMatches(g.data, g.sensitive, c.path)
    <3>1. CASE p.sensitive
      BY <2>1, <2>3, <3>1 DEF SimpleImpliesRegexp, SimpleCmp
    <3>2. CASE ~p.sensitive
      <4>1. ~g.sensitive /\ p.data \in Plain /\ FoldOf[c.path] = FoldOf[p.data]
        BY <2>1, <2>3, <3>2 DEF SimpleImpliesRegexp, SimpleCmp
      <4>2. LowerOf[c.path] = LowerOf[p.data]
        BY <4>1, <1>0, TextAssumption
      <4> QED BY <2>1, <4>1, <4>2 DEF SimpleImpliesRegexp, RegexpMatches
    <3> QED BY <2>2, <3>1, <3>2
  <2> QED BY <2>1, <2>4 DEF LeafMatches
<1> QED BY <1>1, <1>2, <1>3, <1>4, <1>5 DEF ImpliesExactly

\* A rule that covers another matches every connection the other does (covers, atoms.rs).
LEMMA CoversSound ==
  ASSUME NEW a \in InsightRules, NEW b \in InsightRules, NEW c \in Connections,
         Covers(a, b), Matches(b, c)
  PROVE  Matches(a, c)
<1> SUFFICES ASSUME NEW k \in a.conds PROVE LeafMatches(k, c)
  BY DEF Matches
<1>1. k \in Leaves /\ Leaf[k].kind # "lists" /\ a.conds \subseteq Leaves /\ b.conds \subseteq Leaves
  BY DEF Covers, Modelled, InsightRules
<1>2. CASE Leaf[k].kind = "true"
  BY <1>2 DEF LeafMatches
<1>3. CASE Leaf[k].kind # "true"
  <2>1. k \in Atoms(a)
    BY <1>1, <1>3 DEF Atoms
  <2>2. PICK l \in Atoms(b) : ImpliesExactly(l, k) \/ ImpliesByEngine(l, k)
    BY <2>1 DEF Covers
  <2>3. l \in Leaves /\ LeafMatches(l, c)
    BY <1>1 DEF Atoms, Matches
  <2> QED BY <1>1, <2>2, <2>3, ImpliesSound
<1> QED BY <1>2, <1>3

-----------------------------------------------------------------------------
(* Shadowing *)

\* A rule that does not end the scan decides nothing that a later active rule matches: that
\* rule, or one that ends the scan before it, comes after (scan, simulator.rs).
LEMMA LaterMatchWins ==
  ASSUME NEW list, IsRuleList(list), NEW yes,
         NEW a \in Active(list) \cap yes, NEW b \in DOMAIN list, a > b, ~StopsScan(list[b])
  PROVE  ~IsDecider(list, yes, b)
<1> SUFFICES ASSUME IsDecider(list, yes, b) PROVE FALSE
  OBVIOUS
<1> DEFINE T == {m \in Active(list) \cap yes : m > b /\ (StopsScan(list[m]) \/ m = a)}
<1>1. DOMAIN list \subseteq Nat /\ Active(list) \subseteq Nat
  BY Zenon, RuleNumbersAssumption DEF IsRuleList, Active
<1>2. T \subseteq Nat /\ T # {}
  BY <1>1
<1>3. PICK m \in T : \A y \in T : m <= y
  BY Zenon, <1>2, LeastNat
<1>4. \A n \in Active(list) : n < m /\ n \in yes => ~StopsScan(list[n])
  <2> SUFFICES ASSUME NEW n \in Active(list), n < m, n \in yes, StopsScan(list[n]) PROVE FALSE
    OBVIOUS
  <2>1. CASE n > b
    <3>1. n \in T
      BY <2>1
    <3> QED BY <1>1, <1>2, <1>3, <3>1
  <2>2. CASE n = b
    BY <2>2
  <2>3. CASE n < b
    BY <2>3 DEF IsDecider, Scanned
  <2> QED BY <1>1, <2>1, <2>2, <2>3
<1>5. m \in Scanned(list, yes) \cap yes /\ m > b
  BY <1>3, <1>4 DEF Scanned
<1> QED BY <1>1, <1>2, <1>5 DEF IsDecider

\* A rule that another shadows decides no connection (shadowed_by, shadow.rs).
LEMMA ShadowSound ==
  ASSUME NEW list, IsRuleList(list), NEW a \in Active(list), NEW b \in Active(list),
         MayShadow(list, a, b), NEW c \in Connections
  PROVE  /\ ~Decides(list, b, c)
         /\ Matches(list[b], c) => Matches(list[a], c)
<1>1. a \in DOMAIN list /\ b \in DOMAIN list /\ a \in Nat /\ b \in Nat
      /\ list[a] \in InsightRules /\ list[b] \in InsightRules
  BY Zenon, RuleNumbersAssumption DEF IsRuleList, Active
<1>2. Matches(list[b], c) => Matches(list[a], c)
  BY <1>1, CoversSound DEF MayShadow
<1>3. ASSUME Decides(list, b, c) PROVE FALSE
  <2>1. b \in Scanned(list, Matching(list, c)) \cap Matching(list, c)
    BY <1>3 DEF Decides, IsDecider
  <2>2. a \in Active(list) \cap Matching(list, c)
    BY <1>1, <1>2, <2>1 DEF Matching
  <2>3. CASE a < b /\ StopsScan(list[a])
    BY <2>1, <2>2, <2>3 DEF Scanned
  <2>4. CASE a > b /\ ~StopsScan(list[b])
    BY <1>1, <1>3, <2>2, <2>4, LaterMatchWins DEF Decides
  <2> QED BY <1>1, <2>3, <2>4 DEF MayShadow, CanShadow
<1> QED BY <1>2, <1>3

\* The rule a finding names is one that shadows the rule it is about (analyze_until).
LEMMA NamedShadows ==
  ASSUME NEW list, NEW f \in Analysis(list)
  PROVE  f.rule \in Active(list) /\ f.by \in Active(list) /\ MayShadow(list, f.by, f.rule)
<1>1. f.rule \in Active(list) /\ f.by \in Active(list) /\ Named(list, f.rule, f.by)
  BY DEF Analysis
<1>2. f.by \in Strongest(list, f.rule)
  BY <1>1 DEF Named
<1>3. f.by \in Covering(list, f.rule)
  BY <1>2 DEF Strongest
<1> QED BY <1>1, <1>3 DEF Covering

-----------------------------------------------------------------------------
(* The analysis on demand *)

\* A copy belongs to the generation it was taken in: one of the current generation is the
\* list, and only its result is wanted.
CopyInv(r) ==
  /\ r.generation \in 1..generation /\ IsRuleList(r.copy)
  /\ r.generation = generation => r.copy = guiRules

InsightsInv ==
  /\ IsRuleList(guiRules) /\ generation \in Nat \ {0} /\ running \in {NoAnalysis, generation}
  /\ \A w \in analysts : CopyInv(w)
  /\ \A r \in posted : CopyInv(r)
  /\ insightFindings \subseteq Analysis(guiRules)

\* The generations tie a result to the list it was computed from (state.rs): findings shown
\* are the analysis of the list shown.
LEMMA InsightsInduction == InsightsSpec => []InsightsInv
<1>1. InsightsInit => InsightsInv
  BY ListsAssumption DEF InsightsInit, InsightsInv, NoAnalysis
<1>2. InsightsInv /\ [InsightsNext]_insightVars => InsightsInv'
  <2> SUFFICES ASSUME InsightsInv, [InsightsNext]_insightVars PROVE InsightsInv'
    OBVIOUS
  <2> USE DEF InsightsInv, NoAnalysis
  <2>1. ASSUME NEW list \in NewLists, RulesChanged(list) PROVE InsightsInv'
    <3>1. IsRuleList(guiRules') /\ generation' = generation + 1 /\ running' = NoAnalysis
          /\ insightFindings' = {} /\ posted' = posted
      BY <2>1, ListsAssumption DEF RulesChanged
    <3>2. \A w \in analysts : Cancelled(w).generation = w.generation /\ Cancelled(w).copy = w.copy
      <4> TAKE w \in analysts
      <4>1. CASE w.generation = running
        <5>1. Cancelled(w) = [w EXCEPT !.cancel = TRUE]
          BY <4>1 DEF Cancelled
        <5> QED BY <5>1
      <4>2. CASE w.generation # running
        BY <4>2 DEF Cancelled
      <4> QED BY <4>1, <4>2
    <3>3. \A w \in analysts' : \E v \in analysts : w.generation = v.generation /\ w.copy = v.copy
      BY <2>1, <3>2 DEF RulesChanged
    <3>4. \A w \in analysts' : w.generation \in 1..generation /\ IsRuleList(w.copy)
      BY <3>3 DEF CopyInv
    <3>5. \A w \in analysts' : CopyInv(w)'
      BY <3>1, <3>4 DEF CopyInv
    <3>6. \A r \in posted' : CopyInv(r)'
      BY <3>1 DEF CopyInv
    <3> QED BY <3>1, <3>5, <3>6
  <2>2. CASE StartAnalysis
    BY <2>2 DEF StartAnalysis, CopyInv
  <2>3. ASSUME NEW w \in analysts, AnalystEnds(w) PROVE InsightsInv'
    BY <2>3 DEF AnalystEnds, CopyInv
  <2>4. ASSUME NEW r \in posted, FinishAnalysis(r) PROVE InsightsInv'
    <3>1. UNCHANGED <<guiRules, generation, analysts>> /\ posted' \subseteq posted
      BY <2>4 DEF FinishAnalysis
    <3>2. insightFindings' \subseteq Analysis(guiRules) /\ running' \in {NoAnalysis, generation}
      <4>1. CASE running # r.generation
        BY <2>4, <4>1 DEF FinishAnalysis
      <4>2. CASE running = r.generation
        <5>1. r.copy = guiRules
          BY <4>2 DEF CopyInv
        <5> QED BY <2>4, <4>2, <5>1 DEF FinishAnalysis
      <4> QED BY <4>1, <4>2
    <3> QED BY <3>1, <3>2 DEF CopyInv
  <2>5. CASE UNCHANGED insightVars
    BY <2>5 DEF insightVars, CopyInv
  <2> QED BY <2>1, <2>2, <2>3, <2>4, <2>5 DEF InsightsNext
<1> QED BY <1>1, <1>2, PTL DEF InsightsSpec

\* Findings on the Rules page are true of the list it shows (insights/shadow.rs, state.rs):
\* whatever the conditions are, and however the list changes while the worker reads its copy.
THEOREM FindingsStayTrue == InsightsSpec => []FindingsAreTrue
<1>1. InsightsInv => FindingsAreTrue
  <2> SUFFICES ASSUME InsightsInv, NEW f \in insightFindings, NEW c \in Connections
               PROVE  /\ ~Decides(guiRules, f.rule, c)
                      /\ Matches(guiRules[f.rule], c) => Matches(guiRules[f.by], c)
    BY DEF FindingsAreTrue
  <2>1. f \in Analysis(guiRules) /\ IsRuleList(guiRules)
    BY Zenon DEF InsightsInv
  <2> QED BY Zenon, <2>1, NamedShadows, ShadowSound
<1> QED BY <1>1, InsightsInduction, PTL

-----------------------------------------------------------------------------
(* The simulator *)

\* A condition the simulator evaluates is as the daemon finds it for every connection the
\* inputs leave possible (evaluate_leaf, simulator/operator.rs).
LEMMA LeafSimulated ==
  ASSUME NEW l \in Leaves, NEW i \in SimulationInputs, NEW c \in Completions(i), ~LeafUnknown(l, i)
  PROVE  LeafYes(l, i) <=> LeafMatches(l, c)
<1> DEFINE x == Leaf[l]
           d == [path |-> i.path, destIp |-> i.destIp, sourceIp |-> i.sourceIp, listed |-> FALSE]
<1>1. LeafYes(l, i) <=> LeafMatches(l, d)
  BY Zenon DEF LeafYes
<1>2. /\ i.path # NotKnown => c.path = i.path
      /\ i.destIp # NotKnown => c.destIp = i.destIp
      /\ i.sourceIp # NotKnown => c.sourceIp = i.sourceIp
  BY DEF Completions, Possible
<1>3. CASE x.kind = "true"
  BY <1>1, <1>3 DEF LeafMatches
<1>4. CASE x.kind = "regexp" \/ (x.kind = "simple" /\ x.operand = "path")
  <2>1. x.operand = "path" /\ x.kind # "true"
    BY Zenon, <1>4, LeafAssumption
  <2>2. c.path = i.path /\ d.path = i.path
    BY <1>2, <2>1 DEF LeafUnknown, SubjectOf
  <2> QED BY Zenon, <1>1, <1>4, <2>1, <2>2 DEF LeafMatches
<1>5. CASE (x.kind = "simple" /\ x.operand # "path") \/ x.kind = "network"
  <2>1. x.operand # "path" /\ x.kind # "true"
    BY Zenon, <1>5, LeafAssumption
  <2>2. AddressOf(i, x.operand) # NotKnown
    BY Zenon, <2>1 DEF LeafUnknown, SubjectOf
  <2>3. AddressOf(c, x.operand) = AddressOf(i, x.operand)
        /\ AddressOf(d, x.operand) = AddressOf(i, x.operand)
    BY Zenon, <1>2, <2>2 DEF AddressOf
  <2> QED BY Zenon, <1>1, <1>5, <2>3 DEF LeafMatches
<1> QED BY <1>3, <1>4, <1>5, LeafAssumption DEF LeafUnknown

\* A rule the simulator says matches does, and one it says does not, does not
\* (evaluate_list, simulator/operator.rs).
LEMMA RuleSimulated ==
  ASSUME NEW rule \in InsightRules, NEW i \in SimulationInputs, NEW c \in Completions(i)
  PROVE  /\ RuleYes(rule, i) => Matches(rule, c)
         /\ Matches(rule, c) => RuleYes(rule, i) \/ RuleUnknown(rule, i)
<1> rule.conds \subseteq Leaves
  BY DEF InsightRules
<1>1. RuleYes(rule, i) => Matches(rule, c)
  BY LeafSimulated DEF RuleYes, RuleNo, Matches
<1>2. Matches(rule, c) => ~RuleNo(rule, i)
  BY LeafSimulated DEF RuleNo, Matches
<1> QED BY <1>1, <1>2 DEF RuleYes, RuleUnknown

\* The simulator's answer is the daemon's, for every list, input and connection, if the rules
\* named as not evaluated do not match (gaps_that_matter, simulator.rs): the rules left out of
\* the gaps cannot change it.
THEOREM SimulatorSound == ASSUME NEW list, IsRuleList(list) PROVE SimulationHolds(list)
<1> SUFFICES ASSUME NEW i \in SimulationInputs, NEW c \in Completions(i),
                    GapsThatMatter(list, i) \cap Matching(list, c) = {}, NEW n \in DOMAIN list
             PROVE  IsDecider(list, SimulatedYes(list, i), n) <=> IsDecider(list, Matching(list, c), n)
  BY DEF SimulationHolds
<1> DEFINE yes == SimulatedYes(list, i)
           matching == Matching(list, c)
<1>1. DOMAIN list \subseteq Nat /\ Active(list) \subseteq DOMAIN list
      /\ \A m \in DOMAIN list : list[m] \in InsightRules
  BY Zenon, RuleNumbersAssumption DEF IsRuleList, Active
<1>2. yes \subseteq matching
  BY <1>1, RuleSimulated DEF SimulatedYes, Matching
<1>3. \A m \in matching \ yes : RuleUnknown(list[m], i)
  BY <1>1, RuleSimulated DEF SimulatedYes, Matching
<1>4. Scanned(list, matching) \subseteq Scanned(list, yes)
  BY <1>2 DEF Scanned
<1>5. ASSUME NEW m \in (Scanned(list, yes) \cap matching) \ yes
      PROVE  ~StopsScan(list[m]) /\ \E d \in DOMAIN list : IsDecider(list, yes, d) /\ ~(m > d)
  <2>1. m \in Undecided(list, i) /\ m \notin GapsThatMatter(list, i)
    BY <1>3, <1>5 DEF Undecided
  <2> QED BY <2>1 DEF GapsThatMatter
<1>6. Scanned(list, yes) \subseteq Scanned(list, matching)
  <2> SUFFICES ASSUME NEW k \in Scanned(list, yes), NEW m \in Active(list),
                      m < k, m \in matching, StopsScan(list[m])
               PROVE  FALSE
    BY DEF Scanned
  <2>1. m \notin yes
    BY DEF Scanned
  <2>2. \A j \in Active(list) : j < m /\ j \in yes => ~StopsScan(list[j])
    <3> SUFFICES ASSUME NEW j \in Active(list), j < m, j \in yes PROVE ~StopsScan(list[j])
      OBVIOUS
    <3>1. j < k /\ k \in Active(list)
      BY <1>1 DEF Scanned
    <3> QED BY <3>1 DEF Scanned
  <2>3. m \in Scanned(list, yes)
    BY <2>2 DEF Scanned
  <2> QED BY <1>5, <2>1, <2>3
<1>7. ASSUME IsDecider(list, yes, n) PROVE IsDecider(list, matching, n)
  <2>1. n \in Scanned(list, matching) \cap matching
    BY <1>2, <1>6, <1>7 DEF IsDecider
  <2>2. ASSUME NEW m \in Scanned(list, matching) \cap matching PROVE m <= n
    <3>1. CASE m \in yes
      BY <1>4, <1>7, <2>2, <3>1 DEF IsDecider
    <3>2. CASE m \notin yes
      <4>1. PICK d \in DOMAIN list : IsDecider(list, yes, d) /\ ~(m > d)
        BY <1>4, <1>5, <2>2, <3>2
      <4>2. d <= n
        BY Zenon, <1>7, <4>1 DEF IsDecider
      <4>3. m \in Nat /\ d \in Nat /\ n \in Nat
        BY <1>1, <2>2 DEF Scanned
      <4> QED BY <4>1, <4>2, <4>3
    <3> QED BY <3>1, <3>2
  <2> QED BY Zenon, <2>1, <2>2 DEF IsDecider
<1>8. ASSUME IsDecider(list, matching, n) PROVE IsDecider(list, yes, n)
  <2>1. n \in Scanned(list, yes) \cap matching
    BY <1>4, <1>8 DEF IsDecider
  <2>2. n \in yes
    <3> SUFFICES ASSUME n \notin yes PROVE FALSE
      OBVIOUS
    <3>1. PICK d \in DOMAIN list : IsDecider(list, yes, d) /\ ~(n > d)
      BY <1>5, <2>1
    <3>2. d \in yes /\ d \in Scanned(list, matching) \cap matching
      BY Zenon, <1>2, <1>6, <3>1 DEF IsDecider
    <3>3. d <= n
      BY Zenon, <1>8, <3>2 DEF IsDecider
    <3> QED BY <1>1, <3>1, <3>2, <3>3
  <2>3. \A m \in Scanned(list, yes) \cap yes : m <= n
    BY <1>2, <1>6, <1>8 DEF IsDecider
  <2> QED BY Zenon, <2>1, <2>2, <2>3 DEF IsDecider
<1> QED BY <1>7, <1>8

\* So it is of the list shown (SimulationIsRight), whatever happens on the page.
THEOREM SimulatorStaysRight == InsightsSpec => []SimulationIsRight
<1>1. InsightsInv => SimulationIsRight
  BY SimulatorSound DEF InsightsInv, SimulationIsRight
<1> QED BY <1>1, InsightsInduction, PTL

-----------------------------------------------------------------------------
(* Learning windows *)

\* What the proof needs besides: the file is one that a transaction wrote, and the owner's
\* words are modes
KeptInv ==
  /\ settingsFile \in SettingsFiles
  /\ forced \in Modes \cup {NoIntent}
  /\ wanted \in Modes /\ replaced \in Modes \cup {NoIntent}
  /\ wall \in Nat /\ ran \in Nat /\ starts \subseteq 1..LearningMax
  /\ OwnersWordKept

\* No window is told from a window by the mode it replaced.
LEMMA WindowsReplace ==
  ASSUME NEW s \in SettingsFiles
  PROVE  /\ InWindow(s) <=> s.window \in Windows
         /\ InWindow(s) => s.window.previous \in Modes /\ s.mode = "allow"
         /\ s.mode \in Modes
         /\ ~InWindow(s) => s.window = NoWindow /\ s.window.previous = NoIntent
  BY DEF SettingsFiles, InWindow, Windows, NoWindow, Span, Modes, NoIntent

\* A window that start() begins is a window, keeps what it replaces, and is not over yet.
LEMMA BegunIsLive ==
  ASSUME NEW s \in Nat, NEW l \in Nat \ {0}, NEW p \in Modes
  PROVE  /\ Clamped(Span(s, s + l, l, 0, p)) \in Windows
         /\ Clamped(Span(s, s + l, l, 0, p)).previous = p
         /\ Clamped(Span(s, s + l, l, 0, p)).ends > s
         /\ Clamped(Span(s, s + l, l, 0, p)).elapsed < Clamped(Span(s, s + l, l, 0, p)).length
<1> DEFINE w == Clamped(Span(s, s + l, l, 0, p))
<1>1. PICK e \in Nat : e = Lesser(s + l, s + LearningMax) /\ e > s BY LengthsAssumption DEF Lesser
<1>2. PICK m \in Nat : m = Lesser(l, LearningMax) /\ m > 0 BY LengthsAssumption DEF Lesser
<1>3. w = [started |-> s, ends |-> e, length |-> m, elapsed |-> 0, previous |-> p]
  BY Zenon, <1>1, <1>2 DEF Clamped, Span
<1> QED BY <1>1, <1>2, <1>3 DEF Windows

\* Clamping what is read keeps the mode, the window and what it replaced.
LEMMA ReadKeeps ==
  ASSUME settingsFile \in SettingsFiles
  PROVE  /\ Settings \in SettingsFiles /\ Settings.mode = settingsFile.mode
         /\ InWindow(Settings) <=> InWindow(settingsFile)
         /\ Settings.window.previous = settingsFile.window.previous
<1>1. CASE settingsFile \in [mode : Modes, window : {NoWindow}]
  <2>1. Clamped(NoWindow) = NoWindow
    <3>1. Lesser(0, LearningMax) = 0 /\ Lesser(0, 0 + LearningMax) = 0
      BY LengthsAssumption DEF Lesser
    <3> QED BY <3>1 DEF Clamped, NoWindow, Span
  <2> QED BY <1>1, <2>1 DEF Settings, SettingsFiles, InWindow
<1>2. CASE settingsFile \in [mode : {"allow"}, window : Windows]
  <2>1. Clamped(settingsFile.window) \in Windows
    BY <1>2, LengthsAssumption DEF Clamped, Windows, Span, Lesser
  <2>2. Clamped(settingsFile.window).previous = settingsFile.window.previous
    BY DEF Clamped, Span
  <2>3. Settings \in [mode : {"allow"}, window : Windows]
    BY <1>2, <2>1 DEF Settings
  <2>4. Settings \in SettingsFiles BY <2>3 DEF SettingsFiles
  <2>5. Settings.window = Clamped(settingsFile.window) /\ Settings.mode = settingsFile.mode
    BY <1>2 DEF Settings
  <2> QED BY Zenon, <1>2, <2>1, <2>2, <2>4, <2>5, WindowsReplace
<1> QED BY <1>1, <1>2 DEF SettingsFiles

\* A transaction without a choice of the owner's: what is on disk with its window moved on,
\* or ended at once, is the file's mode and window to the owner.
LEMMA UnchosenKeeps ==
  ASSUME KeptInv, NEW changed \in SettingsFiles, NEW touched \in BOOLEAN,
         changed.mode = settingsFile.mode,
         InWindow(changed) <=> InWindow(settingsFile),
         changed.window.previous = settingsFile.window.previous,
         WritesFile(NoIntent, changed, touched), OwnerUnless(changed)
  PROVE  /\ settingsFile' \in SettingsFiles /\ forced' \in Modes \cup {NoIntent}
         /\ wanted' \in Modes /\ replaced' \in Modes \cup {NoIntent}
         /\ OwnersWordKept'
<1> DEFINE over == InWindow(changed) /\ IsExpired(changed.window)
<1>1. /\ InWindow(changed) => changed.window.previous \in Modes /\ changed.mode = "allow"
      /\ ~InWindow(changed) => changed.window = NoWindow
      /\ changed.mode \in Modes /\ NoIntent \notin Modes
  BY Zenon, WindowsReplace DEF Modes, NoIntent
<1>2. /\ settingsFile.mode \in Modes
      /\ InWindow(settingsFile) => settingsFile.window.previous \in Modes
  BY WindowsReplace DEF KeptInv
<1>a. forced \in Modes \cup {NoIntent} /\ wanted \in Modes /\ replaced \in Modes \cup {NoIntent}
      /\ settingsFile \in SettingsFiles
  BY Zenon DEF KeptInv
<1>b. forced = NoIntent => /\ settingsFile.mode = wanted
                           /\ InWindow(settingsFile) => wanted = "allow" /\ settingsFile.window.previous = replaced
  BY Zenon DEF KeptInv, OwnersWordKept
<1>c. forced # NoIntent => forced = wanted
  BY Zenon DEF KeptInv, OwnersWordKept
<1>3. \A m \in Modes : /\ [mode |-> m, window |-> NoWindow] \in SettingsFiles
                       /\ ~InWindow([mode |-> m, window |-> NoWindow])
  BY DEF SettingsFiles, InWindow
<1>4. CASE forced # NoIntent
  <2>1. Intent(NoIntent, changed) = forced BY <1>4 DEF Intent
  <2>2. Final(NoIntent, changed) = [mode |-> forced, window |-> NoWindow]
    BY <1>4, <2>1 DEF Final
  <2>3. wanted' = wanted /\ replaced' = replaced BY <1>4 DEF OwnerUnless
  <2>4. \/ settingsFile' = [mode |-> forced, window |-> NoWindow] /\ forced' = NoIntent
        \/ settingsFile' = settingsFile /\ forced' = forced
    BY Zenon, <1>4, <2>1, <2>2 DEF WritesFile
  <2>5. CASE settingsFile' = [mode |-> forced, window |-> NoWindow] /\ forced' = NoIntent
    BY Zenon, <1>a, <1>c, <1>3, <1>4, <2>3, <2>5 DEF OwnersWordKept, InWindow
  <2>6. CASE settingsFile' = settingsFile /\ forced' = forced
    BY <1>a, <1>c, <1>4, <2>3, <2>6 DEF OwnersWordKept
  <2> QED BY <2>4, <2>5, <2>6
<1>5. CASE forced = NoIntent /\ over
  <2>0. changed.window.previous = replaced /\ replaced \in Modes
    BY <1>1, <1>b, <1>5
  <2>1. Intent(NoIntent, changed) = replaced BY Zenon, <1>5, <2>0 DEF Intent
  <2>2. Final(NoIntent, changed) = [mode |-> replaced, window |-> NoWindow]
    BY <1>1, <2>0, <2>1 DEF Final
  <2>3. wanted' = replaced /\ replaced' = replaced BY Zenon, <1>5 DEF OwnerUnless
  <2>4. \/ settingsFile' = [mode |-> replaced, window |-> NoWindow] /\ forced' = NoIntent
        \/ settingsFile' = settingsFile /\ forced' = replaced
    BY Zenon, <1>1, <2>0, <2>1, <2>2 DEF WritesFile
  <2>5. CASE settingsFile' = [mode |-> replaced, window |-> NoWindow] /\ forced' = NoIntent
    BY Zenon, <1>3, <2>0, <2>3, <2>5 DEF OwnersWordKept, InWindow
  <2>6. CASE settingsFile' = settingsFile /\ forced' = replaced
    BY <1>1, <1>a, <2>0, <2>3, <2>6 DEF OwnersWordKept
  <2> QED BY Zenon, <2>4, <2>5, <2>6
<1>6. CASE forced = NoIntent /\ ~over
  <2>1. Intent(NoIntent, changed) = NoIntent BY Zenon, <1>6 DEF Intent
  <2>2. Final(NoIntent, changed) = changed BY <1>6, <2>1 DEF Final
  <2>3. wanted' = wanted /\ replaced' = replaced BY <1>6 DEF OwnerUnless
  <2>4. (settingsFile' = settingsFile \/ settingsFile' = changed) /\ forced' = NoIntent
    BY <1>6, <2>1, <2>2 DEF WritesFile, fileVars
  <2>5. settingsFile' \in SettingsFiles /\ settingsFile'.mode = settingsFile.mode
        /\ (settingsFile'.window # NoWindow => InWindow(settingsFile))
        /\ settingsFile'.window.previous = settingsFile.window.previous
    BY <1>a, <2>4 DEF InWindow
  <2>6. settingsFile'.mode = wanted'
    BY Zenon, <1>b, <1>6, <2>3, <2>5
  <2>7. InWindow(settingsFile)' => wanted' = "allow" /\ settingsFile'.window.previous = replaced'
    BY Zenon, <1>b, <1>6, <2>3, <2>5 DEF InWindow
  <2>8. OwnersWordKept' BY <2>4, <2>6, <2>7 DEF OwnersWordKept
  <2> QED BY <1>a, <2>3, <2>4, <2>5, <2>8
<1> QED BY Zenon, <1>4, <1>5, <1>6

\* Moving a window on, or cutting it short, keeps it a window that gives back the same mode.
LEMMA WindowMoves ==
  ASSUME NEW s \in SettingsFiles, NEW delta \in Nat, InWindow(s), wall \in Nat
  PROVE  LET moved == [s EXCEPT !.window.elapsed = @ + delta]
             cut == [s EXCEPT !.window.ends = Lesser(@, wall)]
         IN  /\ moved \in SettingsFiles /\ moved.mode = s.mode /\ InWindow(moved)
             /\ moved.window.previous = s.window.previous
             /\ cut \in SettingsFiles /\ cut.mode = s.mode /\ InWindow(cut)
             /\ cut.window.previous = s.window.previous
<1>1. s \in [mode : {"allow"}, window : Windows]
  BY WindowsReplace DEF SettingsFiles, InWindow
<1>2. [s EXCEPT !.window.elapsed = @ + delta] \in [mode : {"allow"}, window : Windows]
  BY <1>1 DEF Windows
<1>3. [s EXCEPT !.window.ends = Lesser(@, wall)] \in [mode : {"allow"}, window : Windows]
  BY <1>1 DEF Windows, Lesser
<1>4. [s EXCEPT !.window.elapsed = @ + delta].window.previous = s.window.previous
      /\ [s EXCEPT !.window.ends = Lesser(@, wall)].window.previous = s.window.previous
  BY <1>1 DEF Windows
<1> QED BY Zenon, <1>1, <1>2, <1>3, <1>4, WindowsReplace DEF SettingsFiles

\* The transactions that are no choice of a mode: preferences, startup, tick and stop.
LEMMA UnchosenSteps ==
  ASSUME KeptInv, SavePreference \/ RefreshPreferences \/ TickLearning \/ StopLearning
  PROVE  KeptInv'
<1>0. settingsFile \in SettingsFiles /\ wall \in Nat /\ ran \in Nat /\ starts \subseteq 1..LearningMax
  BY DEF KeptInv
<1>1. Settings \in SettingsFiles /\ Settings.mode = settingsFile.mode
      /\ (InWindow(Settings) <=> InWindow(settingsFile))
      /\ Settings.window.previous = settingsFile.window.previous
  BY <1>0, ReadKeeps
<1>2. wall' \in Nat /\ ran' \in Nat /\ starts' \subseteq 1..LearningMax
  <2>1. wall' = wall BY Zenon DEF SavePreference, RefreshPreferences, TickLearning, StopLearning, Transact, threadKeeps
  <2>2. starts' = starts BY Zenon DEF SavePreference, RefreshPreferences, TickLearning, StopLearning
  <2>3. ran' = ran \/ ran' = 0 BY Zenon DEF SavePreference, RefreshPreferences, TickLearning, StopLearning
  <2> QED BY <1>0, <2>1, <2>2, <2>3
<1> DEFINE kept == /\ settingsFile' \in SettingsFiles /\ forced' \in Modes \cup {NoIntent}
                   /\ wanted' \in Modes /\ replaced' \in Modes \cup {NoIntent} /\ OwnersWordKept'
<1> SUFFICES kept BY <1>2 DEF KeptInv
<1>3. CASE SavePreference
  <2>1. WritesFile(NoIntent, Settings, TRUE) /\ OwnerUnless(Settings)
    BY Zenon, <1>3 DEF SavePreference, Transact
  <2> QED BY Zenon, <1>1, <2>1, UnchosenKeeps
<1>4. CASE RefreshPreferences
  <2>1. WritesFile(NoIntent, Settings, FALSE) /\ OwnerUnless(Settings)
    BY Zenon, <1>4 DEF RefreshPreferences, Transact
  <2> QED BY Zenon, <1>1, <2>1, UnchosenKeeps
<1>5. CASE TickLearning
  <2> DEFINE changed == Advanced(Settings, IF primed THEN ran ELSE 0)
  <2>1. WritesFile(NoIntent, changed, FALSE) /\ OwnerUnless(changed)
    BY Zenon, <1>5 DEF TickLearning, Transact
  <2>2. (IF primed THEN ran ELSE 0) \in Nat BY <1>0
  <2>3. changed \in SettingsFiles /\ changed.mode = settingsFile.mode
        /\ (InWindow(changed) <=> InWindow(settingsFile))
        /\ changed.window.previous = settingsFile.window.previous
    BY Zenon, <1>0, <1>1, <2>2, WindowMoves DEF Advanced
  <2> QED BY Zenon, <2>1, <2>3, UnchosenKeeps
<1>6. CASE StopLearning
  <2> DEFINE changed == IF InWindow(Settings) THEN [Settings EXCEPT !.window.ends = Lesser(@, wall)]
                        ELSE Settings
  <2>1. WritesFile(NoIntent, changed, FALSE) /\ OwnerUnless(changed)
    BY Zenon, <1>6 DEF StopLearning, Transact
  <2>2. 0 \in Nat OBVIOUS
  <2>3. changed \in SettingsFiles /\ changed.mode = settingsFile.mode
        /\ (InWindow(changed) <=> InWindow(settingsFile))
        /\ changed.window.previous = settingsFile.window.previous
    BY Zenon, <1>0, <1>1, <2>2, WindowMoves
  <2> QED BY Zenon, <2>1, <2>3, UnchosenKeeps
<1> QED BY <1>3, <1>4, <1>5, <1>6

\* A start that runs writes the window with the word it replaces, or leaves all as it was.
LEMMA StartSteps ==
  ASSUME KeptInv, Starts
  PROVE  KeptInv'
<1>1. PICK length \in starts : StartTransacts(length) BY DEF Starts
<1> DEFINE live == InWindow(Settings) /\ ~IsExpired(Settings.window)
           before == IF InWindow(Settings) THEN replaced ELSE wanted
           changed == IF live THEN Settings ELSE Begun(length, End(Settings).mode)
<1>2. /\ settingsFile \in SettingsFiles /\ wall \in Nat /\ ran \in Nat /\ starts \subseteq 1..LearningMax
      /\ forced \in Modes \cup {NoIntent} /\ wanted \in Modes /\ replaced \in Modes \cup {NoIntent}
      /\ NoIntent \notin Modes /\ OwnersWordKept
  BY DEF KeptInv, Modes, NoIntent
<1>3. Settings \in SettingsFiles /\ Settings.mode = settingsFile.mode
      /\ (InWindow(Settings) <=> InWindow(settingsFile))
      /\ Settings.window.previous = settingsFile.window.previous
  BY Zenon, <1>2, ReadKeeps
<1>4. wall' \in Nat /\ ran' \in Nat /\ starts' \subseteq 1..LearningMax
  BY <1>1, <1>2 DEF StartTransacts, Transact, threadKeeps
<1>5. WritesFile(NoIntent, changed, FALSE)
  BY Zenon, <1>1 DEF StartTransacts, Transact
<1>6. IF ~live /\ forced = NoIntent /\ settingsFile'.window = changed.window
      THEN wanted' = "allow" /\ replaced' = before
      ELSE wanted' = wanted /\ replaced' = replaced
  BY <1>1 DEF StartTransacts, ownerVars
<1>7. CASE forced # NoIntent
  <2>1. forced = wanted BY Zenon, <1>2, <1>7 DEF OwnersWordKept
  <2>2. Intent(NoIntent, changed) = forced BY Zenon, <1>7 DEF Intent
  <2>3. Final(NoIntent, changed) = [mode |-> forced, window |-> NoWindow]
    BY Zenon, <1>7, <2>2 DEF Final
  <2>4. \/ settingsFile' = [mode |-> forced, window |-> NoWindow] /\ forced' = NoIntent
        \/ settingsFile' = settingsFile /\ forced' = forced
    BY Zenon, <1>5, <1>7, <2>2, <2>3 DEF WritesFile
  <2>5. wanted' = wanted /\ replaced' = replaced BY Zenon, <1>6, <1>7
  <2>6. [mode |-> forced, window |-> NoWindow] \in SettingsFiles
    BY <1>2, <1>7 DEF SettingsFiles
  <2>7. OwnersWordKept' BY <1>7, <2>1, <2>4, <2>5 DEF OwnersWordKept, InWindow
  <2> QED BY <1>2, <1>4, <2>4, <2>5, <2>6, <2>7 DEF KeptInv
<1>8. CASE forced = NoIntent /\ live
  <2>1. Intent(NoIntent, changed) = NoIntent BY Zenon, <1>8 DEF Intent
  <2>2. Final(NoIntent, changed) = Settings BY Zenon, <1>8, <2>1 DEF Final
  <2>3. UNCHANGED fileVars BY Zenon, <1>5, <2>1, <2>2 DEF WritesFile
  <2>4. wanted' = wanted /\ replaced' = replaced BY <1>6, <1>8
  <2> QED BY <1>2, <1>4, <2>3, <2>4 DEF KeptInv, OwnersWordKept, InWindow, fileVars
<1>9. CASE forced = NoIntent /\ ~live
  <2>1. /\ settingsFile.mode = wanted
        /\ InWindow(settingsFile) => wanted = "allow" /\ settingsFile.window.previous = replaced
    BY <1>2, <1>9 DEF OwnersWordKept
  <2>2. before \in Modes /\ End(Settings).mode = before
    <3>1. CASE InWindow(Settings)
      BY Zenon, <1>3, <2>1, <3>1, WindowsReplace DEF End
    <3>2. CASE ~InWindow(Settings)
      BY Zenon, <1>2, <1>3, <2>1, <3>2 DEF End
    <3> QED BY Zenon, <3>1, <3>2
  <2>3. changed = [mode |-> "allow",
                   window |-> Clamped(Span(wall, wall + length, length, 0, before))]
    BY <1>9, <2>2 DEF Begun
  <2>4. length \in Nat \ {0} BY <1>1, <1>2, LengthsAssumption
  <2>5. changed.window \in Windows /\ changed.window.previous = before /\ changed.mode = "allow"
        /\ changed.window.ends > wall /\ changed.window.elapsed < changed.window.length
    <3>1. changed.window = Clamped(Span(wall, wall + length, length, 0, before)) /\ changed.mode = "allow"
      BY <2>3
    <3>2. wall \in Nat BY <1>2
    <3> HIDE DEF changed, before
    <3>3. /\ Clamped(Span(wall, wall + length, length, 0, before)) \in Windows
          /\ Clamped(Span(wall, wall + length, length, 0, before)).previous = before
          /\ Clamped(Span(wall, wall + length, length, 0, before)).ends > wall
          /\ Clamped(Span(wall, wall + length, length, 0, before)).elapsed
               < Clamped(Span(wall, wall + length, length, 0, before)).length
      BY Zenon, <2>2, <2>4, <3>2, BegunIsLive
    <3> QED BY Zenon, <3>1, <3>3
  <2>6. changed \in SettingsFiles /\ InWindow(changed)
    <3>1. changed \in SettingsFiles BY <2>3, <2>5 DEF SettingsFiles
    <3> QED BY Zenon, <2>5, <3>1, WindowsReplace
  <2>7. CASE IsExpired(changed.window)
    <3>1. Intent(NoIntent, changed) = before
      BY Zenon, <1>9, <2>5, <2>6, <2>7 DEF Intent
    <3>2. FALSE
      <4> HIDE DEF changed, before
      <4> QED BY <1>2, <2>5, <2>7 DEF IsExpired, Windows
    <3> QED BY <3>2
  <2>8. CASE ~IsExpired(changed.window)
    <3>1. Intent(NoIntent, changed) = NoIntent BY Zenon, <1>9, <2>8 DEF Intent
    <3>2. Final(NoIntent, changed) = changed BY Zenon, <2>8, <3>1 DEF Final
    <3>3. forced' = NoIntent /\ (settingsFile' = changed \/ settingsFile' = settingsFile)
      BY <1>5, <1>9, <3>1, <3>2 DEF WritesFile, fileVars
    <3>4. CASE settingsFile' = changed
      <4>1. wanted' = "allow" /\ replaced' = before BY Zenon, <1>6, <1>9, <3>4
      <4> QED BY Zenon, <1>2, <1>4, <2>2, <2>5, <2>6, <3>3, <3>4, <4>1
              DEF KeptInv, OwnersWordKept, InWindow, Modes
    <3>5. CASE settingsFile' = settingsFile /\ settingsFile.window # changed.window
      <4>1. wanted' = wanted /\ replaced' = replaced BY <1>6, <3>5
      <4> QED BY Zenon, <1>2, <1>4, <1>9, <3>3, <3>5, <4>1 DEF KeptInv, OwnersWordKept, InWindow
    <3>6. CASE settingsFile' = settingsFile /\ settingsFile.window = changed.window
      <4>1. wanted' = "allow" /\ replaced' = before BY ZenonT(30), <1>6, <1>9, <3>6
      <4>2. settingsFile = changed
        <5> HIDE DEF changed, before, live
        <5>1. InWindow(settingsFile) BY Zenon, <2>6, <3>6 DEF InWindow
        <5>2. settingsFile \in [mode : {"allow"}, window : Windows] /\ changed \in [mode : {"allow"}, window : Windows]
          BY Zenon, <1>2, <2>6, <5>1 DEF SettingsFiles, InWindow
        <5> QED BY <3>6, <5>2
      <4> QED BY ZenonT(30), <1>2, <1>4, <2>2, <2>5, <2>6, <3>3, <3>6, <4>1, <4>2
              DEF KeptInv, OwnersWordKept, InWindow, Modes
    <3> QED BY Zenon, <3>3, <3>4, <3>5, <3>6
  <2> QED BY Zenon, <2>7, <2>8
<1> QED BY <1>7, <1>8, <1>9

\* An explicit choice is on disk or held.
LEMMA ChoiceStep ==
  ASSUME KeptInv, NEW mode \in Picks, ChooseSilentMode(mode)
  PROVE  KeptInv'
<1>1. mode \in Modes /\ mode # NoIntent /\ NoIntent \notin Modes BY DEF Picks, Modes, NoIntent
<1> DEFINE changed == [mode |-> mode, window |-> NoWindow]
<1>2. Intent(mode, changed) = mode BY Zenon, <1>1 DEF Intent
<1>3. Final(mode, changed) = changed BY Zenon, <1>1, <1>2 DEF Final
<1>4. \/ settingsFile' = changed /\ forced' = NoIntent
      \/ settingsFile' = settingsFile /\ forced' = mode
  BY Zenon, <1>1, <1>2, <1>3 DEF ChooseSilentMode, Transact, WritesFile
<1>5. wanted' = mode /\ replaced' = replaced /\ ran' = ran /\ wall' = wall /\ starts' = starts
  BY Zenon DEF ChooseSilentMode, Transact, threadKeeps
<1>6. changed \in SettingsFiles BY Zenon, <1>1 DEF SettingsFiles
<1>7. OwnersWordKept' BY <1>1, <1>4, <1>5 DEF OwnersWordKept, InWindow
<1> QED BY <1>1, <1>4, <1>5, <1>6, <1>7 DEF KeptInv

\* Whatever reads and applies the snapshots, and the clocks, leave the owner's word alone.
LEMMA OtherSteps ==
  ASSUME KeptInv,
         \/ \E length \in Lengths : StartLearning(length)
         \/ \E t \in threads : Going(t)
         \/ Shows \/ TimeRuns \/ Asleep \/ SetBack \/ UNCHANGED learningVars
  PROVE  KeptInv'
<1>1. /\ settingsFile' = settingsFile /\ forced' = forced /\ wanted' = wanted /\ replaced' = replaced
      /\ wall' \in Nat /\ ran' \in Nat /\ starts' \subseteq 1..LearningMax
  <2>0. wall \in Nat /\ ran \in Nat /\ starts \subseteq 1..LearningMax BY Zenon DEF KeptInv
  <2>1. CASE \E length \in Lengths : StartLearning(length)
    BY Zenon, <2>0, <2>1, LengthsAssumption DEF StartLearning, fileVars, ownerVars, threadKeeps
  <2>2. CASE \E t \in threads : Going(t)
    <3>1. PICK t \in threads : Going(t) BY <2>2
    <3>2. CASE Report(t)
      BY <2>0, <3>2 DEF Report, fileVars, ownerVars, clockVars
    <3>3. CASE PushChecks(t) \/ PushReads(t) \/ PushSets(t) \/ PushEnds(t)
      BY Zenon, <2>0, <3>3 DEF PushChecks, PushReads, PushSets, PushEnds, pushKeeps, fileVars, ownerVars, clockVars
    <3>4. CASE Claim(t)
      BY <2>0, <3>4 DEF Claim, qtKeeps, fileVars, ownerVars, clockVars
    <3> QED BY <3>1, <3>2, <3>3, <3>4 DEF Going
  <2>3. CASE Shows
    BY Zenon, <2>0, <2>3 DEF Shows, QtShows, QtSets, qtKeeps, fileVars, ownerVars, clockVars
  <2>5. CASE TimeRuns \/ Asleep \/ SetBack
    <3>1. wall' \in Nat /\ ran' \in Nat BY <2>0, <2>5 DEF TimeRuns, Asleep, SetBack
    <3>2. UNCHANGED clockKeeps BY Zenon, <2>5 DEF TimeRuns, Asleep, SetBack
    <3> QED BY Zenon, <2>0, <3>1, <3>2 DEF clockKeeps, fileVars, ownerVars
  <2>4. CASE UNCHANGED learningVars
    BY Zenon, <2>0, <2>4 DEF learningVars, fileVars, ownerVars, clockVars
  <2> QED BY Zenon, <2>1, <2>2, <2>3, <2>4, <2>5
<1> QED BY Zenon, <1>1 DEF KeptInv, OwnersWordKept, InWindow

\* After a restart the file is all that is left of the owner's word.
LEMMA RestartStep ==
  ASSUME KeptInv, Restart
  PROVE  KeptInv'
<1>1. /\ settingsFile' = settingsFile /\ forced' = NoIntent /\ wanted' = settingsFile.mode
      /\ replaced' = settingsFile.window.previous /\ ran' = 0 /\ starts' = {} /\ wall' = wall
  BY DEF Restart
<1>2. settingsFile \in SettingsFiles /\ wall \in Nat BY Zenon DEF KeptInv
<1>3. OwnersWordKept' BY Zenon, <1>1, <1>2, WindowsReplace DEF OwnersWordKept, InWindow
<1>4. settingsFile.mode \in Modes /\ settingsFile.window.previous \in Modes \cup {NoIntent}
  BY <1>2, WindowsReplace
<1> QED BY Zenon, <1>1, <1>2, <1>3, <1>4 DEF KeptInv

\* transact, over every interleaving of threads, failed writes, clock changes and restarts:
\* the file, or the override while it holds, is the owner's last word (OwnersWordKept).
THEOREM OwnerIsHeard == LearningSpec => []OwnersWordKept
<1>1. LearningInit => KeptInv
  <2> SUFFICES ASSUME LearningInit PROVE KeptInv OBVIOUS
  <2>1. settingsFile \in SettingsFiles /\ wanted = settingsFile.mode /\ forced = NoIntent
        /\ replaced = settingsFile.window.previous /\ wall = 0 /\ ran = 0 /\ starts = {}
    BY StartFilesAssumption DEF LearningInit
  <2> QED BY <2>1, WindowsReplace DEF KeptInv, OwnersWordKept, InWindow
<1>2. KeptInv /\ [LearningNext]_learningVars => KeptInv'
  BY UnchosenSteps, StartSteps, ChoiceStep, OtherSteps, RestartStep DEF LearningNext, Owner
<1>3. KeptInv => OwnersWordKept BY DEF KeptInv
<1> QED BY <1>1, <1>2, <1>3, PTL DEF LearningSpec

=============================================================================
