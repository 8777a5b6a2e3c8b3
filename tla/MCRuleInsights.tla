--------------------------- MODULE MCRuleInsights ---------------------------
(* Small instances of RuleInsights for TLC. *)
EXTENDS RuleInsights

\* z stands for the long s, which folds with s and is its own lowercase
SomeTexts == {"a", "A", "s", "z"}
SomeFold  == [t \in SomeTexts |-> CASE t \in {"a", "A"} -> "a" [] OTHER -> "s"]
SomeLower == [t \in SomeTexts |-> IF t = "A" THEN "a" ELSE t]
PlainOnes == {"a", "A"}

Bit(x) == <<x>>
Net(addr, prefix) == [addr |-> addr, prefix |-> prefix]
Condition(kind, operand, data, sensitive) ==
  [kind |-> kind, operand |-> operand, data |-> data, sensitive |-> sensitive,
   compiles |-> TRUE, literal |-> TRUE]

SomeLeaves == {"true", "lists", "a", "Ai", "si", "re", "rei", "bad", "ip", "src", "half", "all", "alias"}
SomeLeaf ==
  [l \in SomeLeaves |->
     CASE l = "true"  -> Condition("true", "true", "", FALSE)
       [] l = "lists" -> Condition("lists", "path", "", FALSE)
       [] l = "a"     -> Condition("simple", "path", "a", TRUE)
       [] l = "Ai"    -> Condition("simple", "path", "A", FALSE)
       [] l = "si"    -> Condition("simple", "path", "s", FALSE)
       [] l = "re"    -> Condition("regexp", "path", {"a", "s"}, TRUE)
       [] l = "rei"   -> Condition("regexp", "path", {"A", "s"}, FALSE)
       [] l = "bad"   -> [Condition("regexp", "path", {"a"}, FALSE) EXCEPT !.compiles = FALSE]
       [] l = "ip"    -> Condition("simple", "destIp", Bit(1), TRUE)
       [] l = "src"   -> Condition("simple", "sourceIp", Bit(1), TRUE)
       [] l = "half"  -> Condition("network", "destNet", {Net(Bit(1), 1)}, FALSE)
       [] l = "all"   -> Condition("network", "destNet", {Net(Bit(0), 0)}, FALSE)
       [] l = "alias" -> [Condition("network", "destNet", {Net(Bit(0), 1)}, FALSE)
                            EXCEPT !.literal = FALSE]]

OfKind(action, precedence, conds) ==
  [on |-> TRUE, action |-> action, precedence |-> precedence, always |-> TRUE, profile |-> FALSE,
   managed |-> FALSE, conds |-> conds]

Actions == {"allow", "deny"}
OneCondition == {{l} : l \in SomeLeaves \ {"src"}} \cup {{}, {"a", "src"}, {"lists", "rei"}}

\* No rule, pairs of rules of every kind of condition, and three that stop, allow or are off
Pairs == {<<OfKind(x, FALSE, p), OfKind(y, FALSE, q)>> : x, y \in Actions, p, q \in OneCondition}
Few == {OfKind("deny", FALSE, {"a"}), OfKind("allow", FALSE, {"Ai"}),
        [OfKind("deny", FALSE, {"true"}) EXCEPT !.on = FALSE],
        [OfKind("deny", FALSE, {"true"}) EXCEPT !.always = FALSE],
        [OfKind("allow", TRUE, {"true"}) EXCEPT !.profile = TRUE],
        [OfKind("allow", FALSE, {"a"}) EXCEPT !.managed = TRUE],
        OfKind("allow", TRUE, {"Ai"}), OfKind("other", FALSE, {"a"})}
Triples == {<<x, y, z>> : x, y, z \in Few}
AllLists == {<<>>} \cup Pairs \cup Triples
TwoLists == {<<OfKind("allow", FALSE, {"a"}), OfKind("deny", FALSE, {"Ai"})>>,
             <<OfKind("allow", FALSE, {"a"}), OfKind("allow", FALSE, {"ip"})>>}
=============================================================================
