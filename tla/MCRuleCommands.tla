--------------------------- MODULE MCRuleCommands ---------------------------
(* Small instances of RuleCommands for TLC. *)
EXTENDS RuleCommands
CONSTANTS ruleA, ruleB, ruleC
ThreeRules == {ruleA, ruleB, ruleC}
LastIsCurated == {ruleC}
OneFile == {[n \in {ruleA, ruleC} |-> [always |-> TRUE, on |-> n = ruleA, body |-> "x"]]}
=============================================================================
