---------------------------- MODULE MCRulesSync ----------------------------
(* Small instances of RulesSync for TLC. *)
EXTENDS RulesSync
CONSTANT r1
OneName == {r1}
=============================================================================
