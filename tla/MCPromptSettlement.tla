------------------------- MODULE MCPromptSettlement -------------------------
(* Small instances of PromptSettlement for TLC. *)
EXTENDS PromptSettlement, TLC

CONSTANTS a1, a2, e1

OneAsk  == {a1}
TwoAsks == {a1, a2}
NoEvents == {}
OneEvent == {e1}
\* Whether rules can name the programs that ask
AllBindable  == Asks
NoneBindable == {}
\* With all of them alike
Symmetry == Permutations(TwoAsks)

=============================================================================
