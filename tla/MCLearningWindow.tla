-------------------------- MODULE MCLearningWindow --------------------------
(* Small instances of LearningWindow for TLC. *)
EXTENDS LearningWindow

\* No file; one left in the middle of a window, longer than one may be
SomeFiles == {[mode |-> "unset", window |-> NoWindow],
              [mode |-> "allow", window |-> Span(0, 9, 9, 0, "deny")]}

\* No file yet
NoFiles == {[mode |-> "unset", window |-> NoWindow]}
=============================================================================
