----------------------------- MODULE AtomicFile -----------------------------
(***************************************************************************)
(* What a state file promises (the docs of bridge state_file.rs): a save    *)
(* replaces the content as a whole, after all saves before it; a crash may  *)
(* undo saves, the newest first, but none whose writer was told Ok or one   *)
(* that such a save came after.                                             *)
(***************************************************************************)
EXTENDS Naturals

VARIABLES
  saved,     \* saves in effect
  safe       \* those of them that no crash undoes

AtomicInit == saved = 0 /\ safe = 0

Replace == saved' = saved + 1 /\ UNCHANGED safe

Acknowledge == safe' \in safe..saved /\ UNCHANGED saved

Undo == saved' \in safe..saved /\ UNCHANGED safe

AtomicNext == Replace \/ Acknowledge \/ Undo

AtomicSpec == AtomicInit /\ [][AtomicNext]_<<saved, safe>>
=============================================================================
