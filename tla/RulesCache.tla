----------------------------- MODULE RulesCache -----------------------------
(***************************************************************************)
(* The daemon's rule list as the bridge caches it (cache/rules.rs,          *)
(* cache/rules_refused.rs): what one daemon answer, one prompt verdict and  *)
(* one snapshot do to it.  Operators only; RulesSync.tla runs them.          *)
(*                                                                         *)
(* A cache is a record:                                                     *)
(*   list      what each name is listed as, all "absent" while Unknown       *)
(*   left      names whose rule is gone and whose file may remain            *)
(*   heldAgain the ones of them the daemon took back as an always rule      *)
(*   leftRev   the revision of each name's last refused delete               *)
(*   revision  bumped by every change                                       *)
(* Whether there is a list at all is kept by the caller: "known" below.     *)
(* Rule timers and the rules a snapshot leaves out are not modelled here.   *)
(***************************************************************************)
EXTENDS Integers, Sequences, FiniteSets

CONSTANTS
  Names,          \* rule names
  MaxFilesLeft,   \* MAX_FILES_LEFT
  MaxJournal      \* MAX_JOURNAL

ASSUME RulesAssumption == MaxFilesLeft \in Nat /\ MaxJournal \in Nat

\* An always rule turned on or off, a temporary one turned on
Values == {"absent", "on", "off", "temp"}
Lists == [Names -> Values]
NoRules == [n \in Names |-> "absent"]
Caches == [list : Lists, left : SUBSET Names, heldAgain : SUBSET Names,
           leftRev : [Names -> Nat], revision : Nat]
EmptyCache == [list |-> NoRules, left |-> {}, heldAgain |-> {},
               leftRev |-> [n \in Names |-> 0], revision |-> 0]

\* The list changed, one revision on
Relisted(c, list) ==
  [list |-> list, left |-> c.left, heldAgain |-> c.heldAgain, leftRev |-> c.leftRev,
   revision |-> c.revision + 1]

\* upsert_at
Put(c, n, v) == Relisted(c, [c.list EXCEPT ![n] = v])

\* remove
Remove(c, n) == IF c.list[n] = "absent" THEN c ELSE Put(c, n, "absent")

\* forget_file_left
ForgetFileLeft(c, n) ==
  [c EXCEPT !.heldAgain = @ \ {n}, !.left = @ \ {n}, !.revision = IF n \in c.left THEN @ + 1 ELSE @]

\* forget_file_left_if_held
ForgetFileLeftIfHeld(c, n) == IF n \in c.heldAgain THEN ForgetFileLeft(c, n) ELSE c

\* mark_file_left
MarkFileLeft(c, n) ==
  IF n \notin c.left /\ Cardinality(c.left) >= MaxFilesLeft
  THEN c
  ELSE [c EXCEPT !.revision = @ + 1, !.heldAgain = @ \ {n}, !.left = @ \cup {n},
                 !.leftRev[n] = c.revision + 1]

\* apply_confirmed_at: the daemon answered OK
ApplyConfirmed(c, known, sent) ==
  IF sent.type = "delete"
  THEN ForgetFileLeftIfHeld(IF known THEN Remove(c, sent.name) ELSE c, sent.name)
  ELSE LET saved == IF sent.value = "temp" THEN [c EXCEPT !.heldAgain = @ \ {sent.name}]
                                           ELSE ForgetFileLeft(c, sent.name)
       IN  IF known THEN Put(saved, sent.name, sent.value) ELSE saved

\* Mutant: a refused change of a disabled rule is taken not to apply
ApplyRefusedDeletes(c, known, sent) ==
  IF sent.type = "delete"
  THEN MarkFileLeft(IF known THEN Remove(c, sent.name) ELSE c, sent.name) ELSE c

\* apply_refused_at: the daemon answered ERROR.  A refused delete dropped the rule from
\* memory and may have left its file; a refused change of a disabled always rule
\* applies unsaved; of any other change nothing is known.
ApplyRefused(c, known, sent) ==
  IF sent.type = "delete"
  THEN MarkFileLeft(IF known THEN Remove(c, sent.name) ELSE c, sent.name)
  ELSE IF sent.value = "off"
       THEN LET noted == [c EXCEPT !.heldAgain = @ \cup ({sent.name} \cap c.left)]
            IN  IF known THEN Put(noted, sent.name, "off") ELSE noted
       ELSE c

\* What a journal keeps: an answer, or a remembered prompt verdict
Apply(c, known, change) ==
  IF change.how = "ok" THEN ApplyConfirmed(c, known, change.sent)
  ELSE IF change.how = "error" THEN ApplyRefused(c, known, change.sent)
       ELSE IF known THEN Put(c, change.sent.name, change.sent.value) ELSE c

Commands == [type : {"change"}, name : Names, value : {"on", "off", "temp"}]
            \cup [type : {"delete"}, name : Names, value : {"absent"}]
Changes == [how : {"ok", "error"}, sent : Commands]
           \cup [how : {"prompt"}, sent : [type : {"change"}, name : Names, value : {"on", "temp"}]]

\* replace_all_at_revision.  Only a list received after the refusal shows that the
\* daemon loaded the file again.
ReplaceAll(c, snapshot, observed) ==
  LET back == {n \in c.left : snapshot[n] # "absent" /\ c.leftRev[n] <= observed}
  IN  [c EXCEPT !.list = snapshot, !.left = @ \ back, !.heldAgain = @ \ back,
                !.revision = @ + Cardinality(back) + 1]

\* set_unknown
Forget(c, known) == IF known THEN Relisted(c, NoRules) ELSE c

\* The cache after each of the changes
Replayed(c, changes) ==
  LET after[k \in 0..Len(changes)] == IF k = 0 THEN c ELSE Apply(after[k - 1], TRUE, changes[k])
  IN  after

\* Mutant: the newest change is not replayed
ReplayButLast(c, changes) == Replayed(c, changes)[IF changes = <<>> THEN 0 ELSE Len(changes) - 1]

\* Journal::replay
Replay(c, changes) == Replayed(c, changes)[Len(changes)]

\* A journal is its changes and whether some were not kept
NewJournal == [changes |-> <<>>, overflowed |-> FALSE]

\* Journal::record
Record(j, change) ==
  IF Len(j.changes) >= MaxJournal THEN [j EXCEPT !.overflowed = TRUE]
  ELSE IF j.overflowed THEN j ELSE [j EXCEPT !.changes = Append(@, change)]

=============================================================================
