----------------------------- MODULE DaemonLink -----------------------------
(***************************************************************************)
(* The daemon as the rule makers of the bridge see it: the rules in its     *)
(* memory, the bridge's list of them, and the commands sent on the current  *)
(* stream that it has not carried out yet.                                  *)
(*                                                                         *)
(* It rests on two facts that RulesSync and DaemonStreams check: an adopted *)
(* list is the daemon's, and an answer reaches the waiter of its own        *)
(* command.  A stream delivers in order.  An answer that comes after the    *)
(* waiter's timeout changes the list only (LATE_REPLY_GRACE, and not even   *)
(* that after it).                                                          *)
(***************************************************************************)
EXTENDS Naturals, Sequences
LOCAL INSTANCE SequencesExt

VARIABLES
  mem,     \* the daemon's rules, by name
  list,    \* the bridge's list of them, by name
  link,    \* "down", "unlisted" (connected, with no list adopted) or "listed"
  wire     \* commands sent and not carried out: [op, name, rule]

NoList == <<>>

\* f with n set to v, and without n
With(f, n, v) == [x \in DOMAIN f \cup {n} |-> IF x = n THEN v ELSE f[x]]
Without(f, n) == [x \in DOMAIN f \ {n} |-> f[x]]

Change(name, rule) == [op |-> "change", name |-> name, rule |-> rule]
Delete(name) == [op |-> "delete", name |-> name, rule |-> "none"]

\* RulesSync::apply_confirmed on the list, and what the daemon does to its own rules
Carried(f, c) == IF c.op = "change" THEN With(f, c.name, c.rule) ELSE Without(f, c.name)

\* The daemon carries the command out and answers OK.  heard: the bridge still takes
\* the answer (always, if someone waits).
AnswersOk(heard) ==
  /\ mem' = Carried(mem, Head(wire))
  /\ list' = IF heard /\ link = "listed" THEN Carried(list, Head(wire)) ELSE list
  /\ wire' = Tail(wire) /\ UNCHANGED link

\* The daemon answers ERROR: a change it took into memory before saving it failed, or one
\* it did not take; a delete always left memory, and apply_refused drops its row.
AnswersError(heard, taken) ==
  LET c == Head(wire)
  IN  /\ c.op = "delete" => taken
      /\ mem' = IF taken THEN Carried(mem, c) ELSE mem
      /\ list' = IF c.op = "delete" /\ heard /\ link = "listed" THEN Carried(list, c) ELSE list
      /\ wire' = Tail(wire) /\ UNCHANGED link

\* The stream closes, with some of what was sent on it carried out
StreamCloses(done) ==
  /\ link # "down" /\ link' = "down"
  /\ done \in 0..Len(wire)
  /\ mem' = FoldLeft(Carried, mem, SubSeq(wire, 1, done))
  /\ wire' = <<>> /\ list' = NoList

\* A stream says HELLO, and its Subscribe's list is adopted, or was too long to keep
StreamOpens(listed) ==
  /\ link = "down" /\ wire = <<>>
  /\ link' = IF listed THEN "listed" ELSE "unlisted"
  /\ list' = IF listed THEN mem ELSE NoList
  /\ UNCHANGED <<mem, wire>>

\* send: queued on the current stream (a full queue is NotQueued: the caller's choice)
Sends(c) ==
  /\ link # "down"
  /\ wire' = Append(wire, c)
  /\ UNCHANGED <<mem, list, link>>
=============================================================================
