----------------------------- MODULE RulesSync -----------------------------
(***************************************************************************)
(* How the bridge's rule list follows the daemon's (cache/rules_sync.rs),   *)
(* on the Unix socket, where every stream has one connection key.           *)
(*                                                                         *)
(* A Subscribe's list is received under the cache lock, staged after an     *)
(* await, and adopted when a stream says HELLO or falls back to current:    *)
(* cloned from the staged entry, then two cache-lock sections, then         *)
(* published.  Answers to commands and adoptions exclude each other (the    *)
(* stream lock); prompt verdicts take the cache lock only, and come in      *)
(* between.  A staged entry's journal keeps the changes made to the list    *)
(* since, and is replayed when the entry is adopted again.                  *)
(*                                                                         *)
(* The daemon is rule/loader.go as mock_opensnitchd/src/loader.rs has it.   *)
(* Only a daemon whose newest Subscribe was adopted answers commands here.  *)
(***************************************************************************)
EXTENDS RulesCache

CONSTANTS
  StuckFileStays, \* whether deleteOldRuleFromDisk can fail (it only logs)
  MaxSubs,        \* bound: Subscribes
  MaxReadopts,    \* bound: adoptions of an entry adopted before
  MaxChanges      \* bound: commands answered and prompts remembered

ASSUME SyncAssumption ==
  StuckFileStays \in BOOLEAN /\ MaxSubs \in Nat /\ MaxReadopts \in Nat /\ MaxChanges \in Nat

VARIABLES
  cache, known,       \* the rules cache; whether it has a list
  seq,                \* snapshot_sequence: the Subscribe the list came from
  entry,              \* the staged entry, seq 0 for none
  receipts,           \* Subscribes received and not yet staged
  busy, clone,        \* the holder of the stream lock, and its copy of the entry
  shown,              \* the list as broadcast
  memory, files,      \* the daemon: its rules, and the rule file of each name
  linked,             \* whether its newest Subscribe was adopted
  unsure,             \* names the bridge cannot tell about (history)
  raced,              \* the first Subscribe after a name's last raced prompt (history)
  subs, readopts, changed

listVars   == <<cache, known, seq>>
daemonVars == <<memory, files, linked>>
vars == <<listVars, entry, receipts, busy, clone, shown, daemonVars, unsure, raced,
          subs, readopts, changed>>

NoEntry == [seq |-> 0, snapshot |-> NoRules, observed |-> 0, journal |-> NewJournal]
Always == {"on", "off"}

-----------------------------------------------------------------------------
(* opensnitchd *)

\* LoaderModel::delete: memory first, then an always rule's file, which may fail
DaemonDeletes(n, works) ==
  LET removed == memory[n] \in Always /\ works /\ files[n] # "absent"
  IN  [memory |-> [memory EXCEPT ![n] = "absent"],
       files  |-> IF removed THEN [files EXCEPT ![n] = "absent"] ELSE files,
       answer |-> IF memory[n] \in Always /\ ~removed THEN "error" ELSE "ok"]

\* LoaderModel::change: an always rule made temporary loses its file first (and, with
\* live reload, its place in memory if the new rule does not compile); an enabled rule
\* that does not compile is refused; a stored always rule is saved, which may fail.
DaemonChanges(n, v, works, compiles, reloads) ==
  LET loses == memory[n] \in Always /\ v = "temp" /\ (works \/ ~StuckFileStays)
      kept  == IF loses THEN [files EXCEPT ![n] = "absent"] ELSE files
  IN  IF v # "off" /\ ~compiles
      THEN [memory |-> IF kept # files /\ reloads THEN [memory EXCEPT ![n] = "absent"] ELSE memory,
            files  |-> kept,
            answer |-> "error"]
      ELSE [memory |-> [memory EXCEPT ![n] = v],
            files  |-> IF v \in Always /\ works THEN [files EXCEPT ![n] = v] ELSE kept,
            answer |-> IF v \in Always /\ ~works THEN "error" ELSE "ok"]

-----------------------------------------------------------------------------
(* Subscribe *)

\* RulesSync::receive, from a daemon that redialled or that started again from its files
Subscribe(restarts) ==
  /\ subs < MaxSubs /\ subs' = subs + 1
  /\ memory' = IF restarts THEN files ELSE memory
  /\ receipts' = receipts \cup {[seq |-> subs', snapshot |-> memory', observed |-> cache.revision]}
  /\ linked' = FALSE /\ unsure' = {}
  /\ UNCHANGED <<listVars, entry, busy, clone, shown, files, raced, readopts, changed>>

\* Mutant: kept by staging
StageLatest(r) ==
  /\ receipts' = receipts \ {r}
  /\ entry' = [seq |-> r.seq, snapshot |-> r.snapshot, observed |-> r.observed, journal |-> NewJournal]
  /\ UNCHANGED <<listVars, busy, clone, shown, daemonVars, unsure, raced, subs, readopts, changed>>

\* PendingSnapshots::stage_received, under the pending lock only
Stage(r) ==
  /\ receipts' = receipts \ {r}
  /\ entry' = IF entry.seq > r.seq THEN entry
              ELSE [seq |-> r.seq, snapshot |-> r.snapshot, observed |-> r.observed,
                    journal |-> NewJournal]
  /\ UNCHANGED <<listVars, busy, clone, shown, daemonVars, unsure, raced, subs, readopts, changed>>

\* PENDING_SNAPSHOT_TTL passes: longer than an older Subscribe can wait for account names
EntryExpires ==
  /\ entry # NoEntry /\ \A r \in receipts : r.seq > entry.seq
  /\ entry' = NoEntry
  /\ UNCHANGED <<listVars, receipts, busy, clone, shown, daemonVars, unsure, raced,
                 subs, readopts, changed>>

-----------------------------------------------------------------------------
(* HELLO and the end of a stream, with the stream lock held *)

\* commit for a stream that has not adopted the entry yet, readopt for one that has and
\* falls back to current: the entry is copied under the pending lock.  A journal that
\* overflowed is not replayed: a HELLO adopts the bare list.
AdoptBegins ==
  /\ busy = "no" /\ entry # NoEntry
  /\ readopts' = IF entry.seq = seq THEN readopts + 1 ELSE readopts
  /\ readopts' <= MaxReadopts
  /\ clone' = entry /\ busy' = "sequence"
  /\ UNCHANGED <<listVars, entry, receipts, shown, daemonVars, unsure, raced, subs, changed>>

\* adopt: set_snapshot_sequence, in a cache lock section of its own
AdoptSequence ==
  /\ busy = "sequence" /\ busy' = "replace"
  /\ seq' = clone.seq
  /\ UNCHANGED <<cache, known, entry, receipts, clone, shown, daemonVars, unsure, raced,
                 subs, readopts, changed>>

\* The copied entry adopted over the cache c
AdoptedFrom(c, e) ==
  LET bare == ReplaceAll(c, e.snapshot, e.observed)
  IN  IF e.journal.overflowed THEN bare ELSE Replay(bare, e.journal.changes)

\* adopt: replace_all_at_revision and the replay
AdoptReplace ==
  /\ busy = "replace" /\ busy' = "publish"
  /\ cache' = AdoptedFrom(cache, clone) /\ known' = TRUE
  /\ linked' = (clone.seq = subs)
  /\ unsure' = IF clone.journal.overflowed THEN Names ELSE unsure
  /\ clone' = NoEntry
  /\ UNCHANGED <<seq, entry, receipts, shown, memory, files, raced, subs, readopts, changed>>

\* publish_rules, at the end of an adoption or of a command
Publish ==
  /\ busy = "publish" /\ busy' = "no"
  /\ shown' = cache.list
  /\ UNCHANGED <<listVars, entry, receipts, clone, daemonVars, unsure, raced, subs, readopts, changed>>

\* withdraw: the stream of the list closed and no other holds it
Withdraw ==
  /\ busy = "no" /\ known
  /\ cache' = Forget(cache, known) /\ known' = FALSE
  /\ shown' = NoRules
  /\ linked' = FALSE
  /\ UNCHANGED <<seq, entry, receipts, busy, clone, memory, files, unsure, raced,
                 subs, readopts, changed>>

-----------------------------------------------------------------------------
(* Changes *)

\* RulesSync::record: into the entry of the list, if it is still staged
Recorded(change) ==
  IF known /\ entry.seq = seq
  THEN [seq |-> entry.seq, snapshot |-> entry.snapshot, observed |-> entry.observed,
        journal |-> Record(entry.journal, change)]
  ELSE entry

\* A command is answered (DaemonCommands::on_reply): the daemon did d about name n, and
\* apply_confirmed or apply_refused takes the answer
Answered(d, sent, open) ==
  /\ busy = "no" /\ linked
  /\ changed < MaxChanges /\ changed' = changed + 1
  /\ memory' = d.memory /\ files' = d.files
  /\ LET change == [how |-> d.answer, sent |-> sent]
     IN  cache' = Apply(cache, known, change) /\ entry' = Recorded(change)
  /\ busy' = IF d.answer = "ok" \/ cache' # cache THEN "publish" ELSE "no"
  /\ unsure' = IF open THEN unsure \cup {sent.name} ELSE unsure \ {sent.name}
  /\ raced' = IF open THEN raced ELSE [raced EXCEPT ![sent.name] = 0]
  /\ UNCHANGED <<known, seq, receipts, clone, shown, linked, subs, readopts>>

Delete(n) ==
  \E works \in BOOLEAN :
    Answered(DaemonDeletes(n, works), [type |-> "delete", name |-> n, value |-> "absent"], FALSE)

Change(n, v) ==
  \E works, compiles, reloads \in BOOLEAN :
    LET d == DaemonChanges(n, v, works, compiles, reloads)
    IN  Answered(d, [type |-> "change", name |-> n, value |-> v], d.answer = "error" /\ v # "off")

\* A remembered prompt verdict (upsert), at any time.  The daemon stores the rule of the
\* reply, under another name when this one is in memory (setUniqueName), and tells
\* nothing.  One that comes while a list is on its way is not in that list.
Prompt(n, v) ==
  /\ changed < MaxChanges /\ changed' = changed + 1
  /\ LET taken  == memory[n] # "absent"
         change == [how |-> "prompt", sent |-> [type |-> "change", name |-> n, value |-> v]]
     IN  /\ \E works \in BOOLEAN :
              LET d == DaemonChanges(n, v, works, TRUE, FALSE)
              IN  /\ memory' = IF taken THEN memory ELSE d.memory
                  /\ files' = IF taken THEN files ELSE d.files
         /\ cache' = Apply(cache, known, change) /\ entry' = Recorded(change)
         /\ unsure' = IF taken THEN unsure \cup {n} ELSE unsure \ {n}
  /\ shown' = IF known THEN [shown EXCEPT ![n] = v] ELSE shown
  /\ raced' = [raced EXCEPT ![n] = IF linked /\ busy \in {"no", "publish"} THEN 0 ELSE subs + 1]
  /\ UNCHANGED <<known, seq, receipts, busy, clone, linked, subs, readopts>>

-----------------------------------------------------------------------------
\* The bridge starts with no list; every always rule of the daemon has its file
Init ==
  /\ cache = EmptyCache /\ known = FALSE /\ seq = 0
  /\ entry = NoEntry /\ receipts = {} /\ busy = "no" /\ clone = NoEntry /\ shown = NoRules
  /\ memory \in Lists /\ files = [n \in Names |-> IF memory[n] \in Always THEN memory[n] ELSE "absent"]
  /\ linked = FALSE /\ unsure = {} /\ raced = [n \in Names |-> 0]
  /\ subs = 0 /\ readopts = 0 /\ changed = 0

Next ==
  \/ \E restarts \in BOOLEAN : Subscribe(restarts)
  \/ \E r \in receipts : Stage(r)
  \/ EntryExpires \/ AdoptBegins \/ AdoptSequence \/ AdoptReplace \/ Publish \/ Withdraw
  \/ \E n \in Names :
       \/ Delete(n)
       \/ \E v \in {"on", "off", "temp"} : Change(n, v)
       \/ \E v \in {"on", "temp"} : Prompt(n, v)

Spec == Init /\ [][Next]_vars

-----------------------------------------------------------------------------
(* Properties *)

\* Every variable has its type, and no journal is longer than MAX_JOURNAL.
Entries ==
  {e \in [seq : 0..MaxSubs, snapshot : Lists, observed : Nat,
          journal : [changes : Seq(Changes), overflowed : BOOLEAN]] :
     Len(e.journal.changes) <= MaxJournal}
TypeOK ==
  /\ cache \in Caches /\ known \in BOOLEAN /\ seq \in 0..MaxSubs
  /\ entry \in Entries /\ clone \in Entries
  /\ \A r \in receipts : r \in [seq : 1..MaxSubs, snapshot : Lists, observed : Nat]
  /\ busy \in {"no", "sequence", "replace", "publish"} /\ shown \in Lists
  /\ memory \in Lists /\ files \in Lists /\ linked \in BOOLEAN
  /\ unsure \subseteq Names /\ raced \in [Names -> Nat]
  /\ subs \in 0..MaxSubs /\ readopts \in 0..MaxReadopts /\ changed \in 0..MaxChanges

\* Names with a prompt verdict the list was adopted without
Raced == {n \in Names : raced[n] > seq}

\* With the daemon's newest Subscribe adopted, the list is what the daemon uses, whatever
\* was changed, refused, withdrawn and adopted again; except for a name whose last change
\* was a refused enabled rule or a prompt verdict under a name it had (rules_refused.rs:15-17),
\* and a prompt verdict that came while the list was being adopted.
ListIsTheDaemons ==
  (linked /\ busy \in {"no", "publish"}) => \A n \in Names \ (unsure \cup Raced) : cache.list[n] = memory[n]

\* A file that would bring a deleted rule back at the daemon's next start is marked
\* (rules_refused.rs:85-97): what the replies cannot tell makes the marker over-warn,
\* it does not under-warn.
LeftoverIsMarked ==
  \A n \in Names :
    (files[n] # "absent" /\ memory[n] = "absent" /\ cache.list[n] = "absent" /\ linked) => n \in cache.left

\* A marker goes only when a list shows the name, the daemon has it as an always rule
\* again (so that deleting it deals with the file), or the file is gone.
MarkerGoesForAReason ==
  \A n \in cache.left \ cache'.left :
    \/ busy = "replace" /\ clone.snapshot[n] # "absent"
    \/ memory'[n] \in Always
    \/ files'[n] = "absent"

\* GUIs have the list: every broadcast is sent with the cache lock held, so a prompt's
\* row, a list and a withdrawal cannot overtake each other (rules_sync.rs:223-226).
GuiListIsTheList == busy = "no" => shown = cache.list

\* "Snapshots of one key are kept by Subscribe arrival, not by staging" (rules_sync.rs:93):
\* the list never goes back to one sent before it.
ListsInOrder == seq' >= seq

\* No step goes back: neither to an older list nor over a marker that still says something.
NothingTakenBack == [][ListsInOrder /\ MarkerGoesForAReason]_vars

\* What adopting the list's entry again would give
Again == AdoptedFrom(cache, entry)
CanBeAdoptedAgain == busy = "no" /\ known /\ entry # NoEntry /\ entry.seq = seq /\ ~entry.journal.overflowed

\* "Adopting a snapshot again replaces the list with it and then replays its journal:
\* what changed the list since it was first adopted" (rules_sync.rs:85-87).  Apart from
\* verdicts that raced an adoption, the list comes out as it is.
ListAdoptedAgain == CanBeAdoptedAgain => \A n \in Names \ Raced : Again.list[n] = cache.list[n]

\* GUIs have the daemon's list: what they were sent is the cache's, that is the daemon's, and
\* a stream that takes it over again makes no other list of it.
GuisHaveTheDaemons == GuiListIsTheList /\ ListIsTheDaemons /\ ListAdoptedAgain

\* The same of every name (rules.rs:146-148: "The changes made to the list while it held
\* a staged snapshot, in order, replayed when another stream adopts the same snapshot").
NoChangeIsLost == CanBeAdoptedAgain => Again.list = cache.list

=============================================================================
