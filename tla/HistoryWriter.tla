--------------------------- MODULE HistoryWriter ---------------------------
(***************************************************************************)
(* The connection history's writer (bridge history/writer.rs): capture paths *)
(* push into a queue bounded by bytes and count and never wait; one thread  *)
(* pops a batch, makes room by evicting the oldest events, and inserts it.  *)
(* A row takes one page: what the disk bound says in pages of a real file   *)
(* is HistoryBudget's.                                                      *)
(***************************************************************************)
EXTENDS Naturals, Sequences, FiniteSets

CONSTANTS
  QueueMaxBytes, QueueMaxCount, RowsPerTxn, VacuumSteps, EvictionRounds,
  MaxPages, HighWater,     \* Budget::max_page_count and high_water_pages, in rows
  Stamps, Hashes, Sizes,   \* an event's time, its rule's hash, what it counts for in bytes
  StartEvents,             \* what an earlier run left in the file, with this budget or a larger one
  MaxPushes, MaxHistoryFaults  \* bounds

ASSUME HistoryAssumption ==
  /\ {QueueMaxBytes, QueueMaxCount, RowsPerTxn, VacuumSteps, EvictionRounds, MaxPages, HighWater} \subseteq Nat
  /\ RowsPerTxn > 0 /\ VacuumSteps > 0 /\ HighWater <= MaxPages
  /\ Stamps \subseteq Nat /\ Sizes \subseteq Nat
  /\ \A started \in StartEvents :
       /\ IsFiniteSet(started) /\ \A e \in started : e.id \in Nat /\ e.ts \in Nat
       /\ \A e, f \in started : e.id = f.id => e = f

VARIABLES
  items, bytes, closed,    \* Inner
  dropped, lost,           \* Queue::dropped, Writer::lost_events
  writer,                  \* where the thread is
  batch, rounds,           \* what it popped, and the eviction rounds it did for it
  events, snapshotted, free,      \* the tables, and the pages on the freelist
  pushes, written, swallowed,  \* history: events offered, committed, in the hand of a panic
  historyFaults

historyVars == <<items, bytes, closed, dropped, lost, writer, batch, rounds, events, snapshotted, free,
                 pushes, written, swallowed, historyFaults>>
queueVars == <<items, bytes, closed, dropped, pushes>>
tableVars == <<events, snapshotted, free>>
historyCountVars == <<lost, written, swallowed>>

\* What the first items of a sequence count for, and what all of them do
Running(s) == LET upto[i \in 0..Len(s)] == IF i = 0 THEN 0 ELSE upto[i - 1] + s[i].size IN upto
SumOf(s) == Running(s)[Len(s)]
UsedPages == Cardinality(events) + Cardinality(snapshotted)
HistoryFault == historyFaults < MaxHistoryFaults /\ historyFaults' = historyFaults + 1

-----------------------------------------------------------------------------
(* Producers *)

Fits(item) == ~closed /\ Len(items) < QueueMaxCount /\ bytes + item.size <= QueueMaxBytes

\* try_push; a lock another thread holds refuses it too
TryPush(item) ==
  /\ pushes < MaxPushes /\ pushes' = pushes + 1
  /\ \/ /\ Fits(item)
        /\ items' = Append(items, item) /\ bytes' = bytes + item.size
        /\ UNCHANGED dropped
     \/ dropped' = dropped + 1 /\ UNCHANGED <<items, bytes>>
  /\ UNCHANGED <<closed, writer, batch, rounds, tableVars, historyCountVars, historyFaults>>

\* shutdown, and Writer's Drop: close, then join
CloseQueue ==
  /\ ~closed /\ closed' = TRUE
  /\ UNCHANGED <<items, bytes, dropped, pushes, writer, batch, rounds, tableVars, historyCountVars, historyFaults>>

-----------------------------------------------------------------------------
(* The thread *)

\* is_closed_and_empty
Finished == closed /\ items = <<>>

WriterEnds ==
  /\ writer = "loop" /\ Finished
  /\ writer' = "ended"
  /\ UNCHANGED <<queueVars, batch, rounds, tableVars, historyCountVars, historyFaults>>

\* Mutant: the whole queue at once
TakesAll == Len(items)

Takes == IF Len(items) < RowsPerTxn THEN Len(items) ELSE RowsPerTxn

\* pop_batch: an empty one, after the wait, goes round again
PopBatch ==
  LET popped == SubSeq(items, 1, Takes)
      freed == SumOf(popped)
  IN  /\ writer = "loop" /\ ~Finished /\ items # <<>>
      /\ items' = SubSeq(items, Takes + 1, Len(items))
      /\ bytes' = IF freed > bytes THEN 0 ELSE bytes - freed
      /\ batch' = popped /\ rounds' = 0 /\ writer' = "room"
      /\ UNCHANGED <<closed, dropped, pushes, tableVars, historyCountVars, historyFaults>>

\* Mutant: a lost batch is not counted
WriteFailsSilently ==
  /\ batch' = <<>> /\ writer' = "loop"
  /\ UNCHANGED <<queueVars, rounds, tableVars, lost, written, swallowed>>

\* A failed write loses the batch, counts it, and goes on
WriteFails ==
  /\ lost' = lost + Len(batch) /\ batch' = <<>> /\ writer' = "loop"
  /\ UNCHANGED <<queueVars, rounds, tableVars, written, swallowed>>

Before(e, f) == e.ts < f.ts \/ (e.ts = f.ts /\ e.id < f.id)
\* Mutant: in the order of insertion
OldestById(n) == {e \in events : Cardinality({f \in events : f.id < e.id}) < n}

Oldest(n) == {e \in events : Cardinality({f \in events : Before(f, e)}) < n}

\* evict_chunk: the oldest events, and the snapshots that no other event refers to
EvictChunk ==
  LET gone == Oldest(RowsPerTxn)
      rest == events \ gone
      orphans == {h \in snapshotted : (\E e \in gone : e.hash = h) /\ ~\E e \in rest : e.hash = h}
  IN  /\ events' = rest /\ snapshotted' = snapshotted \ orphans
      /\ free' = free + Cardinality(gone) + Cardinality(orphans)

\* make_room: one round
MakeRoom ==
  /\ writer = "room" /\ UsedPages > HighWater
  /\ rounds < EvictionRounds /\ events # {}
  /\ EvictChunk
  /\ rounds' = rounds + 1 /\ writer' = "vacuum"
  /\ UNCHANGED <<queueVars, batch, historyCountVars, historyFaults>>

\* vacuum_all, a chunk at a time, until no page is free
VacuumChunk ==
  /\ writer = "vacuum"
  /\ free' = IF free > VacuumSteps THEN free - VacuumSteps ELSE 0
  /\ writer' = IF free' = 0 THEN "room" ELSE "vacuum"
  /\ UNCHANGED <<queueVars, batch, rounds, events, snapshotted, historyCountVars, historyFaults>>

\* No room after all the rounds, or nothing left to evict
NoRoom ==
  /\ writer = "room" /\ UsedPages > HighWater
  /\ rounds = EvictionRounds \/ events = {}
  /\ WriteFails /\ UNCHANGED historyFaults

NextId == IF events = {} THEN 1 ELSE 1 + CHOOSE n \in {e.id : e \in events} : \A e \in events : e.id <= n

\* PRAGMA max_page_count
WithinPages(pages) == pages <= MaxPages

\* insert_batch: one transaction, which the page cap refuses as a whole
InsertBatch ==
  LET new == {[id |-> NextId + i - 1, ts |-> batch[i].ts, hash |-> batch[i].hash] : i \in DOMAIN batch}
      all == events \cup new
      hashes == snapshotted \cup {e.hash : e \in new}
      grown == Cardinality(all) + Cardinality(hashes)
  IN  /\ writer = "room" /\ UsedPages <= HighWater
      /\ \/ /\ WithinPages(grown)
            /\ events' = all /\ snapshotted' = hashes
            /\ free' = IF grown > UsedPages + free THEN 0 ELSE UsedPages + free - grown
            /\ written' = written + Len(batch) /\ batch' = <<>> /\ writer' = "loop"
            /\ UNCHANGED <<queueVars, rounds, lost, swallowed>>
         \/ ~WithinPages(grown) /\ WriteFails
      /\ UNCHANGED historyFaults

\* An I/O error in any of the transactions: it rolls back, the ones before it stay
WriteError == writer \in {"room", "vacuum"} /\ HistoryFault /\ WriteFails

\* A panic: CloseOnExit closes the queue on the way out
WriterPanics ==
  /\ writer \in {"room", "vacuum"} /\ HistoryFault
  /\ writer' = "unwinding"
  /\ swallowed' = swallowed + Len(batch) /\ batch' = <<>>
  /\ UNCHANGED <<queueVars, rounds, tableVars, lost, written>>

CloseOnExit ==
  /\ writer = "unwinding" /\ writer' = "panicked" /\ closed' = TRUE
  /\ UNCHANGED <<items, bytes, dropped, pushes, batch, rounds, tableVars, historyCountVars, historyFaults>>

WriterSteps == WriterEnds \/ PopBatch \/ MakeRoom \/ VacuumChunk \/ NoRoom \/ InsertBatch \/ CloseOnExit

-----------------------------------------------------------------------------
\* Engine::new refuses a file that is over its cap already
HistoryInit ==
  /\ items = <<>> /\ bytes = 0 /\ closed = FALSE /\ dropped = 0 /\ lost = 0
  /\ writer = "loop" /\ batch = <<>> /\ rounds = 0
  /\ events \in StartEvents /\ snapshotted = {e.hash : e \in events} /\ free = 0
  /\ UsedPages <= MaxPages
  /\ pushes = 0 /\ written = 0 /\ swallowed = 0 /\ historyFaults = 0

HistoryNext ==
  \/ \E ts \in Stamps, h \in Hashes, size \in Sizes : TryPush([ts |-> ts, hash |-> h, size |-> size])
  \/ CloseQueue \/ WriterSteps \/ WriteError \/ WriterPanics

HistorySpec == HistoryInit /\ [][HistoryNext]_historyVars

-----------------------------------------------------------------------------
(* Properties *)

\* Values are of their types, and a batch fits one transaction.
HistoryTypeOK ==
  /\ bytes \in Nat /\ closed \in BOOLEAN /\ {dropped, lost, rounds, free, pushes, written, swallowed} \subseteq Nat
  /\ writer \in {"loop", "room", "vacuum", "ended", "unwinding", "panicked"}
  /\ Len(batch) <= RowsPerTxn

\* The queue stays within both of its bounds, and the bytes it counts are those of its
\* items (writer.rs: try_push adds what pop_batch takes off).
QueueBounded == Len(items) <= QueueMaxCount /\ bytes <= QueueMaxBytes /\ bytes = SumOf(items)

\* No event vanishes: each one offered was dropped and counted, is queued or in the hand
\* of the writer, was committed, or was lost and counted; only a panic swallows its batch.
EveryEventIsAccounted ==
  pushes = dropped + Len(items) + Len(batch) + written + lost + swallowed

\* "Stop accepting items, write what is queued, and join the thread" (shutdown): a thread
\* that ended by itself left nothing queued, and no thread ends with the queue open.
NothingQueuedForNobody ==
  /\ writer = "ended" => items = <<>> /\ batch = <<>>
  /\ writer \in {"ended", "panicked"} => closed

\* The main file never outgrows its cap, the pages on the freelist included.
FileWithinCap == UsedPages + free <= MaxPages

\* A snapshot stays exactly as long as an event refers to it, whatever was evicted.
SnapshotsOfEvents == snapshotted = {e.hash : e \in events}

\* The history loses nothing silently and outgrows nothing: queue, thread and file together.
HistoryIsAccounted ==
  QueueBounded /\ EveryEventIsAccounted /\ NothingQueuedForNobody /\ FileWithinCap /\ SnapshotsOfEvents


\* An event goes only to make room, and only after all that are older (evict_chunk).
OldestGoFirst ==
  [][\A e \in events \ events' : UsedPages > HighWater /\ \A f \in events' : Before(e, f)]_historyVars

\* A closed queue's thread ends, so the join of shutdown returns.
ShutdownReturns == closed ~> writer \in {"ended", "panicked"}
=============================================================================
