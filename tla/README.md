# TLA+ models of snitchwatch's bridge

snitchwatch is a front end for the application firewall opensnitchd. Its
`snitchwatch-bridge` crate is the daemon's UI server: opensnitchd connects to it
over gRPC, asks it about connections (`AskRule`), pings it with what it decided
itself, sends it its rule list (`Subscribe`) and takes commands on a bidirectional
stream (`Notifications`). GUIs connect to the bridge over a WebSocket.
`snitchwatch-bridge-cli` runs it: `lib.rs` holds the *pump*, the single task that
handles the messages of all GUIs, and `relays.rs` the tasks around it.

The models are about the bridge, where many tasks meet on a few locks. Paths below
are relative to `src/crates/snitchwatch-bridge/src/`, or to
`src/crates/snitchwatch-bridge-cli/src/` where they start with `cli:`.

## Survey

| Part | State | Operations that change it | What makes it hard |
|---|---|---|---|
| AskRule settlement (`grpc_server.rs`, `grpc_server/answer_wait.rs`, `grpc_server/pending_cleanup.rs`, `cache/connections.rs`, `deferred_answers.rs`) | rows, pending oneshot senders, slot holders | admit, insert, resolve, cancel, defer, time out, evict, drop of the call | a verdict, the timeout, the loss of the last GUI, a pause and the daemon hanging up race for one prompt |
| GUI sessions (`client_presence.rs`, `ws_server.rs`) | count of sessions, generation | authenticate, lease dropped | session checks are made under a lock of their own, inside sections of the cache lock |
| Filtering pause (`filter_pause.rs`, `pause_answers.rs`, `cli:relays.rs`) | pause, owner generation, two deadlines | pause, resume, clear on loss, expire | requests wait in the pump's queue while sessions change; four tasks announce it |
| Tray (`tray_state.rs`, `grpc_server/replies.rs`, `daemon_watchdog.rs`, `cli:relays.rs`) | derived state and the overlay of a block | every cache change, announcements, watchdog, block and its timer, relay | seven tasks publish or relay one value |
| Rule list (`cache/rules.rs`, `cache/rules_refused.rs`, `cache/rules_sync.rs`) | list, markers of files left, staged snapshots with journals | receive, stage, commit, readopt, withdraw, confirmed and refused commands, remembered prompts | the daemon tells little about what it did; adoption is several lock sections; journals are replayed |
| Daemon streams (`daemon_commands.rs`) | open streams, current, committed, waiters | open, HELLO, reply, close, dispatch, timeout | streams of a redialled daemon overlap in any order; the TCP and Unix transports differ |
| Rule commands (`cli:rule_commands/`, `cli:busy.rs`), import (`cli:rules_import/`) | busy names, running import | edit, rename, toggle, delete, import | two-step operations that fail half way |
| Rule-count hint (`cache/rules_count.rs`) | last counts and debounce | ping, command, list change | compares with a list that is changing |
| Rule hits (`cache/rule_hits*.rs`) | counters, saved file | ping, save, restore | restarts of either side |
| Prompt slot (`prompt_slot.rs`) | holders with counter baselines | hold, release, observe | counter resets while a prompt is open |
| Profiles (`profiles/`) | chosen profile, enforced rules | manual switch, network reading, enforcement pass | automatic switching against manual choice; passes that stop half way |
| Blocklists (`blocklists/`) | subscriptions, files, rules | worker requests, install, remove | files and rules live in two systems |
| Curated defaults (`curated/`) | opt-outs, installed rules | plan, reconcile | plans outlive the list they were made on |
| History (`history/`) | queue, database, budget | append, flush, prune | bounded queue; not called by the running bridge yet |
| WebSocket server (`ws_server.rs`, `auth.rs`) | sessions, broadcast queue | connect, message, disconnect | lagging receivers |
| Translators, rule policy and names (`translator/`, `rule_*.rs`) | none | conversions | data only |
| Diagnostics, alerts, daemon configuration | last report | reports | inputs of the tray |
| Traffic chart, storage, scanner, Kirigami GUI, Tauri shell | own | own | display, system calls, or a separate program |

The hazards each part is exposed to are listed, with their lines and the properties
that would catch them, in `PROJECT.json`.

How the parts interact: an Ask is admitted under a GUI session, waits in the
connection cache and is answered by the pump or by its own handler; a remembered
verdict becomes a rule of the list; the tray is derived from the waiting prompts, the
pause and the watchdog's view of the daemon; the list belongs to a daemon stream, and
every command goes to that stream and changes the list when it is answered.

## Modules

| Module | Models |
|---|---|
| `PromptSettlement` | AskRule settlement, GUI sessions, the filtering pause, the rows GUIs are shown |
| `TrayState` | every publisher of the tray and the relay to WebSocket shells |
| `RulesCache` | operators: what one answer, one verdict, one snapshot and a journal do to the rule list |
| `RulesSync` | the list against the daemon: Subscribe, staging, adoption, answers, prompts (EXTENDS `RulesCache`) |
| `DaemonStreams` | whose list it is: streams, HELLO, close, commands and their waiters, on both transports |
| `MCPromptSettlement`, `MCRulesSync`, `MCDaemonStreams` | instances for TLC |
| `PromptSettlementProofs`, `TrayStateProofs`, `RulesSyncProofs`, `DaemonStreamsProofs` | theorems, for every value of the constants |

### PromptSettlement

One step is one section of code under a lock, or one that reaches an await. The
cache lock (`Mutex<ConnectionCache>`) makes each cache operation a step. The presence
lock is another lock, so a session can end between two checks made by one holder of
the cache lock; the pause's scan of the waiting prompts (`pause_answers.rs`) is
therefore several steps during which nothing else takes the cache lock
(`CacheFree`).

- `pc[a]` is where the handler of Ask `a` is in `ask_rule` and `wait_for_answer`.
  `Abandon` is tonic dropping the handler at any await: what is left of it is the
  drop of `PendingCleanup` (`ReleaseSlot`, then the spawned `Cleanup`).
- `chan[a]` is the oneshot between `resolve` and the handler. `select!` in
  `wait_for_answer` is not biased: with several branches ready any one is taken.
- `row`, `listed`, `at` are the cache's rows with their insertion order; `Evict` is
  `evict_if_needed`. `shown` is what a GUI holds that received every broadcast.
- `pump` is the step of the pump in the message it handles; a pause request carries
  the session generation it was stamped with (`inbox`).
- `pause` is `none`, `running`, or a state in which one of its two deadlines is over.
  `PauseDeadlinePasses` is the clock, and can step the wall clock back, `MaxWallSteps`
  times.

Left out: who a GUI is (sessions are counted), the text of rows, the rule a verdict
makes, the miss counter of the prompt slot.

### TrayState

`daemonDown`, `pause` and `pending` are the inputs of `TrayState::derive`; `Truth` is
what it gives. Each publisher is an action that sets the `watch` channel (`tray`,
`fresh`) under the cache lock. The watchdog decides before the lock and publishes
with it (`WatchdogTicks`, `WatchdogPublishes`); a block's timer compares generations
before the lock and reverts with it (`TimerFires`, `TimerReverts`); the relay and the
snapshot answer read the tray and send it in two steps.

### RulesCache and RulesSync

A rule is its name and how it is stored: absent, an always rule turned on or off, or
a temporary rule. `RulesCache` has the list operations of `cache/rules.rs` and the
markers of `cache/rules_refused.rs` (a deleted rule whose file may still be on the
daemon's disk). `RulesSync` runs them against a daemon, which is external:
`DaemonDeletes` and `DaemonChanges` follow opensnitchd's rule loader as
`tests/mock_opensnitchd/src/loader.rs` reproduces it, with every file operation, the
compilation of a rule and live reload free to fail.

- A Subscribe is received under the cache lock (`Subscribe`), staged after its account
  names were looked up (`Stage`), and adopted in three steps (`AdoptSequence`,
  `AdoptReplace`, `Publish`) after the entry was copied (`AdoptBegins`).
- `busy` is who holds the stream lock: adoptions and answers exclude each other, prompt
  verdicts (`Prompt`) do not take it and come in anywhere.
- `unsure` and `raced` are history variables: names about which the daemon's answers
  leave the bridge unable to tell (`rules_refused.rs:15-17`), and prompt verdicts that
  came while a list was on its way.

Left out: timers of temporary rules, rules left out of a list for their size, account
names, the hold of publications during an import.

### DaemonStreams

Every operation of `DaemonCommands` holds the stream lock and is a step. `hello[s]` is
the number of the last HELLO of stream `s`; `committed` is the stream the list belongs
to; `from` is the Subscribe the list came from. `staged` is `PendingSnapshots` with one
entry per connection key: a peer address on TCP, one key for all on the Unix socket.
There only opensnitchd connects, and it says HELLO once per stream; on TCP any process
may open streams, say HELLO repeatedly and answer any command id, and the model lets it.
A command is sent to the streams `targets` gives, answered (`OnReply`), failed by a
close, or given up by its caller (`WaitTimesOut`, `TimeoutLocks`); its id stays around
for a late answer until `GracePasses`.

Left out: a stream whose queue is full (`try_send`), a wait that is cancelled (only at
shutdown), the contents of lists (`RulesSync` has them).

## Runs

| Run | Checks | States | Result |
|---|---|---|---|
| `settle_sessions` | a pause acts only for Asks of its own sessions (`PausedOnlyByOwnSession`); GUIs show the pause (`PauseShownIsTrue`) and the prompts (`GuiShowsTheWaiting`) as they are | 1 Ask, 1 row, 2 generations, 2 requests | holds |
| `settle_asks` | waiting prompts are never evicted, a delivered verdict is the answer, the row tells the answer, a decision is final, no prompt is left waiting under a pause | 2 Asks, cache capacity 1, symmetric | holds |
| `settle_live` | every Ask settles, a pause ends with its session, its end is shown | 1 Ask, a wall clock step, a snapshot | holds |
| `settle_snapshot` | no prompt is shown that does not wait (`NoStalePrompt`) | 1 Ask, a snapshot | violated, see below |
| `tray_shown` | an outage is on the tray exactly while recorded, the tray tells its inputs | 2 prompts, 1 block, 1 snapshot | holds |
| `tray_live` | a block's overlay goes, outages are followed | 1 prompt, 2 blocks | holds |
| `tray_timer` | only the newest block's timer takes its overlay down | 2 blocks | violated, see below |
| `tray_snapshot` | with nothing left to send, shells show the tray | 1 snapshot | violated, see below |
| `sync_list` | the list is the daemon's, GUIs have the list, adopting again gives the same list, lists come in order, markers go for a reason | 1 name, 2 Subscribes, 3 changes, journals of 2 | holds |
| `sync_prompt` | adopting again loses no change | as above | violated, see below |
| `sync_leftover` | a file that would bring a deleted rule back is marked | as above | violated, see below |
| `streams` | the current stream is the newest HELLO, the list is the current stream's, waiters have a stream, a redial keeps the list, TCP never hands it on, plans are for this list | 3 streams, 2 connections, 1 command, 4 HELLOs, 2 Subscribes, both transports | holds |

Deadlock is checked where the system never stops (`TrayState`, whose daemon, prompts and
pause can always change); the other models end when their bounded inputs are used up.

**Bounds.** Each is the smallest with which the cases of its hazards happen. Two Asks
and one row of capacity make eviction choose between a waiting prompt and a settled
row, and let a pause's scan meet a prompt that is leaving and one that arrives. Two
generations are what a request needs to outlive its session. Two Subscribes can be
staged in the wrong order, three changes overflow a journal of two, and one readoption
replays it. One rule name is enough since no operation of the list relates two names
(only the number of markers does, and no property checked is about that number). Three
streams are a daemon's old and new stream and one more to fall back to; four HELLOs
let one of them say it twice. What the bounds leave open is what the proofs are for.

**Fairness.** `settle_live` assumes what tokio gives: a task that can go on goes on, and
the cache lock is a tokio mutex, which serves its waiters in order, so a task that wants
it is not passed over forever (strong fairness of its step). The answer timeout of a
waiting handler fires. `tray_live` assumes that the watchdog's interval ticks, that a
sleeping timer wakes, and that the relay runs. Nothing is assumed of GUIs, of the daemon,
of the clocks or of deadlines passing.

## Disagreements with comments of the code

Five runs show the code doing something else than a comment says. None changes what the
daemon enforces, except that the last can surprise at the daemon's next start.

- `settle_snapshot`: the answer to a snapshot request copies the rows under the cache
  lock and broadcasts them after it. A prompt withdrawn in between is sent again, and
  stays on screen (`cli:lib.rs:583`, against `grpc_server.rs:419-420`).
- `tray_timer`: the revert timer checks its generation before it takes the cache lock,
  so it can take down the overlay of a newer block (`grpc_server/replies.rs:105`,
  against lines 77-81 there).
- `tray_snapshot`: the tray in a snapshot answer is not ordered with the relay's; an old
  state can be sent last (`cli:lib.rs:605`, against `cli:relays.rs:39-40`).
- `sync_prompt`: `adopt` works on a copy of the staged snapshot made before the cache
  lock. A remembered verdict that comes in between is dropped from the list, and is back
  after the next adoption (`cache/rules_sync.rs:485`, against lines 85-87 there).
- `sync_leftover`: a list that has a marked name as a temporary rule clears the marker,
  though no file was loaded; once that rule is deleted, the older file is unmarked
  (`cache/rules.rs:275`, against line 274).

Met while modelling, and described here only, because no line of the repository says
otherwise or because they need the environment to do something unusual:

- A verdict is delivered under the cache lock and its row is looked up for the broadcast
  under a second one (`cli:lib.rs:629`). A row evicted in between is not broadcast, so
  GUIs keep the prompt until their next snapshot. `GuiShowsTheWaiting` is checked with
  room in the cache.
- A wall clock stepped back over a pause's deadline makes the pause active again until
  its monotonic deadline, for prompts inserted meanwhile (`filter_pause.rs:96`).
  `NoneLeftWaiting` is checked and proved for a clock that is not stepped back.
- Replaying a journal over a cache its changes already changed can clear or set the
  marker of a file differently the second time (`cache/rules.rs:175`,
  `cache/rules_refused.rs:85-87`). The list itself comes out the same.
- When an always rule becomes temporary and its file cannot be removed, the daemon only
  logs it, and no marker is made (`cache/rules_refused.rs:10-11`; the loader is
  `tests/mock_opensnitchd/src/loader.rs:13-15`). `StuckFileStays` turns it on.

## Proofs

The theorems hold for every value of the constants: any number of Asks, rows, sessions,
streams, connections, commands, names and journals, and any bounds. They rest on the
named assumptions of the modules (the bounds are natural numbers, `None` is no stream,
the Unix key is no peer address) and on nothing else.

`PromptSettlementProofs`
- `Typing`: `TypeOK`.
- `Settlement`: `PendingStaysListed`, `VerdictWins` and `RowTellsTheAnswer`. None is
  inductive: that the answer is the verdict depends on where the handler is. `AskInv`
  relates, per Ask, the handler's step, the oneshot, the answer and the row; above all,
  the sender is in the pending map exactly while the channel is open, and a handler that
  took the timeout's branch answers "no answer" only if it closed the channel itself.
  `SettleInv` adds that the pause's scan holds only prompts that still wait, which the
  cache lock guarantees.
- `Finality`: `DecisionIsFinal`, from `SettleInv` and that an Ask not yet at the cache has
  no decided row: a step that changes an Ask's oneshot or row is its arrival or finds it
  waiting.
- `NoPromptMissed`: `NoneLeftWaiting`, if the wall clock is never stepped back over a
  deadline. `WaitInv` adds that a waiting prompt was admitted under a generation that is
  current or over, so a pause set by a later session does not apply to it.

`TrayStateProofs`
- `TrayTyping`: `TypeOK`.
- `TrayIsTrue`: `OutageShown` and `TrayTells`, by `TrayInv`: what the watchdog remembers
  (`wasDown`) and what the cache has (`daemonDown`) differ only between its decision and
  its publication.

`RulesSyncProofs`
- `GuisHaveTheList`: `GuiListIsTheList`, inductive as it stands.
- `ListNeverGoesBack`: `ListsInOrder`, by `OrderInv`: neither the staged entry nor the
  copy being adopted is older than the list, and a Subscribe still to be staged is
  older only if a newer entry is there to refuse it. The expiry of entries keeps this
  because an entry outlives the account lookup of every older Subscribe.

`DaemonStreamsProofs`
- `StreamsTyping`: `TypeOK`, with one staged entry per key.
- `ListHasItsStream`: `ListIsCurrents` and `CurrentIsNewestHello`.
- `RedialSafe`: `RedialKeepsList`; `NoOrphanWaiter`: `WaitersHaveStreams`;
  `ListNotInherited`: `NeverHandedOver`; `PlanSafe`: `PlanIsForThisList`.
- The invariant `IInv` needs, besides these: HELLOs are numbered in order; entries carry
  the connection of their Subscribe; on the Unix socket a stream whose HELLO is newer
  than an adopter's has adopted the entry too (`NewerAdopted`), which is why a stream
  that falls back to current finds the list that is shown; and a plan made since the
  last HELLO was made on the list held now (`PlansCurrent`).

Only model-checked: every liveness property (fairness and `ENABLED` are beyond the
prover); `PausedOnlyByOwnSession`, `PauseShownIsTrue` and `GuiShowsTheWaiting`; and, of the rule list, everything that depends on what replaying a
journal computes (`ListIsTheDaemons`, `ListAdoptedAgain`, `MarkerGoesForAReason`, and
`TypeOK` of `RulesSync`), since that is an induction over the journal.

## Plan

1. Rule commands: rename and edit as two daemon commands each, the names kept busy,
   partial failure and late answers, on top of `DaemonStreams`' outcomes; the import's
   run guard.
2. Profiles: manual choice, network readings and the enforcement pass against a daemon
   that comes and goes.
3. Blocklists: the worker's requests, and the order of files and rules.
4. The rule-count hint and the hit counts across restarts; the prompt slot's counter.
5. The curated pass above `SendCurated`; the history writer's queue and budget.
6. An abstract specification of an Ask (asked, then answered once, with the verdict
   given or with none) that `PromptSettlement` implements, and one of the rule list that
   `RulesSync` implements; proofs of the properties only model-checked so far.

Not planned, and why: translators, rule policy and names convert data and have no state;
the traffic chart and the GUIs are display; storage is system calls; the scanner is a
separate program run once per request.
