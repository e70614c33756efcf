# A verification of the MegaETH orchestration layer

The repository is one Python process. It reads mini-blocks from a MegaETH node
over a WebSocket, puts them on a Redis stream, keeps PostgreSQL and Qdrant up
to date from that stream, lets an LLM agent decide on intents, and executes the
intents as signed transactions. Everything runs as coroutines of one event loop;
what survives the process is in Redis, PostgreSQL, Qdrant and the chain.

This directory holds TLA+ models of the parts where order, failure and restarts
decide what happens, TLC instances of them, and proofs checked by TLAPS. Paths
below are relative to the repository.

1. Inventory - 2. Plan - 3. The modules - 4. The runs - 5. Fairness -
6. What is proved - 7. What the models show of the code - 8. What is left out

## 1. Inventory

    node --WebSocket--> ingestion daemon --XADD--> megaeth:raw:miniBlocks
      megaeth:raw:miniBlocks --group--> state tracker    --> PostgreSQL mini_blocks
                             --group--> balance tracker  --> PostgreSQL asset_balances
                             --group--> vector indexer   --> Qdrant
    agent graph --dispatch tool, XADD--> megaeth:stream:executions
      megaeth:stream:executions --group--> worker pool --> executor --> chain
                                                       --> result hash in Redis
    supervisor: starts all of these, waits for a signal, stops them

| Component | State | Operations | What is hard | What makes it correct |
|---|---|---|---|---|
| Ingestion daemon (`app/ingestion/daemon.py`, `backoff.py`) | connection, shutdown event, keepalive task, attempts and clock of the backoff | `run`, `connect`, `_subscribe`, `_message_handler`, `_reconnect`, `_keepalive_loop`, `shutdown`; `delay`, `record_success` | a connection that breaks, closes or is refused at any time; answers that come late; a shutdown in each of its waits | it reconnects; the backoff stays bounded; it reads blocks in the format it subscribed to; it ends when told to |
| Block stream (`app/streams/buffer.py`, `consumer.py`) | stream, MAXLEN, one group per worker with last-delivered id and pending list (PEL), dead-letter stream | `initialize`, `create_consumer_group`, `add`, `consume`, `ack`, `claim_pending`, `dead_letter` | calls that raise with or without effect, NOGROUP after Redis lost its data, trimming below what is pending | at-least-once: what was delivered is pending until it was dealt with |
| Block workers (`app/state/worker.py`, `balance_worker.py`, `app/vector/worker.py`) | shutdown event, the entries in hand | `run`/`start`, the orphan pass, `_process_entry`, `shutdown`/`stop` | crash between the sink's commit and XACK; errors in the error path; orphan pass against idle time | every block is decided exactly when it is acknowledged, in order, once a session |
| State repository, balance repository, transfer parser (`app/state/`) | rows of `mini_block_records` and `asset_balances` | `upsert`, `apply_deltas_and_upsert`, `extract_transfers` | which unique key a conflict hits; clamping at zero; a block that is refused as a whole; 32-bit columns | a row is the newest block with its key; a balance is the sum of the transfers, but for the deficits that were clamped |
| Execution queue (`app/agents/dispatch.py`) | stream, group, PEL, result hashes, dead-letter stream | `initialize`, `enqueue`, `consume`, `ack`, `claim_pending`, `_dead_letter_raw`, `set_result` | as the block stream, and several readers under one consumer name | an acknowledged intent has its answer |
| Worker pool (`app/agents/dispatcher.py`) | tasks, semaphore, shutdown event | `start`, `_claim_orphans`, `_worker`, `stop` | orphan pass and workers on the same PEL, exceptions in mid-batch, cancellation after 30 s | an intent is in one coroutine's hands; all are settled |
| Transaction executor (`app/agents/dispatcher.py`) | nonce, nonce lock | `execute`, `_check_conditions`, `_get_nonce`, `_broadcast` | an await inside the lock, three broadcast attempts of unknown effect, a nonce forgotten by a restart | one transaction per intent and session, no nonce twice |
| Agent graph, runner, tools (`app/agents/graph.py`, `runner.py`, `tools/`) | graph state, poll timer, invocation lock | `_poll_loop`, `_invoke_graph`, `start`, `stop`; `dispatch_execution` | API and poll loop run the same graph; tools that run side by side; a stop during an invocation; calldata checks | an intent is only queued if it passed every check; what the LLM is told is queued is queued; `stop` returns |
| Supervisor (`app/api/main.py`) | shutdown event, tasks | `supervise` | tasks that fail unnoticed, signal handlers registered by several parts, order of stopping | a signal stops everything, also during the start; a shutdown comes to its end |
| HTTP API (`app/api/routes/`) | - | `/agent/invoke`; the other routes read | an invocation beside the poll loop's | it queues nothing |
| Vector index (`app/vector/`), read-only tools (`app/agents/tools/`) | - | one HTTP call or query each | they raise | see their callers |
| Metrics, configuration, logging, scripts | counters | - | - | - |

The parts share nothing in memory except the event loop, the executor (between
the pool's workers) and the agent graph (between the runner and the API). They
communicate through the two streams. That is why a stream with one group is the
unit of modelling, and why the groups of the block stream can be taken one at a
time.

The hazards this code is exposed to are listed at their lines in
`PROJECT.json`, with the properties that would catch each.

## 2. Plan

Done, in this order, the most damaging behaviour first:

1. `ExecutionPool`: intents, money and nonces.
2. `DeliveryLedger`: what both streams promise, as an abstract specification
   that `ExecutionPool` and `BlockConsumer` implement.
3. `BlockConsumer`: the block stream with one group and its worker.
4. `IngestionDaemon`: the connection and its backoff.
5. `TransferParser`, `BalanceRepository`: from the receipts of a block to the
   balances.
6. `StateTables`: `BlockConsumer` with the content of the blocks and the two
   tables; it implements `BlockConsumer` and `BalanceRepository`.
7. `AgentRunner`: poll loop, API, graph and `dispatch_execution`.
8. `Supervisor`: start, signals and stop of the process around the agent.
9. `Subscription`: what `connect()` asks the node for and in which format the
   blocks that follow are read; it implements `IngestionDaemon`.
10. `ConnectionTime`: `IngestionDaemon` with the time its connection was up, to
   state what `backoff.py` says of a reset.

To come:

- The liveness of `StateTables` and the composition of `AgentRunner` with
  `ExecutionPool` at `enqueue()`: ids that the LLM chooses, and the result key
  two intents may share.
- To prove: nothing is left of the safety properties the runs check.

The specifications are written to be proved about: constants with named
assumptions, one action per operation, no recursive operator.

## 3. The modules

### DeliveryLedger

The promise of a consumer group, free of Redis: a posted entry is *open*; while
it is open its answer may be written; it may be closed only once it has an
answer or was dropped by the stream; a closed entry's answer stands. `Post`,
`Answer` and `Close` are the only steps. Both implementations say in their last
lines which of their variables play `posted`, `open`, `dropped` and `answer`.

### ExecutionPool

`app/agents/dispatch.py` and `app/agents/dispatcher.py`.

| TLA+ | Code |
|---|---|
| `tail`, `first`, `kind` | the execution stream: `1..tail` added, `1..first` trimmed by MAXLEN; positions stand for entry ids |
| `group`, `cursor`, `pel` | whether the group exists, its last-delivered id and pending entries |
| `losses`, `missed` | times Redis came back empty; history: entries the group never had, or lost with it |
| `result` | result hashes; they expire after 24 h (`Expire`) |
| `proc`, `session` | the process is down, up or stopping; how often it was booted |
| `pc`, `batch`, `attempt`, `out`, `mine` | per coroutine: where it is suspended, the entries it was given, the broadcast attempt, the status `execute` returned, the nonce it signed with |
| `nonce` | `TransactionExecutor._nonce` (`None` until the first fetch) |
| `count`, `took` | transactions of the account included so far; transactions the node ever took |
| `signed`, `answer` | history: every transaction ever signed; the last answer an entry was given, a result or a dead letter |

The coroutines are the workers and the one that runs `WorkerPool.start()` with
its orphan pass. An action is what a coroutine does between two awaits, or part
of it. `Fetch`, `Take`, `Bury`, `Ack` are `consume`; `Claim` is XAUTOCLAIM;
`Acquire` the semaphore; `CheckConditions`, `GetNonce`, `CountReply`,
`SendSync`, `SendRaw` are `execute`; `Record` and `Ack` follow it. `Regroup` is
NOGROUP: the group is created again at the end of the stream, and what is in
front of it is delivered to nobody. `CallRaises`
(and a disjunct of `Fetch`, `Claim`, `Bury`) is a Redis call that raises, with
or without having taken effect; `Raise` is what the `except` of `_worker` does
then: the rest of the batch is forgotten in memory and stays in the PEL.
`Crash` ends the process between any two actions, `LoseData` is a restart of
Redis, which runs with `--appendonly no`: the coroutines go on with entries that
are in no PEL. `RequestStop` and `StopReturns` are `stop()` with its timer.

Abstracted: the content of an intent is one of four kinds, by what the code can
tell apart (condition holds, may or may not hold, raises; payload does not
parse). The node answers nondeterministically. A transaction it took may be
included at once or later, may be replaced, or may never be heard of again
(`took` says only that it was taken, and nothing forces `Mine`); an error tells
nothing about which, and a null result is `NullHash`, the string "None" that
`str()` makes of it.

### BlockConsumer

`app/streams/`, the three workers. One module for the three, since they differ
in three places: `role` says which worker the group belongs to. `Claims` (the
vector indexer has no orphan pass), `Listens` (only the balance tracker hands
its shutdown event to the consumer) and the disjuncts of `Parse` (a block
without transfers moves no balance; a failed embedding is acknowledged as
degraded).

| TLA+ | Code |
|---|---|
| `tail`, `first`, `kind`, `group`, `cursor`, `pel` | the stream and the worker's group |
| `losses`, `missed` | times Redis came back empty; history: entries the group never had, being created at `$` behind them, or lost |
| `proc`, `session`, `loop`, `pc`, `batch` | the worker: shutdown event, start count, orphan pass or main loop, where it is suspended, entries in hand |
| `applied`, `tries`, `outcome` | history of an entry: commits of the sink, times this process began it, what was decided last |
| `left` | history: pending entries that a start of the worker did not take up |

`Publish` is the daemon's XADD. `Boot` is `run()` up to the orphan pass,
including the group that is created if it does not exist. `Claim`, `Read`,
`ReadRaises`, `Take`, `BatchDone` are the two loops, `Parse`, `Commit`, `Ack`,
`Bury`, `AckDead` are `_process_entry` with its error path. `Escape` is an
exception that leaves `_process_entry` or `consume`: the orphan pass catches
it, in the main loop it ends the worker's task. `Die` is a crash or a kill at
any point, `Exit` the regular end. `LoseData` is a restart of Redis, which runs
with `--appendonly no`.

XAUTOCLAIM takes only what has been idle for 30 s. The container is restarted at
once (`restart: unless-stopped`), so which pending entries are idle by then is
anybody's guess: `Claim` chooses any part of them, of which COUNT limits it to
the oldest. It is called once. What it does not find, and what is still pending
when an exception leaves the orphan pass, goes to `left`, as does all that is
pending when a vector indexer starts. These are the entries the properties have
to except.

What is in a block is abstracted to its kind: its number is hex (the daemon
copies the node's string and `parse_entry` reads a decimal), its receipts make
the parser raise, it moves balances or it does not. `StateTables` derives the
kind from the content.

### IngestionDaemon

`app/ingestion/`. `pc` is where `run()` is suspended, `ws` the connection
(`broken`: the next read raises; `closed`: it ended regularly and reading it
just ends the loop), `keep` the keepalive task, `stop` the shutdown event, and
`attempt`, `since`, `timer` the backoff with its clock in seconds (`since`
saturates at the stable threshold, beyond which its value is not looked at).
`Connect` is `connect()` with `_subscribe` and `record_success`; `Disconnected`
and `Wake` are the two halves of `_reconnect`; `Drop` is the network.

`ConnectionTime` adds what the daemon does not keep: how long the connection was
up. Its only use is the run that compares the reset of the attempts with
what `backoff.py` says of it.

### Subscription

`_subscribe()` and the reading of blocks, on top of `IngestionDaemon`: it adds
variables and says which steps of the daemon happen when. `asked` is the method
`connect()` waits for, `wanted` and `feeds` are what the node has yet to answer
and what it sends, `inbox` the messages on their way, `method` is
`_subscription_method`, `last` the fate of the last block on this connection.
`Confirm`, `Refused` and `TimedOut` are the three ends of the 5 s wait. The code
takes whatever message comes for the answer; `Probe` is the one way, apart from
a late answer, that another message gets in front of it: the keepalive task
that slept while the connection was replaced. `Normalised` is what the format
conversion and the validation make of a block that is read in one format or
the other. `late` and `probed` are history.

### TransferParser, BalanceRepository, StateTables

| TLA+ | Code |
|---|---|
| `LogsOf`, `IsTransfer`, `Delta` | the conditions of `extract_transfers` (`app/state/transfer_parser.py`) and the delta it appends |
| `MoveAll`, `NetChanges` | both loops of `extract_transfers` with that of `apply_deltas`: log by log, receipt by receipt |
| `Received` | what the block says: per account, amounts in minus amounts out, over all positions of all receipts |
| `balances` | the table `asset_balances`; `ApplyDeltas` is `apply_deltas_and_upsert` |
| `flow`, `low` | history: what an account received minus what it spent, and the least that ever was |
| `rows` | `mini_block_records` with its primary key and the unique `mini_block_number`; `Upsert` is `session.merge()` |
| `content` | the block behind each entry of the stream |

`TransferParser` has no state. It takes the payload apart as far as the parser
does: receipts and logs that are not dicts, statuses, topics that are too few or
have no length, addresses in different spellings or that are no strings, data
that is no number.
`UserOf` and `TokenOf` are `_normalise_address`. `BalanceRepository` is the table
as its only writer sees it. `StateTables` extends `BlockConsumer` and
`BalanceRepository`: `CommitBlock` replaces `Commit` and decides from the content
what `BlockConsumer` leaves open, namely whether PostgreSQL refuses the block
(a value that does not fit its column, a second row with the same
`mini_block_number`; the INTEGER columns are the numbers, `index` and the
balance) and what its transaction writes. `MaxInt` is the largest
value of an INTEGER column.

### AgentRunner

| TLA+ | Code |
|---|---|
| `loop`, `event`, `stopping`, `paid`, `last` | the runner's task, its shutdown event, `stop()`, `_last_had_payload` |
| `count`, `node`, `payload` | per caller (poll loop, API): invocations so far, the node its invocation is at, `execution_payload` |
| `calls`, `told` | tool calls that run; calls the LLM was told are queued |
| `intents`, `faults` | the stream of execution plans; Redis calls that raised |

`MarketNode`, `MarketTools`, `PortfolioNode` and `PortfolioTools` are the nodes of
the graph with their routing; what the LLM answers is a choice. `Check` is
`dispatch_execution` up to its only await, with `Verdict` for its checks in
order, `Enqueue` the XADD with its error path, `ToolRaised` an exception of a
tool, which becomes a message or leaves the graph at once: the `ToolNode` is the
library's, the models allow both. `Wake`, `Poll` and `Invoked` are the poll loop,
`Stop`, `Stopped`, `CancelTask` are `stop()` with its 30 s, `Request` and `Respond`
the API route.

A plan is what the checks tell apart: its selector, its slippage, and whether
`ExecutionPayload` accepts the rest.

### Supervisor

`supervise()` from the registration of the signal handlers to the end of
`asyncio.run`. `phase` is the await it is at, `part` the life of each part,
`handler` the one callback the event loop keeps per signal, `requested` the
supervisor's event. `FirstTurn` is the first turn of the tasks that were created:
each `main()` registers its own handler, the vector indexer's last.

The order of callbacks in the event loop decides what a signal may meet. From
`runner.start()` to its wait for the event `supervise()` does not suspend, so
nothing runs in between (`Turn`). When it does suspend, its handler
may be queued before the created tasks or behind them; the first sets the event
of a supervisor that already waits. So `Signal` may come between `Spawn` and
`FirstTurn` with the handler still in place, and `ShutdownSeen` is the exit of
the wait. `supervise()` is behind the tasks it created (`Resumed`), and a runner
whose wait of minutes has just begun does not wake up before they had
their first turn (`JustStarted`). The agent is all of `AgentRunner`.

### Proof modules and MC modules

`ExecutionPoolProofs`, `BlockConsumerProofs`, `SubscriptionProofs` (which holds
the theorems about `IngestionDaemon` as well), `TransferParserProofs`,
`BalanceRepositoryProofs`, `StateTablesProofs`, `AgentRunnerProofs` and
`SupervisorProofs` extend their module and TLAPS; the proofs about a module cite
those about the modules it is made of. The MC modules
are what TLC runs: `MCExecutionPool` adds the symmetry of the workers,
`MCStateTables` seven blocks that meet every branch of the parser and every
refusal of PostgreSQL, `MCAgentRunner` and `MCSupervisor` the plans the LLM
chooses from. Operators marked as mutants in a module (`NoNonceLock`,
`LastOfBatch`, ...) are plausible mistakes in the definition that follows them.
Nothing uses them except the experiment that puts one in the place of the
original and expects a property to fail.

## 4. The runs

| Run | Instance | What it shows |
|---|---|---|
| `exec_restart` | one worker (the default), 3 intents of every kind, 2 sessions, MAXLEN 2, batches of 2 | `TypeOK`; a session signs one transaction per intent (`OneTxPerSession`); nonces follow the stream, orphans first (`SignedInOrder`); a completed result names a transaction of this very intent that the node took, or the null hash (`CompletedWasSent`) |
| `exec_workers` | 2 workers, 2 intents, 2 sessions, one raising call, one loss of Redis, MAXLEN 1, XAUTOCLAIM of 1 | `ExclusiveHolding`, `AnsweredBeforeAck`, `NonceUnique`, and `LedgerSpec`: the pool implements the ledger |
| `exec_liveness` | 2 workers for one permit, 2 intents, 1 session, one loss of Redis | `EverySettles`: each intent is delivered, answered and acknowledged, or lost with the group |
| `block` | each of the three workers, 2 blocks, 3 sessions, one raising call, one loss of Redis, MAXLEN 1, batches of 2, XAUTOCLAIM of 1 | `TypeOK`, `AckedIsDecided`; no process begins a block twice (`OncePerSession`); `InOrder`; `LedgerSpec`; every block is dealt with unless a start did not take it up or an exception ended the worker (`EverySettles`); `ShutdownEnds` |
| `ingest_backoff` | base 1, cap 16, threshold 10 (the code's values), both formats, one `connect()` that raises, an inbox of 2 | `SubscriptionTypeOK`; `AttemptBounded`; a daemon that handles messages gets the format it recorded and no other (`SubscribedAsRecorded`) and reads no block in the wrong one (`BlocksAsAnnounced`), over any number of reconnects; `Reconnects`, `StopsAfterBackoff` |
| `ingest_reset` | base 1, cap 16, threshold 10 | `ResetsAfterStable` fails |
| `tables` | state and balance tracker, 2 blocks out of 7, 3 sessions, one raising call, columns up to 6 | a row is the newest block with its key, or one that was left and came late (`RowIsNewest`); balances are what the committed blocks give in stream order, as long as none of them had been left (`BalancesReplayStream`), from transfers that are those of the receipts (`FlowIsTransfers`); what clamping does (`ClampedExactly`, `TotalNeverShrinks`); `Spec`, `RepositorySpec`: the composition implements its parts |
| `agent` | 2 invocations by the poll loop with 2 tool calls each, one by the API, one raising call, four plans | `QueuedWasChecked`, `ToldIsQueued`, `ActingSetsThePace`, `StopCompletes` |
| `supervisor` | as `agent` with one tool call and two plans, 2 signals, 2 parts that fail | `StoppedEarlyNeverActs`, `ShutdownCompletes` |
| `block_hex` | vector indexer, one block | `ValidatedIsAccepted` fails |
| `tables_uint256` | balance tracker, one block, no faults | `TransfersAreStorable` fails |
| `supervisor_signal` | as `supervisor`, and no part fails | `SignalEndsProcess` fails |

**Why these bounds.** The interesting cases need two sessions (a crash and what
the next process finds), at least two entries in one batch (an exception
strands the second; order needs two), a batch size that is smaller than what
can be pending (XAUTOCLAIM's COUNT), a MAXLEN below the number of entries (a
pending entry is trimmed) and one raising call (two only repeat it: after each
the coroutine is back at a loop head). Two workers are needed for the nonce
lock and the semaphore. More of any of these is what the proofs are for.
The blocks need a third session, so that what one start did not take up is
found by the next, and so that a block is committed
three times; the 6 of the columns is exceeded by one block at once, and by another when it is
committed again. The agent needs two invocations of
the poll loop (a tool call that outlives its own) and one of the API beside
them. Two signals come before and after the handler is replaced.
`MaxEntries`, `MaxSessions`, `MaxFaults`, `MaxLosses`, `MaxFails`, `MaxInbox`
(blocks only; answers always find room), `MaxCalls`, `MaxPolls`, `MaxRequests`,
`MaxSignals` and `MaxFailures` bound the models, `Payload`, `Nets`, `Numbers`,
`Plans` and `MaxInt` stand for the data; everything else named by a CONSTANT is a
number of the code. Losing Redis twice only repeats it: both times the group
is gone. The last
session of a bounded run neither stops nor dies, so that liveness is judged in
a process that stays up.

**Deadlock.** All configurations say `CHECK_DEADLOCK FALSE`: an idle system is
a legitimate state (no block comes, the daemon or the process ended), and
when a bound is used up it is the only one.

## 5. Fairness

`FairSpec` assumes of the code only what the event loop and the deployment
give:

- a coroutine that can run does (`WF` of a worker's steps): asyncio runs ready
  tasks in turn, its locks and semaphores wake waiters in FIFO order;
- `StopReturns`: `stop()` has a 30 s timer; `Exit`: `main()` returns once the
  worker has ended after its shutdown event;
- `Boot`: `docker-compose.yml` restarts the container (`unless-stopped`);
- in `IngestionDaemon`: time passes, a sleep ends, a read on a broken
  connection raises, a `connect()` is answered in one way or the other. In
  `Subscription` the last is derived from weaker assumptions: `connect()` goes
  on, because every wait for an answer ends after 5 s;
- `Stopped \/ CancelTask` in `AgentRunner`: `stop()` waits 30 s for the task and
  then cancels it. Nothing is assumed of the LLM or the tools;
- `Supervise`: the supervisor's coroutine goes on, since what it awaits are calls
  that return or raise and waits with a timeout. `CooperativeSpec` adds, for
  the counterexample only, that parts that are told to stop do.

Nothing is assumed about the environment: no intent, block, message, shutdown,
crash, raising call, lost connection, answer of the node, signal or inclusion
of a transaction has to happen.

## 6. What is proved

For every value of the constants that satisfies the assumption of the module
(`PoolAssumption`, `ConsumerAssumption`, `DaemonAssumption`,
`SubscriptionAssumption`, `ParserAssumption`, `RepositoryAssumption`,
`TablesAssumption`, `AgentAssumption`, `SupervisorAssumption`: batch sizes, MAXLEN and permits are
positive, the bounds are naturals, the starter is not one of the workers, the
cap is not below the base, no method is tried twice, the blocks are of the
kinds named, the addresses are finitely many), so for any number of workers, entries, sessions, faults, signals,
and any blocks and plans:

| Theorem | Property | Invariant it rests on |
|---|---|---|
| `ExecutionPoolProofs!TypeCorrect` | `TypeOK` | itself |
| `HoldingIsExclusive` | `ExclusiveHolding` | `HoldInv` |
| `AckedIsAnswered` | `AnsweredBeforeAck` | `AnswerInv` |
| `AtMostOnceASession`, `NoncesDoNotCollide` | `OneTxPerSession`, `NonceUnique` | `SignInv` |
| `OneWorkerSignsInOrder` | `SignedInOrder`, with one worker | `OrderInv` |
| `CompletedHashIsSent` | `CompletedWasSent` | `SentInv` |
| `PoolImplementsLedger` | `LedgerSpec` | `HoldInv`, `AnswerInv`, `MissedInv` |
| `BlockConsumerProofs!TypeCorrect` | `TypeOK` | itself |
| `AckedWasDecided` | `AckedIsDecided` | `DeliveryInv` |
| `BeginsOnceASession` | `OncePerSession` | `SessionInv` |
| `CommitsInOrder` | `InOrder` (an action property) | `OrderInv` |
| `GroupImplementsLedger` | `LedgerSpec` | `DeliveryInv` |
| `SubscriptionProofs!BackoffBounded` | `AttemptBounded` | `BackoffInv` |
| `SubscriptionRunsTheDaemon` | - (implements `IngestionDaemon!Spec`) | - |
| `SubscriptionTypeCorrect` | `SubscriptionTypeOK` | itself |
| `RecordedIsSubscribed`, `BlocksReadAsAnnounced` | `SubscribedAsRecorded`, `BlocksAsAnnounced` | `LinkInv` |
| `ParserIsRight` | - (`NetChanges` is `Received`, for any well-formed block) | induction over receipts and logs |
| `ParserConserves` | - (net changes add up to 0 over the users) | the same |
| `RepositoryTypeCorrect`, `BalancesNeverUnderstate` | - | `ClampedExactly` |
| `TablesTypeCorrect` | `TablesTypeOK` | itself |
| `TablesImplementConsumer`, `TablesImplementRepository` | `Spec`, `RepositorySpec` | types |
| `TablesAreClamped` | `ClampedExactly` | itself, through `RepositorySpec` |
| `RowsAreNewest` | `RowIsNewest` | itself, `FreshInv`, `OrderInv` |
| `FlowsAreTransfers` | `FlowIsTransfers` | `FlowInv`, `FreshInv`, with `ParserIsRight` |
| `BalancesAreReplayed` | `BalancesReplayStream` | `ReplayInv`, `FreshInv`, `OrderInv`, with `ParserIsRight` |
| `TotalsNeverShrink` | `TotalNeverShrinks` (an action property) | types, with `ParserConserves` |
| `AgentTypeCorrect`, `OnlyCheckedPlansQueued`, `QueuedAsTold` | `AgentTypeOK`, `QueuedWasChecked`, `ToldIsQueued` | `AgentInv` |
| `ShortWaitAfterActing` | `ActingSetsThePace` | `PaceInv` |
| `SupervisorRunsTheAgent` | - (implements `AgentRunner!AgentSafety`) | - |
| `SupervisorTypeCorrect`, `EarlyStopQueuesNothing` | `SupervisorTypeOK`, `StoppedEarlyNeverActs` | `SupervisorInv` |

Most of these properties are not inductive alone.

- `HoldInv`: that nobody takes what another holds rests on the workers not
  existing while the orphan pass runs, on a coroutine at a loop head holding
  nothing, and on everything pending or held having been delivered (so that
  XREADGROUP, which delivers beyond the cursor, gives out nothing a second time,
  also after the group was lost and created again).
- `AnswerInv`: a coroutine at its XACK stands there because the entry it is at
  was answered.
- `SignInv`: an intent signed in this session is the current one of the
  coroutine that signed it, past its signature, or in nobody's batch; whoever
  waits for `get_transaction_count` is alone and the nonce is still unset; all
  nonces of the session are at most the current one.
- `OrderInv` of the pool: with one worker, what was signed is behind everything
  still held.
- `DeliveryInv`: pending and held entries were delivered; a worker at its XACK
  stands at a decided entry; a worker at a loop head holds nothing.
- `SessionInv`: when the orphan pass begins, this process has begun nothing; it
  never began what is beyond the cursor, and of the batch only the current entry.
- `SentInv`: a coroutine whose `execute` returned a hash is still at the entry it
  signed, and the node took that transaction (`CoroInv`). Since the history of
  what was taken only grows, no replacement, forgetting or restart undoes it.
- `MissedInv`: an intent that was lost had been enqueued.
- `OrderInv` of the group: of what is pending and not trimmed, a worker that is
  past XAUTOCLAIM holds everything but what was left (`HeldInv`); what was committed is
  not ahead of anything pending or held, but for what was left or dropped.
- `FreshInv`, `FlowInv`, `ReplayInv`: nothing is committed before it is published,
  and what a table holds is the end of a sequence, one value per entry of the
  stream, that obeys the definition of the property step by step. A commit of
  entry e changes this sequence from e on; `OrderInv` says that, for the
  balances, nothing behind e was committed unless e had been left. Repeating e
  is harmless to the shape of the sequence because clamping is: clamping after
  each of several equal steps is clamping once after all of them
  (`ClampOnceMore`).
- `BackoffInv`: what has passed since the last success and what is left of the
  sleep are together at least the last delay, so the clock has reached the
  delay when `connect()` succeeds, and a delay of the threshold or more has
  reset the attempts.
- `LinkInv`: unless a request timed out, a method is asked for only after the
  one before was refused, so at most one format is asked for or sent on a
  connection, one refusal at most is unread, and every block on its way is of a
  format that is sent; that format is the one `connect()` waits for or has
  recorded (`Current`). Without a keepalive in between, a request is in one of
  three stages: not answered, accepted, refused.
- `ClampedExactly` is the reflection of `flow` at its running minimum: a balance
  of `flow - low` that is clamped at zero has just made a new minimum.
- `PaceInv`: every call of the runner carries the number of its invocation, a
  `dispatch` call of the current one has set the payload, and `paid` is the
  payload when the wait begins.
- `AgentInv`: a plan is checked before the await of `enqueue()` and added after
  it, so the calls between the two were checked as well.
- `SupervisorInv`: the supervisor's own event can only be set while its handler
  is in place, which is until the first turn of the tasks (`HandlerReplaced`).
  Until then the runner is at most in its first wait and nothing is queued
  (`Fresh`). Once the shutdown is under way the runner finds its event set when
  the wait is over, or is gone (`Quiet`).

The refinements are proved step by step. For the ledger, every action is a
`Post`, an `Answer`, a `Close` or a stutter. For the compositions, every step is a
step of the part or leaves its variables alone: what is proved of
`BlockConsumer`, `BalanceRepository`, `IngestionDaemon` and `AgentRunner` holds in
them.

**Hypotheses.** No theorem assumes anything of the deployment: how long a restart
takes, what raises, when Redis loses its data and what the node does are all
left open. `OneWorkerSignsInOrder` needs one worker, which is the code's default;
with several the order is not kept. What a restart does not take up is an
exception in the properties themselves, entry by entry: `InOrder` lets an entry of
`left` be overtaken, `RowIsNewest` lets a row be that of an entry that was left and
taken up late, and `BalancesReplayStream` speaks of balances as
long as no entry that was left has been committed, since clamping depends on the
order. `FlowIsTransfers`, `ClampedExactly` and `TotalNeverShrinks` need no exception.

**The parser.** `TransferParserProofs` proves that the two loops of the parser
compute the book the block describes. It takes three things: that a recursion along
`0..n` has a solution and only one (`RecursionAlong`, `AgreeAlong`), which a least
number without a solution, or with two, refutes (`LeastNat`); that the sum over
a finite set exists and does not depend on the order in which `MapThenSumSet`
takes the elements (`SumsExist`, `SumsAgree`, `SumsRemove`), by a least
cardinality; and the loop invariant, that after log j of receipt i the net change
of an account is what the positions up to <<i, j>> bring it less what they take
(`BookedGrows`, `ReceiptAdds`). Conservation is the same induction with
`GainsCancel`: a log gives one user what it takes from another.

Only model-checked: all liveness (`EverySettles`, `ShutdownEnds`, `Reconnects`,
`StopsAfterBackoff`, `StopCompletes`, `ShutdownCompletes`), which is out of this prover's reach.

## 7. What the models show of the code

Four statements of the repository's documents do not hold of the code; each is
a run with its counterexample, and a finding in `PROJECT.json`.

- A block the daemon validated and added is dead-lettered by all workers when
  its number is the node's hex string (`block_hex`).
- A block whose transfers exceed 32 bits is refused by PostgreSQL and
  dead-lettered, though the balance is described as a uint256
  (`tables_uint256`).
- A signal to a running process only stops the vector indexer, whose handler
  has replaced the supervisor's (`supervisor_signal`). The orderly shutdown is
  reached only by a signal that is received before the created tasks had their
  first turn.
- The backoff is reset by a connection that broke at once: `record_success()`
  measures from one connection to the next, so the wait in between counts as
  connected, and a wait of the threshold or more resets the attempts
  (`ingest_reset`; `backoff.py:7` wants a connection that lasted, and "continues
  exponential progression" otherwise). This is also what keeps `AttemptBounded`.

Others were met while modelling and are visible in the models' actions, without
a run of their own. First those that disagree with a document:

- A vector indexer never claims what a crashed one had read
  (`docs/orchestration-architecture.mmd:129`; `Claims` in `BlockConsumer`).
- A state or balance tracker that is restarted within 30 s finds none of what the
  crashed one was given last, and its orphan pass is not repeated: these blocks
  stay pending until a later restart, and newer ones overtake them
  (`docs/orchestration-architecture.mmd:128`, `:130`; `left` in `BlockConsumer`).
  The same holds of the pool and its 60 s (`Claim` in `ExecutionPool`).
- "Broadcast a signed transaction and return the tx hash" (`dispatcher.py:279`): a
  null result becomes the string "None", which is reported as the hash of a
  completed intent (`dispatcher.py:300`; `NullHash`).
- Balance deltas are not idempotent: a crash between the commit and XACK adds
  them twice (`balance_repository.py:4`; `BalancesReplayStream` counts each
  commit).
- A condition whose parameters do not convert strands its intent and the rest
  of the batch in the PEL (`dispatch.py:36`; `Raise` in `ExecutionPool`).
- "completed" is written for a transaction that is merely pending; nobody polls
  for the receipt (`dispatcher.py:286`; `SendRaw`).
- One `connect()` that raises while reconnecting ends the daemon
  (`daemon.py:352`; `ConnectRaises`).
- A log whose topics have no length, or whose address is no string, makes the
  parser raise, which "never crashes on malformed entries"
  (`transfer_parser.py:8`; `Crashes`).
- `execution_payload` is set, and reported by the API, for a plan that was
  rejected or could not be queued (`graph.py:187`; `HasPayload`).
- `_check_recursion_limit` has no caller (`graph.py:9`).
- "Returns the method that was successfully subscribed" (`daemon.py:82`) holds
  only if no answer is late and no keepalive comes between, since answers are
  not matched by their id. Mini-blocks read as headers become block 0
  (`Confirms`, `Normalised`).

And the rest:

- When XADD takes effect and raises, the LLM is told "rejected" for an intent
  that will be executed (`Enqueue` in `AgentRunner`).
- An exception of a tool may leave the graph while other tools of the same
  message still run, and may still queue an intent after the invocation
  (`ToolRaised`).
- A part that ends with an exception is noticed by nobody before the shutdown
  (`PartFails`).
- An idle worker of the pool, an idle state tracker and an idle vector indexer
  do not look at their shutdown event: `consume()` loops without yielding while
  the stream is empty (`dispatch.py:162`, `consumer.py:142`). The pool then
  ends by its 30 s timer, the others by cancellation. In the models `Fetch` and
  `Read` do not read `proc` (but for the balance tracker).
- A block is dead-lettered at the first exception, also if only XACK raised
  after the commit, not after three retries (`Ack`, `Bury`).
- An error of Redis in the main loop ends a block worker for good (`Escape`).
- A regular close of the connection leaves the daemon spinning on it
  (`CloseReturns` is the only step out of it).
- An idle daemon does not end at `shutdown()`, since it waits for a message
  (`Message`).
- The keepalive loop breaks at its first failed send and is never started again
  (`Loop`, `KeepaliveEnds`).
- The delay after a long connection is still that of the disconnects before it,
  since `record_success` comes with the *next* connection (`RecordSuccess`).
- After Redis lost its data the pool creates its group at the end of the stream:
  intents enqueued between the loss and that moment are executed by nobody and
  have no result (`Regroup`).

## 8. What is left out

- **Text.** JSON, formatting, logging, metrics, prompts. Where a conversion
  decides something (decimal or hex, a parameter that does not convert) it is a
  kind of the entry.
- **Amounts.** Balances and transfers are small numbers; no arithmetic of the
  code wraps. Of the columns `balance_raw`, `last_updated_block`, `block_number`,
  `mini_block_number` and `index` have their width; `block_timestamp`, `gas_used`,
  `tx_count`, symbols and decimals are left out.
- **The vector index** (embedder, Qdrant client, summarizer) and **the read-only
  tools**: single calls and formatting, with no state between them. Their callers
  have their outcomes.
- **The rest of the API, metrics, configuration, logging, scripts**: they read,
  count or print.
- **LangGraph**: nodes and routing are modelled, the library's own behaviour
  (reducers, whether an exception of a tool becomes a message, whether a node is
  given its `config`) is a choice or left out. `agents/state.py` names a reducer
  by a string ("operator.add"); the models need none.
- **External systems**: the node, the mempool, the network, the death of the
  process, and Redis losing its data (both streams, the groups and the results)
  are modelled from how the code uses them
  and are marked external in `PROJECT.json`.
- **Errors before anything was read.** Start-up calls that raise
  (`initialize()`, the first `connect()` to PostgreSQL) end the process without
  having touched an entry; they are a `Boot` that did not happen.
- **Several processes on one group.** `docker-compose.yml` runs one `app`
  container, and consumer names are fixed.
