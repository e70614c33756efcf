---------------------------- MODULE ExecutionPool ----------------------------
(***************************************************************************)
(* The execution path of the orchestration layer:                          *)
(*                                                                         *)
(*   dispatch tool --XADD--> megaeth:stream:executions --XREADGROUP-->     *)
(*   WorkerPool._worker --> TransactionExecutor.execute --> chain          *)
(*                      --> result hash --> XACK                           *)
(*                                                                         *)
(* app/agents/dispatch.py   ExecutionQueue: stream, group, PEL, results    *)
(* app/agents/dispatcher.py WorkerPool and TransactionExecutor             *)
(*                                                                         *)
(* An entry of the stream is named by its position: the entry ids that     *)
(* Redis hands out grow, so position n stands for the n-th id.  All the    *)
(* coroutines run on one event loop: an action is what a coroutine does    *)
(* between two awaits (or less).  Redis outlives the process, but may lose *)
(* its data; the process may die between any two actions and be booted     *)
(* again.                                                                  *)
(***************************************************************************)
EXTENDS Integers, FiniteSets

CONSTANTS
  Workers,      \* the tasks executor-0, executor-1, ... (worker_pool_count)
  Starter,      \* the coroutine running WorkerPool.start(): the orphan pass
  Kinds,        \* the kinds of intent that are put on the stream
  MaxConcurrent,\* permits of the semaphore (max_concurrent_tx)
  FetchCount,   \* COUNT of XREADGROUP (5 in the code)
  ClaimCount,   \* COUNT of XAUTOCLAIM (50 in the code)
  MaxLen,       \* MAXLEN of the stream (100 000 in the code)
  MaxEntries,   \* bound of the model: intents ever enqueued
  MaxSessions,  \* bound of the model: times the process is booted
  MaxFaults,    \* bound of the model: Redis calls that raise
  MaxLosses     \* bound of the model: times Redis loses its data

(***************************************************************************)
(* "plain"        the trigger condition holds whenever it is evaluated     *)
(* "conditional"  it may or may not hold at the moment of evaluation       *)
(* "raising"      evaluating it raises (float("soon") in the params)       *)
(* "unparseable"  the payload is empty or is not an ExecutionPayload       *)
(***************************************************************************)
AllKinds == {"plain", "conditional", "raising", "unparseable"}

ASSUME PoolAssumption ==
  /\ Starter \notin Workers
  /\ Kinds \subseteq AllKinds
  /\ MaxConcurrent \in Nat \ {0}
  /\ FetchCount \in Nat \ {0}
  /\ ClaimCount \in Nat \ {0}
  /\ MaxLen \in Nat \ {0}
  /\ MaxEntries \in Nat
  /\ MaxSessions \in Nat
  /\ MaxFaults \in Nat
  /\ MaxLosses \in Nat

VARIABLES
  (* Redis *)
  tail,     \* entries added so far: the stream is 1..tail ...
  first,    \* ... without the oldest, 1..first, trimmed away by MAXLEN
  kind,     \* what was put in each entry
  group,    \* whether the consumer group exists: "exists" or "none"
  cursor,   \* last-delivered-id of the group
  pel,      \* pending entries list of the group
  result,   \* result hash of each intent
  losses,   \* times the data was lost
  (* the process: lost when it dies *)
  proc,     \* "down", "up", "stopping" (stop() has set the shutdown event)
  session,  \* how often the process was booted
  pc,       \* where each coroutine is suspended
  batch,    \* entries a coroutine was given and has not acknowledged
  nonce,    \* TransactionExecutor._nonce
  mine,     \* the nonce a coroutine signed its transaction with
  attempt,  \* attempt of _broadcast it is at
  out,      \* status of the dict execute() returned to it
  faults,   \* Redis calls that raised so far
  (* the chain, as seen through the RPC node *)
  count,    \* transactions of the account included so far
  took,     \* transactions the node ever took into its mempool
  (* history *)
  signed,   \* every transaction ever signed
  answer,   \* the last answer an entry was given: a result or a dead letter
  missed    \* entries the group never had: created behind them, or lost

stream == <<tail, first, kind>>
subscr == <<group, cursor, pel>>
redis  == <<stream, subscr, result, losses>>
coros  == <<pc, batch, mine, attempt, out>>
chain  == <<count, took>>
fate   == <<signed, answer, missed>>
vars   == <<redis, proc, session, coros, nonce, faults, chain, fate>>

Entries == 1..MaxEntries
Actors  == Workers \cup {Starter}
None    == -1   \* no nonce, no transaction hash
NullHash == -2  \* the transaction hash "None", of a null result

Statuses == {"none", "completed", "skipped", "failed"}
Answers  == {"completed", "skipped", "failed", "buried"}
Outs     == {"none", "success", "null", "skipped", "failed"}
Results  == [status : Statuses, tx : Nat \cup {None, NullHash}]
NoResult == [status |-> "none", tx |-> None]
Txs      == [entry : Entries, nonce : Nat]
Signed   == [entry : Entries, nonce : Nat, session : Nat]
PCs      == {"off", "fetch", "take", "bury", "sem", "cond", "nonce", "count",
             "send", "record", "ack", "sleep"}

TypeOK ==
  /\ tail \in 0..MaxEntries /\ first \in 0..tail /\ cursor \in 0..tail
  /\ kind \in [Entries -> AllKinds]
  /\ group \in {"exists", "none"} /\ pel \subseteq Entries
  /\ losses \in 0..MaxLosses
  /\ result \in [Entries -> Results]
  /\ proc \in {"down", "up", "stopping"}
  /\ session \in 0..MaxSessions /\ faults \in 0..MaxFaults
  /\ pc \in [Actors -> PCs]
  /\ batch \in [Actors -> SUBSET Entries]
  /\ nonce \in Nat \cup {None} /\ mine \in [Actors -> Nat \cup {None}]
  /\ attempt \in [Actors -> 1..3] /\ out \in [Actors -> Outs]
  /\ count \in Nat /\ took \subseteq Txs
  /\ signed \subseteq Signed /\ missed \subseteq Entries
  /\ answer \in [Entries -> Answers \cup {"none"}]

Init ==
  /\ tail = 0 /\ first = 0 /\ cursor = 0
  /\ kind = [e \in Entries |-> "plain"]
  /\ group = "none" /\ pel = {} /\ losses = 0
  /\ result = [e \in Entries |-> NoResult]
  /\ proc = "down" /\ session = 0 /\ faults = 0
  /\ pc = [a \in Actors |-> "off"]
  /\ batch = [a \in Actors |-> {}]
  /\ nonce = None /\ mine = [a \in Actors |-> None]
  /\ attempt = [a \in Actors |-> 1] /\ out = [a \in Actors |-> "none"]
  /\ count = 0 /\ took = {} /\ signed = {} /\ missed = {}
  /\ answer = [e \in Entries |-> "none"]

-----------------------------------------------------------------------------
(* Helpers *)

Parseable(e) == kind[e] # "unparseable"
Least(e, S)  == e \in S /\ \A f \in S : e <= f
NewestFirst(a, e) == e \in batch[a] /\ \A f \in batch[a] : f <= e  \* mutant
Current(a, e) == Least(e, batch[a])       \* entries are handled in id order

\* approximate MAXLEN trimming: Redis drops a prefix, never below MAXLEN
TrimTo(len) == {f \in first..len : f = first \/ len - f >= MaxLen}

\* XGROUP CREATE id="$": what is in the stream already is not delivered
CreateGroup ==
  /\ group' = "exists"
  /\ cursor' = tail
  /\ missed' = missed \cup cursor + 1 .. tail

\* start() returns: the tasks exist and enter their loops
Spawned == [a \in Actors |-> IF a = Starter THEN "off" ELSE "fetch"]

\* mutant: the workers are spawned before the orphan pass
BootedWithWorkers == [a \in Actors |-> "fetch"]

\* start() is at its orphan pass: the workers do not exist yet
Booted == [pc EXCEPT ![Starter] = "fetch"]

Goto(a, label) == pc' = [pc EXCEPT ![a] = label]

Forget(a) ==
  /\ mine'    = [mine EXCEPT ![a] = None]
  /\ attempt' = [attempt EXCEPT ![a] = 1]
  /\ out'     = [out EXCEPT ![a] = "none"]

(***************************************************************************)
(* An exception leaves the body of the loop.  A worker logs it, sleeps one *)
(* second and opens a new consume(): the entries that the old generator    *)
(* still held stay in the PEL.  In start() it ends the orphan pass.        *)
(***************************************************************************)
Raise(a) ==
  /\ pc' = IF a = Starter THEN Spawned ELSE [pc EXCEPT ![a] = "sleep"]
  /\ batch' = [batch EXCEPT ![a] = {}]
  /\ Forget(a)

\* one more Redis call raises (connection lost, timeout)
Faulty == faults < MaxFaults /\ faults' = faults + 1

-----------------------------------------------------------------------------
(* Redis and the process *)

\* The dispatch tool enqueues a validated payload; it runs in the process,
\* after WorkerPool.start() returned.
Enqueue ==
  /\ proc # "down" /\ pc[Starter] = "off"
  /\ tail < MaxEntries
  /\ \E k \in Kinds, f \in TrimTo(tail + 1) :
       /\ tail' = tail + 1
       /\ kind' = [kind EXCEPT ![tail + 1] = k]
       /\ first' = f
  /\ UNCHANGED <<subscr, result, losses, proc, session, coros, nonce, faults,
                 chain, fate>>

\* Redis restarts without its data (it runs with appendonly no)
LoseData ==
  /\ losses < MaxLosses /\ losses' = losses + 1
  /\ first' = tail /\ group' = "none" /\ pel' = {}
  /\ missed' = missed \cup pel \cup cursor + 1 .. tail
  /\ cursor' = tail
  /\ result' = [e \in Entries |-> NoResult]
  /\ UNCHANGED <<tail, kind, proc, session, coros, nonce, faults, chain,
                 signed, answer>>

\* a result hash expires, 24 hours after it was written last
Expire ==
  /\ \E e \in Entries :
       /\ result[e] # NoResult
       /\ result' = [result EXCEPT ![e] = NoResult]
  /\ UNCHANGED <<stream, subscr, losses, proc, session, coros, nonce, faults,
                 chain, fate>>

\* A new process: WorkerPool() and start() up to the orphan pass.  The stream
\* is trimmed again, and the group is created unless it exists.
Boot ==
  /\ proc = "down" /\ session < MaxSessions
  /\ proc' = "up" /\ session' = session + 1
  /\ \E f \in TrimTo(tail) : first' = f
  /\ IF group = "exists" THEN UNCHANGED <<group, cursor, missed>> ELSE CreateGroup
  /\ pc' = Booted
  /\ nonce' = None
  /\ UNCHANGED <<tail, kind, pel, result, losses, batch, mine, attempt, out,
                 faults, chain, signed, answer>>

\* stop() sets the shutdown event and waits for the tasks
RequestStop ==
  /\ proc = "up" /\ pc[Starter] = "off" /\ session < MaxSessions
  /\ proc' = "stopping"
  /\ UNCHANGED <<redis, session, coros, nonce, faults, chain, fate>>

\* every coroutine is gone, with all it had in memory
Die ==
  /\ session < MaxSessions
  /\ proc' = "down"
  /\ pc' = [a \in Actors |-> "off"]
  /\ batch' = [a \in Actors |-> {}]
  /\ mine' = [a \in Actors |-> None]
  /\ attempt' = [a \in Actors |-> 1]
  /\ out' = [a \in Actors |-> "none"]
  /\ nonce' = None
  /\ UNCHANGED <<redis, session, faults, chain, fate>>

Crash == proc = "up" /\ Die

\* stop() returns: the tasks ended, or 30 s passed and they were cancelled
StopReturns == proc = "stopping" /\ Die

-----------------------------------------------------------------------------
(* WorkerPool: the loop of a worker and the orphan pass of start() *)

\* XREADGROUP ">": the next entries that are still in the stream
Fetch(w) ==
  /\ pc[w] = "fetch" /\ w # Starter /\ group = "exists"
  /\ LET lo == IF first > cursor THEN first ELSE cursor
         hi == IF tail - lo <= FetchCount THEN tail ELSE lo + FetchCount
     IN /\ lo < tail
        /\ cursor' = hi
        /\ pel' = pel \cup lo + 1 .. hi
        /\ \/ /\ batch' = [batch EXCEPT ![w] = lo + 1 .. hi]
              /\ Goto(w, "take")
              /\ UNCHANGED <<mine, attempt, out, faults>>
           \/ Raise(w) /\ Faulty
  /\ UNCHANGED <<stream, group, result, losses, proc, session, nonce, chain,
                 fate>>

\* NOGROUP: the group is created at the end of the stream, and XREADGROUP is
\* tried again.  (When XGROUP CREATE raises after it took effect, that is
\* this action and CallRaises; below the same of set_result and XADD.)
Regroup(w) ==
  /\ pc[w] = "fetch" /\ w # Starter /\ group = "none"
  /\ CreateGroup
  /\ UNCHANGED <<stream, pel, result, losses, proc, session, coros, nonce,
                 faults, chain, signed, answer>>

\* XAUTOCLAIM: S are the pending entries that were idle for 60 s.  Those that
\* were trimmed leave the PEL; those that do not parse are only logged.  (No
\* group, no pending entries: NOGROUP is logged, and nothing is claimed.)
Claim ==
  /\ pc[Starter] = "fetch"
  /\ \E S \in SUBSET pel :
       LET live == {e \in S : e > first}
       IN /\ Cardinality(live) <= ClaimCount
          /\ pel' = pel \ (S \ live)
          /\ \/ /\ batch' = [batch EXCEPT ![Starter] =
                                {e \in live : Parseable(e)}]
                /\ Goto(Starter, "take")
                /\ UNCHANGED <<mine, attempt, out, faults>>
             \/ Raise(Starter) /\ Faulty
  /\ UNCHANGED <<stream, group, cursor, result, losses, proc, session, nonce,
                 chain, fate>>

\* the batch is exhausted: the next XREADGROUP, or start() spawns the workers
BatchDone(a) ==
  /\ pc[a] = "take" /\ batch[a] = {}
  /\ pc' = IF a = Starter THEN Spawned ELSE [pc EXCEPT ![a] = "fetch"]
  /\ UNCHANGED <<redis, proc, session, batch, mine, attempt, out, nonce,
                 faults, chain, fate>>

\* consume() yields the next entry, or buries it when it does not parse; the
\* shutdown event is looked at here and nowhere else
Take(a) ==
  /\ pc[a] = "take"
  /\ \E e \in batch[a] :
       /\ Current(a, e)
       /\ \/ /\ ~Parseable(e)
             /\ Goto(a, "bury") /\ UNCHANGED batch
          \/ /\ Parseable(e) /\ a # Starter /\ proc = "stopping"
             /\ Goto(a, "off")
             /\ batch' = [batch EXCEPT ![a] = {}]
          \/ /\ Parseable(e) /\ a # Starter /\ proc = "up"
             /\ Goto(a, "sem") /\ UNCHANGED batch
          \/ /\ a = Starter
             /\ Goto(a, "cond") /\ UNCHANGED batch
  /\ UNCHANGED <<redis, proc, session, mine, attempt, out, nonce, faults,
                 chain, fate>>

\* async with self._semaphore
Busy == {w \in Workers : (pc[w] \in {"cond", "nonce", "count", "send", "record"})
                         \/ (pc[w] = "ack" /\ out[w] # "none")}
Acquire(w) ==
  /\ pc[w] = "sem" /\ Cardinality(Busy) < MaxConcurrent
  /\ Goto(w, "cond")
  /\ UNCHANGED <<redis, proc, session, batch, mine, attempt, out, nonce,
                 faults, chain, fate>>

\* after an exception: one second later, unless the pool is being stopped
Wake(w) ==
  /\ pc[w] = "sleep"
  /\ Goto(w, IF proc = "stopping" THEN "off" ELSE "fetch")
  /\ UNCHANGED <<redis, proc, session, batch, mine, attempt, out, nonce,
                 faults, chain, fate>>

\* _dead_letter_raw
Bury(a) ==
  /\ pc[a] = "bury"
  /\ \E e \in batch[a] :
       Current(a, e) /\ answer' = [answer EXCEPT ![e] = "buried"]
  /\ Goto(a, "ack")
  /\ UNCHANGED <<redis, proc, session, batch, mine, attempt, out, nonce,
                 faults, chain, signed, missed>>

\* mutant: the orphan pass reports every intent it executed as completed
ReportedDone(a) == CASE out[a] \in {"success", "null"} \/ a = Starter -> "completed"
                     [] out[a] = "skipped" -> "skipped"
                     [] OTHER -> "failed"

\* the status that is reported for what execute() returned
Reported(a) == CASE out[a] \in {"success", "null"} -> "completed"
                 [] out[a] = "skipped" /\ a # Starter -> "skipped"
                 [] OTHER -> "failed"

\* set_result merges fields into the hash: a field it does not write stays
Hash(a, old) == CASE out[a] = "success" -> mine[a]
                  [] out[a] = "null"    -> NullHash
                  [] OTHER              -> old

Record(a) ==
  /\ pc[a] = "record"
  /\ \E e \in batch[a] :
       /\ Current(a, e)
       /\ result' = [result EXCEPT ![e] =
                       [status |-> Reported(a), tx |-> Hash(a, @.tx)]]
       /\ answer' = [answer EXCEPT ![e] = Reported(a)]
  /\ Goto(a, "ack")
  /\ UNCHANGED <<stream, subscr, losses, proc, session, batch, mine, attempt,
                 out, nonce, faults, chain, signed, missed>>

\* mutant: one XACK for all that is left of the batch
AckBatch(a) ==
  /\ pc[a] = "ack"
  /\ \E e \in batch[a] :
       /\ Current(a, e) /\ Goto(a, "take")
       /\ pel' = pel \ batch[a]
       /\ batch' = [batch EXCEPT ![a] = @ \ {e}]
       /\ Forget(a)
  /\ UNCHANGED <<stream, group, cursor, result, losses, proc, session, nonce,
                 faults, chain, fate>>

\* XACK; it has no effect on what the group does not have (any more)
Ack(a) ==
  /\ pc[a] = "ack"
  /\ \E e \in batch[a] :
       /\ Current(a, e)
       /\ pel' = pel \ {e}
       /\ \/ /\ Goto(a, "take")
             /\ batch' = [batch EXCEPT ![a] = @ \ {e}]
             /\ Forget(a) /\ UNCHANGED faults
          \/ Raise(a) /\ Faulty
  /\ UNCHANGED <<stream, group, cursor, result, losses, proc, session, nonce,
                 chain, fate>>

\* a Redis call that raises and had no effect
CallRaises(a) ==
  /\ pc[a] \in {"fetch", "bury", "record", "ack"}
  /\ Raise(a) /\ Faulty
  /\ UNCHANGED <<redis, proc, session, nonce, chain, fate>>

-----------------------------------------------------------------------------
(* TransactionExecutor.execute *)

\* mutant: only a success is written to the result hash
OutcomeUnrecorded(a, status) ==
  /\ out' = [out EXCEPT ![a] = status]
  /\ Goto(a, IF status = "success" THEN "record" ELSE "ack")

\* mutant: an intent whose condition does not hold is left for later
OutcomeDeferred(a, status) ==
  /\ out' = [out EXCEPT ![a] = status]
  /\ Goto(a, IF status = "skipped" THEN "fetch" ELSE "record")

\* execute() returns a dict with this status; set_result and XACK follow
Outcome(a, status) ==
  /\ out' = [out EXCEPT ![a] = status]
  /\ Goto(a, "record")

\* The condition is evaluated outside of the try block of execute().
CheckConditions(a) ==
  /\ pc[a] = "cond"
  /\ \E e \in batch[a] :
       /\ Current(a, e)
       /\ \/ /\ kind[e] \in {"plain", "conditional"}
             /\ Goto(a, "nonce")
             /\ UNCHANGED <<batch, mine, attempt, out>>
          \/ /\ kind[e] = "conditional"
             /\ Outcome(a, "skipped")
             /\ UNCHANGED <<batch, mine, attempt>>
          \/ kind[e] = "raising" /\ Raise(a)
  /\ UNCHANGED <<redis, proc, session, nonce, faults, chain, fate>>

NoNonceLock == FALSE  \* mutant: _get_nonce without its lock

\* the lock of _get_nonce is held across the one await in it
NonceLocked == \E b \in Actors : pc[b] = "count"

Sign(a, e, n) ==
  /\ nonce' = n
  /\ mine' = [mine EXCEPT ![a] = n]
  /\ signed' = signed \cup {[entry |-> e, nonce |-> n, session |-> session]}
  /\ Goto(a, "send")

\* _get_nonce, up to its await; then the transaction is assembled and signed
GetNonce(a) ==
  /\ pc[a] = "nonce" /\ ~NonceLocked
  /\ \E e \in batch[a] :
       /\ Current(a, e)
       /\ \/ nonce # None /\ Sign(a, e, nonce + 1)
          \/ nonce = None /\ Goto(a, "count") /\ UNCHANGED <<nonce, mine, signed>>
  /\ UNCHANGED <<redis, proc, session, batch, attempt, out, faults, chain,
                 answer, missed>>

\* get_transaction_count answers or raises; either way the lock is released
CountReply(a) ==
  /\ pc[a] = "count"
  /\ \E e \in batch[a] :
       /\ Current(a, e)
       /\ \/ Sign(a, e, count) /\ UNCHANGED out
          \/ Outcome(a, "failed") /\ UNCHANGED <<nonce, mine, signed>>
  /\ UNCHANGED <<redis, proc, session, batch, attempt, faults, chain, answer,
                 missed>>

\* The node takes the transaction into its mempool, where it may replace one
\* of the same nonce.  It may be included later, or be replaced or forgotten.
Pool(tx) ==
  /\ tx.nonce >= count
  /\ took' = took \cup {tx}
  /\ UNCHANGED count
Include(tx) ==
  /\ tx.nonce = count
  /\ count' = count + 1
  /\ took' = took \cup {tx}

FourthAttempt == 4  \* mutant: one attempt too many
LastAttempt == 3

\* mutant: an attempt that failed is signed anew
RetryFreshNonce(a) ==
  /\ attempt' = [attempt EXCEPT ![a] = @ + 1]
  /\ Goto(a, "nonce")
  /\ UNCHANGED out

\* the same signed transaction is handed to the next attempt
Retry(a) ==
  /\ attempt' = [attempt EXCEPT ![a] = @ + 1]
  /\ UNCHANGED <<pc, out>>

\* the node takes the transaction or not, whatever the caller gets to see
Offer(tx) == Pool(tx) \/ UNCHANGED chain

\* attempts 1 and 2, eth_sendRawTransactionSync: a hash means that the
\* transaction is included; an error says nothing about what the node did.
\* str() makes "None" of a null result, which is returned like a hash.
SendSync(a) ==
  /\ pc[a] = "send" /\ attempt[a] < LastAttempt
  /\ \E e \in batch[a] :
       LET tx == [entry |-> e, nonce |-> mine[a]]
       IN /\ Current(a, e)
          /\ \/ Include(tx) /\ Outcome(a, "success") /\ UNCHANGED attempt
             \/ /\ tx \in took /\ tx.nonce < count /\ UNCHANGED <<chain, attempt>>
                /\ Outcome(a, "success")
             \/ Offer(tx) /\ Outcome(a, "null") /\ UNCHANGED attempt
             \/ Offer(tx) /\ Retry(a)
  /\ UNCHANGED <<redis, proc, session, batch, mine, nonce, faults, fate>>

\* attempt 3, eth_sendRawTransaction: a hash means that the node took it
SendRaw(a) ==
  /\ pc[a] = "send" /\ attempt[a] = LastAttempt
  /\ \E e \in batch[a] :
       LET tx == [entry |-> e, nonce |-> mine[a]]
       IN /\ Current(a, e)
          /\ \/ Offer(tx) /\ tx \in took' /\ Outcome(a, "success")
             \/ \E s \in {"null", "failed"} : Offer(tx) /\ Outcome(a, s)
  /\ UNCHANGED <<redis, proc, session, batch, mine, attempt, nonce, faults,
                 fate>>

\* the sequencer includes a waiting transaction
Mine ==
  /\ \E tx \in took : Include(tx)
  /\ UNCHANGED <<redis, proc, session, coros, nonce, faults, fate>>

-----------------------------------------------------------------------------

Step(a) ==
  \/ BatchDone(a) \/ Take(a) \/ Bury(a) \/ Record(a) \/ Ack(a) \/ CallRaises(a)
  \/ CheckConditions(a) \/ GetNonce(a) \/ CountReply(a)
  \/ SendSync(a) \/ SendRaw(a)

WorkerStep(w) == Fetch(w) \/ Regroup(w) \/ Acquire(w) \/ Wake(w) \/ Step(w)
StarterStep   == Claim \/ Step(Starter)

Next ==
  \/ Enqueue \/ LoseData \/ Expire
  \/ Boot \/ RequestStop \/ Crash \/ StopReturns
  \/ \E w \in Workers : WorkerStep(w)
  \/ StarterStep
  \/ Mine

Spec == Init /\ [][Next]_vars

(***************************************************************************)
(* The event loop runs every task that can run (its locks and semaphores   *)
(* wake their waiters in FIFO order), the supervisor boots a dead process  *)
(* and stop() has a timer.  Nothing makes a crash, a request to stop, a    *)
(* loss of data, a new intent or an inclusion by the sequencer happen.     *)
(***************************************************************************)
Fairness ==
  /\ \A w \in Workers : WF_vars(WorkerStep(w))
  /\ WF_vars(StarterStep) /\ WF_vars(Boot) /\ WF_vars(StopReturns)

FairSpec == Spec /\ Fairness

-----------------------------------------------------------------------------
(* Properties *)

\* An entry is in the hands of at most one coroutine, and as long as it is
\* held it is pending, unless Redis lost the group: the orphan pass never
\* takes what a worker works on, nor does a worker take what another one has.
ExclusiveHolding ==
  \A a \in Actors :
    /\ batch[a] \subseteq pel \cup missed
    /\ \A b \in Actors : a # b => batch[a] \cap batch[b] = {}

\* What left the PEL was given a result or a dead letter, whatever died or
\* raised in between: XACK comes last ("Call after the message has been
\* durably processed").  Entries dropped by MAXLEN, or lost with the group,
\* excepted.
Gone(e) == e <= first \/ e \in missed
AnsweredBeforeAck ==
  \A e \in 1..cursor : e \in pel \/ Gone(e) \/ answer[e] # "none"

\* One process signs one transaction at most for an intent, however often
\* Redis calls fail; only a restart can execute an intent again.
OneTxPerSession ==
  \A s, t \in signed : s.entry = t.entry /\ s.session = t.session => s = t

\* No two transactions of one process share a nonce (_nonce_lock).
NonceUnique ==
  \A s, t \in signed : s.nonce = t.nonce /\ s.session = t.session => s = t

\* With one worker, intents are signed in the order they were enqueued, the
\* orphans of earlier processes first.
SignedInOrder ==
  \A s, t \in signed : s.session = t.session /\ s.entry < t.entry
                         => s.nonce < t.nonce

\* A "completed" result names a transaction that was signed for this very
\* intent and that the node took, however often the intent was executed and
\* whichever attempts raised, or it names none: then a broadcast was answered
\* with null.
CompletedWasSent ==
  \A e \in Entries : result[e].status = "completed" =>
    result[e].tx = NullHash \/ [entry |-> e, nonce |-> result[e].tx] \in took

\* Every enqueued intent is eventually delivered and leaves the PEL, or is
\* lost with the group.
Settled(e) == (e <= cursor /\ e \notin pel) \/ Gone(e)
EverySettles == \A e \in Entries : e <= tail ~> Settled(e)

(***************************************************************************)
(* What dispatching an intent promises is the ledger of module             *)
(* DeliveryLedger ("XREADGROUP with consumer groups for at-least-once      *)
(* delivery").  An entry is open until it is acknowledged, or skipped      *)
(* because MAXLEN dropped it; one that was lost while a coroutine held it, *)
(* until the coroutine lets go of it.                                      *)
(***************************************************************************)
Held          == UNION {batch[a] : a \in Actors}
LedgerOpen    == pel \cup Held \cup cursor + 1 .. tail
LedgerDropped == 1..first \cup missed

Ledger == INSTANCE DeliveryLedger WITH
            MaxPosts <- MaxEntries,
            posted   <- tail,
            open     <- LedgerOpen,
            dropped  <- LedgerDropped

\* The pool implements the ledger: an intent stays open until it is answered
\* and the answer of an acknowledged intent never changes.
LedgerSpec == Ledger!Spec
=============================================================================
