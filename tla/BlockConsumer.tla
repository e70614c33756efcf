---------------------------- MODULE BlockConsumer ----------------------------
(***************************************************************************)
(* One consumer group of the block stream megaeth:raw:miniBlocks:          *)
(*                                                                         *)
(*   StreamBuffer.add --> XREADGROUP --> _process_entry --> sink --> XACK  *)
(*                                                                         *)
(* app/streams/buffer.py, consumer.py   StreamBuffer and StreamConsumer    *)
(* app/state/worker.py                  role = "state":   PostgreSQL rows  *)
(* app/state/balance_worker.py          role = "balance": balance deltas   *)
(* app/vector/worker.py                 role = "vector":  Qdrant points    *)
(*                                                                         *)
(* The three groups share nothing but the stream, so one group is modelled *)
(* at a time.  An entry is named by its position in the stream; a worker   *)
(* is one coroutine, and an action is what it does between two awaits.     *)
(***************************************************************************)
EXTENDS Integers, FiniteSets

CONSTANTS
  Roles,        \* which workers: "state", "balance", "vector"
  Kinds,        \* which kinds of blocks the daemon adds
  ReadCount,    \* COUNT of XREADGROUP (10 in the code)
  ClaimCount,   \* COUNT of XAUTOCLAIM (100 in the code)
  MaxLen,       \* MAXLEN of the stream (500 000 in the code)
  MaxEntries,   \* bound of the model: blocks published
  MaxSessions,  \* bound of the model: times the worker is started
  MaxFaults,    \* bound of the model: calls to Redis or the sink that raise
  MaxLosses     \* bound of the model: times Redis loses its data

AllRoles == {"state", "balance", "vector"}

(***************************************************************************)
(* "transfers"  a block whose token transfers move balances                *)
(* "plain"      a block that moves none                                    *)
(* "malformed"  a block with a log on which the transfer parser raises     *)
(* "hex"        a block whose number is a hex string, as the node sends it *)
(* The daemon adds only payloads that MiniBlockPayload accepts, with the   *)
(* block number copied as it came; parse_entry reads it as a decimal.      *)
(***************************************************************************)
AllKinds == {"transfers", "plain", "malformed", "hex"}

ASSUME ConsumerAssumption ==
  /\ Roles \subseteq AllRoles
  /\ Kinds \subseteq AllKinds
  /\ ReadCount \in Nat \ {0}
  /\ ClaimCount \in Nat \ {0}
  /\ MaxLen \in Nat \ {0}
  /\ MaxEntries \in Nat
  /\ MaxSessions \in Nat
  /\ MaxFaults \in Nat
  /\ MaxLosses \in Nat

VARIABLES
  (* Redis *)
  tail,     \* entries added so far: the stream is 1..tail ...
  first,    \* ... without 1..first, trimmed away
  kind,     \* what was put in each entry
  group,    \* whether the consumer group exists: "exists" or "none"
  cursor,   \* last-delivered-id of the group
  pel,      \* its pending entries list
  losses,   \* times the data was lost
  (* the worker *)
  role,     \* which of the three workers it is
  proc,     \* the process: "down", "up", "stopping" (shutdown event set)
  session,  \* how often it was started
  loop,     \* "orphans", the pass that precedes the main loop, or "main"
  left,     \* (history) pending entries that a start did not take up
  pc,       \* where it is suspended
  batch,    \* entries it was given and has not dealt with
  faults,   \* calls that raised so far
  (* what became of the entries *)
  applied,  \* how often the sink committed an entry
  tries,    \* how often its processing was begun since the worker was started
  outcome,  \* what was decided about it last
  missed    \* entries the group never had: created behind them, or lost

stream == <<tail, first, kind, group, cursor, pel, losses>>
worker == <<role, proc, session, loop, left>>
fate   == <<applied, tries, outcome, missed>>
vars   == <<stream, worker, pc, batch, faults, fate>>

Outcomes == {"none", "applied", "nothing", "degraded", "buried"}
Entries  == 1..MaxEntries
PCs      == {"off", "claim", "read", "take", "parse", "commit", "ack", "bury",
             "ackdead", "ended"}

\* mutants: only the state tracker looks for orphans; nobody listens
OnlyStateClaims == role = "state"
NeverListens    == FALSE

Claims   == role # "vector"    \* run() begins with claim_pending()
Listens  == role = "balance"   \* consume() is given the shutdown event

TypeOK ==
  /\ tail \in 0..MaxEntries /\ first \in 0..tail /\ cursor \in 0..tail
  /\ kind \in [Entries -> AllKinds] /\ group \in {"exists", "none"}
  /\ pel \subseteq Entries /\ losses \in 0..MaxLosses
  /\ role \in Roles /\ proc \in {"down", "up", "stopping"}
  /\ loop \in {"orphans", "main"} /\ left \subseteq Entries
  /\ session \in 0..MaxSessions /\ faults \in 0..MaxFaults
  /\ pc \in PCs /\ batch \subseteq Entries
  /\ applied \in [Entries -> Nat] /\ tries \in [Entries -> Nat]
  /\ outcome \in [Entries -> Outcomes] /\ missed \subseteq Entries

Init ==
  /\ tail = 0 /\ first = 0 /\ cursor = 0 /\ pel = {} /\ losses = 0
  /\ kind = [e \in Entries |-> "plain"] /\ group = "none"
  /\ role \in Roles /\ proc = "down" /\ loop = "main"
  /\ left = {} /\ session = 0 /\ faults = 0
  /\ pc = "off" /\ batch = {}
  /\ applied = [e \in Entries |-> 0] /\ tries = [e \in Entries |-> 0]
  /\ outcome = [e \in Entries |-> "none"] /\ missed = {}

-----------------------------------------------------------------------------
(* Helpers *)

\* mutant: the newest entry first
LastOfBatch(e) == e \in batch /\ \A f \in batch : e >= f

\* entries are processed in id order
Current(e) == e \in batch /\ \A f \in batch : e <= f

\* approximate MAXLEN trimming: Redis drops a prefix, never below MAXLEN
TrimTo(len) == {f \in first..len : f = first \/ len - f >= MaxLen}

\* XGROUP CREATE id="$": what is in the stream already is not delivered
CreateGroup ==
  /\ group' = "exists"
  /\ cursor' = tail
  /\ missed' = missed \cup cursor + 1 .. tail

Fault == faults < MaxFaults /\ faults' = faults + 1

\* mutant: an exception leads back to the orphan pass
EscapeToClaim ==
  /\ batch' = {} /\ pc' = "claim" /\ loop' = "orphans"
  /\ UNCHANGED <<role, proc, session, left>>

\* An exception leaves _process_entry (or consume): run() catches it in the
\* orphan pass and goes on to the main loop, without the entries that are
\* still pending; there it ends the worker's task.
Escape ==
  /\ batch' = {}
  /\ pc' = IF loop = "orphans" THEN "read" ELSE "ended"
  /\ loop' = "main"
  /\ left' = IF loop = "orphans" THEN left \cup pel ELSE left
  /\ UNCHANGED <<role, proc, session>>

\* mutant: beyond the end of the stream
LastReadNoEnd(lo) == lo + ReadCount

\* XREADGROUP delivers what follows lo, up to COUNT entries
LastRead(lo) == IF tail - lo <= ReadCount THEN tail ELSE lo + ReadCount

Decide(e, what) == outcome' = [outcome EXCEPT ![e] = what]

-----------------------------------------------------------------------------
(* The stream and the process *)

\* the ingestion daemon's XADD (StreamBuffer.add, which nobody calls, is alike)
Publish ==
  /\ tail < MaxEntries
  /\ \E k \in Kinds, f \in TrimTo(tail + 1) :
       /\ tail' = tail + 1
       /\ kind' = [kind EXCEPT ![tail + 1] = k]
       /\ first' = f
  /\ UNCHANGED <<group, cursor, pel, losses, worker, pc, batch, faults, fate>>

\* Redis restarts without its data (it runs with appendonly no)
LoseData ==
  /\ losses < MaxLosses /\ losses' = losses + 1
  /\ first' = tail /\ group' = "none" /\ pel' = {}
  /\ missed' = missed \cup pel \cup cursor + 1 .. tail
  /\ cursor' = tail
  /\ UNCHANGED <<tail, kind, worker, pc, batch, faults, applied, tries,
                 outcome>>

\* run() up to the orphan pass: initialize() and create_consumer_group().
\* The vector indexer has no such pass and goes on to the main loop.
Boot ==
  /\ proc = "down" /\ session < MaxSessions
  /\ proc' = "up" /\ session' = session + 1
  /\ loop' = IF Claims THEN "orphans" ELSE "main"
  /\ pc' = IF Claims THEN "claim" ELSE "read"
  /\ \E f \in IF role = "balance" THEN {first} ELSE TrimTo(tail) : first' = f
  /\ IF group = "exists" THEN UNCHANGED <<group, cursor, missed>> ELSE CreateGroup
  /\ left' = IF role = "vector" THEN left \cup pel ELSE left
  /\ tries' = [e \in Entries |-> 0]
  /\ UNCHANGED <<tail, kind, pel, losses, role, batch, faults, applied,
                 outcome>>

\* the shutdown event is set
Shutdown ==
  /\ proc = "up" /\ session < MaxSessions
  /\ proc' = "stopping"
  /\ UNCHANGED <<stream, role, session, loop, left, pc, batch, faults, fate>>

\* the process is gone, and with it what the worker held
Halt ==
  /\ proc' = "down" /\ loop' = "main"
  /\ pc' = "off" /\ batch' = {}
  /\ UNCHANGED <<stream, role, session, left, faults, fate>>

\* it crashes, or is killed after the grace period of a shutdown
Die == proc # "down" /\ session < MaxSessions /\ Halt

\* it exits, because the worker ended after a shutdown
Exit == proc = "stopping" /\ pc = "ended" /\ Halt

-----------------------------------------------------------------------------
(* The worker: orphan pass and main loop *)

\* claim_pending: of the entries idle for long enough (30 s) XAUTOCLAIM takes
\* the oldest; those that were trimmed leave the PEL.  It is called once.
Claim ==
  /\ pc = "claim"
  /\ \/ \E idle \in SUBSET pel :
          LET taken == {e \in idle :
                          Cardinality({f \in idle : f < e}) < ClaimCount}
          IN /\ pel' = {e \in pel : e \in taken => e > first}
             /\ batch' = {e \in taken : e > first}
             /\ left' = left \cup (pel \ taken)
             /\ pc' = "take"
             /\ UNCHANGED <<role, proc, session, loop, faults>>
     \/ Escape /\ Fault /\ UNCHANGED pel
  /\ UNCHANGED <<tail, first, kind, group, cursor, losses, fate>>

\* one turn of consume(): look at the event, XREADGROUP, or NOGROUP
Read ==
  /\ pc = "read"
  /\ IF Listens /\ proc = "stopping"
     THEN pc' = "ended" /\ UNCHANGED <<stream, worker, batch, faults, fate>>
     ELSE IF group = "none"
     THEN /\ CreateGroup
          /\ UNCHANGED <<tail, first, kind, pel, losses, worker, pc, batch,
                         faults, applied, tries, outcome>>
     ELSE LET lo == IF first > cursor THEN first ELSE cursor
          IN /\ lo < tail
             /\ cursor' = LastRead(lo)
             /\ pel' = pel \cup lo + 1 .. LastRead(lo)
             /\ \/ /\ batch' = lo + 1 .. LastRead(lo) /\ pc' = "take"
                   /\ UNCHANGED <<worker, faults>>
                \/ Escape /\ Fault
             /\ UNCHANGED <<tail, first, kind, group, losses, fate>>

\* XREADGROUP raises without effect: consume() handles ResponseError only
ReadRaises ==
  /\ pc = "read" /\ Escape /\ Fault
  /\ UNCHANGED <<stream, fate>>

\* the loop over the entries; the main loop looks at the event first
Take ==
  /\ pc = "take" /\ batch # {}
  /\ IF proc = "stopping" /\ loop = "main"
     THEN pc' = "ended" /\ batch' = {} /\ UNCHANGED tries
     ELSE /\ pc' = "parse" /\ UNCHANGED batch
          /\ \E e \in batch :
               Current(e) /\ tries' = [tries EXCEPT ![e] = @ + 1]
  /\ UNCHANGED <<stream, worker, faults, applied, outcome, missed>>

\* the batch is exhausted: the main loop, or its next XREADGROUP
BatchDone ==
  /\ pc = "take" /\ batch = {}
  /\ pc' = "read" /\ loop' = "main"
  /\ UNCHANGED <<stream, role, proc, session, left, batch, faults, fate>>

-----------------------------------------------------------------------------
(* _process_entry *)

\* parse_entry reads the block number with int(); the balance tracker also
\* parses the logs
Rejected(e) ==
  /\ kind[e] = "hex" \/ (kind[e] = "malformed" /\ role = "balance")
  /\ pc' = "bury" /\ UNCHANGED outcome

Sink == pc' = "commit" /\ UNCHANGED outcome
Skip(e, why) == pc' = "ack" /\ Decide(e, why)

StateParse(e) == role = "state" /\ kind[e] # "hex" /\ Sink

\* a block without transfers moves no balance
BalanceParse(e) ==
  /\ role = "balance"
  /\ \/ kind[e] = "transfers" /\ Sink
     \/ kind[e] = "plain" /\ Skip(e, "nothing")

\* a block whose embedding fails is not indexed
VectorParse(e) ==
  /\ role = "vector" /\ kind[e] # "hex"
  /\ Sink \/ Skip(e, "degraded")

\* _process_entry up to its call of the sink
Parse ==
  /\ pc = "parse"
  /\ \E e \in batch :
       /\ Current(e)
       /\ Rejected(e) \/ StateParse(e) \/ BalanceParse(e) \/ VectorParse(e)
  /\ UNCHANGED <<stream, worker, batch, faults, applied, tries, missed>>

\* mutant: the sink's error is taken for success
CommitErrorSwallowed ==
  /\ pc = "commit" /\ pc' = "ack"
  /\ \E e \in batch :
       /\ Current(e)
       /\ \/ Decide(e, "applied") /\ UNCHANGED faults
          \/ Fault /\ UNCHANGED outcome
       /\ applied' = [applied EXCEPT ![e] = @ + 1]
  /\ UNCHANGED <<stream, worker, batch, tries, missed>>

Apply(e) == applied' = [applied EXCEPT ![e] = @ + 1]

\* the session's commit, or the Qdrant upsert
Accept(e) == Apply(e) /\ Decide(e, "applied") /\ pc' = "ack" /\ UNCHANGED faults

\* PostgreSQL refuses the block for what it contains, and rolls back
Refuse(e) ==
  /\ role # "vector"
  /\ pc' = "bury" /\ UNCHANGED <<applied, outcome, faults>>

\* the call raises: without effect, or after its effect took place
Lose     == pc' = "bury" /\ Fault /\ UNCHANGED <<applied, outcome>>
Break(e) == Apply(e) /\ pc' = "bury" /\ Fault /\ UNCHANGED outcome

\* the sink
Commit ==
  /\ pc = "commit"
  /\ \E e \in batch :
       Current(e) /\ (Accept(e) \/ Refuse(e) \/ Lose \/ Break(e))
  /\ UNCHANGED <<stream, worker, batch, tries, missed>>

\* XACK at the end of the try block: when it raises, the entry is buried
Ack ==
  /\ pc = "ack"
  /\ \E e \in batch :
       /\ Current(e)
       /\ \/ /\ pel' = pel \ {e} /\ batch' = batch \ {e}
             /\ pc' = "take" /\ UNCHANGED faults
          \/ /\ pel' \in {pel, pel \ {e}}
             /\ pc' = "bury" /\ Fault /\ UNCHANGED batch
  /\ UNCHANGED <<tail, first, kind, group, cursor, losses, worker, fate>>

\* mutant: the error of dead_letter is ignored
BuryErrorSwallowed ==
  /\ pc = "bury" /\ pc' = "ackdead"
  /\ \E e \in batch :
       /\ Current(e)
       /\ \/ Decide(e, "buried") /\ UNCHANGED faults
          \/ Fault /\ UNCHANGED outcome
  /\ UNCHANGED <<stream, worker, batch, applied, tries, missed>>

\* the except branch: dead_letter (when it raises after the XADD took effect,
\* that is this action and AckDead raising without effect) ...
Bury ==
  /\ pc = "bury"
  /\ \E e \in batch :
       /\ Current(e)
       /\ \/ /\ Decide(e, "buried") /\ pc' = "ackdead"
             /\ UNCHANGED <<worker, batch, faults>>
          \/ /\ Escape /\ Fault /\ UNCHANGED outcome
  /\ UNCHANGED <<stream, applied, tries, missed>>

\* ... and XACK
AckDead ==
  /\ pc = "ackdead"
  /\ \E e \in batch :
       /\ Current(e)
       /\ \/ /\ pel' = pel \ {e} /\ batch' = batch \ {e}
             /\ pc' = "take" /\ UNCHANGED <<worker, faults>>
          \/ /\ pel' \in {pel, pel \ {e}}
             /\ Escape /\ Fault
  /\ UNCHANGED <<tail, first, kind, group, cursor, losses, fate>>

-----------------------------------------------------------------------------

Step == \/ Claim \/ Read \/ ReadRaises \/ Take \/ BatchDone
        \/ Parse \/ Commit \/ Ack \/ Bury \/ AckDead

Next == Publish \/ LoseData \/ Boot \/ Shutdown \/ Die \/ Exit \/ Step

Spec == Init /\ [][Next]_vars

(***************************************************************************)
(* The event loop runs the worker's task; main() returns once the worker   *)
(* ended after a shutdown; and the process is started again (the container *)
(* restarts).  Nothing makes a block, a shutdown, a loss or a crash        *)
(* happen.                                                                 *)
(***************************************************************************)
FairSpec == Spec /\ WF_vars(Step) /\ WF_vars(Exit) /\ WF_vars(Boot)

-----------------------------------------------------------------------------
(* Properties *)

Gone(e) == e <= first \/ e \in missed

\* What the group delivered and is no longer pending was decided: committed,
\* without effect, degraded or dead-lettered ("Call this after the message
\* has been durably processed").  Entries dropped by MAXLEN, or lost with the
\* group, excepted.
AckedIsDecided ==
  \A e \in 1..cursor : e \in pel \/ Gone(e) \/ outcome[e] # "none"

\* A process never begins the same entry twice: applying it again takes a
\* restart between the commit and XACK.
OncePerSession == \A e \in Entries : tries[e] <= 1

\* A block is committed only after every block delivered before it was
\* acknowledged.  The exceptions are entries dropped by MAXLEN, and those that
\* a restart did not take up: not idle for 30 s, beyond COUNT, behind an
\* exception in the orphan pass, or the vector indexer's.
InOrder ==
  [][\A e \in Entries : applied'[e] > applied[e] =>
       \A f \in pel : f >= e \/ f <= first \/ f \in left]_vars

\* Every published block leaves the PEL of a group that exists, or never
\* enters it.  A restart may not have taken it up, or an exception may have
\* ended the worker, which nobody starts again while the process is up.
Settled(e) == (e <= cursor /\ e \notin pel) \/ Gone(e)
Stranded   == pc = "ended" /\ proc = "up"
EverySettles ==
  \A e \in Entries : e <= tail ~> Settled(e) \/ e \in left \/ Stranded

\* "The generator loops forever until shutdown() is called": a worker whose
\* consumer is given the shutdown event ends when it is set.
ShutdownEnds ==
  role = "balance" /\ proc = "stopping" ~> pc \in {"ended", "off"}

\* "downstream consumers always get MiniBlockPayload-compatible JSON": a block
\* the daemon validated is not dead-lettered unless something raised
ValidatedIsAccepted ==
  faults = 0 => \A e \in Entries : outcome[e] # "buried"

\* The group implements the ledger of module DeliveryLedger.
Ledger == INSTANCE DeliveryLedger WITH
            MaxPosts <- MaxEntries,
            Answers  <- {"applied", "nothing", "degraded", "buried"},
            posted   <- tail,
            open     <- pel \cup batch \cup cursor + 1 .. tail,
            dropped  <- 1..first \cup missed,
            answer   <- outcome

LedgerSpec == Ledger!Spec
=============================================================================
