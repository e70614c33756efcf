-------------------------- MODULE ExecutionPoolProofs --------------------------
(***************************************************************************)
(* Theorems about ExecutionPool, for any number of workers, intents,       *)
(* restarts, faults and losses of Redis' data, and for any batch sizes and *)
(* stream length.                                                          *)
(***************************************************************************)
EXTENDS ExecutionPool, TLAPS

(***************************************************************************)
(* Type correctness                                                        *)
(***************************************************************************)

\* the part of TypeOK about the state of the coroutines
CoroTyped ==
  /\ pc \in [Actors -> PCs]
  /\ batch \in [Actors -> SUBSET Entries]
  /\ mine \in [Actors -> Nat \cup {None}]
  /\ attempt \in [Actors -> 1..3]
  /\ out \in [Actors -> Outs]

\* an exception leaves the coroutine, and those it makes start, well typed
LEMMA RaiseTyped ==
  ASSUME CoroTyped, NEW a \in Actors, Raise(a)
  PROVE  CoroTyped'
BY DEF CoroTyped, Raise, Spawned, Forget, PCs, Outs, None

\* the budget of faults is kept
LEMMA FaultyTyped ==
  ASSUME TypeOK, Faulty
  PROVE  faults' \in 0..MaxFaults
BY PoolAssumption DEF TypeOK, Faulty

\* Every state of the pool is well typed; in particular the group never
\* reads past the stream and trimming never passes its end.
THEOREM TypeCorrect == Spec => []TypeOK
<1>1. Init => TypeOK
  BY PoolAssumption DEF Init, TypeOK, Entries, Actors, AllKinds, Results,
     NoResult, Statuses, Answers, Outs, PCs, None
<1>2. TypeOK /\ [Next]_vars => TypeOK'
  <2> SUFFICES ASSUME TypeOK, [Next]_vars PROVE TypeOK'
    OBVIOUS
  <2> USE PoolAssumption DEF TypeOK
  <2>1. CASE Enqueue
    BY <2>1 DEF Enqueue, TrimTo, Entries, chain, coros, subscr, fate
  <2>2. CASE Boot
    <3>1. /\ group' \in {"exists", "none"} /\ cursor' \in 0..tail
          /\ missed' \subseteq Entries
      <4>1. CASE group = "exists"
        BY <2>2, <4>1 DEF Boot
      <4>2. CASE group # "exists"
        <5>1. CreateGroup /\ cursor + 1 .. tail \subseteq Entries
          BY <2>2, <4>2 DEF Boot, Entries
        <5>2. QED
          BY <5>1 DEF CreateGroup
      <4>3. QED
        BY <4>1, <4>2
    <3>2. first' \in 0..tail /\ pc' \in [Actors -> PCs] /\ nonce' = None
      <4>1. first' \in 0..tail
        BY <2>2 DEF Boot, TrimTo
      <4>2. pc' \in [Actors -> PCs] /\ nonce' = None
        BY <2>2 DEF Boot, Booted, PCs
      <4>3. QED
        BY <4>1, <4>2
    <3>3. /\ session' \in 0..MaxSessions /\ proc' = "up"
          /\ UNCHANGED <<tail, kind, pel, result, losses, batch, mine, attempt,
                         out, faults, count, took, signed, answer>>
      BY <2>2 DEF Boot, chain
    <3>4. QED
      BY <3>1, <3>2, <3>3
  <2>3. CASE RequestStop
    BY <2>3 DEF RequestStop, redis, stream, subscr, chain, coros, fate
  <2>4. CASE Crash \/ StopReturns
    <3>1. Die /\ proc' \in {"down", "up", "stopping"}
      BY <2>4 DEF Crash, StopReturns, Die
    <3>2. UNCHANGED <<redis, session, faults, chain, fate>>
      BY <3>1 DEF Die
    <3>3. pc' \in [Actors -> PCs] /\ batch' \in [Actors -> SUBSET Entries]
      BY <3>1 DEF Die, PCs
    <3>4. /\ mine' \in [Actors -> Nat \cup {None}] /\ nonce' \in Nat \cup {None}
          /\ attempt' \in [Actors -> 1..3] /\ out' \in [Actors -> Outs]
      BY <3>1 DEF Die, Outs
    <3>5. QED
      BY <3>1, <3>2, <3>3, <3>4 DEF redis, stream, subscr, chain, fate
  <2>5. ASSUME NEW w \in Workers, Fetch(w) PROVE TypeOK'
    <3>1. PICK lo \in Nat, hi \in Nat :
            /\ hi <= tail /\ cursor' = hi
            /\ pel' = pel \cup lo + 1 .. hi
            /\ \/ /\ batch' = [batch EXCEPT ![w] = lo + 1 .. hi]
                  /\ pc' = [pc EXCEPT ![w] = "take"]
                  /\ UNCHANGED <<mine, attempt, out, faults>>
               \/ Raise(w) /\ Faulty
      <4> DEFINE from == IF first > cursor THEN first ELSE cursor
                 upto == IF tail - from <= FetchCount
                         THEN tail ELSE from + FetchCount
      <4>1. /\ cursor' = upto /\ pel' = pel \cup from + 1 .. upto
            /\ \/ /\ batch' = [batch EXCEPT ![w] = from + 1 .. upto]
                  /\ pc' = [pc EXCEPT ![w] = "take"]
                  /\ UNCHANGED <<mine, attempt, out, faults>>
               \/ Raise(w) /\ Faulty
        BY <2>5, Zenon DEF Fetch, Goto
      <4>2. from \in Nat /\ upto \in Nat /\ upto <= tail
        OBVIOUS
      <4>3. QED
        BY <4>1, <4>2, Zenon
    <3>2. lo + 1 .. hi \subseteq Entries
      BY <3>1 DEF Entries
    <3>3. cursor' \in 0..tail' /\ pel' \subseteq Entries
      BY <2>5, <3>1, <3>2 DEF Fetch, stream
    <3>4. CASE Raise(w) /\ Faulty
      <4>1. CoroTyped' /\ faults' \in 0..MaxFaults
        BY <3>4, RaiseTyped, FaultyTyped DEF CoroTyped, Actors
      <4>2. QED
        BY <2>5, <3>3, <4>1 DEF Fetch, CoroTyped, stream, chain, fate
    <3>5. CASE /\ batch' = [batch EXCEPT ![w] = lo + 1 .. hi]
               /\ pc' = [pc EXCEPT ![w] = "take"]
               /\ UNCHANGED <<mine, attempt, out, faults>>
      BY <2>5, <3>2, <3>3, <3>5 DEF Fetch, stream, chain, fate, PCs
    <3>6. QED
      BY <3>1, <3>4, <3>5
  <2>6. CASE Claim
    <3>1. PICK S \in SUBSET pel, live \in SUBSET pel :
            /\ pel' = pel \ (S \ live)
            /\ \/ /\ batch' = [batch EXCEPT ![Starter] =
                                  {e \in live : Parseable(e)}]
                  /\ pc' = [pc EXCEPT ![Starter] = "take"]
                  /\ UNCHANGED <<mine, attempt, out, faults>>
               \/ Raise(Starter) /\ Faulty
      <4>1. PICK S \in SUBSET pel :
              LET live == {e \in S : e > first}
              IN /\ pel' = pel \ (S \ live)
                 /\ \/ /\ batch' = [batch EXCEPT ![Starter] =
                                       {e \in live : Parseable(e)}]
                       /\ pc' = [pc EXCEPT ![Starter] = "take"]
                       /\ UNCHANGED <<mine, attempt, out, faults>>
                    \/ Raise(Starter) /\ Faulty
        BY <2>6, Zenon DEF Claim, Goto
      <4>2. {e \in S : e > first} \in SUBSET pel
        OBVIOUS
      <4>3. QED
        BY <4>1, <4>2, Zenon
    <3>2. pel' \subseteq Entries /\ {e \in live : Parseable(e)} \subseteq Entries
      BY <3>1
    <3>3. UNCHANGED <<stream, group, cursor, result, losses, proc, session,
                      nonce, chain, fate>>
      BY <2>6 DEF Claim
    <3>4. CASE Raise(Starter) /\ Faulty
      <4>1. CoroTyped' /\ faults' \in 0..MaxFaults
        BY <3>4, RaiseTyped, FaultyTyped DEF CoroTyped, Actors
      <4>2. QED
        BY <3>2, <3>3, <4>1 DEF CoroTyped, stream, chain, fate
    <3>5. CASE /\ batch' = [batch EXCEPT ![Starter] = {e \in live : Parseable(e)}]
               /\ pc' = [pc EXCEPT ![Starter] = "take"]
               /\ UNCHANGED <<mine, attempt, out, faults>>
      BY <3>2, <3>3, <3>5 DEF stream, chain, fate, PCs
    <3>6. QED
      BY <3>1, <3>4, <3>5
  <2>7. ASSUME NEW w \in Workers, Acquire(w) \/ Wake(w) PROVE TypeOK'
    BY <2>7 DEF Acquire, Wake, Goto, redis, stream, subscr, chain, fate, PCs,
       Actors
  <2>8. ASSUME NEW a \in Actors, Step(a) PROVE TypeOK'
    <3> USE DEF redis, stream, subscr, chain, fate
    <3>1. CASE BatchDone(a)
      BY <3>1 DEF BatchDone, Spawned, PCs, Actors
    <3>2. CASE Take(a)
      BY <3>2 DEF Take, Goto, PCs
    <3>3. CASE Bury(a)
      BY <3>3 DEF Bury, Goto, PCs, Answers
    <3>4. CASE Record(a)
      <4>1. PICK e \in batch[a] :
              /\ result' = [result EXCEPT ![e] =
                             [status |-> Reported(a), tx |-> Hash(a, @.tx)]]
              /\ answer' = [answer EXCEPT ![e] = Reported(a)]
        BY <3>4 DEF Record
      <4>2. Reported(a) \in Statuses \cap Answers
        BY DEF Reported, Statuses, Answers
      <4>3. Hash(a, result[e].tx) \in Nat \cup {None, NullHash}
        BY DEF Hash, Results
      <4>4. result' \in [Entries -> Results]
        BY <4>1, <4>2, <4>3 DEF Results
      <4>5. answer' \in [Entries -> Answers \cup {"none"}]
        BY <4>1, <4>2
      <4>6. QED
        BY <3>4, <4>4, <4>5 DEF Record, Goto, PCs
    <3>5. CASE Ack(a)
      BY <3>5 DEF Ack, Raise, Spawned, Faulty, Forget, Goto, PCs, Outs, None
    <3>6. CASE CallRaises(a)
      BY <3>6 DEF CallRaises, Raise, Spawned, Faulty, Forget, PCs, Outs, None
    <3>7. CASE CheckConditions(a)
      BY <3>7 DEF CheckConditions, Outcome, Raise, Spawned, Forget, Goto, PCs,
         Outs, None
    <3>8. CASE GetNonce(a)
      BY <3>8 DEF GetNonce, Sign, Goto, PCs, None, Signed
    <3>9. CASE CountReply(a)
      BY <3>9 DEF CountReply, Sign, Outcome, Goto, PCs, Outs, Signed
    <3>10. CASE SendSync(a)
      BY <3>10 DEF SendSync, Include, Offer, Pool, Retry, Outcome, Goto,
         LastAttempt, PCs, Outs, Txs, None
    <3>11. CASE SendRaw(a)
      BY <3>11 DEF SendRaw, Offer, Pool, Outcome, Goto, PCs, Outs, Txs, None
    <3>12. QED
      BY <2>8, <3>1, <3>2, <3>3, <3>4, <3>5, <3>6, <3>7, <3>8, <3>9, <3>10,
         <3>11 DEF Step
  <2>9. CASE Mine
    BY <2>9 DEF Mine, Include, redis, stream, subscr, coros, fate, Txs
  <2>10. CASE UNCHANGED vars
    BY <2>10 DEF vars, redis, stream, subscr, coros, chain, fate
  <2>11. CASE LoseData
    BY <2>11 DEF LoseData, coros, chain, Entries, Results, NoResult, Statuses
  <2>12. CASE Expire
    BY <2>12 DEF Expire, stream, subscr, coros, chain, fate, Results, NoResult,
       Statuses
  <2>13. ASSUME NEW w \in Workers, Regroup(w) PROVE TypeOK'
    BY <2>13 DEF Regroup, CreateGroup, stream, coros, chain, Entries
  <2>14. QED
    BY <2>1, <2>2, <2>3, <2>4, <2>5, <2>6, <2>7, <2>8, <2>9, <2>10, <2>11,
       <2>12, <2>13 DEF Next, WorkerStep, StarterStep, Actors
<1>3. QED
  BY <1>1, <1>2, PTL DEF Spec

(***************************************************************************)
(* Who holds what.  ExclusiveHolding is not inductive: that a worker does  *)
(* not take what the orphan pass holds rests on the workers not existing   *)
(* during the pass, and that XREADGROUP gives out nothing twice rests on   *)
(* what is pending or held having been delivered.                          *)
(***************************************************************************)
HoldInv ==
  /\ proc = "down" => \A a \in Actors : pc[a] = "off"
  /\ pc[Starter] # "off" => \A w \in Workers : pc[w] = "off"
  /\ \A a \in Actors : pc[a] \in {"off", "fetch", "sleep"} => batch[a] = {}
  /\ pel \subseteq 1..cursor
  /\ \A a \in Actors : batch[a] \subseteq 1..cursor
  /\ ExclusiveHolding

LEMMA HoldInit == Init => HoldInv
BY DEF Init, HoldInv, ExclusiveHolding, Actors

\* an exception only makes a coroutine let go of its batch
LEMMA RaiseHolds ==
  ASSUME TypeOK, HoldInv, NEW a \in Actors, pc[a] # "off", Raise(a),
         UNCHANGED <<proc, pel, cursor, missed>>
  PROVE  HoldInv'
<1> USE PoolAssumption DEF TypeOK
<1>1. batch' = [batch EXCEPT ![a] = {}] /\ ExclusiveHolding'
  BY DEF Raise, HoldInv, ExclusiveHolding
<1>2. proc # "down"
  BY DEF HoldInv
<1>3. CASE a = Starter
  <2>1. \A w \in Workers : pc[w] = "off" /\ batch[w] = {}
    BY <1>3 DEF HoldInv, Actors
  <2>2. \A b \in Actors : batch'[b] = {}
    BY <1>1, <1>3, <2>1 DEF Actors
  <2>3. pc'[Starter] = "off"
    BY <1>3 DEF Raise, Spawned, Actors
  <2>4. QED
    BY <1>1, <1>2, <2>2, <2>3 DEF HoldInv
<1>4. CASE a # Starter
  <2>1. pc' = [pc EXCEPT ![a] = "sleep"] /\ pc[Starter] = "off"
    BY <1>4 DEF Raise, HoldInv, Actors
  <2>2. pc'[Starter] = "off"
    BY <1>4, <2>1 DEF Actors
  <2>3. \A b \in Actors : pc'[b] \in {"off", "fetch", "sleep"} => batch'[b] = {}
    BY <1>1, <2>1 DEF HoldInv
  <2>4. QED
    BY <1>1, <1>2, <2>2, <2>3 DEF HoldInv
<1>5. QED
  BY <1>3, <1>4

LEMMA HoldStep ==
  ASSUME TypeOK, TypeOK', HoldInv, NEW a \in Actors, Step(a)
  PROVE  HoldInv'
<1> USE DEF TypeOK
<1>1. CASE BatchDone(a)
  BY <1>1, PoolAssumption DEF BatchDone, Spawned, HoldInv, ExclusiveHolding,
     redis, subscr, fate, Actors
<1>2. CASE Take(a)
  BY <1>2 DEF Take, Goto, HoldInv, ExclusiveHolding, redis, subscr, fate, Actors
<1>3. CASE Bury(a) \/ Record(a)
  <2>1. /\ pc[a] \in {"bury", "record"} /\ pc' = [pc EXCEPT ![a] = "ack"]
        /\ UNCHANGED <<batch, proc, pel, cursor, missed>>
    BY <1>3 DEF Bury, Record, Goto, redis, subscr
  <2>2. QED
    BY <2>1 DEF HoldInv, ExclusiveHolding, Actors
<1>4. CASE Ack(a)
  <2>1. PICK e \in batch[a] :
          /\ pel' = pel \ {e}
          /\ \/ Goto(a, "take") /\ batch' = [batch EXCEPT ![a] = @ \ {e}]
             \/ Raise(a)
    BY <1>4 DEF Ack
  <2>2. pc[a] = "ack" /\ UNCHANGED <<proc, cursor, missed>>
    BY <1>4 DEF Ack, fate
  <2>3. \A b \in Actors : batch'[b] \subseteq batch[b]
                           /\ (b = a => batch'[b] \cap {e} = {})
    BY <2>1 DEF Raise
  <2>4. ExclusiveHolding'
    BY <2>1, <2>2, <2>3 DEF HoldInv, ExclusiveHolding
  <2>5. /\ pel' \subseteq 1..cursor'
        /\ \A b \in Actors : batch'[b] \subseteq 1..cursor'
    BY <2>1, <2>2, <2>3 DEF HoldInv
  <2>6. QED
    BY <2>1, <2>2, <2>3, <2>4, <2>5, PoolAssumption DEF Goto, Raise, Spawned,
       HoldInv, Actors
<1>5. CASE CallRaises(a)
  BY <1>5, RaiseHolds DEF CallRaises, redis, subscr, fate
<1>6. CASE CheckConditions(a)
  <2>1. pc[a] = "cond" /\ UNCHANGED <<proc, pel, cursor, missed>>
    BY <1>6 DEF CheckConditions, redis, subscr, fate
  <2>2. CASE Raise(a)
    BY <2>1, <2>2, RaiseHolds
  <2>3. CASE (Goto(a, "nonce") \/ Goto(a, "record")) /\ UNCHANGED batch
    BY <2>1, <2>3 DEF Goto, HoldInv, ExclusiveHolding, Actors
  <2>4. QED
    BY <1>6, <2>2, <2>3 DEF CheckConditions, Outcome
<1>7. CASE GetNonce(a) \/ CountReply(a) \/ SendSync(a) \/ SendRaw(a)
  <2>1. pc[a] # "off" /\ UNCHANGED <<proc, pel, cursor, batch, missed>>
    BY <1>7 DEF GetNonce, CountReply, SendSync, SendRaw, redis, subscr, fate
  <2>2. pc[a] \notin {"off", "fetch", "sleep"}
    BY <1>7 DEF GetNonce, CountReply, SendSync, SendRaw
  <2>3. \E l \in {"count", "send", "record"} : pc' = [pc EXCEPT ![a] = l]
    BY <1>7 DEF GetNonce, CountReply, SendSync, SendRaw, Sign, Outcome, Retry,
       Goto
  <2>4. QED
    BY <2>1, <2>2, <2>3 DEF HoldInv, ExclusiveHolding, Actors
<1>8. QED
  BY <1>1, <1>2, <1>3, <1>4, <1>5, <1>6, <1>7 DEF Step

LEMMA HoldNext ==
  ASSUME TypeOK, TypeOK', HoldInv, [Next]_vars
  PROVE  HoldInv'
<1> USE DEF TypeOK
<1>1. CASE Enqueue \/ RequestStop \/ Mine \/ Expire \/ UNCHANGED vars
  <2>1. UNCHANGED <<pc, batch, pel, cursor, missed>>
        /\ (proc' = "down" => proc = "down")
    BY <1>1 DEF Enqueue, RequestStop, Mine, Expire, vars, redis, subscr, coros,
       fate
  <2>2. QED
    BY <2>1 DEF HoldInv, ExclusiveHolding
<1>2. CASE Boot
  <2>1. /\ UNCHANGED <<batch, pel>> /\ cursor <= cursor' /\ missed \subseteq missed'
        /\ proc = "down" /\ proc' = "up" /\ pc' = [pc EXCEPT ![Starter] = "fetch"]
    BY <1>2 DEF Boot, Booted, CreateGroup
  <2>2. ExclusiveHolding'
    BY <2>1 DEF HoldInv, ExclusiveHolding
  <2>3. 1..cursor \subseteq 1..cursor'
    BY <2>1
  <2>4. QED
    BY <2>1, <2>2, <2>3, PoolAssumption DEF HoldInv, Actors
<1>3. CASE Crash \/ StopReturns
  BY <1>3 DEF Crash, StopReturns, Die, redis, subscr, fate, HoldInv,
     ExclusiveHolding, Actors
<1>4. ASSUME NEW w \in Workers, Fetch(w) PROVE HoldInv'
  <2>1. PICK lo \in Nat, hi \in Nat :
          /\ cursor <= lo /\ lo < hi /\ cursor' = hi
          /\ pel' = pel \cup lo + 1 .. hi
          /\ \/ /\ batch' = [batch EXCEPT ![w] = lo + 1 .. hi]
                /\ pc' = [pc EXCEPT ![w] = "take"]
             \/ Raise(w)
    <3> DEFINE lo == IF first > cursor THEN first ELSE cursor
               hi == IF tail - lo <= FetchCount THEN tail ELSE lo + FetchCount
    <3>1. /\ lo < tail /\ cursor' = hi
          /\ pel' = pel \cup lo + 1 .. hi
          /\ \/ /\ batch' = [batch EXCEPT ![w] = lo + 1 .. hi]
                /\ pc' = [pc EXCEPT ![w] = "take"]
             \/ Raise(w)
      BY <1>4 DEF Fetch, Goto
    <3>2. lo \in Nat /\ hi \in Nat /\ cursor <= lo /\ (lo < tail => lo < hi)
      BY PoolAssumption
    <3> HIDE DEF lo, hi
    <3>3. QED
      BY <3>1, <3>2
  <2>2. /\ pel' \subseteq 1..cursor' /\ lo + 1 .. hi \subseteq 1..cursor'
        /\ lo + 1 .. hi \cap 1..cursor = {}
    BY <2>1 DEF HoldInv
  <2>3. /\ pc[w] = "fetch" /\ pc[Starter] = "off" /\ w # Starter
        /\ UNCHANGED <<proc, missed>> /\ 1..cursor \subseteq 1..cursor'
    BY <1>4, <2>1, PoolAssumption DEF Fetch, HoldInv, fate
  <2>4. \A a \in Actors : pc'[a] \in {"off", "fetch", "sleep"} => batch'[a] = {}
    BY <2>1, <2>3 DEF HoldInv, Raise, Actors
  <2>5. ExclusiveHolding'
    <3>1. CASE batch' = [batch EXCEPT ![w] = lo + 1 .. hi]
      <4>1. \A a \in Actors : batch'[a] \subseteq pel' \cup missed'
        BY <2>1, <2>3, <3>1 DEF HoldInv, ExclusiveHolding
      <4>2. \A a \in Actors : a # w => batch'[a] \cap batch'[w] = {}
        BY <2>2, <3>1 DEF HoldInv, ExclusiveHolding, Actors
      <4>3. \A a, b \in Actors : a # b /\ a # w /\ b # w
                                => batch'[a] \cap batch'[b] = {}
        BY <3>1 DEF HoldInv, ExclusiveHolding
      <4>4. QED
        BY <4>1, <4>2, <4>3 DEF ExclusiveHolding
    <3>2. CASE Raise(w)
      BY <2>1, <2>3, <3>2 DEF HoldInv, ExclusiveHolding, Raise
    <3>3. QED
      BY <2>1, <3>1, <3>2
  <2>6. \A a \in Actors : batch'[a] \subseteq 1..cursor'
    <3>1. \A a \in Actors : batch'[a] \subseteq batch[a] \cup lo + 1 .. hi
      BY <2>1 DEF Raise
    <3>2. QED
      BY <2>2, <2>3, <3>1 DEF HoldInv
  <2>7. QED
    BY <2>1, <2>2, <2>3, <2>4, <2>5, <2>6 DEF HoldInv, Raise, Actors
<1>5. CASE Claim
  <2>1. PICK S \in SUBSET pel :
          /\ pel' = pel \ {e \in S : e <= first}
          /\ \/ /\ batch' = [batch EXCEPT ![Starter] =
                                {e \in S : e > first /\ Parseable(e)}]
                /\ pc' = [pc EXCEPT ![Starter] = "take"]
             \/ Raise(Starter)
    <3>1. \A S \in SUBSET pel :
            /\ S \ {e \in S : e > first} = {e \in S : e <= first}
            /\ {e \in {f \in S : f > first} : Parseable(e)}
                 = {e \in S : e > first /\ Parseable(e)}
      <4> SUFFICES ASSUME NEW S \in SUBSET pel
                   PROVE  /\ S \ {e \in S : e > first} = {e \in S : e <= first}
                          /\ {e \in {f \in S : f > first} : Parseable(e)}
                               = {e \in S : e > first /\ Parseable(e)}
        OBVIOUS
      <4>1. \A e \in S : e \in Int /\ first \in Int
        BY DEF Entries
      <4>2. \A e \in S : ~(e > first) <=> e <= first
        BY <4>1
      <4>3. QED
        BY <4>2
    <3>2. PICK S \in SUBSET pel :
            /\ pel' = pel \ (S \ {e \in S : e > first})
            /\ \/ /\ batch' = [batch EXCEPT ![Starter] =
                                  {e \in {f \in S : f > first} : Parseable(e)}]
                  /\ pc' = [pc EXCEPT ![Starter] = "take"]
               \/ Raise(Starter)
      BY <1>5 DEF Claim, Goto
    <3>3. QED
      BY <3>1, <3>2
  <2>2. /\ pc[Starter] = "fetch" /\ proc' = proc /\ cursor' = cursor
        /\ Starter \in Actors
    BY <1>5 DEF Claim, Actors
  <2>3. \A w \in Workers : w # Starter /\ pc[w] = "off" /\ batch[w] = {}
    BY <2>2, PoolAssumption DEF HoldInv, Actors
  <2>4. \A a \in Actors : batch[a] = {}
    BY <2>2, <2>3 DEF HoldInv, Actors
  <2>5. proc # "down" /\ pel' \subseteq 1..cursor'
    BY <2>1, <2>2 DEF HoldInv
  <2>6. CASE /\ batch' = [batch EXCEPT ![Starter] =
                            {e \in S : e > first /\ Parseable(e)}]
             /\ pc' = [pc EXCEPT ![Starter] = "take"]
    <3>1. \A w \in Workers : pc'[w] = "off" /\ batch'[w] = {}
      BY <2>3, <2>6 DEF Actors
    <3>2. pc'[Starter] = "take" /\ batch'[Starter] \subseteq pel'
      BY <2>1, <2>2, <2>6 DEF Entries
    <3>3. QED
      BY <2>2, <2>5, <3>1, <3>2 DEF HoldInv, ExclusiveHolding, Actors
  <2>7. CASE Raise(Starter)
    <3>1. \A a \in Actors : batch'[a] = {}
      BY <2>4, <2>7 DEF Raise
    <3>2. pc'[Starter] = "off"
      BY <2>2, <2>7 DEF Raise, Spawned
    <3>3. QED
      BY <2>2, <2>5, <3>1, <3>2 DEF HoldInv, ExclusiveHolding
  <2>8. QED
    BY <2>1, <2>6, <2>7
<1>6. ASSUME NEW w \in Workers, Acquire(w) \/ Wake(w) PROVE HoldInv'
  BY <1>6, PoolAssumption DEF Acquire, Wake, Goto, HoldInv, ExclusiveHolding,
     redis, subscr, fate, Actors
<1>7. CASE LoseData \/ \E w \in Workers : Regroup(w)
  <2>1. /\ UNCHANGED <<pc, batch, proc>> /\ cursor <= cursor'
        /\ pel' \subseteq pel
        /\ pel \cup missed \subseteq pel' \cup missed'
    BY <1>7 DEF LoseData, Regroup, CreateGroup, coros
  <2>2. ExclusiveHolding'
    BY <2>1 DEF HoldInv, ExclusiveHolding
  <2>3. 1..cursor \subseteq 1..cursor'
    BY <2>1
  <2>4. QED
    BY <2>1, <2>2, <2>3 DEF HoldInv
<1>8. QED
  BY <1>1, <1>2, <1>3, <1>4, <1>5, <1>6, <1>7, HoldStep
     DEF Next, WorkerStep, StarterStep, Actors

LEMMA HoldInvariant == Spec => []HoldInv
<1>1. TypeOK /\ TypeOK' /\ HoldInv /\ [Next]_vars => HoldInv'
  BY HoldNext
<1>2. QED
  BY <1>1, HoldInit, TypeCorrect, PTL DEF Spec

\* No entry is ever in two hands, and what is held is pending or was lost with
\* the group: however the orphan pass, the workers, failing Redis calls, losses
\* and restarts interleave.
THEOREM HoldingIsExclusive == Spec => []ExclusiveHolding
BY HoldInvariant, PTL DEF HoldInv

(***************************************************************************)
(* What was signed.  Within a session _nonce is the largest nonce signed,  *)
(* and an intent that was signed is either current with the coroutine that *)
(* signed it, past its signature, or in nobody's batch: nobody comes back  *)
(* to it before the next orphan pass.                                      *)
(***************************************************************************)
Here(t) == t.session = session      \* signed by the running process

SignInv ==
  /\ \A t \in signed : t.session <= session /\ t.entry <= cursor
  /\ pc[Starter] = "fetch" => nonce = None
  /\ \A a \in Actors : pc[a] = "count" =>
       nonce = None /\ \A b \in Actors : pc[b] = "count" => a = b
  /\ proc # "down" => \A t \in signed : Here(t) =>
       /\ nonce # None /\ t.nonce <= nonce
       /\ \A a \in Actors : t.entry \in batch[a] =>
            Current(a, t.entry) /\ pc[a] \in {"send", "record", "ack"}
  /\ NonceUnique
  /\ OneTxPerSession

\* with one worker, what was signed is behind everything still held
OneWorker == \A v, w \in Workers : v = w

OrderInv == OneWorker =>
  /\ proc # "down" => \A t \in signed : Here(t) =>
       \A a \in Actors : \A e \in batch[a] : t.entry <= e
  /\ SignedInOrder

\* what is about to be acknowledged has its answer
Answered(e) == answer[e] # "none"
AnswerInv ==
  /\ \A a \in Actors : \A e \in batch[a] :
       pc[a] = "ack" /\ Current(a, e) => Answered(e)
  /\ AnsweredBeforeAck

-----------------------------------------------------------------------------
(* AnswerInv *)

LEMMA AnswerInit == Init => AnswerInv
BY PoolAssumption DEF Init, AnswerInv, AnsweredBeforeAck, Entries, Actors

\* Steps that answer nothing and acknowledge nothing keep the invariant if
\* nobody arrives at its XACK.
LEMMA AnswerKept ==
  ASSUME TypeOK, TypeOK', AnswerInv,
         answer' = answer, first <= first', missed \subseteq missed',
         \A e \in 1..cursor' : e \in 1..cursor \/ e \in pel' \/ Gone(e)',
         \A e \in pel : e \in pel' \/ Gone(e)',
         \A a \in Actors : pc'[a] = "ack" => pc[a] = "ack" /\ batch'[a] = batch[a]
  PROVE  AnswerInv'
<1> USE DEF TypeOK
<1>1. \A e : Answered(e)' <=> Answered(e)
  BY DEF Answered
<1>2. AnsweredBeforeAck'
  <2> SUFFICES ASSUME NEW e \in 1..cursor'
               PROVE  e \in pel' \/ Gone(e)' \/ Answered(e)'
    BY DEF AnsweredBeforeAck, Answered
  <2>1. Gone(e) => Gone(e)'
    BY DEF Gone
  <2>2. e \in 1..cursor => e \in pel \/ Gone(e) \/ Answered(e)
    BY DEF AnswerInv, AnsweredBeforeAck, Answered
  <2>3. QED
    BY <1>1, <2>1, <2>2
<1>3. \A a \in Actors : \A e \in batch'[a] :
        pc'[a] = "ack" /\ Current(a, e)' => Answered(e)'
  BY <1>1 DEF AnswerInv, Current
<1>4. QED
  BY <1>2, <1>3 DEF AnswerInv

\* the same for a coroutine that raises: it does not arrive at its XACK
LEMMA RaiseNotAck ==
  ASSUME TypeOK, NEW a \in Actors, Raise(a)
  PROVE  \A b \in Actors : pc'[b] = "ack" => pc[b] = "ack" /\ batch'[b] = batch[b]
BY DEF TypeOK, Raise, Spawned

\* a coroutine that answers its current entry and goes to its XACK
LEMMA AnswerGiven ==
  ASSUME TypeOK, TypeOK', AnswerInv, NEW a \in Actors, NEW e \in batch[a],
         Current(a, e), NEW s \in Answers, answer' = [answer EXCEPT ![e] = s],
         UNCHANGED <<pel, cursor, first, missed, batch>>, Goto(a, "ack")
  PROVE  AnswerInv'
<1> USE DEF TypeOK
<1>1. Answered(e)' /\ \A f \in Entries : Answered(f) => Answered(f)'
  BY DEF Answered, Answers
<1>2. AnsweredBeforeAck'
  <2>1. 1..cursor \subseteq Entries
    BY PoolAssumption DEF Entries
  <2>2. QED
    BY <1>1, <2>1 DEF AnswerInv, AnsweredBeforeAck, Gone, Answered
<1>3. ASSUME NEW b \in Actors, NEW f \in batch[b], pc'[b] = "ack",
             Least(f, batch[b])
      PROVE  Answered(f)'
  <2>1. CASE b = a
    <3>1. f = e
      BY <1>3, <2>1 DEF Current, Least, Entries
    <3>2. QED
      BY <1>1, <3>1
  <2>2. CASE b # a
    <3>1. pc[b] = "ack" /\ f \in Entries
      BY <1>3, <2>2 DEF Goto
    <3>2. QED
      BY <1>1, <1>3, <3>1 DEF AnswerInv, Current
  <2>3. QED
    BY <2>1, <2>2
<1>4. QED
  BY <1>2, <1>3 DEF AnswerInv, Current

LEMMA AnswerStep ==
  ASSUME TypeOK, TypeOK', AnswerInv, NEW a \in Actors, Step(a)
  PROVE  AnswerInv'
<1> USE DEF TypeOK
<1>1. CASE Bury(a)
  <2>1. PICK e \in batch[a] :
          Current(a, e) /\ answer' = [answer EXCEPT ![e] = "buried"]
    BY <1>1 DEF Bury
  <2>2. UNCHANGED <<pel, cursor, first, missed, batch>> /\ Goto(a, "ack")
    BY <1>1 DEF Bury, redis, stream, subscr
  <2>3. QED
    BY <2>1, <2>2, AnswerGiven DEF Answers
<1>2. CASE Record(a)
  <2>1. PICK e \in batch[a] :
          Current(a, e) /\ answer' = [answer EXCEPT ![e] = Reported(a)]
    BY <1>2 DEF Record
  <2>2. Reported(a) \in Answers
    BY DEF Reported, Answers
  <2>3. UNCHANGED <<pel, cursor, first, missed, batch>> /\ Goto(a, "ack")
    BY <1>2 DEF Record, stream, subscr
  <2>4. QED
    BY <2>1, <2>2, <2>3, AnswerGiven
<1>3. CASE Ack(a)
  <2>1. PICK e \in batch[a] : Current(a, e) /\ pel' = pel \ {e}
    BY <1>3 DEF Ack
  <2>2. Answered(e) /\ UNCHANGED <<answer, cursor, first, missed>>
    BY <1>3, <2>1 DEF Ack, AnswerInv, stream, fate
  <2>3. \A f : Answered(f)' <=> Answered(f)
    BY <2>2 DEF Answered
  <2>4. AnsweredBeforeAck'
    BY <2>1, <2>2, <2>3 DEF AnswerInv, AnsweredBeforeAck, Answered, Gone
  <2>5. \A b \in Actors : pc'[b] = "ack" => pc[b] = "ack" /\ batch'[b] = batch[b]
    BY <1>3, RaiseNotAck DEF Ack, Goto
  <2>6. QED
    BY <2>3, <2>4, <2>5 DEF AnswerInv, Current
<1>4. CASE \/ BatchDone(a) \/ Take(a) \/ CallRaises(a) \/ CheckConditions(a)
           \/ GetNonce(a) \/ CountReply(a) \/ SendSync(a) \/ SendRaw(a)
  <2>1. UNCHANGED <<redis, answer, missed>>
    BY <1>4 DEF BatchDone, Take, CallRaises, CheckConditions, GetNonce,
       CountReply, SendSync, SendRaw, Sign, fate
  <2>2. \A b \in Actors : pc'[b] = "ack" => pc[b] = "ack" /\ batch'[b] = batch[b]
    <3>1. CASE BatchDone(a) \/ Take(a)
      BY <3>1 DEF BatchDone, Take, Spawned, Goto
    <3>2. CASE CallRaises(a)
      BY <3>2, RaiseNotAck DEF CallRaises
    <3>3. CASE CheckConditions(a)
      BY <3>3, RaiseNotAck DEF CheckConditions, Outcome, Goto
    <3>4. CASE GetNonce(a) \/ CountReply(a) \/ SendSync(a) \/ SendRaw(a)
      BY <3>4 DEF GetNonce, CountReply, SendSync, SendRaw, Sign, Outcome,
         Retry, Goto
    <3>5. QED
      BY <1>4, <3>1, <3>2, <3>3, <3>4
  <2>3. QED
    BY <2>1, <2>2, AnswerKept DEF redis, stream, subscr
<1>5. QED
  BY <1>1, <1>2, <1>3, <1>4 DEF Step

LEMMA AnswerNext ==
  ASSUME TypeOK, TypeOK', AnswerInv, [Next]_vars
  PROVE  AnswerInv'
<1> USE DEF TypeOK
<1>1. CASE \/ Enqueue \/ Boot \/ LoseData \/ Expire \/ RequestStop \/ Mine
           \/ (\E w \in Workers : Regroup(w)) \/ UNCHANGED vars
  <2>1. /\ UNCHANGED <<answer, batch>> /\ first <= first'
        /\ \A a \in Actors : pc'[a] = "ack" => pc[a] = "ack"
    BY <1>1 DEF Enqueue, Boot, LoseData, Expire, RequestStop, Mine, Regroup,
       vars, redis, stream, coros, fate, TrimTo, Booted
  <2>2. \/ UNCHANGED <<cursor, pel, missed>>
        \/ UNCHANGED pel /\ CreateGroup
        \/ LoseData
    BY <1>1 DEF Enqueue, Boot, Expire, RequestStop, Mine, Regroup, vars, redis,
       subscr, fate
  <2>3. /\ missed \subseteq missed'
        /\ \A e \in 1..cursor' : e \in 1..cursor \/ e \in missed'
        /\ \A e \in pel : e \in pel' \/ e \in missed'
    BY <2>2 DEF CreateGroup, LoseData
  <2>4. QED
    BY <2>1, <2>3, AnswerKept DEF Gone
<1>2. CASE Crash \/ StopReturns
  <2>1. UNCHANGED <<redis, fate>> /\ \A a \in Actors : pc'[a] = "off"
    BY <1>2 DEF Crash, StopReturns, Die
  <2>2. QED
    BY <2>1, AnswerKept DEF redis, stream, subscr, fate
<1>3. ASSUME NEW w \in Workers, Fetch(w) PROVE AnswerInv'
  <2> DEFINE lo == IF first > cursor THEN first ELSE cursor
             hi == IF tail - lo <= FetchCount THEN tail ELSE lo + FetchCount
  <2>1. /\ cursor' = hi /\ pel' = pel \cup lo + 1 .. hi
        /\ UNCHANGED <<answer, first, missed>>
    BY <1>3 DEF Fetch, stream, fate
  <2>2. \A e \in 1..hi : e \in 1..cursor \/ e \in lo + 1 .. hi \/ e <= first
    BY PoolAssumption
  <2>3. \A b \in Actors : pc'[b] = "ack" => pc[b] = "ack" /\ batch'[b] = batch[b]
    BY <1>3, RaiseNotAck DEF Fetch, Goto, Actors
  <2> HIDE DEF lo, hi
  <2>4. QED
    BY <2>1, <2>2, <2>3, AnswerKept DEF Gone
<1>4. CASE Claim
  <2>1. UNCHANGED <<answer, first, cursor, missed>>
    BY <1>4 DEF Claim, stream, fate
  <2>2. \A e \in pel : e \in pel' \/ e <= first'
    BY <1>4, <2>1 DEF Claim, Entries
  <2>3. \A b \in Actors : pc'[b] = "ack" => pc[b] = "ack" /\ batch'[b] = batch[b]
    BY <1>4, RaiseNotAck DEF Claim, Goto, Actors
  <2>4. QED
    BY <2>1, <2>2, <2>3, AnswerKept DEF Gone
<1>5. ASSUME NEW w \in Workers, Acquire(w) \/ Wake(w) PROVE AnswerInv'
  <2>1. UNCHANGED <<redis, fate, batch>>
        /\ \A b \in Actors : pc'[b] = "ack" => pc[b] = "ack"
    BY <1>5 DEF Acquire, Wake, Goto
  <2>2. QED
    BY <2>1, AnswerKept DEF redis, stream, subscr, fate
<1>6. QED
  BY <1>1, <1>2, <1>3, <1>4, <1>5, AnswerStep
     DEF Next, WorkerStep, StarterStep, Actors

LEMMA AnswerInvariant == Spec => []AnswerInv
<1>1. TypeOK /\ TypeOK' /\ AnswerInv /\ [Next]_vars => AnswerInv'
  BY AnswerNext
<1>2. QED
  BY <1>1, AnswerInit, TypeCorrect, PTL DEF Spec

\* Whatever left the PEL was answered, unless MAXLEN dropped it or Redis lost
\* the group: no crash, failing call or restart makes an intent disappear
\* without a trace.
THEOREM AckedIsAnswered == Spec => []AnsweredBeforeAck
BY AnswerInvariant, PTL DEF AnswerInv

-----------------------------------------------------------------------------
(* SignInv and OrderInv *)

LEMMA SignInit == Init => SignInv /\ OrderInv
BY PoolAssumption DEF Init, SignInv, OrderInv, NonceUnique, OneTxPerSession,
   SignedInOrder, Actors

SignedAt == {"send", "record", "ack"}   \* where a signed intent is current

\* What a step that signs nothing must respect: what is in a batch after it
\* was there before, as far along, or is newly delivered.
Respects ==
  \A a \in Actors : \A e \in batch'[a] :
    \/ e > cursor
    \/ /\ e \in batch[a]
       /\ Current(a, e) /\ pc[a] \in SignedAt
            => Current(a, e)' /\ pc'[a] \in SignedAt

LEMMA SignKept ==
  ASSUME TypeOK, TypeOK', SignInv, OrderInv, Respects,
         UNCHANGED <<signed, session, nonce>>, proc' # "down" => proc # "down",
         cursor <= cursor',
         pc'[Starter] = "fetch" => pc[Starter] = "fetch",
         \A a \in Actors : pc'[a] = "count" => pc[a] = "count"
  PROVE  SignInv' /\ OrderInv'
<1> USE DEF TypeOK
<1>1. \A t \in signed : t.entry \in Nat /\ t.entry <= cursor /\ t.session <= session
  BY DEF SignInv, Signed, Entries
<1>2. \A t \in signed : t.session <= session' /\ t.entry <= cursor'
  BY <1>1
<1>3. NonceUnique' /\ OneTxPerSession' /\ (OneWorker => SignedInOrder')
  BY DEF SignInv, OrderInv, NonceUnique, OneTxPerSession, SignedInOrder
<1>4. ASSUME proc' # "down", NEW t \in signed, Here(t)'
      PROVE  /\ nonce' # None /\ t.nonce <= nonce'
             /\ \A a \in Actors : t.entry \in batch'[a] =>
                  Current(a, t.entry)' /\ pc'[a] \in SignedAt
             /\ OneWorker => \A a \in Actors : \A e \in batch'[a] : t.entry <= e
  <2>1. proc # "down" /\ Here(t)
    BY <1>4 DEF Here
  <2>2. /\ nonce # None /\ t.nonce <= nonce
        /\ \A a \in Actors : t.entry \in batch[a] =>
             Current(a, t.entry) /\ pc[a] \in SignedAt
        /\ OneWorker => \A a \in Actors : \A e \in batch[a] : t.entry <= e
    BY <2>1 DEF SignInv, OrderInv, SignedAt
  <2>3. ~(t.entry > cursor)
    BY <1>1
  <2>4. \A a \in Actors : t.entry \in batch'[a] =>
          Current(a, t.entry)' /\ pc'[a] \in SignedAt
    BY <2>2, <2>3 DEF Respects
  <2>5. ASSUME OneWorker, NEW a \in Actors, NEW e \in batch'[a]
        PROVE  t.entry <= e
    <3>1. e \in Int
      BY DEF Entries
    <3>2. QED
      BY <1>1, <2>2, <2>5, <3>1 DEF Respects
  <2>6. QED
    BY <2>2, <2>4, <2>5
<1>5. SignInv'
  BY <1>2, <1>3, <1>4 DEF SignInv, SignedAt
<1>6. OrderInv'
  BY <1>3, <1>4 DEF OrderInv
<1>7. QED
  BY <1>5, <1>6

\* A coroutine signs for its current entry, with a nonce above all others.
LEMMA SignNew ==
  ASSUME TypeOK, TypeOK', HoldInv, HoldInv', SignInv, OrderInv,
         NEW a \in Actors, NEW e \in batch[a], NEW n \in Nat, Current(a, e),
         Sign(a, e, n), pc[a] \in {"nonce", "count"},
         UNCHANGED <<batch, session, proc, cursor>>,
         nonce = None \/ n = nonce + 1,
         \A b \in Actors : pc[b] = "count" => a = b
  PROVE  SignInv' /\ OrderInv'
<1> USE DEF TypeOK
<1> DEFINE new == [entry |-> e, nonce |-> n, session |-> session]
<1>1. /\ signed' = signed \cup {new} /\ nonce' = n /\ n # None
      /\ pc' = [pc EXCEPT ![a] = "send"] /\ proc # "down" /\ e <= cursor
      /\ e \in Nat
  <2>1. proc # "down" /\ e \in 1..cursor
    BY DEF HoldInv
  <2>2. e <= cursor /\ e \in Nat /\ n # None
    BY <2>1 DEF None
  <2>3. QED
    BY <2>1, <2>2 DEF Sign, Goto
<1>2. ASSUME NEW t \in signed
      PROVE  /\ t.session \in Nat /\ t.entry \in Nat /\ t.nonce \in Nat
             /\ t.session <= session /\ t.entry <= cursor
             /\ Here(t) => t.nonce < n /\ t.entry # e
             /\ Here(t) /\ OneWorker => t.entry <= e
  <2>1. t.session \in Nat /\ t.entry \in Nat /\ t.nonce \in Nat
    <3>1. t \in [entry : Entries, nonce : Nat, session : Nat]
      BY Zenon DEF Signed
    <3>2. \A x \in Entries : x \in Nat
      BY DEF Entries
    <3> HIDE DEF TypeOK
    <3>3. QED
      BY <3>1, <3>2
  <2>2. Here(t) => /\ nonce # None /\ t.nonce <= nonce
                   /\ t.entry \in batch[a] => pc[a] \in SignedAt
                   /\ OneWorker => t.entry <= e
    BY <1>1 DEF SignInv, OrderInv, SignedAt
  <2>3. Here(t) => n = nonce + 1 /\ nonce \in Nat
    BY <2>2
  <2>4. QED
    BY <2>1, <2>2, <2>3 DEF SignInv, SignedAt
<1>3. NonceUnique' /\ OneTxPerSession'
  <2>1. \A t \in signed : t.session = new.session =>
          t.nonce # new.nonce /\ t.entry # new.entry
    BY <1>2 DEF Here
  <2> HIDE DEF new
  <2>2. QED
    BY <1>1, <2>1 DEF SignInv, NonceUnique, OneTxPerSession
<1>4. OneWorker => SignedInOrder'
  <2>1. \A t \in signed : t.session = new.session /\ OneWorker =>
          t.nonce < new.nonce /\ ~(new.entry < t.entry)
    BY <1>1, <1>2 DEF Here
  <2>2. ~(new.entry < new.entry)
    BY <1>1
  <2> HIDE DEF new
  <2>3. QED
    BY <1>1, <2>1, <2>2 DEF OrderInv, SignedInOrder
<1>5. \A t \in signed' : t.session <= session' /\ t.entry <= cursor'
  BY <1>1, <1>2
<1>6. pc'[Starter] = "fetch" => nonce' = None
  <2>1. pc[Starter] # "fetch"
    <3>1. CASE a = Starter
      BY <3>1
    <3>2. CASE a # Starter
      BY <3>2 DEF HoldInv, Actors
    <3>3. QED
      BY <3>1, <3>2
  <2>2. QED
    BY <1>1, <2>1 DEF Actors
<1>7. \A b \in Actors : pc'[b] # "count"
  BY <1>1
<1>8. ASSUME NEW t \in signed', Here(t)'
      PROVE  /\ nonce' # None /\ t.nonce <= nonce'
             /\ \A b \in Actors : t.entry \in batch'[b] =>
                  Current(b, t.entry)' /\ pc'[b] \in SignedAt
  <2>1. CASE t = new
    <3>1. \A b \in Actors : e \in batch[b] => b = a
      BY DEF HoldInv, ExclusiveHolding
    <3>2. QED
      BY <1>1, <2>1, <3>1 DEF Current, SignedAt
  <2>2. CASE t \in signed
    <3>1. Here(t)
      BY <1>8 DEF Here
    <3>2. \A b \in Actors : t.entry \in batch[b] =>
            Current(b, t.entry) /\ pc[b] \in SignedAt
      BY <1>1, <2>2, <3>1 DEF SignInv, SignedAt
    <3>3. pc[a] \notin SignedAt
      BY DEF SignedAt
    <3>4. QED
      BY <1>1, <1>2, <2>2, <3>1, <3>2, <3>3 DEF Current
  <2>3. QED
    BY <1>1, <2>1, <2>2
<1>9. SignInv'
  BY <1>3, <1>5, <1>6, <1>7, <1>8 DEF SignInv, SignedAt
<1>10. ASSUME OneWorker, NEW t \in signed', Here(t)', NEW b \in Actors,
              NEW x \in batch'[b]
       PROVE  t.entry <= x
  <2>1. CASE t = new
    <3>1. CASE a = b
      BY <2>1, <3>1 DEF Current, Least
    <3>2. CASE a # b
      <4>1. pc[a] # "off" /\ batch[b] # {}
        BY <1>10
      <4>2. pc[b] # "off"
        BY <4>1 DEF HoldInv
      <4>3. QED
        BY <1>10, <3>2, <4>1, <4>2 DEF HoldInv, OneWorker, Actors
    <3>3. QED
      BY <3>1, <3>2
  <2>2. CASE t \in signed
    BY <1>1, <1>10, <2>2 DEF OrderInv, Here
  <2>3. QED
    BY <1>1, <2>1, <2>2
<1>11. OrderInv'
  BY <1>4, <1>10 DEF OrderInv
<1>12. QED
  BY <1>9, <1>11

\* a coroutine that raises has let go of its batch; so have, before the
\* workers start, all others
LEMMA RaiseRespects ==
  ASSUME TypeOK, HoldInv, NEW a \in Actors, pc[a] # "off", Raise(a)
  PROVE  /\ Respects
         /\ pc'[Starter] # "fetch"
         /\ \A b \in Actors : pc'[b] = "count" => pc[b] = "count"
<1> USE PoolAssumption DEF TypeOK
<1>1. batch' = [batch EXCEPT ![a] = {}]
  BY DEF Raise
<1>2. CASE a = Starter
  <2>1. \A b \in Actors : batch'[b] = {}
    BY <1>1, <1>2 DEF HoldInv, Actors
  <2>2. QED
    BY <1>2, <2>1 DEF Raise, Spawned, Respects, Actors
<1>3. CASE a # Starter
  <2>1. pc' = [pc EXCEPT ![a] = "sleep"] /\ pc[Starter] = "off"
    BY <1>3 DEF Raise, HoldInv, Actors
  <2>2. QED
    BY <1>1, <1>3, <2>1 DEF Respects, Current, Actors
<1>4. QED
  BY <1>2, <1>3

LEMMA SignStep ==
  ASSUME TypeOK, TypeOK', HoldInv, HoldInv', SignInv, OrderInv,
         NEW a \in Actors, Step(a)
  PROVE  SignInv' /\ OrderInv'
<1> USE PoolAssumption DEF TypeOK
<1>1. CASE BatchDone(a)
  <2>1. Respects
    BY <1>1 DEF BatchDone, Spawned, Respects, Current, SignedAt, HoldInv, Actors
  <2>2. /\ pc'[Starter] = "fetch" => pc[Starter] = "fetch"
        /\ \A b \in Actors : pc'[b] = "count" => pc[b] = "count"
    BY <1>1 DEF BatchDone, Spawned, Actors
  <2>3. UNCHANGED <<signed, session, nonce, proc, cursor>>
    BY <1>1 DEF BatchDone, redis, subscr, fate
  <2>4. QED
    BY <2>1, <2>2, <2>3, SignKept
<1>2. CASE Take(a)
  <2>1. Respects
    BY <1>2 DEF Take, Goto, Respects, Current, SignedAt, Actors
  <2>2. /\ pc'[Starter] = "fetch" => pc[Starter] = "fetch"
        /\ \A b \in Actors : pc'[b] = "count" => pc[b] = "count"
    BY <1>2 DEF Take, Goto, Actors
  <2>3. UNCHANGED <<signed, session, nonce, proc, cursor>>
    BY <1>2 DEF Take, redis, subscr, fate
  <2>4. QED
    BY <2>1, <2>2, <2>3, SignKept
<1>3. CASE Bury(a) \/ Record(a)
  <2>1. /\ pc[a] \in {"bury", "record"} /\ Goto(a, "ack")
        /\ UNCHANGED <<signed, session, nonce, proc, cursor, batch>>
    BY <1>3 DEF Bury, Record, redis, subscr
  <2>2. QED
    BY <2>1, SignKept DEF Goto, Respects, Current, SignedAt, Actors
<1>4. CASE Ack(a)
  <2>1. pc[a] = "ack" /\ UNCHANGED <<signed, session, nonce, proc, cursor>>
    BY <1>4 DEF Ack, fate
  <2>2. CASE Raise(a)
    BY <2>1, <2>2, RaiseRespects, SignKept
  <2>3. ASSUME NEW e \in batch[a], Current(a, e), Goto(a, "take"),
               batch' = [batch EXCEPT ![a] = @ \ {e}]
        PROVE  SignInv' /\ OrderInv'
    <3>1. \A f \in batch'[a] : f \in batch[a] /\ ~Current(a, f)
      BY <2>3 DEF Current, Least, Entries
    <3>2. Respects
      BY <2>3, <3>1 DEF Goto, Respects, Current, SignedAt
    <3>3. /\ pc'[Starter] = "fetch" => pc[Starter] = "fetch"
          /\ \A b \in Actors : pc'[b] = "count" => pc[b] = "count"
      BY <2>3 DEF Goto, Actors
    <3>4. QED
      BY <2>1, <3>2, <3>3, SignKept
  <2>4. QED
    BY <1>4, <2>2, <2>3 DEF Ack
<1>5. CASE CallRaises(a)
  BY <1>5, RaiseRespects, SignKept DEF CallRaises, redis, subscr, fate
<1>6. CASE CheckConditions(a)
  <2>1. pc[a] = "cond" /\ UNCHANGED <<signed, session, nonce, proc, cursor>>
    BY <1>6 DEF CheckConditions, redis, subscr, fate
  <2>2. CASE Raise(a)
    BY <2>1, <2>2, RaiseRespects, SignKept
  <2>3. CASE (Goto(a, "nonce") \/ Goto(a, "record")) /\ UNCHANGED batch
    BY <2>1, <2>3, SignKept DEF Goto, Respects, Current, SignedAt, Actors
  <2>4. QED
    BY <1>6, <2>2, <2>3 DEF CheckConditions, Outcome
<1>7. CASE GetNonce(a)
  <2>1. PICK e \in batch[a] :
          /\ Current(a, e)
          /\ \/ nonce # None /\ Sign(a, e, nonce + 1)
             \/ nonce = None /\ Goto(a, "count") /\ UNCHANGED <<nonce, mine, signed>>
    BY <1>7 DEF GetNonce
  <2>2. /\ pc[a] = "nonce" /\ \A b \in Actors : pc[b] # "count"
        /\ UNCHANGED <<session, proc, batch, cursor>>
    BY <1>7 DEF GetNonce, NonceLocked, redis, subscr
  <2>3. CASE nonce # None /\ Sign(a, e, nonce + 1)
    <3>1. nonce + 1 \in Nat
      BY <2>3
    <3>2. QED
      BY <2>1, <2>2, <2>3, <3>1, SignNew
  <2>4. CASE nonce = None /\ Goto(a, "count") /\ UNCHANGED <<nonce, mine, signed>>
    <3>1. proc # "down" /\ proc' # "down"
      BY <2>2 DEF HoldInv
    <3>2. \A t \in signed : ~Here(t)
      BY <2>4, <3>1 DEF SignInv
    <3>3. \A b \in Actors : pc'[b] = "count" => b = a
      BY <2>2, <2>4 DEF Goto
    <3>4. SignInv'
      BY <2>2, <2>4, <3>2, <3>3 DEF SignInv, NonceUnique, OneTxPerSession, Here
    <3>5. OrderInv'
      BY <2>2, <2>4, <3>2 DEF OrderInv, SignedInOrder, Here
    <3>6. QED
      BY <3>4, <3>5
  <2>5. QED
    BY <2>1, <2>3, <2>4
<1>8. CASE CountReply(a)
  <2>1. PICK e \in batch[a] :
          /\ Current(a, e)
          /\ \/ Sign(a, e, count)
             \/ Outcome(a, "failed") /\ UNCHANGED <<nonce, mine, signed>>
    BY <1>8 DEF CountReply
  <2>2. /\ pc[a] = "count" /\ UNCHANGED <<session, proc, batch, cursor>>
        /\ nonce = None /\ \A b \in Actors : pc[b] = "count" => a = b
    BY <1>8 DEF CountReply, SignInv, redis, subscr
  <2>3. CASE Sign(a, e, count)
    BY <2>1, <2>2, <2>3, SignNew
  <2>4. CASE Outcome(a, "failed") /\ UNCHANGED <<nonce, mine, signed>>
    BY <2>2, <2>4, SignKept DEF Outcome, Goto, Respects, Current, SignedAt,
       Actors
  <2>5. QED
    BY <2>1, <2>3, <2>4
<1>9. CASE SendSync(a) \/ SendRaw(a)
  <2>1. /\ pc[a] = "send" /\ UNCHANGED <<signed, session, nonce, proc, batch, cursor>>
    BY <1>9 DEF SendSync, SendRaw, redis, subscr, fate
  <2>2. UNCHANGED pc \/ Goto(a, "record")
    BY <1>9 DEF SendSync, SendRaw, Outcome, Retry
  <2>3. QED
    BY <2>1, <2>2, SignKept DEF Goto, Respects, Current, SignedAt, Actors
<1>10. QED
  BY <1>1, <1>2, <1>3, <1>4, <1>5, <1>6, <1>7, <1>8, <1>9 DEF Step

LEMMA SignNext ==
  ASSUME TypeOK, TypeOK', HoldInv, HoldInv', SignInv, OrderInv, [Next]_vars
  PROVE  SignInv' /\ OrderInv'
<1> USE PoolAssumption DEF TypeOK
<1>1. CASE \/ Enqueue \/ LoseData \/ Expire \/ RequestStop \/ Mine
           \/ (\E w \in Workers : Regroup(w)) \/ UNCHANGED vars
  <2>1. /\ UNCHANGED <<signed, session, nonce, batch, pc>> /\ cursor <= cursor'
        /\ proc' # "down" => proc # "down"
    BY <1>1 DEF Enqueue, LoseData, Expire, RequestStop, Mine, Regroup,
       CreateGroup, vars, redis, subscr, coros, fate
  <2>2. QED
    BY <2>1, SignKept DEF Respects, Current
<1>2. CASE Boot
  <2>1. /\ UNCHANGED signed /\ cursor <= cursor' /\ session' = session + 1
        /\ nonce' = None /\ \A a \in Actors : pc'[a] # "count"
    BY <1>2 DEF Boot, CreateGroup, Booted, HoldInv, Actors
  <2>2. \A t \in signed : /\ t.session <= session' /\ t.entry <= cursor'
                          /\ ~Here(t)'
    BY <2>1 DEF SignInv, Signed, Here, Entries
  <2>3. SignInv'
    BY <2>1, <2>2 DEF SignInv, NonceUnique, OneTxPerSession
  <2>4. OrderInv'
    BY <2>1, <2>2 DEF OrderInv, SignedInOrder
  <2>5. QED
    BY <2>3, <2>4
<1>3. CASE Crash \/ StopReturns
  <2>1. /\ UNCHANGED <<signed, session, cursor>> /\ proc' = "down"
        /\ nonce' = None /\ \A a \in Actors : pc'[a] = "off"
    BY <1>3 DEF Crash, StopReturns, Die, redis, subscr, fate
  <2>2. QED
    BY <2>1 DEF SignInv, OrderInv, NonceUnique, OneTxPerSession, SignedInOrder
<1>4. ASSUME NEW w \in Workers, Fetch(w) PROVE SignInv' /\ OrderInv'
  <2>1. PICK lo \in Nat, hi \in Nat :
          /\ cursor <= lo /\ lo < hi /\ cursor' = hi
          /\ \/ /\ batch' = [batch EXCEPT ![w] = lo + 1 .. hi]
                /\ pc' = [pc EXCEPT ![w] = "take"]
             \/ Raise(w)
    <3> DEFINE lo == IF first > cursor THEN first ELSE cursor
               hi == IF tail - lo <= FetchCount THEN tail ELSE lo + FetchCount
    <3>1. /\ lo < tail /\ cursor' = hi
          /\ \/ /\ batch' = [batch EXCEPT ![w] = lo + 1 .. hi]
                /\ pc' = [pc EXCEPT ![w] = "take"]
             \/ Raise(w)
      BY <1>4 DEF Fetch, Goto
    <3>2. lo \in Nat /\ hi \in Nat /\ cursor <= lo /\ (lo < tail => lo < hi)
      OBVIOUS
    <3> HIDE DEF lo, hi
    <3>3. QED
      BY <3>1, <3>2
  <2>2. /\ UNCHANGED <<signed, session, nonce, proc>> /\ pc[w] = "fetch"
        /\ w # Starter /\ w \in Actors
    BY <1>4 DEF Fetch, Actors, fate
  <2>3. CASE Raise(w)
    BY <2>1, <2>2, <2>3, RaiseRespects, SignKept
  <2>4. CASE /\ batch' = [batch EXCEPT ![w] = lo + 1 .. hi]
             /\ pc' = [pc EXCEPT ![w] = "take"]
    <3>1. \A e \in batch'[w] : e > cursor
      BY <2>1, <2>2, <2>4
    <3>2. \A a \in Actors : a # w => batch'[a] = batch[a] /\ pc'[a] = pc[a]
      BY <2>4
    <3>3. Respects
      BY <3>1, <3>2 DEF Respects, Current
    <3>4. \A a \in Actors : pc'[a] = "count" \/ (a = Starter /\ pc'[a] = "fetch")
            => pc'[a] = pc[a]
      BY <2>2, <2>4
    <3>5. cursor <= cursor' /\ Starter \in Actors
      BY <2>1 DEF Actors
    <3> HIDE DEF TypeOK
    <3>6. QED
      BY <2>2, <3>3, <3>4, <3>5, SignKept
  <2>5. QED
    BY <2>1, <2>3, <2>4
<1>5. CASE Claim
  <2>1. /\ pc[Starter] = "fetch" /\ UNCHANGED <<signed, session, nonce, proc, cursor>>
        /\ pc'[Starter] # "fetch" /\ \A a \in Actors : pc'[a] # "count"
    <3>1. \A w \in Workers : pc[w] = "off"
      BY <1>5 DEF Claim, HoldInv
    <3>2. QED
      BY <1>5, <3>1 DEF Claim, Goto, Raise, Spawned, Actors, fate
  <2>2. proc # "down" /\ nonce = None
    BY <2>1 DEF HoldInv, SignInv, Actors
  <2>3. \A t \in signed : ~Here(t)
    BY <2>2 DEF SignInv
  <2>4. SignInv'
    BY <2>1, <2>2, <2>3 DEF SignInv, NonceUnique, OneTxPerSession, Here
  <2>5. OrderInv'
    BY <2>1, <2>3 DEF OrderInv, SignedInOrder, Here
  <2>6. QED
    BY <2>4, <2>5
<1>6. ASSUME NEW w \in Workers, Acquire(w) \/ Wake(w)
      PROVE  SignInv' /\ OrderInv'
  <2>1. /\ UNCHANGED <<signed, session, nonce, proc, cursor, batch>>
        /\ w # Starter /\ w \in Actors /\ pc[w] \in {"sem", "sleep"}
        /\ \E l \in {"cond", "off", "fetch"} : pc' = [pc EXCEPT ![w] = l]
    BY <1>6 DEF Acquire, Wake, Goto, redis, subscr, fate, Actors
  <2>2. QED
    BY <2>1, SignKept DEF Respects, Current, SignedAt, Actors
<1>7. QED
  BY <1>1, <1>2, <1>3, <1>4, <1>5, <1>6, SignStep
     DEF Next, WorkerStep, StarterStep, Actors

LEMMA SignInvariant == Spec => [](SignInv /\ OrderInv)
<1>1. TypeOK /\ TypeOK' /\ HoldInv /\ HoldInv' /\ SignInv /\ OrderInv /\ [Next]_vars
        => SignInv' /\ OrderInv'
  BY SignNext
<1>2. QED
  BY <1>1, SignInit, HoldInvariant, TypeCorrect, PTL DEF Spec

\* An intent is executed again only by a later process: within a session at
\* most one transaction is signed for it, whatever fails around it.
THEOREM AtMostOnceASession == Spec => []OneTxPerSession
BY SignInvariant, PTL DEF SignInv

\* The nonce lock is enough for any number of workers.
THEOREM NoncesDoNotCollide == Spec => []NonceUnique
BY SignInvariant, PTL DEF SignInv

\* The default pool of one worker executes in the order of the stream.
THEOREM OneWorkerSignsInOrder ==
  ASSUME OneWorker PROVE Spec => []SignedInOrder
<1>1. OrderInv => SignedInOrder
  BY DEF OrderInv
<1>2. QED
  BY <1>1, SignInvariant, PTL

-----------------------------------------------------------------------------
(***************************************************************************)
(* What "completed" is worth.  The hash is recorded some awaits after the  *)
(* node answered, by a coroutine that others interleave with, and may be   *)
(* merged into what an earlier process recorded.  The invariant follows    *)
(* the nonce from the signature through the broadcast to the result.       *)
(***************************************************************************)

Took(e, n) == [entry |-> e, nonce |-> n] \in took

\* what a coroutine remembers of the intent it executes
CoroInv(a) ==
  /\ pc[a] = "send" => mine[a] \in Nat
  /\ out[a] = "success" =>
       /\ pc[a] \in {"record", "ack"}
       /\ \A e \in batch[a] : Current(a, e) => Took(e, mine[a])

SentInv == CompletedWasSent /\ \A a \in Actors : CoroInv(a)

LEMMA SentInit == Init => SentInv
BY DEF Init, SentInv, CompletedWasSent, CoroInv, Actors, NoResult

Same(a)  == UNCHANGED <<pc[a], batch[a], mine[a], out[a]>>
Quiet(a) == pc[a] # "send" /\ out[a] # "success"

\* away from the broadcast and what follows it, nothing is remembered
LEMMA AwayIsQuiet ==
  ASSUME NEW a, CoroInv(a), pc[a] \notin SignedAt
  PROVE  Quiet(a)
BY DEF CoroInv, Quiet, SignedAt

\* What the node took it took for good, and results at most disappear.
Grows == took \subseteq took'
Fades == \A e \in Entries : result'[e] = result[e] \/ result'[e] = NoResult

LEMMA CoroKept ==
  ASSUME NEW a \in Actors, CoroInv(a), Grows, Same(a) \/ Quiet(a)'
  PROVE  CoroInv(a)'
<1>1. CASE Quiet(a)'
  BY <1>1 DEF Quiet, CoroInv
<1>2. CASE Same(a)
  <2>1. \A e \in batch'[a] : Current(a, e)' => Current(a, e)
    BY <1>2 DEF Same, Current
  <2>2. \A e : Took(e, mine[a]) => Took(e, mine[a])'
    BY <1>2 DEF Same, Took, Grows
  <2> QED
    BY <1>2, <2>1, <2>2 DEF Same, CoroInv
<1> QED
  BY <1>1, <1>2

\* a step that takes nothing back and reports nothing
LEMMA SentKept ==
  ASSUME SentInv, Grows, Fades, \A a \in Actors : Same(a) \/ Quiet(a)'
  PROVE  SentInv'
<1>1. \A a \in Actors : CoroInv(a)'
  BY CoroKept DEF SentInv
<1>2. CompletedWasSent'
  <2>1. NoResult.status # "completed"
    BY DEF NoResult
  <2>2. QED
    BY <2>1 DEF SentInv, CompletedWasSent, Grows, Fades
<1> QED
  BY <1>1, <1>2 DEF SentInv

\* an exception makes the coroutine forget; those that the end of the orphan
\* pass starts had nothing to remember
LEMMA RaiseQuiet ==
  ASSUME TypeOK, HoldInv, SentInv, NEW a \in Actors, pc[a] # "off", Raise(a)
  PROVE  \A b \in Actors : Same(b) \/ Quiet(b)'
<1> USE PoolAssumption DEF TypeOK
<1>1. mine'[a] = None /\ out'[a] = "none"
  BY DEF Raise, Forget
<1>2. CASE a = Starter
  <2>1. \A w \in Workers : Quiet(w)
    BY <1>2, AwayIsQuiet DEF HoldInv, SentInv, SignedAt, Actors
  <2>2. \A w \in Workers : out'[w] = out[w]
    BY <1>2 DEF Raise, Forget, Actors
  <2>3. \A b \in Actors : pc'[b] # "send"
    BY <1>2 DEF Raise, Spawned
  <2> QED
    BY <1>1, <1>2, <2>1, <2>2, <2>3 DEF Quiet, Actors
<1>3. CASE a # Starter
  BY <1>1, <1>3 DEF Raise, Forget, Same, Quiet
<1> QED
  BY <1>2, <1>3

\* a coroutine is only moved, from where it remembers nothing
LEMMA MoveQuiet ==
  ASSUME TypeOK, SentInv, NEW a \in Actors, pc[a] \notin SignedAt,
         NEW l \in PCs \ {"send"}, Goto(a, l),
         \A b \in Actors : b # a => batch'[b] = batch[b],
         UNCHANGED mine,
         UNCHANGED out \/ \E r \in Outs \ {"success"} : out' = [out EXCEPT ![a] = r]
  PROVE  \A b \in Actors : Same(b) \/ Quiet(b)'
<1>1. Quiet(a)
  BY AwayIsQuiet DEF SentInv
<1> QED
  BY <1>1 DEF TypeOK, Goto, Same, Quiet

LEMMA SignSent ==
  ASSUME TypeOK, SentInv, NEW a \in Actors, NEW e \in batch[a], NEW n \in Nat,
         Sign(a, e, n), pc[a] \in {"nonce", "count"},
         UNCHANGED <<batch, took, result, out>>
  PROVE  SentInv'
<1> USE DEF TypeOK
<1>1. mine' = [mine EXCEPT ![a] = n] /\ pc' = [pc EXCEPT ![a] = "send"]
  BY DEF Sign, Goto
<1>2. out[a] # "success"
  BY AwayIsQuiet DEF SentInv, SignedAt, Quiet
<1>3. CoroInv(a)'
  BY <1>1, <1>2 DEF CoroInv
<1>4. \A b \in Actors : b # a => CoroInv(b)'
  BY <1>1, CoroKept DEF SentInv, Same, Grows
<1> QED
  BY <1>3, <1>4 DEF SentInv, CompletedWasSent

\* A broadcast succeeds with a hash only when the node has taken this very
\* transaction, now or in an earlier attempt.
LEMMA SendSent ==
  ASSUME TypeOK, SentInv, NEW a \in Actors, SendSync(a) \/ SendRaw(a)
  PROVE  SentInv'
<1> USE DEF TypeOK
<1>1. PICK e \in batch[a] :
        LET tx == [entry |-> e, nonce |-> mine[a]]
        IN /\ Current(a, e)
           /\ Offer(tx) \/ Include(tx)
           /\ \/ UNCHANGED <<pc, out>>
              \/ \E st \in {"null", "failed"} : Outcome(a, st)
              \/ Outcome(a, "success") /\ tx \in took'
  BY DEF SendSync, SendRaw, Retry, Include, Pool, Offer, chain
<1>2. /\ pc[a] = "send" /\ mine[a] \in Nat /\ out[a] # "success"
      /\ UNCHANGED <<batch, mine, result>>
  BY DEF SendSync, SendRaw, redis, SentInv, CoroInv
<1>3. Grows
  BY <1>1 DEF Grows, Offer, Include, Pool, chain
<1>4. pc'[a] \in {"send", "record"} /\ \A b \in Actors : b # a => Same(b)
  BY <1>1, <1>2 DEF Outcome, Goto, Same
<1>5. CoroInv(a)'
  <2>1. ASSUME out'[a] = "success"
        PROVE  /\ pc'[a] = "record"
               /\ [entry |-> e, nonce |-> mine[a]] \in took'
    BY <1>1, <1>2, <2>1 DEF Outcome, Goto
  <2>2. \A f \in batch'[a] : Current(a, f)' => f = e
    BY <1>1, <1>2 DEF Current, Least, Entries
  <2>3. mine'[a] = mine[a]
    BY <1>2
  <2> QED
    BY <1>2, <2>1, <2>2, <2>3 DEF CoroInv, Took
<1>6. \A b \in Actors : CoroInv(b)'
  BY <1>3, <1>4, <1>5, CoroKept DEF SentInv
<1>7. CompletedWasSent'
  BY <1>2, <1>3 DEF SentInv, CompletedWasSent, Grows
<1> QED
  BY <1>6, <1>7 DEF SentInv

LEMMA RecordSent ==
  ASSUME TypeOK, SentInv, NEW a \in Actors, Record(a)
  PROVE  SentInv'
<1> USE DEF TypeOK
<1>1. PICK e \in batch[a] :
        /\ Current(a, e)
        /\ result' = [result EXCEPT ![e] =
                        [status |-> Reported(a), tx |-> Hash(a, @.tx)]]
  BY DEF Record
<1>2. /\ pc[a] = "record" /\ Goto(a, "ack")
      /\ UNCHANGED <<took, batch, mine, out>>
  BY DEF Record, chain
<1>3. ASSUME NEW f \in Entries, result'[f].status = "completed"
      PROVE  result'[f].tx = NullHash \/ Took(f, result'[f].tx)
  <2>1. CASE f = e
    <3>1. result'[f].status = Reported(a) /\ result'[f].tx = Hash(a, result[f].tx)
      BY <1>1, <2>1
    <3>2. out[a] = "success" \/ out[a] = "null"
      BY <1>3, <3>1 DEF Reported
    <3>3. CASE out[a] = "success"
      BY <1>1, <2>1, <3>1, <3>3 DEF SentInv, CoroInv, Hash
    <3>4. CASE out[a] = "null"
      BY <3>1, <3>4 DEF Hash
    <3> QED
      BY <3>2, <3>3, <3>4
  <2>2. CASE f # e
    BY <1>1, <1>3, <2>2 DEF SentInv, CompletedWasSent, Took
  <2> QED
    BY <2>1, <2>2
<1>4. CompletedWasSent'
  BY <1>2, <1>3 DEF CompletedWasSent, Took
<1>5. CoroInv(a)'
  BY <1>2 DEF SentInv, CoroInv, Goto, Took, Current
<1>6. \A b \in Actors : b # a => CoroInv(b)'
  BY <1>2, CoroKept DEF SentInv, Same, Grows, Goto
<1> QED
  BY <1>4, <1>5, <1>6 DEF SentInv

LEMMA SentStep ==
  ASSUME TypeOK, TypeOK', HoldInv, SentInv, NEW a \in Actors, Step(a)
  PROVE  SentInv'
<1> USE PoolAssumption DEF TypeOK
<1> DEFINE Kept == UNCHANGED <<took, result>>
<1>0. Kept => Grows /\ Fades
  BY DEF Grows, Fades
<1> HIDE DEF Kept
<1>1. CASE BatchDone(a)
  <2>1. /\ Kept /\ pc[a] = "take"
        /\ UNCHANGED <<batch, mine, out>>
        /\ pc' = IF a = Starter THEN Spawned ELSE [pc EXCEPT ![a] = "fetch"]
    BY <1>1 DEF BatchDone, redis, chain, Kept
  <2>2. \A b \in Actors : Same(b) \/ Quiet(b)'
    <3>1. CASE a = Starter
      <4>1. \A b \in Actors : Quiet(b)
        BY <2>1, <3>1, AwayIsQuiet DEF HoldInv, SentInv, SignedAt, Actors
      <4> QED
        BY <2>1, <3>1, <4>1 DEF Quiet, Spawned
    <3>2. CASE a # Starter
      <4>1. Goto(a, "fetch")
        BY <2>1, <3>2 DEF Goto
      <4> QED
        BY <2>1, <4>1, MoveQuiet DEF SignedAt, PCs
    <3> QED
      BY <3>1, <3>2
  <2> QED
    BY <1>0, <2>1, <2>2, SentKept
<1>2. CASE Take(a)
  <2>1. /\ Kept /\ pc[a] = "take" /\ UNCHANGED <<mine, out>>
        /\ \E l \in PCs \ {"send"} : Goto(a, l)
        /\ \A b \in Actors : b # a => batch'[b] = batch[b]
    BY <1>2 DEF Take, redis, chain, PCs, Kept
  <2> QED
    BY <1>0, <2>1, MoveQuiet, SentKept DEF SignedAt
<1>3. CASE Bury(a)
  <2>1. /\ Kept /\ pc[a] = "bury"
        /\ Goto(a, "ack") /\ UNCHANGED <<batch, mine, out>>
    BY <1>3 DEF Bury, redis, chain, Kept
  <2>2. \A b \in Actors : Same(b) \/ Quiet(b)'
    BY <2>1, MoveQuiet DEF SignedAt, PCs
  <2> QED
    BY <1>0, <2>1, <2>2, SentKept
<1>4. CASE Record(a)
  BY <1>4, RecordSent
<1>5. CASE Ack(a)
  <2>1. /\ Kept /\ pc[a] = "ack"
        /\ \/ Raise(a)
           \/ /\ Goto(a, "take") /\ Forget(a)
              /\ \A b \in Actors : b # a => batch'[b] = batch[b]
    BY <1>5 DEF Ack, chain, Kept
  <2>2. CASE Raise(a)
    BY <1>0, <2>1, <2>2, RaiseQuiet, SentKept
  <2>3. CASE ~Raise(a)
    <3>1. \A b \in Actors : Same(b) \/ Quiet(b)'
      BY <2>1, <2>3 DEF Goto, Forget, Same, Quiet
    <3> QED
      BY <1>0, <2>1, <3>1, SentKept
  <2> QED
    BY <2>2, <2>3
<1>6. CASE CallRaises(a)
  <2>1. Kept /\ pc[a] # "off" /\ Raise(a)
    BY <1>6 DEF CallRaises, redis, chain, Kept
  <2> QED
    BY <1>0, <2>1, RaiseQuiet, SentKept
<1>7. CASE CheckConditions(a)
  <2>1. /\ Kept /\ pc[a] = "cond"
        /\ \/ Raise(a)
           \/ /\ \E l \in {"nonce", "record"} : Goto(a, l)
              /\ UNCHANGED <<batch, mine>>
              /\ UNCHANGED out \/ out' = [out EXCEPT ![a] = "skipped"]
    BY <1>7 DEF CheckConditions, Outcome, redis, chain, Kept
  <2>2. CASE Raise(a)
    BY <1>0, <2>1, <2>2, RaiseQuiet, SentKept
  <2>3. CASE ~Raise(a)
    <3>1. \A b \in Actors : Same(b) \/ Quiet(b)'
      BY <2>1, <2>3, MoveQuiet DEF SignedAt, PCs, Outs
    <3> QED
      BY <1>0, <2>1, <3>1, SentKept
  <2> QED
    BY <2>2, <2>3
<1>8. CASE GetNonce(a)
  <2>1. PICK e \in batch[a] :
          \/ nonce # None /\ Sign(a, e, nonce + 1)
          \/ Goto(a, "count") /\ UNCHANGED mine
    BY <1>8 DEF GetNonce
  <2>2. pc[a] = "nonce" /\ UNCHANGED <<took, result, batch, out>>
    BY <1>8 DEF GetNonce, redis, chain
  <2>3. CASE nonce # None /\ Sign(a, e, nonce + 1)
    BY <2>1, <2>2, <2>3, SignSent
  <2>4. CASE Goto(a, "count") /\ UNCHANGED mine
    <3>1. \A b \in Actors : Same(b) \/ Quiet(b)'
      BY <2>2, <2>4, MoveQuiet DEF SignedAt, PCs
    <3> QED
      BY <1>0, <2>2, <3>1, SentKept DEF Kept
  <2> QED
    BY <2>1, <2>3, <2>4
<1>9. CASE CountReply(a)
  <2>1. PICK e \in batch[a] :
          \/ Sign(a, e, count) /\ UNCHANGED out
          \/ /\ Goto(a, "record") /\ out' = [out EXCEPT ![a] = "failed"]
             /\ UNCHANGED mine
    BY <1>9 DEF CountReply, Outcome
  <2>2. pc[a] = "count" /\ UNCHANGED <<took, result, batch>>
    BY <1>9 DEF CountReply, redis, chain
  <2>3. CASE Sign(a, e, count) /\ UNCHANGED out
    BY <2>1, <2>2, <2>3, SignSent
  <2>4. CASE /\ Goto(a, "record") /\ out' = [out EXCEPT ![a] = "failed"]
             /\ UNCHANGED mine
    <3>1. \A b \in Actors : Same(b) \/ Quiet(b)'
      BY <2>2, <2>4, MoveQuiet DEF SignedAt, PCs, Outs
    <3> QED
      BY <1>0, <2>2, <3>1, SentKept DEF Kept
  <2> QED
    BY <2>1, <2>3, <2>4
<1>10. CASE SendSync(a) \/ SendRaw(a)
  BY <1>10, SendSent
<1> QED
  BY <1>1, <1>2, <1>3, <1>4, <1>5, <1>6, <1>7, <1>8, <1>9, <1>10 DEF Step

LEMMA SentNext ==
  ASSUME TypeOK, TypeOK', HoldInv, SentInv, [Next]_vars
  PROVE  SentInv'
<1> USE PoolAssumption DEF TypeOK
<1>1. CASE \/ Enqueue \/ LoseData \/ Expire \/ RequestStop \/ Mine
           \/ (\E w \in Workers : Regroup(w)) \/ UNCHANGED vars
  <2>1. UNCHANGED <<pc, batch, mine, out>>
    BY <1>1 DEF Enqueue, LoseData, Expire, RequestStop, Mine, Regroup, vars, coros
  <2>2. Grows
    BY <1>1 DEF Enqueue, LoseData, Expire, RequestStop, Mine, Include, Regroup,
       vars, chain, Grows
  <2>3. Fades
    BY <1>1 DEF Enqueue, LoseData, Expire, RequestStop, Mine, Regroup, vars,
       redis, Fades
  <2> QED
    BY <2>1, <2>2, <2>3, SentKept DEF Same
<1>2. CASE Boot
  <2>1. /\ UNCHANGED <<took, result, out>> /\ \A a \in Actors : pc'[a] # "send"
        /\ \A a \in Actors : pc[a] = "off"
    BY <1>2 DEF Boot, Booted, HoldInv, Actors, chain
  <2>2. \A a \in Actors : Quiet(a)'
    BY <2>1, AwayIsQuiet DEF SentInv, Quiet, SignedAt
  <2> QED
    BY <2>1, <2>2, SentKept DEF Grows, Fades
<1>3. CASE Crash \/ StopReturns
  <2>1. UNCHANGED <<took, result>> /\ \A a \in Actors : Quiet(a)'
    BY <1>3 DEF Crash, StopReturns, Die, redis, chain, Quiet
  <2> QED
    BY <2>1, SentKept DEF Grows, Fades
<1>4. ASSUME NEW w \in Workers, Fetch(w) PROVE SentInv'
  <2>1. /\ UNCHANGED <<took, result>> /\ pc[w] = "fetch" /\ w \in Actors
        /\ \/ Raise(w)
           \/ /\ Goto(w, "take") /\ UNCHANGED <<mine, out>>
              /\ \A b \in Actors : b # w => batch'[b] = batch[b]
    BY <1>4 DEF Fetch, Actors, chain
  <2>2. \A b \in Actors : Same(b) \/ Quiet(b)'
    BY <2>1, RaiseQuiet, MoveQuiet DEF SignedAt, PCs
  <2> QED
    BY <2>1, <2>2, SentKept DEF Grows, Fades
<1>5. CASE Claim
  <2>1. /\ UNCHANGED <<took, result>>
        /\ pc[Starter] = "fetch" /\ Starter \in Actors
        /\ \/ Raise(Starter)
           \/ /\ Goto(Starter, "take") /\ UNCHANGED <<mine, out>>
              /\ \A b \in Actors : b # Starter => batch'[b] = batch[b]
    BY <1>5 DEF Claim, Actors, chain
  <2>2. \A b \in Actors : Same(b) \/ Quiet(b)'
    BY <2>1, RaiseQuiet, MoveQuiet DEF SignedAt, PCs
  <2> QED
    BY <2>1, <2>2, SentKept DEF Grows, Fades
<1>6. ASSUME NEW w \in Workers, Acquire(w) \/ Wake(w) PROVE SentInv'
  <2>1. /\ UNCHANGED <<took, result, batch, mine, out>>
        /\ pc[w] \in {"sem", "sleep"} /\ w \in Actors
        /\ \E l \in PCs \ {"send"} : Goto(w, l)
    BY <1>6 DEF Acquire, Wake, redis, Actors, PCs, chain
  <2>2. \A b \in Actors : Same(b) \/ Quiet(b)'
    BY <2>1, MoveQuiet DEF SignedAt
  <2> QED
    BY <2>1, <2>2, SentKept DEF Grows, Fades
<1> QED
  BY <1>1, <1>2, <1>3, <1>4, <1>5, <1>6, SentStep
     DEF Next, WorkerStep, StarterStep, Actors

LEMMA SentInvariant == Spec => []SentInv
<1>1. TypeOK /\ TypeOK' /\ HoldInv /\ SentInv /\ [Next]_vars => SentInv'
  BY SentNext
<1> QED
  BY <1>1, SentInit, HoldInvariant, TypeCorrect, PTL DEF Spec

\* The hash of a completed result, unless it is that of a null answer, belongs
\* to a transaction of this intent that the node took: through replacements,
\* retries, results merged over restarts, and losses.
THEOREM CompletedHashIsSent == Spec => []CompletedWasSent
BY SentInvariant, PTL DEF SentInv

-----------------------------------------------------------------------------
(* The pool implements the ledger *)

LEMMA HeldIs == \A e : e \in Held <=> \E a \in Actors : e \in batch[a]
BY DEF Held

LEMMA HeldShrinks ==
  ASSUME \A a \in Actors : batch'[a] \subseteq batch[a]
  PROVE  Held' \subseteq Held
BY DEF Held


LEMMA LedgerInitial == Init => Ledger!LedgerInit
BY PoolAssumption DEF Init, Ledger!LedgerInit, Ledger!Posts, Entries, Actors,
   LedgerOpen, LedgerDropped, Held

\* what the group never had was added before it was created
MissedInv == missed \subseteq 1..tail

LEMMA MissedInvariant == Spec => []MissedInv
<1>1. Init => MissedInv
  BY DEF Init, MissedInv
<1>2. TypeOK /\ HoldInv /\ MissedInv /\ [Next]_vars => MissedInv'
  <2> SUFFICES ASSUME TypeOK, HoldInv, MissedInv, [Next]_vars PROVE MissedInv'
    OBVIOUS
  <2> USE DEF TypeOK, MissedInv
  <2>1. CASE Enqueue
    BY <2>1 DEF Enqueue, fate
  <2>2. CASE LoseData
    BY <2>2 DEF LoseData, HoldInv
  <2>3. CASE Boot
    <3>1. CreateGroup \/ UNCHANGED missed
      BY <2>3 DEF Boot
    <3>2. QED
      BY <2>3, <3>1, cursor + 1 .. tail \subseteq 1..tail DEF Boot, CreateGroup
  <2>4. CASE \E w \in Workers : Regroup(w)
    BY <2>4 DEF Regroup, CreateGroup, stream
  <2>5. CASE Expire \/ RequestStop \/ Crash \/ StopReturns \/ Claim \/ Mine
    BY <2>5 DEF Expire, RequestStop, Crash, StopReturns, Die, Claim, Mine,
       redis, stream, fate
  <2>6. CASE \E w \in Workers : Fetch(w) \/ Acquire(w) \/ Wake(w)
    BY <2>6 DEF Fetch, Acquire, Wake, redis, stream, fate
  <2>7. ASSUME NEW a \in Actors, Step(a) PROVE MissedInv'
    BY <2>7 DEF Step, BatchDone, Take, Bury, Record, Ack, CallRaises,
       CheckConditions, GetNonce, CountReply, SendSync, SendRaw, redis, stream,
       fate
  <2>8. CASE UNCHANGED vars
    BY <2>8 DEF vars, redis, stream, fate
  <2>9. QED
    BY <2>1, <2>2, <2>3, <2>4, <2>5, <2>6, <2>7, <2>8
       DEF Next, WorkerStep, StarterStep, Actors
<1>3. QED
  BY <1>1, <1>2, HoldInvariant, TypeCorrect, PTL DEF Spec

\* a step that touches no queue, no batch and no answer is a stutter
LEMMA LedgerStutters ==
  ASSUME UNCHANGED <<tail, first, cursor, pel, batch, answer, missed>>
  PROVE  UNCHANGED Ledger!ledger
BY DEF Ledger!ledger, LedgerOpen, LedgerDropped, Held

\* a step that closes only entries that were answered or dropped
LEMMA LedgerCloses ==
  ASSUME TypeOK, TypeOK', UNCHANGED <<tail, answer>>, first <= first',
         missed \subseteq missed', missed' \subseteq 1..tail,
         LedgerOpen' \subseteq LedgerOpen,
         \A e \in LedgerOpen \ LedgerOpen' :
           answer[e] # "none" \/ e <= first' \/ e \in missed'
  PROVE  Ledger!Close
<1>1. \A e \in LedgerOpen : e \in Nat /\ e >= 1
  <2>1. \A e \in Held : e \in Entries
    BY HeldIs DEF TypeOK
  <2>2. QED
    BY <2>1, PoolAssumption DEF TypeOK, LedgerOpen, Entries
<1>2. /\ 1..first \subseteq 1..first' /\ 1..first' \subseteq 1..tail'
      /\ first' \in Nat
  BY PoolAssumption DEF TypeOK
<1>3. \A e \in LedgerOpen : e <= first' => e \in 1..first'
  BY <1>1, <1>2
<1>4. \A i \in LedgerOpen \ LedgerOpen' :
        answer[i] # "none" \/ i \in LedgerDropped'
  BY <1>3 DEF LedgerDropped
<1>5. Ledger!Drop
  BY <1>2 DEF Ledger!Drop, LedgerDropped
<1>6. tail' = tail /\ answer' = answer
  OBVIOUS
<1>7. QED
  BY <1>4, <1>5, <1>6, Zenon DEF Ledger!Close

\* what a coroutine lets go of stays pending or was lost
LEMMA LedgerLetsGo ==
  ASSUME TypeOK, TypeOK', HoldInv, MissedInv,
         UNCHANGED <<tail, first, cursor, pel, answer, missed>>,
         \A a \in Actors : batch'[a] \subseteq batch[a]
  PROVE  Ledger!Close
<1>1. LedgerOpen' \subseteq LedgerOpen
  BY HeldShrinks DEF LedgerOpen
<1>2. \A e \in LedgerOpen \ LedgerOpen' : e \in missed'
  BY HeldIs DEF LedgerOpen, HoldInv, ExclusiveHolding
<1>3. QED
  BY <1>1, <1>2, LedgerCloses DEF MissedInv, TypeOK

LEMMA LedgerStep ==
  ASSUME TypeOK, TypeOK', HoldInv, MissedInv, AnswerInv, NEW a \in Actors, Step(a)
  PROVE  Ledger!LedgerNext
<1> USE PoolAssumption DEF TypeOK
<1>1. ASSUME NEW e \in batch[a]
      PROVE  e \in Entries /\ e \in LedgerOpen
  BY HeldIs DEF LedgerOpen
<1>2. CASE Bury(a) \/ Record(a)
  <2>1. PICK e \in batch[a], s \in Answers : answer' = [answer EXCEPT ![e] = s]
    BY <1>2 DEF Bury, Record, Reported, Answers
  <2>2. UNCHANGED <<tail, first, cursor, pel, batch, missed>>
    BY <1>2 DEF Bury, Record, redis, stream, subscr
  <2>3. UNCHANGED LedgerOpen
    BY <2>2 DEF LedgerOpen, Held
  <2>4. Ledger!Answer
    <3>1. /\ e \in LedgerOpen /\ tail' = tail /\ LedgerOpen' = LedgerOpen
          /\ LedgerDropped' = LedgerDropped
      BY <1>1, <2>2, <2>3 DEF LedgerDropped
    <3>2. QED
      BY <2>1, <3>1, Zenon DEF Ledger!Answer
  <2>5. QED
    BY <2>4 DEF Ledger!LedgerNext
<1>3. CASE Ack(a)
  <2>1. PICK e \in batch[a] :
          /\ Current(a, e) /\ pel' = pel \ {e}
          /\ batch' = [batch EXCEPT ![a] = @ \ {e}]
             \/ batch' = [batch EXCEPT ![a] = {}]
    BY <1>3 DEF Ack, Raise
  <2>2. UNCHANGED <<tail, first, cursor, answer, missed>> /\ pc[a] = "ack"
    BY <1>3 DEF Ack, stream, fate
  <2>3. answer[e] # "none"
    BY <2>1, <2>2 DEF AnswerInv, Answered
  <2>4. \A b \in Actors : batch'[b] \subseteq batch[b]
    BY <2>1
  <2>5. LedgerOpen' \subseteq LedgerOpen
    BY <2>1, <2>2, <2>4, HeldShrinks DEF LedgerOpen
  <2>6. \A x \in LedgerOpen \ LedgerOpen' : x = e \/ x \in missed'
    BY <2>1, <2>2, HeldIs DEF LedgerOpen, HoldInv, ExclusiveHolding
  <2>7. Ledger!Close
    BY <2>2, <2>3, <2>5, <2>6, LedgerCloses DEF MissedInv
  <2>8. QED
    BY <2>7 DEF Ledger!LedgerNext
<1>4. CASE \/ BatchDone(a) \/ Take(a) \/ CallRaises(a) \/ CheckConditions(a)
           \/ GetNonce(a) \/ CountReply(a) \/ SendSync(a) \/ SendRaw(a)
  <2>1. UNCHANGED <<tail, first, cursor, pel, answer, missed>>
    BY <1>4 DEF BatchDone, Take, CallRaises, CheckConditions, GetNonce,
       CountReply, SendSync, SendRaw, redis, stream, subscr, fate
  <2>2. \A b \in Actors : batch'[b] \subseteq batch[b]
    BY <1>4 DEF BatchDone, Take, CallRaises, CheckConditions, GetNonce,
       CountReply, SendSync, SendRaw, Raise
  <2>3. QED
    BY <2>1, <2>2, LedgerLetsGo DEF Ledger!LedgerNext
<1>5. QED
  BY <1>2, <1>3, <1>4 DEF Step

\* a group created at the end of the stream closes what it passes over
LEMMA LedgerPasses ==
  ASSUME TypeOK, TypeOK', MissedInv, CreateGroup, first <= first',
         UNCHANGED <<tail, pel, batch, answer>>
  PROVE  Ledger!Close
<1> USE DEF TypeOK
<1>0. UNCHANGED Held
  BY DEF Held
<1>1. LedgerOpen' \subseteq LedgerOpen
  BY <1>0 DEF LedgerOpen, CreateGroup
<1>2. \A e \in LedgerOpen \ LedgerOpen' : e \in missed'
  BY <1>0 DEF LedgerOpen, CreateGroup
<1>3. missed \subseteq missed' /\ missed' \subseteq 1..tail
  BY DEF CreateGroup, MissedInv
<1>4. QED
  BY <1>1, <1>2, <1>3, LedgerCloses

LEMMA LedgerStepOrStutter ==
  ASSUME TypeOK, TypeOK', HoldInv, MissedInv, AnswerInv, [Next]_vars
  PROVE  [Ledger!LedgerNext]_(Ledger!ledger)
<1> USE PoolAssumption DEF TypeOK
<1>1. CASE Enqueue
  <2>1. UNCHANGED <<cursor, pel, batch, answer, missed>> /\ tail' = tail + 1
        /\ tail < MaxEntries /\ first' \in first .. tail'
    BY <1>1 DEF Enqueue, TrimTo, subscr, coros, fate
  <2>2. LedgerOpen' = LedgerOpen \cup {tail + 1}
    <3>1. UNCHANGED Held
      BY <2>1 DEF Held
    <3>2. cursor' + 1 .. tail' = cursor + 1 .. tail \cup {tail + 1}
      BY <2>1
    <3>3. QED
      BY <2>1, <3>1, <3>2 DEF LedgerOpen
  <2>3. 1..first \subseteq 1..first' /\ 1..first' \subseteq 1..tail'
        /\ missed \subseteq 1..tail'
    BY <2>1 DEF MissedInv
  <2>4. Ledger!Post
    <3>1. Ledger!Drop
      BY <2>1, <2>3 DEF Ledger!Drop, LedgerDropped
    <3>2. QED
      BY <2>1, <2>2, <3>1, Zenon DEF Ledger!Post
  <2>5. QED
    BY <2>4 DEF Ledger!LedgerNext
<1>2. CASE Boot
  <2>1. first <= first' /\ UNCHANGED <<tail, pel, batch, answer>>
    BY <1>2 DEF Boot, TrimTo
  <2>2. CASE CreateGroup
    BY <2>1, <2>2, LedgerPasses DEF Ledger!LedgerNext
  <2>3. CASE UNCHANGED <<cursor, missed>>
    <3>1. UNCHANGED LedgerOpen
      BY <2>1, <2>3 DEF LedgerOpen, Held
    <3>2. QED
      BY <2>1, <2>3, <3>1, LedgerCloses DEF MissedInv, Ledger!LedgerNext
  <2>4. QED
    BY <1>2, <2>2, <2>3 DEF Boot
<1>3. CASE RequestStop \/ Expire \/ Mine \/ UNCHANGED vars
  BY <1>3, LedgerStutters DEF RequestStop, Expire, Mine, vars, redis, stream,
     subscr, coros, fate
<1>4. CASE Crash \/ StopReturns
  <2>1. /\ UNCHANGED <<tail, first, cursor, pel, answer, missed>>
        /\ \A a \in Actors : batch'[a] \subseteq batch[a]
    BY <1>4 DEF Crash, StopReturns, Die, redis, stream, subscr, fate
  <2>2. QED
    BY <2>1, LedgerLetsGo DEF Ledger!LedgerNext
<1>5. CASE LoseData
  <2>1. /\ UNCHANGED <<tail, batch, answer>> /\ first <= first' /\ cursor' = tail
        /\ pel' = {} /\ missed' = missed \cup pel \cup cursor + 1 .. tail
    BY <1>5 DEF LoseData, coros
  <2>0. UNCHANGED Held
    BY <2>1 DEF Held
  <2>2. LedgerOpen' \subseteq LedgerOpen
    BY <2>0, <2>1 DEF LedgerOpen
  <2>3. \A e \in LedgerOpen \ LedgerOpen' : e \in missed'
    BY <2>0, <2>1 DEF LedgerOpen
  <2>4. missed \subseteq missed' /\ missed' \subseteq 1..tail
    BY <2>1 DEF MissedInv, HoldInv
  <2>5. QED
    BY <2>1, <2>2, <2>3, <2>4, LedgerCloses DEF Ledger!LedgerNext
<1>6. ASSUME NEW w \in Workers, Regroup(w) PROVE Ledger!LedgerNext
  BY <1>6, LedgerPasses DEF Regroup, stream, coros, Ledger!LedgerNext
<1>7. ASSUME NEW w \in Workers, Fetch(w) PROVE Ledger!LedgerNext
  <2> DEFINE lo == IF first > cursor THEN first ELSE cursor
             hi == IF tail - lo <= FetchCount THEN tail ELSE lo + FetchCount
  <2>1. /\ cursor' = hi /\ pel' = pel \cup lo + 1 .. hi /\ lo < tail
        /\ UNCHANGED <<tail, first, answer, missed>>
        /\ batch' = [batch EXCEPT ![w] = lo + 1 .. hi]
           \/ batch' = [batch EXCEPT ![w] = {}]
    BY <1>7 DEF Fetch, Raise, stream, fate
  <2>2. /\ lo \in Nat /\ hi \in Nat /\ cursor <= lo /\ lo <= hi /\ hi <= tail
        /\ \A e \in cursor + 1 .. tail : e \in lo + 1 .. tail \/ e <= first
    BY <2>1
  <2> HIDE DEF lo, hi
  <2>3. /\ \A a \in Actors : batch'[a] \subseteq batch[a] \cup lo + 1 .. hi
        /\ w \in Actors /\ batch[w] = {}
    BY <1>7, <2>1 DEF Fetch, HoldInv, Actors
  <2>4. LedgerOpen' \subseteq LedgerOpen
    <3>1. Held' \subseteq Held \cup lo + 1 .. hi
      BY <2>3 DEF Held
    <3>2. lo + 1 .. hi \cup cursor' + 1 .. tail' \subseteq cursor + 1 .. tail
      BY <2>1, <2>2
    <3>3. QED
      BY <2>1, <3>1, <3>2 DEF LedgerOpen
  <2>5. \A e \in LedgerOpen \ LedgerOpen' : e <= first'
    <3>1. \A a \in Actors : batch[a] \subseteq batch'[a]
      BY <2>1, <2>3
    <3>2. Held \subseteq Held'
      BY <3>1 DEF Held
    <3>3. \A e \in lo + 1 .. tail : e \in lo + 1 .. hi \/ e \in cursor' + 1 .. tail'
      BY <2>1, <2>2
    <3>4. QED
      BY <2>1, <2>2, <3>2, <3>3 DEF LedgerOpen
  <2>6. Ledger!Close
    <3>1. /\ UNCHANGED <<tail, answer>> /\ first <= first'
          /\ missed \subseteq missed' /\ missed' \subseteq 1..tail
      BY <2>1 DEF MissedInv
    <3> HIDE DEF TypeOK
    <3>2. QED
      BY <2>4, <2>5, <3>1, LedgerCloses
  <2>7. QED
    BY <2>6 DEF Ledger!LedgerNext
<1>8. CASE Claim
  <2>1. PICK S \in SUBSET pel :
          /\ pel' = pel \ (S \ {e \in S : e > first})
          /\ \/ batch' = [batch EXCEPT ![Starter] =
                            {e \in {f \in S : f > first} : Parseable(e)}]
             \/ batch' = [batch EXCEPT ![Starter] = {}]
    BY <1>8 DEF Claim, Raise
  <2>2. /\ UNCHANGED <<tail, first, cursor, answer, missed>>
        /\ Starter \in Actors /\ batch[Starter] = {}
    BY <1>8 DEF Claim, stream, fate, HoldInv, Actors
  <2>3. pel' \subseteq pel /\ \A e \in pel : e \in pel' \/ e <= first'
    BY <2>1, <2>2 DEF Entries
  <2>4. \A a \in Actors : batch'[a] \subseteq batch[a] \cup pel'
    BY <2>1, <2>2
  <2>5. \A a \in Actors : batch[a] \subseteq batch'[a]
    BY <2>1, <2>2
  <2>6. LedgerOpen' \subseteq LedgerOpen
    <3>1. Held' \subseteq Held \cup pel'
      BY <2>4 DEF Held
    <3>2. QED
      BY <2>2, <2>3, <3>1 DEF LedgerOpen
  <2>7. \A e \in LedgerOpen \ LedgerOpen' : e <= first'
    <3>1. Held \subseteq Held'
      BY <2>5 DEF Held
    <3>2. QED
      BY <2>2, <2>3, <3>1 DEF LedgerOpen
  <2>8. Ledger!Close
    BY <2>2, <2>6, <2>7, LedgerCloses DEF MissedInv
  <2>9. QED
    BY <2>8 DEF Ledger!LedgerNext
<1>9. ASSUME NEW w \in Workers, Acquire(w) \/ Wake(w)
      PROVE  UNCHANGED Ledger!ledger
  BY <1>9, LedgerStutters DEF Acquire, Wake, redis, stream, subscr, fate
<1>10. QED
  BY <1>1, <1>2, <1>3, <1>4, <1>5, <1>6, <1>7, <1>8, <1>9, LedgerStep
     DEF Next, WorkerStep, StarterStep, Actors

\* The pool keeps the promise of the ledger: an intent stays open until it is
\* answered, whatever fails, and a closed intent's answer never changes.
THEOREM PoolImplementsLedger == Spec => LedgerSpec
<1>1. TypeOK /\ TypeOK' /\ HoldInv /\ MissedInv /\ AnswerInv /\ [Next]_vars
        => [Ledger!LedgerNext]_(Ledger!ledger)
  BY LedgerStepOrStutter
<1>2. QED
  BY <1>1, LedgerInitial, TypeCorrect, HoldInvariant, MissedInvariant,
     AnswerInvariant, PTL DEF Spec, LedgerSpec, Ledger!Spec
=============================================================================
