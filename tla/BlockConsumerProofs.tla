-------------------------- MODULE BlockConsumerProofs --------------------------
(***************************************************************************)
(* Theorems about BlockConsumer, for every role, any number of blocks,     *)
(* restarts, faults and losses of Redis, and any batch sizes.              *)
(***************************************************************************)
EXTENDS BlockConsumer, TLAPS

(***************************************************************************)
(* Type correctness                                                        *)
(***************************************************************************)

\* a group is created at the end of the stream
LEMMA CreateGroupTyped ==
  ASSUME TypeOK, CreateGroup
  PROVE  group' = "exists" /\ cursor' \in 0..tail /\ missed' \subseteq Entries
<1>1. tail \in 0..MaxEntries /\ cursor \in 0..tail /\ missed \subseteq Entries
  BY DEF TypeOK
<1>2. cursor + 1 .. tail \subseteq Entries
  BY <1>1, ConsumerAssumption DEF Entries
<1>3. QED
  BY <1>1, <1>2, ConsumerAssumption DEF CreateGroup

\* XREADGROUP delivers at least one entry and none past the stream's end
LEMMA LastReadBounds ==
  ASSUME TypeOK, NEW lo \in Nat, lo < tail
  PROVE  LastRead(lo) \in lo + 1 .. tail /\ lo + 1 .. LastRead(lo) \subseteq Entries
<1>1. LastRead(lo) \in lo + 1 .. tail
  BY ConsumerAssumption DEF TypeOK, LastRead
<1>2. tail \in 0..MaxEntries
  BY DEF TypeOK
<1>3. QED
  BY <1>1, <1>2, ConsumerAssumption DEF Entries

\* XAUTOCLAIM hands out pending entries and adds none
LEMMA ClaimTakes ==
  ASSUME TypeOK, Claim
  PROVE  /\ pel' \subseteq pel /\ batch' \subseteq pel'
         /\ left' \subseteq left \cup pel
         /\ \A e \in pel \ pel' : e <= first
<1>1. CASE Escape /\ UNCHANGED pel
  BY <1>1 DEF Escape
<1>2. CASE ~(Escape /\ UNCHANGED pel)
  <2>1. PICK taken :
          /\ taken \subseteq pel
          /\ pel' = {e \in pel : e \in taken => e > first}
          /\ batch' = {e \in taken : e > first}
          /\ left' = left \cup (pel \ taken)
    <3>1. PICK idle \in SUBSET pel :
            LET taken == {e \in idle :
                            Cardinality({f \in idle : f < e}) < ClaimCount}
            IN /\ pel' = {e \in pel : e \in taken => e > first}
               /\ batch' = {e \in taken : e > first}
               /\ left' = left \cup (pel \ taken)
      BY <1>2 DEF Claim
    <3>2. {e \in idle : Cardinality({f \in idle : f < e}) < ClaimCount}
            \subseteq pel
      BY <3>1
    <3>3. QED
      BY <3>1, <3>2
  <2>2. \A e \in pel \ pel' : ~(e > first)
    BY <2>1
  <2>3. first \in Nat /\ \A e \in pel : e \in Nat
    BY ConsumerAssumption DEF TypeOK, Entries
  <2>4. QED
    BY <2>1, <2>2, <2>3
<1>3. QED
  BY <1>1, <1>2

\* parsing rejects the block, hands it to the sink or decides that there is
\* nothing to do for it
ParseResult(e) ==
  \/ pc' \in {"bury", "commit"} /\ UNCHANGED outcome
  \/ pc' = "ack" /\ Decide(e, "nothing")
  \/ pc' = "ack" /\ Decide(e, "degraded")

LEMMA ParseDecides ==
  ASSUME Parse
  PROVE  /\ pc = "parse"
         /\ \E e \in batch : Current(e) /\ ParseResult(e)
         /\ UNCHANGED <<stream, worker, batch, faults, applied, tries, missed>>
BY DEF Parse, Rejected, StateParse, BalanceParse, VectorParse, Sink, Skip,
   ParseResult

\* the sink commits the block, or the block goes to the dead letters with or
\* without having been committed
CommitResult(e) ==
  \/ pc' = "ack" /\ Decide(e, "applied") /\ Apply(e) /\ UNCHANGED faults
  \/ /\ pc' = "bury" /\ UNCHANGED outcome
     /\ UNCHANGED applied \/ Apply(e)
     /\ UNCHANGED faults \/ Fault

LEMMA CommitDecides ==
  ASSUME Commit
  PROVE  /\ pc = "commit"
         /\ \E e \in batch : Current(e) /\ CommitResult(e)
         /\ UNCHANGED <<stream, worker, batch, tries, missed>>
BY DEF Commit, Accept, Refuse, Lose, Break, CommitResult

\* Every state of a group and its worker is well typed; in particular the
\* group never reads past the stream and trimming never passes its end.
THEOREM TypeCorrect == Spec => []TypeOK
<1>1. Init => TypeOK
  BY ConsumerAssumption DEF Init, TypeOK, Entries, AllKinds, PCs, Outcomes
<1>2. TypeOK /\ [Next]_vars => TypeOK'
  <2> SUFFICES ASSUME TypeOK, [Next]_vars PROVE TypeOK'
    OBVIOUS
  <2> USE ConsumerAssumption DEF TypeOK, worker, fate
  <2>1. CASE Publish
    BY <2>1 DEF Publish, TrimTo, Entries
  <2>2. CASE LoseData
    BY <2>2 DEF LoseData, Entries
  <2>3. CASE Boot
    <3>1. first' \in first .. tail
      BY <2>3 DEF Boot, TrimTo
    <3>2. group' \in {"exists", "none"} /\ cursor' \in 0..tail /\ missed' \subseteq Entries
      BY <2>3, CreateGroupTyped DEF Boot
    <3>3. loop' \in {"orphans", "main"} /\ pc' \in PCs /\ proc' = "up" /\ session' \in 0..MaxSessions
      BY <2>3 DEF Boot, PCs
    <3>4. QED
      BY <2>3, <3>1, <3>2, <3>3 DEF Boot
  <2>4. CASE Shutdown
    BY <2>4 DEF Shutdown, stream
  <2>5. CASE Die \/ Exit
    BY <2>5 DEF Die, Exit, Halt, PCs, stream
  <2>6. CASE Claim
    <3>1. pel' \subseteq Entries /\ batch' \subseteq Entries /\ left' \subseteq Entries
      BY <2>6, ClaimTakes
    <3>2. /\ pc' \in PCs /\ faults' \in 0..MaxFaults /\ loop' \in {"orphans", "main"}
          /\ UNCHANGED <<role, proc, session>>
      BY <2>6 DEF Claim, Escape, Fault, PCs
    <3>3. QED
      BY <2>6, <3>1, <3>2 DEF Claim
  <2>7. CASE Read
    <3>1. CASE Listens /\ proc = "stopping"
      BY <2>7, <3>1 DEF Read, PCs, stream
    <3>2. CASE ~(Listens /\ proc = "stopping") /\ group = "none"
      BY <2>7, <3>2, CreateGroupTyped DEF Read
    <3>3. CASE ~(Listens /\ proc = "stopping") /\ group # "none"
      <4>1. PICK lo \in Nat :
              /\ lo < tail /\ cursor' = LastRead(lo)
              /\ pel' = pel \cup lo + 1 .. LastRead(lo)
              /\ \/ /\ batch' = lo + 1 .. LastRead(lo) /\ pc' = "take"
                    /\ UNCHANGED <<worker, faults>>
                 \/ Escape /\ Fault
              /\ UNCHANGED <<tail, first, kind, group, losses, fate>>
        BY <2>7, <3>3 DEF Read
      <4>2. cursor' \in 0..tail /\ lo + 1 .. cursor' \subseteq Entries
        BY <4>1, LastReadBounds
      <4>3. pel' \subseteq Entries
        BY <4>1, <4>2
      <4>4. batch' \subseteq Entries
        BY <4>1, <4>2 DEF Escape
      <4>5. /\ pc' \in PCs /\ faults' \in 0..MaxFaults
            /\ loop' \in {"orphans", "main"} /\ UNCHANGED <<role, proc, session>>
            /\ left' \subseteq Entries
        BY <4>1 DEF Escape, Fault, PCs
      <4>6. QED
        BY <4>1, <4>2, <4>3, <4>4, <4>5
    <3>4. QED
      BY <3>1, <3>2, <3>3
  <2>8. CASE ReadRaises
    BY <2>8 DEF ReadRaises, Escape, Fault, PCs, stream
  <2>9. CASE Take \/ BatchDone
    BY <2>9 DEF Take, BatchDone, PCs, stream
  <2>10. CASE Parse \/ Commit
    BY <2>10, ParseDecides, CommitDecides DEF ParseResult, CommitResult, Apply, Decide, Fault, PCs, Outcomes, stream
  <2>11. CASE Ack \/ AckDead
    BY <2>11 DEF Ack, AckDead, Escape, Fault, PCs
  <2>12. CASE Bury
    BY <2>12 DEF Bury, Decide, Escape, Fault, PCs, Outcomes, stream
  <2>13. CASE UNCHANGED vars
    BY <2>13 DEF vars, stream
  <2>14. QED
    BY <2>1, <2>2, <2>3, <2>4, <2>5, <2>6, <2>7, <2>8, <2>9, <2>10, <2>11,
       <2>12, <2>13 DEF Next, Step
<1>3. QED
  BY <1>1, <1>2, PTL DEF Spec

(***************************************************************************)
(* What is pending, held, and decided.  AckedIsDecided is not inductive:   *)
(* that XACK removes a decided entry rests on where the worker stands in   *)
(* the processing of the one it is at, and that nothing delivered is       *)
(* forgotten on what it holds and what is pending being delivered ones.    *)
(***************************************************************************)
DeliveryInv ==
  /\ pel \subseteq 1..cursor
  /\ batch \subseteq 1..cursor
  /\ missed \subseteq 1..tail
  /\ proc = "down" => pc = "off"
  /\ pc \in {"off", "claim", "read", "ended"} => batch = {}
  /\ pc \in {"ack", "ackdead"} =>
       \A e \in batch : Current(e) => outcome[e] # "none"
  /\ AckedIsDecided

\* An exception only makes the worker let go of what it holds.
LEMMA EscapeDelivers ==
  ASSUME TypeOK, DeliveryInv, Escape,
         UNCHANGED <<tail, first, cursor, outcome, missed>>,
         pc # "off", pel' \subseteq pel,
         \A e \in pel \ pel' : outcome[e] # "none"
  PROVE  DeliveryInv'
<1>1. batch' = {} /\ pc' \in {"read", "ended"} /\ proc' # "down"
  BY DEF Escape, DeliveryInv
<1>2. AckedIsDecided'
  BY DEF DeliveryInv, AckedIsDecided, Gone
<1>3. QED
  BY <1>1, <1>2 DEF DeliveryInv

\* A new group: all that is in the stream counts as missed.
LEMMA CreateGroupDelivers ==
  ASSUME TypeOK, DeliveryInv, CreateGroup, batch = {}, batch' = {},
         tail' = tail, pel' = pel, first' \in first .. tail,
         outcome' = outcome, pc' \in {"claim", "read"}, proc' # "down"
  PROVE  DeliveryInv'
<1>1. cursor \in 0..tail /\ tail \in Nat /\ first \in 0..tail
  BY ConsumerAssumption DEF TypeOK
<1>2. cursor' = tail /\ missed' = missed \cup cursor + 1 .. tail
  BY DEF CreateGroup
<1>3. pel' \subseteq 1..cursor' /\ missed' \subseteq 1..tail'
  BY <1>1, <1>2 DEF DeliveryInv
<1>4. AckedIsDecided'
  <2>1. SUFFICES ASSUME NEW e \in 1..tail
                 PROVE  e \in pel \/ e <= first' \/ e \in missed' \/ outcome[e] # "none"
    BY <1>2 DEF AckedIsDecided, Gone
  <2>2. CASE e \in cursor + 1 .. tail
    BY <2>2, <1>2
  <2>3. CASE e \in 1..cursor
    BY <2>3, <1>1, <1>2 DEF DeliveryInv, AckedIsDecided, Gone
  <2>4. QED
    BY <1>1, <2>2, <2>3
<1>5. QED
  BY <1>3, <1>4 DEF DeliveryInv

\* Initially nothing is delivered.
LEMMA DeliveryInit == Init => DeliveryInv
BY DEF Init, DeliveryInv, AckedIsDecided

\* Every step keeps it.
LEMMA DeliveryNext ==
  ASSUME TypeOK, TypeOK', DeliveryInv, [Next]_vars
  PROVE  DeliveryInv'
<1>0. /\ tail \in Nat /\ cursor \in 0..tail /\ first \in 0..tail
      /\ tail' \in Nat /\ cursor' \in 0..tail' /\ first' \in 0..tail'
  BY ConsumerAssumption DEF TypeOK
<1>1. CASE Publish
  <2>1. /\ first' \in first .. tail + 1 /\ tail' = tail + 1
        /\ UNCHANGED <<cursor, pel, batch, outcome, missed, pc, proc>>
    BY <1>0, <1>1 DEF Publish, TrimTo, fate, worker
  <2>2. AckedIsDecided'
    BY <1>0, <2>1 DEF DeliveryInv, AckedIsDecided, Gone
  <2>3. missed' \subseteq 1..tail'
    BY <1>0, <2>1 DEF DeliveryInv
  <2>4. QED
    BY <2>1, <2>2, <2>3 DEF DeliveryInv, Current
<1>2. CASE LoseData
  <2>1. /\ cursor' = tail /\ pel' = {} /\ first' = tail
        /\ missed' = missed \cup pel \cup cursor + 1 .. tail
        /\ UNCHANGED <<tail, batch, outcome, pc, proc>>
    BY <1>2 DEF LoseData, worker
  <2>2. AckedIsDecided'
    BY <1>0, <2>1 DEF AckedIsDecided, Gone
  <2>3. missed' \subseteq 1..tail' /\ batch' \subseteq 1..cursor' /\ pel' \subseteq 1..cursor'
    BY <1>0, <2>1 DEF DeliveryInv
  <2>4. QED
    BY <2>1, <2>2, <2>3 DEF DeliveryInv, Current
<1>3. CASE Boot
  <2>1. /\ first' \in first .. tail /\ pc' \in {"claim", "read"}
        /\ proc' = "up" /\ UNCHANGED <<tail, pel, batch, outcome>>
    BY <1>0, <1>3 DEF Boot, TrimTo
  <2>2. batch = {}
    BY <1>3 DEF DeliveryInv, Boot
  <2>3. CASE CreateGroup
    BY <2>1, <2>2, <2>3, CreateGroupDelivers
  <2>4. CASE UNCHANGED <<cursor, missed>>
    <3>1. AckedIsDecided'
      BY <1>0, <2>1, <2>4 DEF DeliveryInv, AckedIsDecided, Gone
    <3>2. QED
      BY <2>1, <2>2, <2>4, <3>1 DEF DeliveryInv
  <2>5. QED
    BY <1>3, <2>3, <2>4 DEF Boot
<1>4. CASE Shutdown
  BY <1>4 DEF Shutdown, DeliveryInv, AckedIsDecided, Gone, Current, stream, fate
<1>5. CASE Die \/ Exit
  BY <1>5 DEF Die, Exit, Halt, DeliveryInv, AckedIsDecided, Gone, Current,
     stream, fate
<1>6. CASE Claim
  <2>1. /\ UNCHANGED <<tail, first, cursor, outcome, missed, proc>> /\ proc # "down"
        /\ pc' \in {"take", "read", "ended"}
        /\ pc' \in {"read", "ended"} => batch' = {}
    BY <1>6 DEF Claim, Escape, worker, fate, DeliveryInv
  <2>2. AckedIsDecided'
    BY <1>6, <2>1, ClaimTakes DEF DeliveryInv, AckedIsDecided, Gone
  <2>3. QED
    BY <1>6, <2>1, <2>2, ClaimTakes DEF DeliveryInv
<1>7. CASE Read
  <2>1. proc # "down" /\ batch = {} /\ proc' = proc
    BY <1>7 DEF DeliveryInv, Read, Escape, worker
  <2>2. CASE Listens /\ proc = "stopping"
    BY <1>7, <2>1, <2>2 DEF Read, DeliveryInv, AckedIsDecided, Gone, stream, fate
  <2>3. CASE ~(Listens /\ proc = "stopping") /\ group = "none"
    <3>1. /\ CreateGroup /\ pc' = "read"
          /\ UNCHANGED <<tail, first, pel, batch, outcome>>
      BY <1>7, <2>3 DEF Read
    <3>2. first' \in first .. tail
      BY <1>0, <3>1
    <3>3. QED
      BY <2>1, <3>1, <3>2, CreateGroupDelivers
  <2>4. CASE ~(Listens /\ proc = "stopping") /\ group # "none"
    <3>1. PICK lo \in Nat :
            /\ lo >= first /\ lo >= cursor /\ (lo = first \/ lo = cursor)
            /\ lo < tail /\ cursor' = LastRead(lo)
            /\ pel' = pel \cup lo + 1 .. LastRead(lo)
            /\ \/ /\ batch' = lo + 1 .. LastRead(lo) /\ pc' = "take"
                  /\ UNCHANGED <<worker, faults>>
               \/ Escape /\ Fault
            /\ UNCHANGED <<tail, first, kind, group, losses, fate>>
      BY <1>0, <1>7, <2>4 DEF Read
    <3>2. cursor' \in lo + 1 .. tail
      BY <3>1, LastReadBounds
    <3>3. AckedIsDecided'
      <4>1. SUFFICES ASSUME NEW e \in 1..cursor'
                     PROVE  e \in pel' \/ e <= first \/ e \in missed \/ outcome[e] # "none"
        BY <3>1 DEF AckedIsDecided, Gone, fate
      <4>2. CASE e \in lo + 1 .. cursor'
        BY <3>1, <4>2
      <4>3. CASE e <= first
        BY <4>3
      <4>4. CASE e <= cursor
        BY <1>0, <3>1, <4>4 DEF DeliveryInv, AckedIsDecided, Gone
      <4>5. QED
        BY <1>0, <3>1, <3>2, <4>2, <4>3, <4>4
    <3>4. 1..cursor \subseteq 1..cursor' /\ lo + 1 .. cursor' \subseteq 1..cursor'
      BY <1>0, <3>1, <3>2
    <3>5. pel' \subseteq 1..cursor'
      BY <3>1, <3>4 DEF DeliveryInv
    <3>6. \/ batch' = lo + 1 .. cursor' /\ pc' = "take"
          \/ batch' = {} /\ pc' \in {"read", "ended"}
      BY <3>1 DEF Escape
    <3>7. QED
      BY <2>1, <3>1, <3>3, <3>4, <3>5, <3>6 DEF DeliveryInv, fate
  <2>5. QED
    BY <2>2, <2>3, <2>4
<1>8. CASE ReadRaises
  BY <1>8, EscapeDelivers DEF ReadRaises, stream, fate
<1>9. CASE Take \/ BatchDone
  BY <1>9 DEF Take, BatchDone, DeliveryInv, AckedIsDecided, Gone, Current, stream,
     fate, worker
<1>10. CASE Parse \/ Commit \/ (Bury /\ pc' = "ackdead")
  <2>1. PICK e \in batch :
          /\ Current(e)
          /\ \/ outcome' = outcome /\ pc' \in {"bury", "commit"}
             \/ \E what \in Outcomes \ {"none"} : Decide(e, what)
    BY <1>10, ParseDecides, CommitDecides DEF ParseResult, CommitResult, Bury, Outcomes, Decide, Escape
  <2>2. /\ pc' \in {"bury", "commit", "ack", "ackdead"} /\ pc # "off"
        /\ UNCHANGED <<tail, first, cursor, pel, batch, missed>>
    BY <1>10, ParseDecides, CommitDecides DEF ParseResult, CommitResult, Bury, stream, Escape
  <2>3. proc' = proc
    BY <1>10, ParseDecides, CommitDecides DEF ParseResult, CommitResult, Bury, worker, Escape
  <2>4. outcome' = outcome \/ (outcome' \in [Entries -> Outcomes] /\ outcome'[e] # "none"
           /\ \A f \in Entries : outcome[f] # "none" => outcome'[f] # "none")
    BY <2>1 DEF TypeOK, Decide
  <2>5. \A f \in batch : Current(f) => f = e
    BY <2>1 DEF Current, TypeOK, Entries
  <2>6. 1..cursor \subseteq Entries
    BY <1>0, ConsumerAssumption DEF TypeOK, Entries
  <2>7. AckedIsDecided'
    BY <2>2, <2>4, <2>6 DEF DeliveryInv, AckedIsDecided, Gone
  <2>8. pc' \in {"ack", "ackdead"} => outcome'[e] # "none"
    BY <2>1 DEF Decide, TypeOK
  <2>9. QED
    BY <2>2, <2>3, <2>5, <2>7, <2>8 DEF DeliveryInv, Current
<1>11. CASE Bury /\ pc' # "ackdead"
  BY <1>11, EscapeDelivers DEF Bury, stream, fate
<1>12. CASE Ack \/ (AckDead /\ pc' = "take")
  <2>1. PICK e \in batch :
          /\ Current(e) /\ outcome[e] # "none"
          /\ pel' \in {pel, pel \ {e}} /\ batch' \subseteq batch
          /\ pc' \in {"take", "bury"}
    BY <1>12 DEF Ack, AckDead, DeliveryInv, Escape
  <2>2. UNCHANGED <<tail, first, cursor, outcome, missed, proc>> /\ proc # "down"
    BY <1>12 DEF Ack, AckDead, worker, fate, Escape, DeliveryInv
  <2>3. AckedIsDecided'
    BY <2>1, <2>2 DEF DeliveryInv, AckedIsDecided, Gone
  <2>4. QED
    BY <2>1, <2>2, <2>3 DEF DeliveryInv
<1>13. CASE AckDead /\ pc' # "take"
  <2>1. PICK e \in batch :
          /\ Current(e) /\ pel' \in {pel, pel \ {e}} /\ Escape
    BY <1>13 DEF AckDead
  <2>2. outcome[e] # "none" /\ pc # "off"
    BY <1>13, <2>1 DEF AckDead, DeliveryInv
  <2>3. UNCHANGED <<tail, first, cursor, outcome, missed>>
    BY <1>13 DEF AckDead, fate
  <2>4. QED
    BY <2>1, <2>2, <2>3, EscapeDelivers
<1>14. CASE UNCHANGED vars
  BY <1>14 DEF vars, DeliveryInv, AckedIsDecided, Gone, Current, stream, fate,
     worker
<1>15. QED
  BY <1>1, <1>2, <1>3, <1>4, <1>5, <1>6, <1>7, <1>8, <1>9, <1>10, <1>11,
     <1>12, <1>13, <1>14 DEF Next, Step

LEMMA DeliveryInvariant == Spec => []DeliveryInv
<1>1. TypeOK /\ TypeOK' /\ DeliveryInv /\ [Next]_vars => DeliveryInv'
  BY DeliveryNext
<1>2. QED
  BY <1>1, DeliveryInit, TypeCorrect, PTL DEF Spec

\* What the group delivered and is no longer pending was decided, whatever
\* failed: an entry leaves the pending list only committed, found to be
\* without effect, degraded or dead-lettered, unless the stream dropped it.
THEOREM AckedWasDecided == Spec => []AckedIsDecided
<1>1. DeliveryInv => AckedIsDecided
  BY DEF DeliveryInv
<1>2. QED
  BY <1>1, DeliveryInvariant, PTL

(***************************************************************************)
(* Order.  From the orphan pass on, whatever is pending is in the worker's *)
(* hands, was left by the pass, or was trimmed: a worker that looks for    *)
(* orphans is never behind by more than one XREADGROUP.  Hence nothing it  *)
(* will still commit is older than what was committed, but for what was    *)
(* left.  Gone is not enough here: a batch may hold trimmed entries.       *)
(***************************************************************************)
HeldInv ==
  /\ pc = "read" => loop = "main"
  /\ pc \notin {"off", "claim", "ended"} =>
       \A f \in pel : f \in batch \/ f \in left \/ f <= first

OrderInv ==
  /\ HeldInv
  /\ \A f \in Entries : applied[f] > 0 => f <= cursor
  /\ \A f \in Entries, e \in pel \cup batch :
       applied[f] > 0 /\ e < f => e \in left \/ (e <= first /\ e \notin batch)

LEMMA OrderInit == Init => OrderInv
BY DEF Init, OrderInv, HeldInv

\* an orphan pass hands out pending entries, or leaves them
LEMMA ClaimLeaves ==
  ASSUME TypeOK, Claim
  PROVE  /\ left \subseteq left'
         /\ loop = "orphans" \/ ~Escape =>
              \A f \in pel' : f \in batch' \/ f \in left'
         /\ \A f \in batch' : f > first
<1>1. CASE Escape /\ UNCHANGED pel
  BY <1>1 DEF Escape
<1>2. CASE ~(Escape /\ UNCHANGED pel)
  <2>1. PICK idle \in SUBSET pel :
          LET taken == {e \in idle :
                          Cardinality({f \in idle : f < e}) < ClaimCount}
          IN /\ pel' = {e \in pel : e \in taken => e > first}
             /\ batch' = {e \in taken : e > first}
             /\ left' = left \cup (pel \ taken)
    BY <1>2 DEF Claim
  <2> DEFINE taken == {e \in idle : Cardinality({f \in idle : f < e}) < ClaimCount}
  <2>2. /\ pel' = {e \in pel : e \in taken => e > first}
        /\ batch' = {e \in taken : e > first}
        /\ left' = left \cup (pel \ taken)
    BY <2>1
  <2> HIDE DEF taken
  <2> QED
    BY <2>2
<1>3. QED
  BY <1>1, <1>2

\* what keeps it: nothing is committed, and what is held or pending was so
\* before or is new
LEMMA OrderKept ==
  ASSUME TypeOK, TypeOK', OrderInv, HeldInv', UNCHANGED applied,
         cursor <= cursor', first <= first', left \subseteq left',
         \A e \in pel' : e \in pel \/ e > cursor,
         \A e \in batch' : e \in batch \/ e > cursor \/ (e \in pel /\ e > first)
  PROVE  OrderInv'
<1>1. /\ cursor \in Int /\ cursor' \in Int /\ first \in Int /\ first' \in Int
      /\ \A e \in Entries : e \in Int
      /\ pel' \subseteq Entries /\ batch' \subseteq Entries
  BY ConsumerAssumption DEF TypeOK, Entries
<1>2. \A f \in Entries : applied'[f] > 0 => f <= cursor'
  BY <1>1 DEF OrderInv
<1>3. ASSUME NEW f \in Entries, NEW e \in pel' \cup batch', applied'[f] > 0, e < f,
             e \notin left'
      PROVE  e <= first' /\ e \notin batch'
  <2>1. e \in Entries /\ f <= cursor /\ ~(e > cursor) /\ e \notin left
    BY <1>1, <1>3 DEF OrderInv
  <2>2. e \in pel \cup batch
    BY <1>3, <2>1
  <2>3. e <= first /\ e \notin batch
    BY <1>3, <2>1, <2>2 DEF OrderInv
  <2> QED
    BY <1>1, <2>1, <2>3
<1> QED
  BY <1>2, <1>3 DEF OrderInv

\* after an exception nothing is held, and what the pass had is left
LEMMA EscapeOrdered ==
  ASSUME TypeOK, TypeOK', OrderInv, Escape, UNCHANGED <<applied, first>>,
         cursor <= cursor', pel' \subseteq pel \/ loop # "orphans",
         \A e \in pel' : e \in pel \/ e > cursor
  PROVE  OrderInv'
<1>1. /\ batch' = {} /\ left \subseteq left' /\ loop' = "main"
      /\ pc' = "ended" \/ pel' \subseteq left'
  BY DEF Escape
<1>2. HeldInv'
  BY <1>1 DEF HeldInv
<1>3. first <= first'
  BY ConsumerAssumption DEF TypeOK
<1> QED
  BY <1>1, <1>2, <1>3, OrderKept

LEMMA OrderNext ==
  ASSUME TypeOK, TypeOK', DeliveryInv, OrderInv, [Next]_vars
  PROVE  OrderInv'
<1> USE DEF TypeOK
<1>0. cursor \in Nat /\ tail \in Nat /\ cursor <= tail /\ first \in Nat
      /\ first' \in Nat /\ cursor' \in Nat
  BY ConsumerAssumption
<1>1. CASE Publish \/ Shutdown \/ UNCHANGED vars
  <2>1. UNCHANGED <<applied, pel, cursor, batch, left, pc, loop>> /\ first <= first'
    BY <1>0, <1>1 DEF Publish, Shutdown, TrimTo, vars, stream, worker, fate
  <2>2. HeldInv'
    BY <1>0, <2>1, ConsumerAssumption DEF OrderInv, HeldInv, Entries
  <2> QED
    BY <1>0, <2>1, <2>2, OrderKept
<1>2. CASE LoseData \/ Die \/ Exit
  <2>1. /\ UNCHANGED <<applied, left>> /\ pel' \subseteq pel /\ batch' \subseteq batch
        /\ pc' = "off" \/ (pel' = {} /\ UNCHANGED <<pc, loop>>)
        /\ first <= first' /\ cursor <= cursor'
    BY <1>0, <1>2 DEF LoseData, Die, Exit, Halt, stream, worker, fate
  <2>2. HeldInv'
    BY <2>1 DEF OrderInv, HeldInv
  <2> QED
    BY <1>0, <2>1, <2>2, OrderKept
<1>3. CASE Boot
  <2>1. /\ UNCHANGED <<applied, batch, pel>> /\ cursor <= cursor' /\ first <= first'
        /\ left \subseteq left'
        /\ pc' = "claim" \/ (pel \subseteq left' /\ loop' = "main")
    BY <1>0, <1>3 DEF Boot, CreateGroup, Claims, TrimTo
  <2>2. HeldInv'
    BY <2>1 DEF HeldInv
  <2> QED
    BY <1>0, <2>1, <2>2, OrderKept
<1>4. CASE Claim
  <2>1. UNCHANGED <<applied, cursor, first>> /\ pc = "claim"
    BY <1>4 DEF Claim, fate
  <2>2. CASE Escape
    BY <1>0, <1>4, <2>1, <2>2, ClaimTakes, EscapeOrdered
  <2>3. CASE ~Escape
    <3>1. HeldInv'
      BY <1>4, <2>3, ClaimLeaves DEF HeldInv, Claim
    <3> QED
      BY <1>0, <1>4, <2>1, <3>1, ClaimTakes, ClaimLeaves, OrderKept
  <2> QED
    BY <2>2, <2>3
<1>5. CASE Read
  <2>1. CASE (Listens /\ proc = "stopping") \/ group = "none"
    <3>1. /\ UNCHANGED <<applied, pel, batch, left, loop, first>>
          /\ pc = "read" /\ pc' \in {"read", "ended"}
      BY <1>5, <2>1 DEF Read, stream, worker, fate
    <3>2. cursor' \in {cursor, tail}
      BY <1>5, <2>1 DEF Read, CreateGroup, stream
    <3>3. HeldInv'
      BY <3>1 DEF OrderInv, HeldInv
    <3> QED
      BY <1>0, <3>1, <3>2, <3>3, OrderKept
  <2>2. CASE ~((Listens /\ proc = "stopping") \/ group = "none")
    <3> DEFINE lo == IF first > cursor THEN first ELSE cursor
    <3>1. /\ lo < tail /\ cursor' = LastRead(lo) /\ pc = "read"
          /\ pel' = pel \cup lo + 1 .. LastRead(lo)
          /\ \/ /\ batch' = lo + 1 .. LastRead(lo) /\ pc' = "take"
                /\ UNCHANGED worker
             \/ Escape /\ Fault
          /\ UNCHANGED <<applied, first>>
      BY <1>5, <2>2 DEF Read, fate
    <3>2. lo \in Nat /\ lo >= cursor
      BY ConsumerAssumption
    <3> HIDE DEF lo
    <3>3. cursor' > lo /\ cursor' \in Nat
      BY <1>0, <3>1, <3>2, ConsumerAssumption DEF LastRead
    <3>4. \A e \in lo + 1 .. LastRead(lo) : e > cursor
      BY <1>0, <3>2
    <3>5. batch = {} /\ loop = "main"
      BY <3>1 DEF DeliveryInv, OrderInv, HeldInv
    <3>6. cursor <= cursor' /\ \A e \in pel' : e \in pel \/ e > cursor
      BY <1>0, <3>1, <3>2, <3>3, <3>4
    <3> HIDE DEF TypeOK
    <3>7. CASE Escape
      BY <3>1, <3>5, <3>6, <3>7, EscapeOrdered
    <3>8. CASE batch' = lo + 1 .. LastRead(lo) /\ pc' = "take" /\ UNCHANGED worker
      <4>1. HeldInv'
        BY <3>1, <3>5, <3>8 DEF OrderInv, HeldInv, worker
      <4>2. left' = left /\ first <= first' /\ \A e \in batch' : e > cursor
        BY <1>0, <3>1, <3>4, <3>8 DEF worker
      <4> QED
        BY <3>1, <3>6, <4>1, <4>2, OrderKept
    <3> QED
      BY <3>1, <3>7, <3>8
  <2> QED
    BY <2>1, <2>2
<1>6. CASE ReadRaises
  BY <1>0, <1>6, EscapeOrdered DEF ReadRaises, stream, fate
<1>7. CASE Take \/ BatchDone \/ Parse
  <2>1. /\ UNCHANGED <<applied, cursor, first, pel, left>> /\ batch' \subseteq batch
        /\ pc \in {"take", "parse"} /\ (pc' = "ended" \/ batch' = batch)
        /\ pc' = "read" => loop' = "main"
    BY <1>7, ParseDecides DEF ParseResult, Take, BatchDone, worker, stream, fate
  <2>2. HeldInv'
    BY <2>1 DEF OrderInv, HeldInv
  <2> QED
    BY <1>0, <2>1, <2>2, OrderKept
<1>8. CASE Ack \/ Bury \/ AckDead
  <2>1. UNCHANGED <<applied, cursor, first>> /\ pel' \subseteq pel
        /\ pc \in {"ack", "bury", "ackdead"}
    BY <1>8 DEF Ack, Bury, AckDead, stream, fate
  <2>2. CASE Escape
    BY <1>0, <2>1, <2>2, EscapeOrdered
  <2>3. CASE ~Escape
    <3>1. PICK e : /\ left' = left
                   /\ pel' \subseteq pel /\ batch' \subseteq batch
                   /\ batch' = batch \/ (batch' = batch \ {e} /\ pel' = pel \ {e})
      BY <1>8, <2>1, <2>3 DEF Ack, Bury, AckDead, worker
    <3>4. pc' # "read"
      BY <1>8, <2>3 DEF Ack, Bury, AckDead
    <3>2. HeldInv'
      BY <2>1, <3>1, <3>4 DEF OrderInv, HeldInv
    <3> QED
      BY <1>0, <2>1, <3>1, <3>2, OrderKept
  <2> QED
    BY <2>2, <2>3
<1>9. CASE Commit
  <2>1. UNCHANGED <<pel, batch, cursor, first, left>>
    BY <1>9 DEF Commit, stream, worker
  <2>2. PICK c \in batch : Current(c) /\ CommitResult(c) /\ pc = "commit"
    BY <1>9, CommitDecides
  <2>3. HeldInv'
    BY <2>1, <2>2 DEF OrderInv, HeldInv, CommitResult
  <2>4. \A f \in Entries : applied'[f] > 0 => applied[f] > 0 \/ f = c
    BY <2>2 DEF CommitResult, Apply
  <2>5. c \in 1..cursor
    BY <2>2 DEF DeliveryInv
  <2>6. \A e \in batch : ~(e < c)
    BY <1>0, <2>2, ConsumerAssumption DEF Current, Entries
  <2>7. ASSUME NEW e \in pel \cup batch, e < c, e \notin left
        PROVE  e <= first /\ e \notin batch
    BY <2>2, <2>6, <2>7 DEF OrderInv, HeldInv
  <2>8. ASSUME NEW f \in Entries, applied'[f] > 0
        PROVE  /\ f <= cursor
               /\ \A e \in pel \cup batch :
                    e < f => e \in left \/ (e <= first /\ e \notin batch)
    <3>1. CASE applied[f] > 0
      BY <3>1 DEF OrderInv
    <3>2. CASE f = c
      BY <2>5, <2>7, <3>2
    <3> QED
      BY <2>4, <2>8, <3>1, <3>2
  <2> QED
    BY <2>1, <2>3, <2>8 DEF OrderInv
<1> QED
  BY <1>1, <1>2, <1>3, <1>4, <1>5, <1>6, <1>7, <1>8, <1>9 DEF Next, Step

LEMMA OrderInvariant == Spec => []OrderInv
<1>1. TypeOK /\ TypeOK' /\ DeliveryInv /\ OrderInv /\ [Next]_vars => OrderInv'
  BY OrderNext
<1> QED
  BY <1>1, OrderInit, TypeCorrect, DeliveryInvariant, PTL DEF Spec

\* A block is committed only after every block delivered before it was
\* acknowledged, dropped or left by a restart, for every role, through any
\* number of crashes, losses of Redis and faults, and however early the
\* orphan passes come.
THEOREM CommitsInOrder == Spec => InOrder
<1>1. TypeOK /\ OrderInv /\ [Next]_vars
        => [\A e \in Entries : applied'[e] > applied[e] =>
              \A f \in pel : f >= e \/ f <= first \/ f \in left]_vars
  <2> SUFFICES ASSUME TypeOK, OrderInv, Next, NEW e \in Entries,
                      applied'[e] > applied[e], NEW f \in pel
               PROVE  f >= e \/ f <= first \/ f \in left
    OBVIOUS
  <2>1. applied' # applied
    BY DEF TypeOK
  <2>2. Commit
    BY <2>1 DEF Next, Step, Publish, LoseData, Boot, Shutdown, Die, Exit, Halt,
       Claim, Read, ReadRaises, Take, BatchDone, Parse, Ack, Bury, AckDead, fate
  <2>3. PICK c \in batch : Current(c) /\ CommitResult(c) /\ pc = "commit"
    BY <2>2, CommitDecides
  <2>4. Apply(c) /\ e = c
    BY <2>1, <2>3 DEF CommitResult, Apply, TypeOK
  <2>5. f \in batch \/ f \in left \/ f <= first
    BY <2>3 DEF OrderInv, HeldInv
  <2> QED
    BY <2>3, <2>4, <2>5, ConsumerAssumption DEF Current, TypeOK, Entries
<1> QED
  BY <1>1, OrderInvariant, TypeCorrect, PTL DEF Spec, InOrder

(***************************************************************************)
(* How often an entry is begun.  OncePerSession is inductive only with     *)
(* what the worker holds and where it came from: the orphan pass runs      *)
(* before anything is begun in a session, XREADGROUP delivers what was     *)
(* never begun, and an entry of the batch that was begun is the current    *)
(* one.                                                                    *)
(***************************************************************************)
InProcess == pc \in {"parse", "commit", "ack", "bury", "ackdead"}

SessionInv ==
  /\ pc = "claim" => \A e \in Entries : tries[e] = 0
  /\ \A e \in Entries : e > cursor => tries[e] = 0
  /\ \A e \in batch : tries[e] = 0 \/ (Current(e) /\ InProcess)
  /\ OncePerSession

LEMMA SessionInit == Init => SessionInv
BY ConsumerAssumption DEF Init, SessionInv, OncePerSession, Entries

\* An exception begins nothing.
LEMMA EscapeBeginsNothing ==
  ASSUME SessionInv, Escape, tries' = tries, cursor' >= cursor,
         cursor \in Nat, cursor' \in Nat
  PROVE  SessionInv'
BY DEF SessionInv, Escape, OncePerSession, Entries

\* Every step keeps it.
LEMMA SessionNext ==
  ASSUME TypeOK, TypeOK', DeliveryInv, SessionInv, [Next]_vars
  PROVE  SessionInv'
<1>0. /\ tail \in Nat /\ cursor \in 0..tail /\ first \in 0..tail
      /\ cursor' \in Nat /\ tries \in [Entries -> Nat]
      /\ pel \subseteq Entries /\ batch \subseteq Entries
  BY ConsumerAssumption DEF TypeOK
<1>1. CASE Publish \/ LoseData \/ Shutdown
  <2>1. UNCHANGED <<pc, batch, tries>> /\ cursor' >= cursor
    BY <1>0, <1>1 DEF Publish, LoseData, Shutdown, stream, worker, fate
  <2>2. QED
    BY <1>0, <2>1 DEF SessionInv, OncePerSession, Current, InProcess, Entries
<1>2. CASE Boot
  <2>1. tries' = [e \in Entries |-> 0] /\ batch' = {}
    BY <1>2 DEF Boot, DeliveryInv
  <2>2. QED
    BY <2>1 DEF SessionInv, OncePerSession
<1>3. CASE Die \/ Exit
  BY <1>3 DEF Die, Exit, Halt, SessionInv, OncePerSession, stream, fate
<1>4. CASE Claim
  <2>1. CASE Escape
    BY <1>0, <1>4, <2>1, EscapeBeginsNothing DEF Claim, fate
  <2>2. CASE ~Escape
    <3>1. pc = "claim" /\ pc' = "take" /\ UNCHANGED <<cursor, tries>>
      BY <1>4, <2>2 DEF Claim, worker, fate
    <3>2. batch' \subseteq Entries
      BY <1>0, <1>4, ClaimTakes
    <3>3. QED
      BY <3>1, <3>2 DEF SessionInv, OncePerSession
  <2>3. QED
    BY <2>1, <2>2
<1>5. CASE Read
  <2>1. batch = {} /\ tries' = tries
    BY <1>5 DEF Read, DeliveryInv, fate
  <2>2. CASE Listens /\ proc = "stopping"
    BY <1>5, <2>1, <2>2 DEF Read, SessionInv, OncePerSession, stream, worker
  <2>3. CASE ~(Listens /\ proc = "stopping") /\ group = "none"
    <3>1. UNCHANGED <<tries, batch, pc>> /\ pc = "read" /\ cursor' >= cursor
      BY <1>0, <1>5, <2>3 DEF Read, CreateGroup, worker
    <3>2. QED
      BY <1>0, <2>1, <3>1 DEF SessionInv, OncePerSession, Entries
  <2>4. CASE ~(Listens /\ proc = "stopping") /\ group # "none"
    <3>1. PICK lo \in Nat :
            /\ lo >= cursor /\ lo < tail /\ cursor' = LastRead(lo)
            /\ \/ /\ batch' = lo + 1 .. LastRead(lo) /\ pc' = "take"
                  /\ UNCHANGED <<worker, faults>>
               \/ Escape /\ Fault
      BY <1>0, <1>5, <2>4 DEF Read
    <3>2. cursor' \in lo + 1 .. tail /\ lo + 1 .. LastRead(lo) \subseteq Entries
      BY <3>1, LastReadBounds
    <3>3. CASE Escape
      BY <1>0, <2>1, <3>1, <3>2, <3>3, EscapeBeginsNothing
    <3>4. CASE batch' = lo + 1 .. LastRead(lo) /\ pc' = "take" /\ UNCHANGED worker
      <4>1. \A e \in batch' : e > cursor /\ e \in Entries
        BY <1>0, <3>1, <3>2, <3>4
      <4>2. \A e \in batch' : tries'[e] = 0
        BY <2>1, <4>1 DEF SessionInv
      <4>3. \A e \in Entries : e > cursor' => tries'[e] = 0
        BY <1>0, <2>1, <3>1, <3>2 DEF SessionInv, Entries
      <4>4. QED
        BY <2>1, <3>4, <4>2, <4>3 DEF SessionInv, OncePerSession
    <3>5. QED
      BY <3>1, <3>3, <3>4
  <2>5. QED
    BY <2>2, <2>3, <2>4
<1>6. CASE ReadRaises
  BY <1>0, <1>6, EscapeBeginsNothing DEF ReadRaises, stream, fate
<1>7. CASE Take
  <2>1. CASE pc' = "ended"
    BY <1>7, <2>1 DEF Take, SessionInv, OncePerSession, stream, worker
  <2>2. CASE pc' # "ended"
    <3>1. PICK e \in batch : Current(e) /\ tries' = [tries EXCEPT ![e] = @ + 1]
      BY <1>7, <2>2 DEF Take
    <3>2. UNCHANGED <<cursor, batch>> /\ pc = "take" /\ pc' = "parse"
      BY <1>7, <2>2 DEF Take, stream
    <3>3. tries[e] = 0 /\ tries'[e] = 1 /\ e \in 1..cursor
      BY <1>0, <3>1, <3>2 DEF SessionInv, InProcess, DeliveryInv
    <3>4. \A f \in Entries : f # e => tries'[f] = tries[f]
      BY <1>0, <3>1
    <3>5. Current(e)' /\ InProcess'
      BY <3>1, <3>2 DEF Current, InProcess
    <3>6. \A f \in batch' : tries'[f] = 0 \/ (f = e /\ Current(f)' /\ InProcess')
      BY <1>0, <3>2, <3>4, <3>5 DEF SessionInv, InProcess
    <3>7. \A f \in Entries : f > cursor' => tries'[f] = 0
      BY <1>0, <3>2, <3>3, <3>4 DEF SessionInv, Entries
    <3>8. \A f \in Entries : tries'[f] <= 1
      BY <1>0, <3>2, <3>3, <3>4 DEF SessionInv, OncePerSession
    <3>9. QED
      BY <3>2, <3>6, <3>7, <3>8 DEF SessionInv, OncePerSession
  <2>3. QED
    BY <2>1, <2>2
<1>8. CASE BatchDone
  BY <1>8 DEF BatchDone, SessionInv, OncePerSession, stream, fate
<1>9. CASE Parse \/ Commit \/ Bury \/ Ack \/ AckDead
  <2>1. tries' = tries /\ cursor' = cursor
    BY <1>9, ParseDecides, CommitDecides DEF ParseResult, CommitResult, Bury, Ack, AckDead, stream, fate
  <2>2. CASE Escape
    BY <1>0, <2>1, <2>2, EscapeBeginsNothing
  <2>3. CASE ~Escape /\ batch' = batch
    <3>1. UNCHANGED batch /\ InProcess /\ InProcess'
      BY <1>9, <2>3, ParseDecides, CommitDecides DEF ParseResult, CommitResult, Bury, Ack, AckDead, InProcess
    <3>2. QED
      BY <2>1, <3>1 DEF SessionInv, OncePerSession, Current, InProcess
  <2>4. CASE ~Escape /\ batch' # batch
    <3>1. PICK e \in batch : Current(e) /\ batch' = batch \ {e}
      BY <1>9, <2>4, ParseDecides, CommitDecides DEF ParseResult, CommitResult, Bury, Ack, AckDead
    <3>2. pc' = "take"
      BY <1>9, <2>4, ParseDecides, CommitDecides DEF ParseResult, CommitResult, Bury, Ack, AckDead, worker
    <3>3. \A f \in batch' : ~Current(f)
      BY <1>0, <3>1 DEF Current, Entries
    <3>4. QED
      BY <2>1, <3>1, <3>2, <3>3 DEF SessionInv, OncePerSession
  <2>5. QED
    BY <2>2, <2>3, <2>4
<1>10. CASE UNCHANGED vars
  BY <1>10 DEF vars, SessionInv, OncePerSession, Current, InProcess, stream,
     worker, fate
<1>11. QED
  BY <1>1, <1>2, <1>3, <1>4, <1>5, <1>6, <1>7, <1>8, <1>9, <1>10
     DEF Next, Step

\* A process never begins the same entry twice, so applying it twice takes a
\* restart, whatever is lost, claimed or raises.
THEOREM BeginsOnceASession == Spec => []OncePerSession
<1>1. TypeOK /\ TypeOK' /\ DeliveryInv /\ SessionInv /\ [Next]_vars
        => SessionInv'
  BY SessionNext
<1>2. SessionInv => OncePerSession
  BY DEF SessionInv
<1>3. QED
  BY <1>1, <1>2, SessionInit, TypeCorrect, DeliveryInvariant, PTL DEF Spec

(***************************************************************************)
(* The group implements the ledger: a step of BlockConsumer posts an       *)
(* entry, writes the answer of an open one, closes answered or dropped     *)
(* ones, or changes nothing the ledger sees.                               *)
(***************************************************************************)
LedgerOpen    == pel \cup batch \cup cursor + 1 .. tail
LedgerDropped == 1..first \cup missed

LEMMA LedgerInitial == Init => Ledger!LedgerInit
BY DEF Init, Ledger!LedgerInit, Ledger!Posts, Entries

\* An open entry closes by leaving the pending list and the worker's hands:
\* by AckedIsDecided in the new state it was decided or dropped.
LEMMA LedgerCloses ==
  ASSUME TypeOK, TypeOK', DeliveryInv, DeliveryInv',
         LedgerOpen' \subseteq LedgerOpen,
         tail' = tail, first' \in first .. tail, missed \subseteq missed',
         outcome' = outcome
  PROVE  Ledger!Close
<1>1. /\ tail \in Nat /\ first \in Nat /\ first' \in Nat
      /\ cursor \in 0..tail /\ cursor' \in 0..tail
      /\ first <= first' /\ first' <= tail
  BY ConsumerAssumption DEF TypeOK
<1>2. LedgerDropped \subseteq LedgerDropped' /\ LedgerDropped' \subseteq 1..tail'
  BY <1>1 DEF LedgerDropped, DeliveryInv
<1>3. LedgerOpen \subseteq 1..tail
  BY <1>1 DEF LedgerOpen, DeliveryInv
<1>4. ASSUME NEW e \in LedgerOpen \ LedgerOpen'
      PROVE  outcome[e] # "none" \/ e \in LedgerDropped'
  <2>1. e \in 1..tail /\ e \notin pel' /\ e \notin cursor' + 1 .. tail
    <3>1. e \in LedgerOpen /\ e \notin LedgerOpen'
      BY <1>4
    <3>2. QED
      BY <1>3, <3>1 DEF LedgerOpen
  <2>2. e \in 1..cursor'
    <3>1. \A n, t \in Nat : \A i \in 1..t : i \notin n + 1 .. t => i \in 1..n
      OBVIOUS
    <3>2. cursor' \in Nat /\ tail \in Nat
      BY <1>1
    <3>3. QED
      BY <2>1, <3>1, <3>2
  <2>3. Gone(e)' \/ outcome[e] # "none"
    BY <2>1, <2>2 DEF DeliveryInv, AckedIsDecided
  <2>4. QED
    BY <1>1, <2>2, <2>3 DEF LedgerDropped, Gone
<1>5. QED
  BY <1>2, <1>4 DEF Ledger!Close, Ledger!Drop, LedgerOpen, LedgerDropped

\* A step that writes an outcome writes that of an entry the worker holds.
LEMMA LedgerAnswers ==
  ASSUME TypeOK, NEW e \in batch,
         NEW what \in {"applied", "nothing", "degraded", "buried"},
         Decide(e, what), UNCHANGED <<tail, first, cursor, pel, batch, missed>>
  PROVE  Ledger!Answer
<1>1. e \in LedgerOpen /\ LedgerOpen' = LedgerOpen /\ LedgerDropped' = LedgerDropped
  BY DEF LedgerOpen, LedgerDropped
<1>2. outcome' = [outcome EXCEPT ![e] = what]
  BY DEF Decide
<1>3. QED
  BY <1>1, <1>2 DEF Ledger!Answer, LedgerOpen, LedgerDropped

LEMMA LedgerStepOrStutter ==
  ASSUME TypeOK, TypeOK', DeliveryInv, DeliveryInv', [Next]_vars
  PROVE  [Ledger!LedgerNext]_(Ledger!ledger)
<1>0. /\ tail \in Nat /\ cursor \in 0..tail /\ first \in 0..tail
      /\ cursor' \in Nat
  BY ConsumerAssumption DEF TypeOK
<1> DEFINE Closes == /\ LedgerOpen' \subseteq LedgerOpen /\ tail' = tail
                     /\ first' \in first .. tail /\ missed \subseteq missed'
                     /\ outcome' = outcome
<1>1. CASE Publish
  <2>1. /\ first' \in first .. tail + 1 /\ tail' = tail + 1 /\ tail < MaxEntries
        /\ UNCHANGED <<cursor, pel, batch, missed, outcome>>
    BY <1>0, <1>1 DEF Publish, TrimTo, fate
  <2>2. LedgerOpen' = LedgerOpen \cup {tail + 1}
    <3>1. cursor' + 1 .. tail' = (cursor + 1 .. tail) \cup {tail + 1}
      BY <1>0, <2>1
    <3>2. QED
      BY <2>1, <3>1 DEF LedgerOpen
  <2>3. 1..first \subseteq 1..first' /\ 1..first' \subseteq 1..tail'
    BY <1>0, <2>1
  <2>4. LedgerDropped \subseteq LedgerDropped' /\ LedgerDropped' \subseteq 1..tail'
    BY <2>1, <2>3 DEF LedgerDropped, DeliveryInv
  <2>5. Ledger!Post
    BY <2>1, <2>2, <2>4 DEF Ledger!Post, Ledger!Drop, LedgerOpen, LedgerDropped
  <2>6. QED
    BY <2>5 DEF Ledger!LedgerNext
<1>2. CASE LoseData
  <2>1. Closes
    BY <1>0, <1>2 DEF LoseData, LedgerOpen
  <2>2. QED
    BY <2>1, LedgerCloses DEF Ledger!LedgerNext
<1>3. CASE Boot
  <2>1. /\ first' \in first .. tail
        /\ UNCHANGED <<tail, pel, batch, outcome>>
        /\ UNCHANGED <<cursor, missed>> \/ CreateGroup
    BY <1>0, <1>3 DEF Boot, TrimTo
  <2>2. Closes
    BY <1>0, <2>1 DEF CreateGroup, LedgerOpen
  <2>3. QED
    BY <2>2, LedgerCloses DEF Ledger!LedgerNext
<1>4. CASE Shutdown \/ BatchDone \/ UNCHANGED vars
  BY <1>4 DEF Shutdown, BatchDone, vars, stream, worker, fate, Ledger!ledger,
     LedgerOpen
<1>5. CASE Die \/ Exit \/ Claim \/ ReadRaises \/ Take \/ Ack \/ AckDead
  <2>1. /\ UNCHANGED <<tail, first, cursor, missed, outcome>>
        /\ pel' \subseteq pel
    BY <1>5, ClaimTakes DEF Die, Exit, Halt, Claim, ReadRaises, Take, Ack,
       AckDead, stream, fate
  <2>2. batch' \subseteq batch \cup pel
    BY <1>5, ClaimTakes DEF Die, Exit, Halt, ReadRaises, Take, Ack, AckDead,
       Escape
  <2>3. Closes
    BY <1>0, <2>1, <2>2 DEF LedgerOpen
  <2>4. QED
    BY <2>3, LedgerCloses DEF Ledger!LedgerNext
<1>6. CASE Read
  <2>1. CASE Listens /\ proc = "stopping"
    BY <1>6, <2>1 DEF Read, stream, fate, Ledger!ledger
  <2>2. CASE ~(Listens /\ proc = "stopping") /\ group = "none"
    <3>1. Closes
      BY <1>0, <1>6, <2>2 DEF Read, CreateGroup, LedgerOpen
    <3>2. QED
      BY <3>1, LedgerCloses DEF Ledger!LedgerNext
  <2>3. CASE ~(Listens /\ proc = "stopping") /\ group # "none"
    <3>1. PICK lo \in Nat :
            /\ lo >= cursor /\ lo < tail /\ cursor' = LastRead(lo)
            /\ pel' = pel \cup lo + 1 .. LastRead(lo)
            /\ batch' = lo + 1 .. LastRead(lo) \/ batch' = {}
            /\ UNCHANGED <<tail, first, missed, outcome>>
      BY <1>0, <1>6, <2>3 DEF Read, Escape, fate
    <3>2. /\ cursor' \in lo + 1 .. tail
          /\ lo + 1 .. cursor' \subseteq cursor + 1 .. tail
          /\ cursor' + 1 .. tail \subseteq cursor + 1 .. tail
      BY <1>0, <3>1, LastReadBounds
    <3>3. Closes
      BY <1>0, <3>1, <3>2 DEF LedgerOpen
    <3>4. QED
      BY <3>3, LedgerCloses DEF Ledger!LedgerNext
  <2>4. QED
    BY <2>1, <2>2, <2>3
<1>7. CASE Parse \/ Commit \/ Bury
  <2>1. UNCHANGED <<tail, first, cursor, pel, missed>>
    BY <1>7, ParseDecides, CommitDecides DEF ParseResult, CommitResult, Bury, stream
  <2>2. CASE outcome' = outcome
    <3>1. batch' \subseteq batch
      BY <1>7, ParseDecides, CommitDecides DEF ParseResult, CommitResult, Bury, Escape
    <3>2. Closes
      BY <1>0, <2>1, <2>2, <3>1 DEF LedgerOpen
    <3>3. QED
      BY <3>2, LedgerCloses DEF Ledger!LedgerNext
  <2>3. CASE outcome' # outcome
    <3>1. PICK e \in batch, what \in {"applied", "nothing", "degraded", "buried"} :
            Decide(e, what)
      BY <1>7, <2>3, ParseDecides, CommitDecides DEF ParseResult, CommitResult, Bury
    <3>2. batch' = batch
      BY <1>7, <2>3, ParseDecides, CommitDecides DEF ParseResult, CommitResult, Bury
    <3>3. QED
      BY <2>1, <3>1, <3>2, LedgerAnswers DEF Ledger!LedgerNext
  <2>4. QED
    BY <2>2, <2>3
<1>8. QED
  BY <1>1, <1>2, <1>3, <1>4, <1>5, <1>6, <1>7 DEF Next, Step

\* The group and its worker implement the delivery ledger: an entry stays
\* open until it was decided or the stream dropped it, and what was decided
\* about a closed entry stands, through crashes, lost replies and lost data.
THEOREM GroupImplementsLedger == Spec => LedgerSpec
<1>1. TypeOK /\ TypeOK' /\ DeliveryInv /\ DeliveryInv' /\ [Next]_vars
        => [Ledger!LedgerNext]_(Ledger!ledger)
  BY LedgerStepOrStutter
<1>2. QED
  BY <1>1, LedgerInitial, TypeCorrect, DeliveryInvariant, PTL
     DEF Spec, LedgerSpec, Ledger!Spec
=============================================================================
