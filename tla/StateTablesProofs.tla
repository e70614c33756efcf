-------------------------- MODULE StateTablesProofs --------------------------
(***************************************************************************)
(* StateTables implements both modules it is made of, for any set of       *)
(* blocks, so that what is proved of them holds of the tables.  And what   *)
(* the tables hold is what the blocks on the stream say: rows, flows,      *)
(* balances and the sum of all balances.                                   *)
(***************************************************************************)
EXTENDS StateTables, BlockConsumerProofs, BalanceRepositoryProofs

LEMMA CommitBlockCommits ==
  ASSUME CommitBlock
  PROVE  /\ Commit /\ UNCHANGED content
         /\ \/ \E e \in batch : Storable(content[e]) /\ Store(content[e])
            \/ UNCHANGED tables
BY DEF CommitBlock, Commit

\* A step that stores no block leaves the tables alone.
LEMMA OtherStepsStore ==
  ASSUME [TablesNext]_allVars
  PROVE  CommitBlock \/ UNCHANGED tables
BY DEF TablesNext, PublishBlock, allVars

\* The content only decides what BlockConsumer leaves open: every behaviour
\* of the tables is one of the consumer group.
THEOREM TablesImplementConsumer == TablesSpec => Spec
<1>1. TablesInit => Init
  BY DEF TablesInit
<1>2. [TablesNext]_allVars => [Next]_vars
  BY CommitBlockCommits DEF TablesNext, PublishBlock, Others, Next, Step, allVars
<1>3. QED
  BY <1>1, <1>2, PTL DEF TablesSpec, Spec

(***************************************************************************)
(* The tables write only blocks that were added, which gives ApplyDeltas   *)
(* one of the Nets.                                                        *)
(***************************************************************************)
ContentInv == content \in Seq(Blocks) /\ Len(content) = tail

LEMMA ContentInvariant == TablesSpec => []ContentInv
<1>1. TablesInit => ContentInv
  BY DEF TablesInit, Init, ContentInv
<1>2. ContentInv /\ [TablesNext]_allVars => ContentInv'
  <2> SUFFICES ASSUME ContentInv, [TablesNext]_allVars PROVE ContentInv'
    OBVIOUS
  <2>1. CASE PublishBlock
    <3>1. tail' = tail + 1
      BY <2>1 DEF PublishBlock, Publish
    <3>2. PICK block \in Blocks : content' = Append(content, block)
      BY <2>1 DEF PublishBlock
    <3>3. QED
      BY <3>1, <3>2 DEF ContentInv
  <2>2. CASE CommitBlock
    BY <2>2 DEF CommitBlock, ContentInv, stream
  <2>3. CASE Others /\ UNCHANGED <<content, tables>>
    <3>1. tail' = tail
      BY <2>3 DEF Others, LoseData, Boot, Shutdown, Die, Exit, Halt, Claim, Read,
         ReadRaises, Take, BatchDone, Parse, Ack, Bury, AckDead, stream
    <3>2. QED
      BY <2>3, <3>1 DEF ContentInv
  <2>4. CASE UNCHANGED allVars
    BY <2>4 DEF allVars, vars, stream, ContentInv
  <2>5. QED
    BY <2>1, <2>2, <2>3, <2>4 DEF TablesNext
<1>3. QED
  BY <1>1, <1>2, PTL DEF TablesSpec

\* What the worker holds was added, so a stored block is one of Blocks.
LEMMA StoreApplies ==
  ASSUME TypeOK, DeliveryInv, ContentInv, CommitBlock
  PROVE  [RepositoryNext]_assets
<1>1. CASE UNCHANGED tables
  BY <1>1 DEF tables
<1>2. CASE \E e \in batch : Storable(content[e]) /\ Store(content[e])
  <2>1. PICK e \in batch : Storable(content[e]) /\ Store(content[e])
    BY <1>2
  <2>2. content[e] \in Blocks
    <3>1. e \in 1..tail
      BY ConsumerAssumption DEF TypeOK, DeliveryInv
    <3>2. QED
      BY <3>1 DEF ContentInv
  <2>3. CASE role = "state"
    BY <2>1, <2>3 DEF Store
  <2>4. CASE role = "balance"
    <3>1. /\ Changes[content[e]] \in Nets
          /\ Payload[content[e]].number \in Numbers
      BY <2>2, TablesAssumption
    <3>2. /\ Fits(Changes[content[e]], Payload[content[e]].number)
          /\ ApplyDeltas(Changes[content[e]], Payload[content[e]].number)
      BY <2>1, <2>4 DEF Storable, Store
    <3>3. QED
      BY <3>1, <3>2 DEF RepositoryNext
  <2>5. QED
    BY <2>1, <2>3, <2>4 DEF Store
<1>3. QED
  BY <1>1, <1>2, CommitBlockCommits

\* Whatever the worker does, crashes and repetitions included, the balance
\* table changes only by apply_deltas_and_upsert of a whole block.
THEOREM TablesImplementRepository == TablesSpec => RepositorySpec
<1>1. TablesInit => RepositoryInit
  BY DEF TablesInit
<1>2. TypeOK /\ DeliveryInv /\ ContentInv /\ [TablesNext]_allVars
        => [RepositoryNext]_assets
  BY OtherStepsStore, StoreApplies DEF tables
<1>3. TablesSpec => []TypeOK /\ []DeliveryInv
  BY TablesImplementConsumer, TypeCorrect, DeliveryInvariant, PTL
<1>4. QED
  BY <1>1, <1>2, <1>3, ContentInvariant, PTL DEF TablesSpec, RepositorySpec

\* Balances exceed what their accounts really have by the largest deficit
\* they ever had, through every crash, repetition and refusal.
THEOREM TablesAreClamped == TablesSpec => []ClampedExactly
BY TablesImplementRepository, BalancesAreClamped, PTL

RowKeysInv == DOMAIN rows \subseteq Numbers \X Nat

LEMMA StoredKeys ==
  ASSUME TypeOK, DeliveryInv, ContentInv, RowKeysInv, CommitBlock
  PROVE  RowKeysInv'
<1>1. CASE UNCHANGED rows
  BY <1>1 DEF RowKeysInv
<1>2. CASE ~UNCHANGED rows
  <2>1. PICK e \in batch : Store(content[e])
    BY <1>2, CommitBlockCommits DEF tables
  <2>2. Upsert(content[e])
    BY <1>2, <2>1 DEF Store
  <2>3. content[e] \in Blocks
    <3>1. e \in 1..tail
      BY ConsumerAssumption DEF TypeOK, DeliveryInv
    <3>2. QED
      BY <3>1 DEF ContentInv
  <2>4. PrimaryKey(content[e]) \in Numbers \X Nat
    BY <2>3, TablesAssumption DEF PrimaryKey
  <2>5. DOMAIN rows' = DOMAIN rows \cup {PrimaryKey(content[e])}
    BY <2>2 DEF Upsert
  <2>6. QED
    BY <2>4, <2>5 DEF RowKeysInv
<1>3. QED
  BY <1>1, <1>2

\* Group, worker, blocks and tables are well typed: in particular no balance
\* exceeds an INTEGER column.
THEOREM TablesTypeCorrect == TablesSpec => []TablesTypeOK
<1>1. TablesInit => RowKeysInv
  BY DEF TablesInit, RowKeysInv
<1>2. TypeOK /\ DeliveryInv /\ ContentInv /\ RowKeysInv /\ [TablesNext]_allVars
        => RowKeysInv'
  BY OtherStepsStore, StoredKeys DEF tables, RowKeysInv
<1>3. TablesSpec => []TypeOK /\ []DeliveryInv /\ []RepositoryTypeOK
  BY TablesImplementConsumer, TablesImplementRepository, TypeCorrect,
     DeliveryInvariant, RepositoryTypeCorrect, PTL
<1>4. TypeOK /\ RepositoryTypeOK /\ ContentInv /\ RowKeysInv => TablesTypeOK
  BY DEF ContentInv, RowKeysInv, TablesTypeOK
<1>5. QED
  BY <1>1, <1>2, <1>3, <1>4, ContentInvariant, PTL DEF TablesSpec

(***************************************************************************)
(* What a step does to what was committed: the sink commits one entry, and *)
(* the tables follow; every other step leaves both alone.                  *)
(***************************************************************************)
LEMMA CommitsNothing ==
  ASSUME TypeOK, ContentInv, [TablesNext]_allVars, ~CommitBlock
  PROVE  /\ UNCHANGED <<rows, balances, flow, applied, role>>
         /\ left \subseteq left'
         /\ tail' = tail \/ (tail' = tail + 1 /\ tail + 1 \in Entries)
         /\ \A e \in 1..tail : content'[e] = content[e]
<1>1. CASE PublishBlock
  <2>1. /\ UNCHANGED <<tables, applied, role, left>> /\ tail' = tail + 1
        /\ tail < MaxEntries
    BY <1>1 DEF PublishBlock, Publish, worker, fate
  <2>2. PICK block \in Blocks : content' = Append(content, block)
    BY <1>1 DEF PublishBlock
  <2>3. \A e \in 1..tail : content'[e] = content[e]
    BY <2>2 DEF ContentInv
  <2>4. tail + 1 \in Entries
    BY <2>1, ConsumerAssumption DEF TypeOK, Entries
  <2> QED
    BY <2>1, <2>3, <2>4 DEF tables, assets
<1>2. CASE Others /\ UNCHANGED <<content, tables>>
  <2>1. UNCHANGED <<applied, role, tail>>
    BY <1>2 DEF Others, LoseData, Boot, Shutdown, Die, Exit, Halt, Claim, Read,
       ReadRaises, Take, BatchDone, Parse, Ack, Bury, AckDead, Escape, stream,
       worker, fate
  <2>2. left \subseteq left'
    <3>1. CASE LoseData \/ Boot \/ Shutdown \/ Die \/ Exit
      BY <3>1 DEF LoseData, Boot, Shutdown, Die, Exit, Halt, worker
    <3>2. CASE Claim
      BY <3>2, ClaimLeaves
    <3>3. CASE Read \/ ReadRaises
      BY <3>3 DEF Read, ReadRaises, Escape, worker
    <3>4. CASE Take \/ BatchDone \/ Parse
      BY <3>4 DEF Take, BatchDone, Parse, worker
    <3>5. CASE Ack \/ Bury \/ AckDead
      BY <3>5 DEF Ack, Bury, AckDead, Escape, worker
    <3> QED
      BY <1>2, <3>1, <3>2, <3>3, <3>4, <3>5 DEF Others
  <2> QED
    BY <1>2, <2>1, <2>2 DEF tables, assets
<1>3. CASE UNCHANGED allVars
  BY <1>3 DEF allVars, vars, tables, assets, stream, worker, fate
<1> QED
  BY <1>1, <1>2, <1>3 DEF TablesNext

LEMMA CommitsOne ==
  ASSUME TypeOK, DeliveryInv, ContentInv, CommitBlock
  PROVE  /\ UNCHANGED <<content, tail, role, batch, left>>
         /\ \/ UNCHANGED <<applied, tables>>
            \/ \E e \in batch :
                 /\ e \in 1..tail /\ e \in Entries /\ content[e] \in Blocks
                 /\ Current(e) /\ Apply(e)
                 /\ Storable(content[e]) /\ Store(content[e])
<1>1. UNCHANGED <<content, tail, role, batch, left>>
  BY DEF CommitBlock, stream, worker
<1>2. PICK e \in batch :
        /\ Current(e)
        /\ \/ Accept(e) /\ Storable(content[e]) /\ Store(content[e])
           \/ Break(e) /\ Storable(content[e]) /\ Store(content[e])
           \/ Refuse(e) /\ ~Storable(content[e]) /\ UNCHANGED tables
           \/ Lose /\ UNCHANGED tables
  BY DEF CommitBlock
<1>3. e \in 1..tail /\ e \in Entries
  BY ConsumerAssumption DEF TypeOK, DeliveryInv
<1>4. content[e] \in Blocks
  BY <1>3 DEF ContentInv
<1> QED
  BY <1>1, <1>2, <1>3, <1>4 DEF Accept, Break, Refuse, Lose

\* Nothing is committed before it is published.
FreshInv == \A e \in Entries : applied[e] > 0 => e \in 1..tail

LEMMA FreshInvariant == TablesSpec => []FreshInv
<1>1. TablesInit => FreshInv
  BY DEF TablesInit, Init, FreshInv
<1>2. TypeOK /\ DeliveryInv /\ ContentInv /\ FreshInv /\ [TablesNext]_allVars
        => FreshInv'
  <2> SUFFICES ASSUME TypeOK, DeliveryInv, ContentInv, FreshInv,
                      [TablesNext]_allVars
               PROVE  FreshInv'
    OBVIOUS
  <2>1. CASE CommitBlock
    BY <2>1, CommitsOne DEF FreshInv, Apply, TypeOK
  <2>2. CASE ~CommitBlock
    BY <2>2, CommitsNothing, ConsumerAssumption DEF FreshInv, TypeOK
  <2> QED
    BY <2>1, <2>2
<1>3. TablesSpec => []TypeOK /\ []DeliveryInv
  BY TablesImplementConsumer, TypeCorrect, DeliveryInvariant, PTL
<1> QED
  BY <1>1, <1>2, <1>3, ContentInvariant, PTL DEF TablesSpec

LEMMA CommittedKept ==
  ASSUME TypeOK, ContentInv, FreshInv, [TablesNext]_allVars, ~CommitBlock
  PROVE  Committed' = Committed /\ Committed \subseteq 1..tail
<1>1. UNCHANGED applied /\ (tail' = tail \/ (tail' = tail + 1 /\ tail + 1 \in Entries))
  BY CommitsNothing
<1>2. tail \in Nat
  BY ConsumerAssumption DEF TypeOK
<1>3. ~(applied[tail + 1] > 0) \/ tail + 1 \notin Entries
  BY <1>2 DEF FreshInv
<1> QED
  BY <1>1, <1>2, <1>3 DEF Committed

LEMMA CommittedGrows ==
  ASSUME TypeOK, NEW e \in 1..tail, e \in Entries, Apply(e), tail' = tail
  PROVE  Committed' = Committed \cup {e}
<1>1. applied' = [applied EXCEPT ![e] = @ + 1] /\ applied \in [Entries -> Nat]
  BY DEF Apply, TypeOK
<1>2. \A f \in 1..tail : f \in Entries
  BY ConsumerAssumption DEF TypeOK, Entries
<1> QED
  BY <1>1, <1>2 DEF Committed

(***************************************************************************)
(* The rows of the mini-blocks.  Committing in stream order, but for what  *)
(* a restart left, is what makes the last write of a row the newest.       *)
(***************************************************************************)
LEMMA TablesOrdered == TablesSpec => []OrderInv
BY TablesImplementConsumer, OrderInvariant, PTL

\* the entry that is committed is the newest so far, unless it was left
LEMMA CommitsNewest ==
  ASSUME OrderInv, NEW e \in batch, e \notin left, TypeOK
  PROVE  \A f \in Entries : applied[f] > 0 => f <= e
<1>1. e \in Int /\ \A f \in Entries : f \in Int
  BY ConsumerAssumption DEF TypeOK, Entries
<1>2. \A f \in Entries : applied[f] > 0 => ~(e < f)
  BY DEF OrderInv
<1> QED
  BY <1>1, <1>2

\* the entry a row was written from
Writer(e, key) ==
  /\ KeyOf(e) = key /\ rows[key] = content[e]
  /\ e \in left \/ \A f \in Committed : KeyOf(f) = key => f <= e

LEMMA RowsNext ==
  ASSUME TypeOK, DeliveryInv, ContentInv, FreshInv, OrderInv, RowIsNewest,
         [TablesNext]_allVars
  PROVE  RowIsNewest'
<1>1. CASE ~CommitBlock
  <2>1. UNCHANGED rows /\ Committed' = Committed /\ Committed \subseteq 1..tail
    BY <1>1, CommitsNothing, CommittedKept
  <2>2. \A e \in Committed : KeyOf(e)' = KeyOf(e) /\ content'[e] = content[e]
    BY <1>1, <2>1, CommitsNothing DEF KeyOf, PrimaryKey
  <2>3. role' = role /\ left \subseteq left'
    BY <1>1, CommitsNothing
  <2> QED
    BY <2>1, <2>2, <2>3 DEF RowIsNewest
<1>2. CASE CommitBlock
  <2> SUFFICES ASSUME role' = "state" PROVE RowIsNewest'
    BY DEF RowIsNewest
  <2>1. UNCHANGED <<content, tail, role, batch, left>>
    BY <1>2, CommitsOne
  <2>2. \A f : KeyOf(f)' = KeyOf(f)
    BY <2>1 DEF KeyOf, PrimaryKey
  <2>3. CASE UNCHANGED <<applied, tables>>
    <3>1. Committed' = Committed /\ rows' = rows
      BY <2>1, <2>3 DEF Committed, tables
    <3> QED
      BY <2>1, <2>2, <3>1 DEF RowIsNewest
  <2>4. CASE ~UNCHANGED <<applied, tables>>
    <3>1. PICK e \in batch :
            /\ e \in 1..tail /\ e \in Entries /\ Current(e) /\ Apply(e)
            /\ Store(content[e])
      BY <1>2, <2>4, CommitsOne
    <3>2. Committed' = Committed \cup {e}
      BY <2>1, <3>1, CommittedGrows
    <3>3. e \in left \/ \A f \in Committed' : f <= e
      <4>1. \A f \in Committed : f \in Entries /\ applied[f] > 0
        BY ConsumerAssumption DEF Committed, TypeOK, Entries
      <4>2. e <= e
        BY <3>1
      <4> QED
        BY <3>1, <3>2, <4>1, <4>2, CommitsNewest
    <3>4. rows' = [k \in DOMAIN rows \cup {KeyOf(e)} |->
                     IF k = KeyOf(e) THEN content[e] ELSE rows[k]]
      BY <2>1, <3>1 DEF Store, Upsert, KeyOf
    <3>5. /\ DOMAIN rows = {KeyOf(f) : f \in Committed}
          /\ \A key \in DOMAIN rows : \E f \in Committed : Writer(f, key)
      BY <2>1 DEF RowIsNewest, Writer
    <3>6. DOMAIN rows' = {KeyOf(f) : f \in Committed'}
      BY <3>2, <3>4, <3>5
    <3>7. ASSUME NEW key \in DOMAIN rows'
          PROVE  \E f \in Committed' :
                   /\ KeyOf(f) = key /\ rows'[key] = content[f]
                   /\ f \in left \/ \A g \in Committed' : KeyOf(g) = key => g <= f
      <4>1. CASE key = KeyOf(e)
        BY <3>2, <3>3, <3>4, <4>1
      <4>2. CASE key # KeyOf(e)
        <5>1. key \in DOMAIN rows /\ rows'[key] = rows[key]
          BY <3>4, <4>2
        <5>2. PICK f \in Committed : Writer(f, key)
          BY <3>5, <5>1
        <5> QED
          BY <3>2, <4>2, <5>1, <5>2 DEF Writer
      <4> QED
        BY <4>1, <4>2
    <3> QED
      BY <2>1, <2>2, <3>6, <3>7 DEF RowIsNewest
  <2> QED
    BY <2>3, <2>4
<1> QED
  BY <1>1, <1>2

\* A row of mini_block_records is the newest committed block with its key,
\* or one that a restart had left, through crashes, faults, losses of Redis
\* and blocks processed twice.
THEOREM RowsAreNewest == TablesSpec => []RowIsNewest
<1>1. TablesInit => RowIsNewest
  <2> SUFFICES ASSUME TablesInit PROVE RowIsNewest
    OBVIOUS
  <2>1. Committed = {}
    BY ConsumerAssumption DEF TablesInit, Init, Committed, Entries
  <2>2. DOMAIN rows = {}
    BY DEF TablesInit
  <2> QED
    BY <2>1, <2>2 DEF RowIsNewest
<1>2. TablesSpec => []TypeOK /\ []DeliveryInv
  BY TablesImplementConsumer, TypeCorrect, DeliveryInvariant, PTL
<1> QED
  BY <1>1, <1>2, RowsNext, FreshInvariant, ContentInvariant, TablesOrdered,
     PTL DEF TablesSpec

\* What the parser returns is what the block's Transfer events say.
LEMMA ParserRight == \A block \in Blocks : Changes[block] = Gains[block]
<1> SUFFICES ASSUME NEW block \in Blocks PROVE Changes[block] = Gains[block]
  OBVIOUS
<1>1. Changes[block] = NetChanges(Payload[block])
  BY DEF Changes
<1>2. Gains[block] = [a \in Accounts |-> Received(Payload[block], a)]
  BY DEF Gains
<1>3. WellFormed(Payload[block])
  BY TablesAssumption DEF WellFormed
<1>4. \A a \in Accounts : Changes[block][a] = Gains[block][a]
  BY <1>1, <1>2, <1>3, ParserIsRight
<1>5. Changes[block] \in [Accounts -> Int]
  BY TablesAssumption, RepositoryAssumption
<1> QED
  BY <1>2, <1>4, <1>5

LEMMA GainsTyped ==
  ASSUME NEW block \in Blocks, NEW a \in Accounts
  PROVE  Gains[block][a] \in Int
BY TablesAssumption, RepositoryAssumption, ParserRight

-----------------------------------------------------------------------------
(* The flow of an account *)

IsSum(sum, len, times, blocks, a) ==
  /\ sum \in [0..len -> Int] /\ sum[0] = 0
  /\ \A n \in 1..len : sum[n] = sum[n - 1] + times[n] * Gains[blocks[n]][a]

FlowInv ==
  role = "balance" =>
    \A a \in Accounts :
      \E sum : IsSum(sum, tail, applied, content, a) /\ flow[a] = sum[tail]

LEMMA FlowIsSum == TypeOK /\ FlowInv => FlowIsTransfers
<1> SUFFICES ASSUME TypeOK, FlowInv, role = "balance", NEW a \in Accounts
             PROVE  flow[a] = Moved(a)
  BY DEF FlowIsTransfers
<1>1. PICK sum : IsSum(sum, tail, applied, content, a) /\ flow[a] = sum[tail]
  BY DEF FlowInv
<1>2. tail \in Nat
  BY ConsumerAssumption DEF TypeOK
<1> DEFINE Obeys(f) ==
      f = [n \in 0..tail |->
             IF n = 0 THEN 0
             ELSE f[n - 1] + applied[n] * Gains[content[n]][a]]
           chosen == CHOOSE f : Obeys(f)
<1>3. Moved(a) = chosen[tail]
  BY DEF Moved
<1>4. Obeys(sum)
  BY <1>1, <1>2 DEF IsSum
<1>5. Obeys(chosen)
  BY <1>4
<1> HIDE DEF chosen
<1>6. /\ chosen[0] = 0
      /\ \A n \in 1..tail :
           chosen[n] = chosen[n - 1] + applied[n] * Gains[content[n]][a]
  BY <1>2, <1>5
<1>7. Follows(chosen, sum, tail)
  BY <1>1, <1>6 DEF IsSum, Follows
<1>8. \A n \in 0..tail : chosen[n] = sum[n]
  BY <1>2, <1>7, AgreeAlong
<1> QED
  BY <1>1, <1>2, <1>3, <1>8

LEMMA FlowNext ==
  ASSUME TypeOK, DeliveryInv, ContentInv, ContentInv', FreshInv,
         FlowInv, [TablesNext]_allVars
  PROVE  FlowInv'
<1> SUFFICES ASSUME role' = "balance", NEW a \in Accounts
             PROVE  \E sum : /\ IsSum(sum, tail', applied', content', a)
                            /\ flow'[a] = sum[tail']
  BY DEF FlowInv
<1>0. tail \in Nat /\ applied \in [Entries -> Nat]
  BY ConsumerAssumption DEF TypeOK
<1>1. role = "balance"
  BY CommitsNothing, CommitsOne
<1>2. PICK sum : IsSum(sum, tail, applied, content, a) /\ flow[a] = sum[tail]
  BY <1>1 DEF FlowInv
<1>3. CASE ~CommitBlock
  <2>1. /\ UNCHANGED <<applied, flow>>
        /\ tail' = tail \/ (tail' = tail + 1 /\ tail + 1 \in Entries)
        /\ \A n \in 1..tail : content'[n] = content[n]
    BY <1>3, CommitsNothing
  <2>2. CASE tail' = tail
    BY <1>2, <2>1, <2>2 DEF IsSum
  <2>3. CASE tail' = tail + 1 /\ tail + 1 \in Entries
    <3> DEFINE new == [n \in 0..tail + 1 |-> IF n = tail + 1 THEN sum[tail] ELSE sum[n]]
    <3>1. applied[tail + 1] = 0
      BY <1>0, <2>3 DEF FreshInv
    <3>2. Gains[content'[tail + 1]][a] \in Int
      BY <1>0, <2>3, GainsTyped DEF ContentInv
    <3>3. new \in [0..tail' -> Int] /\ new[0] = 0 /\ new[tail'] = flow[a]
      BY <1>0, <1>2, <2>3 DEF IsSum
    <3>4. ASSUME NEW n \in 1..tail'
          PROVE  new[n] = new[n - 1] + applied'[n] * Gains[content'[n]][a]
      <4>1. CASE n = tail + 1
        <5>1. new[n] = sum[tail] /\ new[n - 1] = sum[tail] /\ sum[tail] \in Int
          BY <1>0, <1>2, <4>1 DEF IsSum
        <5>2. applied'[n] * Gains[content'[n]][a] = 0
          BY <2>1, <3>1, <3>2, <4>1
        <5> QED
          BY <5>1, <5>2
      <4>2. CASE n # tail + 1
        <5>1. n \in 1..tail /\ new[n] = sum[n] /\ new[n - 1] = sum[n - 1]
          BY <1>0, <2>3, <4>2
        <5> QED
          BY <1>2, <2>1, <5>1 DEF IsSum
      <4> QED
        BY <4>1, <4>2
    <3> HIDE DEF new
    <3>5. IsSum(new, tail', applied', content', a)
      BY <3>3, <3>4 DEF IsSum
    <3> QED
      BY <2>1, <3>3, <3>5
  <2> QED
    BY <2>1, <2>2, <2>3
<1>4. CASE CommitBlock
  <2>1. UNCHANGED <<content, tail>>
    BY <1>4, CommitsOne
  <2>2. CASE UNCHANGED <<applied, tables>>
    BY <1>2, <2>1, <2>2 DEF IsSum, tables, assets
  <2>3. CASE ~UNCHANGED <<applied, tables>>
    <3>1. PICK e \in batch :
            /\ e \in 1..tail /\ e \in Entries /\ content[e] \in Blocks
            /\ Apply(e) /\ Store(content[e])
      BY <1>4, <2>3, CommitsOne
    <3> DEFINE net == Gains[content[e]][a]
               new == [n \in 0..tail |-> IF n < e THEN sum[n] ELSE sum[n] + net]
    <3>2. net \in Int
      BY <3>1, GainsTyped
    <3>3. flow'[a] = flow[a] + net
      BY <1>1, <3>1, ParserRight DEF Store, ApplyDeltas
    <3>4. new \in [0..tail' -> Int] /\ new[0] = 0 /\ new[tail'] = flow'[a]
      BY <1>0, <1>2, <2>1, <3>1, <3>2, <3>3 DEF IsSum
    <3>5. ASSUME NEW n \in 1..tail'
          PROVE  new[n] = new[n - 1] + applied'[n] * Gains[content'[n]][a]
      <4>1. /\ n \in Int /\ e \in Int /\ n \in 0..tail /\ n - 1 \in 0..tail
            /\ n \in 1..tail
        BY <1>0, <2>1, <3>1
      <4>2. /\ sum[n] = sum[n - 1] + applied[n] * Gains[content[n]][a]
            /\ sum[n] \in Int /\ sum[n - 1] \in Int
        BY <1>2, <4>1 DEF IsSum
      <4>3. CASE n # e
        <5>1. applied'[n] = applied[n]
          BY <3>1, <4>3 DEF Apply
        <5>2. applied[n] * Gains[content[n]][a] \in Int
          <6>1. n \in Entries /\ content[n] \in Blocks
            BY <4>1, ConsumerAssumption DEF TypeOK, Entries, ContentInv
          <6> QED
            BY <1>0, <6>1, GainsTyped
        <5> HIDE DEF net
        <5> QED
          BY <2>1, <3>2, <4>1, <4>2, <4>3, <5>1, <5>2
      <4>4. CASE n = e
        <5>1. applied'[n] = applied[n] + 1 /\ applied[n] \in Nat
          BY <1>0, <3>1, <4>4 DEF Apply
        <5>2. Gains[content'[n]][a] = net /\ Gains[content[n]][a] = net
          BY <2>1, <4>4
        <5> HIDE DEF net
        <5>3. (applied[n] + 1) * net = applied[n] * net + net
          BY <3>2, <5>1
        <5>4. new[n] = sum[n] + net /\ new[n - 1] = sum[n - 1]
          BY <4>1, <4>4
        <5> DEFINE before == applied[n] * net
        <5>5. before \in Int
          BY <3>2, <5>1
        <5>6. applied'[n] * Gains[content'[n]][a] = before + net
          BY <5>1, <5>2, <5>3
        <5>7. sum[n] = sum[n - 1] + before
          BY <4>2, <5>2
        <5> HIDE DEF new, before
        <5> QED
          BY <3>2, <4>2, <5>4, <5>5, <5>6, <5>7
      <4> QED
        BY <4>3, <4>4
    <3> HIDE DEF new
    <3>6. IsSum(new, tail', applied', content', a)
      BY <3>4, <3>5 DEF IsSum
    <3> QED
      BY <3>4, <3>6
  <2> QED
    BY <2>2, <2>3
<1> QED
  BY <1>3, <1>4

\* What an account received and spent is what the Transfer events of the
\* committed blocks say, each as often as it was committed: through every
\* crash, repetition, refusal and call that raised.
THEOREM FlowsAreTransfers == TablesSpec => []FlowIsTransfers
<1>1. TablesInit => FlowInv
  <2> SUFFICES ASSUME TablesInit, NEW a \in Accounts
               PROVE  \E sum : /\ IsSum(sum, tail, applied, content, a)
                               /\ flow[a] = sum[tail]
    BY DEF FlowInv
  <2>1. tail = 0 /\ flow[a] = 0
    BY DEF TablesInit, Init, RepositoryInit
  <2>2. IsSum([n \in 0..tail |-> 0], tail, applied, content, a)
    BY <2>1 DEF IsSum
  <2> QED
    BY <2>1, <2>2
<1>2. TablesSpec => []TypeOK /\ []DeliveryInv
  BY TablesImplementConsumer, TypeCorrect, DeliveryInvariant, PTL
<1> QED
  BY <1>1, <1>2, FlowNext, FlowIsSum, FreshInvariant, ContentInvariant, PTL
     DEF TablesSpec

-----------------------------------------------------------------------------
(* The balances *)

Clamped(n) == IF n < 0 THEN 0 ELSE n

\* Committing a block once more is clamping once for all: the balance is at
\* zero already when what it spends exceeds it.
LEMMA ClampOnceMore ==
  ASSUME NEW raw \in Nat, NEW times \in Nat, NEW net \in Int
  PROVE  Clamped(raw + (times + 1) * net) =
           IF times = 0 THEN Clamped(raw + net)
           ELSE Clamped(Clamped(raw + times * net) + net)
<1> DEFINE part == times * net
<1>1. (times + 1) * net = part + net /\ part \in Int
  OBVIOUS
<1>2. (net >= 0 => part >= 0) /\ (times = 0 => part = 0)
  OBVIOUS
<1>3. net < 0 => part <= 0
  OBVIOUS
<1> HIDE DEF part
<1>4. Clamped(raw + (part + net)) =
        IF times = 0 THEN Clamped(raw + net) ELSE Clamped(Clamped(raw + part) + net)
  BY <1>1, <1>2, <1>3 DEF Clamped
<1> QED
  BY <1>1, <1>4 DEF part

\* AfterBlock with what it depends on as arguments
After(row, times, block, a) ==
  IF times = 0 \/ Gains[block][a] = 0 THEN row
  ELSE [raw   |-> Clamped(row.raw + times * Gains[block][a]),
        block |-> Payload[block].number]

LEMMA AfterBlockIs ==
  ASSUME NEW row, NEW e, NEW a
  PROVE  AfterBlock(row, e, a) = After(row, applied[e], content[e], a)
BY DEF AfterBlock, After, Clamped

BalanceRows == [raw : Nat, block : Numbers \cup {NoBlock}]

LEMMA AfterTyped ==
  ASSUME NEW row \in BalanceRows, NEW times \in Nat,
         NEW block \in Blocks, NEW a \in Accounts
  PROVE  After(row, times, block, a) \in BalanceRows
<1>1. Gains[block][a] \in Int /\ Payload[block].number \in Numbers
  BY GainsTyped, TablesAssumption
<1>2. times * Gains[block][a] \in Int
  BY <1>1
<1>3. Clamped(row.raw + times * Gains[block][a]) \in Nat
  BY <1>2 DEF Clamped, BalanceRows
<1> QED
  BY <1>1, <1>3 DEF After, BalanceRows

\* What apply_deltas_and_upsert makes of the row that a block left is what it
\* would have left, committed once more.
LEMMA ApplyOnceMore ==
  ASSUME NEW row \in BalanceRows, NEW times \in Nat,
         NEW block \in Blocks, NEW a \in Accounts, a \in DOMAIN balances,
         balances[a] = After(row, times, block, a),
         ApplyDeltas(Changes[block], Payload[block].number)
  PROVE  balances'[a] = After(row, times + 1, block, a)
<1> DEFINE net == Gains[block][a]
<1>1. net \in Int /\ net = Changes[block][a]
  BY GainsTyped, ParserRight
<1>2. balances'[a] =
        IF net # 0
        THEN [raw |-> Clamped(balances[a].raw + net), block |-> Payload[block].number]
        ELSE balances[a]
  BY <1>1 DEF ApplyDeltas, Touched, NewRaw, Clamped
<1>3. times + 1 # 0 /\ row.raw \in Nat
  BY DEF BalanceRows
<1> HIDE DEF net
<1>4. CASE net = 0
  BY <1>2, <1>4 DEF After, net
<1>5. CASE net # 0 /\ times = 0
  <2>1. balances[a] = row /\ row.raw + (0 + 1) * net = row.raw + net
    BY <1>1, <1>3, <1>5 DEF After
  <2> QED
    BY <1>2, <1>3, <1>5, <2>1 DEF After, net
<1>6. CASE net # 0 /\ times # 0
  <2>1. balances[a].raw = Clamped(row.raw + times * net)
    BY <1>6 DEF After, net
  <2>2. Clamped(row.raw + (times + 1) * net) = Clamped(balances[a].raw + net)
    <3>1. Clamped(row.raw + (times + 1) * net) =
            IF times = 0 THEN Clamped(row.raw + net)
            ELSE Clamped(Clamped(row.raw + times * net) + net)
      BY <1>1, <1>3, ClampOnceMore, Zenon
    <3> QED
      BY <1>6, <2>1, <3>1
  <2> QED
    BY <1>2, <1>3, <1>6, <2>2 DEF After, net
<1> QED
  BY <1>4, <1>5, <1>6

IsReplay(row, len, times, blocks, a) ==
  /\ row \in [0..len -> BalanceRows] /\ row[0] = NoRow
  /\ \A n \in 1..len : row[n] = After(row[n - 1], times[n], blocks[n], a)

ReplayInv ==
  role = "balance" /\ left \cap Committed = {} =>
    \A a \in Accounts :
      \E row : IsReplay(row, tail, applied, content, a) /\ balances[a] = row[tail]

LEMMA ReplayIsReplayed == TypeOK /\ ReplayInv => BalancesReplayStream
<1> SUFFICES ASSUME TypeOK, ReplayInv, role = "balance",
                    left \cap Committed = {}, NEW a \in Accounts
             PROVE  balances[a] = Replayed(a)
  BY DEF BalancesReplayStream
<1>1. PICK row : IsReplay(row, tail, applied, content, a) /\ balances[a] = row[tail]
  BY DEF ReplayInv
<1>2. tail \in Nat
  BY ConsumerAssumption DEF TypeOK
<1> DEFINE Obeys(f) ==
      f = [n \in 0..tail |-> IF n = 0 THEN NoRow ELSE AfterBlock(f[n - 1], n, a)]
           chosen == CHOOSE f : Obeys(f)
<1>3. Replayed(a) = chosen[tail]
  BY DEF Replayed
<1>4. \A n \in 1..tail : row[n] = AfterBlock(row[n - 1], n, a)
  BY <1>1, AfterBlockIs DEF IsReplay
<1>5. Obeys(row)
  BY <1>1, <1>2, <1>4 DEF IsReplay
<1>6. Obeys(chosen)
  BY <1>5
<1> HIDE DEF chosen
<1>7. /\ chosen[0] = NoRow
      /\ \A n \in 1..tail : chosen[n] = AfterBlock(chosen[n - 1], n, a)
  BY <1>2, <1>6
<1>8. Follows(chosen, row, tail)
  BY <1>1, <1>4, <1>7 DEF IsReplay, Follows
<1>9. \A n \in 0..tail : chosen[n] = row[n]
  BY <1>2, <1>8, AgreeAlong
<1> QED
  BY <1>1, <1>2, <1>3, <1>9

\* Publishing a block adds a position that leaves the row as it is.
LEMMA ReplayPublishes ==
  ASSUME TypeOK, ContentInv, FreshInv, [TablesNext]_allVars, ~CommitBlock,
         NEW a, NEW row, IsReplay(row, tail, applied, content, a)
  PROVE  \E new : /\ IsReplay(new, tail', applied', content', a)
                  /\ new[tail'] = row[tail]
<1>0. tail \in Nat /\ applied \in [Entries -> Nat]
  BY ConsumerAssumption DEF TypeOK
<1>1. /\ UNCHANGED applied
      /\ tail' = tail \/ (tail' = tail + 1 /\ tail + 1 \in Entries)
      /\ \A n \in 1..tail : content'[n] = content[n]
  BY CommitsNothing
<1>2. CASE tail' = tail
  <2>1. IsReplay(row, tail', applied', content', a)
    BY <1>1, <1>2 DEF IsReplay
  <2> QED
    BY <1>2, <2>1
<1>3. CASE tail' = tail + 1 /\ tail + 1 \in Entries
  <2> DEFINE new == [n \in 0..tail + 1 |-> IF n = tail + 1 THEN row[tail] ELSE row[n]]
  <2>1. applied[tail + 1] = 0
    BY <1>0, <1>3 DEF FreshInv
  <2>2. new \in [0..tail' -> BalanceRows] /\ new[0] = NoRow /\ new[tail'] = row[tail]
    BY <1>0, <1>3 DEF IsReplay
  <2>3. ASSUME NEW n \in 1..tail'
        PROVE  new[n] = After(new[n - 1], applied'[n], content'[n], a)
    <3>1. CASE n = tail + 1
      <4>1. new[n] = row[tail] /\ new[n - 1] = row[tail]
        BY <1>0, <3>1
      <4> QED
        BY <1>1, <2>1, <3>1, <4>1 DEF After
    <3>2. CASE n # tail + 1
      <4>1. n \in 1..tail /\ new[n] = row[n] /\ new[n - 1] = row[n - 1]
        BY <1>0, <1>3, <3>2
      <4>2. applied'[n] = applied[n] /\ content'[n] = content[n]
        BY <1>1, <4>1
      <4> HIDE DEF new
      <4> QED
        BY <4>1, <4>2 DEF IsReplay
    <3> QED
      BY <3>1, <3>2
  <2> HIDE DEF new
  <2>4. IsReplay(new, tail', applied', content', a)
    BY <2>2, <2>3 DEF IsReplay
  <2> QED
    BY <2>2, <2>4
<1> QED
  BY <1>1, <1>2, <1>3

\* Committing the newest block so far once more replaces the row it left.
LEMMA ReplayCommits ==
  ASSUME TypeOK, ContentInv, RepositoryTypeOK, role = "balance",
         NEW e \in 1..tail, e \in Entries, content[e] \in Blocks, Apply(e),
         Store(content[e]), UNCHANGED <<content, tail>>,
         \A f \in Entries : applied[f] > 0 => f <= e,
         NEW a \in Accounts, NEW row,
         IsReplay(row, tail, applied, content, a), balances[a] = row[tail]
  PROVE  \E new : /\ IsReplay(new, tail', applied', content', a)
                  /\ balances'[a] = new[tail']
<1>0. /\ tail \in Nat /\ applied \in [Entries -> Nat] /\ e \in Int
      /\ \A n \in 1..tail : n \in Entries
  BY ConsumerAssumption DEF TypeOK, Entries
<1>1. \A n \in e + 1 .. tail : applied[n] = 0
  BY <1>0
<1>2. /\ row \in [0..tail -> BalanceRows] /\ row[0] = NoRow
      /\ \A n \in 1..tail : row[n] = After(row[n - 1], applied[n], content[n], a)
  BY DEF IsReplay
<1>3. \A n \in e + 1 .. tail : row[n] = row[n - 1]
  <2> SUFFICES ASSUME NEW n \in e + 1 .. tail PROVE row[n] = row[n - 1]
    OBVIOUS
  <2>1. n \in 1..tail
    BY <1>0
  <2> QED
    BY <1>1, <1>2, <2>1 DEF After
<1>4. balances[a] = row[e]
  <2>1. e \in 0..tail
    BY <1>0
  <2>2. row[tail] = row[e]
    BY <1>0, <1>3, <2>1, ConstantFrom, Zenon
  <2> QED
    BY <2>2
<1> DEFINE last == After(row[e - 1], applied[e] + 1, content[e], a)
           new == [n \in 0..tail |-> IF n < e THEN row[n] ELSE last]
<1>5. row[e - 1] \in BalanceRows /\ row[e] = After(row[e - 1], applied[e], content[e], a)
  BY <1>0, <1>2
<1>6. ApplyDeltas(Changes[content[e]], Payload[content[e]].number)
  BY DEF Store
<1>7. balances'[a] = last
  <2>1. applied[e] \in Nat /\ a \in DOMAIN balances
    BY <1>0 DEF RepositoryTypeOK
  <2>2. balances[a] = After(row[e - 1], applied[e], content[e], a)
    BY <1>4, <1>5
  <2> QED
    BY <1>5, <1>6, <2>1, <2>2, ApplyOnceMore, Zenon
<1>8. last \in BalanceRows
  <2>1. applied[e] + 1 \in Nat
    BY <1>0
  <2> QED
    BY <1>5, <2>1, AfterTyped, Zenon
<1>9. \A n \in 1..tail : applied'[n] = IF n = e THEN applied[e] + 1 ELSE applied[n]
  BY <1>0 DEF Apply
<1> HIDE DEF last
<1>10. new \in [0..tail -> BalanceRows] /\ new[0] = NoRow /\ new[tail] = last
  BY <1>0, <1>2, <1>8
<1>11. ASSUME NEW n \in 1..tail
       PROVE  new[n] = After(new[n - 1], applied'[n], content[n], a)
  <2>1. CASE n < e
    <3>1. new[n] = row[n] /\ new[n - 1] = row[n - 1] /\ applied'[n] = applied[n]
      BY <1>0, <1>9, <2>1
    <3> HIDE DEF new
    <3> QED
      BY <1>2, <3>1
  <2>2. CASE n = e
    <3>1. new[n] = last /\ new[n - 1] = row[e - 1] /\ applied'[n] = applied[e] + 1
      BY <1>0, <1>9, <2>2
    <3> HIDE DEF new
    <3> QED
      BY <2>2, <3>1 DEF last
  <2>3. CASE n > e
    <3>1. new[n] = last /\ new[n - 1] = last /\ applied'[n] = 0
      BY <1>0, <1>1, <1>9, <2>3
    <3> HIDE DEF new
    <3> QED
      BY <3>1 DEF After
  <2> QED
    BY <1>0, <2>1, <2>2, <2>3
<1> HIDE DEF new
<1>12. IsReplay(new, tail', applied', content', a)
  BY <1>10, <1>11 DEF IsReplay
<1> QED
  BY <1>7, <1>10, <1>12

LEMMA ReplayNext ==
  ASSUME TypeOK, DeliveryInv, ContentInv, FreshInv, RepositoryTypeOK,
         OrderInv, ReplayInv, [TablesNext]_allVars
  PROVE  ReplayInv'
<1> SUFFICES ASSUME role' = "balance", (left \cap Committed)' = {},
                    NEW a \in Accounts
             PROVE  \E row : /\ IsReplay(row, tail', applied', content', a)
                             /\ balances'[a] = row[tail']
  BY DEF ReplayInv
<1>1. role = "balance" /\ left \cap Committed = {}
  <2>1. role' = role /\ left \subseteq left' /\ Committed \subseteq Committed'
    BY CommitsNothing, CommitsOne, CommittedKept, CommittedGrows DEF Committed
  <2> QED
    BY <2>1
<1>2. PICK row : IsReplay(row, tail, applied, content, a) /\ balances[a] = row[tail]
  BY <1>1 DEF ReplayInv
<1>3. CASE ~CommitBlock
  BY <1>2, <1>3, ReplayPublishes, CommitsNothing
<1>4. CASE CommitBlock
  <2>1. UNCHANGED <<content, tail>>
    BY <1>4, CommitsOne
  <2>2. CASE UNCHANGED <<applied, tables>>
    BY <1>2, <2>1, <2>2 DEF IsReplay, tables, assets
  <2>3. CASE ~UNCHANGED <<applied, tables>>
    <3>1. PICK e \in batch :
            /\ e \in 1..tail /\ e \in Entries /\ content[e] \in Blocks
            /\ Apply(e) /\ Store(content[e])
      BY <1>4, <2>3, CommitsOne
    <3>2. e \notin left
      BY <1>4, <2>1, <3>1, CommitsOne, CommittedGrows
    <3>3. \A f \in Entries : applied[f] > 0 => f <= e
      BY <3>1, <3>2, CommitsNewest
    <3> QED
      BY <1>1, <1>2, <2>1, <3>1, <3>3, ReplayCommits
  <2> QED
    BY <2>2, <2>3
<1> QED
  BY <1>3, <1>4

\* The balances are what processing the committed blocks in stream order gives,
\* each as often as it was committed, unless a restart left one of them:
\* crashes and faults repeat blocks, and never change their order.
THEOREM BalancesAreReplayed == TablesSpec => []BalancesReplayStream
<1>1. TablesInit => ReplayInv
  <2> SUFFICES ASSUME TablesInit, NEW a \in Accounts
               PROVE  \E row : /\ IsReplay(row, tail, applied, content, a)
                               /\ balances[a] = row[tail]
    BY DEF ReplayInv
  <2>1. tail = 0 /\ balances[a] = NoRow
    BY DEF TablesInit, Init, RepositoryInit
  <2>2. IsReplay([n \in 0..tail |-> NoRow], tail, applied, content, a)
    BY <2>1 DEF IsReplay, NoRow, BalanceRows
  <2> QED
    BY <2>1, <2>2
<1>2. TablesSpec => []TypeOK /\ []DeliveryInv /\ []RepositoryTypeOK
  BY TablesImplementConsumer, TablesImplementRepository, TypeCorrect,
     DeliveryInvariant, RepositoryTypeCorrect, PTL
<1> QED
  BY <1>1, <1>2, ReplayNext, ReplayIsReplayed, FreshInvariant, ContentInvariant,
     TablesOrdered, PTL DEF TablesSpec

-----------------------------------------------------------------------------
(***************************************************************************)
(* What the users hold of a token, all together, never shrinks: transfers  *)
(* move it, and clamping adds.                                             *)
(***************************************************************************)
LEMMA StoreKeepsTotals ==
  ASSUME RepositoryTypeOK, NEW block \in Blocks, Store(block), NEW token \in Tokens
  PROVE  Total(token)' >= Total(token)
<1> DEFINE old   == [a \in Accounts |-> balances[a].raw]
           new   == [a \in Accounts |-> balances'[a].raw]
           net   == Changes[block]
           moved == [a \in Accounts |-> old[a] + net[a]]
<1>1. old \in NetsOfAccounts
  BY RepositoryAssumption DEF RepositoryTypeOK, NetsOfAccounts
<1>2. net \in NetsOfAccounts /\ TokenSum(net, token) = 0
  <2>1. WellFormed(Payload[block]) /\ net = NetChanges(Payload[block])
    BY TablesAssumption DEF WellFormed, Changes
  <2> HIDE DEF net
  <2> QED
    BY <2>1, ParserConserves
<1>3. \A a \in Accounts : old[a] \in Int /\ net[a] \in Int
  BY <1>1, <1>2 DEF NetsOfAccounts
<1>4. Total(token) = TokenSum(old, token) /\ Total(token)' = TokenSum(new, token)
  BY DEF Total
<1>5. \A a \in Accounts :
        /\ old[a] = balances[a].raw /\ new[a] = balances'[a].raw
        /\ moved[a] = old[a] + net[a]
  OBVIOUS
<1>6. CASE role = "state"
  <2>1. UNCHANGED balances
    BY <1>6 DEF Store, assets
  <2>2. TokenSum(old, token) \in Int
    BY <1>1, TokenSumTyped
  <2>3. new = old
    BY <2>1
  <2> QED
    BY <1>4, <2>2, <2>3
<1>7. CASE role = "balance"
  <2>1. \A a \in Accounts :
          new[a] = IF net[a] # 0 THEN NewRaw(a, net) ELSE balances[a].raw
    BY <1>7 DEF Store, ApplyDeltas, Touched
  <2> HIDE DEF old, new, net, moved
  <2>2. \A a \in Accounts : new[a] \in Int /\ moved[a] \in Int /\ moved[a] <= new[a]
    BY <1>3, <1>5, <2>1 DEF NewRaw
  <2>3. new \in NetsOfAccounts /\ moved \in NetsOfAccounts
    BY <2>2 DEF NetsOfAccounts, new, moved
  <2>4. /\ TokenSum(moved, token) = TokenSum(old, token) + 0
        /\ TokenSum(old, token) \in Int
    BY <1>1, <1>2, <1>5, <2>3, TokenSumPlus
  <2>5. TokenSum(moved, token) <= TokenSum(new, token)
    BY <2>2, <2>3, TokenSumGrows
  <2>6. TokenSum(new, token) >= TokenSum(old, token)
    BY <2>3, <2>4, <2>5, TokenSumTyped
  <2> QED
    BY <1>4, <2>6
<1> QED
  BY <1>6, <1>7 DEF Store

\* A commit never makes what all users hold of a token less, whatever the
\* block is, whatever is clamped, refused or lost.
THEOREM TotalsNeverShrink == TablesSpec => TotalNeverShrinks
<1>1. ASSUME TypeOK, DeliveryInv, ContentInv, RepositoryTypeOK,
             [TablesNext]_allVars, ~UNCHANGED balances, NEW token \in Tokens
      PROVE  Total(token)' >= Total(token)
  <2>1. CommitBlock
    BY <1>1, OtherStepsStore DEF tables, assets
  <2>2. PICK e \in batch : content[e] \in Blocks /\ Store(content[e])
    BY <1>1, <2>1, CommitsOne DEF tables, assets
  <2> QED
    BY <1>1, <2>2, StoreKeepsTotals
<1>2. TypeOK /\ DeliveryInv /\ ContentInv /\ RepositoryTypeOK /\ [TablesNext]_allVars
        => [\A token \in Tokens : Total(token)' >= Total(token)]_balances
  BY <1>1
<1>3. TablesSpec => []TypeOK /\ []DeliveryInv /\ []RepositoryTypeOK
  BY TablesImplementConsumer, TablesImplementRepository, TypeCorrect,
     DeliveryInvariant, RepositoryTypeCorrect, PTL
<1> QED
  BY <1>2, <1>3, ContentInvariant, PTL DEF TablesSpec, TotalNeverShrinks
=============================================================================
