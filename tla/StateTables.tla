------------------------------ MODULE StateTables ------------------------------
(***************************************************************************)
(* The two workers that write PostgreSQL, with what they write: module     *)
(* BlockConsumer with the content of the blocks and the tables             *)
(*                                                                         *)
(*   mini_block_records  app/state/repository.py, app/schemas/state.py     *)
(*   asset_balances      modules TransferParser and BalanceRepository      *)
(*                                                                         *)
(* What BlockConsumer leaves open, the content decides here: what kind a   *)
(* block is of, and whether PostgreSQL refuses it.                         *)
(***************************************************************************)
EXTENDS BlockConsumer, BalanceRepository

CONSTANT Payload  \* the blocks the daemon may add: name -> what is in it

Blocks == DOMAIN Payload

VARIABLES
  content,  \* the blocks added so far
  rows      \* the table mini_block_records: key -> block

tables  == <<rows, assets>>
allVars == <<vars, content, tables>>

-----------------------------------------------------------------------------
(* The kind of a block *)

\* what apply_deltas(extract_transfers(block)) returns
Changes == [block \in Blocks |-> NetChanges(Payload[block])]

KindOf(block) ==
  IF Payload[block].hex THEN "hex"
  ELSE IF Crashes(Payload[block]) THEN "malformed"
  ELSE IF Touched(Changes[block]) = {} THEN "plain" ELSE "transfers"

ASSUME TablesAssumption ==
  /\ Roles \subseteq {"state", "balance"}
  /\ \A block \in Blocks :
       /\ KindOf(block) \in Kinds
       /\ Payload[block].receipts \in Seq(ReceiptRecords)
       /\ Payload[block].number \in Numbers /\ Payload[block].index \in Nat
       /\ Changes[block] \in Nets

-----------------------------------------------------------------------------
(* mini_block_records: StateRepository.upsert, which is session.merge() *)

PrimaryKey(block) == <<Payload[block].number, Payload[block].index>>

\* mini_block_number is unique, but it may be missing
Conflicts(block) ==
  \E k \in DOMAIN rows \ {PrimaryKey(block)} :
     /\ Payload[block].mini # NoMini
     /\ Payload[rows[k]].mini = Payload[block].mini

\* mutant: a row that exists is left as it is
UpsertKeeping(block) ==
  rows' = [k \in DOMAIN rows \cup {PrimaryKey(block)} |->
             IF k \in DOMAIN rows THEN rows[k] ELSE block]

Upsert(block) ==
  rows' = [k \in DOMAIN rows \cup {PrimaryKey(block)} |->
             IF k = PrimaryKey(block) THEN block ELSE rows[k]]

-----------------------------------------------------------------------------
(* The sink of a worker *)

\* what PostgreSQL accepts; otherwise it refuses the whole transaction
Storable(block) ==
  IF role = "state"
  THEN /\ Payload[block].number <= MaxInt /\ Payload[block].index <= MaxInt
       /\ Payload[block].mini <= MaxInt /\ ~Conflicts(block)
  ELSE Fits(Changes[block], Payload[block].number)

Store(block) ==
  \/ role = "state" /\ Upsert(block) /\ UNCHANGED assets
  \/ role = "balance" /\ UNCHANGED rows
                      /\ ApplyDeltas(Changes[block], Payload[block].number)

\* mutant: a block that is refused is passed over
CommitSkipping ==
  /\ pc = "commit"
  /\ \E e \in batch :
       /\ Current(e)
       /\ \/ /\ Accept(e) /\ Storable(content[e]) /\ Store(content[e])
             /\ UNCHANGED batch
          \/ /\ ~Storable(content[e]) /\ batch' = batch \ {e} /\ pc' = "take"
             /\ UNCHANGED <<tables, applied, outcome, faults>>
  /\ UNCHANGED <<stream, worker, tries, missed, content>>

\* mutant: the rows before the one that is refused are kept
CommitPartly ==
  /\ pc = "commit"
  /\ \E e \in batch :
       /\ Current(e)
       /\ \/ Accept(e) /\ Storable(content[e]) /\ Store(content[e])
          \/ /\ Refuse(e) /\ ~Storable(content[e]) /\ UNCHANGED rows
             /\ LET change == Changes[content[e]]
                    fit    == [a \in Accounts |->
                                IF NewRaw(a, change) <= MaxInt THEN change[a] ELSE 0]
                IN ApplyDeltas(fit, Payload[content[e]].number)
  /\ UNCHANGED <<stream, worker, batch, tries, missed, content>>

\* the transaction: all rows of the block, or none
CommitBlock ==
  /\ pc = "commit"
  /\ \E e \in batch :
       /\ Current(e)
       /\ \/ Accept(e) /\ Storable(content[e]) /\ Store(content[e])
          \/ Break(e) /\ Storable(content[e]) /\ Store(content[e])
          \/ Refuse(e) /\ ~Storable(content[e]) /\ UNCHANGED tables
          \/ Lose /\ UNCHANGED tables
  /\ UNCHANGED <<stream, worker, batch, tries, missed, content>>

-----------------------------------------------------------------------------

TablesInit ==
  /\ Init /\ RepositoryInit
  /\ content = <<>> /\ rows = <<>>

PublishBlock ==
  /\ Publish
  /\ \E block \in Blocks :
       content' = Append(content, block) /\ kind'[tail'] = KindOf(block)
  /\ UNCHANGED tables

Others == \/ LoseData \/ Boot \/ Shutdown \/ Die \/ Exit
          \/ Claim \/ Read \/ ReadRaises \/ Take \/ BatchDone
          \/ Parse \/ Ack \/ Bury \/ AckDead

TablesNext ==
  PublishBlock \/ CommitBlock \/ (Others /\ UNCHANGED <<content, tables>>)

TablesSpec == TablesInit /\ [][TablesNext]_allVars

-----------------------------------------------------------------------------
(* Properties *)

TablesTypeOK ==
  /\ TypeOK /\ RepositoryTypeOK
  /\ content \in Seq(Blocks) /\ Len(content) = tail
  /\ DOMAIN rows \subseteq Numbers \X Nat

\* by the definition of Received
Gains == [block \in Blocks |-> [a \in Accounts |-> Received(Payload[block], a)]]

\* the entries whose block was committed
Committed == {e \in 1..tail : applied[e] > 0}

KeyOf(e) == PrimaryKey(content[e])

\* What a row says is what the newest of the committed blocks with its key
\* says, or one that a restart had left and a later one took up; through
\* restarts and blocks processed twice.
RowIsNewest ==
  role = "state" =>
    /\ DOMAIN rows = {KeyOf(e) : e \in Committed}
    /\ \A key \in DOMAIN rows : \E e \in Committed :
         /\ KeyOf(e) = key /\ rows[key] = content[e]
         /\ e \in left \/ \A f \in Committed : KeyOf(f) = key => f <= e

\* what processing block e of the stream as often as it was committed makes of
\* a row
AfterBlock(row, e, account) ==
  LET net == Gains[content[e]][account]
      new == row.raw + applied[e] * net
  IN IF applied[e] = 0 \/ net = 0 THEN row
     ELSE [raw   |-> IF new < 0 THEN 0 ELSE new,
           block |-> Payload[content[e]].number]

Replayed(account) ==
  LET row[n \in 0..tail] ==
        IF n = 0 THEN NoRow ELSE AfterBlock(row[n - 1], n, account)
  IN row[tail]

\* As long as no restart left a block that is committed, the balances are
\* what processing the committed blocks in stream order gives, each as often
\* as it was committed: clamping at zero makes the order count.
BalancesReplayStream ==
  role = "balance" /\ left \cap Committed = {} =>
    \A a \in Accounts : balances[a] = Replayed(a)

\* what the successful Transfer events of the committed blocks say
Moved(account) ==
  LET sum[n \in 0..tail] ==
        IF n = 0 THEN 0
        ELSE sum[n - 1] + applied[n] * Gains[content[n]][account]
  IN sum[tail]

\* What an account received and spent is what the successful Transfer events
\* of the committed blocks say, whatever else is in their receipts.
FlowIsTransfers == role = "balance" => \A a \in Accounts : flow[a] = Moved(a)

\* A transfer takes from one account what it gives to another: the sum of the
\* balances of a token never shrinks, whatever is clamped or refused.
Total(token) == TokenSum([a \in Accounts |-> balances[a].raw], token)

TotalNeverShrinks ==
  [][\A token \in Tokens : Total(token)' >= Total(token)]_balances

\* "Raw balance (no decimals applied, uint256)": a block is not dead-lettered
\* for the size of its transfers.
TransfersAreStorable ==
  role = "balance" /\ faults = 0 =>
    \A e \in 1..tail : kind[e] = "transfers" => outcome[e] # "buried"
=============================================================================
