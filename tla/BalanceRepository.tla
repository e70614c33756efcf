-------------------------- MODULE BalanceRepository --------------------------
(***************************************************************************)
(* The asset_balances table and the only operation that writes it:         *)
(* AssetBalanceRepository.apply_deltas_and_upsert (with get_balance and    *)
(* bulk_upsert), app/state/balance_repository.py.                          *)
(*                                                                         *)
(* Rows are read, changed and written back in one transaction of the only  *)
(* balance tracker, so the operation is one step.  token_symbol and        *)
(* decimals are written back as they were read, and left out.  Two history *)
(* variables record what the tokens did, clamping aside.                   *)
(***************************************************************************)
EXTENDS TransferParser

CONSTANTS
  Nets,     \* the net changes blocks may bring
  Numbers,  \* the numbers blocks may have
  MaxInt    \* largest value of an INTEGER column (2^31 - 1)

ASSUME RepositoryAssumption ==
  /\ Nets \subseteq [Accounts -> Int]
  /\ Numbers \subseteq Nat
  /\ MaxInt \in Nat

VARIABLES
  balances,  \* the table: account -> row
  flow,      \* history: all that the account received minus all it spent
  low        \* history: the least flow so far, at most 0

assets == <<balances, flow, low>>

\* a row that does not exist counts as a balance of 0
NoBlock == -1
NoRow   == [raw |-> 0, block |-> NoBlock]

RepositoryInit ==
  /\ balances = [a \in Accounts |-> NoRow]
  /\ flow = [a \in Accounts |-> 0]
  /\ low = [a \in Accounts |-> 0]

\* mutant: the deficit is kept
NewRawUnclamped(account, net) == balances[account].raw + net[account]

\* the deficit of an account that spends more than it has is forgotten
NewRaw(account, net) ==
  LET new == balances[account].raw + net[account]
  IN IF new < 0 THEN 0 ELSE new

\* accounts without a net change are filtered out by apply_deltas
Touched(net) == {a \in Accounts : net[a] # 0}

\* mutant: a column of any width
FitsAlways(net, number) == number <= MaxInt

\* what PostgreSQL accepts in an INTEGER column
Fits(net, number) ==
  /\ number <= MaxInt
  /\ \A a \in Touched(net) : NewRaw(a, net) <= MaxInt

ApplyDeltas(net, number) ==
  /\ balances' = [a \in Accounts |->
       IF a \in Touched(net)
       THEN [raw |-> NewRaw(a, net), block |-> number] ELSE balances[a]]
  /\ flow' = [a \in Accounts |-> flow[a] + net[a]]
  /\ low' = [a \in Accounts |-> IF flow'[a] < low[a] THEN flow'[a] ELSE low[a]]

RepositoryNext ==
  \E net \in Nets, number \in Numbers :
     Fits(net, number) /\ ApplyDeltas(net, number)

RepositorySpec == RepositoryInit /\ [][RepositoryNext]_assets

-----------------------------------------------------------------------------
(* Properties *)

RepositoryTypeOK ==
  /\ balances \in [Accounts -> [raw : 0..MaxInt, block : Numbers \cup {NoBlock}]]
  /\ flow \in [Accounts -> Int] /\ low \in [Accounts -> Int]

\* "the deficit is discarded": a balance exceeds what the account really has
\* by the largest deficit it ever had, and by nothing else.
ClampedExactly == \A a \in Accounts : balances[a].raw = flow[a] - low[a]

\* A balance is never below what the account received minus what it spent.
NeverUnderstates == \A a \in Accounts : balances[a].raw >= flow[a]
=============================================================================
