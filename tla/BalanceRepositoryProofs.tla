----------------------- MODULE BalanceRepositoryProofs -----------------------
(***************************************************************************)
(* Theorems about BalanceRepository, for any accounts and any net changes. *)
(***************************************************************************)
EXTENDS BalanceRepository, TransferParserProofs

\* What apply_deltas_and_upsert writes is well typed.
LEMMA ApplyTyped ==
  ASSUME RepositoryTypeOK, NEW net \in Nets, NEW number \in Numbers,
         Fits(net, number), ApplyDeltas(net, number)
  PROVE  RepositoryTypeOK'
<1>1. net \in [Accounts -> Int]
  BY RepositoryAssumption
<1>2. \A a \in Accounts : balances[a].raw \in Nat /\ NewRaw(a, net) \in Nat
  BY <1>1, RepositoryAssumption DEF RepositoryTypeOK, NewRaw
<1>3. \A a \in Touched(net) : NewRaw(a, net) \in 0..MaxInt
  BY <1>2, RepositoryAssumption DEF Fits, Touched
<1>4. balances' \in [Accounts -> [raw : 0..MaxInt, block : Numbers \cup {NoBlock}]]
  BY <1>3 DEF ApplyDeltas, RepositoryTypeOK
<1>5. flow' \in [Accounts -> Int]
  BY <1>1 DEF ApplyDeltas, RepositoryTypeOK
<1>6. low' \in [Accounts -> Int]
  BY <1>5 DEF ApplyDeltas, RepositoryTypeOK
<1>7. QED
  BY <1>4, <1>5, <1>6 DEF RepositoryTypeOK

\* Balances stay within an INTEGER column, whatever transfers a block holds.
THEOREM RepositoryTypeCorrect == RepositorySpec => []RepositoryTypeOK
<1>1. RepositoryInit => RepositoryTypeOK
  BY RepositoryAssumption DEF RepositoryInit, RepositoryTypeOK, NoRow
<1>2. RepositoryTypeOK /\ [RepositoryNext]_assets => RepositoryTypeOK'
  <2> SUFFICES ASSUME RepositoryTypeOK, [RepositoryNext]_assets
               PROVE  RepositoryTypeOK'
    OBVIOUS
  <2>1. CASE RepositoryNext
    BY <2>1, ApplyTyped DEF RepositoryNext
  <2>2. CASE UNCHANGED assets
    BY <2>2 DEF assets, RepositoryTypeOK
  <2>3. QED
    BY <2>1, <2>2
<1>3. QED
  BY <1>1, <1>2, PTL DEF RepositorySpec

(***************************************************************************)
(* Clamping at zero is reflection at the running minimum: ClampedExactly   *)
(* is inductive by itself once the types are known.                        *)
(***************************************************************************)
LEMMA ClampedNext ==
  ASSUME RepositoryTypeOK, ClampedExactly, [RepositoryNext]_assets
  PROVE  ClampedExactly'
<1>1. CASE RepositoryNext
  <2>1. PICK net \in Nets, number \in Numbers : ApplyDeltas(net, number)
    BY <1>1 DEF RepositoryNext
  <2>2. net \in [Accounts -> Int]
    BY RepositoryAssumption
  <2>3. SUFFICES ASSUME NEW a \in Accounts
                 PROVE  balances'[a].raw = flow'[a] - low'[a]
    BY DEF ClampedExactly
  <2>4. /\ balances[a].raw \in Nat /\ flow[a] \in Int /\ low[a] \in Int
        /\ net[a] \in Int /\ balances[a].raw = flow[a] - low[a]
    BY <2>2, RepositoryAssumption DEF RepositoryTypeOK, ClampedExactly
  <2>5. /\ flow'[a] = flow[a] + net[a]
        /\ low'[a] = IF flow'[a] < low[a] THEN flow'[a] ELSE low[a]
    BY <2>1 DEF ApplyDeltas
  <2>6. balances'[a].raw = IF net[a] # 0 THEN NewRaw(a, net) ELSE balances[a].raw
    BY <2>1 DEF ApplyDeltas, Touched
  <2>7. QED
    BY <2>4, <2>5, <2>6 DEF NewRaw
<1>2. CASE UNCHANGED assets
  BY <1>2 DEF assets, ClampedExactly
<1>3. QED
  BY <1>1, <1>2

\* A balance exceeds what the account really has by exactly the largest
\* deficit it ever had: that is all that clamping forgets.
THEOREM BalancesAreClamped == RepositorySpec => []ClampedExactly
<1>1. RepositoryInit => ClampedExactly
  BY DEF RepositoryInit, ClampedExactly, NoRow
<1>2. QED
  BY <1>1, ClampedNext, RepositoryTypeCorrect, PTL DEF RepositorySpec

NeverInCredit == \A a \in Accounts : low[a] <= 0

\* A balance is never below what the account received minus what it spent:
\* the tracker may overstate a holding and never understates it.
THEOREM BalancesNeverUnderstate == RepositorySpec => []NeverUnderstates
<1>1. RepositoryInit => NeverInCredit
  BY DEF RepositoryInit, NeverInCredit
<1>2. RepositoryTypeOK /\ NeverInCredit /\ [RepositoryNext]_assets => NeverInCredit'
  <2> SUFFICES ASSUME RepositoryTypeOK, NeverInCredit, [RepositoryNext]_assets
               PROVE  NeverInCredit'
    OBVIOUS
  <2>1. CASE RepositoryNext
    <3>1. PICK net \in Nets, number \in Numbers : ApplyDeltas(net, number)
      BY <2>1 DEF RepositoryNext
    <3>2. \A a \in Accounts : net[a] \in Int /\ flow[a] \in Int /\ low[a] \in Int
      BY RepositoryAssumption DEF RepositoryTypeOK
    <3>3. \A a \in Accounts :
            low'[a] = low[a] \/ (low'[a] < low[a] /\ low'[a] \in Int)
      BY <3>1, <3>2 DEF ApplyDeltas
    <3>4. QED
      BY <3>2, <3>3 DEF NeverInCredit
  <2>2. CASE UNCHANGED assets
    BY <2>2 DEF assets, NeverInCredit
  <2>3. QED
    BY <2>1, <2>2
<1>3. RepositoryTypeOK /\ ClampedExactly /\ NeverInCredit => NeverUnderstates
  BY DEF RepositoryTypeOK, ClampedExactly, NeverInCredit, NeverUnderstates
<1>4. QED
  BY <1>1, <1>2, <1>3, RepositoryTypeCorrect, BalancesAreClamped, PTL
     DEF RepositorySpec
=============================================================================
