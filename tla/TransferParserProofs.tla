------------------------- MODULE TransferParserProofs -------------------------
(***************************************************************************)
(* The parser is right: the net changes it returns are what the successful *)
(* Transfer events of the block say, for any receipts and any addresses,   *)
(* and they conserve every token.                                          *)
(***************************************************************************)
EXTENDS TransferParser, FiniteSetTheorems, SequenceTheorems, TLAPS

(***************************************************************************)
(* Induction: what fails for some number fails for a least one.            *)
(***************************************************************************)
LEMMA LeastNat ==
  ASSUME NEW T \in SUBSET Nat, T # {}
  PROVE  \E x \in T : \A y \in T : x <= y
<1> DEFINE R == OpToRel(<, Nat)
<1>1. IsWellFoundedOn(R, Nat)
  BY NatLessThanWellFounded
<1>2. \A x, y \in Nat : <<x, y>> \in R <=> x < y
  BY DEF OpToRel
<1> HIDE DEF R
<1>3. PICK x \in T : \A y \in T : ~ (<<y, x>> \in R)
  BY <1>1, WFMin
<1>4. \A y \in T : ~(y < x)
  BY <1>2, <1>3
<1> QED
  BY <1>4

\* Two functions that start alike and obey one recursion are equal.
Follows(f, g, N) ==
  f[0] = g[0] /\ \A n \in 1..N : f[n - 1] = g[n - 1] => f[n] = g[n]

LEMMA AgreeAlong ==
  ASSUME NEW N \in Nat, NEW f, NEW g, Follows(f, g, N)
  PROVE  \A n \in 0..N : f[n] = g[n]
<1> DEFINE Differ == {n \in 0..N : f[n] # g[n]}
<1> SUFFICES ASSUME Differ # {} PROVE FALSE
  OBVIOUS
<1>1. PICK m \in Differ : \A n \in Differ : m <= n
  BY LeastNat, Differ \in SUBSET Nat
<1>2. m \in 1..N /\ m - 1 \in 0..N /\ m - 1 \notin Differ
  BY <1>1 DEF Follows
<1> QED
  BY <1>1, <1>2 DEF Follows

LEMMA ConstantFrom ==
  ASSUME NEW N \in Nat, NEW k \in 0..N, NEW f,
         \A n \in k + 1 .. N : f[n] = f[n - 1]
  PROVE  f[N] = f[k]
<1> DEFINE Differ == {n \in k..N : f[n] # f[k]}
<1> SUFFICES ASSUME Differ # {} PROVE FALSE
  OBVIOUS
<1>1. PICK m \in Differ : \A n \in Differ : m <= n
  BY LeastNat, Differ \in SUBSET Nat
<1>2. m \in k + 1 .. N /\ m - 1 \in k..N /\ m - 1 \notin Differ
  BY <1>1
<1> QED
  BY <1>1, <1>2

\* A recursion along 1..N has a solution.
StaysIn(S, N, step) == \A x \in S, n \in 1..N : step[<<x, n>>] \in S

LEMMA RecursionAlong ==
  ASSUME NEW N \in Nat, NEW S, NEW base \in S, NEW step, StaysIn(S, N, step)
  PROVE  \E f \in [0..N -> S] :
            f[0] = base /\ \A n \in 1..N : f[n] = step[<<f[n - 1], n>>]
<1> DEFINE Solves(f, m) ==
      /\ f \in [0..m -> S] /\ f[0] = base
      /\ \A n \in 1..m : f[n] = step[<<f[n - 1], n>>]
    Unsolved == {m \in 0..N : \A f : ~Solves(f, m)}
<1> SUFFICES ASSUME Unsolved # {} PROVE FALSE
  <2>1. N \notin Unsolved
    OBVIOUS
  <2> QED
    BY <2>1
<1>1. PICK m \in Unsolved : \A n \in Unsolved : m <= n
  BY LeastNat, Unsolved \in SUBSET Nat
<1>2. m # 0
  <2>1. Solves([n \in 0..0 |-> base], 0)
    OBVIOUS
  <2> QED
    BY <1>1, <2>1
<1>3. m \in 1..N /\ m - 1 \in 0..N /\ m - 1 \notin Unsolved
  BY <1>1, <1>2
<1>4. PICK f : Solves(f, m - 1)
  BY <1>3
<1> DEFINE g == [n \in 0..m |-> IF n = m THEN step[<<f[m - 1], m>>] ELSE f[n]]
<1>5. g \in [0..m -> S] /\ g[0] = base
  BY <1>3, <1>4 DEF StaysIn
<1>6. ASSUME NEW n \in 1..m PROVE g[n] = step[<<g[n - 1], n>>]
  <2>1. g[n - 1] = f[n - 1]
    BY <1>3
  <2>2. g[n] = IF n = m THEN step[<<f[m - 1], m>>] ELSE f[n]
    BY <1>3
  <2>3. n # m => n \in 1..m - 1
    BY <1>3
  <2> HIDE DEF g
  <2> QED
    BY <1>4, <2>1, <2>2, <2>3
<1> HIDE DEF g
<1>7. Solves(g, m)
  BY <1>5, <1>6
<1> QED
  BY <1>1, <1>7

-----------------------------------------------------------------------------
(***************************************************************************)
(* Sums over finite sets: MapThenSumSet takes the elements in any order.   *)
(***************************************************************************)
AnyOf(s) == CHOOSE x \in s : TRUE

\* how MapThenSumSet adds the weights up
TakesAny(sum, weight, S) ==
  sum = [s \in SUBSET S |->
           IF s = {} THEN 0 ELSE weight[AnyOf(s)] + sum[s \ {AnyOf(s)}]]

\* sum is, for every subset of S, the sum of the weights of its elements
Sums(sum, weight, S) ==
  /\ IsFiniteSet(S) /\ \A x \in S : weight[x] \in Int
  /\ sum \in [SUBSET S -> Int] /\ TakesAny(sum, weight, S)

LEMMA AnyOfIn == \A s : s # {} => AnyOf(s) \in s
BY DEF AnyOf

LEMMA SmallerWithout ==
  ASSUME NEW S, IsFiniteSet(S), NEW s \in SUBSET S, NEW x \in s
  PROVE  /\ Cardinality(s) \in Nat /\ Cardinality(s \ {x}) \in Nat
         /\ Cardinality(s \ {x}) = Cardinality(s) - 1
         /\ s \ {x} \in SUBSET S
<1>1. IsFiniteSet(s)
  BY FS_Subset
<1> QED
  BY <1>1, FS_RemoveElement, FS_CardinalityType

LEMMA SumsExist ==
  ASSUME NEW S, IsFiniteSet(S), NEW weight, \A x \in S : weight[x] \in Int
  PROVE  \E sum : Sums(sum, weight, S)
<1> DEFINE UpTo(n) == {s \in SUBSET S : Cardinality(s) <= n}
           Solves(f, n) ==
             /\ f \in [UpTo(n) -> Int]
             /\ \A s \in UpTo(n) :
                  f[s] = IF s = {} THEN 0
                         ELSE weight[AnyOf(s)] + f[s \ {AnyOf(s)}]
           Unsolved == {n \in Nat : \A f : ~Solves(f, n)}
<1>1. \A s \in SUBSET S : Cardinality(s) \in Nat /\ IsFiniteSet(s)
  BY FS_Subset, FS_CardinalityType
<1>2. ASSUME NEW m \in Nat, NEW f, Solves(f, m) PROVE \E g : Solves(g, m + 1)
  <2> DEFINE g == [s \in UpTo(m + 1) |->
                     IF s \in UpTo(m) THEN f[s]
                     ELSE weight[AnyOf(s)] + f[s \ {AnyOf(s)}]]
  <2>1. \A s \in UpTo(m + 1) :
          s # {} => AnyOf(s) \in S /\ s \ {AnyOf(s)} \in UpTo(m)
    BY AnyOfIn, SmallerWithout
  <2>2. {} \in UpTo(m)
    BY FS_EmptySet
  <2>3. UpTo(m) \subseteq UpTo(m + 1)
    BY <1>1
  <2> HIDE DEF UpTo
  <2>4. \A s \in UpTo(m + 1) :
          g[s] = IF s \in UpTo(m) THEN f[s]
                 ELSE weight[AnyOf(s)] + f[s \ {AnyOf(s)}]
    OBVIOUS
  <2>5. g \in [UpTo(m + 1) -> Int]
    <3>1. \A s \in UpTo(m) : f[s] \in Int
      BY <1>2
    <3>2. \A s \in UpTo(m + 1) : s \notin UpTo(m) =>
            weight[AnyOf(s)] + f[s \ {AnyOf(s)}] \in Int
      <4> SUFFICES ASSUME NEW s \in UpTo(m + 1), s # {}
                   PROVE  weight[AnyOf(s)] + f[s \ {AnyOf(s)}] \in Int
        BY <2>2
      <4>1. weight[AnyOf(s)] \in Int /\ f[s \ {AnyOf(s)}] \in Int
        BY <2>1, <3>1
      <4> QED
        BY <4>1
    <3> QED
      BY <3>1, <3>2
  <2> HIDE DEF g
  <2>6. \A s \in UpTo(m + 1) :
          g[s] = IF s = {} THEN 0 ELSE weight[AnyOf(s)] + g[s \ {AnyOf(s)}]
    BY <1>2, <2>1, <2>2, <2>3, <2>4
  <2> QED
    BY <2>5, <2>6
<1>3. \E f : Solves(f, 0)
  <2>1. UpTo(0) = {{}}
    BY <1>1, FS_EmptySet
  <2>2. Solves([s \in UpTo(0) |-> 0], 0)
    BY <2>1
  <2> QED
    BY <2>2
<1>4. Unsolved = {}
  <2> SUFFICES ASSUME Unsolved # {} PROVE FALSE
    OBVIOUS
  <2> HIDE DEF Solves
  <2>1. PICK m \in Unsolved : \A n \in Unsolved : m <= n
    BY LeastNat, Unsolved \in SUBSET Nat
  <2>2. m # 0
    BY <1>3, <2>1
  <2>3. m - 1 \in Nat /\ m - 1 \notin Unsolved /\ (m - 1) + 1 = m
    BY <2>1, <2>2
  <2>4. PICK f : Solves(f, m - 1)
    BY <2>3
  <2>5. \E g : Solves(g, m)
    BY <1>2, <2>3, <2>4
  <2> QED
    BY <2>1, <2>5
<1>5. Cardinality(S) \in Nat /\ UpTo(Cardinality(S)) = SUBSET S
  BY <1>1, FS_Subset, FS_CardinalityType
<1>6. PICK f : Solves(f, Cardinality(S))
  BY <1>4, <1>5
<1> HIDE DEF UpTo
<1>7. Sums(f, weight, S)
  BY <1>5, <1>6 DEF Sums, TakesAny
<1> QED
  BY <1>7

LEMMA SumsAgree ==
  ASSUME NEW S, NEW f, NEW w, Sums(f, w, S),
         NEW s \in SUBSET S, NEW g, TakesAny(g, w, s)
  PROVE  f[s] = g[s]
<1> DEFINE Differ == {Cardinality(t) : t \in {u \in SUBSET s : f[u] # g[u]}}
<1> SUFFICES ASSUME Differ # {} PROVE FALSE
  OBVIOUS
<1>0. IsFiniteSet(s)
  BY FS_Subset DEF Sums, TakesAny
<1>1. Differ \in SUBSET Nat
  BY <1>0, FS_Subset, FS_CardinalityType
<1>2. PICK m \in Differ : \A n \in Differ : m <= n
  BY <1>1, LeastNat
<1>3. PICK t \in SUBSET s : f[t] # g[t] /\ m = Cardinality(t)
  BY <1>2
<1>4. t # {}
  BY <1>3 DEF Sums, TakesAny
<1>5. AnyOf(t) \in t
  BY <1>4, AnyOfIn
<1>6. /\ t \ {AnyOf(t)} \in SUBSET s /\ Cardinality(t \ {AnyOf(t)}) \in Nat
      /\ Cardinality(t \ {AnyOf(t)}) < m /\ m \in Nat
  BY <1>3, <1>5, SmallerWithout DEF Sums, TakesAny
<1>7. f[t \ {AnyOf(t)}] = g[t \ {AnyOf(t)}]
  BY <1>2, <1>6
<1> QED
  BY <1>3, <1>4, <1>7 DEF Sums, TakesAny

\* Any element may be taken first.
LEMMA SumsRemove ==
  ASSUME NEW S, NEW w, NEW f, Sums(f, w, S),
         NEW s \in SUBSET S, NEW x \in S, x \in s
  PROVE  f[s] = f[s \ {x}] + w[x]
<1> DEFINE Wrong(t) == \E y \in t : f[t] # f[t \ {y}] + w[y]
           Fails == {Cardinality(t) : t \in {u \in SUBSET S : Wrong(u)}}
<1> SUFFICES ASSUME Fails # {} PROVE FALSE
  OBVIOUS
<1>0. /\ IsFiniteSet(S) /\ \A z \in S : w[z] \in Int
      /\ f \in [SUBSET S -> Int]
  BY DEF Sums
<1>1. Fails \in SUBSET Nat
  BY <1>0, FS_Subset, FS_CardinalityType
<1>2. PICK m \in Fails : \A n \in Fails : m <= n
  BY <1>1, LeastNat
<1>3. PICK t \in SUBSET S : Wrong(t) /\ m = Cardinality(t)
  BY <1>2
<1>4. PICK y \in t : f[t] # f[t \ {y}] + w[y]
  BY <1>3
<1> DEFINE c == AnyOf(t)
<1>5. c \in t /\ f[t] = w[c] + f[t \ {c}]
  BY <1>4, AnyOfIn DEF Sums, TakesAny
<1> HIDE DEF c
<1>6. m \in Nat
  BY <1>1, <1>2
<1>7. ASSUME NEW u \in SUBSET S, NEW z \in u, Cardinality(u) \in Nat, Cardinality(u) < m
      PROVE  f[u] = f[u \ {z}] + w[z]
  <2>1. Cardinality(u) \notin Fails
    <3> HIDE DEF Fails
    <3> QED
      BY <1>2, <1>6, <1>7
  <2> QED
    BY <2>1
<1> HIDE DEF Wrong, Fails
<1>8. ASSUME NEW z \in t
      PROVE  /\ t \ {z} \in SUBSET S /\ Cardinality(t \ {z}) \in Nat
             /\ Cardinality(t \ {z}) < m
  BY <1>0, <1>3, <1>6, SmallerWithout
<1>9. CASE y = c
  <2>1. w[c] \in Int /\ f[t \ {c}] \in Int
    BY <1>0, <1>5, <1>8
  <2> QED
    BY <1>4, <1>5, <1>9, <2>1
<1>10. CASE y # c
  <2> DEFINE rest == (t \ {c}) \ {y}
  <2>1. rest = (t \ {y}) \ {c} /\ rest \in SUBSET S
    OBVIOUS
  <2>2. f[t \ {c}] = f[rest] + w[y]
    <3>1. y \in t \ {c}
      BY <1>10
    <3> QED
      BY <1>5, <1>7, <1>8, <3>1
  <2>3. f[t \ {y}] = f[rest] + w[c]
    <3>1. c \in t \ {y}
      BY <1>5, <1>10
    <3> QED
      BY <1>7, <1>8, <2>1, <3>1
  <2>4. f[rest] \in Int /\ w[c] \in Int /\ w[y] \in Int
    BY <1>0, <1>5, <2>1
  <2> HIDE DEF rest
  <2> QED
    BY <1>4, <1>5, <2>2, <2>3, <2>4
<1> QED
  BY <1>9, <1>10

\* Adding an element adds its weight.
LEMMA SumsAdd ==
  ASSUME NEW S, NEW w, NEW f, Sums(f, w, S),
         NEW s \in SUBSET S, NEW x \in S, x \notin s
  PROVE  f[s \cup {x}] = f[s] + w[x]
<1>1. x \in s \cup {x} /\ s \cup {x} \in SUBSET S /\ (s \cup {x}) \ {x} = s
  OBVIOUS
<1>2. \A t \in SUBSET S, y \in S : y \in t => f[t] = f[t \ {y}] + w[y]
  BY SumsRemove
<1> QED
  BY <1>1, <1>2

-----------------------------------------------------------------------------
(***************************************************************************)
(* One log, one receipt, one block                                         *)
(***************************************************************************)
NetsOfAccounts == [Accounts -> Int]

LEMMA LogsTyped ==
  ASSUME NEW r \in ReceiptRecords
  PROVE  LogsOf(r) \in Seq(LogRecords) /\ Len(LogsOf(r)) \in Nat
BY EmptySeq, LenProperties DEF LogsOf, ReceiptRecords

\* what a log adds to an account: what goes in, less what goes out
Gain(log, account) ==
  (IF account = <<UserOf[log.to], TokenAt(log)>> THEN log.data ELSE 0)
  - (IF account = <<UserOf[log.from], TokenAt(log)>> THEN log.data ELSE 0)

LEMMA MoveGains ==
  ASSUME NEW net \in NetsOfAccounts, NEW log \in LogRecords, IsTransfer(log)
  PROVE  /\ Move(net, Delta(log)) \in NetsOfAccounts
         /\ \A a \in Accounts :
              Move(net, Delta(log))[a] = net[a] + Gain(log, a)
<1> DEFINE in == <<UserOf[log.to], TokenAt(log)>>
           out == <<UserOf[log.from], TokenAt(log)>>
<1>1. in \in Accounts /\ out \in Accounts
  <2>1. UserOf[log.to] \in Users /\ UserOf[log.from] \in Users
    BY DEF LogRecords, Users, Range
  <2>2. TokenAt(log) \in Tokens
    BY DEF LogRecords, Tokens, Range, TokenAt
  <2> QED
    BY <2>1, <2>2 DEF Accounts
<1>2. log.data \in Int
  BY DEF LogRecords, Unreadable
<1>3. /\ Delta(log).from = UserOf[log.from] /\ Delta(log).to = UserOf[log.to]
      /\ Delta(log).token = TokenAt(log) /\ Delta(log).amount = log.data
  BY DEF Delta
<1>4. CASE UserOf[log.from] = UserOf[log.to]
  <2>1. Move(net, Delta(log)) = net
    BY <1>3, <1>4 DEF Move
  <2>2. \A a \in Accounts : Gain(log, a) = 0
    BY <1>2, <1>4 DEF Gain
  <2> QED
    BY <2>1, <2>2 DEF NetsOfAccounts
<1>5. CASE UserOf[log.from] # UserOf[log.to]
  <2>1. Move(net, Delta(log)) =
          [[net EXCEPT ![out] = @ + (-log.data)] EXCEPT ![in] = @ + log.data]
    BY <1>3, <1>5 DEF Move, Add
  <2>2. in # out
    BY <1>5
  <2>3. \A a \in Accounts :
          Gain(log, a) = IF a = in THEN log.data
                         ELSE IF a = out THEN -log.data ELSE 0
    BY <1>2, <2>2 DEF Gain
  <2> HIDE DEF in, out
  <2> QED
    BY <1>1, <1>2, <2>1, <2>2, <2>3 DEF NetsOfAccounts
<1> QED
  BY <1>4, <1>5

AddLog(net, log) == IF IsTransfer(log) THEN Move(net, Delta(log)) ELSE net

\* after[n] is the net change after the first n logs
Moves(after, net, logs) ==
  /\ after \in [0..Len(logs) -> NetsOfAccounts] /\ after[0] = net
  /\ \A n \in 1..Len(logs) : after[n] = AddLog(after[n - 1], logs[n])
  /\ MoveAll(net, logs) = after[Len(logs)]

LEMMA MoveAllMoves ==
  ASSUME NEW net \in NetsOfAccounts, NEW logs \in Seq(LogRecords)
  PROVE  \E after : Moves(after, net, logs)
<1> DEFINE N == Len(logs)
           step == [q \in NetsOfAccounts \X (1..N) |-> AddLog(q[1], logs[q[2]])]
<1>1. N \in Nat /\ \A n \in 1..N : logs[n] \in LogRecords
  BY LenProperties, ElementOfSeq
<1> HIDE DEF N
<1>2. \A x \in NetsOfAccounts, n \in 1..N :
        step[<<x, n>>] = AddLog(x, logs[n]) /\ step[<<x, n>>] \in NetsOfAccounts
  BY <1>1, MoveGains DEF AddLog
<1> HIDE DEF step
<1>3. PICK f \in [0..N -> NetsOfAccounts] :
        f[0] = net /\ \A n \in 1..N : f[n] = step[<<f[n - 1], n>>]
  <2>1. StaysIn(NetsOfAccounts, N, step)
    BY <1>2 DEF StaysIn
  <2> QED
    BY <1>1, <2>1, RecursionAlong
<1>4. \A n \in 1..N : f[n] = AddLog(f[n - 1], logs[n])
  <2> SUFFICES ASSUME NEW n \in 1..N PROVE f[n] = AddLog(f[n - 1], logs[n])
    OBVIOUS
  <2>1. f[n - 1] \in NetsOfAccounts
    BY <1>1
  <2> QED
    BY <1>2, <1>3, <2>1
<1> DEFINE Obeys(h) ==
      h = [n \in 0..N |->
             IF n = 0 THEN net
             ELSE IF IsTransfer(logs[n]) THEN Move(h[n - 1], Delta(logs[n]))
             ELSE h[n - 1]]
    chosen == CHOOSE h : Obeys(h)
<1>5. MoveAll(net, logs) = chosen[N]
  BY DEF MoveAll, N
<1>6. Obeys(f)
  BY <1>1, <1>3, <1>4 DEF AddLog
<1>7. Obeys(chosen)
  BY <1>6
<1> HIDE DEF chosen
<1>8. /\ chosen[0] = f[0]
      /\ \A n \in 1..N : chosen[n - 1] = f[n - 1] => chosen[n] = f[n]
  BY <1>1, <1>3, <1>4, <1>7 DEF AddLog
<1>9. chosen[N] = f[N]
  <2>1. \A n \in 0..N : chosen[n] = f[n]
    <3>1. Follows(chosen, f, N)
      BY <1>8 DEF Follows
    <3> QED
      BY <1>1, <3>1, AgreeAlong
  <2> QED
    BY <1>1, <2>1
<1>10. Moves(f, net, logs)
  BY <1>3, <1>4, <1>5, <1>9 DEF Moves, N
<1> QED
  BY <1>10

\* net[i] is the net change after the first i receipts
NetAfter(net, block) ==
  /\ net \in [0..Len(block.receipts) -> NetsOfAccounts]
  /\ net[0] = [account \in Accounts |-> 0]
  /\ \A i \in 1..Len(block.receipts) :
       net[i] = MoveAll(net[i - 1], LogsOf(block.receipts[i]))
  /\ NetChanges(block) = net[Len(block.receipts)]

WellFormed(block) == block.receipts \in Seq(ReceiptRecords)

LEMMA NetChangesNet ==
  ASSUME NEW block, WellFormed(block)
  PROVE  \E net : NetAfter(net, block)
<1> DEFINE N == Len(block.receipts)
           zero == [account \in Accounts |-> 0]
           step == [q \in NetsOfAccounts \X (1..N) |->
                      MoveAll(q[1], LogsOf(block.receipts[q[2]]))]
<1>1. N \in Nat /\ \A n \in 1..N : block.receipts[n] \in ReceiptRecords
  BY LenProperties, ElementOfSeq DEF WellFormed
<1> HIDE DEF N
<1>2. \A x \in NetsOfAccounts, n \in 1..N :
        /\ step[<<x, n>>] = MoveAll(x, LogsOf(block.receipts[n]))
        /\ step[<<x, n>>] \in NetsOfAccounts
  <2> SUFFICES ASSUME NEW x \in NetsOfAccounts, NEW n \in 1..N
               PROVE  /\ step[<<x, n>>] = MoveAll(x, LogsOf(block.receipts[n]))
                      /\ step[<<x, n>>] \in NetsOfAccounts
    OBVIOUS
  <2>1. LogsOf(block.receipts[n]) \in Seq(LogRecords)
    BY <1>1, LogsTyped
  <2>2. PICK after : Moves(after, x, LogsOf(block.receipts[n]))
    BY <2>1, MoveAllMoves
  <2>3. MoveAll(x, LogsOf(block.receipts[n])) \in NetsOfAccounts
    BY <1>1, <2>2, LogsTyped DEF Moves
  <2> QED
    BY <2>3
<1> HIDE DEF step
<1>3. PICK f \in [0..N -> NetsOfAccounts] :
        f[0] = zero /\ \A n \in 1..N : f[n] = step[<<f[n - 1], n>>]
  <2>1. StaysIn(NetsOfAccounts, N, step)
    BY <1>2 DEF StaysIn
  <2>2. zero \in NetsOfAccounts
    BY DEF NetsOfAccounts
  <2> HIDE DEF zero
  <2> QED
    BY <1>1, <2>1, <2>2, RecursionAlong
<1>4. \A n \in 1..N : f[n] = MoveAll(f[n - 1], LogsOf(block.receipts[n]))
  <2> SUFFICES ASSUME NEW n \in 1..N
               PROVE  f[n] = MoveAll(f[n - 1], LogsOf(block.receipts[n]))
    OBVIOUS
  <2>1. f[n - 1] \in NetsOfAccounts
    BY <1>1
  <2> QED
    BY <1>2, <1>3, <2>1
<1> DEFINE Obeys(h) ==
      h = [n \in 0..N |-> IF n = 0 THEN zero
                          ELSE MoveAll(h[n - 1], LogsOf(block.receipts[n]))]
    chosen == CHOOSE h : Obeys(h)
<1>5. NetChanges(block) = chosen[N]
  BY DEF NetChanges, N
<1> HIDE DEF zero
<1>6. Obeys(f)
  BY <1>1, <1>3, <1>4
<1>7. Obeys(chosen)
  BY <1>6
<1> HIDE DEF chosen
<1>8. /\ chosen[0] = f[0]
      /\ \A n \in 1..N : chosen[n - 1] = f[n - 1] => chosen[n] = f[n]
  BY <1>1, <1>3, <1>4, <1>7
<1>9. chosen[N] = f[N]
  <2>1. \A n \in 0..N : chosen[n] = f[n]
    <3>1. Follows(chosen, f, N)
      BY <1>8 DEF Follows
    <3> QED
      BY <1>1, <3>1, AgreeAlong
  <2> QED
    BY <1>1, <2>1
<1>10. NetAfter(f, block)
  BY <1>3, <1>4, <1>5, <1>9 DEF NetAfter, N, zero
<1> QED
  BY <1>10

-----------------------------------------------------------------------------
(***************************************************************************)
(* What the block says                                                     *)
(***************************************************************************)
LEMMA ReceiptAt ==
  ASSUME NEW block, WellFormed(block)
  PROVE  /\ Len(block.receipts) \in Nat
         /\ DOMAIN block.receipts = 1..Len(block.receipts)
         /\ \A i \in 1..Len(block.receipts) :
              /\ block.receipts[i] \in ReceiptRecords
              /\ Len(block.receipts[i].logs) \in Nat
              /\ DOMAIN block.receipts[i].logs = 1..Len(block.receipts[i].logs)
              /\ \A j \in 1..Len(block.receipts[i].logs) :
                   block.receipts[i].logs[j] \in LogRecords
<1>1. /\ Len(block.receipts) \in Nat
      /\ DOMAIN block.receipts = 1..Len(block.receipts)
  BY LenProperties DEF WellFormed
<1>2. ASSUME NEW i \in 1..Len(block.receipts)
      PROVE  block.receipts[i] \in ReceiptRecords
  BY ElementOfSeq DEF WellFormed
<1>3. ASSUME NEW i \in 1..Len(block.receipts)
      PROVE  block.receipts[i].logs \in Seq(LogRecords)
  BY <1>2 DEF ReceiptRecords
<1>4. ASSUME NEW i \in 1..Len(block.receipts)
      PROVE  /\ Len(block.receipts[i].logs) \in Nat
             /\ DOMAIN block.receipts[i].logs = 1..Len(block.receipts[i].logs)
  BY <1>3, LenProperties
<1>5. ASSUME NEW i \in 1..Len(block.receipts),
             NEW j \in 1..Len(block.receipts[i].logs)
      PROVE  block.receipts[i].logs[j] \in LogRecords
  BY <1>3, ElementOfSeq
<1> QED
  BY <1>1, <1>2, <1>4, <1>5

LEMMA PositionOf ==
  ASSUME NEW block, WellFormed(block)
  PROVE  /\ \A i \in 1..Len(block.receipts) :
              \A j \in 1..Len(block.receipts[i].logs) : <<i, j>> \in Positions(block)
         /\ \A p \in Positions(block) :
              /\ p = <<p[1], p[2]>>
              /\ p[1] \in 1..Len(block.receipts)
              /\ p[2] \in 1..Len(block.receipts[p[1]].logs)
<1>1. ASSUME NEW i \in 1..Len(block.receipts),
             NEW j \in 1..Len(block.receipts[i].logs)
      PROVE  <<i, j>> \in Positions(block)
  BY ReceiptAt DEF Positions
<1>2. ASSUME NEW p \in Positions(block)
      PROVE  /\ p = <<p[1], p[2]>>
             /\ p[1] \in 1..Len(block.receipts)
             /\ p[2] \in 1..Len(block.receipts[p[1]].logs)
  <2>1. PICK i \in DOMAIN block.receipts :
          p \in {<<i, j>> : j \in DOMAIN block.receipts[i].logs}
    BY DEF Positions
  <2>2. PICK j \in DOMAIN block.receipts[i].logs : p = <<i, j>>
    BY <2>1
  <2> QED
    BY <2>1, <2>2, ReceiptAt
<1> QED
  BY <1>1, <1>2

LEMMA PositionsFinite ==
  ASSUME NEW block, WellFormed(block)
  PROVE  IsFiniteSet(Positions(block))
<1> DEFINE N == Len(block.receipts)
           Rows(m) == {p \in Positions(block) : p[1] <= m}
           Bad == {m \in 0..N : ~IsFiniteSet(Rows(m))}
<1>1. N \in Nat /\ \A i \in 1..N : Len(block.receipts[i].logs) \in Nat
  BY ReceiptAt
<1>2. \A p \in Positions(block) : p[1] \in 1..N
  BY PositionOf
<1>3. ASSUME NEW i \in 1..N
      PROVE  /\ IsFiniteSet({i} \X (1..Len(block.receipts[i].logs)))
             /\ Rows(i) \subseteq Rows(i - 1) \cup
                   ({i} \X (1..Len(block.receipts[i].logs)))
  <2>1. IsFiniteSet({i}) /\ IsFiniteSet(1..Len(block.receipts[i].logs))
    <3>1. Len(block.receipts[i].logs) \in Int /\ 1 \in Int
      BY <1>1
    <3>2. IsFiniteSet(1..Len(block.receipts[i].logs))
      BY <3>1, FS_Interval, Zenon
    <3> QED
      BY <3>2, FS_Singleton
  <2>2. ASSUME NEW p \in Rows(i), p \notin Rows(i - 1)
        PROVE  p \in {i} \X (1..Len(block.receipts[i].logs))
    <3>1. p[1] \in 1..N /\ i \in 1..N
      BY <1>2
    <3>2. p[1] = i
      BY <1>1, <2>2, <3>1
    <3> QED
      BY <2>2, <3>2, PositionOf
  <2> QED
    BY <2>1, <2>2, FS_Product
<1>4. Rows(0) = {}
  BY <1>1, <1>2
<1>5. Rows(N) = Positions(block)
  BY <1>1, <1>2
<1> HIDE DEF N, Rows
<1>6. Bad = {}
  <2> SUFFICES ASSUME Bad # {} PROVE FALSE
    OBVIOUS
  <2>1. PICK m \in Bad : \A n \in Bad : m <= n
    BY <1>1, LeastNat, Bad \in SUBSET Nat
  <2>2. m # 0
    BY <1>4, <2>1, FS_EmptySet
  <2>3. m \in 1..N /\ m - 1 \in 0..N /\ m - 1 \notin Bad
    BY <1>1, <2>1, <2>2
  <2>4. IsFiniteSet(Rows(m - 1) \cup ({m} \X (1..Len(block.receipts[m].logs))))
    BY <1>3, <2>3, FS_Union
  <2>5. IsFiniteSet(Rows(m))
    BY <1>3, <2>3, <2>4, FS_Subset
  <2> QED
    BY <2>1, <2>5
<1> QED
  BY <1>1, <1>5, <1>6

\* the positions in receipts before i, and in i up to log j
UpTo(block, i, j) ==
  {p \in Positions(block) : p[1] < i \/ (p[1] = i /\ p[2] <= j)}

LEMMA UpToGrows ==
  ASSUME NEW block, WellFormed(block), NEW i \in 1..Len(block.receipts),
         NEW j \in 1..Len(block.receipts[i].logs)
  PROVE  /\ <<i, j>> \in Positions(block)
         /\ <<i, j>> \notin UpTo(block, i, j - 1)
         /\ \A p : p \in UpTo(block, i, j) <=>
                   p \in UpTo(block, i, j - 1) \/ p = <<i, j>>
<1>1. <<i, j>> \in Positions(block) /\ i \in Int /\ j \in Int
  BY PositionOf, ReceiptAt
<1>2. \A p \in Positions(block) :
        p = <<p[1], p[2]>> /\ p[1] \in Int /\ p[2] \in Int
  BY PositionOf, ReceiptAt
<1>3. <<i, j>>[1] = i /\ <<i, j>>[2] = j
  OBVIOUS
<1>4. \A p \in Positions(block) :
        p \in UpTo(block, i, j) <=> p \in UpTo(block, i, j - 1) \/ p = <<i, j>>
  BY <1>1, <1>2 DEF UpTo
<1> QED
  BY <1>1, <1>3, <1>4 DEF UpTo

LEMMA UpToEnds ==
  ASSUME NEW block, WellFormed(block)
  PROVE  /\ UpTo(block, 1, 0) = {}
         /\ UpTo(block, Len(block.receipts) + 1, 0) = Positions(block)
         /\ \A i \in 1..Len(block.receipts) :
              UpTo(block, i, Len(block.receipts[i].logs)) = UpTo(block, i + 1, 0)
<1>1. /\ Len(block.receipts) \in Nat
      /\ \A p \in Positions(block) :
           /\ p[1] \in 1..Len(block.receipts)
           /\ p[2] \in Int /\ p[2] > 0
           /\ p[2] <= Len(block.receipts[p[1]].logs)
  BY PositionOf, ReceiptAt
<1>2. ASSUME NEW i \in 1..Len(block.receipts)
      PROVE  UpTo(block, i, Len(block.receipts[i].logs)) = UpTo(block, i + 1, 0)
  BY <1>1, <1>2 DEF UpTo
<1> QED
  BY <1>1, <1>2 DEF UpTo

-----------------------------------------------------------------------------
(***************************************************************************)
(* The parser keeps the book the block describes.                          *)
(***************************************************************************)
\* what the transfers among these positions add to the account
Booked(sum, block, account, positions) ==
  sum[Side(block, account, "to") \cap positions]
  - sum[Side(block, account, "from") \cap positions]

\* only the amounts of transfers matter, and those are numbers
Movements(block) == {p \in Positions(block) : Counts(block, p)}

LEMMA MovementsCount ==
  ASSUME NEW block, WellFormed(block)
  PROVE  /\ IsFiniteSet(Movements(block))
         /\ \A p \in Movements(block) : AmountAt(block, p) \in Int
         /\ \A a \in Accounts, side \in {"to", "from"} :
              Side(block, a, side) \subseteq Movements(block)
<1>1. IsFiniteSet(Movements(block))
  BY PositionsFinite, FS_Subset DEF Movements
<1>2. ASSUME NEW p \in Movements(block) PROVE AmountAt(block, p) \in Int
  <2>1. block.receipts[p[1]].logs[p[2]] \in LogRecords
    BY PositionOf, ReceiptAt DEF Movements
  <2> QED
    BY <2>1 DEF AmountAt, LogRecords, Unreadable
<1>3. ASSUME NEW a \in Accounts, NEW side \in {"to", "from"}
      PROVE  Side(block, a, side) \subseteq Movements(block)
  BY DEF Side, Movements
<1> QED
  BY <1>1, <1>2, <1>3

\* The sum over a side is the sum of the comparison.
LEMMA SideSums ==
  ASSUME NEW block, NEW M, NEW sum,
         Sums(sum, [p \in M |-> AmountAt(block, p)], M),
         NEW s \in SUBSET M
  PROVE  Amount(block, s) = sum[s]
<1> DEFINE w == [p \in M |-> AmountAt(block, p)]
           Obeys(h) ==
             h = [t \in SUBSET s |->
                    IF t = {} THEN 0
                    ELSE AmountAt(block, AnyOf(t)) + h[t \ {AnyOf(t)}]]
           chosen == CHOOSE h : Obeys(h)
<1>1. Amount(block, s) = chosen[s]
  BY DEF Amount, MapThenSumSet, MapThenFoldSet, AnyOf
<1>2. \A p \in s : w[p] = AmountAt(block, p)
  OBVIOUS
<1>3. Sums(sum, w, M)
  OBVIOUS
<1> HIDE DEF w
<1>4. IsFiniteSet(s) /\ \A p \in s : w[p] \in Int
  BY <1>3, FS_Subset DEF Sums
<1>5. PICK f : Sums(f, w, s)
  BY <1>4, SumsExist
<1>6. \A t \in SUBSET s : t # {} => AnyOf(t) \in s
  BY AnyOfIn
<1>7. Obeys(f)
  BY <1>2, <1>5, <1>6 DEF Sums, TakesAny
<1>8. Obeys(chosen)
  BY <1>7
<1> HIDE DEF chosen
<1>9. TakesAny(chosen, w, s)
  BY <1>2, <1>6, <1>8 DEF TakesAny
<1> QED
  BY <1>1, <1>3, <1>9, SumsAgree

\* One log adds its gain to what is booked.
LEMMA BookedGrows ==
  ASSUME NEW block, WellFormed(block), NEW a \in Accounts,
         NEW sum, Sums(sum, [p \in Movements(block) |-> AmountAt(block, p)],
                       Movements(block)),
         NEW i \in 1..Len(block.receipts), NEW j \in 1..Len(block.receipts[i].logs)
  PROVE  Booked(sum, block, a, UpTo(block, i, j)) =
           Booked(sum, block, a, UpTo(block, i, j - 1)) +
             (IF Counts(block, <<i, j>>)
              THEN Gain(block.receipts[i].logs[j], a) ELSE 0)
<1> DEFINE w == [p \in Movements(block) |-> AmountAt(block, p)]
           M == Movements(block)
           old == UpTo(block, i, j - 1)
           log == block.receipts[i].logs[j]
<1>0. /\ <<i, j>> \in Positions(block) /\ <<i, j>> \notin old
      /\ UpTo(block, i, j) = old \cup {<<i, j>>}
  <2> HIDE DEF old
  <2>1. <<i, j>> \in Positions(block)
    BY UpToGrows
  <2>2. <<i, j>> \notin UpTo(block, i, j - 1)
    BY UpToGrows
  <2>3. \A p : p \in UpTo(block, i, j) <=>
                p \in UpTo(block, i, j - 1) \/ p = <<i, j>>
    BY UpToGrows
  <2> QED
    BY <2>1, <2>2, <2>3 DEF old
<1>1. ASSUME NEW side \in {"to", "from"}
      PROVE  /\ sum[Side(block, a, side) \cap UpTo(block, i, j)] =
                  sum[Side(block, a, side) \cap old] +
                    (IF <<i, j>> \in Side(block, a, side) THEN log.data ELSE 0)
             /\ sum[Side(block, a, side) \cap old] \in Int
  <2> DEFINE side0 == Side(block, a, side) \cap old
  <2>1. side0 \in SUBSET M /\ <<i, j>> \notin side0
    BY UpToGrows, MovementsCount
  <2>2. sum[side0] \in Int
    BY <2>1 DEF Sums
  <2>3. CASE <<i, j>> \in Side(block, a, side)
    <3>1. Side(block, a, side) \cap UpTo(block, i, j) = side0 \cup {<<i, j>>}
      <4> HIDE DEF old
      <4> QED
        BY <1>0, <2>3
    <3>2. <<i, j>> \in M /\ w[<<i, j>>] = log.data
      BY <2>3, MovementsCount DEF AmountAt
    <3>3. sum[side0 \cup {<<i, j>>}] = sum[side0] + w[<<i, j>>]
      <4> HIDE DEF side0, w, M
      <4>1. Sums(sum, w, M)
        BY DEF w, M
      <4> QED
        BY <2>1, <3>2, <4>1, SumsAdd
    <3> QED
      BY <2>2, <2>3, <3>1, <3>2, <3>3
  <2>4. CASE <<i, j>> \notin Side(block, a, side)
    <3>1. Side(block, a, side) \cap UpTo(block, i, j) = side0
      <4> HIDE DEF old
      <4> QED
        BY <1>0, <2>4
    <3> HIDE DEF side0
    <3>2. sum[side0] = sum[side0] + 0
      BY <2>2
    <3> QED
      BY <2>2, <2>4, <3>1, <3>2 DEF side0
  <2> QED
    BY <2>3, <2>4
<1>2. /\ <<i, j>> \in Side(block, a, "to") <=>
           Counts(block, <<i, j>>) /\ a = <<UserOf[log.to], TokenAt(log)>>
      /\ <<i, j>> \in Side(block, a, "from") <=>
           Counts(block, <<i, j>>) /\ a = <<UserOf[log.from], TokenAt(log)>>
  BY <1>0 DEF Side
<1>3. Counts(block, <<i, j>>) => log.data \in Int
  <2>1. log \in LogRecords
    BY ReceiptAt
  <2> QED
    BY <2>1 DEF LogRecords, Unreadable
<1> HIDE DEF log, old
<1>4. /\ sum[Side(block, a, "to") \cap UpTo(block, i, j)] =
           sum[Side(block, a, "to") \cap old] +
             (IF <<i, j>> \in Side(block, a, "to") THEN log.data ELSE 0)
      /\ sum[Side(block, a, "from") \cap UpTo(block, i, j)] =
           sum[Side(block, a, "from") \cap old] +
             (IF <<i, j>> \in Side(block, a, "from") THEN log.data ELSE 0)
      /\ sum[Side(block, a, "to") \cap old] \in Int
      /\ sum[Side(block, a, "from") \cap old] \in Int
  BY <1>1
<1>5. Booked(sum, block, a, UpTo(block, i, j)) =
        Booked(sum, block, a, old) +
          (IF Counts(block, <<i, j>>) THEN Gain(log, a) ELSE 0)
  BY <1>2, <1>3, <1>4 DEF Booked, Gain
<1> QED
  BY <1>5 DEF log, old

\* One receipt adds what its logs say, or nothing if it does not count.
LEMMA ReceiptAdds ==
  ASSUME NEW block, WellFormed(block), NEW a \in Accounts,
         NEW sum, Sums(sum, [p \in Movements(block) |-> AmountAt(block, p)],
                       Movements(block)),
         NEW i \in 1..Len(block.receipts), NEW net \in NetsOfAccounts
  PROVE  MoveAll(net, LogsOf(block.receipts[i]))[a] =
           net[a] + Booked(sum, block, a, UpTo(block, i + 1, 0))
                  - Booked(sum, block, a, UpTo(block, i, 0))
<1> DEFINE r == block.receipts[i]
           B(j) == Booked(sum, block, a, UpTo(block, i, j))
<1>1. /\ r \in ReceiptRecords /\ Len(r.logs) \in Nat /\ r.logs \in Seq(LogRecords)
      /\ \A j \in 1..Len(r.logs) : r.logs[j] \in LogRecords
  BY ReceiptAt DEF ReceiptRecords
<1>2. \A j \in Nat : B(j) \in Int
  BY MovementsCount DEF Booked, Sums
<1>3. B(Len(r.logs)) = Booked(sum, block, a, UpTo(block, i + 1, 0))
  BY UpToEnds
<1>4. \A j \in 1..Len(r.logs) :
        B(j) = B(j - 1) + (IF Counts(block, <<i, j>>) THEN Gain(r.logs[j], a) ELSE 0)
  BY BookedGrows
<1>5. \A j : Counts(block, <<i, j>>) <=>
               r.dict /\ r.status # "failed" /\ r.listed /\ IsTransfer(r.logs[j])
  BY <1>1 DEF Counts, ReceiptRecords
<1>6. net[a] \in Int
  BY DEF NetsOfAccounts
<1> HIDE DEF r, B
<1>7. CASE r.dict /\ r.status # "failed" /\ r.listed
  <2>1. LogsOf(r) = r.logs
    BY <1>7 DEF LogsOf
  <2>2. PICK after : Moves(after, net, r.logs)
    BY <1>1, MoveAllMoves
  <2>3. ASSUME NEW n \in 1..Len(r.logs)
        PROVE  after[n][a] = after[n - 1][a] + (B(n) - B(n - 1))
               /\ after[n][a] \in Int /\ after[n - 1][a] \in Int
    <3>0. n \in 0..Len(r.logs) /\ n - 1 \in 0..Len(r.logs)
      BY <1>1
    <3>1. after[n] \in NetsOfAccounts /\ after[n - 1] \in NetsOfAccounts
      <4>1. after \in [0..Len(r.logs) -> NetsOfAccounts]
        BY <2>2 DEF Moves
      <4> QED
        BY <3>0, <4>1
    <3>2. after[n] = AddLog(after[n - 1], r.logs[n])
      BY <2>2 DEF Moves
    <3>3. after[n - 1][a] \in Int /\ after[n][a] \in Int
      BY <3>1 DEF NetsOfAccounts
    <3>4. B(n) \in Int /\ B(n - 1) \in Int
      BY <1>1, <1>2
    <3>5. CASE IsTransfer(r.logs[n])
      <4>1. after[n][a] = after[n - 1][a] + Gain(r.logs[n], a)
        BY <1>1, <3>1, <3>2, <3>5, MoveGains DEF AddLog
      <4>2. B(n) = B(n - 1) + Gain(r.logs[n], a)
        BY <1>4, <1>5, <1>7, <3>5
      <4>3. Gain(r.logs[n], a) \in Int
        BY <1>1 DEF Gain, LogRecords, Unreadable
      <4> QED
        BY <3>3, <3>4, <4>1, <4>2, <4>3
    <3>6. CASE ~IsTransfer(r.logs[n])
      <4>1. after[n][a] = after[n - 1][a]
        BY <3>2, <3>6 DEF AddLog
      <4>2. B(n) = B(n - 1)
        <5>1. ~Counts(block, <<i, n>>)
          BY <1>5, <3>6
        <5>2. B(n) = B(n - 1) + 0
          BY <1>4, <5>1
        <5> QED
          BY <3>4, <5>2
      <4> QED
        BY <3>3, <3>4, <4>1, <4>2
    <3> QED
      BY <3>5, <3>6
  <2> DEFINE f == [n \in 0..Len(r.logs) |-> after[n][a]]
             g == [n \in 0..Len(r.logs) |-> net[a] + (B(n) - B(0))]
  <2>4. \A n \in 0..Len(r.logs) :
          f[n] = after[n][a] /\ g[n] = net[a] + (B(n) - B(0))
    OBVIOUS
  <2>5. f[0] = g[0]
    <3>1. f[0] = net[a]
      BY <1>1, <2>2, <2>4 DEF Moves
    <3>2. g[0] = net[a] + (B(0) - B(0)) /\ B(0) \in Int
      BY <1>1, <1>2, <2>4
    <3> HIDE DEF f, g
    <3> QED
      BY <1>6, <3>1, <3>2
  <2> HIDE DEF f, g
  <2>6. ASSUME NEW n \in 1..Len(r.logs), f[n - 1] = g[n - 1] PROVE f[n] = g[n]
    <3>1. /\ n \in 0..Len(r.logs) /\ n - 1 \in 0..Len(r.logs)
          /\ B(n) \in Int /\ B(n - 1) \in Int /\ B(0) \in Int
      BY <1>1, <1>2
    <3>2. /\ f[n] = after[n - 1][a] + (B(n) - B(n - 1)) /\ after[n - 1][a] \in Int
          /\ f[n - 1] = after[n - 1][a] /\ g[n - 1] = net[a] + (B(n - 1) - B(0))
          /\ g[n] = net[a] + (B(n) - B(0))
      BY <2>3, <2>4, <3>1
    <3> QED
      <4>1. after[n - 1][a] = net[a] + (B(n - 1) - B(0))
        BY <2>6, <3>2
      <4>2. (net[a] + (B(n - 1) - B(0))) + (B(n) - B(n - 1)) = net[a] + (B(n) - B(0))
        BY <1>6, <3>1
      <4> QED
        BY <3>2, <4>1, <4>2
  <2>7. Follows(f, g, Len(r.logs))
    BY <2>5, <2>6 DEF Follows
  <2>8. f[Len(r.logs)] = g[Len(r.logs)]
    BY <1>1, <2>7, AgreeAlong
  <2>9. MoveAll(net, r.logs)[a] = net[a] + (B(Len(r.logs)) - B(0))
    BY <1>1, <2>2, <2>4, <2>8 DEF Moves
  <2>10. MoveAll(net, r.logs)[a] = net[a] + B(Len(r.logs)) - B(0)
    BY <1>1, <1>2, <1>6, <2>9
  <2> QED
    BY <1>3, <2>1, <2>10 DEF B, r
<1>8. CASE ~(r.dict /\ r.status # "failed" /\ r.listed)
  <2>1. LogsOf(r) = <<>>
    BY <1>8 DEF LogsOf
  <2>2. MoveAll(net, <<>>) = net
    <3>1. PICK after : Moves(after, net, <<>>)
      BY MoveAllMoves, EmptySeq
    <3> QED
      BY <3>1, EmptySeq DEF Moves
  <2>3. \A n \in 1..Len(r.logs) : B(n) = B(n - 1)
    <3> SUFFICES ASSUME NEW n \in 1..Len(r.logs) PROVE B(n) = B(n - 1)
      OBVIOUS
    <3>1. B(n - 1) \in Int
      BY <1>1, <1>2
    <3>2. ~Counts(block, <<i, n>>)
      BY <1>5, <1>8
    <3>3. B(n) = B(n - 1) + 0
      BY <1>4, <3>2
    <3> QED
      BY <3>1, <3>3
  <2> DEFINE f == [n \in 0..Len(r.logs) |-> B(n)]
             g == [n \in 0..Len(r.logs) |-> B(0)]
  <2>4. \A n \in 0..Len(r.logs) : f[n] = B(n) /\ g[n] = B(0)
    OBVIOUS
  <2> HIDE DEF f, g
  <2>5. Follows(f, g, Len(r.logs))
    BY <1>1, <2>3, <2>4 DEF Follows
  <2>6. B(Len(r.logs)) = B(0) /\ B(0) \in Int
    <3>1. \A n \in 0..Len(r.logs) : f[n] = g[n]
      BY <1>1, <2>5, AgreeAlong
    <3> QED
      BY <1>1, <1>2, <2>4, <3>1
  <2>7. MoveAll(net, LogsOf(r))[a] = net[a] + B(Len(r.logs)) - B(0)
    BY <1>6, <2>1, <2>2, <2>6
  <2> QED
    BY <1>3, <2>7 DEF B, r
<1> QED
  BY <1>7, <1>8

\* For every account, the net change is what comes in less what goes out.
THEOREM ParserIsRight ==
  ASSUME NEW block, WellFormed(block), NEW a \in Accounts
  PROVE  NetChanges(block)[a] = Received(block, a)
<1> DEFINE N == Len(block.receipts)
           M == Movements(block)
<1>1. PICK sum : Sums(sum, [p \in M |-> AmountAt(block, p)], M)
  BY MovementsCount, SumsExist
<1>2. PICK net : NetAfter(net, block)
  BY NetChangesNet
<1> DEFINE B(i) == Booked(sum, block, a, UpTo(block, i + 1, 0))
           f == [i \in 0..N |-> net[i][a]]
           g == [i \in 0..N |-> B(i)]
<1>3. N \in Nat
  BY ReceiptAt
<1>4. \A i \in 0..N : B(i) \in Int
  BY <1>1, MovementsCount DEF Booked, Sums
<1>5. B(0) = 0
  <2>1. UpTo(block, 0 + 1, 0) = {}
    BY UpToEnds
  <2>2. sum[{}] = 0
    BY <1>1 DEF Sums, TakesAny
  <2> QED
    BY <2>1, <2>2 DEF Booked
<1>6. \A i \in 1..N : net[i][a] = net[i - 1][a] + B(i) - B(i - 1)
  <2> SUFFICES ASSUME NEW i \in 1..N
               PROVE  net[i][a] = net[i - 1][a] + B(i) - B(i - 1)
    OBVIOUS
  <2>1. /\ net[i - 1] \in NetsOfAccounts
        /\ net[i] = MoveAll(net[i - 1], LogsOf(block.receipts[i]))
    BY <1>2, <1>3 DEF NetAfter
  <2>2. (i - 1) + 1 = i
    BY <1>3
  <2> QED
    BY <1>1, <2>1, <2>2, ReceiptAdds
<1>7. B(N) = Received(block, a)
  <2>1. UpTo(block, N + 1, 0) = Positions(block)
    BY UpToEnds
  <2>2. ASSUME NEW side \in {"to", "from"}
        PROVE  /\ Side(block, a, side) \in SUBSET M
               /\ Side(block, a, side) \cap Positions(block) = Side(block, a, side)
    BY MovementsCount DEF Side
  <2>3. ASSUME NEW side \in {"to", "from"}
        PROVE  Amount(block, Side(block, a, side)) = sum[Side(block, a, side)]
    BY <1>1, <2>2, SideSums
  <2> QED
    BY <2>1, <2>2, <2>3 DEF Booked, Received
<1>8. \A i \in 0..N : f[i] = net[i][a] /\ g[i] = B(i)
  OBVIOUS
<1>9. net[0][a] = 0 /\ NetChanges(block) = net[N]
  BY <1>2 DEF NetAfter
<1> HIDE DEF f, g, B, N
<1>10. Follows(f, g, N)
  <2>1. f[0] = g[0]
    BY <1>3, <1>5, <1>8, <1>9
  <2>2. ASSUME NEW i \in 1..N, f[i - 1] = g[i - 1] PROVE f[i] = g[i]
    <3>1. i \in 0..N /\ i - 1 \in 0..N /\ B(i) \in Int /\ B(i - 1) \in Int
      BY <1>3, <1>4
    <3> QED
      BY <1>6, <1>8, <2>2, <3>1
  <2> QED
    BY <2>1, <2>2 DEF Follows
<1>11. f[N] = g[N]
  BY <1>3, <1>10, AgreeAlong
<1> QED
  BY <1>3, <1>7, <1>8, <1>9, <1>11

-----------------------------------------------------------------------------
(***************************************************************************)
(* Conservation: a transfer takes from one user what it gives another.     *)
(***************************************************************************)
\* Smaller weights have a smaller sum.
LEMMA SumsGrow ==
  ASSUME NEW S, NEW v, NEW w, NEW f, NEW g, Sums(f, v, S), Sums(g, w, S),
         \A x \in S : v[x] <= w[x]
  PROVE  \A s \in SUBSET S : f[s] <= g[s]
<1> DEFINE Fails == {Cardinality(t) : t \in {u \in SUBSET S : ~(f[u] <= g[u])}}
<1> SUFFICES ASSUME Fails # {} PROVE FALSE
  OBVIOUS
<1>1. /\ IsFiniteSet(S) /\ \A x \in S : v[x] \in Int /\ w[x] \in Int
      /\ \A t \in SUBSET S : f[t] \in Int /\ g[t] \in Int
  BY DEF Sums
<1>2. Fails \in SUBSET Nat
  BY <1>1, FS_Subset, FS_CardinalityType
<1>3. PICK m \in Fails : \A n \in Fails : m <= n
  BY <1>2, LeastNat
<1>4. PICK t \in SUBSET S : ~(f[t] <= g[t]) /\ m = Cardinality(t)
  BY <1>3
<1>5. f[{}] = 0 /\ g[{}] = 0
  BY DEF Sums, TakesAny
<1> DEFINE c == AnyOf(t)
<1>6. c \in t /\ c \in S
  BY <1>4, <1>5, AnyOfIn
<1>7. f[t] = v[c] + f[t \ {c}] /\ g[t] = w[c] + g[t \ {c}]
  BY <1>6 DEF Sums, TakesAny
<1> HIDE DEF c
<1>8. /\ t \ {c} \in SUBSET S /\ Cardinality(t \ {c}) \in Nat
      /\ Cardinality(t \ {c}) < m
  BY <1>1, <1>2, <1>3, <1>4, <1>6, SmallerWithout
<1>9. f[t \ {c}] <= g[t \ {c}]
  <2>1. Cardinality(t \ {c}) \notin Fails
    <3> HIDE DEF Fails
    <3> QED
      BY <1>2, <1>3, <1>8
  <2> QED
    BY <1>8, <2>1
<1>10. /\ f[t \ {c}] \in Int /\ g[t \ {c}] \in Int /\ v[c] \in Int /\ w[c] \in Int
       /\ v[c] <= w[c]
  BY <1>1, <1>6, <1>8
<1> QED
  BY <1>4, <1>7, <1>9, <1>10

\* Nothing sums up to nothing.
LEMMA SumsNothing ==
  ASSUME NEW S, NEW w, NEW f, Sums(f, w, S), NEW s \in SUBSET S,
         \A x \in s : w[x] = 0
  PROVE  f[s] = 0
<1> DEFINE g == [t \in SUBSET s |-> 0]
<1>1. \A t \in SUBSET s : t # {} => AnyOf(t) \in s
  BY AnyOfIn
<1>2. TakesAny(g, w, s)
  BY <1>1 DEF TakesAny
<1>3. f[s] = g[s]
  BY <1>2, SumsAgree
<1> QED
  BY <1>3

\* Weights that are added have sums that are added.
LEMMA SumsPlus ==
  ASSUME NEW S, NEW v, NEW n, NEW w, NEW f, NEW h, Sums(f, v, S), Sums(h, n, S),
         \A x \in S : w[x] = v[x] + n[x]
  PROVE  \E g : Sums(g, w, S) /\ \A s \in SUBSET S : g[s] = f[s] + h[s]
<1> DEFINE g == [s \in SUBSET S |-> f[s] + h[s]]
<1>1. /\ IsFiniteSet(S) /\ \A x \in S : v[x] \in Int /\ n[x] \in Int /\ w[x] \in Int
      /\ \A s \in SUBSET S : f[s] \in Int /\ h[s] \in Int
  BY DEF Sums
<1>2. g \in [SUBSET S -> Int] /\ \A s \in SUBSET S : g[s] = f[s] + h[s]
  BY <1>1
<1>3. ASSUME NEW s \in SUBSET S
      PROVE  g[s] = IF s = {} THEN 0 ELSE w[AnyOf(s)] + g[s \ {AnyOf(s)}]
  <2>1. CASE s = {}
    <3>1. f[{}] = 0 /\ h[{}] = 0
      BY DEF Sums, TakesAny
    <3> QED
      BY <1>2, <2>1, <3>1
  <2>2. CASE s # {}
    <3> DEFINE c == AnyOf(s)
    <3>1. c \in S /\ s \ {c} \in SUBSET S
      BY <2>2, AnyOfIn
    <3>2. f[s] = v[c] + f[s \ {c}] /\ h[s] = n[c] + h[s \ {c}]
      BY <2>2 DEF Sums, TakesAny
    <3>3. g[s] = f[s] + h[s] /\ g[s \ {c}] = f[s \ {c}] + h[s \ {c}]
      BY <1>2, <3>1
    <3>4. w[c] = v[c] + n[c]
      BY <3>1
    <3>5. /\ v[c] \in Int /\ n[c] \in Int
          /\ f[s \ {c}] \in Int /\ h[s \ {c}] \in Int
      BY <1>1, <3>1
    <3>6. g[s] = w[c] + g[s \ {c}]
      <4> HIDE DEF c, g
      <4> QED
        BY <3>2, <3>3, <3>4, <3>5
    <3> QED
      BY <2>2, <3>6
  <2> QED
    BY <2>1, <2>2
<1>4. TakesAny(g, w, S)
  BY <1>3 DEF TakesAny
<1>5. Sums(g, w, S)
  BY <1>1, <1>2, <1>4 DEF Sums
<1> QED
  BY <1>2, <1>5

LEMMA UsersFinite == IsFiniteSet(Users)
<1> DEFINE f == [t \in DOMAIN UserOf |-> UserOf[t]]
<1>1. f \in Surjection(DOMAIN UserOf, Users)
  BY DEF Surjection, Users, Range
<1> HIDE DEF f
<1> QED
  BY <1>1, ParserAssumption, FS_Surjection

\* what each user holds of a token
Holdings(held, token) == [user \in Users |-> held[<<user, token>>]]

LEMMA TokenSums ==
  ASSUME NEW held, NEW token, NEW sum, Sums(sum, Holdings(held, token), Users)
  PROVE  TokenSum(held, token) = sum[Users]
<1> DEFINE w == Holdings(held, token)
           Obeys(h) ==
             h = [s \in SUBSET Users |->
                    IF s = {} THEN 0
                    ELSE held[<<AnyOf(s), token>>] + h[s \ {AnyOf(s)}]]
           chosen == CHOOSE h : Obeys(h)
<1>1. TokenSum(held, token) = chosen[Users]
  BY DEF TokenSum, MapThenSumSet, MapThenFoldSet, AnyOf
<1>2. \A user \in Users : w[user] = held[<<user, token>>]
  BY DEF Holdings
<1>3. Sums(sum, w, Users)
  OBVIOUS
<1> HIDE DEF w
<1>4. \A s \in SUBSET Users : s # {} => AnyOf(s) \in Users
  BY AnyOfIn
<1>5. Obeys(sum)
  BY <1>2, <1>3, <1>4 DEF Sums, TakesAny
<1>6. Obeys(chosen)
  BY <1>5
<1> HIDE DEF chosen
<1>7. TakesAny(chosen, w, Users)
  BY <1>2, <1>4, <1>6 DEF TakesAny
<1> QED
  BY <1>1, <1>3, <1>7, SumsAgree

LEMMA HoldingsSum ==
  ASSUME NEW held \in NetsOfAccounts, NEW token \in Tokens
  PROVE  \E sum : Sums(sum, Holdings(held, token), Users)
<1>1. \A user \in Users : Holdings(held, token)[user] \in Int
  BY DEF Holdings, NetsOfAccounts, Accounts
<1> QED
  BY <1>1, UsersFinite, SumsExist

LEMMA TokenSumTyped ==
  ASSUME NEW held \in NetsOfAccounts, NEW token \in Tokens
  PROVE  TokenSum(held, token) \in Int
<1>1. PICK sum : Sums(sum, Holdings(held, token), Users)
  BY HoldingsSum
<1>2. sum[Users] \in Int
  BY <1>1 DEF Sums
<1> QED
  BY <1>1, <1>2, TokenSums

\* What changes the holdings by net changes their sum by that of net.
LEMMA TokenSumPlus ==
  ASSUME NEW old \in NetsOfAccounts, NEW net \in NetsOfAccounts,
         NEW new \in NetsOfAccounts, NEW token \in Tokens,
         \A a \in Accounts : new[a] = old[a] + net[a]
  PROVE  /\ TokenSum(new, token) = TokenSum(old, token) + TokenSum(net, token)
         /\ TokenSum(old, token) \in Int
<1>1. PICK f : Sums(f, Holdings(old, token), Users)
  BY HoldingsSum
<1>2. PICK h : Sums(h, Holdings(net, token), Users)
  BY HoldingsSum
<1>3. \A user \in Users :
        Holdings(new, token)[user] =
          Holdings(old, token)[user] + Holdings(net, token)[user]
  BY DEF Holdings, Accounts
<1>4. PICK g : /\ Sums(g, Holdings(new, token), Users)
               /\ \A s \in SUBSET Users : g[s] = f[s] + h[s]
  BY <1>1, <1>2, <1>3, SumsPlus
<1>5. g[Users] = f[Users] + h[Users] /\ f[Users] \in Int
  BY <1>1, <1>4 DEF Sums
<1> QED
  BY <1>1, <1>2, <1>4, <1>5, TokenSums

LEMMA TokenSumGrows ==
  ASSUME NEW old \in NetsOfAccounts, NEW new \in NetsOfAccounts,
         NEW token \in Tokens, \A a \in Accounts : old[a] <= new[a]
  PROVE  TokenSum(old, token) <= TokenSum(new, token)
<1>1. PICK f : Sums(f, Holdings(old, token), Users)
  BY HoldingsSum
<1>2. PICK g : Sums(g, Holdings(new, token), Users)
  BY HoldingsSum
<1>3. \A user \in Users : Holdings(old, token)[user] <= Holdings(new, token)[user]
  BY DEF Holdings, Accounts
<1>4. f[Users] <= g[Users]
  BY <1>1, <1>2, <1>3, SumsGrow
<1> QED
  BY <1>1, <1>2, <1>4, TokenSums

LEMMA GainsCancel ==
  ASSUME NEW log \in LogRecords, IsTransfer(log), NEW token \in Tokens
  PROVE  TokenSum([a \in Accounts |-> Gain(log, a)], token) = 0
<1> DEFINE net == [a \in Accounts |-> Gain(log, a)]
           w == Holdings(net, token)
           in == UserOf[log.to]
           out == UserOf[log.from]
<1>1. log.data \in Int /\ in \in Users /\ out \in Users
  BY DEF LogRecords, Unreadable, Users, Range
<1>2. net \in NetsOfAccounts
  BY <1>1 DEF NetsOfAccounts, Gain
<1>3. PICK h : Sums(h, w, Users)
  BY <1>2, HoldingsSum
<1>4. \A user \in Users :
        w[user] = (IF user = in /\ token = TokenAt(log) THEN log.data ELSE 0)
                  - (IF user = out /\ token = TokenAt(log) THEN log.data ELSE 0)
  BY DEF Holdings, Accounts, Gain
<1>5. TokenSum(net, token) = h[Users]
  BY <1>3, TokenSums
<1> HIDE DEF net, w, in, out
<1>6. CASE in = out \/ token # TokenAt(log)
  <2>1. \A user \in Users : w[user] = 0
    BY <1>1, <1>4, <1>6
  <2> QED
    BY <1>3, <1>5, <2>1, SumsNothing DEF net
<1>7. CASE in # out /\ token = TokenAt(log)
  <2>1. /\ w[in] = log.data /\ w[out] = -log.data
        /\ \A user \in (Users \ {in}) \ {out} : w[user] = 0
    BY <1>1, <1>4, <1>7
  <2>2. h[Users] = h[Users \ {in}] + w[in]
    BY <1>1, <1>3, SumsRemove
  <2>3. h[Users \ {in}] = h[(Users \ {in}) \ {out}] + w[out]
    <3>1. Users \ {in} \in SUBSET Users /\ out \in Users \ {in}
      BY <1>1, <1>7
    <3> QED
      BY <1>1, <1>3, <3>1, SumsRemove
  <2>4. h[(Users \ {in}) \ {out}] = 0
    BY <1>3, <2>1, SumsNothing
  <2>5. h[Users] = (0 + (-log.data)) + log.data
    BY <2>1, <2>2, <2>3, <2>4
  <2> QED
    BY <1>1, <1>5, <2>5 DEF net
<1> QED
  BY <1>6, <1>7

LEMMA MoveConserves ==
  ASSUME NEW net \in NetsOfAccounts, NEW log \in LogRecords, NEW token \in Tokens
  PROVE  /\ AddLog(net, log) \in NetsOfAccounts
         /\ TokenSum(AddLog(net, log), token) = TokenSum(net, token)
<1>1. CASE IsTransfer(log)
  <2> DEFINE gain == [a \in Accounts |-> Gain(log, a)]
  <2>1. gain \in NetsOfAccounts
    BY DEF NetsOfAccounts, Gain, LogRecords, Unreadable
  <2>2. /\ AddLog(net, log) \in NetsOfAccounts
        /\ \A a \in Accounts : AddLog(net, log)[a] = net[a] + gain[a]
    BY <1>1, MoveGains DEF AddLog
  <2>3. TokenSum(gain, token) = 0
    BY <1>1, GainsCancel
  <2> HIDE DEF gain
  <2>4. /\ TokenSum(AddLog(net, log), token) = TokenSum(net, token) + 0
        /\ TokenSum(net, token) \in Int
    BY <2>1, <2>2, <2>3, TokenSumPlus
  <2> QED
    BY <2>2, <2>4
<1>2. CASE ~IsTransfer(log)
  BY <1>2 DEF AddLog
<1> QED
  BY <1>1, <1>2

LEMMA MoveAllConserves ==
  ASSUME NEW net \in NetsOfAccounts, NEW logs \in Seq(LogRecords),
         NEW token \in Tokens
  PROVE  /\ MoveAll(net, logs) \in NetsOfAccounts
         /\ TokenSum(MoveAll(net, logs), token) = TokenSum(net, token)
<1>1. PICK after : Moves(after, net, logs)
  BY MoveAllMoves
<1>2. Len(logs) \in Nat /\ \A n \in 1..Len(logs) : logs[n] \in LogRecords
  BY LenProperties, ElementOfSeq
<1>3. after \in [0..Len(logs) -> NetsOfAccounts]
  BY <1>1 DEF Moves
<1> DEFINE f == [n \in 0..Len(logs) |-> TokenSum(after[n], token)]
           g == [n \in 0..Len(logs) |-> TokenSum(net, token)]
<1>4. \A n \in 0..Len(logs) :
        f[n] = TokenSum(after[n], token) /\ g[n] = TokenSum(net, token)
  OBVIOUS
<1>5. ASSUME NEW n \in 1..Len(logs) PROVE f[n] = f[n - 1]
  <2>1. n \in 0..Len(logs) /\ n - 1 \in 0..Len(logs)
    BY <1>2
  <2>2. after[n] = AddLog(after[n - 1], logs[n]) /\ after[n - 1] \in NetsOfAccounts
    BY <1>1, <1>3, <2>1 DEF Moves
  <2>3. TokenSum(after[n], token) = TokenSum(after[n - 1], token)
    BY <1>2, <2>2, MoveConserves
  <2> QED
    BY <2>1, <2>3
<1> HIDE DEF f, g
<1>6. Follows(f, g, Len(logs))
  BY <1>1, <1>2, <1>4, <1>5 DEF Follows, Moves
<1>7. f[Len(logs)] = g[Len(logs)]
  BY <1>2, <1>6, AgreeAlong
<1> QED
  BY <1>1, <1>2, <1>3, <1>4, <1>7 DEF Moves

\* The net changes of a block conserve every token: what its transfers take
\* from the users and what they give to the users is the same.
THEOREM ParserConserves ==
  ASSUME NEW block, WellFormed(block), NEW token \in Tokens
  PROVE  /\ NetChanges(block) \in NetsOfAccounts
         /\ TokenSum(NetChanges(block), token) = 0
<1> DEFINE N == Len(block.receipts)
<1>1. PICK net : NetAfter(net, block)
  BY NetChangesNet
<1>2. N \in Nat /\ \A i \in 1..N : LogsOf(block.receipts[i]) \in Seq(LogRecords)
  BY ReceiptAt, LogsTyped
<1>3. net \in [0..N -> NetsOfAccounts] /\ NetChanges(block) = net[N]
  BY <1>1 DEF NetAfter
<1>4. TokenSum(net[0], token) = 0
  <2>1. net[0] = [account \in Accounts |-> 0]
    BY <1>1 DEF NetAfter
  <2>2. net[0] \in NetsOfAccounts
    BY <1>2, <1>3
  <2>3. PICK sum : Sums(sum, Holdings(net[0], token), Users)
    BY <2>2, HoldingsSum
  <2>4. \A user \in Users : Holdings(net[0], token)[user] = 0
    BY <2>1 DEF Holdings, Accounts
  <2> QED
    BY <2>3, <2>4, SumsNothing, TokenSums
<1> DEFINE f == [i \in 0..N |-> TokenSum(net[i], token)]
           g == [i \in 0..N |-> 0]
<1>5. \A i \in 0..N : f[i] = TokenSum(net[i], token) /\ g[i] = 0
  OBVIOUS
<1>6. ASSUME NEW i \in 1..N PROVE f[i] = f[i - 1]
  <2>1. i \in 0..N /\ i - 1 \in 0..N
    BY <1>2
  <2>2. /\ net[i] = MoveAll(net[i - 1], LogsOf(block.receipts[i]))
        /\ net[i - 1] \in NetsOfAccounts
    BY <1>1, <1>3, <2>1 DEF NetAfter
  <2>3. TokenSum(net[i], token) = TokenSum(net[i - 1], token)
    BY <1>2, <2>2, MoveAllConserves
  <2> QED
    BY <2>1, <2>3
<1> HIDE DEF f, g, N
<1>7. Follows(f, g, N)
  BY <1>2, <1>4, <1>5, <1>6 DEF Follows
<1>8. f[N] = g[N]
  BY <1>2, <1>7, AgreeAlong
<1> QED
  BY <1>2, <1>3, <1>5, <1>8
=============================================================================
