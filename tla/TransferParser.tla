---------------------------- MODULE TransferParser ----------------------------
(***************************************************************************)
(* app/state/transfer_parser.py: from the receipts of a mini-block to the  *)
(* net change of every balance.  Pure functions, no state.                 *)
(*                                                                         *)
(* A block is a record with the fields of the payload that are used:       *)
(*   hex       whether its number came as a hex string                     *)
(*   number, index, mini   block_number, index and mini_block_number       *)
(*   receipts  a sequence of                                               *)
(*     [dict, status, listed, logs]   is it a dict; "none", "ok" (0x1 or   *)
(*                         1) or "failed"; are its logs a list; the logs:  *)
(*       [dict, topics, token, from, to, data]                             *)
(*         topics  "transfer"  three or more, the first one Transfer's     *)
(*                 "other"     three or more, of another event             *)
(*                 "short"     fewer, or a string or a dict                *)
(*                 "unsized"   a value without a length, such as null      *)
(*         token, from, to  addresses as spelled by the node               *)
(*         data    the amount, or Unreadable if it is not a hex number     *)
(***************************************************************************)
EXTENDS Integers, SequencesExt

CONSTANTS
  UserOf,       \* _normalise_address: topic -> lower-case 40-digit address
  TokenOf,      \* the same for the addresses of contracts, spelled any way
  ZeroAddress   \* 0x000...0

NoToken    == "missing"   \* a log without the address of its contract
NotText    == "number"    \* an address that is no string
Unreadable == -1
NoMini     == -1          \* a payload without a mini_block_number

Users  == Range(UserOf)
Tokens == Range(TokenOf) \cup {ZeroAddress}

\* a balance is that of a user in a token
Accounts == Users \X Tokens

LogRecords ==
  [dict : BOOLEAN, topics : {"transfer", "other", "short", "unsized"},
   token : DOMAIN TokenOf \cup {NoToken, NotText},
   from : DOMAIN UserOf, to : DOMAIN UserOf, data : Nat \cup {Unreadable}]

ReceiptRecords ==
  [dict : BOOLEAN, status : {"none", "ok", "failed"}, listed : BOOLEAN,
   logs : Seq(LogRecords)]

\* there are finitely many addresses
ASSUME ParserAssumption == IsFiniteSet(DOMAIN UserOf)

-----------------------------------------------------------------------------
(* extract_transfers *)

\* logs of failed transactions do not count; neither does what is no list
LogsOf(receipt) ==
  IF receipt.dict /\ receipt.status # "failed" /\ receipt.listed
  THEN receipt.logs ELSE <<>>

\* an ERC-721 transfer has its token id in the topics and no readable data
IsTransfer(log) ==
  log.dict /\ log.topics = "transfer" /\ log.data # Unreadable

\* the warning about a log with too few topics takes their len(), and the
\* address of a token its lower()
Crashes(block) ==
  \E i \in DOMAIN block.receipts : \E log \in Range(LogsOf(block.receipts[i])) :
     \/ log.dict /\ log.topics = "unsized"
     \/ IsTransfer(log) /\ log.token = NotText

\* (of a block that crashes nothing is used)
TokenAt(log) ==
  IF log.token \in {NoToken, NotText} THEN ZeroAddress ELSE TokenOf[log.token]

Delta(log) ==
  [token |-> TokenAt(log), from |-> UserOf[log.from], to |-> UserOf[log.to],
   amount |-> log.data]

-----------------------------------------------------------------------------
(* apply_deltas *)

Add(net, account, amount) == [net EXCEPT ![account] = @ + amount]

\* mutant: the credit replaces what the account had in this block
MoveForgetting(net, d) ==
  IF d.from = d.to THEN net
  ELSE [Add(net, <<d.from, d.token>>, -d.amount)
          EXCEPT ![<<d.to, d.token>>] = d.amount]

\* mutant: both balances are read before either is written
MoveStale(net, d) ==
  [net EXCEPT ![<<d.from, d.token>>] = net[<<d.from, d.token>>] - d.amount,
              ![<<d.to, d.token>>] = net[<<d.to, d.token>>] + d.amount]

\* a transfer to oneself moves nothing
Move(net, d) ==
  IF d.from = d.to THEN net
  ELSE Add(Add(net, <<d.from, d.token>>, -d.amount),
           <<d.to, d.token>>, d.amount)

\* the transfers among the logs of a receipt, in order
MoveAll(net, logs) ==
  LET after[n \in 0..Len(logs)] ==
        IF n = 0 THEN net
        ELSE IF IsTransfer(logs[n]) THEN Move(after[n - 1], Delta(logs[n]))
        ELSE after[n - 1]
  IN after[Len(logs)]

\* the dict of net changes, receipt by receipt; what it leaves out is 0
NetChanges(block) ==
  LET net[i \in 0..Len(block.receipts)] ==
        IF i = 0 THEN [account \in Accounts |-> 0]
        ELSE MoveAll(net[i - 1], LogsOf(block.receipts[i]))
  IN net[Len(block.receipts)]

-----------------------------------------------------------------------------
(* What the block says, for comparison: tokens in minus tokens out *)

Positions(block) ==
  UNION {{<<i, j>> : j \in DOMAIN block.receipts[i].logs} :
           i \in DOMAIN block.receipts}

Counts(block, p) ==
  LET r == block.receipts[p[1]]
  IN /\ r.dict /\ r.status \in {"none", "ok"} /\ r.listed
     /\ IsTransfer(r.logs[p[2]])

AmountAt(block, p) == block.receipts[p[1]].logs[p[2]].data

Amount(block, positions) ==
  MapThenSumSet(LAMBDA p : AmountAt(block, p), positions)

\* the transfers of the account's token that have the user on one side
Side(block, account, side) ==
  {p \in Positions(block) :
     LET log == block.receipts[p[1]].logs[p[2]]
     IN /\ Counts(block, p)
        /\ account = <<UserOf[log[side]], TokenAt(log)>>}

Received(block, account) ==
  Amount(block, Side(block, account, "to"))
  - Amount(block, Side(block, account, "from"))

\* what the users hold of a token, all together
TokenSum(held, token) ==
  MapThenSumSet(LAMBDA user : held[<<user, token>>], Users)
=============================================================================
