---------------------------- MODULE DeliveryLedger ----------------------------
(***************************************************************************)
(* What a consumer group of a Redis stream promises about an entry,        *)
(* whatever process or connection fails: at-least-once delivery, with an   *)
(* answer for everything that is acknowledged.                             *)
(*                                                                         *)
(* An entry that was posted is open.  While it is open its answer may be   *)
(* written, more than once if it is processed more than once.  It is       *)
(* closed once it has an answer, and from then on the answer stands.  The  *)
(* exception are entries the stream dropped (MAXLEN, or a consumer group   *)
(* created behind them): those may be closed without an answer.            *)
(***************************************************************************)
EXTENDS Integers

CONSTANTS
  MaxPosts,  \* entries are 1..MaxPosts
  Answers    \* what may become of an entry, other than "none"

VARIABLES
  posted,   \* the entries 1..posted were accepted
  open,     \* those somebody still has to deal with
  dropped,  \* those that fell off the stream
  answer    \* what became of each

ledger == <<posted, open, dropped, answer>>

Posts == 1..MaxPosts

LedgerInit ==
  /\ posted = 0 /\ open = {} /\ dropped = {}
  /\ answer = [i \in Posts |-> "none"]

\* the stream is bounded: at any step entries may be dropped
Drop == dropped \subseteq dropped' /\ dropped' \subseteq 1..posted'

Post ==
  /\ posted < MaxPosts
  /\ posted' = posted + 1
  /\ open' = open \cup {posted + 1}
  /\ Drop
  /\ UNCHANGED answer

Answer ==
  /\ \E i \in open, s \in Answers : answer' = [answer EXCEPT ![i] = s]
  /\ UNCHANGED <<posted, open, dropped>>

Close ==
  /\ open' \subseteq open
  /\ \A i \in open \ open' : answer[i] # "none" \/ i \in dropped'
  /\ Drop
  /\ UNCHANGED <<posted, answer>>

LedgerNext == Post \/ Answer \/ Close

Spec == LedgerInit /\ [][LedgerNext]_ledger
=============================================================================
