---------------------------- MODULE Subscription ----------------------------
(***************************************************************************)
(* What connect() of the ingestion daemon does on a new connection:        *)
(* _subscribe(), app/ingestion/daemon.py, and what becomes of the blocks   *)
(* that follow (_normalize_block_data and the validation).                 *)
(*                                                                         *)
(* The node is asked for one format of blocks after the other.  The next   *)
(* message is taken for its answer, whatever it is: JSON-RPC ids are not   *)
(* compared.  So an answer may come after its timeout, and one may be      *)
(* given to the keepalive of the connection before.                        *)
(***************************************************************************)
EXTENDS IngestionDaemon, Sequences

CONSTANTS
  Methods,  \* methods_to_try: <<"miniBlocks", "newHeads">>, or one of them
  MaxInbox  \* bound of the model: unread messages when the node sends a block

Formats == {"miniBlocks", "newHeads"}

ASSUME SubscriptionAssumption ==
  /\ Methods \in Seq(Formats) /\ Methods # <<>> /\ MaxInbox \in Nat
  /\ \A i, j \in DOMAIN Methods : Methods[i] = Methods[j] => i = j

VARIABLES
  asked,   \* how many methods connect() has asked for, 0 outside of it
  wanted,  \* requests the node has not answered
  feeds,   \* formats the node sends
  inbox,   \* messages of the node, not read yet
  method,  \* _subscription_method
  late,    \* a request of this connection timed out
  probed,  \* a keepalive was sent before the subscription
  last     \* what became of the last block of this connection

link  == <<asked, wanted, feeds, inbox, method, late, probed, last>>
subscriptionVars == <<vars, link>>

Mail == [kind : {"accepted", "refused", "pong", "block"},
             of : Formats \cup {"none"}]

SubscriptionTypeOK ==
  /\ TypeOK
  /\ asked \in 0..Len(Methods) /\ wanted \subseteq Formats
  /\ feeds \subseteq Formats /\ inbox \in Seq(Mail)
  /\ method \in Formats \cup {"none"} /\ late \in BOOLEAN /\ probed \in BOOLEAN
  /\ last \in {"none", "right", "garbled", "skipped"}

SubscriptionInit ==
  /\ Init
  /\ asked = 0 /\ wanted = {} /\ feeds = {} /\ inbox = <<>>
  /\ method = "none" /\ late = FALSE /\ probed = FALSE /\ last = "none"

Told(kind, of) == inbox' = Append(inbox, [kind |-> kind, of |-> of])

-----------------------------------------------------------------------------
(* The node *)

Answer ==
  /\ \E m \in wanted :
       /\ wanted' = wanted \ {m}
       /\ \/ Told("accepted", m) /\ feeds' = feeds \cup {m}
          \/ Told("refused", m) /\ UNCHANGED feeds
  /\ UNCHANGED <<vars, asked, method, late, probed, last>>

Announce ==
  /\ pc \in {"connect", "handle"} /\ Len(inbox) < MaxInbox
  /\ \E m \in feeds : Told("block", m)
  /\ UNCHANGED <<vars, asked, wanted, feeds, method, late, probed, last>>

-----------------------------------------------------------------------------
(* connect() *)

\* eth_subscribe
Ask(n) == asked' = n /\ wanted' = wanted \cup {Methods[n]}

Open ==
  /\ pc = "connect" /\ asked = 0 /\ Ask(1)
  /\ UNCHANGED <<vars, feeds, inbox, method, late, probed, last>>

\* the keepalive task slept while the connection was replaced; its interval
\* is longer than all timeouts of a connect()
Probe ==
  /\ pc = "connect" /\ asked > 0 /\ keep = "run" /\ stop = "no" /\ ~probed
  /\ Told("pong", "none") /\ probed' = TRUE
  /\ UNCHANGED <<vars, asked, wanted, feeds, method, late, last>>

\* mutant: an error is an answer, too
ConfirmsAny(message) == TRUE

\* "result" in the message, or no "error": true of every message but a refusal
Confirms(message) == message.kind # "refused"

\* mutant: the method of the first connection is kept
AdoptOnce(m) == method' = IF method = "none" THEN m ELSE method

Adopt(m) == method' = m

Confirm ==
  /\ asked > 0 /\ inbox # <<>> /\ Confirms(Head(inbox))
  /\ Connect
  /\ Adopt(Methods[asked]) /\ inbox' = Tail(inbox) /\ asked' = 0
  /\ UNCHANGED <<wanted, feeds, late, probed, last>>

\* the next method; after the last one ConnectionError
GiveUp ==
  \/ asked < Len(Methods) /\ Ask(asked + 1) /\ UNCHANGED vars
  \/ asked = Len(Methods) /\ ConnectRaises /\ UNCHANGED <<asked, wanted>>

Refused ==
  /\ pc = "connect" /\ asked > 0 /\ inbox # <<>> /\ ~Confirms(Head(inbox))
  /\ GiveUp /\ inbox' = Tail(inbox)
  /\ UNCHANGED <<feeds, method, late, probed, last>>

\* 5 s without a message
TimedOut ==
  /\ pc = "connect" /\ asked > 0 /\ inbox = <<>>
  /\ GiveUp /\ late' = TRUE
  /\ UNCHANGED <<feeds, inbox, method, probed, last>>

Subscribe == Open \/ Confirm \/ Refused \/ TimedOut

-----------------------------------------------------------------------------
(* The message handler and the rest of the daemon *)

\* A mini-block read as a header has no "number": it becomes block 0.  A
\* header read as a mini-block has no "block_number": it is skipped.
Normalised(format) ==
  IF format = method THEN "right"
  ELSE IF method = "newHeads" THEN "garbled" ELSE "skipped"

Receive ==
  /\ pc = "handle" /\ ws = "open" /\ stop = "no" /\ inbox # <<>>
  /\ inbox' = Tail(inbox)
  /\ last' = IF Head(inbox).kind = "block" THEN Normalised(Head(inbox).of) ELSE last
  /\ UNCHANGED <<vars, asked, wanted, feeds, method, late, probed>>

\* the connection is left behind, with what was on its way
HangUp ==
  /\ wanted' = {} /\ feeds' = {} /\ inbox' = <<>>
  /\ late' = FALSE /\ probed' = FALSE /\ last' = "none"
  /\ UNCHANGED <<asked, method>>

\* connect() raises before there is a connection to subscribe on, or loses it
OtherSteps ==
  \/ Start \/ ConnectRaises \/ Message \/ CloseReturns \/ Wake
  \/ KeepaliveEnds \/ Shutdown \/ Drop \/ Tick

SubscriptionNext ==
  \/ Answer \/ Announce \/ Probe \/ Subscribe \/ Receive
  \/ Disconnected /\ HangUp
  \/ OtherSteps /\ UNCHANGED link

SubscriptionSafety == SubscriptionInit /\ [][SubscriptionNext]_subscriptionVars

\* As FairSpec: connect() goes on, since every wait for an answer ends after
\* 5 s.  The node has to answer nothing and to send nothing.
SubscriptionSpec ==
  /\ SubscriptionSafety
  /\ WF_subscriptionVars(Subscribe)
  /\ WF_vars(Start) /\ WF_vars(Disconnected /\ ws = "broken")
  /\ WF_vars(CloseReturns) /\ WF_vars(Wake) /\ WF_vars(KeepaliveEnds)
  /\ WF_vars(Tick)

-----------------------------------------------------------------------------
(* Properties *)

\* "Returns the method that was successfully subscribed": the daemon handles
\* messages of a node that sends what it recorded and nothing else, unless an
\* answer timed out or a keepalive came between.
SubscribedAsRecorded ==
  pc = "handle" /\ ~late /\ ~probed => feeds = {method}

\* No block is added as block 0 or skipped for being read in the other format,
\* unless a request timed out, however often the connection is replaced.
BlocksAsAnnounced == ~late => last \in {"none", "right"}
=============================================================================
