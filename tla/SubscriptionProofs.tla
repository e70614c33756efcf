-------------------------- MODULE SubscriptionProofs --------------------------
(***************************************************************************)
(* Theorems about the ingestion daemon: the loop of IngestionDaemon, for   *)
(* any base, cap and threshold of the backoff and any number of failing    *)
(* connections, and what Subscription adds to it, for any methods to try   *)
(* and any node.                                                           *)
(***************************************************************************)
EXTENDS Subscription, SequenceTheorems, TLAPS

\* a wait is never longer than the cap
LEMMA DelayCapped == \A n \in Nat : Delay(n) \in 0..Cap
BY DaemonAssumption DEF Delay

\* The daemon is well typed in every behaviour; in particular it never sleeps
\* longer than the cap.
THEOREM TypeCorrect == Spec => []TypeOK
<1>1. Init => TypeOK
  BY DaemonAssumption DEF Init, TypeOK, PCs
<1>2. TypeOK /\ [Next]_vars => TypeOK'
  <2> SUFFICES ASSUME TypeOK, [Next]_vars PROVE TypeOK'
    OBVIOUS
  <2> USE DaemonAssumption DEF TypeOK, PCs
  <2>1. CASE Connect
    BY <2>1 DEF Connect, RecordSuccess, Loop
  <2>2. CASE Disconnected
    BY <2>2, DelayCapped DEF Disconnected
  <2>3. CASE Tick
    BY <2>3 DEF Tick, UpTo, None
  <2>4. CASE Message \/ CloseReturns
    BY <2>4 DEF Message, CloseReturns, Loop
  <2>5. CASE Start \/ ConnectRaises \/ Wake
    BY <2>5 DEF Start, ConnectRaises, Wake
  <2>6. CASE KeepaliveEnds \/ Shutdown \/ Drop \/ UNCHANGED vars
    BY <2>6 DEF KeepaliveEnds, Shutdown, Drop, vars
  <2>7. QED
    BY <2>1, <2>2, <2>3, <2>4, <2>5, <2>6 DEF Next
<1>3. QED
  BY <1>1, <1>2, PTL DEF Spec

(***************************************************************************)
(* The backoff.  AttemptBounded is not inductive: that the last wait was   *)
(* short rests on the clock of record_success running during the wait, so  *)
(* that what has passed and what is left of the sleep together are at      *)
(* least the wait.                                                         *)
(***************************************************************************)
Waited(left) ==
  attempt > 0 /\ since # None
  /\ (since + left >= Delay(attempt - 1) \/ since = Threshold)

BackoffInv ==
  /\ pc = "off" => attempt = 0 /\ since = None
  /\ pc = "handle" => since # None
  /\ pc = "connect" => (attempt = 0 /\ since = None) \/ Waited(0)
  /\ pc = "sleep" => Waited(timer)
  /\ AttemptBounded

LEMMA BackoffInit == Init => BackoffInv
BY DEF Init, BackoffInv, AttemptBounded

LEMMA BackoffNext ==
  ASSUME TypeOK, BackoffInv, [Next]_vars
  PROVE  BackoffInv'
<1>0. /\ attempt \in Nat /\ since \in Int /\ timer \in Nat
      /\ Threshold \in Nat /\ None \notin Nat
      /\ \A n \in Nat : Delay(n) \in Nat
  BY DaemonAssumption, DelayCapped DEF TypeOK, None
<1>1. CASE Connect
  <2>1. since' = 0 /\ pc' \in {"handle", "ended"}
    BY <1>1 DEF Connect, RecordSuccess, Loop
  <2>2. ASSUME attempt' > 0 PROVE Delay(attempt' - 1) < Threshold
    <3>1. attempt' = attempt /\ ~(since # None /\ since >= Threshold)
      BY <1>0, <1>1, <2>2 DEF Connect, RecordSuccess
    <3>2. Waited(0)
      BY <1>1, <2>2, <3>1 DEF Connect, BackoffInv
    <3>3. QED
      BY <1>0, <3>1, <3>2 DEF Waited
  <2>3. QED
    BY <1>0, <2>1, <2>2 DEF BackoffInv, AttemptBounded
<1>2. CASE Disconnected
  <2>1. since \in Nat
    BY <1>2 DEF Disconnected, BackoffInv, TypeOK
  <2>2. /\ attempt' = attempt + 1 /\ timer' = Delay(attempt)
        /\ since' = since /\ pc' = "sleep"
    BY <1>2 DEF Disconnected
  <2>3. since' + timer' >= Delay(attempt' - 1) /\ attempt' > 0
    BY <1>0, <2>1, <2>2
  <2>4. QED
    BY <1>0, <2>1, <2>2, <2>3 DEF BackoffInv, Waited, AttemptBounded
<1>3. CASE Tick
  <2>1. UNCHANGED <<pc, attempt>>
    BY <1>3 DEF Tick
  <2>2. CASE since = None
    BY <1>3, <2>1, <2>2 DEF Tick, BackoffInv, Waited, AttemptBounded
  <2>3. CASE since # None
    <3>1. since' \in 0..Threshold /\ since' >= since
      BY <1>0, <1>3, <2>3 DEF Tick, UpTo, TypeOK
    <3>2. since' = since + 1 \/ since' = Threshold
      BY <1>0, <1>3, <2>3, <3>1 DEF Tick, UpTo, TypeOK
    <3>3. timer' >= timer - 1 /\ timer' \in Nat
      BY <1>0, <1>3 DEF Tick
    <3>4. pc = "sleep" => Waited(timer)'
      BY <1>0, <2>1, <2>3, <3>1, <3>2, <3>3 DEF BackoffInv, Waited
    <3>5. pc = "connect" => Waited(0)'
      BY <1>0, <2>1, <2>3, <3>1, <3>2 DEF BackoffInv, Waited
    <3>6. QED
      BY <1>0, <2>1, <2>3, <3>1, <3>4, <3>5 DEF BackoffInv, AttemptBounded
  <2>4. QED
    BY <2>2, <2>3
<1>4. CASE Wake
  BY <1>0, <1>4 DEF Wake, BackoffInv, Waited, AttemptBounded
<1>5. CASE Start \/ ConnectRaises
  BY <1>5 DEF Start, ConnectRaises, BackoffInv, Waited, AttemptBounded
<1>6. CASE Message \/ CloseReturns
  BY <1>6 DEF Message, CloseReturns, Loop, BackoffInv, Waited, AttemptBounded
<1>7. CASE KeepaliveEnds \/ Shutdown \/ Drop \/ UNCHANGED vars
  BY <1>7 DEF KeepaliveEnds, Shutdown, Drop, vars, BackoffInv, Waited,
     AttemptBounded
<1>8. QED
  BY <1>1, <1>2, <1>3, <1>4, <1>5, <1>6, <1>7 DEF Next

\* Whatever the connection does, the last wait of a connected daemon was
\* shorter than the threshold: the exponent of the backoff is bounded by the
\* threshold when the cap is not below it.
THEOREM BackoffBounded == Spec => []AttemptBounded
<1>1. TypeOK /\ BackoffInv /\ [Next]_vars => BackoffInv'
  BY BackoffNext
<1>2. BackoffInv => AttemptBounded
  BY DEF BackoffInv
<1>3. QED
  BY <1>1, <1>2, BackoffInit, TypeCorrect, PTL DEF Spec

-----------------------------------------------------------------------------
(* The subscription *)

\* Every step of the subscription is a step of IngestionDaemon or changes
\* nothing there.
THEOREM SubscriptionRunsTheDaemon == SubscriptionSafety => Spec
<1>1. SubscriptionInit => Init
  BY DEF SubscriptionInit
<1>2. [SubscriptionNext]_subscriptionVars => [Next]_vars
  BY DEF SubscriptionNext, subscriptionVars, Answer, Announce, Probe,
         Subscribe, Open, Confirm, Refused, TimedOut, GiveUp, Receive,
         OtherSteps, Next
<1>3. QED
  BY <1>1, <1>2, PTL DEF SubscriptionSafety, Spec

-----------------------------------------------------------------------------
(* Types *)

LinkTyped ==
  /\ asked \in 0..Len(Methods) /\ wanted \subseteq Formats
  /\ feeds \subseteq Formats /\ inbox \in Seq(Mail)
  /\ method \in Formats \cup {"none"} /\ late \in BOOLEAN /\ probed \in BOOLEAN
  /\ last \in {"none", "right", "garbled", "skipped"}

LEMMA MethodsKnown ==
  Len(Methods) \in Nat /\ \A n \in 1..Len(Methods) : Methods[n] \in Formats
BY SubscriptionAssumption, LenProperties

LEMMA NothingSent == <<>> \in Seq(Mail)
BY EmptySeq

LEMMA TailSent ==
  ASSUME inbox \in Seq(Mail), inbox # <<>>
  PROVE  /\ Tail(inbox) \in Seq(Mail) /\ Head(inbox) = inbox[1] /\ 1 \in DOMAIN inbox
         /\ Len(Tail(inbox)) = Len(inbox) - 1
         /\ \A i \in DOMAIN Tail(inbox) :
              i + 1 \in DOMAIN inbox /\ Tail(inbox)[i] = inbox[i + 1]
BY HeadTailProperties

\* what the node sends is appended to what was not read yet
LEMMA ToldAppends ==
  ASSUME inbox \in Seq(Mail), NEW of \in Formats \cup {"none"},
         NEW kind \in {"accepted", "refused", "pong", "block"}, Told(kind, of)
  PROVE  /\ inbox' \in Seq(Mail) /\ inbox' # <<>>
         /\ Len(inbox') = Len(inbox) + 1 /\ DOMAIN inbox' = 1..Len(inbox')
         /\ \A i \in DOMAIN inbox : i \in DOMAIN inbox' /\ inbox'[i] = inbox[i]
         /\ inbox'[Len(inbox')] = [kind |-> kind, of |-> of]
<1> DEFINE m == [kind |-> kind, of |-> of]
<1>1. m \in Mail
  BY DEF Mail
<1>2. inbox' = Append(inbox, m)
  BY DEF Told
<1> HIDE DEF m
<1>3. QED
  BY <1>1, <1>2, AppendProperties DEF m

LEMMA LinkTypedNext ==
  ASSUME LinkTyped, [SubscriptionNext]_subscriptionVars
  PROVE  LinkTyped'
<1> USE SubscriptionAssumption DEF LinkTyped
<1>1. CASE Answer
  <2>1. PICK m \in wanted :
          /\ wanted' = wanted \ {m}
          /\ \/ Told("accepted", m) /\ feeds' = feeds \cup {m}
             \/ Told("refused", m) /\ UNCHANGED feeds
    BY <1>1 DEF Answer
  <2>2. inbox' \in Seq(Mail)
    BY <2>1, ToldAppends
  <2>3. QED
    BY <1>1, <2>1, <2>2 DEF Answer
<1>2. CASE Announce
  BY <1>2, ToldAppends DEF Announce
<1>3. CASE Probe
  BY <1>3, ToldAppends DEF Probe
<1>4. CASE Open
  BY <1>4, MethodsKnown DEF Open, Ask
<1>5. CASE Confirm
  BY <1>5, MethodsKnown DEF Confirm, Adopt
<1>6. CASE Refused \/ TimedOut
  <2>1. inbox' \in Seq(Mail)
    BY <1>6, TailSent DEF Refused, TimedOut
  <2>2. asked' \in 0..Len(Methods) /\ wanted' \subseteq Formats
    BY <1>6, MethodsKnown DEF Refused, TimedOut, GiveUp, Ask
  <2>3. QED
    BY <1>6, <2>1, <2>2 DEF Refused, TimedOut
<1>7. CASE Receive
  BY <1>7 DEF Receive, Normalised
<1>8. CASE HangUp
  BY <1>8, NothingSent DEF HangUp
<1>9. CASE UNCHANGED link
  BY <1>9 DEF link
<1>10. QED
  BY <1>1, <1>2, <1>3, <1>4, <1>5, <1>6, <1>7, <1>8, <1>9
  DEF SubscriptionNext, Subscribe, subscriptionVars

\* Connection and subscription are well typed in every behaviour.
THEOREM SubscriptionTypeCorrect == SubscriptionSafety => []SubscriptionTypeOK
<1>1. SubscriptionInit => LinkTyped
  <2> SUFFICES ASSUME SubscriptionInit PROVE LinkTyped
    OBVIOUS
  <2>1. inbox \in Seq(Mail)
    BY NothingSent DEF SubscriptionInit
  <2>2. asked \in 0..Len(Methods)
    BY MethodsKnown DEF SubscriptionInit
  <2>3. QED
    BY <2>1, <2>2 DEF SubscriptionInit, LinkTyped
<1>2. LinkTyped /\ [SubscriptionNext]_subscriptionVars => LinkTyped'
  BY LinkTypedNext
<1>3. TypeOK /\ LinkTyped => SubscriptionTypeOK
  BY DEF LinkTyped, SubscriptionTypeOK
<1>4. QED
  BY <1>1, <1>2, <1>3, SubscriptionRunsTheDaemon, TypeCorrect, PTL
  DEF SubscriptionSafety

-----------------------------------------------------------------------------
(***************************************************************************)
(* What is recorded is what is sent.  Without a timeout, connect() asks    *)
(* for a method only after the node refused the one before, so whatever    *)
(* message it takes for the answer, only one format can ever come; without *)
(* a keepalive the message it takes is the answer.                         *)
(***************************************************************************)
Fresh == /\ wanted = {} /\ feeds = {} /\ inbox = <<>> /\ ~late /\ ~probed
         /\ last = "none"

Refusals == {i \in DOMAIN inbox : inbox[i].kind = "refused"}

\* the format connect() waits for or has recorded
Current == IF asked > 0 THEN Methods[asked] ELSE method

\* only m is asked for or sent, and not if it was refused
Only(m) == /\ wanted \cup feeds \subseteq {m} /\ (wanted = {} \/ feeds = {})
           /\ Refusals # {} => wanted = {} /\ feeds = {}

OnlyInv ==
  ~late =>
    /\ Only(Current)
    /\ \A i, j \in Refusals : i = j
    /\ \A i \in DOMAIN inbox : inbox[i].kind = "block" => inbox[i].of \in feeds
    /\ BlocksAsAnnounced

\* the three stages of a request
Pending(m)  == wanted = {m} /\ feeds = {} /\ inbox = <<>>
Accepted(m) == wanted = {} /\ feeds = {m} /\ inbox # <<>> /\ inbox[1].kind # "refused"
Rejected    == wanted = {} /\ feeds = {} /\ Len(inbox) = 1 /\ inbox[1].kind = "refused"

StageInv ==
  ~late /\ ~probed =>
    /\ pc = "connect" /\ asked > 0 =>
         Pending(Methods[asked]) \/ Accepted(Methods[asked]) \/ Rejected
    /\ pc = "handle" => wanted = {} /\ feeds = {method}

LinkInv ==
  /\ pc \in {"off", "sleep"} => asked = 0 /\ Fresh
  /\ pc = "connect" /\ asked = 0 => Fresh
  /\ pc = "handle" => asked = 0
  /\ OnlyInv /\ StageInv

LEMMA LinkInvInit == SubscriptionInit => LinkInv
BY DEF SubscriptionInit, Init, LinkInv, Fresh, OnlyInv, Only, Current, StageInv,
       BlocksAsAnnounced, Refusals

LEMMA LinkInvNext ==
  ASSUME LinkTyped, TypeOK, LinkInv, [SubscriptionNext]_subscriptionVars
  PROVE  LinkInv'
<1> USE SubscriptionAssumption DEF LinkTyped, Mail
<1>1. CASE Answer
  <2>1. PICK m \in wanted :
          /\ wanted' = wanted \ {m}
          /\ \/ Told("accepted", m) /\ feeds' = feeds \cup {m}
             \/ Told("refused", m) /\ UNCHANGED feeds
    BY <1>1 DEF Answer
  <2>2. UNCHANGED <<pc, asked, method, late, probed, last>>
    BY <1>1 DEF Answer, vars
  <2>4. CASE Told("accepted", m) /\ feeds' = feeds \cup {m}
    <3>1. /\ inbox' # <<>> /\ Len(inbox') = Len(inbox) + 1
          /\ DOMAIN inbox' = 1..Len(inbox')
          /\ \A i \in DOMAIN inbox : i \in DOMAIN inbox' /\ inbox'[i] = inbox[i]
          /\ inbox'[Len(inbox')] = [kind |-> "accepted", of |-> m]
      BY <2>4, ToldAppends
    <3>2. OnlyInv'
      <4> SUFFICES ASSUME ~late PROVE OnlyInv'
        BY <2>2 DEF OnlyInv
      <4>1. wanted = {m} /\ wanted' = {} /\ Refusals = {}
        BY <2>1 DEF LinkInv, OnlyInv, Only
      <4>2. feeds' = {m} /\ m = Current /\ Current' = Current
        BY <2>1, <2>2, <2>4, <4>1 DEF LinkInv, OnlyInv, Only, Current
      <4>3. Refusals' = {}
        BY <3>1, <4>1 DEF Refusals
      <4>4. \A i \in DOMAIN inbox' : inbox'[i].kind = "block" => inbox'[i].of \in feeds'
        BY <3>1, <2>4 DEF LinkInv, OnlyInv
      <4>5. QED
        BY <2>2, <4>1, <4>2, <4>3, <4>4
        DEF LinkInv, OnlyInv, Only, BlocksAsAnnounced
    <3>3. StageInv'
      BY <2>1, <2>2, <2>4, <3>1
      DEF LinkInv, StageInv, Pending, Accepted, Rejected
    <3>4. QED
      BY <2>1, <2>2, <3>2, <3>3 DEF LinkInv, Fresh
  <2>5. CASE Told("refused", m) /\ UNCHANGED feeds
    <3>1. /\ inbox' # <<>> /\ Len(inbox') = Len(inbox) + 1
          /\ DOMAIN inbox' = 1..Len(inbox')
          /\ \A i \in DOMAIN inbox : i \in DOMAIN inbox' /\ inbox'[i] = inbox[i]
          /\ inbox'[Len(inbox')] = [kind |-> "refused", of |-> m]
      BY <2>5, ToldAppends
    <3>2. OnlyInv'
      <4> SUFFICES ASSUME ~late PROVE OnlyInv'
        BY <2>2 DEF OnlyInv
      <4>1. wanted = {m} /\ wanted' = {} /\ Refusals = {}
        BY <2>1 DEF LinkInv, OnlyInv, Only
      <4>2. feeds' = feeds /\ feeds \subseteq {m} /\ m = Current /\ Current' = Current
        BY <2>1, <2>2, <2>5 DEF LinkInv, OnlyInv, Only, Current
      <4>3. \A i \in Refusals' : i = Len(inbox')
        BY <3>1, <4>1 DEF Refusals
      <4>4. feeds = {}
        BY <4>1 DEF LinkInv, OnlyInv, Only
      <4>5. \A i \in DOMAIN inbox' : inbox'[i].kind = "block" => inbox'[i].of \in feeds'
        BY <3>1, <4>2 DEF LinkInv, OnlyInv
      <4>6. QED
        BY <2>2, <4>1, <4>2, <4>3, <4>4, <4>5
        DEF LinkInv, OnlyInv, Only, BlocksAsAnnounced
    <3>3. StageInv'
      BY <2>1, <2>2, <2>5, <3>1
      DEF LinkInv, StageInv, Pending, Accepted, Rejected
    <3>4. QED
      BY <2>1, <2>2, <3>2, <3>3 DEF LinkInv, Fresh
  <2>6. QED
    BY <2>1, <2>4, <2>5
<1>2. CASE Announce
  BY <1>2 DEF Announce, Told, vars, LinkInv, Fresh, OnlyInv, Only, Current, StageInv, Pending,
     Accepted, Rejected, Refusals, BlocksAsAnnounced
<1>3. CASE Probe
  BY <1>3 DEF Probe, Told, vars, LinkInv, Fresh, OnlyInv, Only, Current, StageInv, Pending,
     Accepted, Rejected, Refusals, BlocksAsAnnounced
<1>4. CASE Open
  BY <1>4 DEF Open, Ask, vars, LinkInv, Fresh, OnlyInv, Only, Current, StageInv, Pending,
     Accepted, Rejected, Refusals, BlocksAsAnnounced
<1>5. CASE Confirm
  <2>1. /\ pc = "connect" /\ pc' \in {"handle", "ended"} /\ asked > 0 /\ asked' = 0
        /\ inbox # <<>> /\ inbox[1].kind # "refused" /\ inbox' = Tail(inbox)
        /\ method' = Methods[asked] /\ UNCHANGED <<wanted, feeds, late, probed, last>>
    BY <1>5, TailSent DEF Confirm, Confirms, Connect, Loop, Adopt
  <2>2. OnlyInv'
    <3> SUFFICES ASSUME ~late PROVE OnlyInv'
      BY <2>1 DEF OnlyInv
    <3>1. \A i \in DOMAIN inbox' : i + 1 \in DOMAIN inbox /\ inbox'[i] = inbox[i + 1]
      BY <2>1, TailSent
    <3>2. \A i \in Refusals' : i \in Int /\ i + 1 \in Refusals
      BY <2>1, <3>1, TailSent DEF Refusals
    <3>3. Only(Current)'
      BY <2>1, <3>2 DEF LinkInv, OnlyInv, Only, Current
    <3>4. \A i, j \in Refusals' : i = j
      BY <3>2 DEF LinkInv, OnlyInv
    <3>5. \A i \in DOMAIN inbox' : inbox'[i].kind = "block" => inbox'[i].of \in feeds'
      BY <2>1, <3>1 DEF LinkInv, OnlyInv
    <3>6. QED
      BY <2>1, <3>3, <3>4, <3>5 DEF LinkInv, OnlyInv, BlocksAsAnnounced
  <2>3. StageInv'
    BY <2>1 DEF LinkInv, StageInv, Pending, Accepted, Rejected
  <2>4. QED
    BY <2>1, <2>2, <2>3 DEF LinkInv
<1>6. CASE Refused
  <2>1. /\ pc = "connect" /\ asked > 0 /\ 1 \in DOMAIN inbox /\ inbox # <<>>
        /\ inbox[1].kind = "refused" /\ inbox' = Tail(inbox) /\ GiveUp
        /\ UNCHANGED <<feeds, method, late, probed, last>>
    BY <1>6, TailSent DEF Refused, Confirms
  <2>2. \A i \in DOMAIN inbox' : i + 1 \in DOMAIN inbox /\ inbox'[i] = inbox[i + 1]
    BY <2>1, TailSent
  <2>3. pc' \in {"connect", "failed"} /\ asked' \in Nat /\ asked' > 0
    BY <2>1, MethodsKnown DEF GiveUp, Ask, ConnectRaises, vars
  <2>4. OnlyInv'
    <3> SUFFICES ASSUME ~late PROVE OnlyInv'
      BY <2>1 DEF OnlyInv
    <3>1. 1 \in Refusals /\ wanted = {} /\ feeds = {}
      BY <2>1 DEF LinkInv, OnlyInv, Only, Refusals
    <3>2. Refusals' = {}
      <4>1. \A i \in Refusals' : i \in Nat \ {0} /\ i + 1 \in Refusals
        BY <2>1, <2>2, TailSent DEF Refusals
      <4>2. QED
        BY <3>1, <4>1 DEF LinkInv, OnlyInv
    <3>3. Only(Current)'
      BY <2>1, <2>3, <3>1, <3>2, MethodsKnown
      DEF Only, Current, GiveUp, Ask
    <3>4. \A i \in DOMAIN inbox' : inbox'[i].kind = "block" => inbox'[i].of \in feeds'
      BY <2>1, <2>2 DEF LinkInv, OnlyInv
    <3>5. QED
      BY <2>1, <3>2, <3>3, <3>4 DEF LinkInv, OnlyInv, BlocksAsAnnounced
  <2>5. StageInv'
    <3> SUFFICES ASSUME ~late, ~probed, pc' = "connect"
                 PROVE  Pending(Methods[asked])'
      BY <2>1, <2>3 DEF StageInv
    <3>1. wanted = {} /\ feeds = {} /\ Len(inbox) = 1
      BY <2>1 DEF LinkInv, StageInv, Pending, Accepted, Rejected
    <3>2. inbox' = <<>>
      BY <2>1, <3>1, TailSent, EmptySeq
    <3>3. QED
      BY <2>1, <3>1, <3>2 DEF Pending, GiveUp, Ask, ConnectRaises
  <2>6. QED
    BY <2>3, <2>4, <2>5 DEF LinkInv
<1>7. CASE TimedOut
  BY <1>7 DEF TimedOut, GiveUp, Ask, ConnectRaises, vars, LinkInv, Fresh, OnlyInv, Only, Current, StageInv
<1>8. CASE Receive
  BY <1>8 DEF Receive, Normalised, vars, LinkInv, Fresh, OnlyInv, Only, Current, StageInv, Pending,
     Accepted, Rejected, Refusals, BlocksAsAnnounced
<1>9. CASE Disconnected /\ HangUp
  BY <1>9 DEF Disconnected, HangUp, LinkInv, Fresh, OnlyInv, Only, Current, StageInv, Pending,
     Accepted, Rejected, Refusals, BlocksAsAnnounced
<1>10. CASE OtherSteps /\ UNCHANGED link
  BY <1>10 DEF OtherSteps, Start, ConnectRaises, Message, CloseReturns, Wake, KeepaliveEnds, Shutdown, Drop, Tick, Loop,
     link, LinkInv, Fresh, OnlyInv, Only, Current, StageInv, Pending,
     Accepted, Rejected, Refusals, BlocksAsAnnounced
<1>11. CASE UNCHANGED subscriptionVars
  BY <1>11 DEF subscriptionVars, vars,
     link, LinkInv, Fresh, OnlyInv, Only, Current, StageInv, Pending,
     Accepted, Rejected, Refusals, BlocksAsAnnounced
<1>12. QED
  BY <1>1, <1>2, <1>3, <1>4, <1>5, <1>6, <1>7, <1>8, <1>9, <1>10, <1>11
  DEF SubscriptionNext, Subscribe

THEOREM SubscriptionInvariant == SubscriptionSafety => []LinkInv
<1>1. LinkTyped /\ TypeOK /\ LinkInv /\ [SubscriptionNext]_subscriptionVars
        => LinkInv'
  BY LinkInvNext
<1>2. SubscriptionTypeOK => LinkTyped /\ TypeOK
  BY DEF SubscriptionTypeOK, LinkTyped
<1>3. QED
  BY <1>1, <1>2, LinkInvInit, SubscriptionTypeCorrect, PTL DEF SubscriptionSafety

\* For any methods: the format recorded is the only one the node sends, if no
\* answer timed out and no keepalive came between.
THEOREM RecordedIsSubscribed == SubscriptionSafety => []SubscribedAsRecorded
<1>1. LinkInv => SubscribedAsRecorded
  BY DEF LinkInv, StageInv, SubscribedAsRecorded
<1>2. QED
  BY <1>1, SubscriptionInvariant, PTL

\* For any methods: no block is read in the other format, if no answer timed
\* out.
THEOREM BlocksReadAsAnnounced == SubscriptionSafety => []BlocksAsAnnounced
<1>1. LinkInv => BlocksAsAnnounced
  BY DEF LinkInv, OnlyInv, BlocksAsAnnounced
<1>2. QED
  BY <1>1, SubscriptionInvariant, PTL
=============================================================================
