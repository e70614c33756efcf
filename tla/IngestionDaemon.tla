--------------------------- MODULE IngestionDaemon ---------------------------
(***************************************************************************)
(* The connection of the ingestion daemon to the node.                     *)
(*                                                                         *)
(* app/ingestion/daemon.py    MegaETHIngestionDaemon: run() connects and   *)
(*   reads messages, _reconnect() waits and connects again, a task of its  *)
(*   own sends keepalives                                                  *)
(* app/ingestion/backoff.py   ExponentialBackoff: how long it waits        *)
(*                                                                         *)
(* What becomes of a message is Publish of BlockConsumer; here a message   *)
(* only matters because it makes the handler look at the shutdown event.   *)
(* Time passes in steps of one second.                                     *)
(***************************************************************************)
EXTENDS Integers

CONSTANTS
  Base,         \* reconnect_backoff_base (1 s)
  Cap,          \* reconnect_backoff_cap (16 s)
  Threshold,    \* stable_threshold (10 s)
  MaxFails      \* bound of the model: calls of connect() that raise

ASSUME DaemonAssumption ==
  /\ Base \in Nat \ {0} /\ Cap \in Nat /\ Base <= Cap
  /\ Threshold \in Nat \ {0}
  /\ MaxFails \in Nat

VARIABLES
  pc,       \* where run() is
  ws,       \* the connection
  keep,     \* the keepalive task
  stop,     \* the shutdown event is set: "yes" or "no"
  attempt,  \* of the backoff
  since,    \* seconds since record_success, up to Threshold, or None
  timer,    \* seconds the backoff still sleeps
  fails     \* calls of connect() that raised so far

vars == <<pc, ws, keep, stop, attempt, since, timer, fails>>

None == -1

PCs == {"off", "connect", "handle", "sleep", "ended", "failed"}

TypeOK ==
  /\ pc \in PCs /\ ws \in {"none", "open", "broken", "closed"}
  /\ keep \in {"none", "run", "over"} /\ stop \in {"yes", "no"}
  /\ attempt \in Nat /\ since \in 0..Threshold \cup {None}
  /\ timer \in 0..Cap /\ fails \in 0..MaxFails

Init ==
  /\ pc = "off" /\ ws = "none" /\ keep = "none" /\ stop = "no"
  /\ attempt = 0 /\ since = None /\ timer = 0 /\ fails = 0

-----------------------------------------------------------------------------
(* ExponentialBackoff *)

\* mutant: a second of jitter, added after the cap
DelayJittered(n) == IF Base * 2^n <= Cap THEN Base * 2^n + 1 ELSE Cap + 1

\* min(base * 2**attempt, cap)
Delay(n) == LET d == Base * 2^n IN IF d \in 0..Cap THEN d ELSE Cap

\* mutant: the attempts are never reset
NeverReset == UNCHANGED attempt /\ since' = 0

\* record_success: measured from the previous connection's success, so the
\* time spent disconnected counts as well
RecordSuccess ==
  /\ attempt' = IF since # None /\ since >= Threshold THEN 0 ELSE attempt
  /\ since' = 0

-----------------------------------------------------------------------------
(* MegaETHIngestionDaemon *)

Start == pc = "off" /\ pc' = "connect"
         /\ UNCHANGED <<ws, keep, stop, attempt, since, timer, fails>>

\* mutant: the loop does not look at the event
LoopIgnoresStop ==
  /\ pc' = "handle" /\ ws' = "open"
  /\ keep' = IF keep = "none" THEN "run" ELSE keep

\* the while loop of run() looks at the event: the handler, or the end (the
\* keepalive task is created once, after the first connect())
Loop ==
  IF stop = "yes"
  THEN pc' = "ended" /\ ws' = "closed" /\ keep' = "over"
  ELSE pc' = "handle" /\ ws' = "open"
       /\ keep' = IF keep = "none" THEN "run" ELSE keep

\* connect() to Redis and the node, subscribe, record_success()
Connect ==
  /\ pc = "connect" /\ RecordSuccess /\ Loop
  /\ UNCHANGED <<stop, timer, fails>>

\* connect() raises, before or after there is a connection: in run() nothing
\* catches it, and in an except clause of run() neither
ConnectRaises ==
  /\ pc = "connect" /\ fails < MaxFails /\ fails' = fails + 1
  /\ pc' = "failed" /\ ws' \in {ws, "open"}
  /\ UNCHANGED <<keep, stop, attempt, since, timer>>

\* the handler is given a message after shutdown(): it returns, and run() ends
Message ==
  /\ pc = "handle" /\ ws = "open" /\ stop = "yes" /\ Loop
  /\ UNCHANGED <<stop, attempt, since, timer, fails>>

\* mutant: run() ends at the first exception
BreakOnError ==
  /\ pc = "handle" /\ ws \in {"broken", "open"} /\ pc' = "ended"
  /\ UNCHANGED <<ws, keep, stop, attempt, since, timer, fails>>

\* ConnectionClosed, or an exception the handler does not catch (a message
\* that is JSON but no object): _reconnect() up to its sleep
Disconnected ==
  /\ pc = "handle" /\ ws \in {"broken", "open"}
  /\ timer' = Delay(attempt) /\ attempt' = attempt + 1
  /\ pc' = "sleep"
  /\ UNCHANGED <<ws, keep, stop, since, fails>>

\* a regular close ends the handler without an exception: the loop calls it
\* again, on the same connection, until the event is set
CloseReturns ==
  /\ pc = "handle" /\ ws = "closed" /\ stop = "yes" /\ Loop
  /\ UNCHANGED <<stop, attempt, since, timer, fails>>

\* _reconnect() after its sleep: close what is left and connect
Wake ==
  /\ pc = "sleep" /\ timer = 0
  /\ pc' = "connect" /\ ws' = "closed"
  /\ UNCHANGED <<keep, stop, attempt, since, timer, fails>>

\* _keepalive_loop: it ends at shutdown, or at a send that raises
KeepaliveEnds ==
  /\ keep = "run" /\ (stop = "yes" \/ ws # "open")
  /\ keep' = "over"
  /\ UNCHANGED <<pc, ws, stop, attempt, since, timer, fails>>

\* shutdown()
Shutdown ==
  /\ pc # "off" /\ stop = "no" /\ stop' = "yes"
  /\ UNCHANGED <<pc, ws, keep, attempt, since, timer, fails>>

\* the connection is lost, or the node closes it
Drop ==
  /\ ws = "open"
  /\ ws' \in {"broken", "closed"}
  /\ UNCHANGED <<pc, keep, stop, attempt, since, timer, fails>>

UpTo(n) == IF n < Threshold THEN n + 1 ELSE n

\* a second passes; the sleep ends on time
Tick ==
  /\ pc \notin {"off", "ended", "failed"} /\ ~(pc = "sleep" /\ timer = 0)
  /\ since' = IF since = None THEN None ELSE UpTo(since)
  /\ timer' = IF timer = 0 THEN 0 ELSE timer - 1
  /\ UNCHANGED <<pc, ws, keep, stop, attempt, fails>>

Next ==
  \/ Start \/ Connect \/ ConnectRaises \/ Message \/ Disconnected
  \/ CloseReturns \/ Wake \/ KeepaliveEnds \/ Shutdown \/ Drop \/ Tick

Spec == Init /\ [][Next]_vars

(***************************************************************************)
(* The event loop runs the daemon's task, time passes, and a connect() is  *)
(* answered.  No message, shutdown or drop has to happen.                  *)
(***************************************************************************)
FairSpec ==
  /\ Spec /\ WF_vars(Start) /\ WF_vars(Connect \/ ConnectRaises)
  /\ WF_vars(Disconnected /\ ws = "broken") /\ WF_vars(CloseReturns)
  /\ WF_vars(Wake) /\ WF_vars(KeepaliveEnds) /\ WF_vars(Tick)

-----------------------------------------------------------------------------
(* Properties *)

\* However often the connection breaks, the exponent stays small (2**attempt
\* is a float factor and overflows at 1024 attempts), if the cap is not below
\* the threshold: while connected, the last wait was shorter than the
\* threshold.  That is so only because record_success counts the wait as time
\* connected, which is not what backoff.py says of it: ResetsAfterStable of
\* ConnectionTime.  With the reset described there nothing bounds it.
AttemptBounded ==
  pc = "handle" /\ attempt > 0 => Delay(attempt - 1) < Threshold

\* A connection that breaks is replaced, unless a connect() raises.
Reconnects ==
  pc = "handle" /\ ws = "broken"
    ~> ws = "open" \/ stop = "yes" \/ pc = "failed"

\* shutdown() during the backoff ends the daemon at the latest when it is
\* connected again
StopsAfterBackoff ==
  stop = "yes" /\ pc \in {"sleep", "connect"} ~> pc \in {"ended", "failed"}
=============================================================================
