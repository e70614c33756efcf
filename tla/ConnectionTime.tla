---------------------------- MODULE ConnectionTime ----------------------------
(***************************************************************************)
(* IngestionDaemon with a record of how long its connection was up, which  *)
(* the daemon does not keep: record_success() measures from one connection *)
(* to the next instead.  It is only here to state what backoff.py says.    *)
(***************************************************************************)
EXTENDS IngestionDaemon

VARIABLE up  \* seconds the current or last connection lasted, up to Threshold

timedVars == <<vars, up>>

Connected == pc = "handle" /\ ws = "open"

Measure ==
  up' = IF pc = "connect" /\ pc' = "handle" THEN 0
        ELSE IF Connected /\ Tick THEN UpTo(up) ELSE up

\* A connect() takes no time here, so that all time is spent connected or in
\* the backoff.
TimedNext == Next /\ Measure /\ ~(pc = "connect" /\ Tick)

TimedSpec == Init /\ up = 0 /\ [][TimedNext]_timedVars

\* "Resets to base delay after any successful connection that lasts longer
\* than stable_threshold seconds.  On repeated rapid disconnects, continues
\* exponential progression": a reset follows a connection that lasted.
ResetsAfterStable == [][attempt > 0 /\ attempt' = 0 => up >= Threshold]_timedVars
=============================================================================
