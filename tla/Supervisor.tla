----------------------------- MODULE Supervisor ------------------------------
(***************************************************************************)
(* app/api/main.py: supervise() starts the parts of the process one after  *)
(* the other, waits for the shutdown event and stops them in an order: the *)
(* agent, which writes plans, before the pool, which executes them.        *)
(*                                                                         *)
(* The agent is AgentRunner; of the other parts only their life is kept,   *)
(* the handling of blocks and intents is in BlockConsumer, ExecutionPool   *)
(* and IngestionDaemon.  A step of this module lasts up to the next await. *)
(***************************************************************************)
EXTENDS AgentRunner

CONSTANTS
  MaxSignals,  \* bound of the model: SIGTERM or SIGINT received
  MaxFailures  \* bound of the model: parts that end with an exception

Parts == {"pool", "balance", "api", "ingestion", "state", "vector"}
Spawned == {"api", "ingestion", "state", "vector"}

ASSUME SupervisorAssumption == MaxSignals \in Nat /\ MaxFailures \in Nat

VARIABLES
  phase,     \* where supervise() is
  part,      \* part -> its life
  handler,   \* whom the event loop calls on a signal: one callback per signal
  requested, \* the supervisor's shutdown_event
  signals    \* signals received so far

supervisorVars == <<phase, part, handler, requested, signals>>
vars == <<agentVars, supervisorVars>>

Over == {"complete", "failed", "killed"}
Phases == {"start_pool", "start_balance", "build_agent", "spawn", "wait",
           "agent_stopping", "pool_stopping", "balance_stopping",
           "cancelling"} \cup Over

\* "stopping": its shutdown event is set; "failed": it ended with an exception
Lives == {"off", "created", "running", "stopping", "failed", "over"}

SupervisorTypeOK ==
  /\ phase \in Phases /\ part \in [Parts -> Lives]
  /\ handler \in {"supervisor", "vector"} /\ requested \in BOOLEAN
  /\ signals \in 0..MaxSignals

\* from the registration of the signal handlers on
SupervisorInit ==
  /\ AgentInit
  /\ phase = "start_pool" /\ part = [p \in Parts |-> "off"]
  /\ handler = "supervisor" /\ requested = FALSE /\ signals = 0

-----------------------------------------------------------------------------

Now(p, life) == part' = [part EXCEPT ![p] = life]

\* lives after the shutdown event of p is set, whether p still runs or not
Asked(lives, p) ==
  IF lives[p] = "running" THEN [lives EXCEPT ![p] = "stopping"] ELSE lives

\* mutant: an await between the start of the agent and the shutdown event
TurnWhileSpawning == TRUE

\* Others run when supervise() awaits.
Turn == phase # "spawn"

\* Whatever wakes supervise() is queued behind the tasks it created.
Resumed == Turn /\ part["api"] # "created"

\* The event loop is not far from the start: the created tasks have their
\* first turn next, or supervise() goes on after they had it.  What the runner
\* waits before its first invocation (minutes) is not over by then.
JustStarted == part["api"] = "created" \/ (phase = "wait" /\ requested)

\* supervise() returns or raises: asyncio.run cancels what is left
Exit(how) ==
  /\ phase' = how /\ part' = [p \in Parts |-> "over"] /\ Die
  /\ UNCHANGED <<handler, requested, signals>>

\* one of the two start() calls that are awaited; it may raise
StartPart(p, at, next) ==
  /\ phase = at
  /\ \/ /\ phase' = next /\ Now(p, "running")
        /\ UNCHANGED <<agentVars, handler, requested, signals>>
     \/ Exit("failed")

StartPool == StartPart("pool", "start_pool", "start_balance")
StartBalance == StartPart("balance", "start_balance", "build_agent")

\* _build_agent_runner: no API key, or any exception, and it goes on without.
\* After its last await come runner.start() and the tasks of the parts.
BuildAgent ==
  /\ phase = "build_agent" /\ phase' = "spawn"
  /\ Start \/ UNCHANGED agentVars
  /\ UNCHANGED <<part, handler, requested, signals>>

\* agent_runner.stop() up to the await of the runner's task; without an agent
\* worker_pool.stop() begins at once
BeginStop(lives) ==
  \/ /\ loop # "off" /\ phase' = "agent_stopping" /\ Stop
     /\ part' = lives
  \/ /\ loop = "off" /\ phase' = "pool_stopping" /\ UNCHANGED agentVars
     /\ part' = Asked(lives, "pool")

\* create_task for the parts, and the wait for the event, which is over at
\* once if the event is set.
Spawn ==
  /\ phase = "spawn"
  /\ LET lives == [p \in Parts |-> IF p \in Spawned THEN "created" ELSE part[p]]
     IN \/ requested /\ BeginStop(lives)
        \/ /\ ~requested /\ phase' = "wait" /\ part' = lives
           /\ UNCHANGED agentVars
  /\ UNCHANGED <<handler, requested, signals>>

\* the wait for the event ends
ShutdownSeen ==
  /\ phase = "wait" /\ requested /\ BeginStop(part)
  /\ UNCHANGED <<handler, requested, signals>>

\* mutant: the state worker is created last
FirstTurnStateLast ==
  /\ phase # "spawn" /\ part["api"] = "created"
  /\ part' = [p \in Parts |-> IF p \in Spawned THEN "running" ELSE part[p]]
  /\ handler' = "state"
  /\ UNCHANGED <<agentVars, phase, requested, signals>>

\* The first turn of the created tasks, in the order of their creation: each
\* main() but the server's calls add_signal_handler, the vector worker's last.
FirstTurn ==
  /\ phase # "spawn" /\ part["api"] = "created"
  /\ part' = [p \in Parts |-> IF p \in Spawned THEN "running" ELSE part[p]]
  /\ handler' = "vector"
  /\ UNCHANGED <<agentVars, phase, requested, signals>>

\* The loop queues the callback registered at the time.  When supervise()
\* suspends, the supervisor's may be queued before the created tasks or right
\* behind them: no other step can tell the two.
Signal ==
  /\ phase \notin Over /\ signals < MaxSignals /\ signals' = signals + 1
  /\ \/ handler = "supervisor" /\ requested' = TRUE /\ UNCHANGED part
     \/ handler = "vector" /\ part' = Asked(part, "vector") /\ UNCHANGED requested
  /\ UNCHANGED <<agentVars, phase, handler>>

\* agent_runner.stop() returns, and worker_pool.stop() sets its event
AgentStopped ==
  /\ phase = "agent_stopping" /\ (Stopped \/ CancelTask)
  /\ phase' = "pool_stopping" /\ part' = Asked(part, "pool")
  /\ UNCHANGED <<handler, requested, signals>>

\* mutant: the pool's tasks are awaited without the timeout
PoolStoppedOnlyWhenOver ==
  /\ phase = "pool_stopping" /\ part["pool"] \in {"failed", "over"}
  /\ phase' = "balance_stopping" /\ part' = Asked(part, "balance")
  /\ UNCHANGED <<agentVars, handler, requested, signals>>

\* worker_pool.stop() returns: the workers are done, or cancelled after 30 s;
\* exceptions of theirs are gathered.  Closing Redis may raise.  Then
\* balance_worker.stop() sets its event.
PoolStopped ==
  /\ phase = "pool_stopping"
  /\ \/ /\ phase' = "balance_stopping"
        /\ part' = Asked([part EXCEPT !["pool"] = "over"], "balance")
        /\ UNCHANGED <<agentVars, handler, requested, signals>>
     \/ Exit("failed")

\* balance_worker.stop() returns: the loop is done, or cancelled after 10 s.
\* An exception the loop ended with is raised here, as is one of close().
BalanceStopped ==
  /\ phase = "balance_stopping"
  /\ \/ /\ part["balance"] # "failed"
        /\ phase' = "cancelling" /\ Now("balance", "over")
        /\ UNCHANGED <<agentVars, handler, requested, signals>>
     \/ Exit("failed")

\* the gather of the cancelled tasks, and the end of asyncio.run
Complete == phase = "cancelling" /\ Exit("complete")

-----------------------------------------------------------------------------
(* The parts, on their own *)

\* a part whose shutdown event is set comes to its end
PartEnds(p) ==
  /\ part[p] = "stopping" /\ Now(p, "over")
  /\ UNCHANGED <<agentVars, phase, handler, requested, signals>>

\* nobody awaits the task before the shutdown, so nobody notices
PartFails(p) ==
  /\ part[p] \in {"running", "stopping"}
  /\ Cardinality({q \in Parts : part[q] = "failed"}) < MaxFailures
  /\ Now(p, "failed")
  /\ UNCHANGED <<agentVars, phase, handler, requested, signals>>

\* SIGKILL, or the end of the container
Kill == phase \notin Over /\ Exit("killed")

\* the agent and the API; the server accepts requests while it runs
AgentMoves ==
  /\ \/ ToolStep \/ NodeStep \/ Poll \/ Invoked \/ Respond
     \/ ~JustStarted /\ Wake
     \/ part["api"] = "running" /\ Request
  /\ UNCHANGED supervisorVars

Supervise ==
  \/ Spawn \/ FirstTurn
  \/ Resumed /\ \/ StartPool \/ StartBalance \/ BuildAgent \/ ShutdownSeen
                \/ AgentStopped \/ PoolStopped \/ BalanceStopped \/ Complete

Elsewhere ==
  Turn /\ \/ Signal \/ AgentMoves
          \/ \E p \in Parts : PartEnds(p) \/ PartFails(p)

SupervisorNext == Supervise \/ Elsewhere \/ Kill

SupervisorSafety == SupervisorInit /\ [][SupervisorNext]_vars

\* The supervisor's coroutine goes on: what it awaits are calls of Redis and
\* PostgreSQL that return or raise, or waits with a timeout.  Nothing is
\* assumed of the LLM, of the tools or of the parts.
SupervisorSpec == SupervisorSafety /\ WF_vars(Supervise)

\* the parts that were told to stop do, too
CooperativeSpec ==
  SupervisorSpec /\ \A p \in Parts : WF_vars(Turn /\ PartEnds(p))

-----------------------------------------------------------------------------
(* Properties *)

\* A process that is told to stop while its supervisor still listens queues no
\* plan: the shutdown may begin after the runner and all parts had their first
\* turn, but the runner finds its event set when its first wait is over.
StoppedEarlyNeverActs == requested => intents = {}

\* Once the supervisor's shutdown event is set the process ends, whatever
\* the LLM, the tools and the parts do.
ShutdownCompletes == requested ~> phase \in Over

\* main.py:196, "Wait for shutdown signal": a signal ends the process.
SignalEndsProcess == signals > 0 ~> phase \in Over
=============================================================================
