-------------------------- MODULE SupervisorProofs ---------------------------
(***************************************************************************)
(* Safety of Supervisor.                                                   *)
(*                                                                         *)
(* Its steps are steps of the agent or leave it alone, so that what is     *)
(* proved of AgentRunner holds in the process, too.  StoppedEarlyNeverActs *)
(* is inductive with the reason for it: the shutdown event is only set     *)
(* while the supervisor starts, or before the tasks it created had their   *)
(* first turn; then the runner has not begun or is in its first wait, and  *)
(* it finds its own event set when that is over.                           *)
(***************************************************************************)
EXTENDS Supervisor, AgentRunnerProofs

Starting == {"start_pool", "start_balance", "build_agent"}

\* the runner invoked nothing, and nothing is in the stream
Untouched ==
  /\ \A x \in calls : x[1].by = "api"
  /\ node["runner"] = "idle"
  /\ intents = {}

\* and it will invoke nothing
Quiet ==
  Untouched /\ (loop = "off" \/ (event /\ loop \in {"wait", "ended"}))

HandlerReplaced ==
  handler = "supervisor" =>
    phase \in Starting \cup {"spawn"} \cup Over \/ part["api"] = "created"

StopSetsEvent == stopping # "no" => event

ShuttingDown == {"agent_stopping", "pool_stopping", "balance_stopping",
                 "cancelling"}

\* the runner is at most in its first wait
Fresh == Untouched /\ loop \in {"off", "wait"}

SupervisorInv ==
  /\ SupervisorTypeOK /\ AgentInv
  /\ HandlerReplaced /\ StopSetsEvent
  /\ phase \in Starting => Untouched /\ loop = "off"
  /\ phase = "spawn" \/ (phase = "wait" /\ JustStarted) => Fresh
  /\ phase \in ShuttingDown => requested
  /\ requested => phase \in {"spawn", "wait"} \/ Quiet

-----------------------------------------------------------------------------

LEMMA StepOfTheAgent ==
  ASSUME [SupervisorNext]_vars PROVE [AgentNext]_agentVars
<1>1. CASE UNCHANGED vars
  BY <1>1 DEF vars
<1>2. ASSUME NEW how, Exit(how) PROVE AgentNext
  BY <1>2 DEF Exit, AgentNext
<1>3. CASE Supervise
  <2>1. CASE StartPool \/ StartBalance \/ PoolStopped \/ BalanceStopped \/ Complete
    BY <1>2, <2>1 DEF StartPool, StartBalance, StartPart, PoolStopped,
                      BalanceStopped, Complete
  <2>2. CASE BuildAgent \/ Spawn \/ ShutdownSeen \/ FirstTurn
    BY <2>2 DEF BuildAgent, Spawn, ShutdownSeen, BeginStop, FirstTurn, AgentNext
  <2>3. CASE AgentStopped
    BY <2>3 DEF AgentStopped, AgentNext, LoopStep
  <2> QED
    BY <1>3, <2>1, <2>2, <2>3 DEF Supervise
<1>4. CASE Elsewhere
  BY <1>4 DEF Elsewhere, Signal, AgentMoves, PartEnds, PartFails, Now, AgentNext,
              LoopStep
<1>5. CASE Kill
  BY <1>2, <1>5 DEF Kill
<1> QED
  BY <1>1, <1>3, <1>4, <1>5 DEF SupervisorNext

LEMMA TypeKept ==
  ASSUME SupervisorTypeOK, [SupervisorNext]_vars
  PROVE  SupervisorTypeOK'
<1> USE DEF SupervisorTypeOK, Phases, Over, Lives
<1>1. CASE UNCHANGED vars
  BY <1>1 DEF vars, supervisorVars
<1>2. ASSUME NEW how \in Over, Exit(how) PROVE SupervisorTypeOK'
  BY <1>2 DEF Exit
<1>3. CASE StartPool \/ StartBalance
  BY <1>2, <1>3 DEF StartPool, StartBalance, StartPart, Now
<1>4. CASE BuildAgent \/ FirstTurn
  BY <1>4 DEF BuildAgent, FirstTurn
<1>5. CASE Spawn
  <2> DEFINE lives == [p \in Parts |-> IF p \in Spawned THEN "created" ELSE part[p]]
  <2>1. lives \in [Parts -> Lives] /\ Asked(lives, "pool") \in [Parts -> Lives]
    BY DEF Asked
  <2>2. part' \in [Parts -> Lives]
    BY <1>5, <2>1 DEF Spawn, BeginStop
  <2> QED
    BY <1>5, <2>2 DEF Spawn, BeginStop
<1>11. CASE ShutdownSeen
  <2>1. part' \in [Parts -> Lives]
    BY <1>11 DEF ShutdownSeen, BeginStop, Asked
  <2> QED
    BY <1>11, <2>1 DEF ShutdownSeen, BeginStop
<1>6. CASE AgentStopped \/ PoolStopped \/ BalanceStopped
  <2>1. CASE AgentStopped
    BY <2>1 DEF AgentStopped, Asked
  <2>2. CASE PoolStopped
    BY <1>2, <2>2 DEF PoolStopped, Asked
  <2>3. CASE BalanceStopped
    BY <1>2, <2>3 DEF BalanceStopped, Now
  <2> QED
    BY <1>6, <2>1, <2>2, <2>3
<1>7. CASE Complete \/ Kill
  BY <1>2, <1>7 DEF Complete, Kill
<1>8. CASE Signal
  <2>1. signals' \in 0..MaxSignals
    BY <1>8, SupervisorAssumption DEF Signal, SupervisorAssumption
  <2>2. part' \in [Parts -> Lives] /\ requested' \in BOOLEAN
    BY <1>8 DEF Signal, Asked
  <2> QED
    BY <1>8, <2>1, <2>2 DEF Signal
<1>9. CASE AgentMoves
  BY <1>9 DEF AgentMoves, supervisorVars
<1>10. ASSUME NEW p \in Parts, PartEnds(p) \/ PartFails(p)
       PROVE  SupervisorTypeOK'
  BY <1>10 DEF PartEnds, PartFails, Now
<1> QED
  BY <1>1, <1>3, <1>4, <1>5, <1>6, <1>7, <1>8, <1>9, <1>10, <1>11
     DEF SupervisorNext, Supervise, Elsewhere

-----------------------------------------------------------------------------

\* No call of the API is past the checks, so cutting calls adds nothing to
\* the stream.
LEMMA CutUntouched ==
  ASSUME AgentInv, Untouched, NEW gone \in SUBSET calls, Cut(gone),
         node'["runner"] = "idle"
  PROVE  Untouched'
<1>1. PICK sent \in SUBSET {x[1] : x \in gone \cap (Call \X {"enqueue"})} :
        intents' = intents \cup sent
  BY DEF Cut
<1>2. ASSUME NEW x \in gone \cap (Call \X {"enqueue"}) PROVE FALSE
  <2>1. x = <<x[1], "enqueue">> /\ x[1] \in Call /\ x \in calls
    OBVIOUS
  <2>2. x[1].by = "runner"
    BY <2>1 DEF AgentInv, Checked
  <2> QED
    BY <2>1, <2>2 DEF Untouched
<1>3. sent = {}
  BY <1>1, <1>2
<1> QED
  BY <1>1, <1>3 DEF Cut, Untouched

LEMMA DieQuiet ==
  ASSUME AgentInv, Die
  PROVE  /\ event' /\ loop' = "ended"
         /\ Untouched => Untouched'
<1>1. calls \in SUBSET calls /\ Cut(calls) /\ node'["runner"] = "idle"
  BY DEF Die, Callers
<1> QED
  BY <1>1, CutUntouched DEF Die

\* While the runner waits, or is over, the API cannot add to the stream.
LEMMA MovesUntouched ==
  ASSUME AgentInv, Untouched, loop \notin {"poll", "invoke"},
         ToolStep \/ NodeStep \/ Wake \/ Poll \/ Invoked \/ Respond \/ Request
  PROVE  Untouched'
<1>1. CASE ToolStep
  <2>1. PICK x \in calls : Check(x[1]) \/ Enqueue(x[1]) \/ ToolRaised(x[1])
    BY <1>1 DEF ToolStep
  <2> DEFINE call == x[1]
  <2>2. call \in Call /\ call.by = "api"
    BY <2>1 DEF AgentInv, AgentTypeOK, Untouched
  <2> HIDE DEF call
  <2>3. ASSUME NEW was, NEW is, Becomes(call, was, is)
        PROVE  \A y \in calls' : y[1].by = "api"
    BY <2>2, <2>3 DEF Becomes, Untouched
  <2>4. CASE Check(call)
    <3>1. PICK is : Becomes(call, "begun", is)
      BY <2>4 DEF Check
    <3> QED
      BY <2>3, <2>4, <3>1 DEF Check, redis, Untouched
  <2>5. CASE Enqueue(call)
    BY <2>2, <2>5 DEF Enqueue, AgentInv, Checked
  <2>6. CASE ToolRaised(call)
    <3>1. node'["runner"] = node["runner"]
      BY <2>2, <2>6 DEF ToolRaised, Goto, AgentInv, AgentTypeOK, Callers
    <3> QED
      BY <2>3, <2>6, <3>1 DEF ToolRaised, redis, Untouched
  <2> QED
    BY <2>1, <2>4, <2>5, <2>6 DEF call
<1>2. CASE NodeStep
  <2>1. PICK c \in Callers : \/ MarketNode(c) \/ MarketTools(c)
                             \/ PortfolioNode(c) \/ PortfolioTools(c)
    BY <1>2 DEF NodeStep
  <2>2. c = "api"
    BY <2>1 DEF Callers, Untouched, MarketNode, MarketTools, PortfolioNode,
                PortfolioTools
  <2>3. node'["runner"] = node["runner"] /\ UNCHANGED intents
    BY <2>1, <2>2 DEF MarketNode, MarketTools, PortfolioNode, PortfolioTools,
                      Goto, redis, AgentInv, AgentTypeOK, Callers
  <2>4. \A y \in calls' : y[1].by = "api"
    <3>1. CASE MarketNode(c) \/ MarketTools(c) \/ PortfolioTools(c)
      BY <3>1 DEF MarketNode, MarketTools, PortfolioTools, Untouched
    <3>2. CASE PortfolioNode(c)
      <4>1. CASE UNCHANGED calls
        BY <4>1 DEF Untouched
      <4>2. ASSUME NEW ask,
                   calls' = calls \cup
                     {<<[by |-> c, n |-> count[c], i |-> i, tool |-> ask[i][1],
                         plan |-> ask[i][2]], "begun">> : i \in DOMAIN ask}
            PROVE  \A y \in calls' : y[1].by = "api"
        BY <2>2, <4>2 DEF Untouched
      <4> QED
        BY <3>2, <4>1, <4>2 DEF PortfolioNode
    <3> QED
      BY <2>1, <3>1, <3>2
  <2> QED
    BY <2>3, <2>4 DEF Untouched
<1>3. CASE Wake
  BY <1>3 DEF Wake, graph, redis, Untouched
<1>4. CASE Poll \/ Invoked
  BY <1>4 DEF Poll, Invoked
<1>5. CASE Respond
  BY <1>5 DEF Respond, Goto, redis, Untouched, AgentInv, AgentTypeOK, Callers
<1>6. CASE Request
  BY <1>6 DEF Request, Begin, Goto, redis, Untouched, AgentInv, AgentTypeOK, Callers
<1> QED
  BY <1>1, <1>2, <1>3, <1>4, <1>5, <1>6

LEMMA InitSupervised == ASSUME SupervisorInit PROVE SupervisorInv
<1>1. AgentInv
  BY InitEstablishes DEF SupervisorInit
<1>2. SupervisorTypeOK
  <2>1. 0 \in 0..MaxSignals
    BY SupervisorAssumption DEF SupervisorAssumption
  <2> QED
    BY <2>1 DEF SupervisorInit, SupervisorTypeOK, Phases, Lives
<1>3. Untouched
  BY DEF SupervisorInit, AgentInit, Untouched, Callers
<1> QED
  BY <1>1, <1>2, <1>3
     DEF SupervisorInit, AgentInit, SupervisorInv, HandlerReplaced, Starting,
         StopSetsEvent, ShuttingDown

LEMMA StepSupervised ==
  ASSUME SupervisorInv, [SupervisorNext]_vars
  PROVE  SupervisorInv'
<1>1. SupervisorTypeOK' /\ AgentInv'
  BY TypeKept, StepOfTheAgent, NextKeeps DEF SupervisorInv
<1> DEFINE Rest == /\ HandlerReplaced /\ StopSetsEvent
                   /\ phase \in Starting => Untouched /\ loop = "off"
                   /\ phase = "spawn" \/ (phase = "wait" /\ JustStarted) => Fresh
                   /\ phase \in ShuttingDown => requested
                   /\ requested => phase \in {"spawn", "wait"} \/ Quiet
<1> SUFFICES Rest'
  BY <1>1 DEF SupervisorInv
<1>2. AgentInv /\ Rest
  BY DEF SupervisorInv
<1>3. /\ requested /\ phase \notin {"spawn", "wait"} => Quiet
      /\ requested /\ phase = "wait" => Fresh
  BY <1>2 DEF JustStarted
<1>4. ASSUME NEW how \in Over, Exit(how) PROVE Rest'
  <2>1. event' /\ loop' = "ended" /\ (Untouched => Untouched')
    BY <1>2, <1>4, DieQuiet DEF Exit
  <2>2. requested => Untouched
    BY <1>2, <1>3 DEF Quiet, Fresh
  <2> QED
    BY <1>4, <2>1, <2>2
       DEF Exit, Over, Starting, ShuttingDown, HandlerReplaced, StopSetsEvent, Quiet
<1>5. ASSUME UNCHANGED agentVars
      PROVE  /\ (Untouched => Untouched') /\ (Quiet => Quiet') /\ (Fresh => Fresh')
             /\ StopSetsEvent' /\ loop' = loop
  BY <1>2, <1>5 DEF agentVars, runner, graph, redis, Untouched, Quiet, Fresh,
                    StopSetsEvent
<1>6. CASE UNCHANGED vars
  <2>1. UNCHANGED <<agentVars, supervisorVars>>
    BY <1>6 DEF vars
  <2> QED
    BY <1>2, <1>5, <2>1 DEF supervisorVars, HandlerReplaced, JustStarted
<1>7. CASE StartPool \/ StartBalance
  <2>1. CASE Exit("failed")
    BY <1>4, <2>1 DEF Over
  <2>2. CASE /\ phase \in Starting /\ phase' \in Starting
             /\ UNCHANGED <<agentVars, handler, requested, signals>>
    <3>1. Untouched /\ loop = "off" /\ UNCHANGED agentVars
      BY <1>2, <2>2
    <3> QED
      BY <1>3, <1>5, <2>2, <3>1 DEF HandlerReplaced, Quiet, Starting, ShuttingDown
  <2> QED
    BY <1>7, <2>1, <2>2 DEF StartPool, StartBalance, StartPart, Starting
<1>8. CASE BuildAgent
  <2>1. /\ phase = "build_agent" /\ phase' = "spawn"
        /\ UNCHANGED <<part, handler, requested>>
        /\ Untouched /\ loop = "off"
    BY <1>2, <1>8 DEF BuildAgent, Starting
  <2>2. Fresh' /\ StopSetsEvent'
    BY <1>2, <1>8, <2>1
       DEF BuildAgent, Start, agentVars, runner, graph, redis, Untouched, Fresh,
           StopSetsEvent
  <2> QED
    BY <2>1, <2>2 DEF HandlerReplaced, Starting, ShuttingDown
<1>9. ASSUME Fresh, requested,
             NEW lives \in [Parts -> Lives], BeginStop(lives),
             UNCHANGED <<handler, requested, signals>>,
             handler # "supervisor" \/ lives["api"] = "created"
      PROVE  Rest'
  <2>1. /\ phase' \in {"agent_stopping", "pool_stopping"}
        /\ handler = "supervisor" => part'["api"] = "created"
    BY <1>9 DEF BeginStop, Asked, Parts
  <2>2. Quiet' /\ StopSetsEvent'
    <3>1. CASE UNCHANGED agentVars /\ loop = "off"
      BY <1>5, <1>9, <3>1 DEF Quiet, Fresh
    <3>2. CASE Stop /\ loop # "off"
      BY <1>9, <3>2 DEF Stop, graph, redis, Quiet, Fresh, Untouched, StopSetsEvent
    <3> QED
      BY <1>9, <3>1, <3>2 DEF BeginStop
  <2> QED
    BY <1>9, <2>1, <2>2 DEF HandlerReplaced, Starting, ShuttingDown
<1>10. CASE Spawn
  <2> DEFINE lives == [p \in Parts |-> IF p \in Spawned THEN "created" ELSE part[p]]
  <2>1. lives \in [Parts -> Lives] /\ lives["api"] = "created"
    BY DEF SupervisorInv, SupervisorTypeOK, Lives, Parts, Spawned
  <2>2. phase = "spawn" /\ Fresh /\ UNCHANGED <<handler, requested, signals>>
    BY <1>2, <1>10 DEF Spawn
  <2>3. CASE requested /\ BeginStop(lives)
    <3> HIDE DEF lives
    <3> QED
      BY <1>9, <2>1, <2>2, <2>3
  <2>4. CASE /\ ~requested /\ phase' = "wait" /\ part' = lives
             /\ UNCHANGED agentVars
    BY <1>5, <2>1, <2>2, <2>4 DEF HandlerReplaced, Starting, ShuttingDown
  <2> QED
    BY <1>10, <2>3, <2>4 DEF Spawn
<1>11. CASE Resumed /\ ShutdownSeen
  <2>1. /\ requested /\ phase = "wait" /\ BeginStop(part)
        /\ UNCHANGED <<handler, requested, signals>>
    BY <1>11 DEF ShutdownSeen
  <2>2. handler # "supervisor"
    BY <1>2, <1>11, <2>1 DEF HandlerReplaced, Resumed, Starting, Over
  <2> QED
    BY <1>3, <1>9, <2>1, <2>2 DEF SupervisorInv, SupervisorTypeOK
<1>12. CASE FirstTurn
  <2>1. UNCHANGED <<agentVars, phase, requested>> /\ handler' = "vector"
        /\ part["api"] = "created"
    BY <1>12 DEF FirstTurn
  <2>2. JustStarted
    BY <2>1 DEF JustStarted
  <2> QED
    BY <1>2, <1>5, <2>1, <2>2 DEF HandlerReplaced
<1>13. ASSUME Resumed, phase \in ShuttingDown, phase' \in ShuttingDown,
              UNCHANGED <<handler, requested>>, StopSetsEvent', Quiet => Quiet'
       PROVE  Rest'
  <2>1. handler # "supervisor" /\ requested /\ Quiet
    BY <1>2, <1>3, <1>13
       DEF HandlerReplaced, Resumed, ShuttingDown, Starting, Over
  <2> QED
    BY <1>13, <2>1 DEF HandlerReplaced, ShuttingDown, Starting
<1>14. CASE Resumed /\ AgentStopped
  <2>1. /\ phase \in ShuttingDown /\ phase' \in ShuttingDown
        /\ UNCHANGED <<handler, requested>>
    BY <1>14 DEF AgentStopped, ShuttingDown
  <2>2. CASE Stopped
    BY <1>2, <1>13, <1>14, <2>1, <2>2
       DEF Stopped, graph, redis, Quiet, Untouched, StopSetsEvent
  <2>3. CASE CancelTask
    <3> DEFINE gone == {x \in calls : x[1].by = "runner" /\ Awaited(x[1])}
    <3>1. gone \in SUBSET calls /\ Cut(gone) /\ UNCHANGED event
          /\ loop' = "ended" /\ stopping = "waiting"
      BY <2>3 DEF CancelTask
    <3> HIDE DEF gone
    <3>2. node'["runner"] = "idle"
      BY <1>2, <2>3 DEF CancelTask, Goto, AgentInv, AgentTypeOK, Callers
    <3>3. event /\ event'
      BY <1>2, <3>1 DEF StopSetsEvent
    <3>4. Untouched => Untouched'
      BY <1>2, <3>1, <3>2, CutUntouched
    <3> QED
      BY <1>13, <1>14, <2>1, <3>1, <3>3, <3>4 DEF Quiet, StopSetsEvent
  <2> QED
    BY <1>14, <2>2, <2>3 DEF AgentStopped
<1>15. CASE Resumed /\ (PoolStopped \/ BalanceStopped \/ Complete)
  <2>1. CASE \E how \in Over : Exit(how)
    BY <1>4, <2>1
  <2>2. CASE /\ phase \in ShuttingDown /\ phase' \in ShuttingDown
             /\ UNCHANGED <<agentVars, handler, requested, signals>>
    <3>1. UNCHANGED agentVars
      BY <2>2
    <3> QED
      BY <1>5, <1>13, <1>15, <2>2, <3>1
  <2> QED
    BY <1>15, <2>1, <2>2 DEF PoolStopped, BalanceStopped, Complete, Over, ShuttingDown
<1>16. CASE Turn /\ Signal
  <2>1. UNCHANGED <<agentVars, phase, handler>> /\ phase \notin Over
        /\ phase # "spawn" /\ UNCHANGED agentVars
    BY <1>16 DEF Signal, Turn
  <2>2. CASE handler = "supervisor" /\ requested' = TRUE /\ UNCHANGED part
    <3>1. CASE phase \in Starting
      BY <1>2, <1>5, <2>1, <2>2, <3>1
         DEF HandlerReplaced, Quiet, Starting, ShuttingDown
    <3>2. CASE phase = "wait"
      <4>1. part["api"] = "created"
        BY <1>2, <2>2, <3>2 DEF HandlerReplaced, Starting, Over
      <4>2. Fresh
        BY <1>2, <3>2, <4>1 DEF JustStarted
      <4> QED
        BY <1>2, <1>5, <2>1, <2>2, <3>2, <4>1, <4>2
           DEF HandlerReplaced, Starting, ShuttingDown
    <3>3. CASE phase \in ShuttingDown
      BY <1>2, <1>3, <1>5, <2>1, <2>2, <3>3
         DEF HandlerReplaced, Starting, ShuttingDown
    <3> QED
      BY <2>1, <3>1, <3>2, <3>3
         DEF SupervisorInv, SupervisorTypeOK, Phases, Starting, ShuttingDown
  <2>3. CASE handler = "vector" /\ part' = Asked(part, "vector")
             /\ UNCHANGED requested
    <3>1. part'["api"] = part["api"]
      BY <2>3 DEF Asked, SupervisorInv, SupervisorTypeOK, Parts
    <3> QED
      BY <1>2, <1>5, <2>1, <2>3, <3>1 DEF HandlerReplaced, JustStarted
  <2> QED
    BY <1>16, <2>2, <2>3 DEF Signal
<1>17. CASE Turn /\ AgentMoves
  <2>1. /\ UNCHANGED <<phase, part, handler, requested>> /\ phase # "spawn"
        /\ \/ ToolStep \/ NodeStep \/ Poll \/ Invoked \/ Respond \/ Request
           \/ ~JustStarted /\ Wake
    BY <1>17 DEF AgentMoves, supervisorVars, Turn
  <2>2. UNCHANGED <<event, stopping>>
    BY <2>1 DEF ToolStep, Check, Enqueue, ToolRaised, NodeStep, MarketNode,
                MarketTools, PortfolioNode, PortfolioTools, Wake, Poll, Invoked,
                Respond, Request, runner
  <2>3. loop \in {"off", "wait", "ended"} => loop' = loop \/ (~JustStarted /\ Wake)
    BY <2>1 DEF ToolStep, Check, Enqueue, ToolRaised, NodeStep, MarketNode,
                MarketTools, PortfolioNode, PortfolioTools, Poll, Invoked,
                Respond, Request, runner
  <2>4. Untouched /\ loop \in {"off", "wait", "ended"} => Untouched'
    BY <1>2, <2>1, MovesUntouched
  <2>5. Quiet => Quiet'
    BY <2>2, <2>3, <2>4 DEF Quiet, Wake
  <2>6. Fresh /\ JustStarted => Fresh'
    BY <2>3, <2>4 DEF Fresh
  <2>7. phase \in Starting => Untouched' /\ loop' = "off"
    BY <1>2, <2>3, <2>4 DEF Wake
  <2> QED
    BY <1>2, <2>1, <2>2, <2>5, <2>6, <2>7
       DEF HandlerReplaced, StopSetsEvent, JustStarted
<1>18. ASSUME Turn, NEW p \in Parts, PartEnds(p) \/ PartFails(p)
       PROVE  Rest'
  <2>1. UNCHANGED <<phase, handler, requested>> /\ UNCHANGED agentVars
    BY <1>18 DEF PartEnds, PartFails
  <2>2. part'["api"] = "created" <=> part["api"] = "created"
    BY <1>18 DEF PartEnds, PartFails, Now, SupervisorInv, SupervisorTypeOK, Parts
  <2> QED
    BY <1>2, <1>5, <2>1, <2>2 DEF HandlerReplaced, JustStarted
<1>19. CASE Kill
  BY <1>4, <1>19 DEF Kill, Over
<1>20. CASE Supervise
  BY <1>7, <1>8, <1>10, <1>11, <1>12, <1>14, <1>15, <1>20 DEF Supervise, Resumed
<1>21. CASE Elsewhere
  BY <1>16, <1>17, <1>18, <1>21 DEF Elsewhere
<1> QED
  BY <1>6, <1>19, <1>20, <1>21 DEF SupervisorNext

-----------------------------------------------------------------------------

\* The agent in the process behaves as AgentRunner says.
THEOREM SupervisorRunsTheAgent == SupervisorSafety => AgentSafety
<1>1. SupervisorInit => AgentInit
  BY DEF SupervisorInit
<1>2. [SupervisorNext]_vars => [AgentNext]_agentVars
  BY StepOfTheAgent
<1> QED
  BY <1>1, <1>2, PTL DEF SupervisorSafety, AgentSafety

THEOREM SupervisorInvariant == SupervisorSafety => []SupervisorInv
<1>1. SupervisorInit => SupervisorInv
  BY InitSupervised
<1>2. SupervisorInv /\ [SupervisorNext]_vars => SupervisorInv'
  BY StepSupervised
<1> QED
  BY <1>1, <1>2, PTL DEF SupervisorSafety

\* Every variable of the supervisor keeps its type.
THEOREM SupervisorTypeCorrect == SupervisorSafety => []SupervisorTypeOK
<1>1. SupervisorInv => SupervisorTypeOK
  BY DEF SupervisorInv
<1> QED
  BY <1>1, SupervisorInvariant, PTL

\* A process told to stop while the supervisor listens queues no plan, whatever
\* requests the API gets until it ends.
THEOREM EarlyStopQueuesNothing == SupervisorSafety => []StoppedEarlyNeverActs
<1>1. SupervisorInv => StoppedEarlyNeverActs
  BY DEF SupervisorInv, StoppedEarlyNeverActs, JustStarted, Quiet, Fresh, Untouched
<1> QED
  BY <1>1, SupervisorInvariant, PTL
=============================================================================
