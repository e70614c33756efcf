-------------------------- MODULE AgentRunnerProofs --------------------------
(***************************************************************************)
(* Safety of AgentRunner, for all plans, allow lists and bounds.           *)
(*                                                                         *)
(* QueuedWasChecked is not inductive: a plan is checked before the await   *)
(* of enqueue() and added after it.  AgentInv says the same of the calls   *)
(* that are in between.                                                    *)
(*                                                                         *)
(* Nor is ActingSetsThePace: a call may add its intent long after its      *)
(* invocation ended, left behind by an exception or by a cancellation.     *)
(* PaceInv numbers the calls: one with the number of the last invocation   *)
(* asked for a dispatch in the message that set execution_payload, and     *)
(* before that message there is none with this number.                     *)
(***************************************************************************)
EXTENDS AgentRunner, TLAPS

\* what dispatch_execution demands of a call it lets through
Checked(call) ==
  /\ call.tool = "dispatch" /\ call.by = "runner"
  /\ {"*", call.plan.selector} \cap Allowlist # {}
  /\ call.plan.slippage \in 0..SlippageCap
  /\ call.plan.schema = "valid"

AgentInv ==
  /\ AgentTypeOK
  /\ ToldIsQueued
  /\ \A call \in intents : Checked(call)
  /\ \A call \in Call : <<call, "enqueue">> \in calls => Checked(call)

-----------------------------------------------------------------------------

\* The checks of dispatch_execution, in their order, let through only plans
\* that satisfy all of them.
LEMMA VerdictChecks ==
  ASSUME NEW plan \in Plans \cup {NoPlan}, Verdict(plan) = "enqueue"
  PROVE  /\ {"*", plan.selector} \cap Allowlist # {}
         /\ plan.slippage \in 0..SlippageCap
         /\ plan.schema = "valid"
<1>1. plan.selector # "none" /\ Allowed(plan)
      /\ plan.slippage # NotANumber /\ ~(plan.slippage > SlippageCap)
      /\ plan.schema # "raises"
      /\ ~(plan.schema = "invalid" \/ plan.slippage < 0)
  BY DEF Verdict
<1>2. plan \in Plans
  BY <1>1 DEF NoPlan
<1>3. plan.slippage \in Int /\ plan.schema \in {"valid", "invalid", "raises"}
  BY <1>2, AgentAssumption DEF AgentAssumption
<1>4. {"*", plan.selector} \cap Allowlist # {}
  BY <1>1 DEF Allowed
<1>5. plan.slippage \in 0..SlippageCap
  BY <1>1, <1>3 DEF SlippageCap
<1> QED
  BY <1>1, <1>3, <1>4, <1>5

LEMMA BecomesTyped ==
  ASSUME calls \subseteq Call \X Steps, NEW call \in Call, NEW was, NEW is,
         Becomes(call, was, is)
  PROVE  calls' \subseteq Call \X Steps
BY DEF Becomes

\* A call that goes on in another step than "enqueue" adds none to that step.
LEMMA BecomesSame ==
  ASSUME NEW call \in Call, NEW was, NEW is, is # "enqueue",
         Becomes(call, was, is)
  PROVE  \A c \in Call : <<c, "enqueue">> \in calls' => <<c, "enqueue">> \in calls
BY DEF Becomes

LEMMA InitEstablishes == ASSUME AgentInit PROVE AgentInv
<1>1. 0 \in 0..MaxFaults
  BY AgentAssumption DEF AgentAssumption
<1>2. AgentTypeOK
  BY <1>1 DEF AgentInit, AgentTypeOK, Nodes
<1> QED
  BY <1>2 DEF AgentInit, AgentInv, ToldIsQueued

\* the part of the invariant a step leaves alone if it adds no call to
\* "enqueue" and nothing to the stream
LEMMA QuietStep ==
  ASSUME AgentInv, AgentTypeOK',
         \A c \in Call : <<c, "enqueue">> \in calls' => <<c, "enqueue">> \in calls,
         UNCHANGED <<told, intents>>
  PROVE  AgentInv'
BY DEF AgentInv, ToldIsQueued, Checked

LEMMA CutKeeps ==
  ASSUME AgentInv, NEW gone \in SUBSET calls, Cut(gone), UNCHANGED told
  PROVE  /\ calls' \subseteq Call \X Steps /\ intents' \subseteq Call
         /\ ToldIsQueued'
         /\ \A call \in intents' : Checked(call)
         /\ \A call \in Call : <<call, "enqueue">> \in calls' => Checked(call)
<1>1. PICK sent \in SUBSET {x[1] : x \in gone \cap (Call \X {"enqueue"})} :
        intents' = intents \cup sent
  BY DEF Cut
<1>2. \A call \in sent : call \in Call /\ Checked(call)
  <2> SUFFICES ASSUME NEW call \in sent PROVE call \in Call /\ Checked(call)
    OBVIOUS
  <2>1. PICK x \in gone \cap (Call \X {"enqueue"}) : call = x[1]
    BY <1>1
  <2>2. x = <<call, "enqueue">> /\ call \in Call /\ x \in calls
    BY <2>1
  <2> QED
    BY <2>2 DEF AgentInv
<1>3. calls' \subseteq calls
  BY DEF Cut
<1> QED
  BY <1>1, <1>2, <1>3 DEF AgentInv, AgentTypeOK, ToldIsQueued

LEMMA ToolsKeep ==
  ASSUME AgentInv, ToolStep
  PROVE  AgentInv'
<1>1. PICK x \in calls : Check(x[1]) \/ Enqueue(x[1]) \/ ToolRaised(x[1])
  BY DEF ToolStep
<1> DEFINE call == x[1]
<1>2. call \in Call /\ calls \subseteq Call \X Steps
  BY <1>1 DEF AgentInv, AgentTypeOK
<1> HIDE DEF call
<1>3. CASE Check(call)
  <2>1. PICK is : Becomes(call, "begun", is)
                  /\ (is = "enqueue" => /\ call.tool = "dispatch"
                                        /\ call.by = "runner"
                                        /\ Verdict(call.plan) = "enqueue")
    BY <1>3 DEF Check
  <2>2. AgentTypeOK'
    <3>1. calls' \subseteq Call \X Steps
      BY <1>2, <2>1, BecomesTyped
    <3> QED
      BY <1>3, <3>1 DEF Check, AgentInv, AgentTypeOK, runner, redis
  <2>3. CASE is # "enqueue"
    <3>1. \A c \in Call : <<c, "enqueue">> \in calls' => <<c, "enqueue">> \in calls
      BY <1>2, <2>1, <2>3, BecomesSame
    <3> QED
      BY <1>3, <2>2, <3>1, QuietStep DEF Check, redis
  <2>4. CASE is = "enqueue"
    <3>1. call.plan \in Plans \cup {NoPlan}
      BY <1>2 DEF Call
    <3>2. Checked(call)
      BY <2>1, <2>4, <3>1, VerdictChecks DEF Checked
    <3>3. calls' = (calls \ {<<call, "begun">>}) \cup {<<call, "enqueue">>}
      BY <2>1, <2>4 DEF Becomes, Steps
    <3>4. \A c \in Call : <<c, "enqueue">> \in calls' => Checked(c)
      BY <3>2, <3>3 DEF AgentInv
    <3>5. UNCHANGED <<told, intents>>
      BY <1>3 DEF Check, redis
    <3> QED
      BY <2>2, <3>4, <3>5 DEF AgentInv, ToldIsQueued, Checked
  <2> QED
    BY <2>3, <2>4
<1>4. CASE Enqueue(call)
  <2>1. Becomes(call, "enqueue", "over") /\ <<call, "enqueue">> \in calls
    BY <1>4 DEF Enqueue
  <2>2. Checked(call)
    BY <1>2, <2>1 DEF AgentInv
  <2>3. calls' \subseteq Call \X Steps
        /\ \A c \in Call : <<c, "enqueue">> \in calls' => <<c, "enqueue">> \in calls
    BY <1>2, <2>1, BecomesTyped, BecomesSame
  <2>4. /\ intents' \subseteq intents \cup {call}
        /\ told' \subseteq Call /\ told' \subseteq intents'
        /\ faults' \in 0..MaxFaults
    BY <1>2, <1>4, AgentAssumption
       DEF Enqueue, AgentInv, AgentTypeOK, ToldIsQueued, AgentAssumption
  <2>5. AgentTypeOK'
    BY <1>2, <1>4, <2>3, <2>4 DEF Enqueue, AgentInv, AgentTypeOK, runner
  <2> QED
    BY <2>2, <2>3, <2>4, <2>5 DEF AgentInv, ToldIsQueued, Checked
<1>5. CASE ToolRaised(call)
  <2>1. Becomes(call, "raised", "answered")
    BY <1>5 DEF ToolRaised
  <2>2. calls' \subseteq Call \X Steps
        /\ \A c \in Call : <<c, "enqueue">> \in calls' => <<c, "enqueue">> \in calls
    BY <1>2, <2>1, BecomesTyped, BecomesSame
  <2>3. node' \in [Callers -> Nodes]
    BY <1>5 DEF ToolRaised, Goto, AgentInv, AgentTypeOK, Nodes
  <2>4. AgentTypeOK'
    BY <1>5, <2>2, <2>3 DEF ToolRaised, AgentInv, AgentTypeOK, runner, redis
  <2> QED
    BY <1>5, <2>2, <2>4, QuietStep DEF ToolRaised, redis
<1> QED
  BY <1>1, <1>3, <1>4, <1>5 DEF call

LEMMA NodesKeep ==
  ASSUME AgentInv, NodeStep
  PROVE  AgentInv'
<1>1. PICK c \in Callers : \/ MarketNode(c) \/ MarketTools(c)
                           \/ PortfolioNode(c) \/ PortfolioTools(c)
  BY DEF NodeStep
<1>2. UNCHANGED <<runner, count, told, redis>>
  BY <1>1 DEF MarketNode, MarketTools, PortfolioNode, PortfolioTools
<1>3. node' \in [Callers -> Nodes]
  BY <1>1 DEF MarketNode, MarketTools, PortfolioNode, PortfolioTools, Goto,
              AgentInv, AgentTypeOK, Nodes
<1>4. /\ payload' \in [Callers -> BOOLEAN]
      /\ calls' \subseteq Call \X Steps
      /\ \A x \in Call : <<x, "enqueue">> \in calls' => <<x, "enqueue">> \in calls
  <2>1. CASE UNCHANGED <<payload, calls>>
    BY <2>1 DEF AgentInv, AgentTypeOK
  <2>2. ASSUME NEW k \in 1..MaxCalls[c], NEW ask \in [1..k -> Asks],
               payload' = [payload EXCEPT ![c] = HasPayload(ask)],
               calls' = calls \cup
                 {<<[by |-> c, n |-> count[c], i |-> i, tool |-> ask[i][1],
                     plan |-> ask[i][2]], "begun">> : i \in DOMAIN ask}
        PROVE  <1>4!1 /\ <1>4!2 /\ <1>4!3
    <3>1. HasPayload(ask) \in BOOLEAN
      BY DEF HasPayload
    <3>2. \A i \in DOMAIN ask :
            [by |-> c, n |-> count[c], i |-> i, tool |-> ask[i][1],
             plan |-> ask[i][2]] \in Call
      <4> SUFFICES ASSUME NEW i \in DOMAIN ask
                   PROVE  [by |-> c, n |-> count[c], i |-> i,
                           tool |-> ask[i][1], plan |-> ask[i][2]] \in Call
        OBVIOUS
      <4>1. i \in Nat /\ ask[i] \in Asks
        BY <2>2, AgentAssumption DEF AgentAssumption
      <4>2. ask[i][1] \in Tools /\ ask[i][2] \in Plans \cup {NoPlan}
        BY <4>1 DEF Asks, Tools
      <4>3. count[c] \in Nat
        BY DEF AgentInv, AgentTypeOK
      <4> QED
        BY <4>1, <4>2, <4>3 DEF Call
    <3>3. calls' \subseteq Call \X Steps
      BY <2>2, <3>2 DEF AgentInv, AgentTypeOK, Steps
    <3>4. payload' \in [Callers -> BOOLEAN]
      BY <2>2, <3>1 DEF AgentInv, AgentTypeOK
    <3>5. \A x \in Call : <<x, "enqueue">> \in calls' => <<x, "enqueue">> \in calls
      BY <2>2
    <3> QED
      BY <3>3, <3>4, <3>5
  <2> QED
    BY <1>1, <2>1, <2>2
       DEF MarketNode, MarketTools, PortfolioNode, PortfolioTools
<1>5. AgentTypeOK'
  BY <1>2, <1>3, <1>4 DEF AgentInv, AgentTypeOK, runner, redis
<1> QED
  BY <1>2, <1>4, <1>5, QuietStep DEF redis

LEMMA BeginTyped ==
  ASSUME AgentInv, NEW c \in Callers, Begin(c)
  PROVE  /\ count' \in [Callers -> Nat] /\ node' \in [Callers -> Nodes]
         /\ payload' \in [Callers -> BOOLEAN] /\ UNCHANGED <<calls, told>>
BY DEF Begin, Goto, AgentInv, AgentTypeOK, Nodes

LEMMA NextKeeps ==
  ASSUME AgentInv, [AgentNext]_agentVars
  PROVE  AgentInv'
<1>1. CASE UNCHANGED agentVars
  BY <1>1 DEF agentVars, runner, graph, redis, AgentInv, AgentTypeOK,
              ToldIsQueued, Checked
<1>2. CASE ToolStep
  BY <1>2, ToolsKeep
<1>3. CASE NodeStep
  BY <1>3, NodesKeep
<1>4. CASE Wake \/ Stopped \/ Start \/ Stop
  <2>1. UNCHANGED <<graph, redis>> /\ AgentTypeOK'
    BY <1>4 DEF Wake, Stopped, Start, Stop, graph, redis, AgentInv, AgentTypeOK
  <2> QED
    BY <2>1, QuietStep DEF graph, redis
<1>5. CASE Poll
  <2>1. Begin("runner") /\ "runner" \in Callers
    BY <1>5 DEF Poll, Callers
  <2>2. AgentTypeOK' /\ UNCHANGED <<calls, told, intents>>
    BY <1>5, <2>1, BeginTyped DEF Poll, redis, AgentInv, AgentTypeOK
  <2> QED
    BY <2>2, QuietStep
<1>6. CASE Request
  <2>1. Begin("api") /\ "api" \in Callers
    BY <1>6 DEF Request, Callers
  <2>2. AgentTypeOK' /\ UNCHANGED <<calls, told, intents>>
    BY <1>6, <2>1, BeginTyped DEF Request, runner, redis, AgentInv, AgentTypeOK
  <2> QED
    BY <2>2, QuietStep
<1>7. CASE Invoked \/ Respond
  <2>1. UNCHANGED <<count, payload, calls, told, redis>>
    BY <1>7 DEF Invoked, Respond
  <2>2. node' \in [Callers -> Nodes]
    BY <1>7 DEF Invoked, Respond, Goto, AgentInv, AgentTypeOK, Nodes
  <2>3. /\ loop' \in {"off", "wait", "poll", "invoke", "ended"}
        /\ paid' \in BOOLEAN /\ last' \in {"none", "ok", "error"}
        /\ UNCHANGED <<event, stopping>>
    BY <1>7 DEF Invoked, Respond, runner, AgentInv, AgentTypeOK, Callers
  <2>4. AgentTypeOK'
    BY <2>1, <2>2, <2>3 DEF AgentInv, AgentTypeOK, redis
  <2> QED
    BY <2>1, <2>4, QuietStep DEF redis
<1>8. CASE CancelTask
  <2> DEFINE gone == {x \in calls : x[1].by = "runner" /\ Awaited(x[1])}
  <2>1. gone \in SUBSET calls /\ Cut(gone) /\ UNCHANGED told
    BY <1>8 DEF CancelTask
  <2> HIDE DEF gone
  <2>2. node' \in [Callers -> Nodes]
    BY <1>8 DEF CancelTask, Goto, AgentInv, AgentTypeOK, Nodes
  <2>3. AgentTypeOK'
    BY <1>8, <2>1, <2>2, CutKeeps DEF CancelTask, AgentInv, AgentTypeOK
  <2> QED
    BY <2>1, <2>3, CutKeeps DEF AgentInv, Checked
<1>9. CASE Die
  <2>1. calls \in SUBSET calls /\ Cut(calls) /\ UNCHANGED told
    BY <1>9 DEF Die
  <2>2. node' \in [Callers -> Nodes]
    BY <1>9 DEF Die, Nodes
  <2>3. AgentTypeOK'
    BY <1>9, <2>1, <2>2, CutKeeps DEF Die, AgentInv, AgentTypeOK
  <2> QED
    BY <2>1, <2>3, CutKeeps DEF AgentInv, Checked
<1> QED
  BY <1>1, <1>2, <1>3, <1>4, <1>5, <1>6, <1>7, <1>8, <1>9
     DEF AgentNext, LoopStep

-----------------------------------------------------------------------------

\* AgentInv holds in every reachable state of the agent, its callers and
\* Redis.
THEOREM AgentInvariant == AgentSafety => []AgentInv
<1>1. AgentInit => AgentInv
  BY InitEstablishes
<1>2. AgentInv /\ [AgentNext]_agentVars => AgentInv'
  BY NextKeeps
<1> QED
  BY <1>1, <1>2, PTL DEF AgentSafety

\* Every variable keeps its type.
THEOREM AgentTypeCorrect == AgentSafety => []AgentTypeOK
<1>1. AgentInv => AgentTypeOK
  BY DEF AgentInv
<1> QED
  BY <1>1, AgentInvariant, PTL

\* Whatever the LLM asks for, how many calls it puts in a message, and
\* whichever call is cancelled or left behind: only checked plans reach the
\* stream.
THEOREM OnlyCheckedPlansQueued == AgentSafety => []QueuedWasChecked
<1>1. AgentInv => QueuedWasChecked
  BY DEF AgentInv, QueuedWasChecked, Checked
<1> QED
  BY <1>1, AgentInvariant, PTL

\* The LLM is never told that a plan is queued that is not in the stream.
THEOREM QueuedAsTold == AgentSafety => []ToldIsQueued
<1>1. AgentInv => ToldIsQueued
  BY DEF AgentInv
<1> QED
  BY <1>1, AgentInvariant, PTL
-----------------------------------------------------------------------------

(* the pace of the poll loop *)

\* the invocation has not asked for a tool of the portfolio node yet
Early == {"market", "market_tools", "portfolio"}

Issued(call) == call \in intents \/ \E s \in Steps : <<call, s>> \in calls

\* the graph runs for the runner only inside its await
RunnerAwaits == loop # "invoke" => node["runner"] = "idle"

CallsNumbered ==
  \A call \in Call : Issued(call) /\ call.by = "runner" =>
    /\ call.n <= count["runner"]
    /\ node["runner"] \in Early => call.n < count["runner"]
    /\ call.n = count["runner"] /\ call.tool = "dispatch" => payload["runner"]

PaidIsPayload ==
  /\ loop = "off" => last = "none"
  /\ loop = "wait" /\ last = "ok" => paid = payload["runner"]

PaceInv == RunnerAwaits /\ CallsNumbered /\ PaidIsPayload

LEMMA PaceInit == ASSUME AgentInit PROVE PaceInv
BY DEF AgentInit, PaceInv, RunnerAwaits, CallsNumbered, PaidIsPayload, Issued,
       Callers

\* A step that issues no call and begins no invocation of the runner keeps
\* the numbering.
LEMMA NumberingKept ==
  ASSUME CallsNumbered,
         \A call \in Call : Issued(call)' => Issued(call),
         UNCHANGED <<count["runner"], payload["runner"]>>,
         node["runner"]' \in Early => node["runner"] \in Early
  PROVE  CallsNumbered'
BY DEF CallsNumbered

\* A call that goes on, or is over, was issued before.
LEMMA BecomesIssued ==
  ASSUME NEW call \in Call, NEW was \in Steps, NEW is,
         <<call, was>> \in calls, Becomes(call, was, is),
         intents' \subseteq intents \cup {call}
  PROVE  \A c \in Call : Issued(c)' => Issued(c)
BY DEF Becomes, Issued

LEMMA CutIssued ==
  ASSUME calls \subseteq Call \X Steps, NEW gone \in SUBSET calls, Cut(gone)
  PROVE  \A c \in Call : Issued(c)' => Issued(c)
<1>1. PICK sent \in SUBSET {x[1] : x \in gone \cap (Call \X {"enqueue"})} :
        intents' = intents \cup sent
  BY DEF Cut
<1>2. \A c \in sent : <<c, "enqueue">> \in calls
  <2> SUFFICES ASSUME NEW c \in sent PROVE <<c, "enqueue">> \in calls
    OBVIOUS
  <2>1. PICK x \in gone \cap (Call \X {"enqueue"}) : c = x[1]
    BY <1>1
  <2> QED
    BY <2>1
<1>3. calls' \subseteq calls
  BY DEF Cut
<1> QED
  BY <1>1, <1>2, <1>3 DEF Issued, Steps

LEMMA ToolsKeepPace ==
  ASSUME AgentInv, PaceInv, ToolStep
  PROVE  PaceInv'
<1>1. PICK x \in calls : Check(x[1]) \/ Enqueue(x[1]) \/ ToolRaised(x[1])
  BY DEF ToolStep
<1> DEFINE call == x[1]
<1>2. call \in Call
  BY <1>1 DEF AgentInv, AgentTypeOK
<1> HIDE DEF call
<1>3. \A c \in Call : Issued(c)' => Issued(c)
  <2>1. CASE Check(call)
    <3>1. <<call, "begun">> \in calls /\ intents' = intents
          /\ \E is : Becomes(call, "begun", is)
      BY <2>1 DEF Check, redis
    <3> QED
      BY <1>2, <3>1, BecomesIssued DEF Steps
  <2>2. CASE Enqueue(call)
    <3>1. <<call, "enqueue">> \in calls /\ Becomes(call, "enqueue", "over")
          /\ intents' \subseteq intents \cup {call}
      BY <2>2 DEF Enqueue
    <3> QED
      BY <1>2, <3>1, BecomesIssued DEF Steps
  <2>3. CASE ToolRaised(call)
    <3>1. <<call, "raised">> \in calls /\ Becomes(call, "raised", "answered")
          /\ intents' = intents
      BY <2>3 DEF ToolRaised, redis
    <3> QED
      BY <1>2, <3>1, BecomesIssued DEF Steps
  <2> QED
    BY <1>1, <2>1, <2>2, <2>3 DEF call
<1>4. UNCHANGED <<runner, count, payload>>
  BY <1>1 DEF Check, Enqueue, ToolRaised
<1>5. \/ node' = node
      \/ node["runner"] = "portfolio_tools" /\ node' = [node EXCEPT !["runner"] = "raised"]
      \/ node' = [node EXCEPT !["api"] = "raised"]
  <2>1. node' = node \/ (Awaited(call) /\ Goto(call.by, "raised"))
    BY <1>1 DEF Check, Enqueue, ToolRaised, call
  <2>2. call.by \in Callers
    BY <1>2 DEF Call
  <2> QED
    BY <2>1, <2>2 DEF Awaited, Goto, Callers
<1>6. /\ node["runner"]' \in Early => node["runner"] \in Early
      /\ node["runner"] = "idle" => node["runner"]' = "idle"
  BY <1>5 DEF AgentInv, AgentTypeOK, Early, Callers
<1>7. CallsNumbered'
  BY <1>3, <1>4, <1>6, NumberingKept DEF PaceInv
<1> QED
  BY <1>4, <1>6, <1>7 DEF PaceInv, RunnerAwaits, PaidIsPayload, runner

LEMMA NodesKeepPace ==
  ASSUME AgentInv, PaceInv, NodeStep
  PROVE  PaceInv'
<1>1. PICK c \in Callers : \/ MarketNode(c) \/ MarketTools(c)
                           \/ PortfolioNode(c) \/ PortfolioTools(c)
  BY DEF NodeStep
<1>2. UNCHANGED <<runner, count, redis>>
  BY <1>1 DEF MarketNode, MarketTools, PortfolioNode, PortfolioTools
<1>3. PICK to \in Nodes : Goto(c, to) /\ node[c] # "idle"
  BY <1>1 DEF MarketNode, MarketTools, PortfolioNode, PortfolioTools, Goto,
              Nodes
<1>4. node["runner"] = "idle" => node["runner"]' = "idle" /\ c # "runner"
  BY <1>3 DEF Goto, AgentInv, AgentTypeOK, Callers
<1>5. CASE UNCHANGED <<payload, calls>>
  <2>1. \A x \in Call : Issued(x)' => Issued(x)
    BY <1>2, <1>5 DEF Issued, redis
  <2>2. node["runner"]' \in Early => node["runner"] \in Early
    BY <1>1 DEF MarketNode, MarketTools, PortfolioNode, PortfolioTools, Goto,
                Early, AgentInv, AgentTypeOK, Callers
  <2>3. CallsNumbered'
    BY <1>2, <1>5, <2>1, <2>2, NumberingKept DEF PaceInv
  <2> QED
    BY <1>2, <1>4, <1>5, <2>3 DEF PaceInv, RunnerAwaits, PaidIsPayload, runner
<1>6. ASSUME NEW k \in 1..MaxCalls[c], NEW ask \in [1..k -> Asks],
             node[c] = "portfolio", Goto(c, "portfolio_tools"),
             payload' = [payload EXCEPT ![c] = HasPayload(ask)],
             calls' = calls \cup
               {<<[by |-> c, n |-> count[c], i |-> i, tool |-> ask[i][1],
                   plan |-> ask[i][2]], "begun">> : i \in DOMAIN ask}
      PROVE  PaceInv'
  <2>1. CASE c = "api"
    <3>1. /\ payload'["runner"] = payload["runner"]
          /\ node'["runner"] = node["runner"]
      BY <1>6, <2>1 DEF Goto, AgentInv, AgentTypeOK, Callers
    <3>2. \A x \in Call : Issued(x)' /\ x.by = "runner" => Issued(x)
      BY <1>2, <1>6, <2>1 DEF Issued, redis
    <3>3. CallsNumbered'
      BY <1>2, <3>1, <3>2 DEF PaceInv, CallsNumbered
    <3> QED
      BY <1>2, <1>4, <3>1, <3>3 DEF PaceInv, RunnerAwaits, PaidIsPayload, runner
  <2>2. CASE c = "runner"
    <3>1. /\ payload'["runner"] = HasPayload(ask)
          /\ node'["runner"] = "portfolio_tools"
          /\ count["runner"] \in Nat
      BY <1>6, <2>2 DEF Goto, AgentInv, AgentTypeOK, Callers
    <3>2. ASSUME NEW x \in Call, Issued(x)', x.by = "runner"
          PROVE  /\ x.n <= count["runner"]
                 /\ x.n = count["runner"] /\ x.tool = "dispatch" => HasPayload(ask)
      <4>1. CASE Issued(x)
        BY <1>6, <2>2, <3>1, <3>2, <4>1
           DEF PaceInv, CallsNumbered, Early, Call
      <4>2. CASE ~Issued(x)
        <5>1. \E i \in DOMAIN ask :
                x = [by |-> c, n |-> count[c], i |-> i, tool |-> ask[i][1],
                     plan |-> ask[i][2]]
          BY <1>2, <1>6, <3>2, <4>2 DEF Issued, redis
        <5> QED
          BY <2>2, <3>1, <5>1 DEF HasPayload
      <4> QED
        BY <4>1, <4>2
    <3>3. CallsNumbered'
      BY <1>2, <3>1, <3>2 DEF CallsNumbered, Early
    <3>4. loop = "invoke"
      BY <1>6, <2>2 DEF PaceInv, RunnerAwaits
    <3> QED
      BY <1>2, <3>3, <3>4 DEF PaceInv, RunnerAwaits, PaidIsPayload, runner
  <2> QED
    BY <2>1, <2>2 DEF Callers
<1> QED
  BY <1>1, <1>5, <1>6 DEF MarketNode, MarketTools, PortfolioNode, PortfolioTools

LEMMA NextKeepsPace ==
  ASSUME AgentInv, PaceInv, [AgentNext]_agentVars
  PROVE  PaceInv'
<1>1. CASE UNCHANGED agentVars
  BY <1>1 DEF agentVars, runner, graph, redis, PaceInv, RunnerAwaits,
              CallsNumbered, PaidIsPayload, Issued
<1>2. CASE ToolStep
  BY <1>2, ToolsKeepPace
<1>3. CASE NodeStep
  BY <1>3, NodesKeepPace
<1>4. CASE Wake \/ Stopped \/ Start \/ Stop
  <2>1. UNCHANGED <<graph, redis, paid, last>>
    BY <1>4 DEF Wake, Stopped, Start, Stop
  <2>2. CallsNumbered'
    BY <2>1 DEF graph, redis, PaceInv, CallsNumbered, Issued
  <2>3. loop' # "invoke" => loop # "invoke"
    BY <1>4 DEF Wake, Stopped, Start, Stop
  <2> QED
    BY <1>4, <2>1, <2>2, <2>3
       DEF PaceInv, RunnerAwaits, PaidIsPayload, graph, Wake, Stopped, Start, Stop
<1>5. CASE Poll
  <2>1. /\ count'["runner"] = count["runner"] + 1 /\ count["runner"] \in Nat
        /\ node'["runner"] = "market" /\ payload'["runner"] = FALSE
        /\ UNCHANGED <<calls, redis>> /\ loop' = "invoke"
    BY <1>5 DEF Poll, Begin, Goto, AgentInv, AgentTypeOK, Callers
  <2>2. CallsNumbered'
    BY <2>1 DEF PaceInv, CallsNumbered, Issued, redis, Call
  <2> QED
    BY <2>1, <2>2 DEF PaceInv, RunnerAwaits, PaidIsPayload
<1>6. CASE Request \/ Respond
  <2>1. /\ UNCHANGED <<runner, calls, redis, count["runner"], payload["runner"]>>
        /\ node'["runner"] = node["runner"]
    BY <1>6 DEF Request, Respond, Begin, Goto, AgentInv, AgentTypeOK, Callers
  <2>2. CallsNumbered'
    BY <2>1 DEF PaceInv, CallsNumbered, Issued, redis
  <2> QED
    BY <2>1, <2>2 DEF PaceInv, RunnerAwaits, PaidIsPayload, runner
<1>7. CASE Invoked
  <2>1. /\ UNCHANGED <<count, payload, calls, redis>>
        /\ node'["runner"] = "idle" /\ loop' \in {"ended", "wait"}
        /\ last' = "ok" => paid' = payload["runner"]
    BY <1>7 DEF Invoked, Goto, AgentInv, AgentTypeOK, Callers
  <2>2. CallsNumbered'
    BY <2>1 DEF PaceInv, CallsNumbered, Issued, redis, Early
  <2> QED
    BY <2>1, <2>2 DEF PaceInv, RunnerAwaits, PaidIsPayload
<1>8. CASE CancelTask \/ Die
  <2>1. /\ UNCHANGED <<count, payload>> /\ loop' = "ended"
        /\ node'["runner"] = "idle"
    BY <1>8 DEF CancelTask, Die, Goto, AgentInv, AgentTypeOK, Callers
  <2>2. \E gone \in SUBSET calls : Cut(gone)
    BY <1>8 DEF CancelTask, Die
  <2>3. \A x \in Call : Issued(x)' => Issued(x)
    BY <2>2, CutIssued DEF AgentInv, AgentTypeOK
  <2>4. CallsNumbered'
    BY <2>1, <2>3 DEF PaceInv, CallsNumbered, Early
  <2> QED
    BY <2>1, <2>4 DEF PaceInv, RunnerAwaits, PaidIsPayload
<1> QED
  BY <1>1, <1>2, <1>3, <1>4, <1>5, <1>6, <1>7, <1>8 DEF AgentNext, LoopStep

LEMMA PaceMeansActing ==
  ASSUME AgentInv, PaceInv
  PROVE  ActingSetsThePace
<1> SUFFICES ASSUME loop = "wait", last = "ok",
                    NEW x \in intents, x.by = "runner", x.n = count["runner"]
             PROVE  paid
  BY DEF ActingSetsThePace
<1>1. x \in Call /\ x.tool = "dispatch"
  BY DEF AgentInv, AgentTypeOK, Checked
<1>2. payload["runner"]
  BY <1>1 DEF PaceInv, CallsNumbered, Issued
<1> QED
  BY <1>2 DEF PaceInv, PaidIsPayload, AgentInv, AgentTypeOK

THEOREM PaceInvariant == AgentSafety => []PaceInv
<1>1. AgentInit => PaceInv
  BY PaceInit
<1>2. AgentInv /\ PaceInv /\ [AgentNext]_agentVars => PaceInv'
  BY NextKeepsPace
<1> QED
  BY <1>1, <1>2, AgentInvariant, PTL DEF AgentSafety

\* Whatever calls an exception left behind and whenever they add their
\* intents, the wait that follows an invocation that queued one is the short
\* one.
THEOREM ShortWaitAfterActing == AgentSafety => []ActingSetsThePace
<1>1. AgentInv /\ PaceInv => ActingSetsThePace
  BY PaceMeansActing
<1> QED
  BY <1>1, AgentInvariant, PaceInvariant, PTL

=============================================================================
