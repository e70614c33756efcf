----------------------------- MODULE AgentRunner -----------------------------
(***************************************************************************)
(* The agent: who invokes its graph, the graph, and the one tool with an   *)
(* effect.                                                                 *)
(*                                                                         *)
(* app/agents/runner.py          the poll loop, start and stop             *)
(* app/api/routes/agent.py       POST /agent/invoke                        *)
(* app/agents/graph.py           nodes and routing                         *)
(* app/agents/tools/dispatch.py  dispatch_execution: checks, then XADD     *)
(* app/schemas/intent.py         ExecutionPayload                          *)
(*                                                                         *)
(* The graph is shared and keeps nothing between invocations; an           *)
(* invocation is named by its caller and a number.  The LLM may answer     *)
(* anything, fail, or never answer.  Of the tools only dispatch_execution  *)
(* is told apart; the others read.                                         *)
(***************************************************************************)
EXTENDS Integers, FiniteSets

CONSTANTS
  Plans,       \* arguments the LLM may give to dispatch_execution
  Allowlist,   \* settings.agent_calldata_allowlist: selectors, or "*"
  MaxCalls,    \* bound of the model: caller -> tool calls in one message
  MaxPolls,    \* bound of the model: invocations by the poll loop
  MaxRequests, \* bound of the model: invocations through the API
  MaxFaults    \* bound of the model: calls to Redis that raise

Callers == {"runner", "api"}

(***************************************************************************)
(* A plan:                                                                 *)
(*   selector  the first four bytes of call_data, "short" if there are     *)
(*             fewer, "none" if call_data is not a string                  *)
(*   slippage  max_slippage_bps, or NotANumber                             *)
(*   schema    "valid", "invalid" (ExecutionPayload or TriggerCondition    *)
(*             rejects a field, or one is missing), or "raises" (the       *)
(*             trigger condition has no get())                             *)
(***************************************************************************)
NotANumber == -1000
SlippageCap == 100
NoPlan == [selector |-> "none", slippage |-> NotANumber, schema |-> "invalid"]

ASSUME AgentAssumption ==
  /\ \A p \in Plans : /\ p.slippage \in Int
                      /\ p.schema \in {"valid", "invalid", "raises"}
  /\ MaxCalls \in [Callers -> Nat] /\ MaxPolls \in Nat /\ MaxRequests \in Nat
  /\ MaxFaults \in Nat

VARIABLES
  (* the runner *)
  loop,      \* its task: "off", "wait", "poll", "invoke" or "ended"
  event,     \* its shutdown event
  stopping,  \* stop(): "no", "waiting" for the task, "done"
  paid,      \* _last_had_payload
  last,      \* how the last invocation went: "none", "ok" or "error"
  (* the invocations *)
  count,     \* caller -> invocations so far
  node,      \* caller -> where its invocation is
  payload,   \* caller -> execution_payload is set in the state
  calls,     \* tool calls of the portfolio node that are not over, of any
             \* invocation
  told,      \* calls the LLM was told are queued
  (* Redis *)
  intents,   \* calls whose plan was added to the stream of execution plans
  faults     \* calls to Redis that raised so far

runner == <<loop, event, stopping, paid, last>>
graph  == <<count, node, payload, calls, told>>
redis  == <<intents, faults>>
agentVars == <<runner, graph, redis>>

Tools == {"dispatch", "read"}
Nodes == {"idle", "market", "market_tools", "portfolio", "portfolio_tools",
          "end", "raised"}

Asks == ({"dispatch"} \X Plans) \cup {<<"read", NoPlan>>}

Call == [by : Callers, n : Nat, i : Nat, tool : Tools,
         plan : Plans \cup {NoPlan}]

\* begun; past the checks, in enqueue(); or ended by an exception
Steps == {"begun", "enqueue", "raised"}

AgentTypeOK ==
  /\ loop \in {"off", "wait", "poll", "invoke", "ended"}
  /\ event \in BOOLEAN /\ stopping \in {"no", "waiting", "done"}
  /\ paid \in BOOLEAN /\ last \in {"none", "ok", "error"}
  /\ count \in [Callers -> Nat] /\ node \in [Callers -> Nodes]
  /\ payload \in [Callers -> BOOLEAN]
  /\ calls \subseteq Call \X Steps
  /\ told \subseteq Call /\ intents \subseteq Call
  /\ faults \in 0..MaxFaults

AgentInit ==
  /\ loop = "off" /\ event = FALSE /\ stopping = "no" /\ paid = FALSE
  /\ last = "none"
  /\ count = [c \in Callers |-> 0] /\ node = [c \in Callers |-> "idle"]
  /\ payload = [c \in Callers |-> FALSE] /\ calls = {}
  /\ told = {} /\ intents = {} /\ faults = 0

-----------------------------------------------------------------------------
(* dispatch_execution: the checks, in their order *)

\* mutant: what is not on the blocklist passes
AllowedUnlessBlocked(plan) == plan.selector # "dangerous"

\* the blocklist only gives another reason for what is refused anyway
Allowed(plan) == "*" \in Allowlist \/ plan.selector \in Allowlist

\* "enqueue": validated.  call_data without a length, a slippage that does
\* not compare and a trigger without get() raise out of the tool.
Verdict(plan) ==
  CASE plan.selector = "none"        -> "raised"
    [] ~Allowed(plan)                -> "rejected"
    [] plan.slippage = NotANumber    -> "raised"
    [] plan.slippage > SlippageCap   -> "rejected"
    [] plan.schema = "raises"        -> "raised"
    [] plan.schema = "invalid" \/ plan.slippage < 0 -> "rejected"
    [] OTHER                         -> "enqueue"

\* mutant: a call that is over is not forgotten
BecomesForever(call, was, is) ==
  calls' = (calls \ {<<call, was>>}) \cup {<<call, is>>}

\* the call goes on, or it is over
Becomes(call, was, is) ==
  calls' = (calls \ {<<call, was>>}) \cup
             (IF is \in Steps THEN {<<call, is>>} ELSE {})

\* its invocation still awaits it; an exception that left the ToolNode left
\* the other calls behind, running
Awaited(call) == /\ call.n = count[call.by]
                 /\ node[call.by] = "portfolio_tools"

\* up to the await of enqueue(); the API's context holds no execution_queue,
\* and whether the runner's reaches the tool is the library's affair
Check(call) ==
  /\ <<call, "begun">> \in calls
  /\ \/ Becomes(call, "begun", "answered")
     \/ /\ call.tool = "dispatch" /\ call.by = "runner"
        /\ Becomes(call, "begun", Verdict(call.plan))
     \/ call.tool = "read" /\ Becomes(call, "begun", "raised")
  /\ UNCHANGED <<runner, count, node, payload, told, redis>>

\* mutant: the error of XADD is taken for success
EnqueueErrorSwallowed(call) ==
  /\ <<call, "enqueue">> \in calls
  /\ Becomes(call, "enqueue", "queued") /\ told' = told \cup {call}
  /\ \/ intents' = intents \cup {call} /\ UNCHANGED faults
     \/ faults < MaxFaults /\ faults' = faults + 1 /\ UNCHANGED intents
  /\ UNCHANGED <<runner, count, node, payload>>

\* XADD; when it raises, with or without effect, the LLM is told "rejected"
Enqueue(call) ==
  /\ <<call, "enqueue">> \in calls
  /\ Becomes(call, "enqueue", "over")
  /\ \/ /\ intents' = intents \cup {call} /\ told' = told \cup {call}
        /\ UNCHANGED faults
     \/ /\ intents' \in {intents, intents \cup {call}} /\ UNCHANGED told
        /\ faults < MaxFaults /\ faults' = faults + 1
  /\ UNCHANGED <<runner, count, node, payload>>

-----------------------------------------------------------------------------
(* The graph *)

Goto(c, where) == node' = [node EXCEPT ![c] = where]

\* market_intelligence_node and _needs_tool_execution.  An exception becomes
\* an error message, without tool calls.
MarketNode(c) ==
  /\ node[c] = "market"
  /\ Goto(c, "market_tools") \/ Goto(c, "portfolio")
  /\ UNCHANGED <<runner, count, payload, calls, told, redis>>

\* the ToolNode of the market tools; dispatch_execution is not among them
MarketTools(c) ==
  /\ node[c] = "market_tools"
  /\ Goto(c, "portfolio") \/ Goto(c, "raised")
  /\ UNCHANGED <<runner, count, payload, calls, told, redis>>

\* mutant: only the first tool call is looked at
HasPayloadFirst(ask) == ask[1][1] = "dispatch"

\* execution_payload is taken from the arguments of the tool call
HasPayload(ask) == \E i \in DOMAIN ask : ask[i][1] = "dispatch"

\* portfolio_router_node and _route_after_portfolio
PortfolioNode(c) ==
  /\ node[c] = "portfolio"
  /\ \/ Goto(c, "end") /\ UNCHANGED <<payload, calls>>
     \/ \E k \in 1..MaxCalls[c] : \E ask \in [1..k -> Asks] :
          /\ Goto(c, "portfolio_tools")
          /\ payload' = [payload EXCEPT ![c] = HasPayload(ask)]
          /\ calls' = calls \cup
               {<<[by |-> c, n |-> count[c], i |-> i, tool |-> ask[i][1],
                   plan |-> ask[i][2]], "begun">> : i \in DOMAIN ask}
  /\ UNCHANGED <<runner, count, told, redis>>

\* the ToolNode of the portfolio tools awaits all calls, then END
PortfolioTools(c) ==
  /\ node[c] = "portfolio_tools"
  /\ \A x \in calls : ~(x[1].by = c /\ x[1].n = count[c])
  /\ Goto(c, "end")
  /\ UNCHANGED <<runner, count, payload, calls, told, redis>>

\* an exception of a tool: an error message, or (the library's default) out
\* of the graph at once, leaving the other calls behind
ToolRaised(call) ==
  /\ <<call, "raised">> \in calls /\ Becomes(call, "raised", "answered")
  /\ \/ UNCHANGED node
     \/ Awaited(call) /\ Goto(call.by, "raised")
  /\ UNCHANGED <<runner, count, payload, told, redis>>

Begin(c) ==
  /\ count' = [count EXCEPT ![c] = @ + 1]
  /\ Goto(c, "market")
  /\ payload' = [payload EXCEPT ![c] = FALSE]
  /\ UNCHANGED <<calls, told>>

-----------------------------------------------------------------------------
(* Who invokes it *)

\* POST /agent/invoke: not under the runner's lock
Request ==
  /\ node["api"] = "idle" /\ count["api"] < MaxRequests
  /\ Begin("api")
  /\ UNCHANGED <<runner, redis>>

Respond ==
  /\ node["api"] \in {"end", "raised"}
  /\ Goto("api", "idle")
  /\ UNCHANGED <<runner, count, payload, calls, told, redis>>

Start ==
  /\ loop = "off" /\ loop' = "wait"
  /\ UNCHANGED <<event, stopping, paid, last, graph, redis>>

\* the wait for the shutdown event: it is set, or the interval is over
Wake ==
  /\ loop = "wait"
  /\ \/ event /\ loop' = "ended"
     \/ ~event /\ loop' = "poll"
  /\ UNCHANGED <<event, stopping, paid, last, graph, redis>>

\* the event may be set between the timeout and this; the lock is free,
\* because only this loop takes it
Poll ==
  /\ loop = "poll" /\ count["runner"] < MaxPolls
  /\ loop' = "invoke" /\ Begin("runner")
  /\ UNCHANGED <<event, stopping, paid, last, redis>>

\* _invoke_graph after ainvoke, and the head of the loop
Invoked ==
  /\ loop = "invoke" /\ node["runner"] \in {"end", "raised"}
  /\ loop' = IF event THEN "ended" ELSE "wait"
  /\ IF node["runner"] = "end"
     THEN paid' = payload["runner"] /\ last' = "ok"
     ELSE paid' = FALSE /\ last' = "error"
  /\ Goto("runner", "idle")
  /\ UNCHANGED <<event, stopping, count, payload, calls, told, redis>>

\* stop(): set the event and wait for the task
Stop ==
  /\ stopping = "no" /\ loop # "off"
  /\ event' = TRUE /\ stopping' = "waiting"
  /\ UNCHANGED <<loop, paid, last, graph, redis>>

Stopped ==
  /\ stopping = "waiting" /\ loop = "ended"
  /\ stopping' = "done"
  /\ UNCHANGED <<loop, event, paid, last, graph, redis>>

\* Calls that are cancelled; an XADD on its way may have had its effect.
Cut(gone) ==
  /\ calls' = calls \ gone
  /\ \E sent \in SUBSET {x[1] : x \in gone \cap (Call \X {"enqueue"})} :
       intents' = intents \cup sent

\* mutant: stop() does not cancel
NoCancel == FALSE /\ UNCHANGED agentVars

\* after 30 s: cancel the task, and with it the calls it awaits
CancelTask ==
  /\ stopping = "waiting" /\ loop # "ended"
  /\ stopping' = "done" /\ loop' = "ended"
  /\ Goto("runner", "idle")
  /\ Cut({x \in calls : x[1].by = "runner" /\ Awaited(x[1])})
  /\ UNCHANGED <<event, paid, last, count, payload, told, faults>>

\* the process ends, or asyncio.run cancels what is left
Die ==
  /\ loop' = "ended"
  /\ stopping' = "done" /\ event' = TRUE
  /\ node' = [c \in Callers |-> "idle"]
  /\ Cut(calls)
  /\ UNCHANGED <<paid, last, count, payload, told, faults>>

-----------------------------------------------------------------------------

ToolStep == \E x \in calls : Check(x[1]) \/ Enqueue(x[1]) \/ ToolRaised(x[1])
NodeStep == \E c \in Callers : \/ MarketNode(c) \/ MarketTools(c)
                               \/ PortfolioNode(c) \/ PortfolioTools(c)
LoopStep == Wake \/ Poll \/ Invoked \/ Stopped

AgentNext == \/ ToolStep \/ NodeStep \/ LoopStep \/ Request \/ Respond
             \/ Start \/ Stop \/ CancelTask \/ Die

AgentSafety == AgentInit /\ [][AgentNext]_agentVars

\* wait_for returns when the task ended or after its timeout; nothing is
\* assumed of the LLM, of the tools or of the loop
AgentSpec == AgentSafety /\ WF_agentVars(Stopped \/ CancelTask)

-----------------------------------------------------------------------------
(* Properties *)

\* What reaches the stream passed every check, whatever the LLM asked for:
\* an allowed selector, a slippage within the cap, a valid schema, and never
\* a request through the API.
QueuedWasChecked ==
  \A x \in intents : /\ x.tool = "dispatch" /\ x.by = "runner"
                     /\ {"*", x.plan.selector} \cap Allowlist # {}
                     /\ x.plan.slippage \in 0..SlippageCap
                     /\ x.plan.schema = "valid"

\* What the LLM is told is queued is in the stream, through errors of Redis
\* and a cancellation in the middle.
ToldIsQueued == told \subseteq intents

\* The interval that follows an invocation that queued an intent is the short
\* one ("when the last run produced an execution payload").
ActingSetsThePace ==
  loop = "wait" /\ last = "ok" =>
    \A x \in intents : x.by = "runner" /\ x.n = count["runner"] => paid

\* stop() returns, also when the LLM never answers.
StopCompletes == stopping = "waiting" ~> stopping = "done"
=============================================================================
