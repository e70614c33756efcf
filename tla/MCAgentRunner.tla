---------------------------- MODULE MCAgentRunner ----------------------------
EXTENDS AgentRunner

Plan(selector, slippage, schema) ==
  [selector |-> selector, slippage |-> slippage, schema |-> schema]

\* one plan for each way through the checks that a property tells apart
MCPlans == {Plan("transfer", 100, "valid"), Plan("unknown", 50, "valid"),
            Plan("transfer", 101, "valid"), Plan("none", 50, "raises")}

MCCalls == [c \in Callers |-> IF c = "runner" THEN 2 ELSE 1]
=============================================================================
