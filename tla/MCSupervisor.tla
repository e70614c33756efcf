---------------------------- MODULE MCSupervisor -----------------------------
EXTENDS Supervisor

\* the checks of the plans are MCAgentRunner's subject: one passes, one not
MCPlans == {[selector |-> s, slippage |-> 50, schema |-> "valid"] :
              s \in {"transfer", "unknown"}}

MCCalls == [c \in Callers |-> 1]
=============================================================================
