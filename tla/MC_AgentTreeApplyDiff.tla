------------------------- MODULE MC_AgentTreeApplyDiff -------------------------
EXTENDS AgentTreeApplyDiff

\* The two agent_tree tools and one name the handler does not serve.
MCToolNames == {"agent_tree_delegate", "agent_tree_apply_diff", "shell"}
=============================================================================
