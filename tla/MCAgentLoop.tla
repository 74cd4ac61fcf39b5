---------------------------- MODULE MCAgentLoop ------------------------------
(* AgentLoop with an override, a compact and a turn; and with two turns.     *)
EXTENDS AgentLoop

CONSTANTS override, compact, ask1, ask2

KindOf(u) == CASE u = override -> "override" [] u = compact -> "compact" [] OTHER -> "ask"

MCUtterances == {override, compact, ask1}
MCKinds == [u \in MCUtterances |-> KindOf(u)]
TwoUtterances == {ask1, ask2}
TwoKinds == [u \in TwoUtterances |-> KindOf(u)]
=============================================================================
