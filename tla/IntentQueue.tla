----------------------------- MODULE IntentQueue -----------------------------
(***************************************************************************)
(* What the loop promises its clients, whatever it does for each of them:  *)
(* utterances are served one by one in the order they came, each exactly   *)
(* once, unless the daemon dies, and then all the waiting ones are lost.   *)
(* (loop.ts:2-12: "event-driven serial intent runner".)                    *)
(***************************************************************************)
EXTENDS Sequences

CONSTANT Intents

VARIABLES
    pending,    \* accepted and not yet served, oldest first
    served      \* served, in that order

queueVars == <<pending, served>>

QueueInit == pending = <<>> /\ served = <<>>

Accept(i) == pending' = Append(pending, i) /\ UNCHANGED served

Serve ==
    /\ pending # <<>>
    /\ served' = Append(served, Head(pending))
    /\ pending' = Tail(pending)

Lose == pending' = <<>> /\ UNCHANGED served

QueueNext == (\E i \in Intents : Accept(i)) \/ Serve \/ Lose

QueueSafety == QueueInit /\ [][QueueNext]_queueVars
QueueLiveness == WF_queueVars(Serve)
QueueSpec == QueueSafety /\ QueueLiveness
=============================================================================
