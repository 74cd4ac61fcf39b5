--------------------------- MODULE ObstacleLadder ----------------------------
(***************************************************************************)
(* planner/ladder.ts: one run of the ladder for one goal, TRY, REPLAN,     *)
(* DECOMPOSE, BACKOFF, ESCALATE, around registry.dispatch.  The brain may  *)
(* propose any call and answer late, or not at all (its promise rejects);  *)
(* what a call comes back as depends on the verdict of the gate.           *)
(***************************************************************************)
EXTENDS Gate, Sequences, FiniteSets

CONSTANTS
    LadderCalls,    \* the calls a goal, a plan or a sub-step may be
    MaxSteps,       \* bound on the sub-steps of a decomposition
    MaxRetries,     \* maxRetries
    BackoffBase     \* backoffBaseMs

ASSUME LadderCallsOK == LadderCalls \subseteq Call
ASSUME MaxStepsNat == MaxSteps \in Nat
ASSUME MaxRetriesNat == MaxRetries \in Nat
ASSUME BackoffBaseNat == BackoffBase \in Nat

VARIABLES
    rung,           \* where runLadder is
    goal,           \* the call it was given
    plan,           \* approach B, once there is one
    steps,          \* the sub-steps not yet dispatched
    last,           \* the result in hand
    attempt,        \* retries made
    outcome,        \* what runLadder answered
    trail,          \* history: every dispatch and its result, in order
    waited          \* history: the time slept, in all

ladderVars == <<rung, goal, plan, steps, last, attempt, outcome, trail, waited>>

Rung == {"try", "replan", "approach", "decompose", "step", "backoff", "retry",
         "recommend", "done"}

(* What dispatch returns: "red" carries the gated mark, "failed" does not. *)
Result == {"ok", "failed", "red"}
Outcome == {"none", "success", "redEscalation", "recommendation", "rejected"}

Entry == [at : Rung, call : LadderCalls, result : Result]

(* A gated call succeeds or comes back marked; a call the gate denies      *)
(* comes back like any other failure.                                      *)
Results(c) ==
    CASE Authorize(c) = "allow" -> {"ok", "failed"}
      [] Authorize(c) = "gated" -> {"ok", "red"}
      [] Authorize(c) = "deny"  -> {"failed"}

(* Slip: every refusal is taken for an obstacle.                           *)
RedGateMissed(r) == FALSE

IsRedGate(r) == r = "red"

LadderTypeOK ==
    /\ rung \in Rung
    /\ goal \in LadderCalls /\ plan \in LadderCalls
    /\ steps \in Seq(LadderCalls)
    /\ last \in Result
    /\ attempt \in 0..MaxRetries
    /\ outcome \in Outcome
    /\ trail \in Seq(Entry)

LadderInit ==
    /\ rung = "try"
    /\ goal \in LadderCalls /\ plan = goal
    /\ steps = <<>> /\ last = "failed" /\ attempt = 0
    /\ outcome = "none"
    /\ trail = <<>> /\ waited = 0

-----------------------------------------------------------------------------
Answer(o) == rung' = "done" /\ outcome' = o
Climb(r) == rung' = r /\ UNCHANGED outcome

(* One dispatch, for its result.                                           *)
DispatchFor(c, r) ==
    /\ r \in Results(c)
    /\ last' = r
    /\ trail' = Append(trail, [at |-> rung, call |-> c, result |-> r])
    /\ UNCHANGED <<goal, waited>>

(* What follows a dispatch of the goal or of approach B.                   *)
Resolve(r, next) ==
    IF r = "ok" THEN Answer("success")
    ELSE IF IsRedGate(r) THEN Answer("redEscalation")
    ELSE Climb(next)

Try(r) ==
    /\ rung = "try"
    /\ DispatchFor(goal, r) /\ Resolve(r, "replan")
    /\ UNCHANGED <<plan, steps, attempt>>

Replan(c) ==
    /\ rung = "replan"
    /\ plan' = c /\ Climb("approach")
    /\ UNCHANGED <<goal, steps, last, attempt, trail, waited>>

ApproachB(r) ==
    /\ rung = "approach"
    /\ DispatchFor(plan, r) /\ Resolve(r, "decompose")
    /\ UNCHANGED <<plan, steps, attempt>>

(* With no sub-step the result in hand is still approach B's failure.      *)
Decompose(s) ==
    /\ rung = "decompose"
    /\ steps' = s /\ Climb("step")
    /\ UNCHANGED <<goal, plan, last, attempt, trail, waited>>

Step(r) ==
    /\ rung = "step" /\ steps # <<>>
    /\ DispatchFor(Head(steps), r)
    /\ steps' = Tail(steps)
    /\ IF IsRedGate(r) THEN Answer("redEscalation")
       ELSE Climb(IF r = "ok" THEN "step" ELSE "backoff")
    /\ UNCHANGED <<plan, attempt>>

(* Slip: no failed sub-step is taken for success.                          *)
StepsNotFailed == TRUE

StepsCleared == last = "ok"

AllSteps ==
    /\ rung = "step" /\ steps = <<>>
    /\ IF StepsCleared THEN Answer("success") ELSE Climb("backoff")
    /\ UNCHANGED <<goal, plan, steps, last, attempt, trail, waited>>

RetriesLeft == attempt < MaxRetries

ConstantWait == BackoffBase     \* slip: it does not grow with the attempt

WaitMs == BackoffBase * 2 ^ attempt

Backoff ==
    /\ rung = "backoff"
    /\ IF RetriesLeft
         THEN Climb("retry") /\ waited' = waited + WaitMs
         ELSE Climb("recommend") /\ UNCHANGED waited
    /\ UNCHANGED <<goal, plan, steps, last, attempt, trail>>

Retry(r) ==
    /\ rung = "retry"
    /\ DispatchFor(goal, r) /\ Resolve(r, "backoff")
    /\ attempt' = attempt + 1
    /\ UNCHANGED <<plan, steps>>

Recommend ==
    /\ rung = "recommend"
    /\ Answer("recommendation")
    /\ UNCHANGED <<goal, plan, steps, last, attempt, trail, waited>>

(* No rung catches a brain that rejects.                                   *)
BrainRejects ==
    /\ rung \in {"replan", "decompose", "recommend"}
    /\ Answer("rejected")
    /\ UNCHANGED <<goal, plan, steps, last, attempt, trail, waited>>

Decomposition == UNION {[1..n -> LadderCalls] : n \in 0..MaxSteps}

LadderNext ==
    \/ \E r \in Result : Try(r) \/ ApproachB(r) \/ Step(r) \/ Retry(r)
    \/ \E c \in LadderCalls : Replan(c)
    \/ \E s \in Decomposition : Decompose(s)
    \/ AllSteps \/ Backoff \/ Recommend \/ BrainRejects

LadderSpec == LadderInit /\ [][LadderNext]_ladderVars
LadderFairSpec == LadderSpec /\ WF_ladderVars(LadderNext)

-----------------------------------------------------------------------------
(* A call the breaker stopped (the owner's cancel, the ceiling, a changed  *)
(* world) is the last thing the ladder does: nothing is planned around it, *)
(* retried or waited for (ladder.ts:17-19).                                *)
RedEndsLadder ==
    \A i \in DOMAIN trail : trail[i].result = "red" =>
        i = Len(trail) /\ rung = "done" /\ outcome = "redEscalation"

(* Success is claimed only on a call that succeeded, the last one made; a  *)
(* decomposition into nothing clears nothing.                              *)
SuccessIsReal ==
    outcome = "success" => trail # <<>> /\ trail[Len(trail)].result = "ok"

(* A run dispatches the goal, one approach, one decomposition and          *)
(* MaxRetries retries at most, whatever comes back (ladder.ts:91-127).     *)
BoundedWork == Len(trail) + Len(steps) <= 2 + MaxSteps + attempt /\ attempt <= MaxRetries

(* Every rung was tried: all the retries were made, after waits that       *)
(* doubled, and the last one failed too.                                   *)
Made(r) == {i \in DOMAIN trail : trail[i].at = r}

EveryRungTried ==
    /\ Cardinality(Made("retry")) = MaxRetries
    /\ waited = BackoffBase * (2 ^ MaxRetries - 1)
    /\ last # "ok"

(* Every run of the ladder answers: the obstacle cleared, or the owner is  *)
(* told, or the caller sees the brain's error; and the owner is asked for  *)
(* advice only when every rung was tried (ladder.ts:91-139).               *)
LadderAnswers == <>(rung = "done" /\ (outcome = "recommendation" => EveryRungTried))

(* "If a dispatch result is a RED GATE/DENY verdict, the ladder SKIPS      *)
(* every rung and escalates IMMEDIATELY" (ladder.ts:17-18).                *)
DeniedRedEndsLadder ==
    \A i \in DOMAIN trail :
        IsRed(trail[i].call) /\ Authorize(trail[i].call) = "deny" =>
            i = Len(trail) /\ rung = "done"
=============================================================================
