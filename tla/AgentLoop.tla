------------------------------ MODULE AgentLoop ------------------------------
(***************************************************************************)
(* loop.ts as the server drives it: utterance frames are queued, one drain *)
(* pass at a time takes them in order, each is an override or meta-command *)
(* answered on the spot or a turn of the active brain, and every one ends  *)
(* with a session block in the append-only log.                            *)
(*                                                                         *)
(* The daemon has one thread.  Steps with the thread held (pc "take",      *)
(* "echo", "echoLog", "log", "surface") are only separated for a crash:    *)
(* frames are handled while the pass awaits ("compact", "reason",          *)
(* "dispatch") or there is none ("idle").  inject awaits nothing but       *)
(* settled promises, so it is part of the step that asks the brain.        *)
(***************************************************************************)
EXTENDS BrainToggle, FiniteSets

CONSTANTS
    Utterances,     \* ids of the utterance frames
    Kind,           \* what the loop's parsers make of each one's text
    CloudFails,     \* the cloud call may reject
    Crashes         \* the process may be killed

KindOfText == {"override", "report", "compact", "ask"}

ASSUME KindOK == Kind \in [Utterances -> KindOfText]
ASSUME CloudFailsBool == CloudFails \in BOOLEAN
ASSUME CrashesBool == Crashes \in BOOLEAN

VARIABLES
    pc,             \* where the pass is
    queue,          \* intents waiting
    current,        \* the intent in hand (a set: empty when none is)
    asked,          \* the provider whose answer is awaited (else "stub")
    decision,       \* what it decided
    log,            \* session blocks, by utterance
    answers,        \* history: reply frames written
    accepted,       \* history: utterance frames, in order of arrival
    lost            \* history: accepted, and gone with the process

pass == <<pc, queue, current, asked, decision>>
trace == <<log, answers, accepted, lost>>
loopVars == <<pass, trace>>
agentVars == <<toggleVars, loopVars>>

Awaiting == {"compact", "reason", "dispatch"}
Holding == {"take", "echo", "echoLog", "log", "surface"}
PassPc == {"idle"} \cup Awaiting \cup Holding

Decision == [action : BOOLEAN, reply : BOOLEAN]
NoDecision == [action |-> FALSE, reply |-> FALSE]

(* ClaudeBrain returns one action or one (possibly empty) text; LocalBrain *)
(* parses any Decision, or says why it could not ask; StubBrain always     *)
(* replies.                                                                *)
DecisionsOf(p) ==
    CASE p = "stub"  -> {[NoDecision EXCEPT !.reply = TRUE]}
      [] p = "cloud" -> {d \in Decision : ~(d.action /\ d.reply)}
      [] p = "local" -> Decision

AnswerKind == {"command", "blocked", "answer"}

AgentTypeOK ==
    /\ ToggleTypeOK
    /\ pc \in PassPc
    /\ queue \in Seq(Utterances)
    /\ current \in SUBSET Utterances
    /\ asked \in Provider
    /\ decision \in Decision
    /\ log \in Seq(Utterances)
    /\ answers \in Seq(Utterances \X AnswerKind)
    /\ accepted \in Seq(Utterances)
    /\ lost \in SUBSET Utterances

AgentInit ==
    /\ ToggleInit
    /\ pc = "idle" /\ queue = <<>> /\ current = {}
    /\ asked = DefaultProvider /\ decision = NoDecision
    /\ log = <<>> /\ answers = <<>>
    /\ accepted = <<>> /\ lost = {}

ThreadFree == up /\ pc \notin Holding
Arrived == {accepted[i] : i \in DOMAIN accepted}
Logged == {log[i] : i \in DOMAIN log}
Waiting == {queue[i] : i \in DOMAIN queue}

Goes(p) == pc' = p
Replies(u, k) == answers' = Append(answers, <<u, k>>)
Logs(u) == log' = Append(log, u)

-----------------------------------------------------------------------------
(* Frames.                                                                 *)

QueuedOnly == pc                  \* slip: enqueue without the drain

PassStarted == IF pc = "idle" THEN "take" ELSE pc

(* enqueue, and the drain it triggers.                                     *)
Utter(u) ==
    /\ ThreadFree
    /\ u \notin Arrived
    /\ queue' = Append(queue, u)
    /\ accepted' = Append(accepted, u)
    /\ Goes(PassStarted)
    /\ UNCHANGED <<toggleVars, current, asked, decision,
                   log, answers, lost>>

Toggled == ThreadFree /\ ApplySettings /\ UNCHANGED loopVars

Commanded == ThreadFree /\ ApplyCommand /\ UNCHANGED loopVars

OwnerStep == OwnerNext /\ UNCHANGED loopVars

-----------------------------------------------------------------------------
(* A pass: the body of the while loop, once per intent.                    *)

TakesNewest == queue[Len(queue)]       \* slip: pop for shift

NextIntent == Head(queue)

Take(u, p) ==
    /\ up /\ pc = "take"
    /\ queue # <<>>
    /\ u = NextIntent
    /\ queue' = Tail(queue)
    /\ current' = {u}
    /\ Goes(p)

(* A literal /override, a context or usage report: answered with no await. *)
TakeEcho(u) ==
    /\ Kind[u] \in {"override", "report"}
    /\ Take(u, "echo")
    /\ UNCHANGED <<toggleVars, asked, decision, trace>>

(* compact asks the active brain for a summary.                            *)
TakeCompact(u) ==
    /\ Kind[u] = "compact"
    /\ Take(u, "compact")
    /\ asked' = brain
    /\ UNCHANGED <<toggleVars, decision, trace>>

TakeAsk(u) ==
    /\ Kind[u] = "ask"
    /\ Take(u, "reason")
    /\ asked' = brain
    /\ UNCHANGED <<toggleVars, decision, trace>>

(* A summary, an unusable one or a failed call: compact falls back to a    *)
(* digest and always has an answer.                                        *)
Compacted ==
    /\ up /\ pc = "compact"
    /\ Goes("echo")
    /\ asked' = DefaultProvider
    /\ UNCHANGED <<toggleVars, queue, current, decision, trace>>

Echo(u) ==
    /\ up /\ pc = "echo" /\ u \in current
    /\ Replies(u, "command")
    /\ Goes("echoLog")
    /\ UNCHANGED <<toggleVars, queue, current, asked, decision,
                   log, accepted, lost>>

EchoLog(u) ==
    /\ up /\ pc = "echoLog" /\ u \in current
    /\ Logs(u)
    /\ current' = {}
    /\ Goes("take")
    /\ UNCHANGED <<toggleVars, queue, asked, decision,
                   answers, accepted, lost>>

NotLogged == "surface"       \* slip: the reply without the session block

AfterDecision == "log"

Reasoned(u, d) ==
    /\ up /\ pc = "reason" /\ u \in current
    /\ d \in DecisionsOf(asked)
    /\ decision' = d /\ asked' = DefaultProvider
    /\ Goes(IF d.action THEN "dispatch" ELSE AfterDecision)
    /\ UNCHANGED <<toggleVars, queue, current, trace>>

(* The tool ran, with nothing to say.                                      *)
Dispatched ==
    /\ up /\ pc = "dispatch"
    /\ Goes(AfterDecision)
    /\ UNCHANGED <<toggleVars, queue, current, asked, decision, trace>>

(* The gate, the breaker or the tool refused.                              *)
Blocked(u) ==
    /\ up /\ pc = "dispatch" /\ u \in current
    /\ Replies(u, "blocked")
    /\ Goes(AfterDecision)
    /\ UNCHANGED <<toggleVars, queue, current, asked, decision,
                   log, accepted, lost>>

LogTurn(u) ==
    /\ up /\ pc = "log" /\ u \in current
    /\ Logs(u)
    /\ Goes("surface")
    /\ UNCHANGED <<toggleVars, queue, current, asked, decision,
                   answers, accepted, lost>>

(* The reply, if there is one (and a stats frame, which nothing reads back *)
(* and is left out).                                                       *)
Surface(u) ==
    /\ up /\ pc = "surface" /\ u \in current
    /\ IF decision.reply THEN Replies(u, "answer") ELSE UNCHANGED answers
    /\ current' = {}
    /\ decision' = NoDecision
    /\ Goes("take")
    /\ UNCHANGED <<toggleVars, queue, asked, log, accepted, lost>>

GoIdle ==
    /\ up /\ pc = "take"
    /\ queue = <<>>
    /\ Goes("idle")
    /\ UNCHANGED <<toggleVars, queue, current, asked, decision, trace>>

-----------------------------------------------------------------------------
(* The end of the process, and the next one.                               *)

Unlogged == {u \in current : pc # "surface"}

Perish ==
    /\ DaemonDies
    /\ pc' = "idle" /\ queue' = <<>> /\ current' = {}
    /\ decision' = NoDecision /\ asked' = DefaultProvider
    /\ lost' = lost \cup Waiting \cup Unlogged
    /\ UNCHANGED <<log, answers, accepted>>

Crash == Crashes /\ Perish

(* drain has a finally and no catch, and nothing else awaits it: a reason  *)
(* that rejects is an unhandled rejection, which ends the process.         *)
ReasonRejects == CloudFails /\ pc = "reason" /\ asked = "cloud" /\ Perish

Reboot == Boot /\ UNCHANGED loopVars

PassStep ==
    \/ \E u \in Utterances :
          \/ TakeEcho(u) \/ TakeCompact(u) \/ TakeAsk(u)
          \/ Echo(u) \/ EchoLog(u)
          \/ \E d \in Decision : Reasoned(u, d)
          \/ Blocked(u) \/ LogTurn(u) \/ Surface(u)
    \/ Compacted \/ Dispatched \/ GoIdle

AgentNext ==
    \/ \E u \in Utterances : Utter(u)
    \/ Toggled \/ Commanded \/ OwnerStep
    \/ PassStep
    \/ Crash \/ ReasonRejects \/ Reboot

AgentSpec == AgentInit /\ [][AgentNext]_agentVars
AgentFairSpec == AgentSpec /\ WF_agentVars(PassStep) /\ WF_agentVars(Toggled)

-----------------------------------------------------------------------------
(* Properties.                                                             *)

(* No pass, no waiting intent, nothing in hand: an utterance is never      *)
(* stranded in the queue of an idle loop (loop.ts:120-126).                *)
NothingStranded ==
    /\ pc = "idle" => queue = <<>>
    /\ current # {} <=> pc \notin {"idle", "take"}
    /\ Cardinality(current) <= 1

(* Taken and not logged yet.                                               *)
InHand == IF Unlogged = {} THEN <<>> ELSE <<CHOOSE u \in Unlogged : TRUE>>

(* What the brain answered is in the append-only log before the client     *)
(* sees it (CORE-05).                                                      *)
AnswersAreLogged ==
    \A i \in DOMAIN answers : answers[i][2] = "answer" => answers[i][1] \in Logged

(* Replies come in the order of the utterances, at most one each besides   *)
(* a "Blocked" ahead of the brain's own.                                   *)
Place(s, e) == CHOOSE i \in DOMAIN s : s[i] = e
Position(u) == Place(accepted, u)

AnswersInOrder ==
    \A i, j \in DOMAIN answers : i < j =>
        \/ Position(answers[i][1]) < Position(answers[j][1])
        \/ /\ answers[i][1] = answers[j][1]
           /\ answers[i][2] = "blocked" /\ answers[j][2] = "answer"

(* Every utterance that reached the daemon gets its session block, unless  *)
(* the process dies with it.                                               *)
EveryUtteranceServed ==
    \A u \in Utterances : u \in Arrived ~> u \in Logged \cup lost

(* An error while an utterance is handled never takes the daemon and the   *)
(* utterances behind it down (server.ts:176: "a handler error must also    *)
(* never crash the daemon").                                               *)
NobodyLost == lost = {}

(* The abstract promise.                                                   *)
Queue == INSTANCE IntentQueue
             WITH Intents <- Utterances, pending <- InHand \o queue, served <- log

SerialQueue == Queue!QueueSpec
SerialSafety == Queue!QueueSafety
=============================================================================
