-------------------------------- MODULE MCParts --------------------------------
(***************************************************************************)
(* The components that share no state with each other, for one run: on the *)
(* Face the breaker's card and the stage; in the daemon the obstacle       *)
(* ladder, the finance tool, the browser's fill, a Claude Code session,    *)
(* working memory and the backup; and the brain's toggle between the two.  *)
(* A behaviour is one component's and the others rest, so the states add   *)
(* up and do not multiply.                                                 *)
(***************************************************************************)
EXTENDS BreakerCard, SpeechStage, MCObstacleLadder,
        FinanceSync, BrowserFill, ClaudeSession, WorkingMemory, Backup

CONSTANTS greeting, calendar, triage, skipped, chat, events, mail, accounts
CONSTANTS d1, d2, torn, a, b, c

MCSteps == {greeting, calendar, triage, skipped}
MCPreset == {greeting, calendar, triage}
MCOrder == (greeting :> 1) @@ (calendar :> 2) @@ (triage :> 3) @@ (skipped :> 0)

(* One step with no widget, one whose widget is not in its narration, and  *)
(* one that plans three, out of order and past its characters.             *)
MCPlan == (greeting :> <<>>) @@ (skipped :> <<>>)
   @@ (calendar :> <<[widget |-> events, at |-> -1]>>)
   @@ (triage :> <<[widget |-> mail, at |-> 4], [widget |-> accounts, at |-> 3],
                   [widget |-> events, at |-> 0]>>)
MCText == (greeting :> [chars |-> 1, units |-> 1, ends |-> <<1>>])
   @@ (calendar :> [chars |-> 2, units |-> 2, ends |-> <<1, 2>>])
   @@ (triage :> [chars |-> 3, units |-> 5, ends |-> <<2, 3>>])
   @@ (skipped :> [chars |-> 1, units |-> 1, ends |-> <<1>>])
   @@ (chat :> [chars |-> 0, units |-> 0, ends |-> <<>>])

MCScripts == {<<>>, <<"noise", "chunk", "chunk", "result">>, <<"chunk", "noise">>}
MCDenied == {<<d1, d2>>, <<d1, torn, d2>>}

(* One that fits where a larger one ranked before it did not, and one that *)
(* must not go in.                                                         *)
MCDocs ==
    {[name |-> a, source |-> "self", size |-> 1],
     [name |-> b, source |-> "self", size |-> 3],
     [name |-> c, source |-> "external", size |-> 1]}

VARIABLE part       \* whose behaviour it is

CONSTANTS PrefWrites, MaxFrames
VARIABLES up, brain, selection, pref, faceUp, faceBrain, settings, commands,
          chosen, overridden, dropped

Toggle == INSTANCE BrainToggle
toggleVars == <<up, brain, selection, pref, faceUp, faceBrain, settings, commands,
                chosen, overridden, dropped>>

faceVars == <<cardVars, stageVars>>
toolVars == <<financeVars, fillVars, sessionVars>>
memoryVars == <<workingVars, backupVars>>
otherVars == <<faceVars, ladderVars, toolVars, memoryVars>>
partsVars == <<part, otherVars, toggleVars>>

Parts == {"card", "stage", "ladder", "finance", "fill", "session", "working", "backup",
          "toggle"}

(* A ladder at rest is one whose brain rejected the replan.                *)
LadderRests ==
    /\ goal = CHOOSE call \in LadderCalls : Authorize(call) = "deny"
    /\ plan = goal /\ steps = <<>> /\ last = "failed" /\ attempt = 0
    /\ trail = <<[at |-> "try", call |-> goal, result |-> "failed"]>> /\ waited = 0
    /\ rung = "done" /\ outcome = "rejected"

PartsInit ==
    /\ part \in Parts
    /\ CardInit /\ StageInit /\ FinanceInit /\ FillInit /\ SessionInit
    /\ WorkingInit /\ BackupInit /\ Toggle!ToggleInit
    /\ IF part = "ladder" THEN LadderInit ELSE LadderRests
    /\ part # "fill" => live
    /\ part # "backup" => hook /\ remote

On(which) == part = which /\ UNCHANGED part
Daemon(which) == On(which) /\ UNCHANGED <<faceVars, toggleVars>>

DuringCard(A) ==
    On("card") /\ A /\ UNCHANGED <<stageVars, ladderVars, toolVars, memoryVars, toggleVars>>
DuringStage(A) ==
    On("stage") /\ A /\ UNCHANGED <<cardVars, ladderVars, toolVars, memoryVars, toggleVars>>
DuringLadder(A) == Daemon("ladder") /\ A /\ UNCHANGED <<toolVars, memoryVars>>

(* Every step was run, every reply heard: nothing is left to do.  Of the   *)
(* remote nothing is claimed once a push has gone unread, and the backup   *)
(* rests.                                                                  *)
StageEnds == sent = Chats \cup Active /\ frames = <<>> /\ speech = <<>> /\ ~ticking

PartsNext ==
    \/ DuringCard(CardNext)
    \/ DuringStage(StageNext)
    \/ DuringStage(StageEnds /\ UNCHANGED stageVars)
    \/ DuringLadder(LadderNext)
    \/ DuringLadder(rung = "done" /\ UNCHANGED ladderVars)
    \/ /\ Daemon("finance") /\ FinanceNext
       /\ UNCHANGED <<ladderVars, fillVars, sessionVars, memoryVars>>
    \/ /\ Daemon("fill") /\ FillNext
       /\ UNCHANGED <<ladderVars, financeVars, sessionVars, memoryVars>>
    \/ /\ Daemon("session") /\ SessionNext
       /\ UNCHANGED <<ladderVars, financeVars, fillVars, memoryVars>>
    \/ /\ Daemon("working") /\ WorkingNext
       /\ UNCHANGED <<ladderVars, toolVars, backupVars>>
    \/ /\ Daemon("backup") /\ BackupNext /\ ~unscanned
       /\ UNCHANGED <<ladderVars, toolVars, workingVars>>
    \/ Daemon("backup") /\ unscanned /\ UNCHANGED <<ladderVars, toolVars, memoryVars>>
    \/ /\ On("toggle") /\ Toggle!ToggleNext
       /\ UNCHANGED otherVars

PartsSpec ==
    /\ PartsInit /\ [][PartsNext]_partsVars
    /\ WF_partsVars(DuringCard(Second)) /\ WF_partsVars(DuringCard(CardTick))
    /\ WF_partsVars(DuringStage(Tick))
    /\ WF_partsVars(DuringLadder(LadderNext))

MirrorsFace == Toggle!MirrorsFace
================================================================================
