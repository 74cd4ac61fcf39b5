--------------------------- MODULE AgentLoopProofs ---------------------------
(***************************************************************************)
(* Proofs about BrainToggle, for any number of frames in flight, and about *)
(* AgentLoop, for every set of utterances of every kind, with crashes and  *)
(* failing cloud calls.  What is said of the choice of a brain assumes     *)
(* that brain.json is written whenever the code writes it (PrefWrites);    *)
(* the code only logs a failed write.                                      *)
(***************************************************************************)
EXTENDS AgentLoop, SequenceTheorems, FiniteSetTheorems, TLAPS

-----------------------------------------------------------------------------
(* The toggle.                                                             *)

USE PrefWritesBool, MaxFramesNat

(* Unless its last pick was lost, the Face shows the newest frame it has   *)
(* in flight, or else, unless the text client spoke last, the selection    *)
(* the daemon has or will restore.                                         *)
Shown ==
    IF settings # <<>> THEN faceBrain = settings[Len(settings)]
                       ELSE overridden \/ faceBrain = RestoredSelection

ToggleInv ==
    /\ ToggleTypeOK
    /\ PrefIsChoice
    /\ ChoiceInForce
    /\ up => selection = RestoredSelection
    /\ ~up => settings = <<>>
    /\ faceUp => up
    /\ ~dropped => Shown

(* The first process starts from the defaults, the Face shows the same.    *)
LEMMA ToggleInitInv == ToggleInit => ToggleInv
<1> SUFFICES ASSUME ToggleInit PROVE ToggleInv
  OBVIOUS
<1> USE DEF ToggleInit, DefaultSelection, DefaultProvider, Brain, Provider, Pref
<1>1. ToggleTypeOK
  BY EmptySeq DEF ToggleTypeOK
<1>2. PrefIsChoice /\ ChoiceInForce /\ selection = RestoredSelection
  BY DEF PrefIsChoice, ChoiceInForce, RestoredSelection
<1>3. Shown
  BY DEF Shown, RestoredSelection
<1>4. QED
  BY <1>1, <1>2, <1>3 DEF ToggleInv

(* Every step of the toggle keeps the places a choice is kept in agreement. *)
LEMMA ToggleStep ==
  ASSUME PrefWrites, ToggleInv, [ToggleNext]_toggleVars
  PROVE  ToggleInv'
<1> USE DEF ToggleInv, ToggleTypeOK, PrefIsChoice, ChoiceInForce, RestoredSelection,
            DefaultSelection, DefaultProvider, Brain, Provider, Pref, daemonBrain, faceToggle,
            history
<1>1. CASE FaceLaunched
  BY <1>1 DEF FaceLaunched, Shown
<1>2. CASE FaceQuits
  BY <1>2 DEF FaceQuits, Shown
<1>3. ASSUME NEW b \in Brain, PickBrain(b) PROVE ToggleInv'
  <2>1. CASE faceUp
    <3>1. settings' = Append(settings, b) /\ faceBrain' = b
      BY <1>3, <2>1 DEF PickBrain
    <3>2. settings' \in Seq(Brain) /\ settings' # <<>> /\ settings'[Len(settings')] = b
      BY <3>1
    <3>3. Shown'
      BY <3>1, <3>2 DEF Shown
    <3>4. ToggleTypeOK'
      BY <1>3, <3>1, <3>2 DEF PickBrain
    <3>5. up /\ UNCHANGED <<up, brain, selection, pref, chosen>>
      BY <1>3, <3>1, <2>1 DEF PickBrain
    <3>6. QED
      BY <3>3, <3>4, <3>5
  <2>2. CASE ~faceUp
    BY <1>3, <2>2 DEF PickBrain
  <2>3. QED
    BY <2>1, <2>2
<1>4. ASSUME NEW b \in Brain, TypeBrain(b) PROVE ToggleInv'
  <2>1. commands' \in Seq(Brain)
    BY <1>4, AppendProperties DEF TypeBrain
  <2>2. QED
    BY <1>4, <2>1 DEF TypeBrain, Shown
<1>5. CASE ApplySettings
  <2>1. /\ settings # <<>> /\ up /\ up'
        /\ selection' = Head(settings) /\ brain' = Head(settings)
        /\ pref' = Head(settings) /\ chosen' = Head(settings)
        /\ settings' = Tail(settings) /\ overridden' = FALSE
        /\ UNCHANGED <<faceUp, faceBrain, commands, dropped>>
    BY <1>5 DEF ApplySettings, SwitchTo, PersistBrain
  <2>2. Head(settings) \in Brain /\ Tail(settings) \in Seq(Brain)
    BY <2>1
  <2>3. Shown => Shown'
    <3>1. CASE Tail(settings) = <<>>
      <4>1. Len(settings) = 1
        <5>1. settings \in Seq(Brain) /\ settings # <<>>
          BY <2>1
        <5>2. Len(Tail(settings)) = Len(settings) - 1 /\ Len(settings) \in Nat
          BY <5>1, HeadTailProperties, LenProperties
        <5>3. Len(Tail(settings)) = 0
          BY <3>1, EmptySeq
        <5>4. QED
          BY <5>2, <5>3
      <4>2. Head(settings) = settings[Len(settings)]
        BY <2>1, <4>1
      <4>3. RestoredSelection' = Head(settings)
        BY <2>1, <2>2
      <4>4. QED
        BY <2>1, <3>1, <4>2, <4>3 DEF Shown
    <3>2. CASE Tail(settings) # <<>>
      <4>1. /\ Len(Tail(settings)) = Len(settings) - 1
            /\ Len(settings) \in Nat /\ Len(Tail(settings)) > 0
        BY <2>1, <2>2, <3>2, HeadTailProperties, EmptySeq, LenProperties
      <4>2. Tail(settings)[Len(Tail(settings))] = settings[Len(settings)]
        BY <2>1, <2>2, <4>1, HeadTailProperties
      <4>3. QED
        BY <2>1, <3>2, <4>2 DEF Shown
    <3>3. QED
      BY <3>1, <3>2
  <2>4. QED
    BY <2>1, <2>2, <2>3
<1>6. CASE ApplyCommand
  <2>1. /\ commands # <<>> /\ up /\ up'
        /\ selection' = Head(commands) /\ brain' = Head(commands)
        /\ pref' = Head(commands) /\ chosen' = Head(commands)
        /\ commands' = Tail(commands) /\ overridden' = TRUE
        /\ UNCHANGED <<faceUp, faceBrain, settings, dropped>>
    BY <1>6 DEF ApplyCommand, SwitchTo, PersistBrain
  <2>2. Head(commands) \in Brain /\ Tail(commands) \in Seq(Brain)
    BY <2>1, HeadTailProperties
  <2>3. Shown => Shown'
    BY <2>1 DEF Shown
  <2>4. QED
    BY <2>1, <2>2, <2>3
<1>7. CASE DaemonDies
  <2>1. CASE settings = <<>>
    BY <1>7, <2>1, EmptySeq DEF DaemonDies, Shown
  <2>2. CASE settings # <<>>
    BY <1>7, <2>2, EmptySeq DEF DaemonDies
  <2>3. QED
    BY <2>1, <2>2
<1>8. CASE Boot
  BY <1>8 DEF Boot, RestoredProvider, Shown
<1>9. CASE UNCHANGED toggleVars
  BY <1>9 DEF toggleVars, Shown
<1>10. QED
  BY <1>1, <1>2, <1>3, <1>4, <1>5, <1>6, <1>7, <1>8, <1>9 DEF ToggleNext, OwnerNext

(* Types alone need no assumption on the writes.                           *)
LEMMA ToggleTypes ==
  ASSUME ToggleTypeOK, [ToggleNext]_toggleVars
  PROVE  ToggleTypeOK'
<1> USE EmptySeq DEF ToggleTypeOK, Brain, Provider, Pref, daemonBrain, faceToggle,
            history
<1>1. ASSUME NEW b \in Brain, PickBrain(b) PROVE ToggleTypeOK'
  <2>1. Append(settings, b) \in Seq(Brain)
    BY AppendProperties
  <2>2. settings' \in Seq(Brain)
    BY <1>1, <2>1 DEF PickBrain
  <2>3. faceUp \in BOOLEAN /\ dropped' \in BOOLEAN
    BY <1>1 DEF PickBrain
  <2>4. QED
    BY <1>1, <2>2, <2>3 DEF PickBrain
<1>2. ASSUME NEW b \in Brain, TypeBrain(b) PROVE ToggleTypeOK'
  <2>1. commands' \in Seq(Brain)
    BY <1>2, AppendProperties DEF TypeBrain
  <2>2. QED
    BY <1>2, <2>1 DEF TypeBrain
<1>3. CASE ApplySettings
  <2>1. Head(settings) \in Brain /\ Tail(settings) \in Seq(Brain)
    BY <1>3, HeadTailProperties DEF ApplySettings
  <2>2. QED
    BY <1>3, <2>1 DEF ApplySettings, SwitchTo, PersistBrain
<1>4. CASE ApplyCommand
  <2>1. Head(commands) \in Brain /\ Tail(commands) \in Seq(Brain)
    BY <1>4, HeadTailProperties DEF ApplyCommand
  <2>2. QED
    BY <1>4, <2>1 DEF ApplyCommand, SwitchTo, PersistBrain
<1>5. CASE FaceLaunched \/ FaceQuits \/ DaemonDies
  BY <1>5 DEF FaceLaunched, FaceQuits, DaemonDies
<1>6. CASE Boot
  BY <1>6 DEF Boot, RestoredSelection, RestoredProvider, DefaultSelection, DefaultProvider
<1>7. CASE UNCHANGED toggleVars
  BY <1>7 DEF toggleVars
<1>8. QED
  BY <1>1, <1>2, <1>3, <1>4, <1>5, <1>6, <1>7 DEF ToggleNext, OwnerNext

(* The agreement holds at all times.                                       *)
THEOREM ToggleInvariant ==
  ASSUME PrefWrites
  PROVE  ToggleSpec => []ToggleInv
<1>1. ToggleInv /\ [ToggleNext]_toggleVars => ToggleInv'
  BY ToggleStep
<1>2. QED
  BY <1>1, ToggleInitInv, PTL DEF ToggleSpec

(* A relaunched daemon runs, and reports, the last brain it was told to.   *)
THEOREM ChoiceSurvives ==
  ASSUME PrefWrites
  PROVE  ToggleSpec => []ChoiceInForce
<1>1. ToggleInv => ChoiceInForce
  BY DEF ToggleInv
<1>2. QED
  BY <1>1, ToggleInvariant, PTL

(* Whatever the two clients' frames, the crashes and the relaunches do to  *)
(* each other, the Face shows the daemon's brain, or the one it is about   *)
(* to have, unless the text client's /brain was the last one applied or    *)
(* the last pick in the menu never arrived.                                *)
THEOREM FaceIsMirrored ==
  ASSUME PrefWrites
  PROVE  ToggleSpec => []MirrorsFace
<1>1. ToggleInv => MirrorsFace
  BY DEF ToggleInv, MirrorsFace, Shown
<1>2. QED
  BY <1>1, ToggleInvariant, PTL

-----------------------------------------------------------------------------
(* The loop.                                                               *)

(* The loop's part of the types, and where the intent in hand is.          *)
LoopTypeOK ==
    /\ pc \in PassPc
    /\ queue \in Seq(Utterances)
    /\ asked \in Provider
    /\ decision \in Decision

TraceTypeOK ==
    /\ log \in Seq(Utterances)
    /\ answers \in Seq(Utterances \X AnswerKind)
    /\ accepted \in Seq(Utterances)
    /\ lost \in SUBSET Utterances

OneInHand ==
    /\ pc \in {"idle", "take"} => current = {}
    /\ pc \notin {"idle", "take"} => \E u \in Utterances : current = {u}

LoopInv ==
    /\ ToggleTypeOK
    /\ LoopTypeOK
    /\ OneInHand
    /\ pc = "idle" => queue = <<>>
    /\ ~up => pc = "idle"

-----------------------------------------------------------------------------
(* The toggle inside the loop is the toggle: a step of the loop leaves the *)
(* settings alone or changes them the way BrainToggle does.                *)
LEMMA ToggleStepOfAgent ==
  ASSUME [AgentNext]_agentVars
  PROVE  [ToggleNext]_toggleVars
<1> USE DEF ToggleNext
<1>1. CASE \E u \in Utterances : Utter(u)
  BY <1>1 DEF Utter
<1>2. CASE Toggled \/ Commanded
  BY <1>2 DEF Toggled, Commanded
<1>3. CASE OwnerStep
  BY <1>3 DEF OwnerStep
<1>4. CASE PassStep
  BY <1>4 DEF PassStep, TakeEcho, TakeCompact, TakeAsk, Echo, EchoLog, Reasoned, Blocked,
       LogTurn, Surface, Compacted, Dispatched, GoIdle
<1>5. CASE Crash \/ ReasonRejects
  BY <1>5 DEF Crash, ReasonRejects, Perish
<1>6. CASE Reboot
  BY <1>6 DEF Reboot
<1>7. CASE UNCHANGED agentVars
  BY <1>7 DEF agentVars
<1>8. QED
  BY <1>1, <1>2, <1>3, <1>4, <1>5, <1>6, <1>7 DEF AgentNext

(* The loop does nothing to the toggle that BrainToggle does not allow, so *)
(* what is proved of it alone holds of it inside the daemon.               *)
THEOREM ImplementsToggle == AgentSpec => ToggleSpec
<1>1. AgentInit => ToggleInit
  BY DEF AgentInit
<1>2. [AgentNext]_agentVars => [ToggleNext]_toggleVars
  BY ToggleStepOfAgent
<1>3. QED
  BY <1>1, <1>2, PTL DEF AgentSpec, ToggleSpec

(* The turns of a relaunched daemon are asked of the brain last chosen.    *)
THEOREM AgentKeepsChoice ==
  ASSUME PrefWrites
  PROVE  AgentSpec => []ChoiceInForce
BY ImplementsToggle, ChoiceSurvives, PTL

-----------------------------------------------------------------------------
(* The pass.                                                               *)

(* The daemon starts idle, with an empty queue and nothing in hand.        *)
LEMMA LoopInitInv == AgentInit => LoopInv
<1> SUFFICES ASSUME AgentInit PROVE LoopInv
  OBVIOUS
<1>1. ToggleTypeOK
  BY ToggleInitInv DEF AgentInit, ToggleInv
<1>2. LoopTypeOK
  BY EmptySeq DEF AgentInit, LoopTypeOK, PassPc, DefaultProvider, Provider, Decision,
       NoDecision
<1>3. OneInHand /\ queue = <<>> /\ up
  BY DEF AgentInit, OneInHand, ToggleInit
<1>4. QED
  BY <1>1, <1>2, <1>3 DEF LoopInv

(* A decision of any provider is a decision.                               *)
LEMMA DecisionsTyped ==
  ASSUME NEW p \in Provider, NEW d \in DecisionsOf(p)
  PROVE  d \in Decision
BY DEF DecisionsOf, Provider, Brain, Decision, NoDecision

(* Taking the next intent off a queue that has one.                        *)
LEMMA TakeStep ==
  ASSUME LoopInv, NEW u \in Utterances, NEW p \in PassPc \ {"idle", "take"},
         Take(u, p)
  PROVE  /\ queue' \in Seq(Utterances) /\ pc' \in PassPc
         /\ OneInHand' /\ (pc' = "idle" => queue' = <<>>) /\ pc' # "idle" /\ up
<1>1. queue \in Seq(Utterances) /\ queue # <<>> /\ queue' = Tail(queue)
  BY DEF LoopInv, LoopTypeOK, Take
<1>2. queue' \in Seq(Utterances)
  BY <1>1, HeadTailProperties
<1>3. pc' = p /\ current' = {u} /\ up
  BY DEF Take, Goes
<1>4. QED
  BY <1>2, <1>3 DEF OneInHand

(* Every step keeps one intent in hand exactly while a pass works on one.  *)
LEMMA LoopStep ==
  ASSUME LoopInv, [AgentNext]_agentVars
  PROVE  LoopInv'
<1>0. ToggleTypeOK'
  BY ToggleStepOfAgent, ToggleTypes DEF LoopInv
<1> DEFINE Rest == /\ LoopTypeOK /\ OneInHand
                   /\ (pc = "idle" => queue = <<>>) /\ (~up => pc = "idle")
<1> SUFFICES Rest'
  BY <1>0 DEF LoopInv
<1>1. ASSUME NEW u \in Utterances, Utter(u) PROVE Rest'
  <2>1. Append(queue, u) \in Seq(Utterances)
    BY AppendProperties DEF LoopInv, LoopTypeOK
  <2>2. queue' \in Seq(Utterances) /\ pc' \in PassPc \ {"idle"} /\ up'
    BY <1>1, <2>1 DEF Utter, Goes, PassStarted, PassPc, Holding, LoopInv, LoopTypeOK,
         ThreadFree, toggleVars
  <2>3. OneInHand'
    BY <1>1 DEF Utter, Goes, PassStarted, LoopInv, OneInHand, ThreadFree, Holding
  <2>4. QED
    BY <1>1, <2>2, <2>3 DEF Utter, LoopInv, LoopTypeOK
<1>2. CASE Toggled \/ Commanded \/ OwnerStep
  <2>1. UNCHANGED <<pc, queue, current, asked, decision, up>>
    BY <1>2 DEF Toggled, Commanded, OwnerStep, loopVars, pass, ApplySettings, ApplyCommand, OwnerNext,
         FaceLaunched, FaceQuits, PickBrain, TypeBrain
  <2>2. QED
    BY <2>1 DEF LoopInv, LoopTypeOK, OneInHand
<1>3. CASE Reboot
  <2>1. UNCHANGED <<pc, queue, current, asked, decision>> /\ up'
    BY <1>3 DEF Reboot, Boot, loopVars, pass
  <2>2. QED
    BY <2>1 DEF LoopInv, LoopTypeOK, OneInHand
<1>4. CASE Crash \/ ReasonRejects
  <2>1. /\ pc' = "idle" /\ queue' = <<>> /\ current' = {} /\ decision' = NoDecision
        /\ asked' = DefaultProvider
    BY <1>4 DEF Crash, ReasonRejects, Perish
  <2>2. queue' \in Seq(Utterances) /\ decision' \in Decision /\ asked' \in Provider
    BY <2>1, EmptySeq DEF Decision, NoDecision, DefaultProvider, Provider
  <2>3. QED
    BY <2>1, <2>2 DEF LoopTypeOK, OneInHand, PassPc
<1>5. ASSUME NEW u \in Utterances, TakeEcho(u) PROVE Rest'
  <2>1. Take(u, "echo") /\ UNCHANGED <<up, asked, decision>>
    BY <1>5 DEF TakeEcho, toggleVars
  <2>2. QED
    BY <2>1, TakeStep DEF LoopInv, LoopTypeOK, PassPc, Holding
<1>6. ASSUME NEW u \in Utterances, TakeCompact(u) PROVE Rest'
  <2>1. Take(u, "compact") /\ UNCHANGED <<up, decision>> /\ asked' = brain
    BY <1>6 DEF TakeCompact, toggleVars
  <2>2. QED
    BY <2>1, TakeStep DEF LoopInv, LoopTypeOK, PassPc, Awaiting, ToggleTypeOK
<1>7. ASSUME NEW u \in Utterances, TakeAsk(u) PROVE Rest'
  <2>1. Take(u, "reason") /\ UNCHANGED <<up, decision>> /\ asked' = brain
    BY <1>7 DEF TakeAsk, toggleVars
  <2>2. QED
    BY <2>1, TakeStep DEF LoopInv, LoopTypeOK, PassPc, Awaiting, ToggleTypeOK
<1>8. ASSUME NEW u \in Utterances, Echo(u) \/ LogTurn(u) \/ Blocked(u) PROVE Rest'
  <2>1. /\ UNCHANGED <<up, queue, current, asked, decision>> /\ up
        /\ pc \notin {"idle", "take"} /\ pc' \in {"echoLog", "surface", "log"}
    BY <1>8 DEF Echo, LogTurn, Blocked, Goes, AfterDecision, toggleVars
  <2>2. QED
    BY <2>1 DEF LoopInv, LoopTypeOK, OneInHand, PassPc, Holding
<1>9. ASSUME NEW u \in Utterances, EchoLog(u) \/ Surface(u) PROVE Rest'
  <2>1. /\ UNCHANGED <<up, queue, asked>> /\ up
        /\ pc' = "take" /\ current' = {} /\ decision' \in {decision, NoDecision}
    BY <1>9 DEF EchoLog, Surface, Goes, toggleVars
  <2>2. NoDecision \in Decision
    BY DEF Decision, NoDecision
  <2>3. QED
    BY <2>1, <2>2 DEF LoopInv, LoopTypeOK, OneInHand, PassPc, Holding
<1>10. ASSUME NEW u \in Utterances, NEW d \in Decision, Reasoned(u, d) PROVE Rest'
  <2>1. /\ UNCHANGED <<up, queue, current>> /\ up /\ decision' = d
        /\ asked' \in Provider /\ pc = "reason" /\ pc' \in {"dispatch", "log"}
    BY <1>10 DEF Reasoned, Goes, AfterDecision, toggleVars, DefaultProvider, Provider
  <2>2. QED
    BY <2>1 DEF LoopInv, LoopTypeOK, OneInHand, PassPc, Holding, Awaiting
<1>11. CASE Compacted \/ Dispatched
  <2>1. /\ UNCHANGED <<up, queue, current, decision>> /\ up /\ asked' \in Provider
        /\ pc \in {"compact", "dispatch"} /\ pc' \in {"echo", "log"}
    BY <1>11 DEF Compacted, Dispatched, Goes, AfterDecision, toggleVars, DefaultProvider,
         Provider, LoopInv, LoopTypeOK
  <2>2. QED
    BY <2>1 DEF LoopInv, LoopTypeOK, OneInHand, PassPc, Holding
<1>12. CASE GoIdle
  <2>1. /\ UNCHANGED <<up, queue, current, asked, decision>>
        /\ pc = "take" /\ pc' = "idle" /\ queue = <<>>
    BY <1>12 DEF GoIdle, Goes, toggleVars
  <2>2. QED
    BY <2>1 DEF LoopInv, LoopTypeOK, OneInHand, PassPc
<1>13. CASE UNCHANGED agentVars
  BY <1>13 DEF agentVars, loopVars, pass, toggleVars, LoopInv, LoopTypeOK, OneInHand
<1>14. QED
  BY <1>1, <1>2, <1>3, <1>4, <1>5, <1>6, <1>7, <1>8, <1>9, <1>10, <1>11, <1>12, <1>13
     DEF AgentNext, PassStep

(* At most one intent is in hand, and only a pass at work has one.         *)
THEOREM LoopInvariant == AgentSpec => []LoopInv
<1>1. LoopInv /\ [AgentNext]_agentVars => LoopInv'
  BY LoopStep
<1>2. QED
  BY <1>1, LoopInitInv, PTL DEF AgentSpec

(* No utterance is stranded in the queue of an idle loop.                  *)
THEOREM NeverStranded == AgentSpec => []NothingStranded
<1>1. LoopInv => NothingStranded
  <2> SUFFICES ASSUME LoopInv PROVE NothingStranded
    OBVIOUS
  <2>1. current = {} \/ \E u \in Utterances : current = {u}
    BY DEF LoopInv, OneInHand
  <2>2. Cardinality(current) \in {0, 1}
    BY <2>1, FS_EmptySet, FS_Singleton
  <2>3. Cardinality(current) <= 1
    BY <2>2
  <2>4. QED
    BY <2>3 DEF LoopInv, OneInHand, NothingStranded
<1>2. QED
  BY <1>1, LoopInvariant, PTL

-----------------------------------------------------------------------------
(* The trace.                                                              *)

LoggedInv ==
    /\ TraceTypeOK
    /\ AnswersAreLogged
    /\ pc = "surface" => current \subseteq Logged

(* A longer log still holds what the shorter one held, and its last block. *)
LEMMA AppendKeeps ==
  ASSUME NEW S, NEW s \in Seq(S), NEW e \in S
  PROVE  {Append(s, e)[i] : i \in DOMAIN Append(s, e)} = {s[i] : i \in DOMAIN s} \cup {e}
<1>1. /\ Len(s) \in Nat /\ DOMAIN s = 1 .. Len(s)
      /\ DOMAIN Append(s, e) = 1 .. Len(s) + 1
      /\ \A i \in 1 .. Len(s) : Append(s, e)[i] = s[i]
      /\ Append(s, e)[Len(s) + 1] = e
  BY AppendProperties, LenProperties
<1>2. 1 .. Len(s) + 1 = (1 .. Len(s)) \cup {Len(s) + 1}
  BY <1>1
<1>3. QED
  BY <1>1, <1>2

(* An intent put back before the queue it was taken from is its head.      *)
LEMMA ConsHead ==
  ASSUME NEW S, NEW u \in S, NEW q \in Seq(S)
  PROVE  /\ <<u>> \o q \in Seq(S)
         /\ <<u>> \o q # <<>>
         /\ Head(<<u>> \o q) = u
         /\ Tail(<<u>> \o q) = q
OBVIOUS

(* A queue is its head, then its tail: shift takes nothing else.           *)
LEMMA ConsOfTail ==
  ASSUME NEW S, NEW q \in Seq(S), q # <<>>
  PROVE  <<Head(q)>> \o Tail(q) = q
OBVIOUS

(* An intent pushed to the queue is pushed behind what is in hand.         *)
LEMMA AppendBehind ==
  ASSUME NEW S, NEW p \in Seq(S), NEW q \in Seq(S), NEW u \in S
  PROVE  p \o Append(q, u) = Append(p \o q, u)
OBVIOUS

(* Logging an intent keeps what was answered logged.                       *)
LEMMA LogsKeep ==
  ASSUME LoopInv, LoggedInv, NEW u \in Utterances, u \in current, Logs(u), UNCHANGED answers
  PROVE  /\ log' \in Seq(Utterances)
         /\ Logged' = Logged \cup {u}
         /\ AnswersAreLogged'
<1>1. log \in Seq(Utterances) /\ log' = Append(log, u)
  BY DEF LoggedInv, TraceTypeOK, Logs
<1>2. log' \in Seq(Utterances) /\ Logged' = Logged \cup {u}
  BY <1>1, AppendProperties, AppendKeeps DEF Logged
<1>3. QED
  BY <1>2 DEF LoggedInv, AnswersAreLogged

(* A reply of any kind but the brain's own needs no log; the brain's needs *)
(* one already written.                                                    *)
LEMMA RepliesKeep ==
  ASSUME LoggedInv, NEW u \in Utterances, NEW k \in AnswerKind, Replies(u, k),
         k = "answer" => u \in Logged, UNCHANGED log
  PROVE  answers' \in Seq(Utterances \X AnswerKind) /\ AnswersAreLogged'
<1> DEFINE S == Utterances \X AnswerKind
<1>1. answers \in Seq(S) /\ <<u, k>> \in S /\ answers' = Append(answers, <<u, k>>)
  BY DEF LoggedInv, TraceTypeOK, Replies
<1>2. Append(answers, <<u, k>>) \in Seq(S)
  BY <1>1, AppendProperties
<1>3. /\ DOMAIN answers = 1 .. Len(answers) /\ Len(answers) \in Nat
      /\ DOMAIN answers' = 1 .. Len(answers) + 1
      /\ \A i \in 1 .. Len(answers) : answers'[i] = answers[i]
      /\ answers'[Len(answers) + 1] = <<u, k>>
  BY <1>1, AppendProperties, LenProperties
<1>4. Logged' = Logged
  BY DEF Logged
<1>5. ASSUME NEW i \in DOMAIN answers', answers'[i][2] = "answer"
      PROVE  answers'[i][1] \in Logged'
  <2>1. CASE i \in DOMAIN answers
    BY <1>3, <1>4, <1>5, <2>1 DEF LoggedInv, AnswersAreLogged
  <2>2. CASE i = Len(answers) + 1
    BY <1>3, <1>4, <1>5, <2>2
  <2>3. QED
    BY <1>3, <2>1, <2>2
<1>6. QED
  BY <1>1, <1>2, <1>5 DEF AnswersAreLogged

(* Every step keeps every brain answer behind its session block.           *)
LEMMA LoggedStep ==
  ASSUME LoopInv, LoggedInv, [AgentNext]_agentVars
  PROVE  LoggedInv'
<1>1. ASSUME NEW u \in Utterances, Utter(u) PROVE LoggedInv'
  <2>1. Append(accepted, u) \in Seq(Utterances)
    BY AppendProperties DEF LoggedInv, TraceTypeOK
  <2>2. TraceTypeOK'
    BY <1>1, <2>1 DEF Utter, LoggedInv, TraceTypeOK
  <2>3. UNCHANGED <<log, answers, current>> /\ (pc' = "surface" => pc = "surface")
    BY <1>1 DEF Utter, Goes, PassStarted
  <2>4. QED
    BY <2>2, <2>3 DEF LoggedInv, AnswersAreLogged, Logged
<1>2. ASSUME UNCHANGED trace, current' = current \/ pc' # "surface", pc' = "surface" => pc = "surface"
      PROVE  LoggedInv'
  BY <1>2 DEF trace, LoggedInv, TraceTypeOK, AnswersAreLogged, Logged
<1>3. CASE Toggled \/ Commanded \/ OwnerStep \/ Reboot \/ UNCHANGED agentVars
  BY <1>2, <1>3 DEF Toggled, Commanded, OwnerStep, Reboot, agentVars, loopVars, pass
<1>4. CASE Crash \/ ReasonRejects
  <2>1. /\ pc' = "idle"
        /\ UNCHANGED <<log, answers, accepted>>
        /\ lost' = lost \cup Waiting \cup Unlogged
    BY <1>4 DEF Crash, ReasonRejects, Perish
  <2>2. Waiting \subseteq Utterances
    <3>1. queue \in Seq(Utterances)
      BY DEF LoopInv, LoopTypeOK
    <3>2. QED
      BY <3>1, ElementOfSeq, LenProperties DEF Waiting
  <2>3. Unlogged \subseteq Utterances
    BY DEF Unlogged, LoopInv, OneInHand
  <2>4. QED
    BY <2>1, <2>2, <2>3 DEF LoggedInv, TraceTypeOK, AnswersAreLogged, Logged
<1>5. ASSUME NEW u \in Utterances, TakeEcho(u) \/ TakeCompact(u) \/ TakeAsk(u) PROVE LoggedInv'
  BY <1>2, <1>5 DEF TakeEcho, TakeCompact, TakeAsk, Take, Goes
<1>6. CASE Compacted \/ Dispatched \/ GoIdle
  BY <1>2, <1>6 DEF Compacted, Dispatched, GoIdle, Goes, AfterDecision
<1>7. ASSUME NEW u \in Utterances, Echo(u) PROVE LoggedInv'
  <2>1. Replies(u, "command") /\ pc' = "echoLog"
        /\ UNCHANGED <<log, accepted, lost>>
    BY <1>7 DEF Echo, Goes
  <2>2. answers' \in Seq(Utterances \X AnswerKind) /\ AnswersAreLogged'
    BY <2>1, RepliesKeep DEF AnswerKind
  <2>3. QED
    BY <2>1, <2>2 DEF LoggedInv, TraceTypeOK
<1>8. ASSUME NEW u \in Utterances, Blocked(u) PROVE LoggedInv'
  <2>1. Replies(u, "blocked") /\ pc' = "log"
        /\ UNCHANGED <<log, accepted, lost>>
    BY <1>8 DEF Blocked, Goes, AfterDecision
  <2>2. answers' \in Seq(Utterances \X AnswerKind) /\ AnswersAreLogged'
    BY <2>1, RepliesKeep DEF AnswerKind
  <2>3. QED
    BY <2>1, <2>2 DEF LoggedInv, TraceTypeOK
<1>9. ASSUME NEW u \in Utterances, EchoLog(u) \/ LogTurn(u) PROVE LoggedInv'
  <2>1. /\ u \in current /\ Logs(u)
        /\ UNCHANGED <<answers, accepted, lost>>
        /\ pc' = "surface" => current' = current
    BY <1>9 DEF EchoLog, LogTurn, Goes
  <2>2. log' \in Seq(Utterances) /\ Logged' = Logged \cup {u} /\ AnswersAreLogged'
    BY <2>1, LogsKeep
  <2>3. current = {u}
    BY <2>1 DEF LoopInv, OneInHand
  <2>4. QED
    BY <2>1, <2>2, <2>3 DEF LoggedInv, TraceTypeOK
<1>10. ASSUME NEW u \in Utterances, NEW d \in Decision, Reasoned(u, d) PROVE LoggedInv'
  <2>1. /\ UNCHANGED <<log, answers, accepted, lost>>
        /\ pc' # "surface"
    BY <1>10 DEF Reasoned, Goes, AfterDecision, trace
  <2>2. QED
    BY <2>1 DEF LoggedInv, TraceTypeOK, AnswersAreLogged, Logged
<1>11. ASSUME NEW u \in Utterances, Surface(u) PROVE LoggedInv'
  <2>1. /\ UNCHANGED <<log, accepted, lost>> /\ pc' = "take"
        /\ pc = "surface" /\ u \in current
    BY <1>11 DEF Surface, Goes
  <2>2. answers' \in Seq(Utterances \X AnswerKind) /\ AnswersAreLogged'
    <3>1. CASE decision.reply
      <4>1. Replies(u, "answer") /\ u \in Logged
        BY <1>11, <2>1, <3>1 DEF Surface, LoggedInv
      <4>2. QED
        BY <2>1, <4>1, RepliesKeep DEF AnswerKind
    <3>2. CASE ~decision.reply
      BY <1>11, <2>1, <3>2 DEF Surface, LoggedInv, TraceTypeOK, AnswersAreLogged, Logged
    <3>3. QED
      BY <3>1, <3>2
  <2>3. QED
    BY <2>1, <2>2 DEF LoggedInv, TraceTypeOK
<1>12. QED
  BY <1>1, <1>3, <1>4, <1>5, <1>6, <1>7, <1>8, <1>9, <1>10, <1>11 DEF AgentNext, PassStep

(* Nothing is answered or logged to begin with.                            *)
LEMMA LoggedInitInv == AgentInit => LoggedInv
BY EmptySeq DEF AgentInit, LoggedInv, TraceTypeOK, AnswersAreLogged

(* A brain's answer reaches the client only after its session block.       *)
THEOREM AlwaysLogged == AgentSpec => []AnswersAreLogged
<1>1. LoopInv /\ LoggedInv /\ [AgentNext]_agentVars => LoggedInv'
  BY LoggedStep
<1>2. LoggedInv => AnswersAreLogged
  BY DEF LoggedInv
<1>3. QED
  BY <1>1, <1>2, LoggedInitInv, LoopInvariant, PTL DEF AgentSpec

(* Type correctness of the loop and of the toggle inside it.               *)
THEOREM AgentTypes == AgentSpec => []AgentTypeOK
<1>1. LoopInv /\ LoggedInv /\ [AgentNext]_agentVars => LoggedInv'
  BY LoggedStep
<1>2. LoopInv /\ LoggedInv => AgentTypeOK
  BY DEF LoopInv, LoopTypeOK, OneInHand, LoggedInv, TraceTypeOK, AgentTypeOK
<1>3. QED
  BY <1>1, <1>2, LoggedInitInv, LoopInvariant, PTL DEF AgentSpec

-----------------------------------------------------------------------------
(* The promise: one by one, in order, each once.                           *)

(* What is pending is the intent in hand, while it is not logged, and then *)
(* the queue.                                                              *)
LEMMA InHandIs ==
  /\ Unlogged = {} => InHand = <<>>
  /\ \A u : Unlogged = {u} => InHand = <<u>>
BY DEF InHand

(* Every step of the loop is a step of the queue of intents, or none.      *)
LEMMA QueueSimulation ==
  ASSUME LoopInv, LoggedInv, [AgentNext]_agentVars
  PROVE  [Queue!QueueNext]_(Queue!queueVars)
<1> DEFINE Pending == InHand \o queue
<1> USE DEF Queue!QueueNext, Queue!queueVars
<1>0. queue \in Seq(Utterances) /\ InHand \in Seq(Utterances) /\ log \in Seq(Utterances)
  <2>1. Unlogged = {} \/ \E u \in Utterances : Unlogged = {u}
    BY DEF Unlogged, LoopInv, OneInHand
  <2>2. \A u \in Utterances : <<u>> \in Seq(Utterances)
    OBVIOUS
  <2>3. InHand \in Seq(Utterances)
    BY <2>1, <2>2, InHandIs, EmptySeq
  <2>4. QED
    BY <2>3 DEF LoopInv, LoopTypeOK, LoggedInv, TraceTypeOK
<1>1. ASSUME NEW u \in Utterances, Utter(u) PROVE Queue!Accept(u)
  <2>1. Unlogged' = Unlogged /\ log' = log /\ queue' = Append(queue, u)
    BY <1>1 DEF Utter, Goes, PassStarted, Unlogged, LoopInv, OneInHand
  <2>2. InHand' = InHand
    BY <2>1 DEF InHand
  <2>3. Pending' = Append(Pending, u)
    BY <1>0, <2>1, <2>2, AppendBehind
  <2>4. QED
    BY <2>1, <2>3 DEF Queue!Accept
<1>2. ASSUME UNCHANGED <<queue, log>>, Unlogged' = Unlogged
      PROVE  UNCHANGED <<Pending, log>>
  BY <1>2 DEF InHand
<1>3. CASE Toggled \/ Commanded \/ OwnerStep \/ Reboot \/ UNCHANGED agentVars
  <2>1. UNCHANGED <<queue, log, pc, current>>
    BY <1>3 DEF Toggled, Commanded, OwnerStep, Reboot, agentVars, loopVars, pass, trace
  <2>2. QED
    BY <1>2, <2>1 DEF Unlogged
<1>4. ASSUME NEW u \in Utterances, NEW p \in {"echo", "compact", "reason"}, Take(u, p), log' = log
      PROVE  UNCHANGED <<Pending, log>>
  <2>1. queue # <<>> /\ u = Head(queue) /\ queue' = Tail(queue)
    BY <1>4 DEF Take, NextIntent
  <2>2. Unlogged = {} /\ Unlogged' = {u}
    BY <1>4 DEF Take, Goes, Unlogged, LoopInv, OneInHand
  <2>3. InHand = <<>> /\ InHand' = <<u>>
    BY <2>2, InHandIs DEF InHand
  <2>4. Pending = queue /\ Pending' = queue
    BY <1>0, <2>1, <2>3, ConsOfTail
  <2>5. QED
    BY <1>4, <2>4
<1>5. ASSUME NEW u \in Utterances, u \in current, pc \in {"echoLog", "log"}, Logs(u),
             queue' = queue, Unlogged' = {}
      PROVE  Queue!Serve
  <2>1. Unlogged = {u}
    BY <1>5 DEF Unlogged, LoopInv, OneInHand
  <2>2. InHand = <<u>> /\ InHand' = <<>>
    BY <1>5, <2>1, InHandIs DEF InHand
  <2>3. Pending # <<>> /\ Head(Pending) = u /\ Tail(Pending) = queue /\ Pending' = queue
    BY <1>0, <1>5, <2>2, ConsHead
  <2>4. QED
    BY <1>5, <2>3 DEF Queue!Serve, Logs
<1>6. CASE Crash \/ ReasonRejects
  <2>1. queue' = <<>> /\ current' = {} /\ log' = log
    BY <1>6 DEF Crash, ReasonRejects, Perish
  <2>2. InHand' = <<>>
    BY <2>1 DEF InHand, Unlogged
  <2>3. Pending' = <<>>
    BY <2>1, <2>2
  <2>4. QED
    BY <2>1, <2>3 DEF Queue!Lose
<1>7. CASE PassStep
  <2>1. ASSUME NEW u \in Utterances, TakeEcho(u) \/ TakeCompact(u) \/ TakeAsk(u)
        PROVE  UNCHANGED <<Pending, log>>
    BY <1>4, <2>1 DEF TakeEcho, TakeCompact, TakeAsk, trace
  <2>2. ASSUME NEW u \in Utterances, EchoLog(u) \/ LogTurn(u)
        PROVE  Queue!Serve
    BY <1>5, <2>2 DEF EchoLog, LogTurn, Goes, Unlogged
  <2>3. ASSUME NEW u \in Utterances, NEW d \in Decision,
               Echo(u) \/ Reasoned(u, d) \/ Blocked(u) \/ Surface(u)
        PROVE  UNCHANGED <<Pending, log>>
    <3>1. UNCHANGED <<queue, log>> /\ Unlogged' = Unlogged
      BY <2>3 DEF Echo, Reasoned, Blocked, Surface, Goes, AfterDecision, Unlogged, trace
    <3>2. QED
      BY <1>2, <3>1
  <2>4. ASSUME Compacted \/ Dispatched \/ GoIdle
        PROVE  UNCHANGED <<Pending, log>>
    <3>1. UNCHANGED <<queue, log>> /\ Unlogged' = Unlogged
      BY <2>4 DEF Compacted, Dispatched, GoIdle, Goes, AfterDecision, Unlogged, trace
    <3>2. QED
      BY <1>2, <3>1
  <2>5. NoDecision \in Decision
    BY DEF NoDecision, Decision
  <2>6. QED
    BY <1>7, <2>1, <2>2, <2>3, <2>4, <2>5 DEF PassStep
<1>8. QED
  BY <1>1, <1>3, <1>6, <1>7 DEF AgentNext

(* The loop implements the serial queue its comment describes.             *)
THEOREM ImplementsQueue == AgentSpec => SerialSafety
<1>1. LoopInv /\ LoggedInv /\ [AgentNext]_agentVars => LoggedInv'
  BY LoggedStep
<1>2. AgentInit => Queue!QueueInit
  BY DEF AgentInit, Queue!QueueInit, InHand, Unlogged
<1>3. QED
  BY <1>1, <1>2, LoggedInitInv, LoopInvariant, QueueSimulation, PTL
     DEF AgentSpec, SerialSafety, Queue!QueueSafety

-----------------------------------------------------------------------------
(* The order of the replies.                                               *)

(* An utterance frame is handled once, and what is queued, in hand or      *)
(* answered came in one.                                                   *)
ArrivedInv ==
    /\ \A i, j \in DOMAIN accepted : accepted[i] = accepted[j] => i = j
    /\ Waiting \cup current \subseteq Arrived
    /\ \A k \in DOMAIN answers : answers[k][1] \in Arrived

(* The queue is in the order of arrival, behind what is in hand and what   *)
(* was answered.                                                           *)
QueueInv ==
    \A j \in DOMAIN queue :
        /\ \A i \in DOMAIN queue : i < j => Position(queue[i]) < Position(queue[j])
        /\ \A u \in current : Position(u) < Position(queue[j])
        /\ \A k \in DOMAIN answers : Position(answers[k][1]) < Position(queue[j])

(* What is in hand was not answered before, but for its echo, which is     *)
(* only logged afterwards, or a refused dispatch.                          *)
CurrentInv ==
    \A u \in current, k \in DOMAIN answers :
        \/ Position(answers[k][1]) < Position(u)
        \/ pc = "echoLog"
        \/ pc \in {"log", "surface"} /\ answers[k] = <<u, "blocked">>

OrderInv == ArrivedInv /\ QueueInv /\ CurrentInv /\ AnswersInOrder

(* In a sequence without repetitions a place is where the element is.      *)
LEMMA PlaceOf ==
  ASSUME NEW S, NEW s \in Seq(S),
         \A i, j \in DOMAIN s : s[i] = s[j] => i = j
  PROVE  /\ \A i \in DOMAIN s : Place(s, s[i]) = i
         /\ \A e \in {s[i] : i \in DOMAIN s} : Place(s, e) \in 1 .. Len(s) /\ s[Place(s, e)] = e
<1>1. ASSUME NEW i \in DOMAIN s PROVE Place(s, s[i]) = i
  BY <1>1 DEF Place
<1>2. QED
  BY <1>1, LenProperties

(* An utterance that arrives comes after all that arrived before, and      *)
(* leaves their places alone.                                              *)
LEMMA ArrivesLast ==
  ASSUME LoggedInv, ArrivedInv, NEW u \in Utterances, u \notin Arrived,
         accepted' = Append(accepted, u)
  PROVE  /\ \A i, j \in DOMAIN accepted' : accepted'[i] = accepted'[j] => i = j
         /\ Arrived' = Arrived \cup {u}
         /\ \A v \in Arrived : Place(accepted', v) = Place(accepted, v)
         /\ \A v \in Arrived : Place(accepted, v) < Place(accepted', u)
<1>1. accepted \in Seq(Utterances) /\ Append(accepted, u) \in Seq(Utterances)
  BY AppendProperties DEF LoggedInv, TraceTypeOK
<1>2. /\ DOMAIN accepted = 1 .. Len(accepted) /\ Len(accepted) \in Nat
      /\ DOMAIN accepted' = 1 .. Len(accepted) + 1
      /\ \A i \in 1 .. Len(accepted) : accepted'[i] = accepted[i]
      /\ accepted'[Len(accepted) + 1] = u
  BY <1>1, AppendProperties, LenProperties
<1>3. ASSUME NEW i \in DOMAIN accepted', NEW j \in DOMAIN accepted', accepted'[i] = accepted'[j]
      PROVE  i = j
  BY <1>2, <1>3 DEF ArrivedInv, Arrived
<1> DEFINE longer == Append(accepted, u)
<1>8. \A i \in DOMAIN longer : Place(longer, longer[i]) = i
  <2>1. longer \in Seq(Utterances) /\ \A i, j \in DOMAIN longer : longer[i] = longer[j] => i = j
    BY <1>1, <1>3
  <2> HIDE DEF longer
  <2>2. QED
    BY <2>1, PlaceOf
<1>4. Arrived' = Arrived \cup {u}
  BY <1>1, AppendKeeps DEF Arrived
<1>5. ASSUME NEW v \in Arrived
      PROVE  Place(accepted', v) = Place(accepted, v) /\ Place(accepted, v) \in 1 .. Len(accepted)
  <2>1. PICK i \in 1 .. Len(accepted) : v = accepted[i]
    BY <1>2 DEF Arrived
  <2>2. Place(accepted, v) = i
    BY <1>1, <1>2, <2>1, PlaceOf DEF ArrivedInv
  <2>3. Place(accepted', accepted'[i]) = i
    BY <1>2, <1>8
  <2>4. QED
    BY <1>2, <2>1, <2>2, <2>3
<1>6. Place(accepted', u) = Len(accepted) + 1
  <2>1. Place(accepted', accepted'[Len(accepted) + 1]) = Len(accepted) + 1
    BY <1>2, <1>8
  <2>2. QED
    BY <1>2, <2>1
<1>7. QED
  BY <1>2, <1>3, <1>4, <1>5, <1>6

(* The places of what arrived are numbers.                                 *)
LEMMA PlacesAreNumbers ==
  ASSUME LoggedInv, ArrivedInv
  PROVE  \A v \in Arrived : Place(accepted, v) \in Nat
BY PlaceOf, LenProperties DEF LoggedInv, TraceTypeOK, ArrivedInv, Arrived

(* A reply to the intent in hand is in order when the ones before were to  *)
(* earlier utterances, or a "Blocked" ahead of the brain's own.            *)
LEMMA RepliesInOrder ==
  ASSUME LoggedInv, OrderInv, NEW u \in current, NEW k \in AnswerKind, Replies(u, k),
         UNCHANGED <<accepted, queue>>, current' \subseteq current,
         \A v \in current : v = u,
         \A i \in DOMAIN answers :
            \/ Position(answers[i][1]) < Position(u)
            \/ answers[i] = <<u, "blocked">> /\ k = "answer"
  PROVE  ArrivedInv' /\ QueueInv' /\ AnswersInOrder'
<1>0. u \in Arrived
  BY DEF OrderInv, ArrivedInv
<1>1. answers \in Seq(Utterances \X AnswerKind) /\ answers' = Append(answers, <<u, k>>)
  BY DEF LoggedInv, TraceTypeOK, Replies
<1>2. accepted \in Seq(Utterances) /\ Arrived \subseteq Utterances
  BY ElementOfSeq, LenProperties DEF LoggedInv, TraceTypeOK, Arrived
<1>3. /\ DOMAIN answers = 1 .. Len(answers) /\ Len(answers) \in Nat
      /\ DOMAIN answers' = 1 .. Len(answers) + 1
      /\ \A i \in 1 .. Len(answers) : answers'[i] = answers[i]
      /\ answers'[Len(answers) + 1] = <<u, k>>
  BY <1>0, <1>1, <1>2, AppendProperties, LenProperties
<1>4. ArrivedInv'
  <2>1. Arrived' = Arrived /\ Waiting' = Waiting
    BY DEF Arrived, Waiting
  <2>2. \A i \in DOMAIN answers' : answers'[i][1] \in Arrived
    BY <1>0, <1>3 DEF OrderInv, ArrivedInv
  <2>3. QED
    BY <2>1, <2>2 DEF OrderInv, ArrivedInv
<1>5. QueueInv'
  BY <1>3 DEF OrderInv, QueueInv, Position
<1>6. ASSUME NEW i \in DOMAIN answers', NEW j \in DOMAIN answers', i < j
      PROVE  \/ Place(accepted, answers'[i][1]) < Place(accepted, answers'[j][1])
             \/ /\ answers'[i][1] = answers'[j][1]
                /\ answers'[i][2] = "blocked" /\ answers'[j][2] = "answer"
  <2>1. CASE j = Len(answers) + 1
    BY <1>3, <1>6, <2>1 DEF Position
  <2>2. CASE j # Len(answers) + 1
    BY <1>3, <1>6, <2>2 DEF Position, OrderInv, AnswersInOrder
  <2>3. QED
    BY <2>1, <2>2
<1>7. AnswersInOrder'
  BY <1>6 DEF AnswersInOrder, Position
<1>8. QED
  BY <1>4, <1>5, <1>7

(* Every step keeps the order of the replies.                              *)
LEMMA OrderStep ==
  ASSUME LoopInv, LoggedInv, OrderInv, [AgentNext]_agentVars
  PROVE  OrderInv'
<1>0. queue \in Seq(Utterances) /\ answers \in Seq(Utterances \X AnswerKind)
  BY DEF LoopInv, LoopTypeOK, LoggedInv, TraceTypeOK
<1>1. ASSUME NEW u \in Utterances, Utter(u) PROVE OrderInv'
  <2>1. /\ u \notin Arrived /\ accepted' = Append(accepted, u)
        /\ queue' = Append(queue, u)
        /\ UNCHANGED <<current, answers>>
        /\ (pc' = pc \/ (pc = "idle" /\ pc' = "take"))
    <3>1. pc' = IF pc = "idle" THEN "take" ELSE pc
      BY <1>1 DEF Utter, Goes, PassStarted
    <3>2. QED
      BY <1>1, <3>1 DEF Utter
  <2>2. /\ DOMAIN queue = 1 .. Len(queue) /\ Len(queue) \in Nat
        /\ DOMAIN queue' = 1 .. Len(queue) + 1
        /\ \A i \in 1 .. Len(queue) : queue'[i] = queue[i]
        /\ queue'[Len(queue) + 1] = u
    BY <1>0, <2>1, AppendProperties, LenProperties
  <2>3. /\ \A i, j \in DOMAIN accepted' : accepted'[i] = accepted'[j] => i = j
        /\ Arrived' = Arrived \cup {u}
        /\ \A v \in Arrived : Place(accepted', v) = Place(accepted, v)
        /\ \A v \in Arrived : Place(accepted, v) < Place(accepted', u)
    BY <2>1, ArrivesLast DEF OrderInv
  <2>4. /\ \A i \in DOMAIN queue : queue[i] \in Arrived
        /\ \A v \in current : v \in Arrived
        /\ \A i \in DOMAIN answers : answers[i][1] \in Arrived
    BY DEF OrderInv, ArrivedInv, Waiting
  <2>5. Waiting' \cup current' \subseteq Arrived'
    BY <2>1, <2>2, <2>3, <2>4 DEF Waiting
  <2>6. ArrivedInv'
    BY <2>1, <2>3, <2>4, <2>5 DEF ArrivedInv
  <2>7. QueueInv'
    <3>1. ASSUME NEW j \in DOMAIN queue', j # Len(queue) + 1
          PROVE  /\ \A i \in DOMAIN queue' :
                        i < j => Place(accepted', queue'[i]) < Place(accepted', queue'[j])
                 /\ \A v \in current' : Place(accepted', v) < Place(accepted', queue'[j])
                 /\ \A k \in DOMAIN answers' :
                        Place(accepted', answers'[k][1]) < Place(accepted', queue'[j])
      BY <2>1, <2>2, <2>3, <2>4, <3>1 DEF OrderInv, QueueInv, Position
    <3>2. ASSUME NEW j \in DOMAIN queue', j = Len(queue) + 1
          PROVE  /\ \A i \in DOMAIN queue' :
                        i < j => Place(accepted', queue'[i]) < Place(accepted', queue'[j])
                 /\ \A v \in current' : Place(accepted', v) < Place(accepted', queue'[j])
                 /\ \A k \in DOMAIN answers' :
                        Place(accepted', answers'[k][1]) < Place(accepted', queue'[j])
      BY <2>1, <2>2, <2>3, <2>4, <3>2
    <3>3. QED
      BY <3>1, <3>2 DEF QueueInv, Position
  <2>8. CurrentInv'
    BY <2>1, <2>3, <2>4 DEF OrderInv, CurrentInv, Position
  <2>9. AnswersInOrder'
    BY <2>1, <2>3, <2>4 DEF OrderInv, AnswersInOrder, Position
  <2>10. QED
    BY <2>6, <2>7, <2>8, <2>9 DEF OrderInv
<1>2. ASSUME UNCHANGED <<queue, current, answers, accepted>>,
             pc = "echoLog" => pc' = "echoLog",
             pc \in {"log", "surface"} => pc' \in {"log", "surface"}
      PROVE  OrderInv'
  BY <1>2 DEF OrderInv, ArrivedInv, Arrived, Waiting, QueueInv, CurrentInv, AnswersInOrder,
       Position
<1>3. ASSUME UNCHANGED <<answers, accepted>>, current' = {}, queue' \in {<<>>, queue}
      PROVE  OrderInv'
  BY <1>3 DEF OrderInv, ArrivedInv, Arrived, Waiting, QueueInv, CurrentInv, AnswersInOrder,
       Position
<1>4. ASSUME NEW u \in Utterances, NEW p \in {"echo", "compact", "reason"}, Take(u, p),
             UNCHANGED <<answers, accepted>>
      PROVE  OrderInv'
  <2>1. queue # <<>> /\ u = Head(queue) /\ queue' = Tail(queue) /\ current' = {u}
    BY <1>4 DEF Take, NextIntent
  <2>2. /\ DOMAIN queue = 1 .. Len(queue) /\ Len(queue) \in Nat \ {0}
        /\ u = queue[1]
        /\ DOMAIN queue' = 1 .. Len(queue) - 1
        /\ \A i \in 1 .. Len(queue) - 1 : queue'[i] = queue[i + 1] /\ i + 1 \in 1 .. Len(queue)
    BY <1>0, <2>1, EmptySeq, LenProperties, HeadTailProperties
  <2>3. ArrivedInv'
    <3>1. Arrived' = Arrived
      BY <1>4 DEF Arrived
    <3>2. Waiting' \cup {u} \subseteq Waiting
      BY <2>2 DEF Waiting
    <3>3. QED
      BY <1>4, <2>1, <3>1, <3>2 DEF OrderInv, ArrivedInv
  <2>4. ASSUME NEW j \in DOMAIN queue'
        PROVE  /\ \A i \in DOMAIN queue' :
                      i < j => Place(accepted, queue'[i]) < Place(accepted, queue'[j])
               /\ Place(accepted, u) < Place(accepted, queue'[j])
               /\ \A k \in DOMAIN answers :
                      Place(accepted, answers[k][1]) < Place(accepted, queue'[j])
    <3>1. /\ j \in 1 .. Len(queue) - 1
          /\ j + 1 \in DOMAIN queue /\ 1 \in DOMAIN queue /\ 1 < j + 1
          /\ queue'[j] = queue[j + 1]
      BY <2>2
    <3>2. ASSUME NEW i \in DOMAIN queue', i < j
          PROVE  Place(accepted, queue'[i]) < Place(accepted, queue'[j])
      <4>1. i + 1 \in DOMAIN queue /\ i + 1 < j + 1 /\ queue'[i] = queue[i + 1]
        BY <2>2, <3>1, <3>2
      <4>2. QED
        BY <3>1, <4>1 DEF OrderInv, QueueInv, Position
    <3>3. QED
      BY <2>2, <3>1, <3>2 DEF OrderInv, QueueInv, Position
  <2>5. QueueInv'
    BY <1>4, <2>1, <2>4 DEF QueueInv, Position
  <2>6. CurrentInv'
    BY <1>4, <2>1, <2>2 DEF OrderInv, QueueInv, CurrentInv, Position
  <2>7. AnswersInOrder'
    BY <1>4 DEF OrderInv, AnswersInOrder, Position
  <2>8. QED
    BY <2>3, <2>5, <2>6, <2>7 DEF OrderInv
<1>5. CASE Toggled \/ Commanded \/ OwnerStep \/ Reboot \/ UNCHANGED agentVars
  BY <1>2, <1>5 DEF Toggled, Commanded, OwnerStep, Reboot, agentVars, loopVars, pass, trace
<1>6. CASE Crash \/ ReasonRejects
  BY <1>3, <1>6 DEF Crash, ReasonRejects, Perish
<1>7. ASSUME NEW u \in Utterances, TakeEcho(u) \/ TakeCompact(u) \/ TakeAsk(u) PROVE OrderInv'
  BY <1>4, <1>7 DEF TakeEcho, TakeCompact, TakeAsk, trace
<1>8. CASE Compacted \/ Dispatched \/ GoIdle
  BY <1>2, <1>8 DEF Compacted, Dispatched, GoIdle, Goes, AfterDecision, trace
<1>9. ASSUME NEW u \in Utterances, NEW d \in Decision, Reasoned(u, d) \/ LogTurn(u) PROVE OrderInv'
  BY <1>2, <1>9 DEF Reasoned, LogTurn, Goes, AfterDecision, trace
<1>10. ASSUME NEW u \in Utterances, EchoLog(u) PROVE OrderInv'
  BY <1>3, <1>10 DEF EchoLog
<1>11. ASSUME NEW u \in Utterances, NEW k \in AnswerKind, u \in current, Replies(u, k),
              UNCHANGED <<accepted, queue>>, current' \subseteq current,
              k = "answer" => pc = "surface",
              pc # "echoLog" /\ (pc \in {"log", "surface"} => k = "answer"),
              \A v \in current' : pc' = "echoLog" \/ (pc' = "log" /\ k = "blocked" /\ pc = "dispatch")
       PROVE  OrderInv'
  <2>1. \A v \in current : v = u
    BY <1>11 DEF LoopInv, OneInHand
  <2>2. \A i \in DOMAIN answers :
            \/ Position(answers[i][1]) < Position(u)
            \/ answers[i] = <<u, "blocked">> /\ k = "answer"
    BY <1>11 DEF OrderInv, CurrentInv
  <2>3. ArrivedInv' /\ QueueInv' /\ AnswersInOrder'
    BY <1>11, <2>1, <2>2, RepliesInOrder
  <2>4. CurrentInv'
    <3>1. ASSUME NEW v \in current', pc' # "echoLog", NEW i \in DOMAIN answers'
          PROVE  \/ Place(accepted, answers'[i][1]) < Place(accepted, v)
                 \/ answers'[i] = <<v, "blocked">>
      <4>1. v = u /\ k = "blocked" /\ answers' = Append(answers, <<u, k>>)
        BY <1>11, <2>1, <3>1 DEF Replies
      <4>2. /\ DOMAIN answers = 1 .. Len(answers) /\ Len(answers) \in Nat
            /\ DOMAIN answers' = 1 .. Len(answers) + 1
            /\ \A m \in 1 .. Len(answers) : answers'[m] = answers[m]
            /\ answers'[Len(answers) + 1] = <<u, k>>
        BY <1>0, <1>11, <4>1, AppendProperties, LenProperties
      <4>3. QED
        BY <2>2, <3>1, <4>1, <4>2 DEF Position
    <3>2. QED
      BY <1>11, <3>1 DEF CurrentInv, Position
  <2>5. QED
    BY <2>3, <2>4 DEF OrderInv
<1>12. ASSUME NEW u \in Utterances, Echo(u) PROVE OrderInv'
  <2>1. /\ u \in current /\ Replies(u, "command")
        /\ UNCHANGED <<accepted, queue, current>> /\ pc = "echo" /\ pc' = "echoLog"
    BY <1>12 DEF Echo, Goes
  <2>2. "command" \in AnswerKind
    BY DEF AnswerKind
  <2>3. QED
    BY <1>11, <2>1, <2>2
<1>13. ASSUME NEW u \in Utterances, Blocked(u) PROVE OrderInv'
  BY <1>11, <1>13 DEF Blocked, Goes, AfterDecision, AnswerKind
<1>14. ASSUME NEW u \in Utterances, Surface(u) PROVE OrderInv'
  <2>1. CASE decision.reply
    BY <1>11, <1>14, <2>1 DEF Surface, Goes, AnswerKind
  <2>2. CASE ~decision.reply
    BY <1>3, <1>14, <2>2 DEF Surface
  <2>3. QED
    BY <2>1, <2>2
<1>15. NoDecision \in Decision
  BY DEF NoDecision, Decision
<1>16. QED
  BY <1>1, <1>5, <1>6, <1>7, <1>8, <1>9, <1>10, <1>12, <1>13, <1>14, <1>15 DEF AgentNext, PassStep

(* Replies come in the order of the utterances, each utterance answered    *)
(* once, but for a "Blocked" ahead of the brain's own.                     *)
THEOREM RepliesKeepOrder == AgentSpec => []AnswersInOrder
<1>1. AgentInit => OrderInv
  BY EmptySeq DEF AgentInit, OrderInv, ArrivedInv, Arrived, Waiting, QueueInv, CurrentInv,
     AnswersInOrder
<1>2. LoopInv /\ LoggedInv /\ [AgentNext]_agentVars => LoggedInv'
  BY LoggedStep
<1>3. LoopInv /\ LoggedInv /\ OrderInv /\ [AgentNext]_agentVars => OrderInv'
  BY OrderStep
<1>4. OrderInv => AnswersInOrder
  BY DEF OrderInv
<1>5. QED
  BY <1>1, <1>2, <1>3, <1>4, LoggedInitInv, LoopInvariant, PTL DEF AgentSpec
=============================================================================
