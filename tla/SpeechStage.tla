----------------------------- MODULE SpeechStage -----------------------------
(***************************************************************************)
(* A routine's steps become speak frames (routines/engine.ts, cues.ts);    *)
(* the Face speaks them and lets widgets bloom as the voice passes their   *)
(* words (Speaker.swift, StageController.swift, AppCoordinator.swift).     *)
(*                                                                         *)
(* Two clocks fire the cues of the reply that is loaded: the synthesizer's *)
(* callbacks, which count in UTF-16 units and may never come, and a timer  *)
(* that passes the ends of the sentences, counted in characters.  The      *)
(* synthesizer queues utterances; the stage holds one reply.  stop() and   *)
(* reset() have no caller, so no utterance is ever cancelled.              *)
(*                                                                         *)
(* Words are abstracted to offsets, and a widget's payload is left out.    *)
(***************************************************************************)
EXTENDS Integers, SequencesExt

CONSTANTS
    Steps,      \* the steps of the routine file
    Enabled,    \* those that are enabled
    Preset,     \* the ids the preset names; none means all
    Order,      \* [Steps -> Nat], no two alike
    Chats,      \* replies of the loop, which carry no cues
    Plan,       \* [Steps -> Seq([widget, at])], at = -1: not in the narration
    Text        \* [Steps \cup Chats -> [chars, units, ends]]

(* The sentences of a text end further and further on, the last one with   *)
(* it; a character is one UTF-16 unit or more.                             *)
ASSUME TextsEnd ==
    \A u \in Steps \cup Chats :
        LET t == Text[u] IN
        /\ t.units >= t.chars
        /\ \A i \in 1..(Len(t.ends) - 1) : t.ends[i] < t.ends[i + 1]
        /\ IF t.chars = 0 THEN t.ends = <<>> ELSE Last(t.ends) = t.chars

(* An item of a plan is a widget and where its phrase is, if anywhere; no  *)
(* two steps have the same order.                                          *)
Widgets == UNION {{Plan[s][i].widget : i \in DOMAIN Plan[s]} : s \in Steps}

ASSUME PlansAreSeqs == \A s \in Steps : Plan[s] \in Seq([widget : Widgets, at : Int])
ASSUME StepsOrdered ==
    /\ Enabled \subseteq Steps /\ Order \in [Steps -> Nat]
    /\ \A s, t \in Steps : Order[s] = Order[t] => s = t

VARIABLES
    sent,       \* steps run and replies given so far
    frames,     \* speak and reply frames on their way to the Face
    loaded,     \* the reply on the stage (a set: at most one)
    fired,      \* firedSet
    finished,   \* onFinishFired
    ticking,    \* the fallback timer runs
    speech,     \* utterances the synthesizer has, the first one is spoken
    focus       \* presentedWidgets

stage == <<loaded, fired, finished, ticking>>
stageVars == <<sent, frames, stage, speech, focus>>

StageInit ==
    /\ sent = {} /\ frames = <<>>
    /\ loaded = {} /\ fired = {} /\ finished = FALSE /\ ticking = FALSE
    /\ speech = <<>> /\ focus = <<>>

-----------------------------------------------------------------------------
(* The routine.                                                            *)

(* stepsForPreset.                                                         *)
Active == {s \in Enabled : Preset = {} \/ s \in Preset}

MaxWidgets == 2

(* Where the present cue of a planned widget is anchored.                  *)
Anchor(item) == IF item.at >= 0 THEN item.at ELSE 0

(* The sort by offset, which is stable, of at most two cues.               *)
Sorted(cues) ==
    IF Len(cues) = MaxWidgets /\ cues[2].at < cues[1].at THEN Reverse(cues) ELSE cues

(* assembleSpeak: the plan cut at two widgets, in the order of the text.   *)
CuesOf(u) ==
    LET plan == IF u \in Steps THEN Plan[u] ELSE <<>>
        size == IF Len(plan) > MaxWidgets THEN MaxWidgets ELSE Len(plan)
    IN  Sorted([i \in 1..size |-> [widget |-> plan[i].widget, at |-> Anchor(plan[i])]])

(* onFinish dissolves the widget that blooms last.                         *)
FinishOf(u) == IF CuesOf(u) = <<>> THEN {} ELSE {Last(CuesOf(u)).widget}

(* run: the next step that is enabled, after the ones of a lower order.    *)
RunStep ==
    \E s \in Active \ sent :
        /\ \A t \in Active : Order[t] < Order[s] => t \in sent
        /\ sent' = sent \cup {s}
        /\ frames' = Append(frames, s)
        /\ UNCHANGED <<stage, speech, focus>>

(* The loop answers something else meanwhile.                              *)
Chat(u) ==
    /\ u \notin sent
    /\ sent' = sent \cup {u}
    /\ frames' = Append(frames, u)
    /\ UNCHANGED <<stage, speech, focus>>

-----------------------------------------------------------------------------
(* The stage and its widgets.                                              *)

MaxInFocus == 2

(* present, for a cue that fires: a widget blooms once, and a third one    *)
(* dissolves the oldest.                                                   *)
Bloom(widgets, cue) ==
    IF ~cue.fires \/ Contains(widgets, cue.widget) THEN widgets
    ELSE IF Len(widgets) = MaxInFocus THEN Append(Tail(widgets), cue.widget)
    ELSE Append(widgets, cue.widget)

(* removeAll: the widgets but these, in their order.                       *)
Dismiss(widgets, ws) ==
    LET kept[i \in 0..Len(widgets)] ==
            IF i = 0 THEN <<>>
            ELSE IF widgets[i] \in ws THEN kept[i - 1]
            ELSE Append(kept[i - 1], widgets[i])
    IN kept[Len(widgets)]

(* The cues of the loaded reply up to an offset, or all, not fired yet.    *)
Unfired(u) == DOMAIN CuesOf(u) \ fired
UpTo(u, offset) == {i \in Unfired(u) : CuesOf(u)[i].at <= offset}

(* The cues in their order, some of which fire: the focus afterwards.      *)
Blooms(u, some) ==
    FoldLeft(Bloom, focus,
             [i \in DOMAIN CuesOf(u) |->
                [widget |-> CuesOf(u)[i].widget, fires |-> i \in some]])

Fire(u, some) ==
    /\ fired' = fired \cup some
    /\ focus' = Blooms(u, some)

FinishedStays == finished       \* slip: load forgets to reset the flag

FinishedAtLoad == FALSE

(* Speaker.speak: the stage takes the new reply, whatever it still held,   *)
(* and the synthesizer queues the utterance.                               *)
Hear ==
    /\ frames # <<>>
    /\ LET u == Head(frames) IN
       /\ frames' = Tail(frames)
       /\ loaded' = {u} /\ fired' = {} /\ finished' = FinishedAtLoad
       /\ ticking' = (Text[u].chars > 0)
       /\ speech' = Append(speech, u)
    /\ UNCHANGED <<sent, focus>>

(* willSpeakRange: a word of the utterance being spoken.  A location that  *)
(* is NSNotFound or negative fires nothing.                                *)
Boundary ==
    \E v \in {speech[i] : i \in DOMAIN speech \cap {1}}, u \in loaded :
        \E location \in 0..(Text[v].units - 1) :
            /\ UpTo(u, location) # {}
            /\ Fire(u, UpTo(u, location))
            /\ UNCHANGED <<sent, frames, loaded, finished, ticking, speech>>

(* slip: onFinish runs before the cues nobody fired.                       *)
DissolveFirst(u) == Blooms(u, Unfired(u))

(* fireOnFinish: what nobody fired blooms, and the last widget dissolves.  *)
AfterFinish(u) == Dismiss(Blooms(u, Unfired(u)), FinishOf(u))

(* didFinish, of whatever was spoken.                                      *)
DidFinish ==
    /\ speech # <<>>
    /\ speech' = Tail(speech)
    /\ ticking' = FALSE
    /\ IF finished
       THEN UNCHANGED <<fired, finished, focus>>
       ELSE \E u \in loaded :
               /\ finished' = TRUE
               /\ fired' = DOMAIN CuesOf(u)
               /\ focus' = AfterFinish(u)
    /\ UNCHANGED <<sent, frames, loaded>>

(* slip: the timer is cancelled before its last sentence is looked at.     *)
ThroughEarly(u, k) == IF k = Len(Text[u].ends) THEN 0 ELSE Text[u].ends[k]

(* The text that k sentences take the voice through.                       *)
Through(u, k) == Text[u].ends[k]

(* The fallback timer, when k sentences should have been spoken.           *)
Tick ==
    /\ ticking
    /\ \E u \in loaded :
          \E k \in DOMAIN Text[u].ends :
             /\ Fire(u, UpTo(u, Through(u, k)))
             /\ ticking' = (k < Len(Text[u].ends))
    /\ UNCHANGED <<sent, frames, loaded, finished, speech>>

StageNext ==
    \/ RunStep
    \/ \E u \in Chats : Chat(u)
    \/ Hear \/ Boundary \/ DidFinish \/ Tick

StageSpec == StageInit /\ [][StageNext]_stageVars

(* The timer is the main queue's own and always fires; nothing is assumed  *)
(* of the synthesizer, whose callbacks the timer is there to replace.      *)
StageFairSpec == StageSpec /\ WF_stageVars(Tick)

-----------------------------------------------------------------------------
(* When the last utterance is over, the stage is done: every cue fired,    *)
(* the timer is off, and onFinish ran, even if it ran for an utterance     *)
(* that was spoken before (Speaker.swift:85, StageController.swift:86).    *)
SilenceIsFinished ==
    speech = <<>> /\ loaded # {} =>
        /\ finished /\ ~ticking
        /\ \A u \in loaded : Unfired(u) = {}

(* Once onFinish ran, the widget that bloomed last is gone, although the   *)
(* cues that nobody fired bloom in the same step (cues.ts:50).             *)
LastWidgetDissolves ==
    finished => \A u \in loaded : \A i \in DOMAIN CuesOf(u) :
        (\A j \in DOMAIN CuesOf(u) : CuesOf(u)[j].at <= CuesOf(u)[i].at)
            => ~Contains(focus, CuesOf(u)[i].widget)
                  \/ \E j \in DOMAIN CuesOf(u) \ {i} : CuesOf(u)[j].at = CuesOf(u)[i].at

(* No widget stalls: the timer alone fires every cue that lies within the  *)
(* characters of its text, unless another reply takes the stage first      *)
(* (StageController.swift:99 "Always present").                            *)
CuesFireAlone ==
    \A u \in Steps :
        (loaded = {u}) ~>
            \/ loaded # {u}
            \/ \A i \in DOMAIN CuesOf(u) : CuesOf(u)[i].at <= Text[u].chars => i \in fired
=============================================================================
