----------------------------- MODULE BrainToggle -----------------------------
(***************************************************************************)
(* The brain = cloud | local toggle, from the Face's menubar and from the  *)
(* text client's /brain to the provider the daemon's loop asks             *)
(* (AppCoordinator.swift, chat.mjs, settings.ts, loop.ts, index.ts).  The  *)
(* choice is kept in three places: the Face's UserDefaults, the daemon's   *)
(* memory and the daemon's brain.json; nothing tells the Face what the     *)
(* text client chose.  The Face connects once, when it is launched; a      *)
(* frame it sends without a connection is dropped.                         *)
(***************************************************************************)
EXTENDS Naturals, Sequences

CONSTANTS
    PrefWrites,     \* every write of brain.json succeeds
    MaxFrames       \* bound on the settings frames in flight

ASSUME PrefWritesBool == PrefWrites \in BOOLEAN
ASSUME MaxFramesNat == MaxFrames \in Nat

Brain == {"cloud", "local"}
Provider == Brain \cup {"stub"}
Pref == Brain \cup {"none"}

VARIABLES
    up,             \* the daemon serves its socket
    brain,          \* the loop's provider
    selection,      \* currentBrain of settings.ts
    pref,           \* brain.json
    faceUp,         \* the Face has a connection
    faceBrain,      \* the choice the Face shows (and keeps in UserDefaults)
    settings,       \* the Face's settings frames on their way to the daemon
    commands,          \* those of the text client
    chosen,         \* history: the last choice the daemon applied
    overridden,     \* history: that choice was the text client's
    dropped         \* history: the last pick in the Face never arrived

daemonBrain == <<brain, selection, pref>>
faceToggle == <<faceUp, faceBrain>>
history == <<chosen, overridden, dropped>>
toggleVars == <<up, daemonBrain, faceToggle, settings, commands, history>>

ToggleTypeOK ==
    /\ up \in BOOLEAN /\ faceUp \in BOOLEAN
    /\ dropped \in BOOLEAN /\ overridden \in BOOLEAN
    /\ brain \in Provider
    /\ selection \in Brain
    /\ pref \in Pref /\ chosen \in Pref
    /\ faceBrain \in Brain
    /\ settings \in Seq(Brain) /\ commands \in Seq(Brain)

(* The providers before anything is restored: two module-level defaults.   *)
DefaultSelection == "cloud"
DefaultProvider == "stub"

ToggleInit ==
    /\ up = TRUE
    /\ brain = DefaultProvider /\ selection = DefaultSelection /\ pref = "none"
    /\ faceUp = FALSE /\ faceBrain = "cloud"
    /\ settings = <<>> /\ commands = <<>>
    /\ chosen = "none" /\ overridden = FALSE /\ dropped = FALSE

-----------------------------------------------------------------------------
(* The Face and the text client.                                           *)

CanSend == Len(settings) + Len(commands) < MaxFrames

FaceLaunched ==
    /\ up /\ ~faceUp
    /\ faceUp' = TRUE
    /\ UNCHANGED <<up, daemonBrain, faceBrain, settings, commands, history>>

FaceQuits ==
    /\ faceUp
    /\ faceUp' = FALSE
    /\ UNCHANGED <<up, daemonBrain, faceBrain, settings, commands, history>>

(* The picker; choosing what is already shown does nothing.  The choice is *)
(* kept whether or not the frame can be sent.                              *)
PickBrain(b) ==
    /\ b # faceBrain
    /\ faceBrain' = b
    /\ \/ faceUp /\ CanSend /\ settings' = Append(settings, b)
       \/ ~faceUp /\ UNCHANGED settings
    /\ dropped' = ~faceUp
    /\ UNCHANGED <<up, daemonBrain, faceUp, commands, chosen, overridden>>

(* /brain in the text client, which runs only while it is connected.       *)
TypeBrain(b) ==
    /\ up /\ CanSend
    /\ commands' = Append(commands, b)
    /\ UNCHANGED <<up, daemonBrain, faceToggle, settings, history>>

-----------------------------------------------------------------------------
(* The daemon.                                                             *)

(* A write that fails, before or after it truncated the file, is ignored.   *)
PersistBrain(b) == pref' = b \/ (~PrefWrites /\ pref' \in {pref, "none"})

(* The settings frame's handler, the same whichever client sent it.  A     *)
(* pass in flight keeps the provider object it already asked.              *)
SwitchTo(b) ==
    /\ selection' = b /\ brain' = b
    /\ PersistBrain(b)
    /\ chosen' = b

(* slip: the settings arm falls through to the default one.               *)
SettingsIgnored ==
    /\ up /\ settings # <<>>
    /\ settings' = Tail(settings)
    /\ overridden' = FALSE
    /\ UNCHANGED <<up, daemonBrain, faceToggle, commands, chosen, dropped>>

ApplySettings ==
    /\ up /\ settings # <<>>
    /\ SwitchTo(Head(settings))
    /\ settings' = Tail(settings)
    /\ overridden' = FALSE
    /\ UNCHANGED <<up, faceToggle, commands, dropped>>

ApplyCommand ==
    /\ up /\ commands # <<>>
    /\ SwitchTo(Head(commands))
    /\ commands' = Tail(commands)
    /\ overridden' = TRUE
    /\ UNCHANGED <<up, faceToggle, settings, dropped>>

DaemonDies ==
    /\ up
    /\ up' = FALSE
    /\ faceUp' = FALSE
    /\ settings' = <<>> /\ commands' = <<>>
    /\ dropped' = (dropped \/ settings # <<>>)
    /\ UNCHANGED <<daemonBrain, faceBrain, chosen, overridden>>

RestoreSkipped == DefaultSelection     \* slip: main() without restorePersistedBrain

RestoredSelection == IF pref = "none" THEN DefaultSelection ELSE pref
RestoredProvider == IF pref = "none" THEN DefaultProvider ELSE pref

(* A new process: module defaults, then restorePersistedBrain, then the    *)
(* socket.                                                                 *)
Boot ==
    /\ ~up
    /\ up' = TRUE
    /\ selection' = RestoredSelection
    /\ brain' = RestoredProvider
    /\ UNCHANGED <<pref, faceToggle, settings, commands, history>>

OwnerNext ==
    \/ FaceLaunched \/ FaceQuits
    \/ \E b \in Brain : PickBrain(b) \/ TypeBrain(b)

ToggleNext == OwnerNext \/ ApplySettings \/ ApplyCommand \/ DaemonDies \/ Boot

ToggleSpec == ToggleInit /\ [][ToggleNext]_toggleVars

-----------------------------------------------------------------------------
(* A launchd relaunch keeps the owner's brain (settings.ts:14-15): whenever *)
(* the daemon serves, both the provider and the label are the last choice  *)
(* it applied.                                                             *)
ChoiceInForce == up /\ chosen # "none" => brain = chosen /\ selection = chosen

(* The menubar shows the daemon's brain (AppCoordinator.swift:34), or the  *)
(* one it is about to have, through crashes of either side and whatever    *)
(* order the two clients' frames are handled in; it is wrong only when the *)
(* text client had the last word or the last pick in the menu was lost.    *)
MirrorsFace ==
    up /\ ~dropped =>
        IF settings # <<>> THEN faceBrain = settings[Len(settings)]
                           ELSE overridden \/ faceBrain = selection

(* The strengthening the proofs use: brain.json is the last choice.        *)
PrefIsChoice == pref = chosen

(* A pick that reached the socket is applied, unless the daemon dies.      *)
PickIsApplied ==
    \A b \in Brain :
        up /\ settings # <<>> /\ settings[Len(settings)] = b
            ~> selection = b \/ ~up
=============================================================================
