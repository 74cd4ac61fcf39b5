----------------------------- MODULE BreakerCard -----------------------------
(***************************************************************************)
(* The preview card of the Face against the clock of the daemon's window   *)
(* (BreakerPreviewCard.swift, CloudWindow.swift, AppCoordinator.swift,     *)
(* breaker.ts).  Both count the same number of seconds, each with a timer  *)
(* of its own and no frame that says a window was resolved.                *)
(*                                                                         *)
(* Time is in seconds.  The card's timer fires at most once a second, and  *)
(* late when the main thread is busy or the card is built again.  Any      *)
(* client of the socket may cancel, not only this Face.                    *)
(***************************************************************************)
EXTENDS Naturals, Sequences

CONSTANTS
    Previews,       \* preview ids; one is used again once nothing carries it
    Window          \* the cancel window, DEFAULT_WINDOW_MS and windowSeconds

ASSUME WindowPos == Window \in Nat \ {0}

VARIABLES
    window,         \* the preview whose window is open (a set: at most one)
    left,           \* seconds until its deadline
    wire,           \* preview frames on their way to the Face
    card,           \* activeBreakerPreview (a set: at most one)
    remaining,      \* the card's own countdown
    due,            \* a second has passed since the card last ticked
    cancels,        \* cancel frames on their way to the daemon
    shown           \* history: how the open window came to the screen

daemonSide == <<window, left>>
faceSide == <<card, remaining, due>>
cardVars == <<daemonSide, wire, faceSide, cancels, shown>>

Shown == {"unseen", "inserted", "replaced", "tapped"}

CardTypeOK ==
    /\ window \in SUBSET Previews /\ card \in SUBSET Previews
    /\ left \in 0..Window
    /\ wire \in Seq(Previews)
    /\ remaining \in 0..Window
    /\ card # {} => remaining > 0
    /\ due \in BOOLEAN
    /\ cancels \in SUBSET Previews
    /\ shown \in Shown

CardInit ==
    /\ window = {} /\ left = 0 /\ wire = <<>>
    /\ card = {} /\ remaining = 0 /\ due = FALSE
    /\ cancels = {} /\ shown = "unseen"

OnWire == {wire[i] : i \in DOMAIN wire}

-----------------------------------------------------------------------------
(* The daemon.  Runs are serial, and each preview has a fresh id.          *)

OpenWindow(p) ==
    /\ window = {}
    /\ p \notin OnWire \cup card \cup cancels
    /\ window' = {p} /\ left' = Window /\ shown' = "unseen"
    /\ wire' = Append(wire, p)
    /\ UNCHANGED <<faceSide, cancels>>

(* The deadline, or a cancel that is polled; the Face is not told.         *)
CloseWindow(p) ==
    /\ p \in window
    /\ left = 0 \/ p \in cancels
    /\ window' = {} /\ left' = 0
    /\ cancels' = cancels \ {p}
    /\ UNCHANGED <<wire, faceSide, shown>>

(* A cancel for anything but the open window is ignored.                   *)
DropStaleCancel(p) ==
    /\ p \in cancels \ window
    /\ cancels' = cancels \ {p}
    /\ UNCHANGED <<daemonSide, wire, faceSide, shown>>

OtherClientCancels(p) ==
    /\ p \in window
    /\ cancels' = cancels \cup {p}
    /\ UNCHANGED <<daemonSide, wire, faceSide, shown>>

Second ==
    /\ left' = IF left > 0 THEN left - 1 ELSE 0
    /\ due' = (card # {})
    /\ UNCHANGED <<window, wire, card, remaining, cancels, shown>>

-----------------------------------------------------------------------------
(* The Face.                                                               *)

CardSecondsShort == Window - 1      \* slip: the card counts one second less

CardSeconds == Window

(* The card has one place in the view and no identity of its own: a        *)
(* preview makes a new card, and onAppear sets its countdown, only if none *)
(* is there; otherwise the card stays, with its countdown.                 *)
NewCard == card = {}

(* presentBreakerPreview.                                                  *)
Present ==
    /\ wire # <<>>
    /\ wire' = Tail(wire)
    /\ card' = {Head(wire)}
    /\ IF NewCard THEN remaining' = CardSeconds /\ due' = FALSE
                  ELSE UNCHANGED <<remaining, due>>
    /\ shown' = IF Head(wire) \notin window THEN shown
                ELSE IF NewCard THEN "inserted" ELSE "replaced"
    /\ UNCHANGED <<daemonSide, cancels>>

ElapsedPastZero == remaining = 0    \* slip: tested before the decrement

Elapsed == remaining - 1 = 0

(* tick, and onElapsed on the last one.                                    *)
CardTick ==
    /\ card # {} /\ due /\ remaining > 0
    /\ due' = FALSE
    /\ remaining' = remaining - 1
    /\ card' = IF Elapsed THEN {} ELSE card
    /\ UNCHANGED <<daemonSide, wire, cancels, shown>>

(* The Cancel button: the frame, and the card is cleared.                  *)
Tap(p) ==
    /\ p \in card
    /\ cancels' = cancels \cup {p}
    /\ card' = {} /\ remaining' = 0 /\ due' = FALSE
    /\ shown' = IF p \in window THEN "tapped" ELSE shown
    /\ UNCHANGED <<daemonSide, wire>>

CardNext ==
    \/ \E p \in Previews :
          OpenWindow(p) \/ CloseWindow(p) \/ DropStaleCancel(p)
          \/ OtherClientCancels(p) \/ Tap(p)
    \/ Second \/ Present \/ CardTick

CardSpec == CardInit /\ [][CardNext]_cardVars

(* Time passes and the timer fires.                                        *)
CardFairSpec == CardSpec /\ WF_cardVars(Second) /\ WF_cardVars(CardTick)

-----------------------------------------------------------------------------
(* A card that was inserted for the open window stays until its deadline   *)
(* unless the owner taps it: however late its timer, the card never takes  *)
(* the Cancel button away early (BreakerPreviewCard.swift:5-10).           *)
OwnWindowShown ==
    \A p \in window : left > 0 /\ shown = "inserted" => card = {p} /\ remaining >= left

(* A card does not stay on the screen for good, although no frame ever     *)
(* says that its window is over.                                           *)
CardGoesAway == []<>(card = {})

(* The owner can cancel for the whole window: once the preview of the open *)
(* window reached the Face, its card is there until the deadline or the    *)
(* tap ("a visible 10-SECOND countdown", BreakerPreviewCard.swift:7).      *)
CardCoversWindow ==
    \A p \in window : left > 0 /\ shown \in {"inserted", "replaced"} => card = {p}
=============================================================================
