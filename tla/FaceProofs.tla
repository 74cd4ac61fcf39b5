------------------------------ MODULE FaceProofs ------------------------------
(***************************************************************************)
(* Theorems about the Face: the card of the breaker against the clock of   *)
(* the daemon, for any window and any previews; and the stage against the  *)
(* synthesizer, for any routine, replies and texts.                        *)
(***************************************************************************)
EXTENDS BreakerCard, SpeechStage, NumberLemmas, SequenceTheorems, TLAPS

F == INSTANCE FoldLemmas WITH Op <- Bloom       \* folds of what blooms

USE WindowPos

-----------------------------------------------------------------------------
(* The breaker's card.                                                     *)

AtMostOne(S) == \A p, q \in S : p = q

(* The preview of the open window is the newest frame until it is shown,   *)
(* and an inserted card has at least the daemon's seconds ahead of it; one *)
(* more when a second has passed that it has not counted.                  *)
OwnCardInv ==
    \A p \in window :
        /\ shown = "unseen" => /\ wire # <<>> /\ wire[Len(wire)] = p
                               /\ \A i \in 1 .. Len(wire) - 1 : wire[i] # p
                               /\ p \notin card
        /\ shown # "unseen" => wire = <<>>
        /\ shown = "inserted" /\ left > 0 =>
              /\ card = {p} /\ remaining >= left
              /\ due = TRUE => remaining > left

CardInv ==
    /\ CardTypeOK
    /\ AtMostOne(window) /\ AtMostOne(card)
    /\ OwnCardInv

(* The daemon opens one window at a time, and its frame is the last one.   *)
LEMMA OpenStep ==
  ASSUME CardInv, NEW p \in Previews, OpenWindow(p)
  PROVE  CardInv'
<1>1. /\ window' = {p} /\ left' = Window /\ shown' = "unseen"
      /\ p \notin OnWire /\ p \notin card /\ wire' = Append(wire, p)
      /\ UNCHANGED <<card, remaining, due, cancels>>
  BY DEF OpenWindow, faceSide
<1>2. /\ wire \in Seq(Previews) /\ wire' \in Seq(Previews)
      /\ DOMAIN wire = 1 .. Len(wire) /\ Len(wire) \in Nat
      /\ Len(wire') = Len(wire) + 1 /\ wire'[Len(wire')] = p
      /\ \A i \in 1 .. Len(wire) : wire'[i] = wire[i]
  BY <1>1, AppendProperties, LenProperties DEF CardInv, CardTypeOK
<1>3. CardTypeOK'
  BY <1>1, <1>2 DEF CardInv, CardTypeOK, Shown
<1>4. \A i \in 1 .. Len(wire') - 1 : wire'[i] # p
  BY <1>1, <1>2 DEF OnWire
<1>5. wire' # <<>>
  BY <1>2, EmptySeq
<1>6. OwnCardInv'
  BY <1>1, <1>2, <1>4, <1>5 DEF OwnCardInv
<1>7. QED
  BY <1>1, <1>3, <1>6 DEF CardInv, AtMostOne

(* The Face takes the frames in order; the one of the open window, when it *)
(* comes, is the last.                                                     *)
LEMMA PresentStep ==
  ASSUME CardInv, Present
  PROVE  CardInv'
<1>1. /\ wire # <<>> /\ wire' = Tail(wire) /\ card' = {Head(wire)}
      /\ UNCHANGED <<window, left, cancels>>
  BY DEF Present, daemonSide
<1>2. IF card = {} THEN remaining' = Window /\ due' = FALSE
                   ELSE UNCHANGED <<remaining, due>>
  BY DEF Present, NewCard, CardSeconds
<1>3. shown' = IF Head(wire) \notin window THEN shown
               ELSE IF card = {} THEN "inserted" ELSE "replaced"
  BY DEF Present, NewCard
<1>4. /\ wire \in Seq(Previews) /\ Len(wire) \in Nat \ {0}
      /\ Head(wire) = wire[1] /\ Head(wire) \in Previews
      /\ wire' \in Seq(Previews) /\ Len(wire') = Len(wire) - 1
      /\ \A i \in 1 .. Len(wire') : wire'[i] = wire[i + 1]
  BY <1>1, EmptySeq, LenProperties, HeadTailProperties DEF CardInv, CardTypeOK
<1>5. CardTypeOK'
  <2>1. shown' \in Shown
    BY <1>3 DEF CardInv, CardTypeOK, Shown
  <2>2. /\ due' \in BOOLEAN /\ remaining' \in 0 .. Window /\ remaining' > 0
    <3>1. CASE card = {}
      <4>1. due' = FALSE /\ remaining' = Window
        BY <1>2, <3>1
      <4>2. due' \in BOOLEAN
        BY <4>1
      <4>3. QED
        BY <4>1, <4>2
    <3>2. CASE card # {}
      BY <1>2, <3>2 DEF CardInv, CardTypeOK
    <3>3. QED
      BY <3>1, <3>2
  <2>3. QED
    BY <1>1, <1>4, <2>1, <2>2 DEF CardInv, CardTypeOK
<1>6. ASSUME NEW p \in window
      PROVE  /\ shown' = "unseen" => /\ wire' # <<>> /\ wire'[Len(wire')] = p
                                     /\ \A i \in 1 .. Len(wire') - 1 : wire'[i] # p
                                     /\ p \notin card'
             /\ shown' # "unseen" => wire' = <<>>
             /\ shown' = "inserted" /\ left > 0 =>
                   /\ card' = {p} /\ remaining' >= left
                   /\ due' = TRUE => remaining' > left
  <2>1. /\ shown = "unseen" /\ wire[Len(wire)] = p
        /\ \A i \in 1 .. Len(wire) - 1 : wire[i] # p
    BY <1>1 DEF CardInv, OwnCardInv
  <2>2. CASE Len(wire) = 1
    <3>1. wire' = <<>> /\ Head(wire) = p
      BY <1>4, <2>1, <2>2, EmptySeq
    <3>2. left \in 0 .. Window
      BY DEF CardInv, CardTypeOK
    <3>3. CASE card = {}
      BY <1>1, <1>2, <1>3, <3>1, <3>2, <3>3
    <3>4. CASE card # {}
      BY <1>1, <1>2, <1>3, <3>1, <3>2, <3>4
    <3>5. QED
      BY <3>3, <3>4
  <2>3. CASE Len(wire) > 1
    <3>1. Head(wire) \notin window
      BY <1>4, <2>1, <2>3 DEF CardInv, AtMostOne
    <3>2. wire' # <<>> /\ Len(wire') \in 1 .. Len(wire) - 1
      BY <1>4, <2>3, EmptySeq
    <3>3. wire'[Len(wire')] = p /\ \A i \in 1 .. Len(wire') - 1 : wire'[i] # p
      BY <1>4, <2>1, <2>3, <3>2
    <3>4. QED
      BY <1>1, <1>3, <2>1, <3>1, <3>2, <3>3
  <2>4. QED
    <3>1. Len(wire) = 1 \/ Len(wire) > 1
      BY <1>4
    <3>2. QED
      BY <2>2, <2>3, <3>1
<1>7. OwnCardInv'
  BY <1>1, <1>6 DEF OwnCardInv
<1>8. QED
  BY <1>1, <1>5, <1>7 DEF CardInv, AtMostOne

(* A second passes for both clocks, and a tick of the card makes up for it.*)
LEMMA ClockStep ==
  ASSUME CardInv, Second \/ CardTick
  PROVE  CardInv'
<1> USE DEF CardInv, CardTypeOK, OwnCardInv, AtMostOne
<1>1. CASE Second
  BY <1>1 DEF Second
<1>2. CASE CardTick
  <2>1. /\ card # {} /\ due /\ remaining > 0
        /\ due' = FALSE /\ remaining' = remaining - 1
        /\ card' = IF remaining - 1 = 0 THEN {} ELSE card
        /\ UNCHANGED <<window, left, wire, cancels, shown>>
    BY <1>2 DEF CardTick, Elapsed, daemonSide
  <2>2. due' \in BOOLEAN
    BY <2>1
  <2>3. CardTypeOK'
    BY <2>1, <2>2
  <2>4. ASSUME NEW p \in window, shown = "inserted", left > 0
        PROVE  card' = {p} /\ remaining' >= left
    BY <2>1, <2>4
  <2>5. ~(due' = TRUE)
    BY <2>1
  <2>6. OwnCardInv'
    BY <2>1, <2>4, <2>5
  <2>7. AtMostOne(window)' /\ AtMostOne(card)'
    BY <2>1
  <2>8. QED
    BY <2>3, <2>6, <2>7
<1>3. QED
  BY <1>1, <1>2

(* Every step keeps the card with its window.                              *)
LEMMA CardStep ==
  ASSUME CardInv, [CardNext]_cardVars
  PROVE  CardInv'
<1> USE DEF CardInv, CardTypeOK, OwnCardInv, AtMostOne
<1>1. ASSUME NEW p \in Previews, CloseWindow(p) PROVE CardInv'
  BY <1>1 DEF CloseWindow, faceSide
<1>2. ASSUME NEW p \in Previews, DropStaleCancel(p) \/ OtherClientCancels(p) PROVE CardInv'
  BY <1>2 DEF DropStaleCancel, OtherClientCancels, daemonSide, faceSide
<1>3. ASSUME NEW p \in Previews, Tap(p) PROVE CardInv'
  <2>1. /\ p \in card /\ cancels' = cancels \cup {p}
        /\ card' = {} /\ remaining' = 0 /\ due' = FALSE
        /\ shown' = IF p \in window THEN "tapped" ELSE shown
        /\ UNCHANGED <<window, left, wire>>
    BY <1>3 DEF Tap, daemonSide
  <2>2. due' \in BOOLEAN
    BY <2>1
  <2>3. shown' \in Shown
    BY <2>1 DEF Shown
  <2>4. CardTypeOK'
    BY <2>1, <2>2, <2>3
  <2>5. OwnCardInv'
    <3>1. CASE p \in window
      <4>1. shown # "unseen"
        BY <2>1, <3>1
      <4>2. wire = <<>>
        BY <3>1, <4>1
      <4>3. shown' = "tapped" /\ wire' = <<>>
        BY <2>1, <3>1, <4>2
      <4>4. QED
        BY <4>3
    <3>2. CASE p \notin window
      BY <2>1, <3>2
    <3>3. QED
      BY <3>1, <3>2
  <2>6. QED
    BY <2>1, <2>4, <2>5
<1>4. CASE UNCHANGED cardVars
  BY <1>4 DEF cardVars, daemonSide, faceSide
<1>5. QED
  BY <1>1, <1>2, <1>3, <1>4, OpenStep, PresentStep, ClockStep DEF CardNext

(* The invariant of the card, for any window of at least a second.         *)
THEOREM CardInvariant == CardSpec => []CardInv
<1>1. CardInit => CardInv
  <2> SUFFICES ASSUME CardInit PROVE CardInv
    OBVIOUS
  <2>1. due \in BOOLEAN
    BY DEF CardInit
  <2>4. CardTypeOK
    BY <2>1, EmptySeq DEF CardInit, CardTypeOK, Shown
  <2>2. OwnCardInv /\ AtMostOne(window) /\ AtMostOne(card)
    BY DEF CardInit, OwnCardInv, AtMostOne
  <2>3. QED
    BY <2>2, <2>4 DEF CardInv
<1>2. CardInv /\ [CardNext]_cardVars => CardInv'
  BY CardStep
<1>3. QED
  BY <1>1, <1>2, PTL DEF CardSpec

(* Every variable of the card keeps its type: its countdown never leaves   *)
(* 0..Window, and there is no card at zero.                                *)
THEOREM CardTypes == CardSpec => []CardTypeOK
<1>1. CardInv => CardTypeOK
  BY DEF CardInv
<1>2. QED
  BY <1>1, CardInvariant, PTL

(* A card inserted for the open window is there, with the Cancel button,   *)
(* until the daemon's deadline or the owner's tap.                         *)
THEOREM InsertedCardStays == CardSpec => []OwnWindowShown
<1>1. CardInv => OwnWindowShown
  BY DEF CardInv, OwnCardInv, OwnWindowShown
<1>2. QED
  BY <1>1, CardInvariant, PTL

-----------------------------------------------------------------------------
(* The stage: the cues of a reply, and the widgets in focus.               *)

Replies == Steps \cup Chats

Distinct(s) == \A i, j \in DOMAIN s : s[i] = s[j] => i = j

(* What the stage shows: at most two widgets, no widget twice.             *)
Focuses == {s \in Seq(Widgets) : Len(s) <= MaxInFocus /\ Distinct(s)}

(* A reply has at most two cues, in the order of the text.                 *)
LEMMA CuesInOrder ==
  ASSUME NEW u
  PROVE  /\ CuesOf(u) \in Seq([widget : Widgets, at : Int])
         /\ Len(CuesOf(u)) <= MaxWidgets
         /\ Len(CuesOf(u)) = 2 => CuesOf(u)[1].at <= CuesOf(u)[2].at
<1> DEFINE Cue == [widget : Widgets, at : Int]
           items == IF u \in Steps THEN Plan[u] ELSE <<>>
           size == IF Len(items) > MaxWidgets THEN MaxWidgets ELSE Len(items)
           cues == [i \in 1 .. size |-> [widget |-> items[i].widget, at |-> Anchor(items[i])]]
<1>1. items \in Seq(Cue)
  BY PlansAreSeqs, EmptySeq
<1>2. size \in Nat /\ size <= 2 /\ size <= Len(items)
  <2> DEFINE n == Len(items)
  <2>1. n \in Nat
    BY <1>1, LenProperties
  <2> HIDE DEF items, n
  <2>2. (IF n > 2 THEN 2 ELSE n) \in Nat /\ (IF n > 2 THEN 2 ELSE n) <= 2
        /\ (IF n > 2 THEN 2 ELSE n) <= n
    BY <2>1
  <2>3. QED
    BY <2>2 DEF MaxWidgets, n
<1>3. \A i \in 1 .. size : [widget |-> items[i].widget, at |-> Anchor(items[i])] \in Cue
  <2> SUFFICES ASSUME NEW i \in 1 .. size
               PROVE  [widget |-> items[i].widget, at |-> Anchor(items[i])] \in Cue
    OBVIOUS
  <2> HIDE DEF items, size
  <2>1. items[i] \in Cue
    <3> DEFINE n == Len(items)
    <3>1. items \in [1 .. n -> Cue] /\ n \in Nat
      BY <1>1, LenProperties
    <3>2. size \in Nat /\ size <= n
      BY <1>2
    <3> HIDE DEF n, Cue
    <3>3. QED
      BY <3>1, <3>2
  <2>2. QED
    BY <2>1 DEF Anchor
<1>4. cues \in Seq(Cue) /\ Len(cues) = size
  <2> HIDE DEF items, size
  <2>1. QED
    BY <1>2, <1>3
<1>5. CuesOf(u) = Sorted(cues)
  BY DEF CuesOf
<1> HIDE DEF cues, size, items
<1>6. CASE Len(cues) = MaxWidgets /\ cues[2].at < cues[1].at
  <2>1. CuesOf(u) = Reverse(cues) /\ Len(cues) = 2
    BY <1>5, <1>6 DEF Sorted, MaxWidgets
  <2>2. cues[1] \in Cue /\ cues[2] \in Cue
    <3> HIDE DEF Cue
    <3>1. QED
      BY <1>4, <2>1
  <2>3. /\ Reverse(cues) \in Seq(Cue) /\ Len(Reverse(cues)) = 2
        /\ Reverse(cues)[1] = cues[2] /\ Reverse(cues)[2] = cues[1]
    BY <2>1, <2>2 DEF Reverse
  <2>4. QED
    BY <1>6, <2>1, <2>2, <2>3 DEF MaxWidgets
<1>7. CASE ~(Len(cues) = MaxWidgets /\ cues[2].at < cues[1].at)
  <2>1. CuesOf(u) = cues
    BY <1>5, <1>7 DEF Sorted
  <2>2. Len(cues) = 2 => cues[1].at \in Int /\ cues[2].at \in Int
    <3> SUFFICES ASSUME Len(cues) = 2 PROVE cues[1].at \in Int /\ cues[2].at \in Int
      OBVIOUS
    <3>1. cues[1] \in Cue /\ cues[2] \in Cue
      <4> HIDE DEF Cue
      <4>1. QED
        BY <1>4
    <3>2. QED
      BY <3>1
  <2>3. QED
    BY <1>2, <1>4, <1>7, <2>1, <2>2 DEF MaxWidgets
<1>8. QED
  BY <1>6, <1>7

(* One cue more keeps the focus small and without repetition.              *)
LEMMA BloomKeepsFocus ==
  ASSUME NEW s \in Focuses, NEW cue, cue.widget \in Widgets
  PROVE  Bloom(s, cue) \in Focuses
<1> DEFINE w == cue.widget
           n == Len(s)
<1>1. s \in Seq(Widgets) /\ n \in Nat /\ n <= 2 /\ DOMAIN s = 1 .. n /\ Distinct(s)
  BY LenProperties DEF Focuses, MaxInFocus
<1>2. Bloom(s, cue) = IF ~cue.fires \/ Contains(s, w) THEN s
                      ELSE IF n = 2 THEN Append(Tail(s), w) ELSE Append(s, w)
  BY DEF Bloom, MaxInFocus
<1>3. Contains(s, w) <=> \E i \in 1 .. n : s[i] = w
  BY DEF Contains
<1>4. w \in Widgets
  OBVIOUS
<1> HIDE DEF w, n
<1>5. CASE ~Contains(s, w) /\ n = 2
  <2>1. s # <<>> /\ s[2] # w
    BY <1>1, <1>3, <1>5 DEF n
  <2> DEFINE t == Tail(s)
             r == Append(t, w)
  <2>2. t \in Seq(Widgets) /\ Len(t) = n - 1 /\ \A i \in 1 .. Len(t) : t[i] = s[i + 1]
    BY <1>1, <2>1, HeadTailProperties DEF n
  <2> HIDE DEF t
  <2>3. Len(t) = 1 /\ t[1] = s[2]
    BY <1>5, <2>2
  <2>4. r \in Seq(Widgets) /\ Len(r) = 2 /\ r[1] = s[2] /\ r[2] = w /\ DOMAIN r = 1 .. 2
    <3>1. /\ r \in Seq(Widgets) /\ Len(r) = Len(t) + 1 /\ r[Len(t) + 1] = w
          /\ \A i \in 1 .. Len(t) : r[i] = t[i]
          /\ DOMAIN r = 1 .. Len(r)
      BY <1>4, <2>2, AppendProperties, LenProperties
    <3> HIDE DEF r
    <3>2. QED
      BY <2>3, <3>1
  <2> HIDE DEF r
  <2>5. Distinct(r)
    BY <2>1, <2>4 DEF Distinct
  <2>6. r \in Focuses
    <3>1. Len(r) <= 2
      BY <2>4
    <3>2. QED
      BY <2>4, <2>5, <3>1 DEF Focuses, MaxInFocus
  <2>7. QED
    BY <1>2, <1>5, <2>6 DEF r, t
<1>6. CASE ~Contains(s, w) /\ n # 2
  <2> DEFINE r == Append(s, w)
  <2>1. /\ r \in Seq(Widgets) /\ Len(r) = n + 1 /\ r[n + 1] = w
        /\ \A i \in 1 .. n : r[i] = s[i]
        /\ DOMAIN r = 1 .. n + 1
    BY <1>1, <1>4, AppendProperties, LenProperties DEF n
  <2> HIDE DEF r
  <2>2. Distinct(r)
    BY <1>1, <1>3, <1>6, <2>1 DEF Distinct
  <2>3. r \in Focuses
    BY <1>1, <1>6, <2>1, <2>2 DEF Focuses, MaxInFocus
  <2>4. QED
    BY <1>2, <1>6, <2>3 DEF r
<1>7. QED
  BY <1>2, <1>5, <1>6

(* So does a reply's fold over all its cues, whichever of them fire.       *)
LEMMA BloomsKeepFocus ==
  ASSUME focus \in Focuses, NEW u, NEW some
  PROVE  Blooms(u, some) \in Focuses
<1> DEFINE cues == [i \in DOMAIN CuesOf(u) |->
                      [widget |-> CuesOf(u)[i].widget, fires |-> i \in some]]
           Fired == {cues[i] : i \in DOMAIN CuesOf(u)}
<1>1. CuesOf(u) \in Seq([widget : Widgets, at : Int])
  BY CuesInOrder
<1>2. DOMAIN CuesOf(u) = 1 .. Len(CuesOf(u)) /\ Len(CuesOf(u)) \in Nat
  BY <1>1, LenProperties
<1>3. cues \in Seq(Fired)
  <2>1. DOMAIN cues = 1 .. Len(CuesOf(u)) /\ \A i \in DOMAIN cues : cues[i] \in Fired
    BY <1>2, Zenon
  <2>2. cues = [i \in 1 .. Len(CuesOf(u)) |-> cues[i]]
    BY <1>2, Zenon
  <2> HIDE DEF cues, Fired
  <2>3. QED
    BY <1>2, <2>1, <2>2
<1>4. \A cue \in Fired : cue.widget \in Widgets
  <2> SUFFICES ASSUME NEW i \in DOMAIN CuesOf(u) PROVE cues[i].widget \in Widgets
    BY Zenon
  <2>1. CuesOf(u)[i].widget \in Widgets
    <3> DEFINE Cue == [widget : Widgets, at : Int]
    <3>1. CuesOf(u) \in [1 .. Len(CuesOf(u)) -> Cue]
      BY <1>1, LenProperties
    <3>2. CuesOf(u)[i] \in Cue
      BY <1>2, <3>1
    <3>3. QED
      BY <3>2
  <2>2. cues[i].widget = CuesOf(u)[i].widget
    BY Zenon
  <2>3. QED
    BY <2>1, <2>2, Zenon
<1>5. Blooms(u, some) = F!Fold(focus, cues)
  BY DEF Blooms, FoldLeft, MapThenFoldSet, Max, F!Fold, F!FoldLeft, F!MapThenFoldSet, F!Max
<1>6. \A s \in Focuses, cue \in Fired : Bloom(s, cue) \in Focuses
  BY <1>4, BloomKeepsFocus
<1> HIDE DEF cues, Fired
<1>7. F!Fold(focus, cues) \in Focuses
  BY <1>3, <1>6, F!FoldPreserves
<1>8. QED
  BY <1>5, <1>7

(* What Dismiss keeps of the first m widgets.                              *)
Keeps(f, widgets, ws, m) ==
    f = [i \in 0 .. m |->
           IF i = 0 THEN <<>>
           ELSE IF widgets[i] \in ws THEN f[i - 1]
           ELSE Append(f[i - 1], widgets[i])]

LEMMA KeptExists ==
  ASSUME NEW widgets, NEW ws
  PROVE  \A m \in Nat : \E f : Keeps(f, widgets, ws, m)
<1> DEFINE P == {m \in Nat : \E f : Keeps(f, widgets, ws, m)}
<1>1. 0 \in P
  <2>1. Keeps([i \in 0 .. 0 |-> <<>>], widgets, ws, 0)
    BY DEF Keeps
  <2>2. QED
    BY <2>1
<1>2. ASSUME NEW m \in Nat, m \in P PROVE m + 1 \in P
  <2>1. PICK f : Keeps(f, widgets, ws, m)
    BY <1>2
  <2> DEFINE last == IF widgets[m + 1] \in ws THEN f[m] ELSE Append(f[m], widgets[m + 1])
             g == [i \in 0 .. m + 1 |-> IF i = m + 1 THEN last ELSE f[i]]
  <2>2. ASSUME NEW i \in 0 .. m + 1
        PROVE  g[i] = IF i = 0 THEN <<>>
                      ELSE IF widgets[i] \in ws THEN g[i - 1]
                      ELSE Append(g[i - 1], widgets[i])
    <3>1. CASE i = m + 1
      <4>1. i # 0 /\ i - 1 = m /\ g[i - 1] = f[m]
        BY <3>1
      <4>2. QED
        BY <3>1, <4>1
    <3>2. CASE i \in 0 .. m
      <4>1. g[i] = f[i] /\ (i # 0 => g[i - 1] = f[i - 1])
        BY <3>2
      <4>2. f[i] = IF i = 0 THEN <<>>
                   ELSE IF widgets[i] \in ws THEN f[i - 1]
                   ELSE Append(f[i - 1], widgets[i])
        BY <2>1, <3>2 DEF Keeps
      <4> HIDE DEF g
      <4>3. QED
        BY <4>1, <4>2
    <3>3. QED
      BY <3>1, <3>2
  <2>3. g = [i \in 0 .. m + 1 |-> g[i]]
    OBVIOUS
  <2> HIDE DEF g
  <2>4. Keeps(g, widgets, ws, m + 1)
    BY <2>2, <2>3 DEF Keeps
  <2>5. QED
    BY <2>4
<1>3. Nat \subseteq P
  <2> HIDE DEF P
  <2>1. QED
    BY <1>1, <1>2, NumbersByInduction
<1>4. QED
  BY <1>3

(* Dismissing leaves of the focus what is not dismissed, and nothing else. *)
LEMMA DismissKeepsFocus ==
  ASSUME NEW s \in Focuses, NEW ws
  PROVE  /\ Dismiss(s, ws) \in Focuses
         /\ \A w \in ws : ~Contains(Dismiss(s, ws), w)
<1> DEFINE n == Len(s)
           f == CHOOSE g : Keeps(g, s, ws, n)
           From(m) == {s[j] : j \in 1 .. m} \ ws
           P == {m \in Nat : m <= n =>
                    /\ f[m] \in Seq(Widgets) /\ Len(f[m]) <= m /\ Distinct(f[m])
                    /\ \A i \in DOMAIN f[m] : f[m][i] \in From(m)}
<1>1. s \in Seq(Widgets) /\ n \in Nat /\ n <= MaxInFocus /\ Distinct(s)
      /\ DOMAIN s = 1 .. n
  BY LenProperties DEF Focuses
<1>2. Keeps(f, s, ws, n)
  BY <1>1, KeptExists
<1>3. Dismiss(s, ws) = f[n]
  BY DEF Dismiss, Keeps
<1> HIDE DEF f, n
<1>4. 0 \in P
  <2>1. f[0] = <<>>
    BY <1>1, <1>2 DEF Keeps
  <2>2. QED
    <3>1. f[0] \in Seq(Widgets) /\ Len(f[0]) <= 0 /\ DOMAIN f[0] = {}
      BY <2>1
    <3>2. QED
      BY <3>1 DEF Distinct
<1>5. ASSUME NEW m \in Nat, m \in P PROVE m + 1 \in P
  <2> SUFFICES ASSUME m + 1 <= n
               PROVE  /\ f[m + 1] \in Seq(Widgets) /\ Len(f[m + 1]) <= m + 1
                      /\ Distinct(f[m + 1])
                      /\ \A i \in DOMAIN f[m + 1] : f[m + 1][i] \in From(m + 1)
    OBVIOUS
  <2>1. /\ f[m] \in Seq(Widgets) /\ Len(f[m]) <= m /\ Distinct(f[m])
        /\ \A i \in DOMAIN f[m] : f[m][i] \in From(m)
    BY <1>5, <1>1
  <2>2. f[m + 1] = IF s[m + 1] \in ws THEN f[m] ELSE Append(f[m], s[m + 1])
    <3>1. m + 1 \in 0 .. n /\ m + 1 # 0 /\ (m + 1) - 1 = m
      BY <1>1
    <3>2. QED
      BY <1>2, <3>1 DEF Keeps
  <2>3. s[m + 1] \in Widgets /\ m + 1 \in 1 .. n
    BY <1>1, ElementOfSeq DEF n
  <2>4. From(m) \subseteq From(m + 1)
    OBVIOUS
  <2>5. CASE s[m + 1] \in ws
    <3> HIDE DEF From
    <3>1. QED
      BY <1>1, <2>1, <2>2, <2>4, <2>5, LenProperties
  <2>6. CASE s[m + 1] \notin ws
    <3> DEFINE t == Append(f[m], s[m + 1])
    <3>1. /\ t \in Seq(Widgets) /\ Len(t) = Len(f[m]) + 1 /\ t[Len(f[m]) + 1] = s[m + 1]
          /\ \A i \in 1 .. Len(f[m]) : t[i] = f[m][i]
          /\ DOMAIN t = 1 .. Len(f[m]) + 1 /\ DOMAIN f[m] = 1 .. Len(f[m])
          /\ Len(f[m]) \in Nat
      BY <2>1, <2>3, AppendProperties, LenProperties
    <3>2. s[m + 1] \in From(m + 1)
      BY <2>6
    <3>3. s[m + 1] \notin From(m)
      BY <1>1, <2>3 DEF Distinct
    <3> HIDE DEF t, From
    <3>4. \A i \in DOMAIN t : t[i] \in From(m + 1)
      BY <2>1, <2>4, <3>1, <3>2
    <3>5. Distinct(t)
      <4>1. SUFFICES ASSUME NEW i \in 1 .. Len(f[m]) + 1, NEW j \in 1 .. Len(f[m]) + 1,
                            t[i] = t[j]
                     PROVE  i = j
        BY <3>1 DEF Distinct
      <4>2. \A k \in 1 .. Len(f[m]) : t[k] \in From(m)
        BY <2>1, <3>1
      <4>3. \A k \in 1 .. Len(f[m]) : t[k] # t[Len(f[m]) + 1]
        BY <4>2, <3>1, <3>3
      <4>4. CASE i \in 1 .. Len(f[m]) /\ j \in 1 .. Len(f[m])
        BY <4>1, <4>4, <2>1, <3>1 DEF Distinct
      <4>5. CASE i = Len(f[m]) + 1 \/ j = Len(f[m]) + 1
        BY <4>1, <4>3, <4>5, <3>1
      <4>6. QED
        BY <4>1, <4>4, <4>5, <3>1
    <3>6. f[m + 1] = t
      BY <2>2, <2>6 DEF t
    <3>7. QED
      BY <2>1, <3>1, <3>4, <3>5, <3>6
  <2>7. QED
    BY <2>5, <2>6
<1>6. Nat \subseteq P
  <2> HIDE DEF P
  <2>1. QED
    BY <1>4, <1>5, NumbersByInduction
<1>7. /\ f[n] \in Seq(Widgets) /\ Len(f[n]) <= n /\ Distinct(f[n])
      /\ \A i \in DOMAIN f[n] : f[n][i] \in From(n)
  BY <1>1, <1>6
<1>8. Len(f[n]) \in Nat /\ DOMAIN f[n] = 1 .. Len(f[n])
  BY <1>7, LenProperties
<1>9. f[n] \in Focuses
  <2> HIDE DEF From
  <2>1. QED
    BY <1>1, <1>7, <1>8 DEF Focuses, MaxInFocus
<1>10. QED
  BY <1>3, <1>7, <1>8, <1>9 DEF Contains

(* The cue that ends the text is the one whose widget onFinish dissolves.  *)
LEMMA LastCueIsDismissed ==
  ASSUME NEW u, NEW i \in DOMAIN CuesOf(u),
         \A j \in DOMAIN CuesOf(u) : CuesOf(u)[j].at <= CuesOf(u)[i].at,
         \A j \in DOMAIN CuesOf(u) \ {i} : CuesOf(u)[j].at # CuesOf(u)[i].at
  PROVE  CuesOf(u)[i].widget \in FinishOf(u)
<1> DEFINE cues == CuesOf(u)
           n == Len(cues)
           Cue == [widget : Widgets, at : Int]
<1>1. /\ n \in Nat /\ n <= 2 /\ DOMAIN cues = 1 .. n /\ cues \in [1 .. n -> Cue]
      /\ n = 2 => cues[1].at <= cues[2].at
  BY CuesInOrder, LenProperties DEF MaxWidgets
<1>2. FinishOf(u) = IF cues = <<>> THEN {} ELSE {cues[n].widget}
  BY DEF FinishOf, Last
<1>3. /\ i \in DOMAIN cues
      /\ \A j \in DOMAIN cues : cues[j].at <= cues[i].at
      /\ \A j \in DOMAIN cues \ {i} : cues[j].at # cues[i].at
  OBVIOUS
<1>4. cues # <<>>
  BY <1>3
<1> HIDE DEF cues, n, Cue
<1>5. \A j \in 1 .. n : cues[j].at \in Int
  <2>1. \A j \in 1 .. n : cues[j] \in Cue
    BY <1>1
  <2>2. QED
    BY <2>1 DEF Cue
<1>6. i = n
  <2> SUFFICES ASSUME i # n PROVE FALSE
    OBVIOUS
  <2>1. n = 2 /\ i = 1
    BY <1>1, <1>3
  <2>2. cues[1].at \in Int /\ cues[2].at \in Int /\ cues[2].at <= cues[1].at
        /\ cues[2].at # cues[1].at /\ cues[1].at <= cues[2].at
    BY <1>1, <1>3, <1>5, <2>1
  <2>3. QED
    BY <2>2
<1>7. QED
  BY <1>2, <1>4, <1>6 DEF cues

(* The stage holds a reply while the synthesizer has an utterance, the     *)
(* timer runs only before onFinish and only while something is spoken, and *)
(* onFinish leaves no cue to fire.                                         *)
StageTypes ==
    /\ frames \in Seq(Replies) /\ speech \in Seq(Replies)
    /\ loaded \subseteq Replies /\ AtMostOne(loaded)
    /\ finished \in BOOLEAN /\ ticking \in BOOLEAN
    /\ focus \in Focuses

FinishInv ==
    /\ loaded = {} => speech = <<>>
    /\ speech = <<>> => loaded = {} \/ finished = TRUE
    /\ speech = <<>> \/ finished = TRUE => ticking = FALSE
    /\ finished = TRUE => \A u \in loaded : Unfired(u) = {}
    /\ LastWidgetDissolves

StageInv == StageTypes /\ FinishInv

(* A frame more leaves the stage alone.                                    *)
LEMMA FramesStep ==
  ASSUME StageInv, RunStep \/ \E u \in Chats : Chat(u)
  PROVE  StageInv'
<1>1. PICK u \in Replies : frames' = Append(frames, u)
  BY StepsOrdered DEF RunStep, Chat, Active, Replies
<1>2. UNCHANGED <<loaded, fired, finished, ticking, speech, focus>>
  BY DEF RunStep, Chat, stage
<1>3. frames' \in Seq(Replies)
  BY <1>1, AppendProperties DEF StageInv, StageTypes
<1>4. StageTypes'
  BY <1>2, <1>3 DEF StageInv, StageTypes, AtMostOne
<1>5. FinishInv'
  BY <1>2 DEF StageInv, FinishInv, LastWidgetDissolves, Unfired
<1>6. QED
  BY <1>4, <1>5 DEF StageInv

(* The stage takes the next reply, and the synthesizer its utterance.      *)
LEMMA HearStep ==
  ASSUME StageInv, Hear
  PROVE  StageInv'
<1> DEFINE u == Head(frames)
<1>1. /\ frames # <<>> /\ frames' = Tail(frames)
      /\ loaded' = {u} /\ fired' = {} /\ finished' = FALSE
      /\ ticking' = (Text[u].chars > 0)
      /\ speech' = Append(speech, u) /\ focus' = focus
  BY DEF Hear, FinishedAtLoad
<1>2. u \in Replies /\ frames' \in Seq(Replies)
  BY <1>1, HeadTailProperties DEF StageInv, StageTypes
<1> HIDE DEF u
<1>3. speech' \in Seq(Replies) /\ speech' # <<>>
  BY <1>1, <1>2, AppendProperties DEF StageInv, StageTypes
<1>4. ticking' \in BOOLEAN
  BY <1>1
<1>5. finished' \in BOOLEAN
  BY <1>1
<1>6. StageTypes'
  BY <1>1, <1>2, <1>3, <1>4, <1>5 DEF StageInv, StageTypes, AtMostOne
<1>7. FinishInv'
  BY <1>1, <1>3 DEF FinishInv, LastWidgetDissolves
<1>8. QED
  BY <1>6, <1>7 DEF StageInv

(* Cues that fire before onFinish, by either clock.                        *)
LEMMA CuesStep ==
  ASSUME StageInv, Boundary \/ Tick
  PROVE  StageInv'
<1>1. UNCHANGED <<frames, loaded, finished, speech>>
  BY DEF Boundary, Tick
<1>2. PICK u \in loaded : \E some : fired' = fired \cup some /\ focus' = Blooms(u, some)
  BY DEF Boundary, Tick, Fire
<1>3. finished # TRUE
  <2>1. CASE Boundary
    <3>1. PICK v \in loaded : Unfired(v) # {}
      BY <2>1 DEF Boundary, UpTo
    <3>2. QED
      BY <3>1 DEF StageInv, FinishInv
  <2>2. CASE Tick
    BY <2>2 DEF Tick, StageInv, FinishInv
  <2>3. QED
    BY <2>1, <2>2
<1>4. ticking' \in BOOLEAN /\ (speech = <<>> => ticking' = FALSE)
  <2>1. CASE Boundary
    BY <2>1 DEF Boundary, StageInv, StageTypes, FinishInv
  <2>2. CASE Tick
    <3>1. speech # <<>>
      BY <2>2 DEF Tick, StageInv, FinishInv
    <3>2. PICK v \in loaded : \E k \in DOMAIN Text[v].ends :
                                  /\ Fire(v, UpTo(v, Through(v, k)))
                                  /\ ticking' = (k < Len(Text[v].ends))
      BY <2>2, Zenon DEF Tick
    <3>3. PICK k \in DOMAIN Text[v].ends : ticking' = (k < Len(Text[v].ends))
      BY <3>2, Zenon
    <3>4. ticking' \in BOOLEAN
      <4>1. ticking' = TRUE \/ ticking' = FALSE
        BY <3>3
      <4>2. QED
        BY <4>1
    <3>5. QED
      BY <3>1, <3>4
  <2>3. QED
    BY <2>1, <2>2
<1>5. focus' \in Focuses
  BY <1>2, BloomsKeepFocus DEF StageInv, StageTypes
<1>6. StageTypes'
  BY <1>1, <1>4, <1>5 DEF StageInv, StageTypes, AtMostOne
<1>7. FinishInv'
  BY <1>1, <1>3, <1>4 DEF StageInv, StageTypes, FinishInv, LastWidgetDissolves
<1>8. QED
  BY <1>6, <1>7 DEF StageInv

(* onFinish fires what is left and dissolves the last widget; of an        *)
(* utterance spoken after it, nothing is left to do.                       *)
LEMMA FinishStep ==
  ASSUME StageInv, DidFinish
  PROVE  StageInv'
<1>1. /\ speech # <<>> /\ speech' = Tail(speech) /\ ticking' = FALSE
      /\ UNCHANGED <<frames, loaded>>
  BY DEF DidFinish
<1>2. speech' \in Seq(Replies)
  BY <1>1, HeadTailProperties DEF StageInv, StageTypes
<1>3. loaded # {}
  BY <1>1 DEF StageInv, FinishInv
<1>4. ticking' \in BOOLEAN
  BY <1>1
<1>5. CASE finished = TRUE
  <2>1. UNCHANGED <<fired, finished, focus>>
    BY <1>5 DEF DidFinish
  <2>2. StageTypes'
    BY <1>1, <1>2, <1>4, <2>1 DEF StageInv, StageTypes, AtMostOne
  <2>3. FinishInv'
    BY <1>1, <1>3, <1>5, <2>1 DEF StageInv, FinishInv, LastWidgetDissolves, Unfired
  <2>4. QED
    BY <2>2, <2>3 DEF StageInv
<1>6. CASE finished = FALSE
  <2>1. PICK u \in loaded : /\ finished' = TRUE /\ fired' = DOMAIN CuesOf(u)
                            /\ focus' = AfterFinish(u)
    BY <1>6 DEF DidFinish
  <2>2. /\ focus' \in Focuses
        /\ \A w \in FinishOf(u) : ~Contains(focus', w)
    <3>1. Blooms(u, Unfired(u)) \in Focuses
      BY BloomsKeepFocus DEF StageInv, StageTypes
    <3>2. QED
      BY <2>1, <3>1, DismissKeepsFocus DEF AfterFinish
  <2>3. loaded' = {u}
    BY <1>1 DEF StageInv, StageTypes, AtMostOne
  <2>4. finished' \in BOOLEAN
    BY <2>1
  <2>5. StageTypes'
    BY <1>1, <1>2, <1>4, <2>2, <2>4 DEF StageInv, StageTypes, AtMostOne
  <2>6. LastWidgetDissolves'
    <3>1. ASSUME NEW i \in DOMAIN CuesOf(u),
                 \A j \in DOMAIN CuesOf(u) : CuesOf(u)[j].at <= CuesOf(u)[i].at
          PROVE  \/ ~Contains(focus', CuesOf(u)[i].widget)
                 \/ \E j \in DOMAIN CuesOf(u) \ {i} : CuesOf(u)[j].at = CuesOf(u)[i].at
      BY <2>2, <3>1, LastCueIsDismissed
    <3>2. QED
      BY <2>3, <3>1 DEF LastWidgetDissolves
  <2>7. \A v \in loaded' : Unfired(v)' = {}
    BY <2>1, <2>3 DEF Unfired
  <2>8. FinishInv'
    BY <1>1, <1>3, <2>1, <2>6, <2>7 DEF FinishInv
  <2>9. QED
    BY <2>5, <2>8 DEF StageInv
<1>7. QED
  BY <1>5, <1>6 DEF StageInv, StageTypes

(* The invariant of the stage, for any routine, replies and texts.         *)
THEOREM StageInvariant == StageSpec => []StageInv
<1>1. StageInit => StageInv
  <2> SUFFICES ASSUME StageInit PROVE StageInv
    OBVIOUS
  <2>1. /\ frames = <<>> /\ speech = <<>> /\ focus = <<>> /\ loaded = {}
        /\ finished = FALSE /\ ticking = FALSE
    BY DEF StageInit
  <2>2. <<>> \in Seq(Replies) /\ <<>> \in Focuses
    <3>1. <<>> \in Seq(Widgets) /\ Len(<<>>) <= 2 /\ DOMAIN <<>> = {}
      OBVIOUS
    <3>2. QED
      BY <3>1 DEF Focuses, Distinct, MaxInFocus
  <2>3. finished \in BOOLEAN
    BY <2>1
  <2>4. ticking \in BOOLEAN
    BY <2>1
  <2>5. StageTypes
    BY <2>1, <2>2, <2>3, <2>4 DEF StageTypes, AtMostOne
  <2>6. FinishInv
    BY <2>1 DEF FinishInv, LastWidgetDissolves
  <2>7. QED
    BY <2>5, <2>6 DEF StageInv
<1>2. StageInv /\ [StageNext]_stageVars => StageInv'
  <2> SUFFICES ASSUME StageInv, [StageNext]_stageVars PROVE StageInv'
    OBVIOUS
  <2>1. CASE UNCHANGED stageVars
    <3>1. UNCHANGED <<frames, loaded, fired, finished, ticking, speech, focus>>
      BY <2>1 DEF stageVars, stage
    <3>2. QED
      BY <3>1 DEF StageInv, StageTypes, FinishInv, LastWidgetDissolves, Unfired, AtMostOne
  <2>2. QED
    BY <2>1, FramesStep, HearStep, CuesStep, FinishStep DEF StageNext
<1>3. QED
  BY <1>1, <1>2, PTL DEF StageSpec

(* The variables of the stage keep their types, and never more than two    *)
(* widgets are in focus, none of them twice.                               *)
THEOREM FocusStaysSmall == StageSpec => []StageTypes
<1>1. StageInv => StageTypes
  BY DEF StageInv
<1>2. QED
  BY <1>1, StageInvariant, PTL

(* When the synthesizer is silent, the reply on the stage is done: every   *)
(* cue fired, the timer off, onFinish run.                                 *)
THEOREM SilenceMeansDone == StageSpec => []SilenceIsFinished
<1>1. StageInv => SilenceIsFinished
  BY DEF StageInv, FinishInv, SilenceIsFinished
<1>2. QED
  BY <1>1, StageInvariant, PTL

(* The widget that bloomed last is gone once onFinish ran.                 *)
THEOREM LastWidgetIsGone == StageSpec => []LastWidgetDissolves
<1>1. StageInv => LastWidgetDissolves
  BY DEF StageInv, FinishInv
<1>2. QED
  BY <1>1, StageInvariant, PTL
=============================================================================
