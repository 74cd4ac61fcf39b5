----------------------------- MODULE BrowserFill -----------------------------
(***************************************************************************)
(* The browser tool's fill around the gate (tools/browser.ts, and dispatch *)
(* in tools/registry.ts): the adapter reads the credential hints of the    *)
(* field, the gate decides on them, and the fill looks the field up again. *)
(* The page is alive: the field may appear, go or be another one between   *)
(* any two steps.                                                          *)
(*                                                                         *)
(* A field is what its attributes tell: its type, its autocomplete, its    *)
(* aria-label, or nothing ("plain"), whatever a label element beside it    *)
(* says.  The call finds it by role, label or text; its args.label, when   *)
(* there is one, is taken for the label of the field, and the aria-label   *)
(* is not looked at.  A "plain" label is any string that the fence does    *)
(* not know, the empty one or a part of a longer label included.           *)
(***************************************************************************)
EXTENDS Gate

VARIABLES
    live,           \* a browser context can be had
    field,          \* the field the locator finds now
    fill,           \* the fill in hand: its place, its args.label, its hints
    typed           \* history: the fill that typed, with the field it met

fillVars == <<live, field, fill, typed>>

Fields == {"plain", "password", "autocomplete", "aria"}
NoField == "none"
Labels == {"absent", "plain", "secret"}

(* saw is the field the probe has read, if it has read one whole.          *)
NoFill == [at |-> "idle", label |-> "absent", hints |-> {}, saw |-> NoField]
NothingTyped == [into |-> NoField, saw |-> NoField, label |-> "absent"]

FillInit ==
    /\ live \in BOOLEAN /\ field = NoField
    /\ fill = NoFill /\ typed = NothingTyped

(* What surfaceFillSignals puts into the args, from type and autocomplete, *)
(* and for the label.                                                      *)
DomHints(f) ==
    CASE f = "password" -> {"secureField"}
      [] f = "autocomplete" -> {"autocomplete"}
      [] OTHER -> {}

(* slip: the aria-label is never read.                                     *)
LabelOfCall(f, label) == IF label = "secret" THEN {"label"} ELSE {}

LabelHints(f, label) ==
    IF label = "secret" \/ (label = "absent" /\ f = "aria") THEN {"label"} ELSE {}

FillCall(hints) ==
    [tool |-> "browser", op |-> "fill", signals |-> hints, origin |-> "self", amount |-> 0]

Fill(label) ==
    /\ fill.at = "idle"
    /\ fill' = [NoFill EXCEPT !.at = "probe", !.label = label]
    /\ typed' = NothingTyped
    /\ UNCHANGED <<live, field>>

(* The adapter's probe: the field, its type and autocomplete.              *)
ProbeType ==
    /\ fill.at = "probe" /\ live /\ field # NoField
    /\ fill' = [fill EXCEPT !.at = "label", !.hints = DomHints(field), !.saw = field]
    /\ UNCHANGED <<live, field, typed>>

(* The aria-label is read later: of the element in hand as it was, or as   *)
(* the page has made it since.                                             *)
ProbeLabel ==
    /\ fill.at = "label"
    /\ \E f \in {fill.saw, field} :
          fill' = [fill EXCEPT !.at = "gate", !.hints = @ \cup LabelHints(f, fill.label),
                               !.saw = IF f = fill.saw THEN f ELSE NoField]
    /\ UNCHANGED <<live, field, typed>>

(* No browser, no field within two seconds, or an attribute that cannot be *)
(* read any more: nothing is surfaced, and dispatch goes on.               *)
ProbeFails ==
    /\ fill.at \in {"probe", "label"}
    /\ fill' = [fill EXCEPT !.at = "gate", !.hints = {}, !.saw = NoField]
    /\ UNCHANGED <<live, field, typed>>

(* A refusal ends the call.                                                *)
FillGate ==
    /\ fill.at = "gate"
    /\ fill' = IF Authorize(FillCall(fill.hints)) = "allow"
               THEN [fill EXCEPT !.at = "type"] ELSE NoFill
    /\ UNCHANGED <<live, field, typed>>

(* execute, on the field that is there by now.                             *)
Type ==
    /\ fill.at = "type" /\ live /\ field # NoField
    /\ typed' = [into |-> field, saw |-> fill.saw, label |-> fill.label]
    /\ fill' = NoFill
    /\ UNCHANGED <<live, field>>

(* No browser, or no field within Playwright's own timeout: an escalation. *)
TypeFails ==
    /\ fill.at = "type" /\ (~live \/ field = NoField)
    /\ fill' = NoFill
    /\ UNCHANGED <<live, field, typed>>

(* The page moves on, by itself or by a navigate of the owner's.           *)
PageMoves ==
    /\ live' \in BOOLEAN
    /\ field' \in Fields \cup {NoField}
    /\ field' # field \/ live' # live
    /\ UNCHANGED <<fill, typed>>

FillNext ==
    \/ \E label \in Labels : Fill(label)
    \/ ProbeType \/ ProbeLabel \/ ProbeFails \/ FillGate \/ Type \/ TypeFails \/ PageMoves

FillSpec == FillInit /\ [][FillNext]_fillVars

-----------------------------------------------------------------------------
(* Nothing is typed into a field the adapter has read to be a credential   *)
(* before it: by its type or autocomplete, by the label the call gives it, *)
(* or, when the call gives none, by its aria-label (browser.ts:252-255).   *)
(* What the probe missed or a plain label hides is not covered, though the *)
(* adapter's comment promises it (browser.ts:268).                         *)
NoSeenSecretTyped ==
    typed.into # NoField /\ typed.into = typed.saw =>
        /\ typed.into \notin {"password", "autocomplete"}
        /\ typed.label # "secret"
        /\ typed.into = "aria" => typed.label = "plain"
=============================================================================
