-------------------------------- MODULE Gate ---------------------------------
(***************************************************************************)
(* The decision of daemon/src/safety/gate.ts on one tool call, with the    *)
(* tier matrix and the credential fence of tiers.ts and the spend estimate *)
(* of breaker.ts.  Pure operators: the module has no state.                *)
(*                                                                         *)
(* A call is abstracted to what these functions can tell apart.  An        *)
(* operation token stands for every word of its matrix row; "rmtext" is    *)
(* any other text that contains the word rm, "none" is a call whose args   *)
(* carry no op, for which the tool's own name is classified.  signals is   *)
(* the set of credential hints present in the args when the gate reads     *)
(* them; amount is the number under amount/price/total/cost, if any.       *)
(***************************************************************************)
EXTENDS Integers

CONSTANT BreakerEnabled     \* KERNEL_BREAKER_ENABLED = 'true' (flags.ts)

ASSUME BreakerEnabledBool == BreakerEnabled \in BOOLEAN

Tools == {"browser", "peekaboo", "mail", "finance", "shell"}
Ops == {"read", "fill", "send", "pay", "rmtext", "other", "none"}
Signals == {"secureField", "label", "autocomplete"}
Origins == {"user", "self", "external"}
Call == [tool : Tools, op : Ops, signals : SUBSET Signals, origin : Origins, amount : Int]

GreenOps == {"read"}
YellowOps == {"fill", "send"}
RedOps == {"pay", "rmtext"}

(* operationOf: the op of the args, else the tool's name.                  *)
OperationOf(c) == IF c.op = "none" THEN c.tool ELSE c.op

(* classifyTier: default-deny for anything no row lists.                   *)
ClassifyTier(c) ==
    CASE OperationOf(c) \in RedOps -> "red"
      [] OperationOf(c) \in GreenOps -> "green"
      [] OperationOf(c) \in YellowOps -> "yellow"
      [] OTHER -> "red"

IsRed(c) == ClassifyTier(c) = "red"

(* detectCredentialField: only typing into a screen or a page is fenced,   *)
(* and only on the hints the adapter surfaced.                             *)
IsSecret(c) ==
    /\ c.tool \in {"peekaboo", "browser"}
    /\ c.op = "fill"
    /\ c.signals # {}

(* Slip: the external block is forgotten.                                  *)
ForbiddenToAnyone(c) == IsSecret(c) \/ (IsRed(c) /\ ~BreakerEnabled)

(* authorize: the two hard rules, then the flag, then the tier.            *)
Forbidden(c) ==
    \/ IsSecret(c)
    \/ IsRed(c) /\ (c.origin = "external" \/ ~BreakerEnabled)

Authorize(c) ==
    IF Forbidden(c) THEN "deny" ELSE IF IsRed(c) THEN "gated" ELSE "allow"

(* estimatedSpend: a positive number, else no spend.                       *)
EstimatedSpend(c) == IF c.amount > 0 THEN c.amount ELSE 0
=============================================================================
