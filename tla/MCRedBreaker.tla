---------------------------- MODULE MCRedBreaker -----------------------------
(* RedBreaker over three dispatches, and calls that reach each verdict.      *)
EXTENDS RedBreaker, FiniteSetsExt, TLC

CONSTANTS r1, r2, r3

MCRuns == {r1, r2, r3}
MCTwoRuns == {r1, r2}
Symmetry == Permutations(MCRuns)

MkCall(t, o, s, g, a) == [tool |-> t, op |-> o, signals |-> s, origin |-> g, amount |-> a]

Purchase == MkCall("finance", "pay", {}, "user", 2)
Delete == MkCall("mail", "rmtext", {}, "self", 0)
Injected == MkCall("mail", "pay", {}, "external", 1)
Typing == MkCall("browser", "fill", {}, "user", 0)
Password == MkCall("browser", "fill", {"secureField"}, "user", 0)
Shell == MkCall("shell", "none", {}, "self", 0)

AllCalls == {Purchase, Delete, Injected, Typing, Password, Shell}
RedCalls == {Purchase, Delete}
PurchaseOnly == {Purchase}

MCRegistered == {"browser", "peekaboo", "mail", "finance"}
=============================================================================
