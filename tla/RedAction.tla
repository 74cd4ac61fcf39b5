------------------------------ MODULE RedAction ------------------------------
(***************************************************************************)
(* What KERNEL promises about an irreversible (Red) action, whatever the   *)
(* mechanism: it is announced before it can run, the owner may veto it     *)
(* while it is announced, a vetoed action never runs, at most one action   *)
(* is announced at a time, and an announcement is always settled unless    *)
(* the process dies.  (Spec section 8, quoted in breaker.ts:5-28.)         *)
(***************************************************************************)
CONSTANT Actions

VARIABLES
    phase,      \* [Actions -> Phase]
    vetoed      \* the actions the owner vetoed in time

absVars == <<phase, vetoed>>

Phase == {"new", "announced", "ran", "refused", "lost"}

AbsInit ==
    /\ phase = [a \in Actions |-> "new"]
    /\ vetoed = {}

Becomes(a, p) == phase' = [phase EXCEPT ![a] = p]

Announce(a) ==
    /\ phase[a] = "new"
    /\ \A b \in Actions : phase[b] # "announced"
    /\ Becomes(a, "announced")
    /\ UNCHANGED vetoed

Veto(a) ==
    /\ phase[a] = "announced"
    /\ vetoed' = vetoed \cup {a}
    /\ UNCHANGED phase

Settle(a) ==
    /\ phase[a] = "announced"
    /\ \/ a \notin vetoed /\ Becomes(a, "ran")
       \/ Becomes(a, "refused")
    /\ UNCHANGED vetoed

(* Refused without ever being announced (a hard rule, or the flag is off). *)
Deny(a) ==
    /\ phase[a] = "new"
    /\ Becomes(a, "refused")
    /\ UNCHANGED vetoed

Lose(a) ==
    /\ phase[a] \in {"new", "announced"}
    /\ Becomes(a, "lost")
    /\ UNCHANGED vetoed

AbsNext == \E a \in Actions : Announce(a) \/ Veto(a) \/ Settle(a) \/ Deny(a) \/ Lose(a)

AbsSafety == AbsInit /\ [][AbsNext]_absVars
AbsLiveness == \A a \in Actions : WF_absVars(Settle(a))
AbsSpec == AbsSafety /\ AbsLiveness
=============================================================================
