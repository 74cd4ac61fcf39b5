----------------------------- MODULE RedBreaker ------------------------------
(***************************************************************************)
(* One tool call after another through registry.dispatch: lookup, signal   *)
(* surfacing, gate, and for a gated call the breaker of breaker.ts with    *)
(* the wiring production gives it (registry.ts defaultBreakerDeps): the    *)
(* module-level cancel latch, the active preview id, the preview broadcast *)
(* and cancel frames of ipc/server.ts, the spend ledger and the audit log. *)
(*                                                                         *)
(* The instances of SpendLedger are the dispatched calls ("runs"): every   *)
(* gated call builds its own ledger object.  A run's preview id is the run *)
(* itself (server.ts stamps a fresh id per preview).  Steps that the code  *)
(* separates only by already-resolved promises are one action, or are      *)
(* separated only for a crash: no socket event is handled between them.    *)
(***************************************************************************)
EXTENDS SpendLedger, Gate, FiniteSets, Functions

CONSTANTS
    Calls,          \* the calls the brain may decide
    Registered,     \* the tools register-builtins registers
    Window,         \* polls in the cancel window
    Worlds,         \* states of the world an action depends on
    ReadsWorld,     \* reReadState reads the world (FALSE: canonical(call))
    NoRun           \* no active preview, no card

Runs == Instances

ASSUME CallsOK == Calls \subseteq Call
ASSUME RegisteredOK == Registered \subseteq Tools
ASSUME WindowNat == Window \in Nat
ASSUME ReadsWorldBool == ReadsWorld \in BOOLEAN
ASSUME NoRunFresh == NoRun \notin Runs
ASSUME AmountsOK == \A c \in Calls : EstimatedSpend(c) \in Amounts

VARIABLES
    pc,             \* where each dispatch is
    call,           \* the call it dispatches (a set: empty before dispatch)
    outcome,        \* what dispatch returned
    latch,          \* breakerCancelled
    activeId,       \* activePreviewId
    left,           \* polls left before the window's deadline
    world, seen,    \* the world, and the one each preview described
    reread,         \* the world as it was when each run read it again
    faceUp,         \* a Face is connected
    card,           \* activeBreakerPreview of the Face
    cancels,        \* breaker.cancel frames on their way to the daemon
    audit,          \* the audit log, as a set of <<run, outcome>>
    tapped,         \* history: runs whose card the owner cancelled
    vetoed,         \* history: runs whose cancel arrived inside their window
    effects         \* history: runs whose executor was started

control == <<pc, call, outcome>>
wiring == <<latch, activeId, left, seen, reread>>
face == <<faceUp, card, cancels, tapped>>
record == <<audit, vetoed, effects>>
breakerVars == <<control, wiring, face, record, world>>
vars == <<ledgerVars, breakerVars>>

Pc == {"idle", "surfacing", "window", "verify", "compare", "verified",
       "executing", "done"}
Previewed == {"window", "verify", "compare", "verified"}
Outcome == {"none", "ok", "failed", "denied", "cancelled", "ceiling-exceeded",
            "toctou-abort", "lost"}
Outcomes == {"executed", "cancelled", "ceiling-exceeded", "toctou-abort", "denied"}

CallOf(r) == CHOOSE c \in call[r] : TRUE
Spend(r) == EstimatedSpend(CallOf(r))
Live(r) == pc[r] \notin {"idle", "done"}

Goes(r, p) == pc' = [pc EXCEPT ![r] = p]
Ends(r, o) == Goes(r, "done") /\ outcome' = [outcome EXCEPT ![r] = o]
Audited(r, o) == audit' = audit \cup {<<r, o>>}

-----------------------------------------------------------------------------
(* dispatch, up to the verdict.                                            *)

LoopReentered == TRUE      \* slip: a second drain starts

(* The loop awaits one dispatch before it takes the next intent.           *)
LoopIdle == \A s \in Runs : ~Live(s)

(* Unknown tools are denied at once.                                       *)
Dispatch(r, c) ==
    /\ pc[r] = "idle"
    /\ LoopIdle
    /\ call' = [call EXCEPT ![r] = {c}]
    /\ \/ c.tool \in Registered /\ Goes(r, "surfacing") /\ UNCHANGED outcome
       \/ c.tool \notin Registered /\ Ends(r, "denied")
    /\ UNCHANGED <<ledgerVars, wiring, face, record, world>>

Deny(r) ==
    /\ pc[r] = "surfacing"
    /\ Authorize(CallOf(r)) = "deny"
    /\ Ends(r, "denied")
    /\ UNCHANGED <<ledgerVars, call, wiring, face, record, world>>

(* allow: args that fail the schema are refused, others reach execute.     *)
Allow(r) ==
    /\ pc[r] = "surfacing"
    /\ Authorize(CallOf(r)) = "allow"
    /\ \/ Ends(r, "denied") /\ UNCHANGED effects
       \/ Goes(r, "executing") /\ effects' = effects \cup {r} /\ UNCHANGED outcome
    /\ UNCHANGED <<ledgerVars, call, wiring, face, audit, vetoed, world>>

-----------------------------------------------------------------------------
(* breaker.run.                                                            *)

(* defaultBreakerDeps builds the ledger and resets the latch.              *)
BuildDeps(r) == Open(r) /\ latch' = FALSE

(* The preview is broadcast, and its id stored, connected or not; a Face   *)
(* shows it in place of any older one.                                     *)
EmitPreview(r) == activeId' = r /\ card' = IF faceUp THEN r ELSE card

(* run reads the world, previews and starts the clock.                     *)
OpenWindow(r) ==
    /\ pc[r] = "surfacing"
    /\ Authorize(CallOf(r)) = "gated"
    /\ BuildDeps(r) /\ EmitPreview(r)
    /\ left' = Window
    /\ seen' = [seen EXCEPT ![r] = {world}]
    /\ Goes(r, "window")
    /\ UNCHANGED <<call, outcome, reread, faceUp, cancels, tapped, record, world>>

(* Slip: the return after the cancelled audit line is missing.             *)
CancelledButGoesOn(r) ==
    /\ latch
    /\ Drop(r)
    /\ Goes(r, "verified")
    /\ Audited(r, "cancelled")
    /\ UNCHANGED <<call, outcome, wiring, face, vetoed, effects, world>>

Cancelled(r) ==
    /\ latch
    /\ Drop(r)
    /\ Ends(r, "cancelled")
    /\ Audited(r, "cancelled")
    /\ UNCHANGED <<call, wiring, face, vetoed, effects, world>>

PollCancelled(r) == pc[r] = "window" /\ left > 0 /\ Cancelled(r)

(* The last look at the latch, once the deadline has passed.               *)
FinalCancelled(r) == pc[r] = "window" /\ left = 0 /\ Cancelled(r)

(* Slip: the deadline is computed again at every poll.                     *)
SleepForever(r) ==
    /\ pc[r] = "window"
    /\ left > 0 /\ ~latch
    /\ UNCHANGED vars

(* sleep(POLL_MS): at least one poll interval goes by, possibly more.      *)
Sleep(r) ==
    /\ pc[r] = "window"
    /\ left > 0 /\ ~latch
    /\ left' \in 0 .. (left - 1)
    /\ UNCHANGED <<ledgerVars, control, latch, activeId, seen, reread, face, record,
                   world>>

(* Slip: no last look at the latch.                                        *)
WindowPassedUnchecked(r) == pc[r] = "window" /\ left = 0

WindowPassed(r) == pc[r] = "window" /\ left = 0 /\ ~latch

Reserve(r) ==
    /\ WindowPassed(r)
    /\ Grant(r, Spend(r))
    /\ Goes(r, "verify")
    /\ UNCHANGED <<call, outcome, wiring, face, record, world>>

CeilingExceeded(r) ==
    /\ WindowPassed(r)
    /\ Refuse(r, Spend(r))
    /\ Ends(r, "ceiling-exceeded")
    /\ Audited(r, "ceiling-exceeded")
    /\ UNCHANGED <<call, wiring, face, vetoed, effects, world>>

(* reReadState answers.  From here to the executor the code runs without   *)
(* another await; the world outside does not wait for it.                  *)
ReRead(r) ==
    /\ pc[r] = "verify"
    /\ reread' = [reread EXCEPT ![r] = {world}]
    /\ Goes(r, "compare")
    /\ UNCHANGED <<ledgerVars, call, outcome, latch, activeId, left, seen, face, record,
                   world>>

(* hashNow = hashAtPreview.  Production hashes canonical(call), which      *)
(* never changes; a tool that surfaces its world state would be compared.  *)
SameHash(r) == ReadsWorld => reread[r] = seen[r]

ToctouAbort(r) ==
    /\ pc[r] = "compare"
    /\ ~SameHash(r)
    /\ Release(r)
    /\ Ends(r, "toctou-abort")
    /\ Audited(r, "toctou-abort")
    /\ UNCHANGED <<call, wiring, face, vetoed, effects, world>>

AuditExecuted(r) ==
    /\ pc[r] = "compare"
    /\ SameHash(r)
    /\ Keep(r)
    /\ Goes(r, "verified")
    /\ Audited(r, "executed")
    /\ UNCHANGED <<call, outcome, wiring, face, vetoed, effects, world>>

Execute(r) ==
    /\ pc[r] = "verified"
    /\ effects' = effects \cup {r}
    /\ Goes(r, "executing")
    /\ UNCHANGED <<ledgerVars, call, outcome, wiring, face, audit, vetoed, world>>

(* tool.execute resolves.  (A rejection is not caught anywhere: it takes   *)
(* the process down and is one of the ways to Die.)                        *)
Finish(r) ==
    /\ pc[r] = "executing"
    /\ \E o \in {"ok", "failed"} : Ends(r, o)
    /\ UNCHANGED <<ledgerVars, call, wiring, face, record, world>>

-----------------------------------------------------------------------------
(* The Face, the sockets and the world.                                    *)

(* Cancel on the card: the frame is sent if there is a connection, dropped *)
(* silently otherwise; the card goes either way.                           *)
TapCancel ==
    /\ card # NoRun
    /\ tapped' = tapped \cup {card}
    /\ cancels' = IF faceUp THEN cancels \cup {card} ELSE cancels
    /\ card' = NoRun
    /\ UNCHANGED <<ledgerVars, control, wiring, faceUp, record, world>>

CardElapsed ==
    /\ card # NoRun
    /\ card' = NoRun
    /\ UNCHANGED <<ledgerVars, control, wiring, faceUp, cancels, tapped, record, world>>

(* Only a newly started Face connects: nothing reconnects a running one.   *)
FaceConnects ==
    /\ ~faceUp /\ faceUp' = TRUE
    /\ card' = NoRun
    /\ UNCHANGED <<ledgerVars, control, wiring, cancels, tapped, record, world>>

(* A Face that loses its connection keeps its card; frames already written *)
(* are still delivered.                                                    *)
FaceDisconnects ==
    /\ faceUp /\ faceUp' = FALSE
    /\ UNCHANGED <<ledgerVars, control, wiring, card, cancels, tapped, record, world>>

(* Socket events are handled only while the dispatch awaits I/O or a       *)
(* timer.                                                                  *)
Yields(r) ==
    \/ pc[r] \in {"idle", "surfacing", "window", "executing", "done"}
    \/ pc[r] = "verify" /\ ReadsWorld

HonouredByAny(r) == TRUE       \* slip: the id is not compared

(* signalBreakerCancel(id): ignored when another preview is active.        *)
Honoured(r) == activeId \in {NoRun, r}

DeliverCancel(r) ==
    /\ r \in cancels
    /\ \A s \in Runs : Yields(s)
    /\ cancels' = cancels \ {r}
    /\ latch' = (latch \/ Honoured(r))
    /\ vetoed' = IF pc[r] = "window" THEN vetoed \cup {r} ELSE vetoed
    /\ UNCHANGED <<ledgerVars, control, activeId, left, seen, reread, faceUp, card, tapped,
                   audit, effects, world>>

(* The world moves on its own, between any two steps of a run.             *)
WorldChanges ==
    /\ \E r \in Runs : pc[r] \in Previewed
    /\ world' \in Worlds \ {world}
    /\ UNCHANGED <<ledgerVars, control, wiring, face, record>>

DayPasses == Midnight /\ UNCHANGED breakerVars

(* The daemon dies and launchd restarts it: the run in flight is lost with *)
(* the latch, the id and the sockets; files stay.                          *)
Die(torn) ==
    /\ Crash(torn)
    /\ pc' = [r \in Runs |-> IF Live(r) THEN "done" ELSE pc[r]]
    /\ outcome' = [r \in Runs |-> IF Live(r) THEN "lost" ELSE outcome[r]]
    /\ latch' = FALSE
    /\ activeId' = NoRun
    /\ left' = 0
    /\ faceUp' = FALSE
    /\ cancels' = {}
    /\ UNCHANGED <<call, seen, reread, card, tapped, record, world>>

-----------------------------------------------------------------------------
Init ==
    /\ LedgerInit
    /\ pc = [r \in Runs |-> "idle"]
    /\ call = [r \in Runs |-> {}]
    /\ outcome = [r \in Runs |-> "none"]
    /\ latch = FALSE
    /\ activeId = NoRun
    /\ left = 0
    /\ world \in Worlds
    /\ seen = [r \in Runs |-> {}] /\ reread = [r \in Runs |-> {}]
    /\ faceUp = FALSE
    /\ card = NoRun
    /\ cancels = {}
    /\ audit = {}
    /\ tapped = {} /\ vetoed = {} /\ effects = {}

BreakerStep(r) ==
    \/ OpenWindow(r) \/ PollCancelled(r) \/ FinalCancelled(r) \/ Sleep(r)
    \/ Reserve(r) \/ CeilingExceeded(r)
    \/ ReRead(r) \/ ToctouAbort(r) \/ AuditExecuted(r) \/ Execute(r)

DispatchStep(r) == Deny(r) \/ Allow(r) \/ BreakerStep(r)

Environment ==
    \/ TapCancel \/ CardElapsed \/ FaceConnects \/ FaceDisconnects
    \/ WorldChanges \/ DayPasses
    \/ \E torn \in BOOLEAN : Die(torn)

Next ==
    \/ \E r \in Runs :
        \/ \E c \in Calls : Dispatch(r, c)
        \/ DispatchStep(r) \/ Finish(r) \/ DeliverCancel(r)
    \/ Environment

Spec == Init /\ [][Next]_vars

(* The event loop keeps running a dispatch that is ready: timers fire and  *)
(* resolved promises continue.  Nothing is assumed of the owner, the       *)
(* socket or the executor.                                                 *)
Fairness == \A r \in Runs : WF_vars(DispatchStep(r))
FairSpec == Spec /\ Fairness

-----------------------------------------------------------------------------
(* Properties.                                                             *)

BreakerTypeOK ==
    /\ pc \in [Runs -> Pc]
    /\ call \in [Runs -> SUBSET Calls]
    /\ outcome \in [Runs -> Outcome]
    /\ latch \in BOOLEAN
    /\ activeId \in Runs \cup {NoRun}
    /\ left \in 0 .. Window
    /\ world \in Worlds
    /\ seen \in [Runs -> SUBSET Worlds] /\ reread \in [Runs -> SUBSET Worlds]
    /\ faceUp \in BOOLEAN
    /\ card \in Runs \cup {NoRun}
    /\ cancels \subseteq Runs
    /\ audit \subseteq Runs \X Outcomes
    /\ tapped \subseteq Runs /\ vetoed \subseteq Runs /\ effects \subseteq Runs

TypeOK == LedgerTypeOK /\ BreakerTypeOK

(* A cancel the daemon received while the window was open always wins: the *)
(* executor of that run is never started, whichever poll sees the latch,   *)
(* however late the last poll is, and whatever cancels of other runs       *)
(* arrive around it (breaker.ts:16-17,189).                                *)
VetoHolds == vetoed \cap effects = {}

(* Only the owner's tap on a run's own card cancels it: a late or          *)
(* duplicate cancel of an earlier run, or one sent across a restart, never *)
(* aborts another (registry.ts:49-55,69-76).                               *)
CancelIsTheOwners == \A r \in Runs : outcome[r] = "cancelled" => r \in tapped

(* What reaches an executor: never a credential, never an unregistered     *)
(* tool; and when it is Red, only a call of the owner's or KERNEL's own,   *)
(* with the flag on, that was previewed, reserved and written to the audit *)
(* log first (gate.ts, registry.ts:115-145, breaker.ts:200-209).           *)
OnlyGatedEffects ==
    \A r \in effects : \E c \in call[r] :
        /\ c.tool \in Registered
        /\ ~IsSecret(c)
        /\ IsRed(c) =>
              /\ BreakerEnabled /\ c.origin # "external"
              /\ seen[r] # {}
              /\ <<r, "executed">> \in audit

(* The inductive invariant behind them: what is known of a run at each     *)
(* place it can be, and how the module-level latch and active id, shared   *)
(* by all runs, relate to the one run whose window is open.                *)
RunInv(r) ==
    /\ IF pc[r] = "idle" THEN call[r] = {} ELSE \E c \in Calls : call[r] = {c}
    /\ pc[r] # "done" => outcome[r] = "none"
    /\ Live(r) => \A c \in call[r] : c.tool \in Registered
    /\ pc[r] \in {"idle", "surfacing"} \cup Previewed => r \notin effects
    /\ pc[r] = "executing" => r \in effects
    /\ pc[r] \in Previewed =>
          seen[r] # {} /\ \A c \in call[r] : Authorize(c) = "gated"
    /\ pc[r] = "verified" => <<r, "executed">> \in audit
    /\ pc[r] = "window" => activeId = r /\ (latch => r \in tapped)
    /\ r \in vetoed =>
          /\ r \notin effects
          /\ \A c \in call[r] : IsRed(c)
          /\ pc[r] = "done" \/ (pc[r] = "window" /\ latch)
    /\ outcome[r] = "cancelled" \/ r \in cancels => r \in tapped

OneRun == \A r, s \in Runs : Live(r) /\ Live(s) => r = s

BreakerInv ==
    /\ BreakerTypeOK
    /\ OneRun
    /\ \A r \in Runs : RunInv(r)
    /\ OnlyGatedEffects

(* The audit log never tells two stories of one run, and never another one *)
(* than dispatch returned (breaker.ts:181,188,195,203,208).                *)
AuditMatchesOutcome ==
    \A r \in Runs, o \in Outcomes : <<r, o>> \in audit =>
        /\ \A p \in Outcomes : <<r, p>> \in audit => p = o
        /\ IF o = "executed"
           THEN outcome[r] \in {"none", "ok", "failed", "lost"}
           ELSE outcome[r] = o /\ r \notin effects

(* The ledger charges a day exactly the amounts of the calls the audit log *)
(* says were executed on it, plus reserves that died with the process      *)
(* (breaker.ts:193-209, spend-ledger.ts:119-156).                          *)
ExecutedOn(d) == {r \in Runs : <<r, "executed">> \in audit /\ heldDay[r] = d}

Charges(d) == [r \in ExecutedOn(d) |-> Spend(r)]

ChargesMatchAudit ==
    SerialLoop /\ readable =>
        file.total = SumFunction(Charges(file.date)) + orphaned[file.date]

(* No action runs once its world was found changed: what an executor of a  *)
(* previewed call starts in is, as of the read made right before it, the   *)
(* world the preview described (breaker.ts:20-21,52-56,199-205).           *)
ExecutedOnPreviewedWorld ==
    [][\A r \in Runs :
        r \in effects' \ effects /\ seen[r] # {} => reread[r] = seen[r]]_vars

(* The abstract promise, for the Red calls.                                *)
RedRun(r) == \E c \in call[r] : IsRed(c)

PhaseOf(r) ==
    IF ~RedRun(r) THEN "new"
    ELSE IF r \in effects THEN "ran"
    ELSE IF outcome[r] = "lost" THEN "lost"
    ELSE IF pc[r] = "done" THEN "refused"
    ELSE IF pc[r] \in Previewed THEN "announced"
    ELSE "new"

Phases == [r \in Runs |-> PhaseOf(r)]

Red == INSTANCE RedAction WITH Actions <- Runs, phase <- Phases

(* breaker.ts, gate.ts and registry.ts together implement RedAction.       *)
RedPromise == Red!AbsSpec
RedSafety == Red!AbsSafety
=============================================================================
