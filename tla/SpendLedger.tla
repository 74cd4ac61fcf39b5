----------------------------- MODULE SpendLedger -----------------------------
(***************************************************************************)
(* The daily spend ledger of daemon/src/safety/spend-ledger.ts: a JSON     *)
(* file holding one running total, and the ledger objects that             *)
(* createSpendLedger builds over it.  registry.ts builds a fresh object    *)
(* for every gated call, so an object lives from the moment the breaker    *)
(* opens until its call is cancelled, refused, aborted or executed; what   *)
(* survives from one call to the next is the file.                         *)
(*                                                                         *)
(* An Instance is one such object.  The ceiling comes from the process     *)
(* environment and can only change with a restart.  The calendar is the    *)
(* UTC day, which is what dayKey computes.                                 *)
(***************************************************************************)
EXTENDS Integers

CONSTANTS
    Instances,      \* ledger objects, one per gated call
    Amounts,        \* what a call may ask to reserve
    Ceilings,       \* values KERNEL_DAILY_SPEND_CEILING may have at a boot
    MaxDay,         \* bound on the calendar
    TornWrites      \* TRUE: a crash may land inside fs.writeFileSync

ASSUME AmountsNat == Amounts \subseteq Nat
ASSUME CeilingsNat == Ceilings \subseteq Nat
ASSUME MaxDayNat == MaxDay \in Nat
ASSUME TornWritesBool == TornWrites \in BOOLEAN

VARIABLES
    utcDay,             \* the calendar
    ceil,               \* the ceiling this process was started with
    readable,           \* the file exists and parses as a LedgerState
    file,               \* its content when it does
    stage,              \* life of each ledger object
    mem,                \* the object's in-memory state
    held,               \* the amount its reserve result carries
    heldDay,            \* history: the UTC day of that reserve
    granted,            \* history: unreleased grants, per UTC day
    spent,              \* history: reserves whose call was executed, per UTC day
    orphaned            \* history: reserves whose process died, per UTC day

history == <<heldDay, granted, spent, orphaned>>
ledgerVars == <<utcDay, ceil, readable, file, stage, mem, held, history>>

Day == 0 .. MaxDay
LedgerState == [date : Day, total : Nat, ceiling : Nat]
Stage == {"closed", "open", "reserved"}

Fresh(d) == [date |-> d, total |-> 0, ceiling |-> ceil]

-----------------------------------------------------------------------------
(* The operations of a ledger object.                                      *)

(* load(): a missing or corrupt file counts as an empty ledger of today.   *)
Load == IF readable THEN file ELSE Fresh(utcDay)

(* createSpendLedger after load(): roll the day, else honour an updated    *)
(* ceiling.                                                                *)
Opened(s) ==
    IF s.date # utcDay THEN Fresh(utcDay) ELSE [s EXCEPT !.ceiling = ceil]

(* A write happens only when that changed something (a missing file stays  *)
(* missing).                                                               *)
OpenPersists == Opened(Load) # Load

Persist(s) == file' = s /\ readable' = TRUE

(* The loop drains one intent at a time, so no object is live when the     *)
(* next gated call builds its own.                                         *)
SerialLoop == \A j \in Instances : stage[j] = "closed"

Open(i) ==
    /\ stage[i] = "closed"
    /\ SerialLoop
    /\ mem' = [mem EXCEPT ![i] = Opened(Load)]
    /\ IF OpenPersists THEN Persist(Opened(Load)) ELSE UNCHANGED <<file, readable>>
    /\ stage' = [stage EXCEPT ![i] = "open"]
    /\ UNCHANGED <<utcDay, ceil, held, history>>

(* dayReset(now) as checkAndReserve calls it first.                        *)
DayReset(s) == IF s.date # utcDay THEN [s EXCEPT !.date = utcDay, !.total = 0] ELSE s

ExceedsBefore(s, amount) == s.total > s.ceiling     \* slip: amount not counted

Exceeds(s, amount) == s.total + amount > s.ceiling

Grant(i, amount) ==
    LET s == DayReset(mem[i])
        t == [s EXCEPT !.total = @ + amount]
    IN  /\ stage[i] = "open"
        /\ ~Exceeds(s, amount)
        /\ mem' = [mem EXCEPT ![i] = t]
        /\ Persist(t)
        /\ stage' = [stage EXCEPT ![i] = "reserved"]
        /\ held' = [held EXCEPT ![i] = amount]
        /\ heldDay' = [heldDay EXCEPT ![i] = utcDay]
        /\ granted' = [granted EXCEPT ![utcDay] = @ + amount]
        /\ UNCHANGED <<utcDay, ceil, spent, orphaned>>

(* A refused reserve still persists the day roll; the breaker returns, so  *)
(* the object is dropped.                                                  *)
Refuse(i, amount) ==
    LET s == DayReset(mem[i])
    IN  /\ stage[i] = "open"
        /\ Exceeds(s, amount)
        /\ mem' = [mem EXCEPT ![i] = s]
        /\ IF s # mem[i] THEN Persist(s) ELSE UNCHANGED <<file, readable>>
        /\ stage' = [stage EXCEPT ![i] = "closed"]
        /\ UNCHANGED <<utcDay, ceil, held, history>>

(* A cancelled call returns without touching its ledger object.            *)
Drop(i) ==
    /\ stage[i] = "open"
    /\ stage' = [stage EXCEPT ![i] = "closed"]
    /\ UNCHANGED <<utcDay, ceil, readable, file, mem, held, history>>

(* release(reserve), on a world change; no day roll here.                  *)
Released(s, amount) ==
    [s EXCEPT !.total = IF @ > amount THEN @ - amount ELSE 0]

(* Slip: the released total is not persisted.                              *)
ReleaseInMemory(i) ==
    /\ stage[i] = "reserved"
    /\ mem' = [mem EXCEPT ![i] = Released(@, held[i])]
    /\ stage' = [stage EXCEPT ![i] = "closed"]
    /\ held' = [held EXCEPT ![i] = 0]
    /\ UNCHANGED <<utcDay, ceil, readable, file, history>>

Release(i) ==
    LET s == Released(mem[i], held[i])
    IN  /\ stage[i] = "reserved"
        /\ mem' = [mem EXCEPT ![i] = s]
        /\ Persist(s)
        /\ stage' = [stage EXCEPT ![i] = "closed"]
        /\ held' = [held EXCEPT ![i] = 0]
        /\ granted' = [granted EXCEPT ![heldDay[i]] = @ - held[i]]
        /\ UNCHANGED <<utcDay, ceil, heldDay, spent, orphaned>>

(* The call goes on to execute: the reserve stays in the file for good,    *)
(* whatever the executor returns.                                          *)
Keep(i) ==
    /\ stage[i] = "reserved"
    /\ stage' = [stage EXCEPT ![i] = "closed"]
    /\ held' = [held EXCEPT ![i] = 0]
    /\ spent' = [spent EXCEPT ![heldDay[i]] = @ + held[i]]
    /\ UNCHANGED <<utcDay, ceil, readable, file, mem, heldDay, granted, orphaned>>

-----------------------------------------------------------------------------
(* The environment of the ledger.                                          *)

Midnight ==
    /\ utcDay < MaxDay
    /\ utcDay' = utcDay + 1
    /\ UNCHANGED <<ceil, readable, file, stage, mem, held, history>>

(* Some object is about to write the file: the moment a torn write needs.  *)
AboutToPersist ==
    \/ SerialLoop /\ OpenPersists
    \/ \E i \in Instances : stage[i] \in {"open", "reserved"}

HeldOn(d) == {i \in Instances : stage[i] = "reserved" /\ heldDay[i] = d}

(* The process dies, with whatever its objects held, and launchd starts a  *)
(* new one with the environment of that moment.  writeFileSync truncates   *)
(* before it writes, so a crash inside it leaves text that does not parse. *)
Crash(torn) ==
    /\ torn => TornWrites /\ AboutToPersist
    /\ readable' = (readable /\ ~torn)
    /\ stage' = [i \in Instances |-> "closed"]
    /\ held' = [i \in Instances |-> 0]
    /\ orphaned' = [d \in Day |->
            IF HeldOn(d) = {} THEN orphaned[d]
            ELSE orphaned[d] + held[CHOOSE i \in HeldOn(d) : TRUE]]
    /\ ceil' \in Ceilings
    /\ UNCHANGED <<utcDay, file, mem, heldDay, granted, spent>>

-----------------------------------------------------------------------------
LedgerInit ==
    /\ utcDay = 0
    /\ ceil \in Ceilings
    /\ readable = FALSE
    /\ file = Fresh(0)
    /\ stage = [i \in Instances |-> "closed"]
    /\ mem = [i \in Instances |-> Fresh(0)]
    /\ held = [i \in Instances |-> 0]
    /\ heldDay = [i \in Instances |-> 0]
    /\ granted = [d \in Day |-> 0]
    /\ spent = [d \in Day |-> 0]
    /\ orphaned = [d \in Day |-> 0]

LedgerNext ==
    \/ \E i \in Instances :
        \/ Open(i) \/ Drop(i) \/ Release(i) \/ Keep(i)
        \/ \E amount \in Amounts : Grant(i, amount) \/ Refuse(i, amount)
    \/ Midnight
    \/ \E torn \in BOOLEAN : Crash(torn)

LedgerSpec == LedgerInit /\ [][LedgerNext]_ledgerVars

-----------------------------------------------------------------------------
(* Properties.                                                             *)

LedgerTypeOK ==
    /\ utcDay \in Day
    /\ ceil \in Ceilings
    /\ readable \in BOOLEAN
    /\ file \in LedgerState
    /\ stage \in [Instances -> Stage]
    /\ mem \in [Instances -> LedgerState]
    /\ held \in [Instances -> Nat]
    /\ heldDay \in [Instances -> Day]
    /\ granted \in [Day -> Nat] /\ spent \in [Day -> Nat] /\ orphaned \in [Day -> Nat]

(* The inductive invariant behind the ceiling: the file, read back by the  *)
(* next object, IS the history of grants of its day, and the one live      *)
(* object agrees with it; what is granted is spent, lost in a crash, or    *)
(* still held (spend-ledger.ts:79-156 as breaker.ts:193-202 uses it).      *)
OneLive ==
    \A i, j \in Instances : stage[i] # "closed" /\ stage[j] # "closed" => i = j

NothingAfter(day) ==
    \A d \in Day : d > day => granted[d] = 0

FileIsHistory ==
    /\ readable => /\ file.date <= utcDay
                   /\ granted[file.date] = file.total
                   /\ NothingAfter(file.date)
    /\ ~readable => \A d \in Day : granted[d] = 0

LiveAgrees ==
    \A i \in Instances : stage[i] # "closed" =>
        /\ mem[i].ceiling = ceil
        /\ mem[i].date <= utcDay
        /\ IF readable THEN mem[i] = file ELSE mem[i].total = 0

HeldAgrees ==
    \A i \in Instances :
        IF stage[i] = "reserved"
        THEN readable /\ heldDay[i] = file.date
        ELSE held[i] = 0

GrantsAccounted ==
    \A d \in Day :
        /\ HeldOn(d) = {} => granted[d] = spent[d] + orphaned[d]
        /\ \A i \in HeldOn(d) : granted[d] = spent[d] + orphaned[d] + held[i]

LedgerInv ==
    /\ LedgerTypeOK
    /\ OneLive
    /\ FileIsHistory
    /\ LiveAgrees
    /\ HeldAgrees
    /\ GrantsAccounted

(* Hard rule iii (spend-ledger.ts:4-8): a grant never takes the true total *)
(* of its UTC day past the ceiling the process runs under, across any      *)
(* number of objects, day rolls, releases, restarts and ceiling changes.   *)
GrantsWithinCeiling ==
    [][\A d \in Day : granted'[d] > granted[d] => granted'[d] <= ceil]_ledgerVars

(* Between calls the file charges exactly the calls that were executed     *)
(* that day and the ones a crash cut short: a cancel, a refusal or a       *)
(* TOCTOU abort leaves no reserve behind and loses none.                   *)
BudgetAccounted ==
    SerialLoop /\ readable => file.total = spent[file.date] + orphaned[file.date]
=============================================================================
