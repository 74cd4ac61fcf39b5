-------------------------- MODULE RedBreakerProofs ---------------------------
(***************************************************************************)
(* Proofs about SpendLedger, for any ledger objects, amounts, ceilings and *)
(* calendar, and about RedBreaker, for any calls, any number of            *)
(* dispatches, any window length and any history of crashes.  Where the    *)
(* file counts they assume that no crash lands inside a file write         *)
(* (TornWrites = FALSE): such a crash leaves a file that starts the day    *)
(* again at zero.                                                          *)
(***************************************************************************)
EXTENDS RedBreaker, NumberLemmas

-----------------------------------------------------------------------------
(* The ledger alone.                                                       *)

USE AmountsNat, CeilingsNat, MaxDayNat, TornWritesBool DEF Day

(* The initial ledger, with no file yet, satisfies the invariant.          *)
LEMMA LedgerInitInv == LedgerInit => LedgerInv
<1> SUFFICES ASSUME LedgerInit PROVE LedgerInv
  OBVIOUS
<1> USE DEF LedgerInit, Fresh
<1>1. LedgerTypeOK
  <2>1. 0 \in Day /\ Fresh(0) \in LedgerState
    BY DEF LedgerState
  <2>2. stage \in [Instances -> Stage] /\ mem \in [Instances -> LedgerState]
    BY <2>1 DEF Stage
  <2>3. QED
    BY <2>1, <2>2 DEF LedgerTypeOK
<1>2. OneLive /\ LiveAgrees /\ HeldAgrees
  BY DEF OneLive, LiveAgrees, HeldAgrees
<1>3. FileIsHistory
  BY DEF FileIsHistory
<1>4. GrantsAccounted
  BY DEF GrantsAccounted, HeldOn
<1>5. QED
  BY <1>1, <1>2, <1>3, <1>4 DEF LedgerInv

(* What createSpendLedger builds is today's ledger under today's ceiling,  *)
(* and its total is what was granted today.                                *)
LEMMA OpenedIsToday ==
  ASSUME LedgerInv
  PROVE  /\ Opened(Load) \in LedgerState
         /\ Opened(Load).date = utcDay
         /\ Opened(Load).ceiling = ceil
         /\ Opened(Load).total = granted[utcDay]
         /\ ~readable => Opened(Load).total = 0
         /\ \A d \in Day : d > utcDay => granted[d] = 0
         /\ ~readable => ~OpenPersists
         /\ ~OpenPersists /\ readable => Opened(Load) = file
<1> USE DEF LedgerInv, LedgerTypeOK, LedgerState
<1>0. /\ utcDay \in Int /\ file.date \in Int /\ utcDay \in Day /\ ceil \in Nat
      /\ file \in LedgerState
  OBVIOUS
<1>a. readable => /\ file.date <= utcDay
                  /\ granted[file.date] = file.total
                  /\ \A d \in Day : d > file.date => granted[d] = 0
  BY DEF FileIsHistory, NothingAfter
<1>b. ~readable => \A d \in Day : granted[d] = 0
  BY DEF FileIsHistory
<1> HIDE DEF LedgerInv, LedgerTypeOK
<1>1. CASE readable
  <2>1. CASE file.date = utcDay
    <3>1. Opened(Load) = [file EXCEPT !.ceiling = ceil]
      BY <1>1, <2>1 DEF Load, Opened
    <3>2. OpenPersists <=> [file EXCEPT !.ceiling = ceil] # file
      BY <1>1, <3>1 DEF Load, OpenPersists
    <3>3. QED
      BY <1>0, <1>a, <1>1, <2>1, <3>1, <3>2
  <2>2. CASE file.date # utcDay
    <3>1. Opened(Load) = Fresh(utcDay)
      BY <1>1, <2>2 DEF Load, Opened
    <3>2. utcDay > file.date
      BY <1>0, <1>a, <1>1, <2>2
    <3>3. granted[utcDay] = 0 /\ \A d \in Day : d > utcDay => granted[d] = 0
      BY <1>0, <1>a, <1>1, <3>2
    <3>4. Fresh(utcDay) # file
      BY <2>2 DEF Fresh
    <3>5. OpenPersists
      BY <1>1, <3>1, <3>4 DEF Load, OpenPersists
    <3>6. QED
      BY <1>0, <1>1, <3>1, <3>3, <3>5 DEF Fresh
  <2>3. QED
    BY <2>1, <2>2
<1>2. CASE ~readable
  <2>1. Load = Fresh(utcDay) /\ Opened(Load) = Fresh(utcDay)
    BY <1>2 DEF Load, Opened, Fresh
  <2>2. ~OpenPersists
    BY <2>1 DEF OpenPersists
  <2>3. QED
    BY <1>0, <1>b, <1>2, <2>1, <2>2 DEF Fresh
<1>3. QED
  BY <1>1, <1>2

(* A new object reads back the history the file holds, or starts the day.  *)
LEMMA OpenInv == ASSUME LedgerInv, NEW i \in Instances, Open(i) PROVE LedgerInv'
<1> USE DEF Open, history
<1>0. LedgerTypeOK /\ LedgerTypeOK'
  <2>1. LedgerTypeOK /\ Opened(Load) \in LedgerState
    BY OpenedIsToday DEF LedgerInv
  <2>2. stage' \in [Instances -> Stage]
    BY <2>1 DEF LedgerTypeOK, Stage
  <2>3. mem' \in [Instances -> LedgerState]
    BY <2>1 DEF LedgerTypeOK
  <2>4. file' \in LedgerState /\ readable' \in BOOLEAN
    BY <2>1 DEF LedgerTypeOK, Persist
  <2>5. QED
    BY <2>1, <2>2, <2>3, <2>4 DEF LedgerTypeOK
<1>1. OneLive'
  BY <1>0 DEF OneLive, SerialLoop, LedgerTypeOK
<1>2. FileIsHistory'
  <2>1. CASE OpenPersists
    <3>1. readable' /\ file' = Opened(Load)
      BY <2>1 DEF Persist
    <3>2. granted' = granted /\ utcDay' = utcDay /\ utcDay \in Day
      BY <1>0 DEF LedgerTypeOK
    <3>3. file'.date = utcDay' /\ granted'[file'.date] = file'.total
      BY <3>1, <3>2, OpenedIsToday
    <3>4. NothingAfter(file.date)'
      BY <3>1, <3>2, OpenedIsToday DEF NothingAfter
    <3>5. QED
      BY <3>1, <3>2, <3>3, <3>4 DEF FileIsHistory
  <2>2. CASE ~OpenPersists
    BY <2>2 DEF LedgerInv, FileIsHistory, NothingAfter
  <2>3. QED
    BY <2>1, <2>2
<1>3. LiveAgrees'
  <2> SUFFICES ASSUME NEW j \in Instances, stage'[j] # "closed"
               PROVE  /\ mem'[j].ceiling = ceil'
                      /\ mem'[j].date <= utcDay'
                      /\ IF readable' THEN mem'[j] = file' ELSE mem'[j].total = 0
    BY DEF LiveAgrees
  <2>1. j = i /\ mem'[j] = Opened(Load)
    BY <1>0 DEF SerialLoop, LedgerTypeOK
  <2>2. utcDay' = utcDay /\ ceil' = ceil
    OBVIOUS
  <2>3. IF readable' THEN Opened(Load) = file' ELSE Opened(Load).total = 0
    BY OpenedIsToday DEF Persist
  <2>4. utcDay \in Day
    BY <1>0 DEF LedgerTypeOK
  <2>5. QED
    BY <2>1, <2>2, <2>3, <2>4, OpenedIsToday
<1>4. HeldAgrees'
  BY <1>0 DEF LedgerInv, HeldAgrees, SerialLoop, LedgerTypeOK
<1>5. GrantsAccounted'
  BY <1>0 DEF LedgerInv, GrantsAccounted, HeldOn, SerialLoop, LedgerTypeOK
<1>6. QED
  BY <1>0, <1>1, <1>2, <1>3, <1>4, <1>5 DEF LedgerInv

(* After its day roll a live object counts exactly today's grants.         *)
LEMMA RolledIsToday ==
  ASSUME LedgerInv, NEW i \in Instances, stage[i] = "open"
  PROVE  /\ DayReset(mem[i]) \in LedgerState
         /\ DayReset(mem[i]).date = utcDay
         /\ DayReset(mem[i]).ceiling = ceil
         /\ DayReset(mem[i]).total = granted[utcDay]
         /\ \A d \in Day : d > utcDay => granted[d] = 0
         /\ readable /\ DayReset(mem[i]) = mem[i] => file = mem[i]
<1>0. /\ utcDay \in Int /\ file.date \in Int /\ utcDay \in Day
      /\ mem[i] \in LedgerState
  BY DEF LedgerInv, LedgerTypeOK, LedgerState
<1>1. /\ mem[i].ceiling = ceil
      /\ IF readable THEN mem[i] = file ELSE mem[i].total = 0
  BY DEF LedgerInv, LiveAgrees
<1>2. readable => /\ file.date <= utcDay
                  /\ granted[file.date] = file.total
                  /\ \A d \in Day : d > file.date => granted[d] = 0
  BY DEF LedgerInv, FileIsHistory, NothingAfter
<1>3. ~readable => \A d \in Day : granted[d] = 0
  BY DEF LedgerInv, FileIsHistory
<1>4. CASE mem[i].date = utcDay
  <2>1. DayReset(mem[i]) = mem[i]
    BY <1>4 DEF DayReset
  <2>2. QED
    BY <1>0, <1>1, <1>2, <1>3, <1>4, <2>1
<1>5. CASE mem[i].date # utcDay
  <2>1. DayReset(mem[i]) = [mem[i] EXCEPT !.date = utcDay, !.total = 0]
    BY <1>5 DEF DayReset
  <2>2. /\ DayReset(mem[i]) \in LedgerState /\ DayReset(mem[i]).date = utcDay
        /\ DayReset(mem[i]).ceiling = ceil /\ DayReset(mem[i]).total = 0
    <3>1. \A m \in LedgerState :
            LET r == [m EXCEPT !.date = utcDay, !.total = 0]
            IN  r \in LedgerState /\ r.date = utcDay /\ r.ceiling = m.ceiling /\ r.total = 0
      BY <1>0 DEF LedgerState
    <3>2. QED
      BY <1>0, <1>1, <2>1, <3>1
  <2>3. DayReset(mem[i]) # mem[i]
    BY <1>5, <2>2
  <2>4. granted[utcDay] = 0 /\ \A d \in Day : d > utcDay => granted[d] = 0
    <3>1. CASE readable
      <4>1. file.date < utcDay
        BY <1>0, <1>1, <1>2, <1>5, <3>1
      <4>2. QED
        BY <1>0, <1>2, <3>1, <4>1
    <3>2. CASE ~readable
      BY <1>0, <1>3, <3>2
    <3>3. QED
      BY <3>1, <3>2
  <2>5. QED
    BY <2>2, <2>3, <2>4
<1>6. QED
  BY <1>4, <1>5

(* A grant adds the same amount to the file, the object and the history.   *)
LEMMA GrantInv ==
  ASSUME LedgerInv, NEW i \in Instances, NEW amount \in Amounts, Grant(i, amount)
  PROVE  LedgerInv' /\ granted'[utcDay] <= ceil
<1> DEFINE s == DayReset(mem[i])
           t == [s EXCEPT !.total = @ + amount]
<1>0. /\ stage[i] = "open" /\ ~Exceeds(s, amount)
      /\ mem' = [mem EXCEPT ![i] = t]
      /\ file' = t /\ readable'
      /\ stage' = [stage EXCEPT ![i] = "reserved"]
      /\ held' = [held EXCEPT ![i] = amount]
      /\ heldDay' = [heldDay EXCEPT ![i] = utcDay]
      /\ granted' = [granted EXCEPT ![utcDay] = @ + amount]
      /\ utcDay' = utcDay /\ ceil' = ceil
      /\ spent' = spent /\ orphaned' = orphaned
  BY DEF Grant, Persist
<1>1. LedgerTypeOK /\ amount \in Nat /\ utcDay \in Day
      /\ granted \in [Day -> Nat] /\ ceil \in Nat
  BY DEF LedgerInv, LedgerTypeOK
<1>2. /\ s \in LedgerState /\ s.date = utcDay /\ s.ceiling = ceil
      /\ s.total = granted[utcDay]
      /\ \A d \in Day : d > utcDay => granted[d] = 0
  BY <1>0, RolledIsToday
<1>3. /\ t \in LedgerState /\ t.date = utcDay /\ t.ceiling = ceil
      /\ t.total = granted[utcDay] + amount
  BY <1>1, <1>2 DEF LedgerState
<1>4. granted[utcDay] + amount <= ceil
  BY <1>0, <1>1, <1>2 DEF Exceeds
<1> HIDE DEF s, t
<1>5. granted'[utcDay] = granted[utcDay] + amount /\ granted'[utcDay] <= ceil
  BY <1>0, <1>1, <1>4
<1>6. LedgerTypeOK'
  <2>1. stage' \in [Instances -> Stage] /\ mem' \in [Instances -> LedgerState]
    BY <1>0, <1>1, <1>3 DEF LedgerTypeOK, Stage
  <2>2. /\ held' \in [Instances -> Nat]
        /\ heldDay' \in [Instances -> Day]
    BY <1>0, <1>1 DEF LedgerTypeOK
  <2>3. granted' \in [Day -> Nat]
    BY <1>0, <1>1
  <2>4. QED
    BY <1>0, <1>1, <1>3, <2>1, <2>2, <2>3 DEF LedgerTypeOK
<1>7. \A j \in Instances : stage[j] # "closed" => j = i
  BY <1>0 DEF LedgerInv, OneLive
<1>8. OneLive'
  BY <1>0, <1>1, <1>7 DEF OneLive, LedgerTypeOK
<1>9. FileIsHistory'
  <2>1. file'.date = utcDay' /\ granted'[file'.date] = file'.total
    BY <1>0, <1>3, <1>5
  <2>2. NothingAfter(file.date)'
    BY <1>0, <1>1, <1>2, <1>3 DEF NothingAfter
  <2>3. QED
    BY <1>0, <1>1, <2>1, <2>2 DEF FileIsHistory
<1>10. LiveAgrees'
  <2>1. \A j \in Instances : stage'[j] # "closed" => j = i /\ mem'[j] = t
    BY <1>0, <1>1, <1>7 DEF LedgerTypeOK
  <2>2. QED
    BY <1>0, <1>1, <1>3, <2>1 DEF LiveAgrees
<1>11. HeldAgrees'
  <2> SUFFICES ASSUME NEW j \in Instances
               PROVE  IF stage'[j] = "reserved"
                      THEN readable' /\ heldDay'[j] = file'.date
                      ELSE held'[j] = 0
    BY DEF HeldAgrees
  <2>1. CASE j = i
    BY <1>0, <1>1, <1>3, <2>1 DEF LedgerTypeOK
  <2>2. CASE j # i
    BY <1>0, <1>1, <1>7, <2>2 DEF LedgerInv, HeldAgrees, LedgerTypeOK
  <2>3. QED
    BY <2>1, <2>2
<1>12. GrantsAccounted'
  <2>1. \A d \in Day : HeldOn(d) = {}
    BY <1>0, <1>7 DEF HeldOn
  <2>2. \A d \in Day : granted[d] = spent[d] + orphaned[d]
    BY <2>1 DEF LedgerInv, GrantsAccounted
  <2>3. \A d \in Day : HeldOn(d)' = IF d = utcDay THEN {i} ELSE {}
    BY <1>0, <1>1, <1>7 DEF HeldOn, LedgerTypeOK
  <2>4. held'[i] = amount
    BY <1>0, <1>1 DEF LedgerTypeOK
  <2>5. \A d \in Day : granted'[d] = IF d = utcDay THEN granted[d] + amount ELSE granted[d]
    BY <1>0, <1>1
  <2>6. spent \in [Day -> Nat] /\ orphaned \in [Day -> Nat]
    BY <1>1 DEF LedgerTypeOK
  <2>7. QED
    BY <1>0, <1>1, <2>2, <2>3, <2>4, <2>5, <2>6 DEF GrantsAccounted
<1>13. QED
  BY <1>5, <1>6, <1>8, <1>9, <1>10, <1>11, <1>12 DEF LedgerInv

(* Closing the live object without a reserve changes nothing else.         *)
LEMMA RefuseInv ==
  ASSUME LedgerInv, NEW i \in Instances, NEW amount \in Amounts, Refuse(i, amount)
  PROVE  LedgerInv' /\ granted' = granted
<1> DEFINE s == DayReset(mem[i])
<1>0. /\ stage[i] = "open"
      /\ mem' = [mem EXCEPT ![i] = s]
      /\ stage' = [stage EXCEPT ![i] = "closed"]
      /\ held' = held /\ heldDay' = heldDay
      /\ granted' = granted
      /\ utcDay' = utcDay /\ ceil' = ceil
      /\ spent' = spent /\ orphaned' = orphaned
  BY DEF Refuse, history
<1>1. \/ file' = s /\ readable'
      \/ file' = file /\ readable' = readable
  BY DEF Refuse, Persist
<1>2. LedgerTypeOK /\ utcDay \in Day
  BY DEF LedgerInv, LedgerTypeOK
<1>3. /\ s \in LedgerState /\ s.date = utcDay
      /\ s.total = granted[utcDay]
      /\ \A d \in Day : d > utcDay => granted[d] = 0
  BY <1>0, RolledIsToday
<1> HIDE DEF s
<1>4. LedgerTypeOK'
  <2>1. stage' \in [Instances -> Stage] /\ mem' \in [Instances -> LedgerState]
    BY <1>0, <1>2, <1>3 DEF LedgerTypeOK, Stage
  <2>2. file' \in LedgerState /\ readable' \in BOOLEAN
    BY <1>1, <1>2, <1>3 DEF LedgerTypeOK
  <2>3. QED
    BY <1>0, <1>2, <2>1, <2>2 DEF LedgerTypeOK
<1>5. \A j \in Instances : stage[j] # "closed" => j = i
  BY <1>0 DEF LedgerInv, OneLive
<1>6. \A j \in Instances : stage'[j] = "closed"
  BY <1>0, <1>2, <1>5 DEF LedgerTypeOK
<1>7. OneLive' /\ LiveAgrees'
  BY <1>6 DEF OneLive, LiveAgrees
<1>8. FileIsHistory'
  <2>1. CASE file' = s /\ readable'
    <3>1. file'.date = utcDay' /\ granted'[file'.date] = file'.total
      BY <1>0, <1>3, <2>1
    <3>2. NothingAfter(file.date)'
      BY <1>0, <1>3, <2>1 DEF NothingAfter
    <3>3. QED
      BY <1>0, <1>2, <2>1, <3>1, <3>2 DEF FileIsHistory
  <2>2. CASE file' = file /\ readable' = readable
    BY <1>0, <2>2 DEF LedgerInv, FileIsHistory, NothingAfter
  <2>3. QED
    BY <1>1, <2>1, <2>2
<1>9. HeldAgrees'
  BY <1>0, <1>5, <1>6 DEF LedgerInv, HeldAgrees
<1>10. GrantsAccounted'
  <2>1. \A d \in Day : HeldOn(d) = {} /\ HeldOn(d)' = {}
    BY <1>0, <1>5, <1>6 DEF HeldOn
  <2>2. QED
    BY <1>0, <2>1 DEF LedgerInv, GrantsAccounted
<1>11. QED
  BY <1>0, <1>4, <1>7, <1>8, <1>9, <1>10 DEF LedgerInv

(* A cancelled call leaves the ledger as it found it.                      *)
LEMMA DropInv ==
  ASSUME LedgerInv, NEW i \in Instances, Drop(i)
  PROVE  LedgerInv' /\ granted' = granted
<1>0. /\ stage[i] = "open"
      /\ stage' = [stage EXCEPT ![i] = "closed"]
      /\ file' = file /\ readable' = readable /\ mem' = mem
      /\ held' = held /\ heldDay' = heldDay
      /\ granted' = granted
      /\ utcDay' = utcDay /\ ceil' = ceil
      /\ spent' = spent /\ orphaned' = orphaned
  BY DEF Drop, history
<1>1. LedgerTypeOK /\ LedgerTypeOK'
  BY <1>0 DEF LedgerInv, LedgerTypeOK, Stage
<1>2. \A j \in Instances : stage[j] # "closed" => j = i
  BY <1>0 DEF LedgerInv, OneLive
<1>3. \A j \in Instances : stage'[j] = "closed"
  BY <1>0, <1>1, <1>2 DEF LedgerTypeOK
<1>4. OneLive' /\ LiveAgrees'
  BY <1>3 DEF OneLive, LiveAgrees
<1>5. FileIsHistory'
  BY <1>0 DEF LedgerInv, FileIsHistory, NothingAfter
<1>6. HeldAgrees'
  BY <1>0, <1>2, <1>3 DEF LedgerInv, HeldAgrees
<1>7. GrantsAccounted'
  <2>1. \A d \in Day : HeldOn(d) = {} /\ HeldOn(d)' = {}
    BY <1>0, <1>2, <1>3 DEF HeldOn
  <2>2. QED
    BY <1>0, <2>1 DEF LedgerInv, GrantsAccounted
<1>8. QED
  BY <1>0, <1>1, <1>4, <1>5, <1>6, <1>7 DEF LedgerInv

(* What the one reserved object holds is part of what its day was granted. *)
LEMMA ReservedFacts ==
  ASSUME LedgerInv, NEW i \in Instances, stage[i] = "reserved"
  PROVE  /\ readable /\ mem[i] = file /\ file \in LedgerState
         /\ held[i] \in Nat /\ heldDay[i] = file.date /\ file.date \in Day
         /\ file.date <= utcDay /\ utcDay \in Day
         /\ granted[file.date] = file.total
         /\ spent[file.date] \in Nat /\ orphaned[file.date] \in Nat
         /\ granted[file.date] = spent[file.date] + orphaned[file.date] + held[i]
         /\ \A j \in Instances : stage[j] # "closed" => j = i
         /\ \A d \in Day : HeldOn(d) = IF d = file.date THEN {i} ELSE {}
         /\ \A d \in Day : d # file.date => granted[d] = spent[d] + orphaned[d]
<1>1. /\ file \in LedgerState /\ held[i] \in Nat
      /\ utcDay \in Day /\ spent \in [Day -> Nat] /\ orphaned \in [Day -> Nat]
  BY DEF LedgerInv, LedgerTypeOK
<1>2. file.date \in Day
  BY <1>1 DEF LedgerState
<1>3. \A j \in Instances : stage[j] # "closed" => j = i
  BY DEF LedgerInv, OneLive
<1>4. readable /\ heldDay[i] = file.date
  BY DEF LedgerInv, HeldAgrees
<1>5. mem[i] = file /\ file.date <= utcDay /\ granted[file.date] = file.total
  BY <1>4 DEF LedgerInv, LiveAgrees, FileIsHistory
<1>6. \A d \in Day : HeldOn(d) = IF d = file.date THEN {i} ELSE {}
  BY <1>3, <1>4 DEF HeldOn
<1>7. granted[file.date] = spent[file.date] + orphaned[file.date] + held[i]
  BY <1>2, <1>6 DEF LedgerInv, GrantsAccounted
<1>8. \A d \in Day : d # file.date => granted[d] = spent[d] + orphaned[d]
  BY <1>6 DEF LedgerInv, GrantsAccounted
<1>9. QED
  BY <1>1, <1>2, <1>3, <1>4, <1>5, <1>6, <1>7, <1>8

(* An executed call turns what it held into spending of its day.           *)
LEMMA KeepInv ==
  ASSUME LedgerInv, NEW i \in Instances, Keep(i)
  PROVE  LedgerInv' /\ granted' = granted
<1>0. /\ stage[i] = "reserved"
      /\ stage' = [stage EXCEPT ![i] = "closed"]
      /\ held' = [held EXCEPT ![i] = 0]
      /\ spent' = [spent EXCEPT ![heldDay[i]] = @ + held[i]]
      /\ file' = file /\ readable' = readable /\ mem' = mem
      /\ heldDay' = heldDay
      /\ granted' = granted
      /\ utcDay' = utcDay /\ ceil' = ceil
      /\ orphaned' = orphaned
  BY DEF Keep, history
<1>1. LedgerTypeOK
  BY DEF LedgerInv
<1>2. LedgerTypeOK'
  <2>1. stage' \in [Instances -> Stage] /\ held' \in [Instances -> Nat]
    BY <1>0, <1>1 DEF LedgerTypeOK, Stage
  <2>2. spent' \in [Day -> Nat]
    <3>1. spent \in [Day -> Nat] /\ heldDay[i] \in Day /\ held[i] \in Nat
      BY <1>1 DEF LedgerTypeOK
    <3>2. spent[heldDay[i]] + held[i] \in Nat
      BY <3>1
    <3>3. QED
      BY <1>0, <3>1, <3>2
  <2>3. QED
    BY <1>0, <1>1, <2>1, <2>2 DEF LedgerTypeOK
<1>3. \A j \in Instances : stage'[j] = "closed" /\ held'[j] = 0
  BY <1>0, <1>1, ReservedFacts DEF LedgerTypeOK, LedgerInv, HeldAgrees
<1>4. OneLive' /\ LiveAgrees' /\ HeldAgrees'
  BY <1>3 DEF OneLive, LiveAgrees, HeldAgrees
<1>5. FileIsHistory'
  BY <1>0 DEF LedgerInv, FileIsHistory, NothingAfter
<1>6. GrantsAccounted'
  <2>1. \A d \in Day : HeldOn(d)' = {}
    BY <1>3 DEF HeldOn
  <2>2. \A d \in Day : spent'[d] = IF d = file.date THEN spent[d] + held[i] ELSE spent[d]
    BY <1>0, <1>1, ReservedFacts DEF LedgerTypeOK
  <2>3. \A d \in Day : granted[d] = spent'[d] + orphaned[d]
    BY <1>0, <2>2, ReservedFacts
  <2>4. QED
    BY <1>0, <2>1, <2>3 DEF GrantsAccounted
<1>7. QED
  BY <1>0, <1>2, <1>4, <1>5, <1>6 DEF LedgerInv

(* An aborted call takes exactly its own amount back.                      *)
LEMMA ReleaseInv ==
  ASSUME LedgerInv, NEW i \in Instances, Release(i)
  PROVE  LedgerInv' /\ \A d \in Day : granted'[d] <= granted[d]
<1> DEFINE s == Released(mem[i], held[i])
<1>0. /\ stage[i] = "reserved"
      /\ mem' = [mem EXCEPT ![i] = s]
      /\ file' = s /\ readable'
      /\ stage' = [stage EXCEPT ![i] = "closed"]
      /\ held' = [held EXCEPT ![i] = 0]
      /\ granted' = [granted EXCEPT ![heldDay[i]] = @ - held[i]]
      /\ heldDay' = heldDay
      /\ utcDay' = utcDay /\ ceil' = ceil
      /\ spent' = spent /\ orphaned' = orphaned
  BY DEF Release, Persist
<1>1. LedgerTypeOK
  BY DEF LedgerInv
<1>2. file.total \in Nat /\ file.total >= held[i]
  BY <1>0, ReservedFacts DEF LedgerState
<1>3. /\ s \in LedgerState /\ s.date = file.date
      /\ s.total = file.total - held[i]
  <2>1. \A f \in LedgerState, n \in Nat : f.total >= n =>
          /\ Released(f, n) \in LedgerState
          /\ Released(f, n).date = f.date
          /\ Released(f, n).total = f.total - n
    BY DEF LedgerState, Released
  <2>2. QED
    BY <1>0, <1>2, <2>1, ReservedFacts
<1> HIDE DEF s
<1>4. granted \in [Day -> Nat]
  BY <1>1 DEF LedgerTypeOK
<1>5. \A d \in Day : granted'[d] = IF d = file.date THEN granted[d] - held[i] ELSE granted[d]
  BY <1>0, <1>4, ReservedFacts
<1>6. LedgerTypeOK'
  <2>1. /\ stage' \in [Instances -> Stage] /\ held' \in [Instances -> Nat]
        /\ mem' \in [Instances -> LedgerState]
    BY <1>0, <1>1, <1>3 DEF LedgerTypeOK, Stage
  <2>2. granted' \in [Day -> Nat]
    <3>1. granted[heldDay[i]] - held[i] \in Nat
      BY <1>0, ReservedFacts
    <3>2. QED
      BY <1>0, <1>4, <3>1
  <2>3. QED
    BY <1>0, <1>1, <1>3, <2>1, <2>2 DEF LedgerTypeOK
<1>7. \A j \in Instances : stage'[j] = "closed" /\ held'[j] = 0
  BY <1>0, <1>1, ReservedFacts DEF LedgerTypeOK, LedgerInv, HeldAgrees
<1>8. OneLive' /\ LiveAgrees' /\ HeldAgrees'
  BY <1>7 DEF OneLive, LiveAgrees, HeldAgrees
<1>9. FileIsHistory'
  <2>1. file'.date <= utcDay' /\ granted'[file'.date] = file'.total
    BY <1>0, <1>3, <1>5, ReservedFacts
  <2>2. NothingAfter(file.date)'
    <3>1. \A d \in Day : d > file.date => granted[d] = 0
      BY <1>0, ReservedFacts DEF LedgerInv, FileIsHistory, NothingAfter
    <3>2. QED
      BY <1>0, <1>3, <1>5, <3>1, ReservedFacts DEF NothingAfter
  <2>3. QED
    BY <1>0, <2>1, <2>2 DEF FileIsHistory
<1>10. GrantsAccounted'
  <2>1. \A d \in Day : HeldOn(d)' = {}
    BY <1>7 DEF HeldOn
  <2>2. \A d \in Day : granted'[d] = spent[d] + orphaned[d]
    BY <1>0, <1>5, ReservedFacts
  <2>3. QED
    BY <1>0, <2>1, <2>2 DEF GrantsAccounted
<1>11. \A d \in Day : granted'[d] <= granted[d]
  BY <1>0, <1>4, <1>5, ReservedFacts
<1>12. QED
  BY <1>6, <1>8, <1>9, <1>10, <1>11 DEF LedgerInv

(* Midnight changes no file; only the day moves.                           *)
LEMMA MidnightInv ==
  ASSUME LedgerInv, Midnight
  PROVE  LedgerInv' /\ granted' = granted
<1>0. /\ utcDay' >= utcDay /\ utcDay' \in Day /\ utcDay \in Day
      /\ ceil' = ceil /\ readable' = readable /\ file' = file /\ stage' = stage
      /\ mem' = mem /\ held' = held /\ heldDay' = heldDay
      /\ granted' = granted
      /\ spent' = spent /\ orphaned' = orphaned
  BY DEF Midnight, history, LedgerInv, LedgerTypeOK
<1>1. LedgerTypeOK'
  BY <1>0 DEF LedgerInv, LedgerTypeOK
<1>2. \A f \in LedgerState : f.date <= utcDay => f.date <= utcDay'
  BY <1>0 DEF LedgerState
<1>3. FileIsHistory' /\ LiveAgrees'
  <2>1. file \in LedgerState /\ \A i \in Instances : mem[i] \in LedgerState
    BY DEF LedgerInv, LedgerTypeOK
  <2>2. FileIsHistory'
    BY <1>0, <1>2, <2>1 DEF LedgerInv, FileIsHistory, NothingAfter
  <2>3. LiveAgrees'
    BY <1>0, <1>2, <2>1 DEF LedgerInv, LiveAgrees
  <2>4. QED
    BY <2>2, <2>3
<1>4. OneLive' /\ HeldAgrees' /\ GrantsAccounted'
  BY <1>0 DEF LedgerInv, OneLive, HeldAgrees, GrantsAccounted, HeldOn
<1>5. QED
  BY <1>0, <1>1, <1>3, <1>4 DEF LedgerInv

(* A crash between writes loses the objects, never the totals.             *)
LEMMA CrashInv ==
  ASSUME LedgerInv, NEW torn \in BOOLEAN, Crash(torn), TornWrites = FALSE
  PROVE  LedgerInv' /\ granted' = granted
<1>0. /\ readable' = readable
      /\ stage' = [i \in Instances |-> "closed"]
      /\ held' = [i \in Instances |-> 0]
      /\ orphaned' = [d \in Day |->
            IF HeldOn(d) = {} THEN orphaned[d]
            ELSE orphaned[d] + held[CHOOSE i \in HeldOn(d) : TRUE]]
      /\ ceil' \in Ceilings
      /\ utcDay' = utcDay /\ file' = file /\ mem' = mem
      /\ heldDay' = heldDay
      /\ granted' = granted /\ spent' = spent
  BY DEF Crash, LedgerInv, LedgerTypeOK
<1>1. LedgerTypeOK
  BY DEF LedgerInv
<1>2. \A d \in Day : /\ orphaned'[d] \in Nat
                     /\ granted[d] = spent[d] + orphaned'[d]
  <2> SUFFICES ASSUME NEW d \in Day
               PROVE  orphaned'[d] \in Nat /\ granted[d] = spent[d] + orphaned'[d]
    OBVIOUS
  <2>0. spent[d] \in Nat /\ orphaned[d] \in Nat
    BY <1>1 DEF LedgerTypeOK
  <2>1. CASE HeldOn(d) = {}
    BY <1>0, <2>0, <2>1 DEF LedgerInv, GrantsAccounted
  <2>2. CASE HeldOn(d) # {}
    <3> DEFINE h == CHOOSE i \in HeldOn(d) : TRUE
    <3>1. h \in HeldOn(d)
      BY <2>2
    <3> HIDE DEF h
    <3>2. h \in Instances /\ held[h] \in Nat
      BY <1>1, <3>1 DEF HeldOn, LedgerTypeOK
    <3>3. granted[d] = spent[d] + orphaned[d] + held[h]
      BY <3>1 DEF LedgerInv, GrantsAccounted
    <3>4. orphaned'[d] = orphaned[d] + held[h]
      BY <1>0, <2>2 DEF h
    <3>5. QED
      BY <2>0, <3>2, <3>3, <3>4
  <2>3. QED
    BY <2>1, <2>2
<1>3. LedgerTypeOK'
  BY <1>0, <1>1, <1>2 DEF LedgerTypeOK, Stage
<1>4. OneLive' /\ LiveAgrees' /\ HeldAgrees'
  BY <1>0 DEF OneLive, LiveAgrees, HeldAgrees
<1>5. FileIsHistory'
  BY <1>0 DEF LedgerInv, FileIsHistory, NothingAfter
<1>6. GrantsAccounted'
  <2>1. \A d \in Day : HeldOn(d)' = {}
    BY <1>0 DEF HeldOn
  <2>2. QED
    BY <1>0, <1>2, <2>1 DEF GrantsAccounted
<1>7. QED
  BY <1>0, <1>3, <1>4, <1>5, <1>6 DEF LedgerInv

(* One step of the ledger: the invariant is kept, and a day's grants only  *)
(* grow under the ceiling.                                                 *)
LEMMA LedgerStep ==
  ASSUME LedgerInv, [LedgerNext]_ledgerVars, TornWrites = FALSE
  PROVE  /\ LedgerInv'
         /\ \A d \in Day : granted'[d] > granted[d] => granted'[d] <= ceil
<1>0. granted \in [Day -> Nat]
  BY DEF LedgerInv, LedgerTypeOK
<1>1. ASSUME NEW i \in Instances, Open(i) PROVE LedgerInv' /\ granted' = granted
  BY <1>1, OpenInv DEF Open, history
<1>2. ASSUME NEW i \in Instances, NEW amount \in Amounts, Grant(i, amount)
      PROVE  /\ LedgerInv'
             /\ \A d \in Day : granted'[d] > granted[d] => granted'[d] <= ceil
  <2>1. LedgerInv' /\ granted'[utcDay] <= ceil
    BY <1>2, GrantInv
  <2>2. \A d \in Day : d # utcDay => granted'[d] = granted[d]
    BY <1>0, <1>2 DEF Grant
  <2>3. QED
    BY <1>0, <2>1, <2>2
<1>3. ASSUME NEW i \in Instances, NEW amount \in Amounts, Refuse(i, amount)
      PROVE  LedgerInv' /\ granted' = granted
  BY <1>3, RefuseInv
<1>4. ASSUME NEW i \in Instances, Drop(i) PROVE LedgerInv' /\ granted' = granted
  BY <1>4, DropInv
<1>5. ASSUME NEW i \in Instances, Release(i)
      PROVE  LedgerInv' /\ \A d \in Day : granted'[d] <= granted[d]
  BY <1>5, ReleaseInv
<1>6. ASSUME NEW i \in Instances, Keep(i) PROVE LedgerInv' /\ granted' = granted
  BY <1>6, KeepInv
<1>7. ASSUME Midnight PROVE LedgerInv' /\ granted' = granted
  BY <1>7, MidnightInv
<1>8. ASSUME NEW torn \in BOOLEAN, Crash(torn) PROVE LedgerInv' /\ granted' = granted
  BY <1>8, CrashInv
<1>9. CASE UNCHANGED ledgerVars
  <2>1. /\ utcDay' = utcDay /\ ceil' = ceil /\ readable' = readable
        /\ file' = file /\ stage' = stage /\ mem' = mem /\ held' = held
        /\ heldDay' = heldDay /\ granted' = granted
        /\ spent' = spent /\ orphaned' = orphaned
    BY <1>9 DEF ledgerVars, history
  <2>2. LedgerInv'
    BY <2>1 DEF LedgerInv, LedgerTypeOK, OneLive, FileIsHistory, NothingAfter,
                LiveAgrees, HeldAgrees, GrantsAccounted, HeldOn
  <2>3. QED
    BY <1>0, <2>1, <2>2
<1>10. ASSUME LedgerInv' /\ granted' = granted
       PROVE  \A d \in Day : granted'[d] > granted[d] => granted'[d] <= ceil
  BY <1>0, <1>10
<1>11. QED
  <2>1. ASSUME NEW i \in Instances, Release(i)
        PROVE  \A d \in Day : ~(granted'[d] > granted[d])
    <3>1. granted' \in [Day -> Nat]
      BY <1>5, <2>1 DEF LedgerInv, LedgerTypeOK
    <3>2. QED
      BY <1>0, <1>5, <2>1, <3>1
  <2>2. CASE LedgerNext
    BY <1>1, <1>2, <1>3, <1>4, <1>5, <1>6, <1>7, <1>8, <1>10, <2>1, <2>2 DEF LedgerNext
  <2>3. QED
    BY <1>9, <1>10, <2>2

(* The file is the history of grants, at most one ledger object is live    *)
(* and agrees with it, and nothing granted goes unaccounted.               *)
THEOREM LedgerInvariant ==
  ASSUME TornWrites = FALSE
  PROVE  LedgerSpec => []LedgerInv
<1>1. LedgerInv /\ [LedgerNext]_ledgerVars => LedgerInv'
  BY LedgerStep
<1>2. QED
  BY <1>1, LedgerInitInv, PTL DEF LedgerSpec

(* Hard rule iii: every grant leaves its day within the ceiling.           *)
THEOREM LedgerCeiling ==
  ASSUME TornWrites = FALSE
  PROVE  LedgerSpec => GrantsWithinCeiling
<1>1. LedgerInv /\ [LedgerNext]_ledgerVars
        => [\A d \in Day : granted'[d] > granted[d] => granted'[d] <= ceil]_ledgerVars
  BY LedgerStep
<1>2. QED
  BY <1>1, LedgerInvariant, PTL DEF LedgerSpec, GrantsWithinCeiling

(* Between calls the file charges exactly what was executed or cut short.  *)
THEOREM LedgerBudget ==
  ASSUME TornWrites = FALSE
  PROVE  LedgerSpec => []BudgetAccounted
<1>1. LedgerInv => BudgetAccounted
  <2> SUFFICES ASSUME LedgerInv, SerialLoop, readable
               PROVE  file.total = spent[file.date] + orphaned[file.date]
    BY DEF BudgetAccounted
  <2>1. file.date \in Day
    BY DEF LedgerInv, LedgerTypeOK, LedgerState
  <2>2. HeldOn(file.date) = {}
    BY DEF HeldOn, SerialLoop
  <2>3. granted[file.date] = file.total
    BY DEF LedgerInv, FileIsHistory
  <2>4. QED
    BY <2>1, <2>2, <2>3 DEF LedgerInv, GrantsAccounted
<1>2. QED
  BY <1>1, LedgerInvariant, PTL

HIDE DEF Day

-----------------------------------------------------------------------------
(* Facts about the gate.                                                   *)

(* The breaker is entered only by a Red, non-external, non-credential call *)
(* with the flag on (gate.ts:41-101).                                      *)
LEMMA GatedIsRed ==
    ASSUME NEW c, Authorize(c) = "gated"
    PROVE  IsRed(c) /\ ~IsSecret(c) /\ c.origin # "external" /\ BreakerEnabled
  BY BreakerEnabledBool DEF Authorize, Forbidden, IsRed, IsSecret

(* The plain execute path is never taken by a Red call (gate.ts:103-110).  *)
LEMMA AllowedIsNotRed ==
    ASSUME NEW c, Authorize(c) = "allow"
    PROVE  ~IsRed(c) /\ ~IsSecret(c)
  BY BreakerEnabledBool DEF Authorize, Forbidden, IsRed, IsSecret

(* A dispatched run carries exactly one known call.                        *)
LEMMA CallOfRun ==
    ASSUME NEW r \in Runs, RunInv(r), pc[r] # "idle"
    PROVE  CallOf(r) \in Calls /\ call[r] = {CallOf(r)}
  BY DEF RunInv, CallOf

-----------------------------------------------------------------------------
(* The breaker's invariant.                                                *)

(* A step that leaves a run alone keeps what is known of it, provided the  *)
(* shared latch and active id do not move under an open window.            *)
LEMMA Untouched ==
    ASSUME NEW s \in Runs, RunInv(s),
           pc'[s] = pc[s], call'[s] = call[s], outcome'[s] = outcome[s],
           seen'[s] = seen[s], s \in effects' <=> s \in effects,
           s \in vetoed' <=> s \in vetoed,
           audit \subseteq audit', tapped \subseteq tapped',
           s \in cancels' => s \in tapped',
           pc[s] = "window" =>
               activeId' = activeId /\ (latch => latch') /\ (latch' => latch \/ s \in tapped')
    PROVE  RunInv(s)'
  BY DEF RunInv, Live, Previewed

(* Nobody starts with anything to hide.                                    *)
LEMMA InitInv == Init => BreakerInv
<1> SUFFICES ASSUME Init PROVE BreakerInv
  OBVIOUS
<1>1. BreakerTypeOK
  <2>1. left \in 0 .. Window
    BY WindowNat DEF Init
  <2>2. pc \in [Runs -> Pc] /\ outcome \in [Runs -> Outcome]
    BY DEF Init, Pc, Outcome
  <2>3. audit \subseteq Runs \X Outcomes
    BY DEF Init
  <2> QED BY <2>1, <2>2, <2>3 DEF Init, BreakerTypeOK
<1>2. OneRun /\ OnlyGatedEffects
  BY DEF Init, OneRun, Live, OnlyGatedEffects
<1>3. \A r \in Runs : RunInv(r)
  BY NoRunFresh DEF Init, RunInv, Live, Previewed
<1> QED BY <1>1, <1>2, <1>3 DEF BreakerInv

(* Taking an intent: no other run is live (loop.ts awaits each dispatch).  *)
LEMMA DispatchInv ==
    ASSUME BreakerInv, NEW r \in Runs, NEW c \in Calls, Dispatch(r, c)
    PROVE  BreakerInv'
<1>1. BreakerTypeOK'
  BY DEF BreakerInv, BreakerTypeOK, Dispatch, LoopIdle, Goes, Ends, Pc, Outcome, wiring,
       face, record
<1>2. OneRun'
  BY <1>1 DEF BreakerInv, BreakerTypeOK, Dispatch, LoopIdle, Goes, Ends, OneRun, Live
<1>3. \A s \in Runs : RunInv(s)'
  <2> TAKE s \in Runs
  <2>1. CASE s = r
    BY <2>1, <1>1 DEF BreakerInv, BreakerTypeOK, Dispatch, LoopIdle, Goes, Ends, RunInv,
         Live, Previewed, wiring, face, record
  <2>2. CASE s # r
    BY <2>2, Untouched DEF BreakerInv, BreakerTypeOK, Dispatch, LoopIdle, Goes, Ends,
         RunInv, wiring, face, record
  <2> QED BY <2>1, <2>2
<1>4. OnlyGatedEffects'
  BY DEF BreakerInv, BreakerTypeOK, Dispatch, Goes, OnlyGatedEffects, RunInv, wiring, face,
       record
<1> QED BY <1>1, <1>2, <1>3, <1>4 DEF BreakerInv

(* A denial ends a run that has touched nothing.                           *)
LEMMA DenyInv ==
    ASSUME BreakerInv, NEW r \in Runs, Deny(r)
    PROVE  BreakerInv'
<1>1. BreakerTypeOK'
  BY DEF BreakerInv, BreakerTypeOK, Deny, Goes, Ends, Pc, Outcome, Outcomes, wiring, face,
       record, control
<1>2. OneRun'
  BY <1>1 DEF BreakerInv, BreakerTypeOK, Deny, Goes, Ends, OneRun, Live, wiring, face,
       record, control
<1>3. \A s \in Runs : RunInv(s)'
  <2> TAKE s \in Runs
  <2>1. CASE s = r
    BY <2>1, <1>1 DEF BreakerInv, BreakerTypeOK, Deny, Goes, Ends, RunInv, Live, Previewed,
         wiring, face, record, control
  <2>2. CASE s # r
    BY <2>2, Untouched DEF BreakerInv, BreakerTypeOK, OneRun, Live, Deny, Goes, Ends,
         RunInv, wiring, face, record, control
  <2> QED BY <2>1, <2>2
<1>4. OnlyGatedEffects'
  BY <1>1 DEF BreakerInv, BreakerTypeOK, Deny, Goes, Ends, OnlyGatedEffects, RunInv, wiring,
       face, record, control
<1> QED BY <1>1, <1>2, <1>3, <1>4 DEF BreakerInv

(* An allowed call runs without a window, and is not Red.                  *)
LEMMA AllowInv ==
    ASSUME BreakerInv, NEW r \in Runs, Allow(r)
    PROVE  BreakerInv'
<1>1. BreakerTypeOK'
  BY DEF BreakerInv, BreakerTypeOK, Allow, Goes, Ends, Pc, Outcome, Outcomes, wiring, face,
       record, control
<1>2. OneRun'
  BY <1>1 DEF BreakerInv, BreakerTypeOK, Allow, Goes, Ends, OneRun, Live, wiring, face,
       record, control
<1>3. \A s \in Runs : RunInv(s)'
  <2> TAKE s \in Runs
  <2>1. CASE s = r
    BY <2>1, <1>1, CallOfRun, AllowedIsNotRed DEF BreakerInv, BreakerTypeOK, Allow, Goes,
         Ends, RunInv, Live, Previewed, wiring, face, record, control
  <2>2. CASE s # r
    BY <2>2, Untouched DEF BreakerInv, BreakerTypeOK, OneRun, Live, Allow, Goes, Ends,
         RunInv, wiring, face, record, control
  <2> QED BY <2>1, <2>2
<1>4. OnlyGatedEffects'
  <2>1. RunInv(r) /\ pc[r] = "surfacing"
    BY DEF BreakerInv, Allow
  <2>2. call[r] = {CallOf(r)} /\ ~IsRed(CallOf(r)) /\ ~IsSecret(CallOf(r))
    BY <2>1, CallOfRun, AllowedIsNotRed DEF Allow
  <2>3. CallOf(r).tool \in Registered
    BY <2>1, <2>2 DEF RunInv, Live
  <2>4. \A s \in effects' : s \in effects \/ s = r
    BY DEF Allow
  <2> QED BY <2>2, <2>3, <2>4 DEF BreakerInv, OnlyGatedEffects, Allow, wiring
<1> QED BY <1>1, <1>2, <1>3, <1>4 DEF BreakerInv

(* Opening resets the latch, which no open window then depends on.         *)
LEMMA OpenWindowInv ==
    ASSUME BreakerInv, NEW r \in Runs, OpenWindow(r)
    PROVE  BreakerInv'
<1>1. BreakerTypeOK'
  <2>1. left' \in 0 .. Window
    BY WindowNat DEF OpenWindow, BuildDeps, EmitPreview
  <2>2. pc' \in [Runs -> Pc]
    BY DEF BreakerInv, BreakerTypeOK, OpenWindow, BuildDeps, EmitPreview, Goes, Pc
  <2>3. seen' \in [Runs -> SUBSET Worlds]
    BY DEF BreakerInv, BreakerTypeOK, OpenWindow, BuildDeps, EmitPreview
  <2> QED BY <2>1, <2>2, <2>3 DEF BreakerInv, BreakerTypeOK, OpenWindow, BuildDeps,
       EmitPreview, record
<1>2. OneRun'
  BY <1>1 DEF BreakerInv, BreakerTypeOK, OpenWindow, BuildDeps, EmitPreview, Goes, OneRun,
       Live, wiring, face, record, control
<1>3. \A s \in Runs : RunInv(s)'
  <2> TAKE s \in Runs
  <2>1. CASE s = r
    <3>1. pc[r] = "surfacing" /\ pc'[r] = "window" /\ seen'[r] = {world}
      BY DEF BreakerInv, BreakerTypeOK, OpenWindow, BuildDeps, EmitPreview, Goes
    <3>2. RunInv(r) /\ call[r] = {CallOf(r)}
      BY <3>1, CallOfRun DEF BreakerInv
    <3>3. \A c \in call[r] : Authorize(c) = "gated"
      BY <3>2 DEF OpenWindow, BuildDeps, EmitPreview
    <3> QED BY <2>1, <3>1, <3>2, <3>3 DEF OpenWindow, BuildDeps, EmitPreview, RunInv, Live,
         Previewed, record
  <2>2. CASE s # r
    BY <2>2, Untouched DEF BreakerInv, BreakerTypeOK, OneRun, Live, OpenWindow, BuildDeps,
         EmitPreview, Goes, RunInv, wiring, face, record, control
  <2> QED BY <2>1, <2>2
<1>4. OnlyGatedEffects'
  BY <1>1 DEF BreakerInv, BreakerTypeOK, OpenWindow, BuildDeps, EmitPreview, Goes,
       OnlyGatedEffects, RunInv, wiring, face, record, control
<1> QED BY <1>1, <1>2, <1>3, <1>4 DEF BreakerInv

(* A poll that sees the latch ends the one run the latch was set for.      *)
LEMMA CancelledInv ==
    ASSUME BreakerInv, NEW r \in Runs, (PollCancelled(r) \/ FinalCancelled(r))
    PROVE  BreakerInv'
<1>1. BreakerTypeOK'
  BY DEF BreakerInv, BreakerTypeOK, PollCancelled, FinalCancelled, Cancelled, Goes, Ends,
       Audited, Pc, Outcome, Outcomes, wiring, face, record, control
<1>2. OneRun'
  BY <1>1 DEF BreakerInv, BreakerTypeOK, PollCancelled, FinalCancelled, Cancelled, Goes,
       Ends, Audited, OneRun, Live, wiring, face, record, control
<1>3. \A s \in Runs : RunInv(s)'
  <2> TAKE s \in Runs
  <2>1. CASE s = r
    BY <2>1, <1>1 DEF BreakerInv, BreakerTypeOK, PollCancelled, FinalCancelled, Cancelled,
         Goes, Ends, Audited, RunInv, Live, Previewed, wiring, face, record, control
  <2>2. CASE s # r
    BY <2>2, Untouched DEF BreakerInv, BreakerTypeOK, OneRun, Live, PollCancelled,
         FinalCancelled, Cancelled, Goes, Ends, Audited, RunInv, wiring, face, record,
         control
  <2> QED BY <2>1, <2>2
<1>4. OnlyGatedEffects'
  BY <1>1 DEF BreakerInv, BreakerTypeOK, PollCancelled, FinalCancelled, Cancelled, Goes,
       Ends, Audited, OnlyGatedEffects, RunInv, wiring, face, record, control
<1> QED BY <1>1, <1>2, <1>3, <1>4 DEF BreakerInv

(* Sleeping between polls changes nothing a run depends on.                *)
LEMMA SleepInv ==
    ASSUME BreakerInv, NEW r \in Runs, Sleep(r)
    PROVE  BreakerInv'
<1>1. BreakerTypeOK'
  BY WindowNat DEF BreakerInv, BreakerTypeOK, Sleep, Pc, Outcome, Outcomes, wiring, face,
       record, control
<1>2. OneRun'
  BY <1>1 DEF BreakerInv, BreakerTypeOK, Sleep, OneRun, Live, wiring, face, record, control
<1>3. \A s \in Runs : RunInv(s)'
  <2> TAKE s \in Runs
  <2>1. CASE s = r
    BY <2>1, <1>1 DEF BreakerInv, BreakerTypeOK, Sleep, RunInv, Live, Previewed, wiring,
         face, record, control
  <2>2. CASE s # r
    BY <2>2, Untouched DEF BreakerInv, BreakerTypeOK, OneRun, Live, Sleep, RunInv, wiring,
         face, record, control
  <2> QED BY <2>1, <2>2
<1>4. OnlyGatedEffects'
  BY <1>1 DEF BreakerInv, BreakerTypeOK, Sleep, OnlyGatedEffects, RunInv, wiring, face,
       record, control
<1> QED BY <1>1, <1>2, <1>3, <1>4 DEF BreakerInv

(* With the latch down at the deadline, no veto is pending.                *)
LEMMA ReserveInv ==
    ASSUME BreakerInv, NEW r \in Runs, Reserve(r)
    PROVE  BreakerInv'
<1>1. BreakerTypeOK'
  BY DEF BreakerInv, BreakerTypeOK, Reserve, WindowPassed, Goes, Pc, Outcome, Outcomes,
       wiring, face, record, control
<1>2. OneRun'
  BY <1>1 DEF BreakerInv, BreakerTypeOK, Reserve, WindowPassed, Goes, OneRun, Live, wiring,
       face, record, control
<1>3. \A s \in Runs : RunInv(s)'
  <2> TAKE s \in Runs
  <2>1. CASE s = r
    BY <2>1, <1>1 DEF BreakerInv, BreakerTypeOK, Reserve, WindowPassed, Goes, RunInv, Live,
         Previewed, wiring, face, record, control
  <2>2. CASE s # r
    BY <2>2, Untouched DEF BreakerInv, BreakerTypeOK, OneRun, Live, Reserve, WindowPassed,
         Goes, RunInv, wiring, face, record, control
  <2> QED BY <2>1, <2>2
<1>4. OnlyGatedEffects'
  BY <1>1 DEF BreakerInv, BreakerTypeOK, Reserve, WindowPassed, Goes, OnlyGatedEffects,
       RunInv, wiring, face, record, control
<1> QED BY <1>1, <1>2, <1>3, <1>4 DEF BreakerInv

(* A refused reserve ends the run.                                         *)
LEMMA CeilingInv ==
    ASSUME BreakerInv, NEW r \in Runs, CeilingExceeded(r)
    PROVE  BreakerInv'
<1>1. BreakerTypeOK'
  BY DEF BreakerInv, BreakerTypeOK, CeilingExceeded, WindowPassed, Goes, Ends, Audited, Pc,
       Outcome, Outcomes, wiring, face, record, control
<1>2. OneRun'
  BY <1>1 DEF BreakerInv, BreakerTypeOK, CeilingExceeded, WindowPassed, Goes, Ends, Audited,
       OneRun, Live, wiring, face, record, control
<1>3. \A s \in Runs : RunInv(s)'
  <2> TAKE s \in Runs
  <2>1. CASE s = r
    BY <2>1, <1>1 DEF BreakerInv, BreakerTypeOK, CeilingExceeded, WindowPassed, Goes, Ends,
         Audited, RunInv, Live, Previewed, wiring, face, record, control
  <2>2. CASE s # r
    BY <2>2, Untouched DEF BreakerInv, BreakerTypeOK, OneRun, Live, CeilingExceeded,
         WindowPassed, Goes, Ends, Audited, RunInv, wiring, face, record, control
  <2> QED BY <2>1, <2>2
<1>4. OnlyGatedEffects'
  BY <1>1 DEF BreakerInv, BreakerTypeOK, CeilingExceeded, WindowPassed, Goes, Ends, Audited,
       OnlyGatedEffects, RunInv, wiring, face, record, control
<1> QED BY <1>1, <1>2, <1>3, <1>4 DEF BreakerInv

(* Reading the world again changes nothing but the place of the run.        *)
LEMMA ReReadInv ==
    ASSUME BreakerInv, NEW r \in Runs, ReRead(r)
    PROVE  BreakerInv'
<1>1. BreakerTypeOK'
  BY DEF BreakerInv, BreakerTypeOK, ReRead, Goes, Pc, Outcome, Outcomes, wiring, face,
       record, control
<1>2. OneRun'
  BY <1>1 DEF BreakerInv, BreakerTypeOK, ReRead, Goes, OneRun, Live, wiring, face, record, control
<1>3. \A s \in Runs : RunInv(s)'
  <2> TAKE s \in Runs
  <2>1. CASE s = r
    BY <2>1, <1>1 DEF BreakerInv, BreakerTypeOK, ReRead, Goes, RunInv, Live, Previewed, wiring,
         face, record, control
  <2>2. CASE s # r
    BY <2>2, Untouched DEF BreakerInv, BreakerTypeOK, OneRun, Live, ReRead, Goes, RunInv, wiring,
         face, record, control
  <2> QED BY <2>1, <2>2
<1>4. OnlyGatedEffects'
  BY <1>1 DEF BreakerInv, BreakerTypeOK, ReRead, Goes, OnlyGatedEffects, RunInv, wiring, face,
       record, control
<1> QED BY <1>1, <1>2, <1>3, <1>4 DEF BreakerInv

(* A world change ends the run.                                            *)
LEMMA ToctouInv ==
    ASSUME BreakerInv, NEW r \in Runs, ToctouAbort(r)
    PROVE  BreakerInv'
<1>1. BreakerTypeOK'
  BY DEF BreakerInv, BreakerTypeOK, ToctouAbort, Goes, Ends, Audited, Pc, Outcome, Outcomes,
       wiring, face, record, control
<1>2. OneRun'
  BY <1>1 DEF BreakerInv, BreakerTypeOK, ToctouAbort, Goes, Ends, Audited, OneRun, Live,
       wiring, face, record, control
<1>3. \A s \in Runs : RunInv(s)'
  <2> TAKE s \in Runs
  <2>1. CASE s = r
    BY <2>1, <1>1 DEF BreakerInv, BreakerTypeOK, ToctouAbort, Goes, Ends, Audited, RunInv,
         Live, Previewed, wiring, face, record, control
  <2>2. CASE s # r
    BY <2>2, Untouched DEF BreakerInv, BreakerTypeOK, OneRun, Live, ToctouAbort, Goes, Ends,
         Audited, RunInv, wiring, face, record, control
  <2> QED BY <2>1, <2>2
<1>4. OnlyGatedEffects'
  BY <1>1 DEF BreakerInv, BreakerTypeOK, ToctouAbort, Goes, Ends, Audited, OnlyGatedEffects,
       RunInv, wiring, face, record, control
<1> QED BY <1>1, <1>2, <1>3, <1>4 DEF BreakerInv

(* The audit line is written before the executor is reached.               *)
LEMMA AuditInv ==
    ASSUME BreakerInv, NEW r \in Runs, AuditExecuted(r)
    PROVE  BreakerInv'
<1>1. BreakerTypeOK'
  BY DEF BreakerInv, BreakerTypeOK, AuditExecuted, Goes, Audited, Pc, Outcome, Outcomes,
       wiring, face, record, control
<1>2. OneRun'
  BY <1>1 DEF BreakerInv, BreakerTypeOK, AuditExecuted, Goes, Audited, OneRun, Live, wiring,
       face, record, control
<1>3. \A s \in Runs : RunInv(s)'
  <2> TAKE s \in Runs
  <2>1. CASE s = r
    BY <2>1, <1>1 DEF BreakerInv, BreakerTypeOK, AuditExecuted, Goes, Audited, RunInv, Live,
         Previewed, wiring, face, record, control
  <2>2. CASE s # r
    BY <2>2, Untouched DEF BreakerInv, BreakerTypeOK, OneRun, Live, AuditExecuted, Goes,
         Audited, RunInv, wiring, face, record, control
  <2> QED BY <2>1, <2>2
<1>4. OnlyGatedEffects'
  BY <1>1 DEF BreakerInv, BreakerTypeOK, AuditExecuted, Goes, Audited, OnlyGatedEffects,
       RunInv, wiring, face, record, control
<1> QED BY <1>1, <1>2, <1>3, <1>4 DEF BreakerInv

(* The executor is reached only by a gated call that was audited.          *)
LEMMA ExecuteInv ==
    ASSUME BreakerInv, NEW r \in Runs, Execute(r)
    PROVE  BreakerInv'
<1>1. BreakerTypeOK'
  BY DEF BreakerInv, BreakerTypeOK, Execute, Goes, Pc, Outcome, Outcomes, wiring, face,
       record, control
<1>2. OneRun'
  BY <1>1 DEF BreakerInv, BreakerTypeOK, Execute, Goes, OneRun, Live, wiring, face, record,
       control
<1>3. \A s \in Runs : RunInv(s)'
  <2> TAKE s \in Runs
  <2>1. CASE s = r
    BY <2>1, <1>1 DEF BreakerInv, BreakerTypeOK, Execute, Goes, RunInv, Live, Previewed,
         wiring, face, record, control
  <2>2. CASE s # r
    BY <2>2, Untouched DEF BreakerInv, BreakerTypeOK, OneRun, Live, Execute, Goes, RunInv,
         wiring, face, record, control
  <2> QED BY <2>1, <2>2
<1>4. OnlyGatedEffects'
  <2>1. RunInv(r) /\ pc[r] = "verified"
    BY DEF BreakerInv, Execute
  <2>2. call[r] = {CallOf(r)}
    BY <2>1, CallOfRun
  <2>3. /\ Authorize(CallOf(r)) = "gated" /\ CallOf(r).tool \in Registered
        /\ seen[r] # {} /\ <<r, "executed">> \in audit
    BY <2>1, <2>2 DEF RunInv, Live, Previewed
  <2>4. \A s \in effects' : s \in effects \/ s = r
    BY DEF Execute
  <2> QED
    BY <2>2, <2>3, <2>4, GatedIsRed DEF BreakerInv, OnlyGatedEffects, Execute, wiring
<1> QED BY <1>1, <1>2, <1>3, <1>4 DEF BreakerInv

(* The executor's result ends the run.                                     *)
LEMMA FinishInv ==
    ASSUME BreakerInv, NEW r \in Runs, Finish(r)
    PROVE  BreakerInv'
<1>1. BreakerTypeOK'
  BY DEF BreakerInv, BreakerTypeOK, Finish, Goes, Ends, Pc, Outcome, Outcomes, wiring, face,
       record, control
<1>2. OneRun'
  BY <1>1 DEF BreakerInv, BreakerTypeOK, Finish, Goes, Ends, OneRun, Live, wiring, face,
       record, control
<1>3. \A s \in Runs : RunInv(s)'
  <2> TAKE s \in Runs
  <2>1. CASE s = r
    BY <2>1, <1>1 DEF BreakerInv, BreakerTypeOK, Finish, Goes, Ends, RunInv, Live,
         Previewed, wiring, face, record, control
  <2>2. CASE s # r
    BY <2>2, Untouched DEF BreakerInv, BreakerTypeOK, OneRun, Live, Finish, Goes, Ends,
         RunInv, wiring, face, record, control
  <2> QED BY <2>1, <2>2
<1>4. OnlyGatedEffects'
  <2>1. UNCHANGED <<effects, call, seen, audit>>
    BY DEF Finish, Ends, record, wiring
  <2> QED BY <2>1 DEF BreakerInv, OnlyGatedEffects
<1> QED BY <1>1, <1>2, <1>3, <1>4 DEF BreakerInv

(* An arriving cancel raises the latch only for the run it names, or when  *)
(* no preview is active and hence no window open.                          *)
LEMMA DeliverInv ==
    ASSUME BreakerInv, NEW r \in Runs, DeliverCancel(r)
    PROVE  BreakerInv'
<1>1. BreakerTypeOK'
  BY DEF BreakerInv, BreakerTypeOK, DeliverCancel, Honoured, Pc, Outcome, Outcomes, wiring,
       face, record, control
<1>2. OneRun'
  BY <1>1 DEF BreakerInv, BreakerTypeOK, DeliverCancel, Honoured, OneRun, Live, wiring,
       face, record, control
<1>3. \A s \in Runs : RunInv(s)'
  <2> TAKE s \in Runs
  <2>1. CASE s = r
    BY <2>1, <1>1, CallOfRun, GatedIsRed, NoRunFresh DEF BreakerInv, BreakerTypeOK,
         DeliverCancel, Honoured, RunInv, Live, Previewed, wiring, face, record, control
  <2>2. CASE s # r
    <3>1. pc[s] = "window" => ~Honoured(r)
      BY <2>2, NoRunFresh DEF BreakerInv, RunInv, Honoured
    <3> QED
      BY <2>2, <3>1, Untouched DEF BreakerInv, BreakerTypeOK, DeliverCancel, RunInv, control
  <2> QED BY <2>1, <2>2
<1>4. OnlyGatedEffects'
  BY <1>1 DEF BreakerInv, BreakerTypeOK, DeliverCancel, Honoured, OnlyGatedEffects, RunInv,
       wiring, face, record, control
<1> QED BY <1>1, <1>2, <1>3, <1>4 DEF BreakerInv

(* The Face, the sockets, the world and the calendar touch no run; a tap   *)
(* is recorded before its cancel can arrive.                               *)
LEMMA OutsideInv ==
    ASSUME BreakerInv,
           \/ TapCancel \/ CardElapsed \/ FaceConnects \/ FaceDisconnects
           \/ WorldChanges \/ DayPasses
    PROVE  BreakerInv'
<1>1. UNCHANGED <<control, wiring, record>> /\ tapped \subseteq tapped' /\ cancels' \subseteq cancels \cup tapped'
  BY DEF TapCancel, CardElapsed, FaceConnects, FaceDisconnects, WorldChanges, DayPasses,
       breakerVars, face
<1>2. BreakerTypeOK'
  BY DEF TapCancel, CardElapsed, FaceConnects, FaceDisconnects, WorldChanges, DayPasses,
       breakerVars, BreakerInv, BreakerTypeOK, control, wiring, record, face
<1>3. OneRun'
  BY <1>1 DEF BreakerInv, OneRun, Live, control
<1>4. \A s \in Runs : RunInv(s)'
  BY <1>1, Untouched DEF BreakerInv, RunInv, control, wiring, record
<1>5. OnlyGatedEffects'
  BY <1>1 DEF BreakerInv, OnlyGatedEffects, control, wiring, record
<1> QED BY <1>2, <1>3, <1>4, <1>5 DEF BreakerInv

(* A crash ends the run in flight and nothing else; the latch and the      *)
(* frames in flight die with the process.                                  *)
LEMMA DieInv ==
    ASSUME BreakerInv, NEW torn \in BOOLEAN, Die(torn)
    PROVE  BreakerInv'
<1>1. \A s \in Runs : /\ pc'[s] = IF Live(s) THEN "done" ELSE pc[s]
                      /\ outcome'[s] = IF Live(s) THEN "lost" ELSE outcome[s]
  BY DEF Die
<1>2. UNCHANGED <<call, seen, card, tapped, audit, vetoed, effects, world>> /\ cancels' = {}
  BY DEF Die, record
<1>3. BreakerTypeOK'
  <2>1. pc' \in [Runs -> Pc] /\ outcome' \in [Runs -> Outcome]
    BY DEF Die, BreakerInv, BreakerTypeOK, Pc, Outcome
  <2>2. left' \in 0 .. Window
    BY WindowNat DEF Die
  <2> QED BY <1>2, <2>1, <2>2 DEF Die, BreakerInv, BreakerTypeOK
<1>4. OneRun'
  BY <1>1 DEF OneRun, Live
<1>5. \A s \in Runs : RunInv(s)'
  <2> TAKE s \in Runs
  <2>1. CASE Live(s)
    BY <2>1, <1>1, <1>2 DEF BreakerInv, RunInv, Live, Previewed
  <2>2. CASE ~Live(s)
    BY <2>2, <1>1, <1>2 DEF BreakerInv, RunInv, Live, Previewed
  <2> QED BY <2>1, <2>2
<1>6. OnlyGatedEffects'
  BY <1>2 DEF BreakerInv, OnlyGatedEffects
<1> QED BY <1>3, <1>4, <1>5, <1>6 DEF BreakerInv

(* A stuttering step keeps everything.                                     *)
LEMMA StutterInv ==
    ASSUME BreakerInv, UNCHANGED vars
    PROVE  BreakerInv'
<1>1. UNCHANGED <<control, wiring, face, record, world>>
  BY DEF vars, breakerVars
<1>2. BreakerTypeOK' /\ OneRun' /\ OnlyGatedEffects'
  BY <1>1 DEF BreakerInv, BreakerTypeOK, OneRun, Live, OnlyGatedEffects, control, wiring,
       face, record
<1>3. \A s \in Runs : RunInv(s)'
  BY <1>1, Untouched DEF BreakerInv, RunInv, control, wiring, face, record
<1> QED BY <1>2, <1>3 DEF BreakerInv

(* Every step of the system keeps the invariant.                           *)
LEMMA BreakerStepInv == BreakerInv /\ [Next]_vars => BreakerInv'
<1> SUFFICES ASSUME BreakerInv, [Next]_vars PROVE BreakerInv'
  OBVIOUS
<1>1. ASSUME NEW r \in Runs, NEW c \in Calls, Dispatch(r, c) PROVE BreakerInv'
  BY <1>1, DispatchInv
<1>2. ASSUME NEW r \in Runs, DispatchStep(r) PROVE BreakerInv'
  BY <1>2, DenyInv, AllowInv, OpenWindowInv, CancelledInv, SleepInv, ReserveInv, CeilingInv,
       ReReadInv, ToctouInv, AuditInv, ExecuteInv DEF DispatchStep, BreakerStep
<1>3. ASSUME NEW r \in Runs, Finish(r) \/ DeliverCancel(r) PROVE BreakerInv'
  BY <1>3, FinishInv, DeliverInv
<1>4. ASSUME Environment PROVE BreakerInv'
  BY <1>4, OutsideInv, DieInv DEF Environment
<1>5. CASE UNCHANGED vars
  BY <1>5, StutterInv
<1> QED BY <1>1, <1>2, <1>3, <1>4, <1>5 DEF Next

(* The latch, the active id and the run whose window is open agree in      *)
(* every reachable state (registry.ts:47-81, breaker.ts:166-210).          *)
THEOREM BreakerInvariant == Spec => []BreakerInv
  BY InitInv, BreakerStepInv, PTL DEF Spec

(* A veto received while the window is open is never overridden.           *)
THEOREM VetoAlwaysHolds == Spec => []VetoHolds
<1>1. BreakerInv => VetoHolds
  BY DEF BreakerInv, BreakerTypeOK, RunInv, VetoHolds
<1> QED BY <1>1, BreakerInvariant, PTL

(* Only a tap on a run's own card cancels it.                              *)
THEOREM CancelsAreTheOwners == Spec => []CancelIsTheOwners
<1>1. BreakerInv => CancelIsTheOwners
  BY DEF BreakerInv, RunInv, CancelIsTheOwners
<1> QED BY <1>1, BreakerInvariant, PTL

(* No executor is reached around the gate, the preview or the audit log.   *)
THEOREM EffectsAreGated == Spec => []OnlyGatedEffects
<1>1. BreakerInv => OnlyGatedEffects
  BY DEF BreakerInv
<1> QED BY <1>1, BreakerInvariant, PTL

-----------------------------------------------------------------------------
(* The breaker uses its ledger as SpendLedger allows.                      *)

(* What a run reserves is one of the amounts the ledger is specified for.  *)
LEMMA SpendIsAmount ==
    ASSUME BreakerInv, NEW r \in Runs, pc[r] # "idle"
    PROVE  Spend(r) \in Amounts
  BY CallOfRun, AmountsOK DEF BreakerInv, Spend

(* Each step of the breaker is a step of the ledger or leaves it alone.    *)
LEMMA LedgerSimulation == BreakerInv /\ [Next]_vars => [LedgerNext]_ledgerVars
<1> SUFFICES ASSUME BreakerInv, Next, ~UNCHANGED ledgerVars PROVE LedgerNext
  BY DEF vars
<1>1. ASSUME NEW r \in Runs, DispatchStep(r) PROVE LedgerNext
  <2>1. CASE Open(r) \/ Drop(r) \/ Release(r) \/ Keep(r)
    BY <2>1 DEF LedgerNext, Runs
  <2>2. CASE pc[r] = "window" /\ (Grant(r, Spend(r)) \/ Refuse(r, Spend(r)))
    BY <2>2, SpendIsAmount DEF LedgerNext, Runs
  <2> QED
    BY <1>1, <2>1, <2>2 DEF DispatchStep, BreakerStep, Deny, Allow, OpenWindow, BuildDeps,
         EmitPreview, PollCancelled, FinalCancelled, Cancelled, Sleep, Reserve,
         WindowPassed, CeilingExceeded, ReRead, ToctouAbort, AuditExecuted, Execute
<1>2. ASSUME Environment PROVE LedgerNext
  BY <1>2 DEF Environment, TapCancel, CardElapsed, FaceConnects, FaceDisconnects,
       WorldChanges, DayPasses, Die, LedgerNext
<1>3. ASSUME NEW r \in Runs, (\E c \in Calls : Dispatch(r, c)) \/ Finish(r) \/ DeliverCancel(r)
      PROVE  FALSE
  BY <1>3 DEF Dispatch, Finish, DeliverCancel
<1> QED BY <1>1, <1>2, <1>3 DEF Next

(* The composed system implements the ledger specification, so whatever is *)
(* proved of SpendLedger holds of it.                                      *)
THEOREM ImplementsLedger == Spec => LedgerSpec
<1>1. Init => LedgerInit
  BY DEF Init
<1> QED BY <1>1, BreakerInvariant, LedgerSimulation, PTL DEF Spec, LedgerSpec

(* Hard rule iii of the whole breaker: no grant crosses the ceiling, when  *)
(* no crash lands inside a ledger write.                                   *)
THEOREM BreakerCeiling ==
    ASSUME TornWrites = FALSE
    PROVE  Spec => GrantsWithinCeiling
  BY ImplementsLedger, LedgerCeiling

(* Every variable keeps its type.                                          *)
THEOREM BreakerTypes ==
    ASSUME TornWrites = FALSE
    PROVE  Spec => []TypeOK
<1>1. BreakerInv /\ LedgerInv => TypeOK
  BY DEF BreakerInv, LedgerInv, TypeOK
<1>2. Spec => []LedgerInv
  BY ImplementsLedger, LedgerInvariant
<1> QED BY <1>1, <1>2, BreakerInvariant, PTL

-----------------------------------------------------------------------------
(* The breaker implements the abstract promise of RedAction.               *)

(* The phase of a run depends on its own place, call and effect only.      *)
LEMMA SamePhase ==
    ASSUME NEW s \in Runs, pc'[s] = pc[s], call'[s] = call[s], outcome'[s] = outcome[s],
           s \in effects' <=> s \in effects
    PROVE  PhaseOf(s)' = PhaseOf(s)
  BY DEF PhaseOf, RedRun

(* A step that moves one run's phase is Becomes of the abstract module.    *)
LEMMA OneMoves ==
    ASSUME NEW r \in Runs, \A s \in Runs \ {r} : PhaseOf(s)' = PhaseOf(s),
           NEW p, PhaseOf(r)' = p
    PROVE  Phases' = [Phases EXCEPT ![r] = p]
  BY DEF Phases

(* A step that moves none leaves the abstract phases alone.                *)
LEMMA NoneMoves ==
    ASSUME \A s \in Runs : PhaseOf(s)' = PhaseOf(s)
    PROVE  Phases' = Phases
  BY DEF Phases

(* What the phase of a run is at each place it can be.                     *)
LEMMA PhaseAt ==
    ASSUME BreakerInv, NEW r \in Runs
    PROVE  /\ pc[r] = "idle" => PhaseOf(r) = "new" /\ ~RedRun(r)
           /\ pc[r] = "surfacing" => PhaseOf(r) = "new"
           /\ pc[r] \in Previewed => PhaseOf(r) = "announced" /\ RedRun(r) /\ r \notin effects
           /\ PhaseOf(r) = "announced" => pc[r] \in Previewed
           /\ Phases[r] = PhaseOf(r)
<1>1. RunInv(r) /\ Phases[r] = PhaseOf(r)
  BY DEF BreakerInv, Phases
<1>2. pc[r] \in Previewed => RedRun(r)
  BY <1>1, GatedIsRed DEF RunInv, RedRun, Previewed
<1>3. pc[r] = "idle" => ~RedRun(r)
  BY <1>1 DEF RunInv, RedRun
<1> QED BY <1>1, <1>2, <1>3 DEF RunInv, PhaseOf, Previewed

(* Taking and judging a call: it stays new, or is refused unannounced.     *)
LEMMA JudgePhase ==
    ASSUME BreakerInv, NEW r \in Runs,
           (\E c \in Calls : Dispatch(r, c)) \/ Deny(r) \/ Allow(r)
    PROVE  [Red!AbsNext]_Red!absVars
<1>1. pc[r] \in {"idle", "surfacing"} /\ r \notin effects /\ outcome[r] = "none"
  BY DEF BreakerInv, RunInv, Dispatch, Deny, Allow
<1>2. PhaseOf(r) = "new" /\ Phases[r] = "new"
  BY <1>1, PhaseAt
<1>3. \A s \in Runs \ {r} : PhaseOf(s)' = PhaseOf(s)
  BY SamePhase DEF BreakerInv, BreakerTypeOK, Dispatch, Deny, Allow, Goes, Ends, record
<1>4. UNCHANGED vetoed
  BY DEF Dispatch, Deny, Allow, record
<1>5. PhaseOf(r)' \in {"new", "refused"}
  <2>1. CASE \E c \in Calls : Dispatch(r, c)
    BY <2>1, <1>1 DEF BreakerInv, BreakerTypeOK, Dispatch, LoopIdle, Goes, Ends, record,
         PhaseOf, Previewed
  <2>2. CASE Deny(r)
    BY <2>2, <1>1 DEF BreakerInv, BreakerTypeOK, Deny, Goes, Ends, record, PhaseOf, Previewed
  <2>3. CASE Allow(r)
    <3>1. ~RedRun(r)
      BY <2>3, <1>1, CallOfRun, AllowedIsNotRed DEF BreakerInv, Allow, RedRun
    <3> QED BY <2>3, <3>1 DEF Allow, PhaseOf, RedRun
  <2> QED BY <2>1, <2>2, <2>3
<1>6. CASE PhaseOf(r)' = "new"
  BY <1>6, <1>2, <1>3, <1>4, NoneMoves DEF Red!absVars
<1>7. CASE PhaseOf(r)' = "refused"
  BY <1>7, <1>2, <1>3, <1>4, OneMoves DEF Red!AbsNext, Red!Deny, Red!Becomes
<1> QED BY <1>5, <1>6, <1>7

(* Opening a window announces the call, while no other is announced.       *)
LEMMA AnnouncePhase ==
    ASSUME BreakerInv, BreakerInv', NEW r \in Runs, OpenWindow(r)
    PROVE  Red!AbsNext
<1>1. pc[r] = "surfacing" /\ pc'[r] = "window"
  BY DEF BreakerInv, BreakerTypeOK, OpenWindow, BuildDeps, EmitPreview, Goes
<1>2. Phases[r] = "new" /\ RunInv(r)
  BY <1>1, PhaseAt DEF BreakerInv
<1>3. call[r] = {CallOf(r)} /\ IsRed(CallOf(r)) /\ r \notin effects /\ outcome[r] = "none"
  BY <1>1, <1>2, CallOfRun, GatedIsRed DEF OpenWindow, BuildDeps, EmitPreview, RunInv
<1>4. PhaseOf(r)' = "announced"
  BY <1>1, <1>3 DEF OpenWindow, BuildDeps, EmitPreview, record, PhaseOf, RedRun, Previewed
<1>5. \A b \in Runs : Phases[b] # "announced"
  BY <1>1, PhaseAt DEF BreakerInv, OneRun, Live, Previewed
<1>6. \A s \in Runs \ {r} : PhaseOf(s)' = PhaseOf(s)
  BY SamePhase DEF BreakerInv, BreakerTypeOK, OpenWindow, BuildDeps, EmitPreview, Goes, record
<1> QED
  BY <1>2, <1>4, <1>5, <1>6, OneMoves DEF OpenWindow, BuildDeps, EmitPreview, record,
       Red!AbsNext, Red!Announce, Red!Becomes

(* Inside the breaker a call stays announced.                              *)
LEMMA WaitPhase ==
    ASSUME BreakerInv, NEW r \in Runs, Sleep(r) \/ Reserve(r) \/ ReRead(r) \/ AuditExecuted(r)
    PROVE  UNCHANGED Red!absVars
<1>1. pc[r] \in Previewed /\ pc'[r] \in Previewed /\ UNCHANGED <<call, outcome, effects, vetoed>>
  BY DEF BreakerInv, BreakerTypeOK, Sleep, Reserve, WindowPassed, ReRead, AuditExecuted,
       Goes, Previewed, control, record
<1>2. PhaseOf(r)' = PhaseOf(r)
  BY <1>1 DEF PhaseOf, RedRun, Previewed
<1>3. \A s \in Runs \ {r} : PhaseOf(s)' = PhaseOf(s)
  BY <1>1, SamePhase DEF BreakerInv, BreakerTypeOK, Sleep, Reserve, WindowPassed,
       ReRead, AuditExecuted, Goes, control
<1> QED BY <1>1, <1>2, <1>3, NoneMoves DEF Red!absVars

(* The ways out of the breaker that run nothing.                           *)
LEMMA RefusePhase ==
    ASSUME BreakerInv, NEW r \in Runs,
           PollCancelled(r) \/ FinalCancelled(r) \/ CeilingExceeded(r) \/ ToctouAbort(r)
    PROVE  Red!AbsNext
<1>1. /\ pc[r] \in Previewed /\ pc'[r] = "done" /\ outcome'[r] # "lost"
      /\ UNCHANGED <<call, effects, vetoed>>
  BY DEF BreakerInv, BreakerTypeOK, PollCancelled, FinalCancelled, Cancelled,
       CeilingExceeded, WindowPassed, ToctouAbort, Goes, Ends, Previewed
<1>2. Phases[r] = "announced" /\ RedRun(r) /\ r \notin effects
  BY <1>1, PhaseAt
<1>3. PhaseOf(r)' = "refused"
  BY <1>1, <1>2 DEF PhaseOf, RedRun
<1>4. \A s \in Runs \ {r} : PhaseOf(s)' = PhaseOf(s)
  BY <1>1, SamePhase DEF BreakerInv, BreakerTypeOK, PollCancelled, FinalCancelled,
       Cancelled, CeilingExceeded, WindowPassed, ToctouAbort, Goes, Ends
<1> QED
  BY <1>1, <1>2, <1>3, <1>4, OneMoves DEF Red!AbsNext, Red!Settle, Red!Becomes

(* Starting the executor: only a call that no veto stands against.         *)
LEMMA RunPhase ==
    ASSUME BreakerInv, NEW r \in Runs, Execute(r)
    PROVE  Red!AbsNext
<1>1. pc[r] = "verified" /\ r \in effects' /\ UNCHANGED <<call, vetoed>>
  BY DEF Execute
<1>2. Phases[r] = "announced" /\ RedRun(r)
  BY <1>1, PhaseAt DEF Previewed
<1>3. r \notin vetoed
  BY <1>1 DEF BreakerInv, RunInv
<1>4. PhaseOf(r)' = "ran"
  BY <1>1, <1>2 DEF PhaseOf, RedRun
<1>5. \A s \in Runs \ {r} : PhaseOf(s)' = PhaseOf(s)
  BY SamePhase DEF BreakerInv, BreakerTypeOK, Execute, Goes
<1> QED
  BY <1>1, <1>2, <1>3, <1>4, <1>5, OneMoves DEF Red!AbsNext, Red!Settle, Red!Becomes

(* A run whose executor was started stays in its phase when it returns.    *)
LEMMA FinishPhase ==
    ASSUME BreakerInv, NEW r \in Runs, Finish(r)
    PROVE  UNCHANGED Red!absVars
<1>1. r \in effects /\ UNCHANGED <<call, effects, vetoed>>
  BY DEF BreakerInv, RunInv, Finish, record
<1>2. \A s \in Runs : PhaseOf(s)' = PhaseOf(s)
  <2> TAKE s \in Runs
  <2>1. CASE s = r
    BY <2>1, <1>1 DEF PhaseOf, RedRun
  <2>2. CASE s # r
    BY <2>2, <1>1, SamePhase DEF BreakerInv, BreakerTypeOK, Finish, Ends, Goes
  <2> QED BY <2>1, <2>2
<1> QED BY <1>1, <1>2, NoneMoves DEF Red!absVars

(* An arriving cancel is a veto while the window is open, nothing after.   *)
LEMMA VetoPhase ==
    ASSUME BreakerInv, NEW r \in Runs, DeliverCancel(r)
    PROVE  [Red!AbsNext]_Red!absVars
<1>1. Phases' = Phases
  BY SamePhase, NoneMoves DEF DeliverCancel, control
<1>2. CASE pc[r] = "window"
  BY <1>1, <1>2, PhaseAt DEF DeliverCancel, Previewed, Red!AbsNext, Red!Veto
<1>3. CASE pc[r] # "window"
  BY <1>1, <1>3 DEF DeliverCancel, Red!absVars
<1> QED BY <1>2, <1>3

(* A crash loses the call in flight, if it is Red and was not started.     *)
LEMMA LosePhase ==
    ASSUME BreakerInv, NEW torn \in BOOLEAN, Die(torn)
    PROVE  [Red!AbsNext]_Red!absVars
<1>1. \A s \in Runs : /\ pc'[s] = IF Live(s) THEN "done" ELSE pc[s]
                      /\ outcome'[s] = IF Live(s) THEN "lost" ELSE outcome[s]
  BY DEF Die
<1>2. UNCHANGED <<call, effects, vetoed>>
  BY DEF Die, record
<1>3. \A s \in Runs : ~Live(s) => PhaseOf(s)' = PhaseOf(s)
  BY <1>1, <1>2, SamePhase
<1>4. CASE \A s \in Runs : ~Live(s)
  BY <1>2, <1>3, <1>4, NoneMoves DEF Red!absVars
<1>5. ASSUME NEW r \in Runs, Live(r) PROVE [Red!AbsNext]_Red!absVars
  <2>1. \A s \in Runs \ {r} : PhaseOf(s)' = PhaseOf(s)
    BY <1>3, <1>5 DEF BreakerInv, OneRun
  <2>2. CASE ~RedRun(r) \/ r \in effects
    <3>1. PhaseOf(r)' = PhaseOf(r)
      BY <1>2, <2>2 DEF PhaseOf, RedRun
    <3> QED BY <1>2, <2>1, <3>1, NoneMoves DEF Red!absVars
  <2>3. CASE RedRun(r) /\ r \notin effects
    <3>1. PhaseOf(r)' = "lost"
      BY <1>1, <1>2, <1>5, <2>3 DEF PhaseOf, RedRun
    <3>2. pc[r] \in {"surfacing"} \cup Previewed
      BY <1>5, <2>3 DEF BreakerInv, BreakerTypeOK, Pc, RunInv, Live, Previewed
    <3>3. Phases[r] \in {"new", "announced"}
      BY <3>2, PhaseAt
    <3> QED BY <1>2, <2>1, <3>1, <3>3, OneMoves DEF Red!AbsNext, Red!Lose, Red!Becomes
  <2> QED BY <2>2, <2>3
<1> QED BY <1>4, <1>5

(* Every step maps to a step of RedAction or to a stutter.                 *)
LEMMA RedSimulation ==
    BreakerInv /\ BreakerInv' /\ [Next]_vars => [Red!AbsNext]_Red!absVars
<1> SUFFICES ASSUME BreakerInv, BreakerInv', [Next]_vars PROVE [Red!AbsNext]_Red!absVars
  OBVIOUS
<1>1. ASSUME NEW r \in Runs, (\E c \in Calls : Dispatch(r, c)) \/ DispatchStep(r)
      PROVE  [Red!AbsNext]_Red!absVars
  BY <1>1, JudgePhase, AnnouncePhase, WaitPhase, RefusePhase, RunPhase DEF DispatchStep,
       BreakerStep
<1>2. ASSUME NEW r \in Runs, Finish(r) \/ DeliverCancel(r) PROVE [Red!AbsNext]_Red!absVars
  BY <1>2, FinishPhase, VetoPhase
<1>3. CASE \/ TapCancel \/ CardElapsed \/ FaceConnects \/ FaceDisconnects
           \/ WorldChanges \/ DayPasses \/ UNCHANGED vars
  <2>1. UNCHANGED <<control, record>>
    BY <1>3 DEF TapCancel, CardElapsed, FaceConnects, FaceDisconnects, WorldChanges,
         DayPasses, breakerVars, vars
  <2> QED BY <2>1, SamePhase, NoneMoves DEF control, record, Red!absVars
<1>4. ASSUME NEW torn \in BOOLEAN, Die(torn) PROVE [Red!AbsNext]_Red!absVars
  BY <1>4, LosePhase
<1> QED BY <1>1, <1>2, <1>3, <1>4 DEF Next, Environment

(* Gate, registry and breaker together keep the promise of RedAction: no   *)
(* Red call runs unannounced or vetoed, one is announced at a time, and a  *)
(* crash loses only what had not started.                                  *)
THEOREM ImplementsRedAction == Spec => RedSafety
<1>1. Init => Red!AbsInit
  BY DEF Init, Phases, PhaseOf, RedRun, Red!AbsInit
<1> QED
  BY <1>1, BreakerInvariant, RedSimulation, PTL DEF Spec, RedSafety, Red!AbsSafety

-----------------------------------------------------------------------------
(* The audit log.                                                          *)

(* What the log can say of a run at each place it can be.  Runs that have  *)
(* not got to a verdict are not in it.                                     *)
RunAudit(r) ==
    \A o \in Outcomes : <<r, o>> \in audit =>
        /\ \A p \in Outcomes : <<r, p>> \in audit => p = o
        /\ o = "executed" => /\ pc[r] \in {"verified", "executing", "done"}
                             /\ outcome[r] \in {"none", "ok", "failed", "lost"}
        /\ o # "executed" => pc[r] = "done" /\ outcome[r] = o /\ r \notin effects

AuditTrue == \A r \in Runs : RunAudit(r)

(* A run that the step leaves alone keeps what is known of it.             *)
LEMMA AuditUntouched ==
    ASSUME NEW s \in Runs, RunAudit(s), pc'[s] = pc[s], outcome'[s] = outcome[s],
           s \in effects' <=> s \in effects,
           \A o \in Outcomes : <<s, o>> \in audit' <=> <<s, o>> \in audit
    PROVE  RunAudit(s)'
  BY DEF RunAudit

(* A run that is not in the log yet, and gets one line or none.            *)
LEMMA FirstLine ==
    ASSUME NEW r \in Runs, RunAudit(r), pc[r] \notin {"verified", "executing", "done"},
           NEW o \in Outcomes,
           audit' = audit \/ Audited(r, o),
           audit' # audit => IF o = "executed" THEN pc'[r] = "verified" /\ outcome'[r] = "none"
                             ELSE pc'[r] = "done" /\ outcome'[r] = o /\ r \notin effects'
    PROVE  RunAudit(r)'
  BY DEF RunAudit, Audited

(* Steps of a run up to its verdict.                                       *)
LEMMA VerdictAudit ==
    ASSUME BreakerInv, AuditTrue, NEW r \in Runs,
           \/ \E c \in Calls : Dispatch(r, c)
           \/ Deny(r) \/ Allow(r) \/ OpenWindow(r) \/ Sleep(r) \/ Reserve(r) \/ ReRead(r)
    PROVE  AuditTrue'
<1> USE DEF Goes, Ends, record, control, wiring
<1>1. pc[r] \in {"idle", "surfacing", "window", "verify"} /\ audit' = audit
  BY DEF Dispatch, Deny, Allow, OpenWindow, Sleep, Reserve, WindowPassed, ReRead
<1>2. RunAudit(r)'
  BY <1>1, FirstLine DEF AuditTrue, Outcomes
<1>3. ASSUME NEW s \in Runs, s # r PROVE RunAudit(s)'
  <2>1. pc'[s] = pc[s] /\ outcome'[s] = outcome[s] /\ (s \in effects' <=> s \in effects)
    BY <1>3 DEF Dispatch, Deny, Allow, OpenWindow, Sleep, Reserve, ReRead, BreakerInv,
         BreakerTypeOK
  <2> QED BY <1>1, <2>1, AuditUntouched DEF AuditTrue
<1> QED BY <1>2, <1>3 DEF AuditTrue

(* The steps that write a line, each its own.                              *)
LEMMA LineAudit ==
    ASSUME BreakerInv, AuditTrue, NEW r \in Runs,
           \/ PollCancelled(r) \/ FinalCancelled(r) \/ CeilingExceeded(r)
           \/ ToctouAbort(r) \/ AuditExecuted(r)
    PROVE  AuditTrue'
<1> USE DEF Goes, Ends, record, control, wiring
<1>1. pc[r] \in {"window", "compare"} /\ r \notin effects /\ outcome[r] = "none"
      /\ effects' = effects
  BY DEF PollCancelled, FinalCancelled, Cancelled, CeilingExceeded, WindowPassed, ToctouAbort,
         AuditExecuted, BreakerInv, RunInv, Previewed
<1>2. PICK o \in Outcomes :
        /\ Audited(r, o)
        /\ IF o = "executed" THEN Goes(r, "verified") /\ UNCHANGED outcome ELSE Ends(r, o)
  BY DEF PollCancelled, FinalCancelled, Cancelled, CeilingExceeded, ToctouAbort,
         AuditExecuted, Outcomes
<1>3. IF o = "executed" THEN pc'[r] = "verified" /\ outcome'[r] = "none"
      ELSE pc'[r] = "done" /\ outcome'[r] = o
  BY <1>1, <1>2 DEF BreakerInv, BreakerTypeOK
<1>4. RunAudit(r)'
  BY <1>1, <1>2, <1>3, FirstLine DEF AuditTrue
<1>5. ASSUME NEW s \in Runs, s # r PROVE RunAudit(s)'
  <2>1. pc'[s] = pc[s] /\ outcome'[s] = outcome[s]
    BY <1>2, <1>5 DEF BreakerInv, BreakerTypeOK
  <2>2. \A p \in Outcomes : <<s, p>> \in audit' <=> <<s, p>> \in audit
    BY <1>2, <1>5 DEF Audited
  <2> QED BY <1>1, <2>1, <2>2, AuditUntouched DEF AuditTrue
<1> QED BY <1>4, <1>5 DEF AuditTrue

(* The executor runs, returns, or dies with the process.                   *)
LEMMA ExecutorAudit ==
    ASSUME BreakerInv, AuditTrue, NEW r \in Runs, Execute(r) \/ Finish(r)
    PROVE  AuditTrue'
<1> USE DEF Goes, Ends, record, control, wiring
<1>1. audit' = audit /\ pc[r] \in {"verified", "executing"}
      /\ pc'[r] \in {"executing", "done"} /\ outcome'[r] \in {"none", "ok", "failed"}
  BY DEF Execute, Finish, BreakerInv, BreakerTypeOK, RunInv
<1>2. RunAudit(r)'
  BY <1>1 DEF AuditTrue, RunAudit
<1>3. ASSUME NEW s \in Runs, s # r PROVE RunAudit(s)'
  <2>1. pc'[s] = pc[s] /\ outcome'[s] = outcome[s] /\ (s \in effects' <=> s \in effects)
    BY <1>3 DEF Execute, Finish, BreakerInv, BreakerTypeOK
  <2> QED BY <1>1, <2>1, AuditUntouched DEF AuditTrue
<1> QED BY <1>2, <1>3 DEF AuditTrue

LEMMA DeathAudit ==
    ASSUME AuditTrue, NEW torn \in BOOLEAN, Die(torn)
    PROVE  AuditTrue'
<1> SUFFICES ASSUME NEW s \in Runs PROVE RunAudit(s)'
  BY DEF AuditTrue
<1>1. audit' = audit /\ effects' = effects
  BY DEF Die, record
<1>2. pc'[s] = IF Live(s) THEN "done" ELSE pc[s]
  BY DEF Die
<1>3. outcome'[s] = IF Live(s) THEN "lost" ELSE outcome[s]
  BY DEF Die
<1>4. CASE Live(s)
  BY <1>1, <1>2, <1>3, <1>4 DEF AuditTrue, RunAudit, Live
<1>5. CASE ~Live(s)
  BY <1>1, <1>2, <1>3, <1>5, AuditUntouched DEF AuditTrue
<1> QED BY <1>4, <1>5

LEMMA AuditStep == BreakerInv /\ AuditTrue /\ [Next]_vars => AuditTrue'
<1> SUFFICES ASSUME BreakerInv, AuditTrue, [Next]_vars PROVE AuditTrue'
  OBVIOUS
<1>1. ASSUME UNCHANGED <<pc, outcome, effects, audit>> PROVE AuditTrue'
  BY <1>1 DEF AuditTrue, RunAudit
<1>2. ASSUME NEW r \in Runs, (\E c \in Calls : Dispatch(r, c)) \/ DispatchStep(r) \/ Finish(r)
      PROVE  AuditTrue'
  BY <1>2, VerdictAudit, LineAudit, ExecutorAudit DEF DispatchStep, BreakerStep
<1>3. ASSUME NEW r \in Runs, DeliverCancel(r) PROVE AuditTrue'
  BY <1>1, <1>3 DEF DeliverCancel, control
<1>4. ASSUME Environment PROVE AuditTrue'
  BY <1>1, <1>4, DeathAudit DEF Environment, TapCancel, CardElapsed, FaceConnects,
       FaceDisconnects, WorldChanges, DayPasses, breakerVars, control, record
<1>5. CASE UNCHANGED vars
  BY <1>1, <1>5 DEF vars, breakerVars, control, record
<1> QED BY <1>2, <1>3, <1>4, <1>5 DEF Next

(* Every run has at most one line in the audit log, written in agreement   *)
(* with what dispatch returns of it, through crashes at any point          *)
(* (breaker.ts:181-209).                                                   *)
THEOREM AuditTellsTheTruth == Spec => []AuditMatchesOutcome
<1>1. Init => AuditTrue
  BY DEF Init, AuditTrue, RunAudit
<1>2. AuditTrue => AuditMatchesOutcome
  BY DEF AuditTrue, RunAudit, AuditMatchesOutcome
<1> QED BY <1>1, <1>2, AuditStep, BreakerInvariant, PTL DEF Spec

-----------------------------------------------------------------------------
(* The money.                                                              *)

(* What was spent on a day is the sum of what its executed calls cost, and *)
(* a reserve is in the hands of the run between its grant and its verdict. *)
Accounted ==
    \A d \in Day : IsFiniteSet(ExecutedOn(d)) /\ spent[d] = SumFunction(Charges(d))

HeldForRun ==
    \A r \in Runs : stage[r] = "reserved" =>
        pc[r] \in {"verify", "compare"} /\ held[r] = Spend(r)

ChargeInv == Accounted /\ HeldForRun

(* A step that executes nothing and spends nothing keeps the account, if   *)
(* it does not touch what is known of the runs executed before.            *)
LEMMA NothingSpent ==
    ASSUME Accounted, spent' = spent,
           \A r \in Runs : <<r, "executed">> \in audit' <=> <<r, "executed">> \in audit,
           \A r \in Runs : <<r, "executed">> \in audit =>
               heldDay'[r] = heldDay[r] /\ call'[r] = call[r]
    PROVE  Accounted'
<1> SUFFICES ASSUME NEW d \in Day
             PROVE  IsFiniteSet(ExecutedOn(d)') /\ spent'[d] = SumFunction(Charges(d)')
  BY DEF Accounted
<1>1. ExecutedOn(d)' = ExecutedOn(d)
  BY DEF ExecutedOn
<1>2. \A r \in ExecutedOn(d) : Spend(r)' = Spend(r)
  BY DEF ExecutedOn, Spend, CallOf
<1>3. Charges(d)' = Charges(d)
  BY <1>1, <1>2 DEF Charges
<1> QED BY <1>1, <1>3 DEF Accounted

(* The executed line and the spent amount are written in one step.         *)
LEMMA ExecutedIsSpent ==
    ASSUME BreakerInv, AuditTrue, LedgerInv, ChargeInv, NEW r \in Runs, AuditExecuted(r)
    PROVE  ChargeInv'
<1>0. PICK day \in Day : day = heldDay[r]
  BY DEF LedgerInv, LedgerTypeOK, Runs
<1>1. /\ pc[r] = "compare" /\ stage[r] = "reserved" /\ held' = [held EXCEPT ![r] = 0]
      /\ stage' = [stage EXCEPT ![r] = "closed"]
      /\ spent' = [spent EXCEPT ![day] = @ + held[r]]
      /\ audit' = audit \cup {<<r, "executed">>} /\ pc' = [pc EXCEPT ![r] = "verified"]
      /\ UNCHANGED <<call, heldDay>>
  BY <1>0 DEF AuditExecuted, Keep, Goes, Audited
<1>2. <<r, "executed">> \notin audit
  BY <1>1 DEF AuditTrue, RunAudit, Outcomes
<1>3. /\ stage \in [Runs -> Stage] /\ pc \in [Runs -> Pc] /\ held \in [Runs -> Nat]
      /\ spent \in [Day -> Nat]
  BY DEF LedgerInv, LedgerTypeOK, BreakerInv, BreakerTypeOK, Runs
<1>4. \A s \in Runs : Spend(s)' = Spend(s)
  BY <1>1 DEF Spend, CallOf
<1>5. ASSUME NEW d \in Day, d # day
      PROVE  IsFiniteSet(ExecutedOn(d)') /\ spent'[d] = SumFunction(Charges(d)')
  <2>1. ExecutedOn(d)' = ExecutedOn(d)
    BY <1>0, <1>1, <1>5 DEF ExecutedOn
  <2>2. \A s \in ExecutedOn(d) : Spend(s)' = Spend(s)
    BY <1>4 DEF ExecutedOn
  <2>3. Charges(d)' = Charges(d)
    BY <2>1, <2>2 DEF Charges
  <2> QED BY <1>1, <1>3, <1>5, <2>1, <2>3 DEF ChargeInv, Accounted
<1>6. IsFiniteSet(ExecutedOn(day)') /\ spent'[day] = SumFunction(Charges(day)')
  <2> DEFINE old == ExecutedOn(day)
             f == Charges(day)
             g == Charges(day)'
  <2>1. ExecutedOn(day)' = old \cup {r} /\ r \notin old
    BY <1>0, <1>1, <1>2 DEF ExecutedOn
  <2>2. IsFiniteSet(old) /\ spent[day] = SumFunction(f)
    BY <1>3 DEF ChargeInv, Accounted
  <2>3. \A s \in old : Spend(s) \in Nat
    <3> SUFFICES ASSUME NEW s \in old PROVE Spend(s) \in Nat
      OBVIOUS
    <3>1. s \in Runs /\ pc[s] # "idle"
      BY DEF ExecutedOn, AuditTrue, RunAudit, Outcomes
    <3> QED BY <3>1, SpendIsAmount, AmountsNat
  <2>4. Spend(r) \in Nat /\ held[r] = Spend(r)
    BY <1>1, SpendIsAmount, AmountsNat DEF ChargeInv, HeldForRun
  <2>5. f = [s \in old |-> Spend(s)]
    BY DEF Charges
  <2>6. g = [s \in old \cup {r} |-> Spend(s)']
    BY <2>1 DEF Charges
  <2>7. \A s \in old \cup {r} : Spend(s)' = Spend(s)
    BY <1>4 DEF ExecutedOn
  <2> HIDE DEF old, f, g
  <2>8. /\ DOMAIN f = old /\ DOMAIN g = old \cup {r}
        /\ \A s \in old : f[s] \in Nat /\ g[s] = f[s]
        /\ g[r] = Spend(r)
    BY <2>3, <2>5, <2>6, <2>7
  <2>9. SumFunction(g) = SumFunction(f) + g[r]
    BY <2>1, <2>2, <2>4, <2>8, SumOfOneMore
  <2>10. IsFiniteSet(old \cup {r})
    BY <2>2, FS_AddElement
  <2>11. spent'[day] = spent[day] + held[r]
    BY <1>1, <1>3
  <2> QED BY <2>1, <2>2, <2>4, <2>8, <2>9, <2>10, <2>11 DEF g
<1>7. Accounted'
  BY <1>5, <1>6 DEF Accounted
<1>8. HeldForRun'
  BY <1>1, <1>3, <1>4 DEF ChargeInv, HeldForRun
<1> QED BY <1>7, <1>8 DEF ChargeInv

(* Steps of a run that take, give back or lose a reserve, or none.         *)
LEMMA RunCharges ==
    ASSUME BreakerInv, AuditTrue, LedgerInv, ChargeInv, NEW r \in Runs,
           \/ \E c \in Calls : Dispatch(r, c)
           \/ DispatchStep(r) /\ ~AuditExecuted(r)
           \/ Finish(r)
    PROVE  ChargeInv'
<1> USE DEF Goes, Ends, record, control, wiring
<1>1. /\ stage \in [Runs -> Stage] /\ pc \in [Runs -> Pc] /\ held \in [Runs -> Nat]
      /\ call \in [Runs -> SUBSET Calls] /\ heldDay \in [Runs -> Day]
  BY DEF LedgerInv, LedgerTypeOK, BreakerInv, BreakerTypeOK, Runs
<1>2. \A s \in Runs : s # r => /\ call'[s] = call[s] /\ heldDay'[s] = heldDay[s]
                               /\ pc'[s] = pc[s] /\ held'[s] = held[s]
                               /\ (stage'[s] = "reserved" => stage[s] = "reserved")
  BY <1>1 DEF Dispatch, DispatchStep, BreakerStep, Deny, Allow, OpenWindow, BuildDeps, Open,
       EmitPreview, PollCancelled, FinalCancelled, Cancelled, Drop, Sleep, Reserve, Grant,
       WindowPassed, CeilingExceeded, Refuse, ReRead, ToctouAbort, Release, Execute, Finish,
       ledgerVars, history
<1>3. spent' = spent
  BY DEF Dispatch, DispatchStep, BreakerStep, Deny, Allow, OpenWindow, BuildDeps, Open,
       EmitPreview, PollCancelled, FinalCancelled, Cancelled, Drop, Sleep, Reserve, Grant,
       WindowPassed, CeilingExceeded, Refuse, ReRead, ToctouAbort, Release, Execute, Finish,
       ledgerVars, history
<1>4. \A s \in Runs : <<s, "executed">> \in audit' <=> <<s, "executed">> \in audit
  BY DEF Dispatch, DispatchStep, BreakerStep, Deny, Allow, OpenWindow, BuildDeps, Open,
       EmitPreview, PollCancelled, FinalCancelled, Cancelled, Drop, Sleep, Reserve, Grant,
       WindowPassed, CeilingExceeded, Refuse, ReRead, ToctouAbort, Release, Execute, Finish, Audited
<1>5. <<r, "executed">> \in audit => heldDay'[r] = heldDay[r] /\ call'[r] = call[r]
  <2> SUFFICES ASSUME <<r, "executed">> \in audit
               PROVE  heldDay'[r] = heldDay[r] /\ call'[r] = call[r]
    OBVIOUS
  <2>1. pc[r] \in {"verified", "executing", "done"}
    BY DEF AuditTrue, RunAudit, Outcomes
  <2> QED
    BY <2>1 DEF Dispatch, DispatchStep, BreakerStep, Deny, Allow, OpenWindow, BuildDeps, Open,
         EmitPreview, PollCancelled, FinalCancelled, Cancelled, Drop, Sleep, Reserve, Grant,
         WindowPassed, CeilingExceeded, Refuse, ReRead, ToctouAbort, Release, Execute, Finish,
         ledgerVars, history
<1>6. Accounted'
  BY <1>2, <1>3, <1>4, <1>5, NothingSpent DEF ChargeInv
<1>7. stage'[r] = "reserved" =>
        pc'[r] \in {"verify", "compare"} /\ held'[r] = Spend(r)'
  <2>1. CASE Reserve(r)
    BY <1>1, <2>1 DEF Reserve, Grant, Spend, CallOf
  <2>2. CASE ToctouAbort(r) \/ CeilingExceeded(r) \/ PollCancelled(r) \/ FinalCancelled(r)
             \/ OpenWindow(r)
    BY <1>1, <2>2 DEF ToctouAbort, Release, CeilingExceeded, Refuse, PollCancelled,
         FinalCancelled, Cancelled, Drop, OpenWindow, BuildDeps, Open
  <2>3. CASE (\E c \in Calls : Dispatch(r, c)) \/ Deny(r) \/ Allow(r) \/ Sleep(r)
             \/ Execute(r) \/ Finish(r)
    <3>1. stage' = stage /\ pc[r] \notin {"verify", "compare"}
      BY <2>3 DEF Dispatch, Deny, Allow, Sleep, Execute, Finish, ledgerVars
    <3> QED BY <3>1 DEF ChargeInv, HeldForRun
  <2>4. CASE ReRead(r)
    BY <1>1, <2>4 DEF ReRead, ChargeInv, HeldForRun, Spend, CallOf, ledgerVars
  <2> QED BY <2>1, <2>2, <2>3, <2>4 DEF DispatchStep, BreakerStep
<1>8. ASSUME NEW s \in Runs, s # r, stage'[s] = "reserved"
      PROVE  pc'[s] \in {"verify", "compare"} /\ held'[s] = Spend(s)'
  BY <1>2, <1>8 DEF ChargeInv, HeldForRun, Spend, CallOf
<1> QED BY <1>6, <1>7, <1>8 DEF ChargeInv, HeldForRun

LEMMA ChargeStep ==
    BreakerInv /\ AuditTrue /\ LedgerInv /\ ChargeInv /\ [Next]_vars => ChargeInv'
<1> SUFFICES ASSUME BreakerInv, AuditTrue, LedgerInv, ChargeInv, [Next]_vars PROVE ChargeInv'
  OBVIOUS
<1>1. ASSUME UNCHANGED <<pc, call, audit, stage, held, heldDay, spent>> PROVE ChargeInv'
  <2>1. Accounted'
    BY <1>1, NothingSpent DEF ChargeInv
  <2>2. HeldForRun'
    BY <1>1 DEF ChargeInv, HeldForRun, Spend, CallOf
  <2> QED BY <2>1, <2>2 DEF ChargeInv
<1>2. ASSUME NEW r \in Runs, (\E c \in Calls : Dispatch(r, c)) \/ DispatchStep(r) \/ Finish(r)
      PROVE  ChargeInv'
  BY <1>2, ExecutedIsSpent, RunCharges
<1>3. ASSUME NEW r \in Runs, DeliverCancel(r) PROVE ChargeInv'
  BY <1>1, <1>3 DEF DeliverCancel, control, ledgerVars, history
<1>4. ASSUME NEW torn \in BOOLEAN, Die(torn) PROVE ChargeInv'
  <2>1. /\ UNCHANGED <<call, audit, heldDay, spent>>
        /\ stage' = [i \in Instances |-> "closed"]
    BY <1>4 DEF Die, Crash, record
  <2>2. Accounted'
    BY <2>1, NothingSpent DEF ChargeInv
  <2>3. HeldForRun'
    BY <2>1 DEF HeldForRun, Runs
  <2> QED BY <2>2, <2>3 DEF ChargeInv
<1>5. CASE \/ TapCancel \/ CardElapsed \/ FaceConnects \/ FaceDisconnects
           \/ WorldChanges \/ DayPasses \/ UNCHANGED vars
  <2>1. UNCHANGED <<pc, call, audit, stage, held, heldDay, spent>>
    BY <1>5 DEF TapCancel, CardElapsed, FaceConnects, FaceDisconnects, WorldChanges, DayPasses,
         Midnight, breakerVars, control, record, ledgerVars, history, vars
  <2> QED BY <1>1, <2>1
<1> QED BY <1>2, <1>3, <1>4, <1>5 DEF Next, Environment

(* Between calls the file charges its day exactly the calls the audit log  *)
(* says were executed on it, plus what a crash cut short.                  *)
THEOREM BooksBalance ==
    ASSUME TornWrites = FALSE
    PROVE  Spec => []ChargesMatchAudit
<1>1. Init => AuditTrue
  BY DEF Init, AuditTrue, RunAudit
<1>2. Init => ChargeInv
  <2> SUFFICES ASSUME Init PROVE ChargeInv
    OBVIOUS
  <2>1. \A d \in Day : ExecutedOn(d) = {} /\ spent[d] = 0
    BY DEF Init, LedgerInit, ExecutedOn
  <2>2. \A d \in Day : SumFunction(Charges(d)) = 0
    BY <2>1, SumOfNone DEF Charges
  <2>3. HeldForRun
    BY DEF Init, LedgerInit, HeldForRun, Runs
  <2> QED BY <2>1, <2>2, <2>3, FS_EmptySet DEF ChargeInv, Accounted
<1>3. Spec => []LedgerInv
  BY ImplementsLedger, LedgerInvariant
<1>4. Spec => []BudgetAccounted
  BY ImplementsLedger, LedgerBudget
<1>5. LedgerInv /\ ChargeInv /\ BudgetAccounted => ChargesMatchAudit
  BY DEF LedgerInv, LedgerTypeOK, LedgerState, ChargeInv, Accounted, BudgetAccounted,
       ChargesMatchAudit
<1> QED
  BY <1>1, <1>2, <1>3, <1>4, <1>5, AuditStep, ChargeStep, BreakerInvariant, PTL DEF Spec

=============================================================================
