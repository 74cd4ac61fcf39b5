------------------------------ MODULE MemoryProofs ------------------------------
(***************************************************************************)
(* Theorems about the memory of the daemon: the daily logs and the nightly *)
(* jobs over them, for any facts and any number of days; working memory,   *)
(* for any notes, documents, cap and number of edits and turns; and the    *)
(* backup, for histories of any length.                                    *)
(***************************************************************************)
EXTENDS MemoryMaintenance, WorkingMemory, Backup, NumberLemmas, SequenceTheorems,
        FiniteSetTheorems

Filling == INSTANCE FoldLemmas WITH Op <- Consider  \* folds of what a briefing takes
Joining == INSTANCE FoldLemmas WITH Op <- Longer    \* folds of how long it gets

-----------------------------------------------------------------------------
(* The daily logs and the nightly jobs.                                    *)

Keepable == Trusted \cap Durable

(* What a file holds is in the log of its day, or went with it.            *)
VettedInv ==
    /\ KnowledgeIsVetted
    /\ con.at = "reflect" => con.facts \subseteq log[con.day].facts \cup pruned
    /\ con.at = "promote" => con.facts \subseteq (log[con.day].facts \cup pruned) \cap Keepable

(* A log is of a day that has come, and one that is not of today's age is  *)
(* of an earlier day; cleanup alone removes logs, those it holds as old.   *)
FreshInv ==
    /\ \A d \in Days : log[d].exists => d <= today /\ (logAge[d] > 0 => d < today)
    /\ cln.at = "logs" => \A d \in cln.todo : log[d].exists
    /\ cln.at = "logs" => cln.todo \cap cln.old = {}
    /\ FreshLogsStay

(* A day whose log consolidation has dealt with tonight.                   *)
PassedOver(d) ==
    /\ d \notin con.todo
    /\ con.at \in {"reflect", "promote"} => d # con.day

DaysBefore == {d \in Days : d < today}

(* What is worth keeping of a day's log is in knowledge.                   *)
Kept(d) == log[d].facts \cap Keepable \subseteq KnownFacts

(* Where consolidation is with the log of an earlier day.                  *)
DistilledSoFar(d) ==
    /\ distilled => Kept(d)
    /\ con.at # "idle" /\ PassedOver(d) => Kept(d)
    /\ con.at = "reflect" /\ d = con.day => log[d].facts \subseteq con.facts
    /\ con.at = "promote" /\ d = con.day
          => log[d].facts \cap Keepable \subseteq con.facts \cup KnownFacts

(* The jobs take turns.                                                    *)
TurnsInv ==
    /\ distilled => con.at = "idle"
    /\ cln.at # "idle" => ~cleaned

(* In a healthy night consolidation works through what the days before     *)
(* left, and cleanup waits for it.                                         *)
NightInv ==
    /\ PrunedWasDistilled
    /\ cln.at # "idle" => distilled
    /\ \A d \in DaysBefore : DistilledSoFar(d)

HealthyInv == TurnsInv /\ (healthy => NightInv)

MemInv == MemTypeOK /\ VettedInv /\ FreshInv /\ HealthyInv

LEMMA FileShape ==
  ASSUME NEW f \in File
  PROVE  /\ f.facts \subseteq Facts /\ f.exists \in BOOLEAN
         /\ ~f.exists => f.facts = {}
<1>1. CASE f = NoFile
  BY <1>1 DEF NoFile
<1>2. ASSUME NEW s \in SUBSET Facts, f = Holding(s)
      PROVE  f.facts \subseteq Facts /\ f.exists \in BOOLEAN /\ f.exists
  BY <1>2 DEF Holding
<1>3. QED
  BY <1>1, <1>2 DEF File

LEMMA HoldingShape ==
  ASSUME NEW s \in SUBSET Facts
  PROVE  /\ Holding(s) \in File /\ Holding(s).exists /\ Holding(s).facts = s
         /\ NoFile \in File /\ ~NoFile.exists /\ NoFile.facts = {}
BY DEF File, NoFile, Holding

LEMMA MemBounds == Days \subseteq Nat /\ Age \subseteq Nat /\ 1 \in Days /\ 0 \in Age
BY MaxDayPos, RetentionPos DEF Days, Age

(* What each step of the jobs' own records leaves of the right type.       *)
LEMMA NextLogTyped ==
  ASSUME NEW todo \in SUBSET Days, NextLog(todo)
  PROVE  /\ con' \in Con /\ distilled' \in BOOLEAN
         /\ con'.at = "read" => con'.todo # {}
BY MemBounds DEF NextLog, Con, IdleCon

(* Between two logs the job has none in hand.                              *)
LEMMA NextLogIsBetween ==
  ASSUME NEW todo, NextLog(todo)
  PROVE  /\ todo = {} => con'.at = "idle"
         /\ todo # {} => con'.at = "read"
         /\ con'.todo = todo
<1>1. CASE todo = {}
  BY <1>1 DEF NextLog, IdleCon
<1>2. CASE todo # {}
  BY <1>2 DEF NextLog, IdleCon
<1>3. QED
  BY <1>1, <1>2

LEMMA ReadsOldest ==
  ASSUME MemTypeOK, con.at = "read"
  PROVE  /\ Min(con.todo) \in con.todo /\ Min(con.todo) \in Days
         /\ con.todo \in SUBSET Days
<1>1. con.todo \in SUBSET Days /\ con.todo # {}
  BY DEF MemTypeOK, Con
<1>2. QED
  BY <1>1, MemBounds, MinIsLeast

LEMMA MemTypeInit == MemInit => MemTypeOK
<1> SUFFICES ASSUME MemInit PROVE MemTypeOK
  OBVIOUS
<1>1. log \in [Days -> File] /\ reflection \in [Days -> File]
  BY HoldingShape DEF MemInit
<1>2. today \in 1..(MaxDay + 1) /\ logAge \in [Days -> Age] /\ reflectionAge \in [Days -> Age]
  BY MemBounds, MaxDayPos DEF MemInit
<1>3. con \in Con /\ con.at # "read" /\ cln \in Cln
  BY MemBounds DEF MemInit, Con, IdleCon, Cln, IdleCln
<1>4. QED
  BY <1>1, <1>2, <1>3 DEF MemInit, MemTypeOK

LEMMA MemTypeStep ==
  ASSUME MemTypeOK, [MemNext]_memVars
  PROVE  MemTypeOK'
<1> USE DEF MemTypeOK
<1> USE MemBounds, MaxDayPos, RetentionPos
<1>1. ASSUME NEW f \in Facts, LogSession(f) PROVE MemTypeOK'
  <2>1. Appended(today, f) \in File
    BY <1>1, FileShape, HoldingShape DEF LogSession, Appended
  <2>2. QED
    BY <1>1, <2>1 DEF LogSession
<1>2. CASE LogHeartbeat
  <2>1. Holding(log[today].facts) \in File
    BY <1>2, FileShape, HoldingShape DEF LogHeartbeat
  <2>2. QED
    BY <1>2, <2>1 DEF LogHeartbeat
<1>3. CASE ListLogs
  <2>1. Present(log) \in SUBSET Days
    BY DEF Present
  <2>2. QED
    BY <1>3, <2>1, NextLogTyped DEF ListLogs, ConOnly
<1>4. CASE ReadLog
  <2> DEFINE d == Min(con.todo)
  <2>1. d \in Days /\ con.todo \ {d} \in SUBSET Days
    BY <1>4, ReadsOldest DEF ReadLog
  <2>2. log[d].facts \subseteq Facts
    BY <2>1, FileShape
  <2>3. CASE con' = IdleCon /\ UNCHANGED distilled
    BY <1>4, <2>3 DEF ReadLog, ConOnly, Con, IdleCon
  <2>4. CASE NextLog(con.todo \ {d})
    BY <1>4, <2>1, <2>4, NextLogTyped DEF ReadLog, ConOnly
  <2>5. CASE /\ con' = [at |-> "reflect", todo |-> con.todo \ {d},
                        day |-> d, facts |-> log[d].facts]
             /\ UNCHANGED distilled
    BY <1>4, <2>1, <2>2, <2>5 DEF ReadLog, ConOnly, Con
  <2>6. QED
    BY <1>4, <2>3, <2>4, <2>5 DEF ReadLog
<1>5. CASE WriteReflection
  <2>1. con \in Con /\ con.facts \subseteq Facts /\ con.day \in Days
    BY DEF Con
  <2>2. Holding(con.facts) \in File /\ Promotable(con.facts) \subseteq Facts
    BY <2>1, HoldingShape DEF Promotable
  <2>3. con' \in Con /\ con'.at # "read"
    BY <1>5, <2>1, <2>2 DEF WriteReflection, Con
  <2>4. QED
    BY <1>5, <2>1, <2>2, <2>3 DEF WriteReflection, ConOnly
<1>6. ASSUME NEW f \in Facts, PromoteFact(f) PROVE MemTypeOK'
  <2>1. con' \in Con /\ con'.at # "read" /\ con.day \in Days
    BY <1>6 DEF PromoteFact, Con
  <2>2. QED
    BY <1>6, <2>1 DEF PromoteFact, ConOnly
<1>7. CASE LogDone
  <2>1. con.todo \in SUBSET Days
    BY DEF Con
  <2>2. QED
    BY <1>7, <2>1, NextLogTyped DEF LogDone, ConOnly
<1>8. CASE ListReflections \/ ListOldLogs \/ CleanupEnds
  <2>1. cln' \in Cln
    BY <1>8 DEF ListReflections, ListOldLogs, CleanupEnds, Cln, IdleCln, Present
  <2>2. healthy' \in BOOLEAN /\ cleaned' \in BOOLEAN /\ UNCHANGED <<log, reflection, pruned>>
    BY <1>8 DEF ListReflections, ListOldLogs, CleanupEnds
  <2>3. QED
    BY <1>8, <2>1, <2>2 DEF ListReflections, ListOldLogs, CleanupEnds, ClnOnly
<1>9. ASSUME NEW d \in Days, CheckAge(d) PROVE MemTypeOK'
  <2>1. cln' \in Cln
    BY <1>9 DEF CheckAge, Cln
  <2>2. QED
    BY <1>9, <2>1 DEF CheckAge, ClnOnly
<1>10. ASSUME NEW d \in Days, RemoveReflection(d) \/ RemoveLog(d) PROVE MemTypeOK'
  <2>1. cln' \in Cln
    BY <1>10 DEF RemoveReflection, RemoveLog, Cln
  <2>2. log[d].facts \subseteq Facts /\ NoFile \in File
    BY FileShape, HoldingShape
  <2>3. CASE RemoveReflection(d)
    BY <2>1, <2>2, <2>3 DEF RemoveReflection, ClnOnly
  <2>4. CASE RemoveLog(d)
    <3>1. log' \in [Days -> File] /\ pruned' \subseteq Facts
      BY <2>2, <2>4 DEF RemoveLog
    <3>2. QED
      BY <2>1, <2>4, <3>1 DEF RemoveLog, ClnOnly
  <2>5. QED
    BY <1>10, <2>3, <2>4
<1>11. CASE JobDies
  <2>1. IdleCon \in Con /\ IdleCon.at # "read" /\ IdleCln \in Cln
    BY DEF Con, IdleCon, Cln, IdleCln
  <2>2. QED
    BY <1>11, <2>1 DEF JobDies, files
<1>12. CASE Midnight
  <2>1. Older(logAge) \in [Days -> Age] /\ Older(reflectionAge) \in [Days -> Age]
    BY DEF Older, Age
  <2>2. today' \in 1..(MaxDay + 1)
    BY <1>12 DEF Midnight, Days
  <2>3. QED
    BY <1>12, <2>1, <2>2 DEF Midnight
<1>13. CASE UNCHANGED memVars
  BY <1>13 DEF memVars, files
<1>14. QED
  BY <1>1, <1>2, <1>3, <1>4, <1>5, <1>6, <1>7, <1>8, <1>9, <1>10, <1>11, <1>12, <1>13
     DEF MemNext, Consolidates, CleansUp

-----------------------------------------------------------------------------
(* What the two jobs leave alone.                                          *)

LEMMA VettedStep ==
  ASSUME MemTypeOK, VettedInv, [MemNext]_memVars
  PROVE  VettedInv'
<1> DEFINE Stays == /\ pruned \subseteq pruned'
                    /\ \A d \in Days : log[d].facts \subseteq log'[d].facts \cup pruned'
<1>0. /\ knowledge \subseteq Days \X Facts /\ con \in Con /\ con.day \in Days
      /\ \A d \in Days : log[d] \in File /\ reflection[d] \in File
  BY DEF MemTypeOK, Con
<1>1. Stays
  <2>1. ASSUME NEW f \in Facts, LogSession(f) PROVE Stays
    BY <2>1, HoldingShape DEF LogSession, Appended, MemTypeOK, Holding
  <2>2. CASE LogHeartbeat
    BY <2>2, HoldingShape DEF LogHeartbeat, MemTypeOK, Holding
  <2>3. CASE Consolidates
    BY <2>3 DEF Consolidates, ListLogs, ReadLog, WriteReflection, LogDone, PromoteFact, ConOnly
  <2>4. ASSUME NEW d \in Days, RemoveLog(d) PROVE Stays
    BY <2>4 DEF RemoveLog, MemTypeOK
  <2>5. CASE /\ UNCHANGED <<log, pruned>>
    BY <2>5
  <2>6. QED
    BY <2>1, <2>2, <2>3, <2>4, <2>5 DEF MemNext, CleansUp, ListReflections, ListOldLogs,
       CleanupEnds, CheckAge, RemoveReflection, JobDies, Midnight, memVars, files
<1>2. CASE WriteReflection
  <2>1. /\ con.facts \subseteq log[con.day].facts \cup pruned
        /\ UNCHANGED <<knowledge, log, pruned>>
        /\ con'.at = "promote" /\ con'.day = con.day /\ con'.facts = Promotable(con.facts)
    BY <1>0, <1>2 DEF VettedInv, WriteReflection, ConOnly, Con
  <2>2. \A d \in Days : reflection'[d].facts \subseteq log'[d].facts \cup pruned'
    BY <1>0, <1>2, <2>1 DEF VettedInv, KnowledgeIsVetted, WriteReflection, Holding, MemTypeOK
  <2>3. QED
    BY <1>0, <2>1, <2>2 DEF VettedInv, KnowledgeIsVetted, Promotable, Keepable
<1>3. ASSUME NEW f \in Facts, PromoteFact(f) PROVE VettedInv'
  <2>1. /\ f \in (log[con.day].facts \cup pruned) \cap Keepable
        /\ UNCHANGED <<log, pruned, reflection>>
        /\ con'.at = "promote" /\ con'.day = con.day /\ con'.facts \subseteq con.facts
        /\ knowledge' = knowledge \cup {<<con.day, f>>}
    BY <1>0, <1>3 DEF VettedInv, PromoteFact, ConOnly, Con
  <2>2. QED
    BY <1>0, <1>3, <2>1 DEF VettedInv, KnowledgeIsVetted, PromoteFact, Keepable
<1>4. CASE ReadLog
  <2>1. UNCHANGED <<log, pruned, reflection, knowledge>>
    BY <1>4 DEF ReadLog, ConOnly
  <2>2. /\ con'.at # "promote"
        /\ con'.at = "reflect" => con'.facts = log[con'.day].facts
    <3> DEFINE d == Min(con.todo)
    <3>1. \/ con' = IdleCon
          \/ NextLog(con.todo \ {d})
          \/ con' = [at |-> "reflect", todo |-> con.todo \ {d},
                     day |-> d, facts |-> log[d].facts]
      BY <1>4 DEF ReadLog
    <3>2. CASE con' = IdleCon
      BY <3>2 DEF IdleCon
    <3>3. CASE NextLog(con.todo \ {d})
      <4>1. con'.at \in {"idle", "read"}
        BY <3>3, NextLogIsBetween
      <4>2. QED
        BY <4>1
    <3>4. QED
      BY <3>1, <3>2, <3>3
  <2>3. KnowledgeIsVetted'
    BY <2>1 DEF VettedInv, KnowledgeIsVetted
  <2>4. QED
    BY <2>1, <2>2, <2>3 DEF VettedInv
<1>5. CASE UNCHANGED knowledge /\ (UNCHANGED con \/ con'.at \in {"idle", "read"})
           /\ \A d \in Days : reflection'[d].facts \subseteq reflection[d].facts
  <2>1. KnowledgeIsVetted'
    <3>1. ASSUME NEW k \in knowledge
          PROVE  k[2] \in Trusted \cap Durable /\ k[2] \in log'[k[1]].facts \cup pruned'
      <4>1. /\ k[1] \in Days
            /\ k[2] \in Trusted \cap Durable /\ k[2] \in log[k[1]].facts \cup pruned
        BY <1>0, <3>1 DEF VettedInv, KnowledgeIsVetted
      <4>2. QED
        BY <1>1, <4>1
    <3>2. ASSUME NEW d \in Days
          PROVE  reflection'[d].facts \subseteq log'[d].facts \cup pruned'
      <4>1. reflection[d].facts \subseteq log[d].facts \cup pruned
        BY DEF VettedInv, KnowledgeIsVetted
      <4>2. QED
        BY <1>1, <1>5, <4>1
    <3>3. QED
      BY <1>5, <3>1, <3>2 DEF KnowledgeIsVetted
  <2>2. CASE con'.at \in {"idle", "read"}
    BY <2>1, <2>2 DEF VettedInv
  <2>3. CASE UNCHANGED con
    BY <1>0, <1>1, <2>1, <2>3 DEF VettedInv
  <2>4. QED
    BY <1>5, <2>2, <2>3
<1>6. CASE \E d \in Days : RemoveReflection(d)
  <2>1. \A d \in Days : reflection'[d].facts \subseteq reflection[d].facts
    BY <1>6 DEF RemoveReflection, NoFile, MemTypeOK
  <2>2. QED
    BY <1>5, <1>6, <2>1 DEF RemoveReflection, ClnOnly
<1>7. CASE ListLogs \/ LogDone
  <2>1. con'.at \in {"idle", "read"} /\ UNCHANGED <<knowledge, reflection>>
    BY <1>7, NextLogIsBetween DEF ListLogs, LogDone
  <2>2. QED
    BY <1>5, <2>1
<1>8. CASE UNCHANGED <<knowledge, reflection, con>>
  BY <1>5, <1>8
<1>9. CASE JobDies
  BY <1>5, <1>9 DEF JobDies, files, IdleCon
<1>10. QED
  BY <1>2, <1>3, <1>4, <1>6, <1>7, <1>8, <1>9 DEF MemNext, Consolidates, CleansUp, LogSession,
     LogHeartbeat, ListReflections, ListOldLogs, CleanupEnds, CheckAge, RemoveLog, ClnOnly,
     Midnight, memVars, files

LEMMA FreshStep ==
  ASSUME MemTypeOK, FreshInv, [MemNext]_memVars
  PROVE  FreshInv'
<1> USE MemBounds, MaxDayPos, RetentionPos
<1>0. /\ today \in 1..(MaxDay + 1) /\ cln \in Cln
      /\ \A d \in Days : log[d] \in File /\ logAge[d] \in Age /\ d \in Nat
  BY DEF MemTypeOK
<1>1. ASSUME NEW d \in Days, UNCHANGED cln, today = d, UNCHANGED today,
             NEW f \in File, f.exists, log' = [log EXCEPT ![d] = f],
             logAge' = [logAge EXCEPT ![d] = 0]
      PROVE  FreshInv'
  <2>1. \A e \in Days : log'[e].exists => e <= today' /\ (logAge'[e] > 0 => e < today')
    BY <1>0, <1>1 DEF FreshInv, MemTypeOK
  <2>2. \A e \in Days : log[e].exists => log'[e].exists
    BY <1>0, <1>1 DEF MemTypeOK
  <2>3. QED
    BY <1>0, <1>1, <2>1, <2>2 DEF FreshInv, FreshLogsStay, Cln
<1>2. ASSUME NEW f \in Facts, LogSession(f) PROVE FreshInv'
  BY <1>0, <1>1, <1>2, FileShape, HoldingShape DEF LogSession, Appended
<1>3. CASE LogHeartbeat
  BY <1>0, <1>1, <1>3, FileShape, HoldingShape DEF LogHeartbeat
<1>4. CASE ListReflections \/ CleanupEnds
  BY <1>4 DEF ListReflections, CleanupEnds, ClnOnly, IdleCln, FreshInv, FreshLogsStay
<1>5. CASE ListOldLogs
  BY <1>5 DEF ListOldLogs, ClnOnly, Present, FreshInv, FreshLogsStay
<1>6. ASSUME NEW d \in Days, CheckAge(d) PROVE FreshInv'
  <2>1. cln'.at = cln.at /\ cln'.todo = cln.todo \ {d} /\ cln'.old \subseteq {d}
    BY <1>0, <1>6 DEF CheckAge, Cln
  <2>2. cln.at = "logs" /\ d \in cln'.old => logAge[d] > Retention /\ log[d].exists
    BY <1>0, <1>6 DEF CheckAge, TooOld, AgeOf, FreshInv, Cln
  <2>3. cln.at = "logs" /\ d \in cln'.old => d < today
    BY <1>0, <2>2 DEF FreshInv, Age
  <2>4. QED
    BY <1>0, <1>6, <2>1, <2>3 DEF CheckAge, ClnOnly, FreshInv, FreshLogsStay
<1>7. ASSUME NEW d \in Days, RemoveReflection(d) PROVE FreshInv'
  BY <1>0, <1>7 DEF RemoveReflection, ClnOnly, Cln, FreshInv, FreshLogsStay
<1>8. ASSUME NEW d \in Days, RemoveLog(d) PROVE FreshInv'
  <2>1. /\ cln'.at = "logs" /\ cln'.todo = cln.todo /\ cln'.old = {} /\ d \notin cln.todo
        /\ UNCHANGED <<today, logAge>>
    BY <1>0, <1>8 DEF RemoveLog, ClnOnly, Cln, FreshInv
  <2>2. \A e \in Days : /\ log'[e].exists => log[e].exists
                        /\ log[e].exists /\ e # d => log'[e].exists
    BY <1>0, <1>8, HoldingShape DEF RemoveLog, MemTypeOK
  <2>3. QED
    BY <1>0, <1>8, <2>1, <2>2 DEF RemoveLog, Cln, FreshInv, FreshLogsStay
<1>9. CASE JobDies
  BY <1>9 DEF JobDies, files, IdleCln, FreshInv, FreshLogsStay
<1>10. CASE Midnight
  <2>1. /\ UNCHANGED <<log, cln>> /\ today' \in Nat
        /\ today <= today' /\ (today \in Days => today' = today + 1)
    BY <1>0, <1>10 DEF Midnight, Days
  <2>2. ASSUME NEW d \in Days, log[d].exists PROVE d < today'
    <3>1. d <= today /\ d <= MaxDay
      BY <2>2 DEF FreshInv, Days
    <3>2. CASE today \in Days
      BY <1>0, <2>1, <3>1, <3>2
    <3>3. CASE today \notin Days
      BY <1>0, <2>1, <3>1, <3>3 DEF Days
    <3>4. QED
      BY <3>2, <3>3
  <2>3. FreshLogsStay'
    <3>1. SUFFICES ASSUME NEW d \in Days, d \in cln.old, cln.at = "logs" PROVE d < today'
      BY <2>1 DEF FreshLogsStay
    <3>2. d < today
      BY <3>1 DEF FreshInv, FreshLogsStay
    <3>3. QED
      BY <1>0, <2>1, <3>2
  <2>4. today' \in Nat /\ \A d \in Days : log'[d].exists => d < today'
    BY <1>0, <1>10, <2>1, <2>2 DEF Midnight
  <2>5. QED
    BY <1>0, <2>1, <2>3, <2>4 DEF FreshInv
<1>11. CASE UNCHANGED <<today, log, logAge, cln>>
  BY <1>11 DEF FreshInv, FreshLogsStay
<1>12. QED
  BY <1>2, <1>3, <1>4, <1>5, <1>6, <1>7, <1>8, <1>9, <1>10, <1>11 DEF MemNext, Consolidates,
     CleansUp, ListLogs, ReadLog, WriteReflection, LogDone, PromoteFact, ConOnly, memVars, files

LEMMA TurnsStep ==
  ASSUME MemTypeOK, TurnsInv, [MemNext]_memVars
  PROVE  TurnsInv'
<1>1. ASSUME NEW todo, NextLog(todo), ~distilled, UNCHANGED <<cln, cleaned>>
      PROVE  TurnsInv'
  BY <1>1, NextLogIsBetween DEF TurnsInv, NextLog
<1>2. CASE ListLogs
  BY <1>1, <1>2 DEF ListLogs, ConOnly
<1>3. CASE LogDone
  BY <1>1, <1>3 DEF LogDone, ConOnly, TurnsInv
<1>4. CASE ReadLog
  <2>1. ~distilled /\ UNCHANGED <<cln, cleaned>>
    BY <1>4 DEF ReadLog, ConOnly, TurnsInv
  <2>2. (\E todo : NextLog(todo)) \/ UNCHANGED distilled
    BY <1>4 DEF ReadLog
  <2>3. CASE UNCHANGED distilled
    BY <2>1, <2>3 DEF TurnsInv
  <2>4. QED
    BY <1>1, <2>1, <2>2, <2>3
<1>5. CASE WriteReflection \/ \E f \in Facts : PromoteFact(f)
  BY <1>5 DEF WriteReflection, PromoteFact, ConOnly, TurnsInv
<1>6. CASE CleansUp
  <2>1. UNCHANGED <<con, distilled>>
    BY <1>6 DEF CleansUp, ListReflections, ListOldLogs, CleanupEnds, CheckAge,
       RemoveReflection, RemoveLog, ClnOnly
  <2>2. CASE ListReflections \/ ListOldLogs \/ CleanupEnds
    BY <2>1, <2>2 DEF ListReflections, ListOldLogs, CleanupEnds, IdleCln, TurnsInv
  <2>3. CASE \E d \in Days : CheckAge(d) \/ RemoveReflection(d) \/ RemoveLog(d)
    <3>1. UNCHANGED cleaned /\ cln'.at = cln.at
      BY <2>3 DEF CheckAge, RemoveReflection, RemoveLog, MemTypeOK, Cln
    <3>2. QED
      BY <2>1, <3>1 DEF TurnsInv
  <2>4. QED
    BY <1>6, <2>2, <2>3 DEF CleansUp
<1>7. CASE JobDies
  BY <1>7 DEF JobDies, IdleCon, IdleCln, TurnsInv
<1>8. CASE Midnight
  BY <1>8 DEF Midnight, TurnsInv
<1>9. CASE UNCHANGED <<con, cln, distilled, cleaned>>
  BY <1>9 DEF TurnsInv
<1>10. QED
  BY <1>2, <1>3, <1>4, <1>5, <1>6, <1>7, <1>8, <1>9 DEF MemNext, Consolidates, LogSession,
     LogHeartbeat, memVars

(* A log that is not written to stays as distilled as it was.              *)
LEMMA NightKept ==
  ASSUME MemTypeOK, NightInv,
         UNCHANGED <<today, knowledge, con, distilled, pruned>>,
         cln'.at # "idle" => distilled,
         \A d \in DaysBefore : log'[d].facts \subseteq log[d].facts
  PROVE  NightInv'
<1>1. DaysBefore' = DaysBefore /\ KnownFacts' = KnownFacts
  BY DEF DaysBefore, KnownFacts
<1>2. PrunedWasDistilled'
  BY <1>1 DEF NightInv, PrunedWasDistilled
<1>3. ASSUME NEW d \in DaysBefore PROVE DistilledSoFar(d)'
  BY <1>1, <1>3 DEF NightInv, DistilledSoFar, PassedOver, Kept
<1>4. QED
  BY <1>1, <1>2, <1>3 DEF NightInv

(* After a log, or with none yet: nothing is left over of the days whose   *)
(* log is not still to do.                                                 *)
LEMMA NightGoesOn ==
  ASSUME MemTypeOK, NightInv, ~distilled, NEW todo, NextLog(todo),
         UNCHANGED <<today, log, knowledge, cln, pruned>>,
         \A d \in DaysBefore : d \notin todo => Kept(d)
  PROVE  NightInv'
<1>1. DaysBefore' = DaysBefore /\ KnownFacts' = KnownFacts
  BY DEF DaysBefore, KnownFacts
<1>2. PrunedWasDistilled' /\ cln.at = "idle"
  BY <1>1 DEF NightInv, PrunedWasDistilled
<1>3. ASSUME NEW d \in DaysBefore PROVE DistilledSoFar(d)'
  <2>1. d \notin todo => Kept(d)'
    BY <1>1 DEF Kept
  <2>2. con'.at \in {"idle", "read"} /\ con'.todo = todo /\ (distilled' => todo = {})
    BY NextLogIsBetween DEF NextLog
  <2>3. QED
    BY <2>1, <2>2 DEF DistilledSoFar, PassedOver
<1>4. QED
  BY <1>1, <1>2, <1>3 DEF NightInv

LEMMA HealthyStep ==
  ASSUME MemTypeOK, FreshInv, HealthyInv, [MemNext]_memVars
  PROVE  HealthyInv'
<1> SUFFICES ASSUME healthy' PROVE NightInv'
  BY TurnsStep DEF HealthyInv
<1>0. /\ TurnsInv /\ con \in Con /\ con.todo \in SUBSET Days /\ con.day \in Days
      /\ \A d \in Days : log[d] \in File
      /\ DaysBefore \subseteq Days
  BY DEF HealthyInv, MemTypeOK, Con, DaysBefore
<1>1. ASSUME NEW f \in Facts, LogSession(f) PROVE NightInv'
  <2>1. \A d \in DaysBefore : log'[d].facts = log[d].facts
    BY <1>1, MemBounds DEF LogSession, MemTypeOK, DaysBefore
  <2>2. QED
    BY <1>1, <2>1, NightKept DEF LogSession, HealthyInv, NightInv
<1>2. CASE LogHeartbeat
  <2>1. \A d \in DaysBefore : log'[d].facts = log[d].facts
    BY <1>2, MemBounds DEF LogHeartbeat, MemTypeOK, DaysBefore
  <2>2. QED
    BY <1>2, <2>1, NightKept DEF LogHeartbeat, HealthyInv, NightInv
<1>3. CASE ListLogs
  <2>1. \A d \in DaysBefore : d \notin Present(log) => Kept(d)
    BY <1>0, FileShape DEF Present, Kept
  <2>2. QED
    BY <1>3, <2>1, NightGoesOn DEF ListLogs, ConOnly, HealthyInv
<1>4. CASE ReadLog
  <2> DEFINE e == Min(con.todo)
  <2>1. /\ NightInv /\ ~distilled /\ con.at = "read"
        /\ UNCHANGED <<today, log, knowledge, cln, pruned>>
    BY <1>0, <1>4 DEF ReadLog, ConOnly, HealthyInv, TurnsInv
  <2>2. \A d \in DaysBefore : d \notin con.todo => Kept(d)
    BY <2>1 DEF NightInv, DistilledSoFar, PassedOver
  <2>3. DaysBefore' = DaysBefore /\ KnownFacts' = KnownFacts
    BY <2>1 DEF DaysBefore, KnownFacts
  <2>4. PrunedWasDistilled' /\ cln'.at = "idle"
    BY <2>1, <2>3 DEF NightInv, PrunedWasDistilled
  <2>5. CASE con' = IdleCon /\ UNCHANGED distilled
    <3>1. \A d \in DaysBefore : DistilledSoFar(d)'
      BY <2>1, <2>5 DEF DistilledSoFar, IdleCon
    <3>2. QED
      BY <2>3, <2>4, <3>1 DEF NightInv
  <2>6. CASE log[e].facts = {} /\ NextLog(con.todo \ {e})
    <3>1. \A d \in DaysBefore : d \notin con.todo \ {e} => Kept(d)
      BY <2>2, <2>6 DEF Kept
    <3>2. QED
      BY <2>1, <2>6, <3>1, NightGoesOn
  <2>7. CASE /\ con' = [at |-> "reflect", todo |-> con.todo \ {e},
                        day |-> e, facts |-> log[e].facts]
             /\ UNCHANGED distilled
    <3>1. ASSUME NEW d \in DaysBefore PROVE DistilledSoFar(d)'
      <4>1. d \notin con.todo => Kept(d)'
        BY <2>1, <2>2, <2>3 DEF Kept
      <4>2. QED
        BY <2>1, <2>7, <4>1 DEF DistilledSoFar, PassedOver
    <3>2. QED
      BY <2>3, <2>4, <3>1 DEF NightInv
  <2>8. QED
    BY <1>4, <2>5, <2>6, <2>7 DEF ReadLog
<1>5. CASE WriteReflection
  <2>1. /\ NightInv /\ ~distilled /\ con.at = "reflect"
        /\ UNCHANGED <<today, log, knowledge, cln, pruned, distilled>>
        /\ con'.at = "promote" /\ con'.todo = con.todo /\ con'.day = con.day
        /\ con'.facts = Promotable(con.facts)
    BY <1>0, <1>5 DEF WriteReflection, ConOnly, HealthyInv, TurnsInv, Con
  <2>2. DaysBefore' = DaysBefore /\ KnownFacts' = KnownFacts
    BY <2>1 DEF DaysBefore, KnownFacts
  <2>3. ASSUME NEW d \in DaysBefore PROVE DistilledSoFar(d)'
    BY <2>1, <2>2 DEF NightInv, DistilledSoFar, PassedOver, Kept, Promotable, Keepable
  <2>4. QED
    BY <2>1, <2>2, <2>3 DEF NightInv, PrunedWasDistilled
<1>6. ASSUME NEW f \in Facts, PromoteFact(f) PROVE NightInv'
  <2>1. /\ NightInv /\ ~distilled /\ con.at = "promote"
        /\ UNCHANGED <<today, log, cln, pruned, distilled>>
        /\ con'.at = "promote" /\ con'.todo = con.todo /\ con'.day = con.day
        /\ con'.facts = con.facts \ {f}
        /\ knowledge' = knowledge \cup {<<con.day, f>>}
    BY <1>0, <1>6 DEF PromoteFact, ConOnly, HealthyInv, TurnsInv, Con
  <2>2. DaysBefore' = DaysBefore /\ KnownFacts' = KnownFacts \cup {f}
    <3>1. <<con.day, f>>[2] = f
      OBVIOUS
    <3>2. KnownFacts' = {k[2] : k \in knowledge \cup {<<con.day, f>>}}
      BY <2>1 DEF KnownFacts
    <3>3. KnownFacts' = KnownFacts \cup {f}
      BY <3>1, <3>2, Zenon DEF KnownFacts
    <3>4. QED
      BY <2>1, <3>3 DEF DaysBefore
  <2>3. ASSUME NEW d \in DaysBefore PROVE DistilledSoFar(d)'
    BY <2>1, <2>2 DEF NightInv, DistilledSoFar, PassedOver, Kept
  <2>4. QED
    BY <2>1, <2>2, <2>3 DEF NightInv, PrunedWasDistilled
<1>7. CASE LogDone
  <2>1. /\ NightInv /\ ~distilled /\ con.at = "promote" /\ con.facts = {}
    BY <1>0, <1>7 DEF LogDone, ConOnly, HealthyInv, TurnsInv
  <2>2. \A d \in DaysBefore : d \notin con.todo => Kept(d)
    BY <2>1 DEF NightInv, DistilledSoFar, PassedOver, Kept
  <2>3. QED
    BY <1>7, <2>1, <2>2, NightGoesOn DEF LogDone, ConOnly
<1>8. CASE ListReflections
  <2>1. NightInv /\ distilled /\ UNCHANGED log
    BY <1>8 DEF ListReflections, HealthyInv
  <2>2. QED
    BY <1>8, <2>1, NightKept DEF ListReflections, ClnOnly
<1>9. CASE /\ UNCHANGED <<today, log, knowledge, con, distilled, pruned, healthy>>
           /\ cln'.at # "idle" => cln.at # "idle"
  BY <1>9, NightKept DEF HealthyInv, NightInv
<1>10. CASE ListOldLogs \/ CleanupEnds
  <2>1. cln'.at # "idle" => cln.at # "idle"
    BY <1>10 DEF ListOldLogs, CleanupEnds, IdleCln
  <2>2. QED
    BY <1>9, <1>10, <2>1 DEF ListOldLogs, CleanupEnds, ClnOnly
<1>11. ASSUME NEW d \in Days, CheckAge(d) \/ RemoveReflection(d) PROVE NightInv'
  <2>1. cln'.at # "idle" => cln.at # "idle"
    BY <1>11 DEF CheckAge, RemoveReflection, MemTypeOK, Cln
  <2>2. QED
    BY <1>9, <1>11, <2>1 DEF CheckAge, RemoveReflection, ClnOnly
<1>12. ASSUME NEW d \in Days, RemoveLog(d) PROVE NightInv'
  <2>1. NightInv /\ distilled /\ d \in DaysBefore /\ Kept(d)
    BY <1>12 DEF RemoveLog, HealthyInv, NightInv, FreshInv, FreshLogsStay, DaysBefore,
       DistilledSoFar
  <2>2. UNCHANGED <<today, knowledge, con, distilled>> /\ pruned' = pruned \cup log[d].facts
    BY <1>12 DEF RemoveLog, ClnOnly
  <2>3. DaysBefore' = DaysBefore /\ KnownFacts' = KnownFacts
    BY <2>2 DEF DaysBefore, KnownFacts
  <2>4. PrunedWasDistilled'
    BY <2>1, <2>2, <2>3 DEF NightInv, PrunedWasDistilled, Kept, Keepable
  <2>5. \A e \in Days : log'[e].facts \subseteq log[e].facts
    BY <1>12, HoldingShape DEF RemoveLog, MemTypeOK
  <2>6. ASSUME NEW e \in DaysBefore PROVE DistilledSoFar(e)'
    <3>1. DistilledSoFar(e) /\ log'[e].facts \subseteq log[e].facts
      BY <1>0, <2>1, <2>5 DEF NightInv
    <3>2. QED
      BY <2>2, <2>3, <3>1 DEF DistilledSoFar, PassedOver, Kept
  <2>7. QED
    BY <2>1, <2>2, <2>3, <2>4, <2>6 DEF NightInv
<1>13. CASE JobDies
  BY <1>13 DEF JobDies
<1>14. CASE Midnight
  <2>1. NightInv /\ distilled /\ con.at = "idle" /\ cln.at = "idle"
    BY <1>0, <1>14 DEF Midnight, HealthyInv, TurnsInv
  <2>2. ~distilled' /\ UNCHANGED <<con, cln, knowledge, pruned>>
    BY <1>14 DEF Midnight
  <2>3. PrunedWasDistilled'
    BY <2>1, <2>2 DEF NightInv, PrunedWasDistilled, KnownFacts
  <2>4. QED
    BY <2>1, <2>2, <2>3 DEF NightInv, DistilledSoFar
<1>15. CASE UNCHANGED memVars
  BY <1>9, <1>15 DEF memVars, files
<1>16. QED
  BY <1>1, <1>2, <1>3, <1>4, <1>5, <1>6, <1>7, <1>8, <1>10, <1>11, <1>12, <1>13, <1>14, <1>15
     DEF MemNext, Consolidates, CleansUp

LEMMA MemInvInit == MemInit => MemInv
<1> SUFFICES ASSUME MemInit PROVE MemInv
  OBVIOUS
<1>1. MemTypeOK
  BY MemTypeInit
<1>2. \A d \in Days : ~log[d].exists /\ log[d].facts = {} /\ reflection[d].facts = {}
  BY HoldingShape DEF MemInit
<1>3. con.at = "idle" /\ cln.at = "idle" /\ cln.old = {}
  BY DEF MemInit, IdleCon, IdleCln
<1>4. VettedInv
  BY <1>2, <1>3 DEF MemInit, VettedInv, KnowledgeIsVetted
<1>5. FreshInv
  BY <1>2, <1>3 DEF FreshInv, FreshLogsStay
<1>6. HealthyInv
  BY <1>3 DEF MemInit, HealthyInv, TurnsInv, NightInv, PrunedWasDistilled, DistilledSoFar
<1>7. QED
  BY <1>1, <1>4, <1>5, <1>6 DEF MemInv

(* The four parts of MemInv hold throughout: the strengthening behind the  *)
(* theorems below.                                                         *)
THEOREM MemInvariant == MemSpec => []MemInv
<1>1. MemInv /\ [MemNext]_memVars => MemInv'
  BY MemTypeStep, VettedStep, FreshStep, HealthyStep DEF MemInv
<1>2. QED
  BY MemInvInit, <1>1, PTL DEF MemSpec

(* The files of the two jobs stay what they are taken to be.               *)
THEOREM MemTypes == MemSpec => []MemTypeOK
BY MemInvariant, PTL DEF MemInv

(* Nothing external and nothing that was not logged becomes knowledge,     *)
(* wherever a job is stopped and however its steps fall between those of   *)
(* the daemon and of the other job.                                        *)
THEOREM OnlyVettedKnowledge == MemSpec => []KnowledgeIsVetted
<1>1. MemInv => KnowledgeIsVetted
  BY DEF MemInv, VettedInv
<1>2. QED
  BY <1>1, MemInvariant, PTL

(* Cleanup never has its hand on the log the daemon writes to.             *)
THEOREM TodaysLogStays == MemSpec => []FreshLogsStay
<1>1. MemInv => FreshLogsStay
  BY DEF MemInv, FreshInv
<1>2. QED
  BY <1>1, MemInvariant, PTL

(* With any retention, a log that goes was distilled, as long as the       *)
(* nights are such as the two schedules intend.                            *)
THEOREM HealthyNightsKeepFacts == MemSpec => []PrunedWhenHealthy
<1>1. MemInv => PrunedWhenHealthy
  BY DEF MemInv, HealthyInv, NightInv, PrunedWhenHealthy
<1>2. QED
  BY <1>1, MemInvariant, PTL

(* A promoted fact is never taken back, and a log loses nothing but all.   *)
THEOREM MemoryIsKept == MemSpec => MemoryKept
<1> DEFINE Grows ==
      /\ knowledge \subseteq knowledge'
      /\ \A d \in Days : log'[d].exists => log[d].facts \subseteq log'[d].facts
<1>1. ASSUME MemTypeOK, [MemNext]_memVars PROVE Grows
  <2>1. ASSUME NEW f \in Facts, LogSession(f) PROVE Grows
    BY <1>1, <2>1 DEF LogSession, Appended, MemTypeOK, Holding
  <2>2. CASE LogHeartbeat
    BY <1>1, <2>2 DEF LogHeartbeat, MemTypeOK, Holding
  <2>3. CASE Consolidates
    BY <2>3 DEF Consolidates, ListLogs, ReadLog, WriteReflection, LogDone, PromoteFact, ConOnly
  <2>4. ASSUME NEW d \in Days, RemoveLog(d) PROVE Grows
    <3>1. ASSUME NEW e \in Days, log'[e].exists PROVE log'[e] = log[e]
      BY <1>1, <2>4, <3>1, HoldingShape DEF RemoveLog, MemTypeOK
    <3>2. QED
      BY <2>4, <3>1 DEF RemoveLog, ClnOnly
  <2>5. CASE UNCHANGED <<log, knowledge>>
    BY <2>5
  <2>6. QED
    BY <1>1, <2>1, <2>2, <2>3, <2>4, <2>5 DEF MemNext, CleansUp, ListReflections, ListOldLogs,
       CleanupEnds, CheckAge, RemoveReflection, ClnOnly, JobDies, Midnight, memVars, files
<1>2. QED
  BY <1>1, MemTypes, PTL DEF MemSpec, MemoryKept

-----------------------------------------------------------------------------
(* Working memory.                                                         *)

(* Only the shape of the records is needed, and that history flags and     *)
(* notes are what they should be.                                          *)
IsPad(pad) == pad = [notes |-> pad.notes, summary |-> pad.summary, kinds |-> pad.kinds]

Shaped(t) ==
    t = [at |-> t.at, boots |-> t.boots, hash |-> t.hash, text |-> t.text,
         old |-> t.old, kinds |-> t.kinds, swapped |-> t.swapped]

IsTask == Shaped(task)

Shapes == IsTask /\ IsPad(current) /\ task.swapped \in BOOLEAN

(* A compaction under way has every note that it will take away in hand,   *)
(* or in the archive already, except the ones written since it began.      *)
CompactionInv ==
    /\ task.at \in {"summary", "archive"} => current.notes \ raced \subseteq task.old.notes
    /\ task.at \in {"truncate", "write"} => current.notes \ raced \subseteq archive

(* Between the hash and the briefing, the text is the hash's unless the    *)
(* file was edited in between.                                             *)
PersonaInv ==
    /\ InjectedIsVerified
    /\ task.at = "identity" => identity = task.hash \/ task.swapped
    /\ task.at \in {"current", "fill"} => task.text = task.hash \/ task.swapped

WorkingInv == Shapes /\ CompactionInv /\ PersonaInv

LEMMA DownIsShaped == Shaped(Down) /\ Down.at = "down" /\ Down.swapped = FALSE
  BY DEF Shaped, Down

LEMMA IdleIsShaped == Shaped(Idle) /\ Idle.at = "idle" /\ Idle.swapped = FALSE
  BY DownIsShaped DEF Shaped, Idle

(* Steps that end or begin a task.                                         *)
Resting == {[Idle EXCEPT !.at = step] : step \in {"idle", "seed", "reason", "logged"}}
              \cup {Idle, Down, [Down EXCEPT !.at = "seed", !.boots = TRUE]}

LEMMA RestingTask ==
  ASSUME task' \in Resting, UNCHANGED <<current, briefing>>, WorkingInv
  PROVE  WorkingInv'
<1>1. /\ Shaped(task') /\ task'.swapped = FALSE
      /\ task'.at \in {"idle", "seed", "reason", "logged", "down"}
  <2>1. CASE task' \in {Idle, Down}
    BY <2>1, DownIsShaped, IdleIsShaped
  <2>2. CASE task' = [Down EXCEPT !.at = "seed", !.boots = TRUE]
    BY <2>2, DownIsShaped DEF Shaped
  <2>3. CASE \E step \in {"idle", "seed", "reason", "logged"} : task' = [Idle EXCEPT !.at = step]
    BY <2>3, IdleIsShaped DEF Shaped
  <2> QED  BY <2>1, <2>2, <2>3 DEF Resting
<1>2. Shapes'
  BY <1>1 DEF WorkingInv, Shapes, IsTask, Shaped, IsPad
<1>3. CompactionInv' /\ PersonaInv'
  BY <1>1 DEF WorkingInv, CompactionInv, PersonaInv, InjectedIsVerified
<1> QED  BY <1>2, <1>3 DEF WorkingInv

LEMMA WorkingStart == WorkingInit => WorkingInv
  BY DEF WorkingInit, WorkingInv, Shapes, IsTask, Shaped, IsPad, CompactionInv, PersonaInv,
         InjectedIsVerified, Down, Blank, NoBriefing

LEMMA PersonaSteps ==
  ASSUME WorkingInv,
         \/ SeedBaseline \/ RecordBaseline \/ ReadBaseline \/ HashIdentity
         \/ ReadIdentity \/ ReadCurrent
  PROVE  WorkingInv'
<1> USE DEF WorkingInv, Shapes, IsTask, Shaped, IsPad, CompactionInv, PersonaInv, InjectedIsVerified
<1>1. CASE SeedBaseline
  BY <1>1 DEF SeedBaseline
<1>2. CASE RecordBaseline
  BY <1>2 DEF RecordBaseline
<1>3. CASE ReadBaseline
  <2>1. CASE baseline = NoHash
    BY <1>3, <2>1, RestingTask DEF ReadBaseline, Resting
  <2>2. CASE baseline # NoHash
    BY <1>3, <2>2 DEF ReadBaseline
  <2> QED  BY <2>1, <2>2
<1>4. CASE HashIdentity
  <2>1. CASE Matches(task.hash)
    BY <1>4, <2>1 DEF HashIdentity, Matches
  <2>2. CASE ~Matches(task.hash)
    BY <1>4, <2>2, RestingTask DEF HashIdentity, Resting
  <2> QED  BY <2>1, <2>2
<1>5. CASE ReadIdentity
  <2>1. CASE task.boots
    BY <1>5, <2>1, RestingTask DEF ReadIdentity, Resting
  <2>2. CASE ~task.boots
    BY <1>5, <2>2 DEF ReadIdentity
  <2> QED  BY <2>1, <2>2
<1>6. CASE ReadCurrent
  BY <1>6 DEF ReadCurrent
<1> QED  BY <1>1, <1>2, <1>3, <1>4, <1>5, <1>6

LEMMA CompactionSteps ==
  ASSUME WorkingInv, Compact \/ Summarize \/ ArchiveOld \/ Truncate \/ WriteSummary
  PROVE  WorkingInv'
<1> USE DEF WorkingInv, Shapes, IsTask, Shaped, IsPad, CompactionInv, PersonaInv, InjectedIsVerified
<1>1. CASE Compact
  <2>1. task' = [Idle EXCEPT !.at = "summary", !.old = current,
                                    !.kinds = {turns[i] : i \in Gathered}]
        /\ UNCHANGED <<identity, baseline, current, archive, turns, briefing>>
    BY <1>1 DEF Compact
  <2> QED  BY <2>1, IdleIsShaped
<1>2. CASE Summarize
  <2>1. PICK usable \in BOOLEAN :
          task' = [task EXCEPT !.at = AfterSummary(task.old),
                               !.kinds = @ \cup IF usable THEN task.old.kinds ELSE {}]
    BY <1>2 DEF Summarize
  <2>2. task.at = "summary"
        /\ UNCHANGED <<identity, baseline, current, archive, turns, briefing, raced>>
    BY <1>2 DEF Summarize
  <2>3. CASE task.old = Blank
    <3>1. task'.at = "truncate" /\ IsTask' /\ task'.swapped = task.swapped
      BY <2>1, <2>3 DEF AfterSummary
    <3>2. current.notes \ raced \subseteq {}
      BY <2>2, <2>3 DEF Blank
    <3> QED  BY <2>2, <3>1, <3>2
  <2>4. CASE task.old # Blank
    BY <2>1, <2>2, <2>4 DEF AfterSummary
  <2> QED  BY <2>3, <2>4
<1>3. CASE ArchiveOld
  BY <1>3 DEF ArchiveOld
<1>4. CASE Truncate
  BY <1>4 DEF Truncate, Blank
<1>5. CASE WriteSummary
  BY <1>5, IdleIsShaped DEF WriteSummary
<1> QED  BY <1>1, <1>2, <1>3, <1>4, <1>5

LEMMA WorkingStep == WorkingInv /\ [WorkingNext]_workingVars => WorkingInv'
<1> SUFFICES ASSUME WorkingInv, [WorkingNext]_workingVars PROVE WorkingInv'
  OBVIOUS
<1>1. CASE Boot \/ Intent \/ LogTurn \/ LogCommand \/ Crash
  BY <1>1, RestingTask DEF Boot, Intent, LogTurn, LogCommand, Crash, Resting
<1>2. CASE \/ SeedBaseline \/ RecordBaseline \/ ReadBaseline \/ HashIdentity
           \/ ReadIdentity \/ ReadCurrent
  BY <1>2, PersonaSteps
<1>3. CASE Brief
  <2>1. /\ task.at = "fill" /\ task' = [Idle EXCEPT !.at = "reason"]
        /\ UNCHANGED <<identity, baseline, current, archive, turns, raced>>
        /\ briefing'.text = task.text /\ briefing'.hash = task.hash
        /\ briefing'.swapped = task.swapped
    BY <1>3 DEF Brief
  <2> QED
    BY <2>1, IdleIsShaped DEF WorkingInv, Shapes, IsTask, Shaped, IsPad, CompactionInv,
                              PersonaInv, InjectedIsVerified
<1>4. CASE Compact \/ Summarize \/ ArchiveOld \/ Truncate \/ WriteSummary
  BY <1>4, CompactionSteps
<1>5. ASSUME NEW note \in Notes, WriteNote(note) PROVE WorkingInv'
  <2>1. current' = [current EXCEPT !.notes = @ \cup {note}]
        /\ UNCHANGED <<identity, baseline, archive, turns, task, briefing>>
        /\ (Compacting => raced' = raced \cup {note})
    BY <1>5 DEF WriteNote
  <2>2. Shapes'
    BY <2>1 DEF WorkingInv, Shapes, IsTask, Shaped, IsPad
  <2>3. CompactionInv'
    BY <2>1 DEF WorkingInv, Shapes, IsPad, CompactionInv, Compacting
  <2>4. PersonaInv'
    BY <2>1 DEF WorkingInv, PersonaInv, InjectedIsVerified
  <2> QED  BY <2>2, <2>3, <2>4 DEF WorkingInv
<1>6. CASE EditIdentity
  BY <1>6 DEF EditIdentity, WorkingInv, Shapes, IsTask, Shaped, IsPad, CompactionInv, PersonaInv,
              InjectedIsVerified
<1>7. CASE Rebaseline
  BY <1>7 DEF Rebaseline, WorkingInv, Shapes, IsTask, Shaped, IsPad, CompactionInv, PersonaInv,
              InjectedIsVerified
<1>8. CASE UNCHANGED workingVars
  BY <1>8 DEF workingVars, WorkingInv, Shapes, IsTask, Shaped, IsPad, CompactionInv, PersonaInv,
              InjectedIsVerified
<1> QED  BY <1>1, <1>2, <1>3, <1>4, <1>5, <1>6, <1>7, <1>8 DEF WorkingNext

LEMMA WorkingInvariant == WorkingSpec => []WorkingInv
  BY WorkingStart, WorkingStep, PTL DEF WorkingSpec

(* The persona given to the brain is the one the baseline is of, however   *)
(* often it is edited, re-baselined or read across a crash, unless the     *)
(* edit fell between the two reads (memory/identity.ts:70-88).             *)
THEOREM PersonaIsVerified == WorkingSpec => []InjectedIsVerified
<1>1. WorkingInv => InjectedIsVerified
  BY DEF WorkingInv, PersonaInv
<1> QED  BY <1>1, WorkingInvariant, PTL

(* No step takes a note away that is not in the archive by then, except    *)
(* one written after the compaction read the scratchpad                    *)
(* (commands/compact-cmd.ts:180-239).                                      *)
THEOREM CompactionKeepsNotes == WorkingSpec => NotesKept
<1>1. ASSUME WorkingInv, [WorkingNext]_workingVars
      PROVE  [current.notes \ raced \subseteq current'.notes \cup archive']_workingVars
  <2>1. CASE Truncate \/ WriteSummary
    BY <1>1, <2>1 DEF Truncate, WriteSummary, WorkingInv, CompactionInv
  <2>2. ASSUME NEW note \in Notes, WriteNote(note)
        PROVE  current.notes \subseteq current'.notes
    BY <1>1, <2>2 DEF WriteNote, WorkingInv, Shapes, IsPad
  <2>3. CASE UNCHANGED current
    BY <2>3
  <2>4. CASE UNCHANGED workingVars
    BY <2>4
  <2>5. \/ Truncate \/ WriteSummary \/ UNCHANGED current \/ UNCHANGED workingVars
        \/ \E note \in Notes : WriteNote(note)
    BY <1>1 DEF WorkingNext, Boot, Intent, SeedBaseline, RecordBaseline, ReadBaseline,
                HashIdentity, ReadIdentity, ReadCurrent, Brief, LogTurn, Compact, Summarize,
                ArchiveOld, LogCommand, EditIdentity, Rebaseline, Crash
  <2> QED  BY <2>1, <2>2, <2>3, <2>4, <2>5
<1> QED  BY <1>1, WorkingInvariant, PTL DEF WorkingSpec, NotesKept

(* What a briefing may hold, and the state of its filling: the documents   *)
(* taken are trusted, and the parts joined and what is left of the budget  *)
(* are together what there was.                                            *)
Trustworthy == {doc \in Docs : doc.source # "external"}

Fillings(base, budget) ==
    {taken \in [docs : Seq(Trustworthy), budget : Nat] :
        /\ Joining!Fold(base, taken.docs) \in Nat
        /\ Joining!Fold(base, taken.docs) + taken.budget = base + budget}

LEMMA ConsiderKeepsBudget ==
  ASSUME NEW base \in Nat, NEW budget \in Nat,
         NEW taken \in Fillings(base, budget), NEW doc \in Docs
  PROVE  Consider(taken, doc) \in Fillings(base, budget)
<1>1. /\ taken.docs \in Seq(Trustworthy) /\ taken.budget \in Nat
      /\ Joining!Fold(base, taken.docs) \in Nat
      /\ Joining!Fold(base, taken.docs) + taken.budget = base + budget
  BY DEF Fillings
<1>2. CASE ~Admits(doc, taken.budget)
  BY <1>2 DEF Consider
<1>3. CASE Admits(doc, taken.budget)
  <2> DEFINE docs == Append(taken.docs, doc)
             rest == taken.budget - Cost(doc)
             length == Joining!Fold(base, taken.docs)
             after == Joining!Fold(base, docs)
             left == taken.budget
  <2>1. doc \in Trustworthy /\ doc.size \in Nat /\ doc.size + 1 <= taken.budget
    BY <1>3, DocsAreFiles DEF Admits, Trustworthy, Cost, SepSize
  <2>2. docs \in Seq(Trustworthy)
    BY <1>1, <2>1, AppendProperties
  <2>3. Joining!Fold(base, docs) = Longer(length, doc)
    BY <1>1, <2>1, Joining!FoldOfAppend
  <2>4. after = length + 1 + doc.size
    BY <2>3 DEF Longer, SepSize
  <2>5. rest = left - (doc.size + 1) /\ doc.size + 1 <= left
    BY <2>1 DEF Cost, SepSize
  <2>6. length \in Nat /\ left \in Nat /\ length + left = base + budget
    BY <1>1
  <2> HIDE DEF docs, rest, length, after, left
  <2>7. rest \in Nat /\ after \in Nat /\ after + rest = base + budget
    BY <2>1, <2>4, <2>5, <2>6
  <2>8. [docs |-> docs, budget |-> rest] \in Fillings(base, budget)
    BY <2>2, <2>7 DEF Fillings, after
  <2>9. Consider(taken, doc) = [docs |-> docs, budget |-> rest]
    BY <1>3 DEF Consider, docs, rest
  <2>10. QED
    BY <2>8, <2>9
<1>4. QED
  BY <1>2, <1>3

(* However the candidates are ranked, the greedy choice is trusted, and it *)
(* fits into its budget with its separators.                               *)
LEMMA GreedyFits ==
  ASSUME NEW ranked \in SetToAllKPermutations(Docs),
         NEW base \in Nat, NEW budget \in Nat
  PROVE  /\ Greedy(ranked, budget) \in Seq(Trustworthy)
         /\ Joining!Fold(base, Greedy(ranked, budget)) \in Nat
         /\ Joining!Fold(base, Greedy(ranked, budget)) <= base + budget
<1> DEFINE nothing == [docs |-> <<>>, budget |-> budget]
           all == Filling!Fold(nothing, ranked)
           fillings == Fillings(base, budget)
<1>1. PICK ds \in SUBSET Docs : ranked \in [1 .. Cardinality(ds) -> ds]
  BY DEF SetToAllKPermutations, SetToSeqs
<1>2. Cardinality(ds) \in Nat
  BY DocsAreFiles, FS_Subset, FS_CardinalityType
<1>3. ranked \in Seq(Docs)
  <2> DEFINE n == Cardinality(ds)
  <2>1. n \in Nat /\ ranked \in [1 .. n -> Docs]
    BY <1>1, <1>2
  <2> HIDE DEF n
  <2>2. QED
    BY <2>1
<1>4. nothing \in fillings
  <2>1. Joining!Fold(base, <<>>) = base
    BY Joining!FoldOfNone
  <2>2. QED
    BY <2>1 DEF Fillings
<1>5. \A taken \in fillings, doc \in Docs : Consider(taken, doc) \in fillings
  BY ConsiderKeepsBudget
<1> HIDE DEF nothing, fillings
<1>6. all \in fillings
  BY <1>3, <1>4, <1>5, Filling!FoldPreserves
<1>7. Greedy(ranked, budget) = all.docs
  BY DEF Greedy, FoldLeft, MapThenFoldSet, Max, Filling!Fold, Filling!FoldLeft,
         Filling!MapThenFoldSet, Filling!Max, nothing
<1> HIDE DEF all
<1>8. /\ all.docs \in Seq(Trustworthy) /\ all.budget \in Nat
      /\ Joining!Fold(base, all.docs) \in Nat
      /\ Joining!Fold(base, all.docs) + all.budget = base + budget
  BY <1>6 DEF fillings, Fillings
<1> DEFINE docs == all.docs
<1>9. docs \in Seq(Trustworthy) /\ Joining!Fold(base, docs) \in Nat
  BY <1>8
<1>10. Joining!Fold(base, docs) <= base + budget
  BY <1>8
<1>11. QED
  BY <1>7, <1>9, <1>10

(* Nothing external is in the scratchpad or in the hands of a compaction,  *)
(* which gathers trusted turns only, or in a briefing.                     *)
SoundPad(pad) ==
    /\ IsFiniteSet(pad.notes) /\ pad.summary \in Nat
    /\ "external" \notin pad.kinds

TrustInv ==
    /\ SoundPad(current) /\ SoundPad(task.old)
    /\ "external" \notin task.kinds
    /\ BriefingIsSound

LEMMA BlankIsSound == SoundPad(Blank)
  BY FS_EmptySet DEF SoundPad, Blank

(* A sound scratchpad has a length, and so has the fixed block.            *)
LEMMA FixedIsNat ==
  ASSUME NEW pad, SoundPad(pad)
  PROVE  FixedSize(pad) \in Nat
<1>1. Cardinality(pad.notes) \in Nat /\ pad.summary \in Nat
  BY FS_CardinalityType DEF SoundPad
<1>2. QED
  BY <1>1, WorkingNats DEF FixedSize, Size, SepSize

(* The briefing, whatever was ranked how.                                  *)
LEMMA BriefIsSound ==
  ASSUME WorkingInv, TrustInv, Brief
  PROVE  BriefingIsSound'
<1> DEFINE fixed == FixedSize(task.old)
<1>1. PICK ranked \in SetToAllKPermutations(Docs) :
        LET docs == IF fixed > Cap THEN <<>> ELSE Greedy(ranked, Cap - fixed)
        IN  /\ briefing'.docs = ToSet(docs)
            /\ briefing'.size = JoinedSize(task.old, docs)
            /\ briefing'.kinds = task.old.kinds
  BY DEF Brief
<1>2. fixed \in Nat /\ Cap \in Nat
  BY FixedIsNat, WorkingNats DEF TrustInv
<1>3. "external" \notin briefing'.kinds
  BY <1>1 DEF TrustInv, SoundPad
<1> HIDE DEF fixed
<1>4. CASE fixed > Cap
  <2>1. briefing'.docs = {}
    BY <1>1, <1>4 DEF ToSet
  <2>2. QED
    BY <1>3, <2>1 DEF BriefingIsSound, ContextIsTrusted, ContextFits
<1>5. CASE ~(fixed > Cap)
  <2> DEFINE docs == Greedy(ranked, Cap - fixed)
             length == Joining!Fold(fixed, docs)
             room == Cap - fixed
  <2>1. room \in Nat /\ fixed + room = Cap
    BY <1>2, <1>5
  <2>2. docs \in Seq(Trustworthy) /\ length \in Nat /\ length <= fixed + room
    <3> HIDE DEF docs, room
    <3>1. docs = Greedy(ranked, room)
      BY DEF docs, room
    <3>2. QED
      BY <1>2, <2>1, <3>1, GreedyFits
  <2>3. JoinedSize(task.old, docs) = length
    BY DEF JoinedSize, fixed, FoldLeft, MapThenFoldSet, Max, Joining!Fold, Joining!FoldLeft,
           Joining!MapThenFoldSet, Joining!Max
  <2>4. briefing'.docs = ToSet(docs) /\ briefing'.size = length
    BY <1>1, <1>5, <2>3
  <2> HIDE DEF docs, length, room
  <2>5. ToSet(docs) \subseteq Trustworthy
    BY <2>2, LenProperties DEF ToSet
  <2>6. briefing'.size <= Cap
    BY <2>1, <2>2, <2>4
  <2>7. QED
    BY <1>3, <2>4, <2>5, <2>6 DEF BriefingIsSound, ContextIsTrusted, ContextFits, Trustworthy
<1>6. QED
  BY <1>4, <1>5

LEMMA TrustStep ==
  ASSUME WorkingInv, TrustInv, [WorkingNext]_workingVars
  PROVE  TrustInv'
<1> USE DEF WorkingInv, Shapes, IsTask, Shaped, IsPad
<1>1. /\ SoundPad(Blank) /\ Shaped(Idle) /\ Shaped(Down)
      /\ Idle.old = Blank /\ Down.old = Blank /\ Idle.kinds = {} /\ Down.kinds = {}
  BY BlankIsSound, IdleIsShaped, DownIsShaped DEF Idle, Down
<1>2. CASE UNCHANGED <<current, briefing>> /\ task'.old = Blank /\ task'.kinds = {}
  BY <1>1, <1>2 DEF TrustInv, BriefingIsSound, ContextIsTrusted, ContextFits
<1>3. CASE UNCHANGED <<current, briefing>> /\ task'.old = task.old /\ task'.kinds = task.kinds
  BY <1>3 DEF TrustInv, BriefingIsSound, ContextIsTrusted, ContextFits
<1>4. CASE Boot \/ Intent \/ LogTurn \/ LogCommand \/ Crash
  <2>1. UNCHANGED <<current, briefing>> /\ task'.old = Blank /\ task'.kinds = {}
    BY <1>1, <1>4 DEF Boot, Intent, LogTurn, LogCommand, Crash
  <2>2. QED
    BY <1>2, <2>1
<1>5. CASE SeedBaseline \/ RecordBaseline \/ ReadBaseline \/ HashIdentity \/ ReadIdentity
  <2>1. /\ UNCHANGED <<current, briefing>>
        /\ \/ task'.old = task.old /\ task'.kinds = task.kinds
           \/ task'.old = Blank /\ task'.kinds = {}
    BY <1>1, <1>5 DEF SeedBaseline, RecordBaseline, ReadBaseline, HashIdentity, ReadIdentity
  <2>2. QED
    BY <1>2, <1>3, <2>1
<1>6. CASE ReadCurrent
  BY <1>6 DEF ReadCurrent, TrustInv, BriefingIsSound, ContextIsTrusted, ContextFits
<1>7. CASE Brief
  <2>1. BriefingIsSound'
    BY <1>7, BriefIsSound
  <2>2. UNCHANGED current /\ task'.old = Blank /\ task'.kinds = {}
    BY <1>1, <1>7 DEF Brief
  <2>3. QED
    BY <1>1, <2>1, <2>2 DEF TrustInv
<1>8. CASE Compact
  <2>1. /\ UNCHANGED <<current, briefing>>
        /\ task'.old = current /\ task'.kinds = {turns[i] : i \in Gathered}
    BY <1>1, <1>8 DEF Compact
  <2>2. "external" \notin {turns[i] : i \in Gathered}
    BY DEF Gathered
  <2>3. QED
    BY <2>1, <2>2 DEF TrustInv, BriefingIsSound, ContextIsTrusted, ContextFits
<1>9. CASE Summarize
  <2>1. /\ UNCHANGED <<current, briefing>> /\ task'.old = task.old
        /\ task'.kinds \subseteq task.kinds \cup task.old.kinds
    BY <1>9 DEF Summarize
  <2>2. QED
    BY <2>1 DEF TrustInv, SoundPad, BriefingIsSound, ContextIsTrusted, ContextFits
<1>10. CASE ArchiveOld
  <2>1. UNCHANGED <<current, briefing>> /\ task'.old = task.old /\ task'.kinds = task.kinds
    BY <1>10 DEF ArchiveOld
  <2>2. QED
    BY <1>3, <2>1
<1>11. CASE Truncate
  <2>1. /\ current' = Blank /\ UNCHANGED briefing
        /\ task'.old = task.old /\ task'.kinds = task.kinds
    BY <1>11 DEF Truncate
  <2>2. QED
    BY <1>1, <2>1 DEF TrustInv, BriefingIsSound, ContextIsTrusted, ContextFits
<1>12. CASE WriteSummary
  <2>1. /\ current' = [notes |-> {}, summary |-> 1, kinds |-> task.kinds]
        /\ UNCHANGED briefing /\ task'.old = Blank /\ task'.kinds = {}
    BY <1>1, <1>12 DEF WriteSummary
  <2>2. SoundPad(current')
    BY <2>1, FS_EmptySet DEF TrustInv, SoundPad
  <2>3. QED
    BY <1>1, <2>1, <2>2 DEF TrustInv, BriefingIsSound, ContextIsTrusted, ContextFits
<1>13. ASSUME NEW note \in Notes, WriteNote(note) PROVE TrustInv'
  <2>1. current' = [current EXCEPT !.notes = @ \cup {note}] /\ UNCHANGED <<task, briefing>>
    BY <1>13 DEF WriteNote
  <2>2. SoundPad(current')
    <3>1. IsFiniteSet(current.notes \cup {note})
      BY FS_AddElement DEF TrustInv, SoundPad
    <3>2. QED
      BY <2>1, <3>1 DEF TrustInv, SoundPad
  <2>3. QED
    BY <2>1, <2>2 DEF TrustInv, BriefingIsSound, ContextIsTrusted, ContextFits
<1>14. CASE EditIdentity \/ Rebaseline \/ UNCHANGED workingVars
  <2>1. UNCHANGED <<current, briefing>> /\ task'.old = task.old /\ task'.kinds = task.kinds
    BY <1>14 DEF EditIdentity, Rebaseline, workingVars
  <2>2. QED
    BY <1>3, <2>1
<1>15. QED
  BY <1>4, <1>5, <1>6, <1>7, <1>8, <1>9, <1>10, <1>11, <1>12, <1>13, <1>14 DEF WorkingNext

(* What the brain is briefed with is never external, by itself or through  *)
(* a compaction, and fits under the cap unless persona and scratchpad      *)
(* alone are over it (inject.ts:95, compact-cmd.ts:44).                    *)
THEOREM BriefingStaysSound == WorkingSpec => []BriefingIsSound
<1>1. WorkingInit => TrustInv
  BY BlankIsSound DEF WorkingInit, TrustInv, Down, Blank, NoBriefing, BriefingIsSound,
                      ContextIsTrusted, ContextFits
<1>2. WorkingInv /\ TrustInv /\ [WorkingNext]_workingVars => TrustInv'
  BY TrustStep
<1>3. TrustInv => BriefingIsSound
  BY DEF TrustInv
<1>4. QED
  BY <1>1, <1>2, <1>3, WorkingInvariant, PTL DEF WorkingSpec

-----------------------------------------------------------------------------
(* The backup.                                                             *)

Trees == [Paths -> Texts]

BackupTypes ==
    /\ work \in Trees /\ index \in Trees
    /\ commits \in Seq(Trees)
    /\ pushed \in 0..Len(commits)
    /\ hook \in BOOLEAN /\ remote \in BOOLEAN /\ unscanned \in BOOLEAN
    /\ backup \in {"idle", "add", "assert", "commit", "push"}

(* The tip can only be relied on since a backup under way has its hook.    *)
BackupInv ==
    /\ BackupTypes
    /\ backup # "idle" => hook
    /\ RemoteTipIsClean

LEMMA EmptyTreeIsClean == EmptyTree \in Trees /\ Clean(EmptyTree)
  BY DEF EmptyTree, Trees, Paths, Texts, Clean, NoAmount, FinancePaths

(* What the hook lets pass on top of a clean tip is clean.                 *)
LEMMA HookKeepsClean ==
  ASSUME NEW old \in Trees, NEW new \in Trees, Clean(old), ~ScanRefuses(old, new)
  PROVE  Clean(new)
  BY DEF Clean, NoAmount, ScanRefuses, Trees

(* A commit on top does not disturb the trees below it.                    *)
LEMMA TreesStay ==
  ASSUME NEW tree \in Trees, commits \in Seq(Trees), NEW n \in 0..Len(commits),
         commits' = Append(commits, tree)
  PROVE  TreeAt(n)' = TreeAt(n)
  BY DEF TreeAt

LEMMA BackupStart == BackupInit => BackupInv
<1> SUFFICES ASSUME BackupInit PROVE BackupInv
  OBVIOUS
<1>1. BackupTypes
  <2>1. hook \in BOOLEAN /\ remote \in BOOLEAN /\ unscanned \in BOOLEAN
    BY DEF BackupInit
  <2>2. commits \in Seq(Trees) /\ pushed \in 0..Len(commits)
    BY EmptySeq DEF BackupInit
  <2> QED  BY <2>1, <2>2, EmptyTreeIsClean DEF BackupInit, BackupTypes
<1>2. RemoteTipIsClean
  BY EmptyTreeIsClean DEF BackupInit, RemoteTipIsClean, TreeAt
<1> QED  BY <1>1, <1>2 DEF BackupInit, BackupInv

LEMMA BackupStep == BackupInv /\ [BackupNext]_backupVars => BackupInv'
<1> SUFFICES ASSUME BackupInv, [BackupNext]_backupVars PROVE BackupInv'
  OBVIOUS
<1>0. BackupTypes /\ RemoteTipIsClean
  BY DEF BackupInv
(* Steps that leave the history of both sides alone.                       *)
<1>1. ASSUME UNCHANGED <<commits, pushed, unscanned>>, BackupTypes',
             backup' # "idle" => hook'
      PROVE  BackupInv'
  BY <1>0, <1>1 DEF BackupInv, RemoteTipIsClean, TreeAt
<1>2. CASE StartBackup \/ AssertFinance \/ BackupCrash
  BY <1>1, <1>2 DEF StartBackup, Ready, AssertFinance, BackupCrash, BackupInv, BackupTypes
<1>3. CASE Stage
  <2>1. index' \in Trees
    BY <1>0, <1>3 DEF Stage, BackupTypes, Trees
  <2> QED  BY <1>1, <1>3, <2>1 DEF Stage, BackupInv, BackupTypes
<1>4. CASE Commit
  <2>1. CASE index = TreeAt(Len(commits))
    BY <1>1, <1>4, <2>1 DEF Commit, BackupInv, BackupTypes
  <2>2. CASE index # TreeAt(Len(commits))
    <3>1. commits' = Append(commits, index) /\ backup' = "push" /\ backup = "commit"
          /\ UNCHANGED <<work, index, pushed, hook, remote, unscanned>>
      BY <1>4, <2>2 DEF Commit
    <3>2. BackupTypes'
      BY <1>0, <3>1 DEF BackupTypes
    <3>3. TreeAt(pushed)' = TreeAt(pushed)
      BY <1>0, <3>1 DEF BackupTypes, TreeAt
    <3> QED  BY <1>0, <3>1, <3>2, <3>3 DEF BackupInv, RemoteTipIsClean
  <2> QED  BY <2>1, <2>2
<1>5. CASE Push
  <2>0. backup = "push" /\ backup' = "idle" /\ UNCHANGED <<work, index, commits, hook, remote>>
    BY <1>5 DEF Push
  <2>1. CASE UNCHANGED <<pushed, unscanned>>
    BY <1>0, <1>1, <2>0, <2>1 DEF BackupTypes
  <2>2. ASSUME NEW scanned \in BOOLEAN, pushed' = Len(commits),
               scanned => ~ScanRefuses(TreeAt(pushed), TreeAt(Len(commits))),
               unscanned' = (unscanned \/ (hook /\ ~scanned))
        PROVE  BackupInv'
    <3>1. unscanned' \in BOOLEAN /\ (~unscanned' => ~unscanned /\ scanned)
      BY <1>0, <2>0, <2>2 DEF BackupInv, BackupTypes
    <3>2. TreeAt(pushed) \in Trees /\ TreeAt(Len(commits)) \in Trees
      BY <1>0, EmptyTreeIsClean DEF BackupTypes, TreeAt
    <3>3. unscanned' \/ Clean(TreeAt(Len(commits)))
      BY <1>0, <2>2, <3>1, <3>2, HookKeepsClean DEF RemoteTipIsClean
    <3>4. TreeAt(pushed)' = TreeAt(Len(commits))
      BY <2>0, <2>2 DEF TreeAt
    <3>5. RemoteTipIsClean'
      BY <3>3, <3>4 DEF RemoteTipIsClean
    <3>6. BackupTypes'
      BY <1>0, <2>0, <2>2, <3>1 DEF BackupTypes
    <3> QED  BY <2>0, <3>5, <3>6 DEF BackupInv
  <2> QED  BY <1>5, <2>1, <2>2 DEF Push
<1>6. ASSUME NEW path \in Paths, NEW text \in Texts, WriteFile(path, text)
      PROVE  BackupInv'
  <2>1. work' \in Trees
    BY <1>0, <1>6 DEF WriteFile, BackupTypes, Trees
  <2> QED  BY <1>1, <1>6, <2>1 DEF WriteFile, BackupInv, BackupTypes
<1>7. ASSUME NEW path \in Paths, ForceStage(path) \/ Untrack(path)
      PROVE  BackupInv'
  <2>1. index' \in Trees
    BY <1>0, <1>7 DEF ForceStage, Untrack, BackupTypes, Trees, Texts
  <2> QED  BY <1>1, <1>7, <2>1 DEF ForceStage, Untrack, BackupInv, BackupTypes
<1>8. CASE Configure
  BY <1>1, <1>8 DEF Configure, BackupInv, BackupTypes
<1>9. CASE UNCHANGED backupVars
  BY <1>1, <1>9 DEF backupVars, BackupInv, BackupTypes
<1> QED  BY <1>2, <1>3, <1>4, <1>5, <1>6, <1>7, <1>8, <1>9 DEF BackupNext

(* Whatever was written, staged and committed, and wherever a backup fails *)
(* or is cut short, the remote's tip holds no finance path and no amount,  *)
(* until a push goes out that the hook has not read                        *)
(* (memory/backup.ts:99-162, kernel-memory-pre-push.sh:40-99).             *)
THEOREM TipStaysClean == BackupSpec => []RemoteTipIsClean
<1>1. BackupInv => RemoteTipIsClean
  BY DEF BackupInv
<1> QED  BY <1>1, BackupStart, BackupStep, PTL DEF BackupSpec
=================================================================================
