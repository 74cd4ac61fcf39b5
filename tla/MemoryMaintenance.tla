-------------------------- MODULE MemoryMaintenance --------------------------
(***************************************************************************)
(* The append-only daily logs and the two nightly jobs over them: the      *)
(* daemon appends a session block to the log of the (UTC) day, one job     *)
(* distils every log into a reflection and promotes its durable facts into *)
(* knowledge/, the other removes reflections and logs whose file is older  *)
(* than the retention window.  (log.ts, consolidate.ts, prune.ts,          *)
(* index.ts.)                                                              *)
(*                                                                         *)
(* Daemon and jobs are three processes over one file system; a step of a   *)
(* job is one file system call.  launchd starts a job once a night, or on  *)
(* wake if the machine slept through it, and never twice at once.          *)
(***************************************************************************)
EXTENDS Naturals, FiniteSets, FiniteSetsExt

CONSTANTS
    Facts,          \* the session blocks that may be logged
    SourceOf,       \* the source line of each block, as parseLog reads it
    Durable,        \* the facts isDurable keeps
    MaxDay,         \* bound on the days with a log
    Retention       \* DEFAULT_RETENTION_DAYS

Sources == {"user", "self", "external"}

ASSUME SourceOfOK == SourceOf \in [Facts -> Sources]
ASSUME DurableOK == Durable \subseteq Facts
ASSUME MaxDayPos == MaxDay \in Nat \ {0}
ASSUME RetentionPos == Retention \in Nat \ {0}

Days == 1..MaxDay
Age == 0..(Retention + 1)       \* days since the last write, capped
Trusted == {f \in Facts : SourceOf[f] # "external"}

VARIABLES
    today,          \* a day of Days, or MaxDay + 1 for every later one
    log,            \* logs/{date}.md, as the blocks it holds
    logAge,         \* of that file
    reflection,     \* working-memory/reflections/{date}.md, by its facts
    reflectionAge,
    knowledge,      \* the promoted files: <<day, fact>>
    con,            \* the consolidation process
    cln,            \* the cleanup process
    distilled,      \* consolidation has run to the end since midnight
    cleaned,        \* and so has cleanup
    pruned,         \* history: the facts whose log was removed
    healthy         \* history: every night both jobs ran in order, to the end

files == <<log, logAge, reflection, reflectionAge, knowledge>>
memVars == <<today, files, con, cln, distilled, cleaned, pruned, healthy>>

(* A file is absent, or holds a set of facts.                              *)
NoFile == [exists |-> FALSE, facts |-> {}]
Holding(s) == [exists |-> TRUE, facts |-> s]
File == {NoFile} \cup {Holding(s) : s \in SUBSET Facts}

(* A consolidation: the logs still to read, the one in hand, the facts of  *)
(* it still to write.                                                      *)
IdleCon == [at |-> "idle", todo |-> {}, day |-> 1, facts |-> {}]
Con == [at : {"idle", "read", "reflect", "promote"}, todo : SUBSET Days,
        day : Days, facts : SUBSET Facts]

(* A cleanup: the directory it is in, the entries still to look at, and    *)
(* the one it found old.                                                   *)
IdleCln == [at |-> "idle", todo |-> {}, old |-> {}]
Cln == [at : {"idle", "reflections", "logs"}, todo : SUBSET Days, old : SUBSET Days]

MemTypeOK ==
    /\ today \in 1..(MaxDay + 1)
    /\ log \in [Days -> File] /\ reflection \in [Days -> File]
    /\ logAge \in [Days -> Age] /\ reflectionAge \in [Days -> Age]
    /\ knowledge \subseteq Days \X Facts
    /\ con \in Con /\ cln \in Cln
    /\ con.at = "read" => con.todo # {}
    /\ distilled \in BOOLEAN /\ cleaned \in BOOLEAN
    /\ pruned \subseteq Facts
    /\ healthy \in BOOLEAN

MemInit ==
    /\ today = 1
    /\ log = [d \in Days |-> NoFile] /\ reflection = [d \in Days |-> NoFile]
    /\ logAge = [d \in Days |-> 0] /\ reflectionAge = [d \in Days |-> 0]
    /\ knowledge = {}
    /\ con = IdleCon /\ cln = IdleCln
    /\ distilled = FALSE /\ cleaned = FALSE
    /\ pruned = {}
    /\ healthy = TRUE

Present(f) == {d \in Days : f[d].exists}

-----------------------------------------------------------------------------
(* The daemon and the heartbeat.                                           *)

Truncated(d, f) == Holding({f})         \* slip: writeFileSync for appendFileSync

Appended(d, f) == Holding(log[d].facts \cup {f})

LogSession(f) ==
    /\ today \in Days
    /\ f \notin pruned /\ \A d \in Days : f \notin log[d].facts
    /\ log' = [log EXCEPT ![today] = Appended(today, f)]
    /\ logAge' = [logAge EXCEPT ![today] = 0]
    /\ UNCHANGED <<today, reflection, reflectionAge, knowledge, con, cln,
                   distilled, cleaned, pruned, healthy>>

(* A heartbeat line makes a log with no session block in it.               *)
LogHeartbeat ==
    /\ today \in Days
    /\ log' = [log EXCEPT ![today] = Holding(log[today].facts)]
    /\ logAge' = [logAge EXCEPT ![today] = 0]
    /\ UNCHANGED <<today, reflection, reflectionAge, knowledge, con, cln,
                   distilled, cleaned, pruned, healthy>>

-----------------------------------------------------------------------------
(* runConsolidation.                                                       *)

ConOnly == UNCHANGED <<today, log, logAge, cln, cleaned, pruned, healthy>>

(* After the log in hand: the next one, or the end.                        *)
NextLog(todo) ==
    /\ con' = IF todo = {} THEN IdleCon
              ELSE [IdleCon EXCEPT !.at = "read", !.todo = todo]
    /\ distilled' = (todo = {})

ListLogs ==
    /\ con.at = "idle" /\ ~distilled
    /\ NextLog(Present(log))
    /\ UNCHANGED <<reflection, reflectionAge, knowledge>> /\ ConOnly

(* The oldest log.  One that is gone by now throws, and ends the job; one  *)
(* without a fact is passed over.                                          *)
ReadLog ==
    /\ con.at = "read"
    /\ LET d == Min(con.todo)
           rest == con.todo \ {d}
       IN CASE ~log[d].exists -> con' = IdleCon /\ UNCHANGED distilled
            [] log[d].exists /\ log[d].facts = {} -> NextLog(rest)
            [] OTHER -> /\ con' = [at |-> "reflect", todo |-> rest,
                                   day |-> d, facts |-> log[d].facts]
                        /\ UNCHANGED distilled
    /\ UNCHANGED <<reflection, reflectionAge, knowledge>> /\ ConOnly

(* Slips: everything is promoted; nothing of the owner's is.               *)
PromotesAll(s) == s \cap Durable
PromotesSelfOnly(s) == {f \in s \cap Durable : SourceOf[f] = "self"}

Promotable(s) == s \cap Trusted \cap Durable

WriteReflection ==
    /\ con.at = "reflect"
    /\ reflection' = [reflection EXCEPT ![con.day] = Holding(con.facts)]
    /\ reflectionAge' = [reflectionAge EXCEPT ![con.day] = 0]
    /\ con' = [con EXCEPT !.at = "promote", !.facts = Promotable(con.facts)]
    /\ UNCHANGED <<knowledge, distilled>> /\ ConOnly

(* One knowledge file per fact, named by its day and text.                 *)
PromoteFact(f) ==
    /\ con.at = "promote" /\ f \in con.facts
    /\ knowledge' = knowledge \cup {<<con.day, f>>}
    /\ con' = [con EXCEPT !.facts = @ \ {f}]
    /\ UNCHANGED <<reflection, reflectionAge, distilled>> /\ ConOnly

LogDone ==
    /\ con.at = "promote" /\ con.facts = {}
    /\ NextLog(con.todo)
    /\ UNCHANGED <<reflection, reflectionAge, knowledge>> /\ ConOnly

-----------------------------------------------------------------------------
(* runCleanup: reflections, then logs; knowledge/ is never listed.         *)

ClnOnly == UNCHANGED <<today, logAge, reflectionAge, knowledge, con, distilled>>

ListReflections ==
    /\ cln.at = "idle" /\ ~cleaned
    /\ healthy' = (healthy /\ distilled)
    /\ cln' = [at |-> "reflections", todo |-> Present(reflection), old |-> {}]
    /\ UNCHANGED <<log, reflection, cleaned, pruned>> /\ ClnOnly

ListOldLogs ==
    /\ cln.at = "reflections" /\ cln.todo = {} /\ cln.old = {}
    /\ cln' = [at |-> "logs", todo |-> Present(log), old |-> {}]
    /\ UNCHANGED <<log, reflection, cleaned, pruned, healthy>> /\ ClnOnly

AgeOf(d) == IF cln.at = "logs" THEN logAge[d] ELSE reflectionAge[d]

(* Slip: a file of any age is old.                                         *)
AnyAge(d) == TRUE

TooOld(d) == AgeOf(d) > Retention

(* The stat of one entry.                                                  *)
CheckAge(d) ==
    /\ d \in cln.todo /\ cln.old = {}
    /\ cln' = [cln EXCEPT !.todo = @ \ {d}, !.old = IF TooOld(d) THEN {d} ELSE {}]
    /\ UNCHANGED <<log, reflection, cleaned, pruned, healthy>> /\ ClnOnly

(* And its rm.                                                             *)
RemoveReflection(d) ==
    /\ cln.at = "reflections" /\ d \in cln.old
    /\ reflection' = [reflection EXCEPT ![d] = NoFile]
    /\ cln' = [cln EXCEPT !.old = {}]
    /\ UNCHANGED <<log, cleaned, pruned, healthy>> /\ ClnOnly

RemoveLog(d) ==
    /\ cln.at = "logs" /\ d \in cln.old
    /\ log' = [log EXCEPT ![d] = NoFile]
    /\ pruned' = pruned \cup log[d].facts
    /\ cln' = [cln EXCEPT !.old = {}]
    /\ UNCHANGED <<reflection, cleaned, healthy>> /\ ClnOnly

CleanupEnds ==
    /\ cln.at = "logs" /\ cln.todo = {} /\ cln.old = {}
    /\ cln' = IdleCln /\ cleaned' = TRUE
    /\ UNCHANGED <<log, reflection, pruned, healthy>> /\ ClnOnly

-----------------------------------------------------------------------------
(* The machine: it may stop a job at any point, and sleep for days.        *)

JobDies ==
    /\ \/ con.at # "idle" /\ con' = IdleCon /\ UNCHANGED cln
       \/ cln.at # "idle" /\ cln' = IdleCln /\ UNCHANGED con
    /\ healthy' = FALSE
    /\ UNCHANGED <<today, files, distilled, cleaned, pruned>>

Older(age) == [d \in Days |-> IF age[d] > Retention THEN age[d] ELSE age[d] + 1]

Midnight ==
    /\ healthy' = (healthy /\ distilled /\ cleaned)
    /\ today' = IF today \in Days THEN today + 1 ELSE today
    /\ logAge' = Older(logAge) /\ reflectionAge' = Older(reflectionAge)
    /\ distilled' = FALSE /\ cleaned' = FALSE
    /\ UNCHANGED <<log, reflection, knowledge, con, cln, pruned>>

Consolidates ==
    \/ ListLogs \/ ReadLog \/ WriteReflection \/ LogDone
    \/ \E f \in Facts : PromoteFact(f)

CleansUp ==
    \/ ListReflections \/ ListOldLogs \/ CleanupEnds
    \/ \E d \in Days : CheckAge(d) \/ RemoveReflection(d) \/ RemoveLog(d)

MemNext ==
    \/ \E f \in Facts : LogSession(f)
    \/ LogHeartbeat
    \/ Consolidates \/ CleansUp
    \/ JobDies \/ Midnight

MemSpec == MemInit /\ [][MemNext]_memVars
MemFairSpec ==
    /\ MemSpec
    /\ WF_memVars(Consolidates) /\ WF_memVars(CleansUp) /\ WF_memVars(Midnight)

-----------------------------------------------------------------------------
LoggedFacts == UNION {log[d].facts : d \in Days}
KnownFacts == {k[2] : k \in knowledge}

(* What knowledge/ holds was logged on that day, by a trusted source, and  *)
(* is durable; a reflection holds nothing that was not logged              *)
(* (consolidate.ts:12-16).                                                 *)
KnowledgeIsVetted ==
    /\ \A k \in knowledge :
          k[2] \in Trusted \cap Durable /\ k[2] \in log[k[1]].facts \cup pruned
    /\ \A d \in Days : reflection[d].facts \subseteq log[d].facts \cup pruned

(* A promoted fact stays, and a log only grows until it is removed whole   *)
(* (CORE-05; prune.ts:8-12).                                               *)
MemoryKept ==
    [][/\ knowledge \subseteq knowledge'
       /\ \A d \in Days : log'[d].exists => log[d].facts \subseteq log'[d].facts]_memVars

(* Old logs were "already distilled by consolidation" (prune.ts:6) when    *)
(* they are removed: no durable fact of the owner's goes with its log.     *)
PrunedWasDistilled == pruned \cap Trusted \cap Durable \subseteq KnownFacts

(* It is so as long as no night was slept through, no job stopped halfway  *)
(* and cleanup came after consolidation, as the two schedules intend.      *)
PrunedWhenHealthy == healthy => PrunedWasDistilled

(* The log on its way out is never the one the daemon writes to, however   *)
(* long cleanup takes between its stat and its rm (prune.ts:76-80).        *)
FreshLogsStay == \A d \in Days : d \in cln.old /\ cln.at = "logs" => d < today

(* A durable fact of the owner's, once logged, is promoted, if every night *)
(* is such a night.                                                        *)
FactsArePromoted ==
    \A f \in Facts :
        f \in LoggedFacts \cap Trusted \cap Durable ~> f \in KnownFacts \/ ~healthy
=============================================================================
