---------------------------- MODULE WorkingMemory ----------------------------
(***************************************************************************)
(* Working memory: the briefing the loop gives the brain (memory/inject.ts *)
(* on top of identity.ts and retrieve.ts), the guard of IDENTITY.md at     *)
(* start (index.ts) and the compact command (commands/compact-cmd.ts).     *)
(*                                                                         *)
(* The daemon does one thing at a time, and a step is one access to a file *)
(* or the wait for the brain: the owner, in an editor of his own, and a    *)
(* crash come in between any two.  A note is a piece of text the owner     *)
(* writes into current.md; a size is counted in notes.  A turn of the      *)
(* daily logs is told by what gatherRecentTurns asks of it.                *)
(***************************************************************************)
EXTENDS Naturals, Sequences, FiniteSets, SequencesExt

CONSTANTS
    Notes,          \* what the owner may write into current.md
    Docs,           \* under knowledge, tasks, projects: [name, source, size]
    Cap,            \* injectCap
    IdentitySize,   \* the length of IDENTITY.md
    RecentTurns,    \* MAX_TURNS
    MaxEdits,       \* bound on the versions of IDENTITY.md
    MaxTurns        \* bound on the turns logged

ASSUME WorkingNats ==
    /\ Cap \in Nat \ {0} /\ IdentitySize \in Nat /\ RecentTurns \in Nat
    /\ MaxEdits \in Nat \ {0} /\ MaxTurns \in Nat

ASSUME DocsAreFiles == IsFiniteSet(Docs) /\ \A doc \in Docs : doc.size \in Nat

NoHash == 0
TurnKinds == {"trusted", "command", "external"}

VARIABLES
    identity,       \* the version of IDENTITY.md
    baseline,       \* self/identity.hash: the version it is of, if any
    current,        \* current.md: notes, size of a summary, kinds of turns in it
    archive,        \* the notes in working-memory/archive
    turns,          \* the daily logs, oldest first
    task,           \* what the daemon is at
    briefing,       \* history: what the brain was last given
    raced           \* history: notes written while compact had read, not written

workingVars ==
    <<identity, baseline, current, archive, turns, task, briefing, raced>>

Blank == [notes |-> {}, summary |-> 0, kinds |-> {}]

(* A task: its step; whether it boots or serves an intent; the hash it has *)
(* read; the version of IDENTITY.md and the scratchpad it has read; the    *)
(* kinds of the turns gathered; history: IDENTITY.md changed since its     *)
(* hash was found good.                                                    *)
Down == [at |-> "down", boots |-> FALSE, hash |-> NoHash, text |-> NoHash,
         old |-> Blank, kinds |-> {}, swapped |-> FALSE]
Idle == [Down EXCEPT !.at = "idle"]

NoBriefing == [text |-> NoHash, hash |-> NoHash, swapped |-> FALSE,
               size |-> 0, docs |-> {}, kinds |-> {}]

WorkingInit ==
    /\ identity = 1 /\ baseline = NoHash
    /\ current = Blank /\ archive = {} /\ turns = <<>>
    /\ task = Down /\ briefing = NoBriefing /\ raced = {}

Size(scratchpad) == Cardinality(scratchpad.notes) + scratchpad.summary

-----------------------------------------------------------------------------
(* guardIdentity, and the first half of assemble: the same two calls.      *)

Boot ==
    /\ task.at = "down"
    /\ task' = [Down EXCEPT !.at = "seed", !.boots = TRUE]
    /\ UNCHANGED <<identity, baseline, current, archive, turns, briefing, raced>>

Intent ==
    /\ task.at = "idle"
    /\ task' = [Idle EXCEPT !.at = "seed"]
    /\ UNCHANGED <<identity, baseline, current, archive, turns, briefing, raced>>

(* baselineIdentityHash: only an absent baseline is recorded.              *)
SeedBaseline ==
    /\ task.at = "seed"
    /\ task' = IF baseline = NoHash
               THEN [task EXCEPT !.at = "record", !.hash = identity]
               ELSE [task EXCEPT !.at = "verify"]
    /\ UNCHANGED <<identity, baseline, current, archive, turns, briefing, raced>>

RecordBaseline ==
    /\ task.at = "record"
    /\ baseline' = task.hash
    /\ task' = [task EXCEPT !.at = "verify"]
    /\ UNCHANGED <<identity, current, archive, turns, briefing, raced>>

(* readIdentityVerified.  A missing baseline, like a mismatch, throws: at  *)
(* start the process exits, in the loop nobody catches it either.          *)
ReadBaseline ==
    /\ task.at = "verify"
    /\ task' = IF baseline = NoHash THEN Down
               ELSE [task EXCEPT !.at = "hash", !.hash = baseline]
    /\ UNCHANGED <<identity, baseline, current, archive, turns, briefing, raced>>

MatchesAnything(hash) == TRUE       \* slip: a mismatch is not an error

Matches(hash) == identity = hash

HashIdentity ==
    /\ task.at = "hash"
    /\ task' = IF Matches(task.hash) THEN [task EXCEPT !.at = "identity"] ELSE Down
    /\ UNCHANGED <<identity, baseline, current, archive, turns, briefing, raced>>

ReadIdentity ==
    /\ task.at = "identity"
    /\ task' = IF task.boots THEN Idle
               ELSE [task EXCEPT !.at = "current", !.text = identity]
    /\ UNCHANGED <<identity, baseline, current, archive, turns, briefing, raced>>

-----------------------------------------------------------------------------
(* assemble, from current.md on.                                           *)

SepSize == 1

ReadCurrent ==
    /\ task.at = "current"
    /\ task' = [task EXCEPT !.at = "fill", !.old = current]
    /\ UNCHANGED <<identity, baseline, current, archive, turns, briefing, raced>>

FixedSize(scratchpad) ==
    IF scratchpad = Blank THEN IdentitySize
    ELSE IdentitySize + SepSize + Size(scratchpad)

Cost(doc) == doc.size + SepSize

Admits(doc, budget) == doc.source # "external" /\ Cost(doc) <= budget

(* One that overflows is skipped, and a smaller one after it may still be  *)
(* taken.                                                                  *)
Consider(taken, doc) ==
    IF Admits(doc, taken.budget)
    THEN [docs |-> Append(taken.docs, doc), budget |-> taken.budget - Cost(doc)]
    ELSE taken

(* The ranked candidates, greedily.                                        *)
Greedy(ranked, budget) ==
    FoldLeft(Consider, [docs |-> <<>>, budget |-> budget], ranked).docs

(* The length of the parts joined.                                         *)
Longer(size, doc) == size + SepSize + doc.size

JoinedSize(scratchpad, docs) == FoldLeft(Longer, FixedSize(scratchpad), docs)

(* retrieveAndRerank ranks whatever the query has a word in common with.   *)
(* A fixed block over the cap goes out uncut, with nothing after it.       *)
Brief ==
    /\ task.at = "fill"
    /\ \E ranked \in SetToAllKPermutations(Docs) :
          LET fixed == FixedSize(task.old)
              docs == IF fixed > Cap THEN <<>> ELSE Greedy(ranked, Cap - fixed)
          IN  briefing' = [text |-> task.text, hash |-> task.hash,
                           swapped |-> task.swapped, docs |-> ToSet(docs),
                           size |-> JoinedSize(task.old, docs),
                           kinds |-> task.old.kinds]
    /\ task' = [Idle EXCEPT !.at = "reason"]
    /\ UNCHANGED <<identity, baseline, current, archive, turns, raced>>

(* The pass ends with its session in the log.                              *)
LogTurn ==
    /\ task.at = "reason" /\ Len(turns) < MaxTurns
    /\ \E kind \in TurnKinds : turns' = Append(turns, kind)
    /\ task' = Idle
    /\ UNCHANGED <<identity, baseline, current, archive, briefing, raced>>

-----------------------------------------------------------------------------
(* runCompact.                                                             *)

GatheredAll == DOMAIN turns         \* slip: no turn is passed over

(* gatherRecentTurns: neither external ones nor commands, and of the rest  *)
(* the last ones.                                                          *)
Gathered ==
    LET replied == {i \in DOMAIN turns : turns[i] = "trusted"}
    IN  {i \in replied : Cardinality({j \in replied : j >= i}) <= RecentTurns}

(* The scratchpad and the recent turns; with neither there is nothing to do. *)
Compact ==
    /\ task.at = "idle"
    /\ current # Blank \/ Gathered # {}
    /\ task' = [Idle EXCEPT !.at = "summary", !.old = current,
                             !.kinds = {turns[i] : i \in Gathered}]
    /\ raced' = {}
    /\ UNCHANGED <<identity, baseline, current, archive, turns, briefing>>

(* slip: the scratchpad is overwritten before it is archived.              *)
AfterSummaryWrites(old) == "truncate"

(* An empty scratchpad is not archived.                                    *)
AfterSummary(old) == IF old = Blank THEN "truncate" ELSE "archive"

(* The brain answers, usably or not, or rejects: then the digest stands in.*)
(* A digest drops what the scratchpad said.                                *)
Summarize ==
    /\ task.at = "summary"
    /\ \E usable \in BOOLEAN :
          task' = [task EXCEPT !.at = AfterSummary(task.old),
                               !.kinds = @ \cup IF usable THEN task.old.kinds ELSE {}]
    /\ UNCHANGED <<identity, baseline, current, archive, turns, briefing, raced>>

ArchiveOld ==
    /\ task.at = "archive"
    /\ archive' = archive \cup task.old.notes
    /\ task' = [task EXCEPT !.at = "truncate"]
    /\ UNCHANGED <<identity, baseline, current, turns, briefing, raced>>

(* writeFileSync empties the file before it writes it.                     *)
Truncate ==
    /\ task.at = "truncate"
    /\ current' = Blank
    /\ task' = [task EXCEPT !.at = "write"]
    /\ UNCHANGED <<identity, baseline, archive, turns, briefing, raced>>

WriteSummary ==
    /\ task.at = "write"
    /\ current' = [notes |-> {}, summary |-> 1, kinds |-> task.kinds]
    /\ task' = [Idle EXCEPT !.at = "logged"]
    /\ UNCHANGED <<identity, baseline, archive, turns, briefing, raced>>

(* The command's own session.                                              *)
LogCommand ==
    /\ task.at = "logged" /\ Len(turns) < MaxTurns
    /\ turns' = Append(turns, "command")
    /\ task' = Idle
    /\ UNCHANGED <<identity, baseline, current, archive, briefing, raced>>

-----------------------------------------------------------------------------
(* The owner and the process.                                              *)

Compacting == task.at \in {"summary", "archive", "truncate", "write"}

WriteNote(note) ==
    /\ note \notin current.notes \cup archive
    /\ current' = [current EXCEPT !.notes = @ \cup {note}]
    /\ raced' = IF Compacting THEN raced \cup {note} ELSE raced
    /\ UNCHANGED <<identity, baseline, archive, turns, task, briefing>>

EditIdentity ==
    /\ identity < MaxEdits
    /\ identity' = identity + 1
    /\ task' = [task EXCEPT !.swapped = @ \/ task.at = "identity"]
    /\ UNCHANGED <<baseline, current, archive, turns, briefing, raced>>

(* The deliberate re-baseline: the file deleted, or replaced.              *)
Rebaseline ==
    /\ baseline' \in {NoHash, identity} \ {baseline}
    /\ UNCHANGED <<identity, current, archive, turns, task, briefing, raced>>

Crash ==
    /\ task.at # "down" /\ task' = Down
    /\ UNCHANGED <<identity, baseline, current, archive, turns, briefing, raced>>

WorkingNext ==
    \/ Boot \/ Intent \/ SeedBaseline \/ RecordBaseline \/ ReadBaseline
    \/ HashIdentity \/ ReadIdentity \/ ReadCurrent \/ Brief \/ LogTurn
    \/ Compact \/ Summarize \/ ArchiveOld \/ Truncate \/ WriteSummary \/ LogCommand
    \/ \E note \in Notes : WriteNote(note)
    \/ EditIdentity \/ Rebaseline \/ Crash

WorkingSpec == WorkingInit /\ [][WorkingNext]_workingVars

-----------------------------------------------------------------------------
(* No note disappears from the scratchpad but into an archive, wherever a  *)
(* compaction is cut short (compact-cmd.ts:15, :217), except one the owner *)
(* wrote after the compaction had read the file.                           *)
NotesKept ==
    [][current.notes \ raced \subseteq current'.notes \cup archive']_workingVars

(* The persona the brain is given is the one the baseline is of, although  *)
(* it is read once to hash it and again to use it, unless it was edited    *)
(* between the two (identity.ts:87).                                       *)
InjectedIsVerified == briefing.text = briefing.hash \/ briefing.swapped

(* No text of an external source, by itself or through a compaction that   *)
(* had its turn before it (compact-cmd.ts:16, inject.ts:134).              *)
ContextIsTrusted ==
    /\ \A doc \in briefing.docs : doc.source # "external"
    /\ "external" \notin briefing.kinds

(* The joined text is within the cap, unless persona and scratchpad alone  *)
(* are over it (inject.ts:102, :144).                                      *)
ContextFits == briefing.size <= Cap \/ briefing.docs = {}

(* The briefing is trusted and fits, through compactions, greedy filling   *)
(* and a scratchpad that grows meanwhile.                                  *)
BriefingIsSound == ContextIsTrusted /\ ContextFits
=============================================================================
