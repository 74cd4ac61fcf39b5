---------------------------- MODULE ClaudeSession ----------------------------
(***************************************************************************)
(* A Claude Code session (tools/claude-code.ts) and the pill of the Face   *)
(* that shows it (AppCoordinator.swift): a row in the registry, the        *)
(* prompt, the lines the process prints, and the calls its deny rules      *)
(* blocked, given to dispatch once the process has ended.  Nothing calls   *)
(* runSession yet, so who asks for a session is left open.                 *)
(*                                                                         *)
(* A line is what JSON.parse makes of it: "chunk" an assistant text,       *)
(* "result" the final event with its text and denials, "noise" anything    *)
(* else, lines that are not JSON included.  An entry of the denials may be *)
(* of any shape too: the list is checked, and not what is in it.           *)
(***************************************************************************)
EXTENDS Naturals, Sequences, SequencesExt

CONSTANTS
    Scripts,        \* what a process may print: sequences of lines
    Entries,        \* of a permission_denials list
    Malformed,      \* those that cannot be mapped to a call, null for one
    Denied,         \* the lists a result line may carry
    MaxSessions     \* bound on the rows of the registry

LineKind == {"chunk", "result", "noise"}

ASSUME ScriptsAreLines == Scripts \subseteq Seq(LineKind)
ASSUME DeniedAreSeqs == Denied \subseteq Seq(Entries)

VARIABLES
    rows,           \* rows of projects/registry.md
    session,        \* runSession: its place, its denials so far
    output,         \* what the process has still to print
    blocked,        \* history: the denials that were printed
    regated,        \* history: the calls given to dispatch
    posted,         \* transcript frames on their way
    pill,           \* transcriptLines
    paused,         \* transcriptPaused
    streaming       \* transcriptStreaming

pillVars == <<pill, paused, streaming>>
sessionVars == <<rows, session, output, blocked, regated, posted, pillVars>>

NoSession == [at |-> "idle", denials |-> <<>>]

SessionInit ==
    /\ rows = 0 /\ session = NoSession /\ output = <<>>
    /\ blocked = <<>> /\ regated = <<>>
    /\ posted = <<>> /\ pill = <<>> /\ paused = FALSE /\ streaming = FALSE

KernelLine == [role |-> "kernel", partial |-> FALSE]
ClaudeLine(partial) == [role |-> "claude", partial |-> partial]

(* The registry row, the prompt, and the process.  A row that cannot be    *)
(* written is only logged; a process that cannot be spawned prints nothing.*)
StartSession(script) ==
    /\ session.at = "idle" /\ rows < MaxSessions
    /\ rows' = rows + 1
    /\ session' = [NoSession EXCEPT !.at = "stream"]
    /\ output' = script
    /\ blocked' = <<>> /\ regated' = <<>>
    /\ posted' = Append(posted, KernelLine)
    /\ UNCHANGED pillVars

DenialsOf(line) == IF line = "result" THEN Denied ELSE {<<>>}

FramesFrom(line) ==
    CASE line = "chunk" -> <<ClaudeLine(TRUE)>>
      [] line = "result" -> <<ClaudeLine(FALSE)>>
      [] OTHER -> <<>>

Line ==
    /\ session.at = "stream" /\ output # <<>>
    /\ \E new \in DenialsOf(Head(output)) :
          /\ session' = [session EXCEPT !.denials = @ \o new]
          /\ blocked' = blocked \o new
    /\ posted' = posted \o FramesFrom(Head(output))
    /\ output' = Tail(output)
    /\ UNCHANGED <<rows, regated, pillVars>>

(* The process is killed: its output ends, and half a line is dropped.     *)
Killed ==
    /\ session.at = "stream" /\ output # <<>>
    /\ output' = <<>>
    /\ UNCHANGED <<rows, session, blocked, regated, posted, pillVars>>

(* close: the run resolves whatever the exit code was.                     *)
Closed ==
    /\ session.at = "stream" /\ output = <<>>
    /\ session' = [session EXCEPT !.at = "regate"]
    /\ UNCHANGED <<rows, output, blocked, regated, posted, pillVars>>

(* slip: a dispatch that throws ends the loop over the denials.            *)
AfterThrowEnds(thrown, rest) == IF thrown THEN <<>> ELSE rest

(* What is left to give to dispatch after a call that may have thrown.     *)
AfterThrow(thrown, rest) == rest

(* Each denial: a line for the owner, then dispatch; a throw is logged.    *)
Regate ==
    /\ session.at = "regate" /\ session.denials # <<>>
    /\ Head(session.denials) \notin Malformed
    /\ posted' = Append(posted, KernelLine)
    /\ regated' = Append(regated, Head(session.denials))
    /\ \E thrown \in BOOLEAN :
          session' = [session EXCEPT !.denials = AfterThrow(thrown, Tail(@))]
    /\ UNCHANGED <<rows, output, blocked, pillVars>>

(* The mapping is outside that try: runSession rejects, with nothing said  *)
(* of this denial or of the rest.                                          *)
MappingThrows ==
    /\ session.at = "regate" /\ session.denials # <<>>
    /\ Head(session.denials) \in Malformed
    /\ session' = NoSession
    /\ UNCHANGED <<rows, output, blocked, regated, posted, pillVars>>

EndSession ==
    /\ session.at = "regate" /\ session.denials = <<>>
    /\ session' = NoSession
    /\ UNCHANGED <<rows, output, blocked, regated, posted, pillVars>>

-----------------------------------------------------------------------------
(* The Face.                                                               *)

Streams(lines) == lines # <<>> /\ Last(lines) = ClaudeLine(TRUE)

(* appendTranscript: a claude line takes the place of a partial one.       *)
Merged(line) ==
    IF line.role = "claude" /\ Streams(pill)
    THEN Append(Front(pill), line) ELSE Append(pill, line)

AppendTranscript ==
    /\ posted # <<>>
    /\ posted' = Tail(posted)
    /\ pill' = Merged(Head(posted))
    /\ streaming' = (~paused /\ Head(posted) = ClaudeLine(TRUE))
    /\ UNCHANGED <<rows, session, output, blocked, regated, paused>>

Resumed == Streams(pill)

TogglePause ==
    /\ paused' = ~paused
    /\ streaming' = (paused /\ Resumed)
    /\ UNCHANGED <<rows, session, output, blocked, regated, posted, pill>>

SessionNext ==
    \/ \E script \in Scripts : StartSession(script)
    \/ Line \/ Killed \/ Closed \/ Regate \/ MappingThrows \/ EndSession
    \/ AppendTranscript \/ TogglePause

SessionSpec == SessionInit /\ [][SessionNext]_sessionVars

-----------------------------------------------------------------------------
(* What the deny rules blocked is given to dispatch once each, in the      *)
(* order it was printed, never while the process still prints, and all of  *)
(* it by the end (claude-code.ts:277, :299), although dispatch may throw;  *)
(* or all up to the first denial that cannot be mapped.                    *)
GivenToTheEnd ==
    \/ regated = blocked
    \/ /\ Len(regated) < Len(blocked)
       /\ blocked[Len(regated) + 1] \in Malformed

DenialsRegated ==
    /\ IsPrefix(regated, blocked)
    /\ session.at = "stream" => regated = <<>>
    /\ session.at = "idle" => GivenToTheEnd
=============================================================================
