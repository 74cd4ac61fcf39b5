# KERNEL in TLA+

A TLA+ model of KERNEL, a personal assistant for one owner on one Mac: a Node daemon
(`daemon/src`), a macOS client called the Face (`face/Kernel`), a text client
(`daemon/scripts/chat.mjs`) and launchd jobs (`launchd/`). Paths are relative to the
repository; paths without a directory are under `daemon/src`.

    tlc -config MCRedBreaker.cfg MCRedBreaker.tla       # one run
    tlapm RedBreakerProofs.tla                          # one module of proofs

## 1. The system

The daemon is one Node process. It serves newline-delimited JSON frames on a Unix
socket, and handles one utterance at a time: a brain turns it into an action, a
reply or both, the action goes through `dispatch`, and a session block is appended to
the log of the day. Whatever cannot be undone ("Red") passes a gate and then a
circuit breaker, which shows the owner a preview and waits for a window in which it
can be cancelled. The Face draws, speaks, shows the preview's card and holds the
switch between the cloud and the local brain. launchd restarts the daemon when it
dies, and runs a consolidation, a cleanup and a backup job.

| component | state it keeps | operations | talks to | what is hard |
| --- | --- | --- | --- | --- |
| Spend ledger `safety/spend-ledger.ts` | the day's total in a JSON file; a copy in every ledger object | load, reserve, release, day reset | breaker | copies of one file; crash in a write; day roll between reserve and release |
| Gate `safety/gate.ts`, `tiers.ts`, `flags.ts` | none | authorize, classifyTier, detectCredentialField | dispatch | the order of its rules |
| Breaker and dispatch `safety/breaker.ts`, `tools/registry.ts`, `safety/audit.ts` | cancel latch, active preview id, audit log | dispatch, run, signalBreakerCancel | gate, ledger, audit, sockets | one latch for all calls; late and stale cancels; TOCTOU; crash between audit and executor |
| Override `safety/override.ts` | an expiry time | activate, deactivate, isActive | loop, socket | expiry |
| Agent loop `loop.ts` | queue, running flag, provider | enqueue, drain | everything | a pass that awaits while frames arrive; brains that reject |
| IPC `ipc/server.ts`, `protocol.ts` | connected clients, a buffer for each | decode, dispatch of frames, broadcast | loop, breaker, clients | lines cut anywhere; a reply to a client that left; two codecs |
| Obstacle ladder `planner/ladder.ts` | one run's rung and attempt | runLadder | dispatch, brain | retrying what must not be retried |
| Brain selection `settings.ts` | selection, provider, `brain.json` | applySettings, restorePersistedBrain | loop, Face, text client | three copies of one choice, two clients that make it |
| Brains `brain/*.ts` | conversation, usage | reason | loop | time, rejection |
| Meta-commands `commands/*.ts` | scratchpad `current.md` | compact, context, usage | loop, brain | read, await, write |
| Logs, consolidation, pruning `memory/log.ts`, `consolidate.ts`, `prune.ts` | daily logs, reflections, knowledge files | logSession, runConsolidation, runCleanup | two jobs and the daemon | three processes on one directory |
| Identity and injection `memory/identity.ts`, `inject.ts`, `retrieve.ts` | identity baseline | baseline, verify, assemble | loop, boot | hash and text read separately; a budget with separators |
| Backup `memory/backup.ts`, `safety/leakguard.ts`, the pre-push hook | a git repository | stage, assert, commit, push | job, boot | a failure between two git commands; a hook that sees only two tips |
| Finance, keychain `finance/*.ts`, `tools/finance.ts` | encrypted store, its key | key, sync, query | tool, Plaid | pages of a sync; a key made twice |
| Browser `tools/browser.ts` | a page | surface signals, fill | dispatch | a page that moves between probe and fill |
| Claude Code sessions `tools/claude-code.ts` | registry rows, transcript | runSession | dispatch, Face | denials, throws, a killed process |
| Routines `routines/`, cues `ipc/cues.ts` | none | run, assembleSpeak | socket | order and cut of the widgets |
| Mail, voice, metrics | none to speak of | text, one process, reports | | |
| Face: socket `face/.../KernelSocket.swift`, `Frames.swift` | connection, receive buffer | connect, send, receive | daemon | silent drop, no reconnect, callbacks without a connection |
| Face: speech and stage `Speaker.swift`, `StageController.swift` | loaded cues, fired set, widgets | speak, fire, finish | socket | two clocks; callbacks of a replaced utterance |
| Face: card `BreakerPreviewCard.swift`, `AppCoordinator.swift` | countdown, active preview | present, tick, tap | socket | two clocks, replaced views |
| Text client `scripts/chat.mjs` | receive buffer | connect, type, read | daemon, Ollama | an asynchronous data handler |

`PROJECT.json` lists every component with its status, and under `hazards` the lines
where each can go wrong.

## 2. What makes each part correct

* **Ledger**: the grants of a day never pass the ceiling in force, over any sequence of
  objects, releases, days and restarts; the file charges what was executed.
* **Breaker**: a cancel received in the window always wins and stops only its own call;
  nothing Red runs unless it was gated, previewed, reserved and audited; the audit
  log tells what happened; the world is read again before the action and must be the one
  previewed.
* **Loop**: every utterance is served once, in order; no answer leaves before its log block.
* **Selection**: a relaunch keeps the owner's brain, for the provider and for the label;
  the Face shows it as long as only the Face changes it.
* **Socket**: however the bytes are cut, frames are handled whole, once, in order; none
  waits in a buffer for good; what one codec writes the other reads.
* **Ladder**: stops at what the breaker stopped, never claims hollow success, and asks
  only when every rung was tried.
* **Card**: the button stays for the window and the card goes away.
* **Stage**: cues fire without the synthesizer; when the last word is spoken nothing is
  left to fire and the last widget is gone.
* **Memory**: knowledge is vetted, nothing promoted is lost, a log is distilled before it
  is removed; the persona given to the brain is the verified one, the briefing is trusted
  and fits, and compaction loses no note.
* **Backup**: what the remote shows holds no finance data, as long as the hook reads what
  is pushed.
* **Finance**: the key opens the store, an answer after a sync is complete.
* **Fill, sessions**: no field the adapter has read to be a credential is typed into; what
  Claude Code was denied is regated, once each.

## 3. Modules

| module | models | composed of |
| --- | --- | --- |
| `SpendLedger` | the ledger file, its objects, the UTC day, crashes | |
| `Gate` | the verdict on a call, as operators | |
| `RedAction` | abstract: announce, veto, settle | |
| `RedBreaker` | dispatch and `breaker.run` with the production wiring, the preview and cancel frames, the Face, crashes | `SpendLedger`, `Gate`; implements `RedAction` |
| `BrainToggle` | the brain switch in its three copies, set by the Face and by the text client | |
| `IntentQueue` | abstract: accept, serve the oldest, lose all | |
| `AgentLoop` | `enqueue`, `drain`, a brain that rejects, crashes | `BrainToggle`; implements `IntentQueue` |
| `Frames` | the frame types and the two codecs, as operators | |
| `FifoLink` | abstract: post, take the oldest, break | |
| `FrameLink` | the socket: daemon, Face and text client, their buffers and handlers | `Frames`; implements `FifoLink` |
| `ObstacleLadder` | one run of `runLadder` | `Gate` |
| `BreakerCard` | the card's clock against the daemon's | |
| `SpeechStage` | a routine's steps, their cues, Speaker, stage, widgets in focus | |
| `ClaudeSession` | a session, its denials, the pill | |
| `BrowserFill` | probe, gate, fill, on a page that moves | `Gate` |
| `FinanceSync` | key, store, sync, with failures at each call | |
| `WorkingMemory` | identity baseline, briefing, compaction, with the owner's edits and crashes | |
| `Backup` | the backup's git calls, the hook, the owner's staging | |
| `MemoryMaintenance` | log, consolidation, cleanup as three processes | |
| `MCParts` | the components that share no state with each other, side by side | card, stage, ladder, finance, fill, session, working memory, backup, toggle |
| other `MC*` | values for the constants of a run | |
| `RedBreakerProofs` | theorems about ledger and breaker | `RedBreaker`, `NumberLemmas` |
| `AgentLoopProofs` | theorems about toggle and loop | `AgentLoop` |
| `LinkProofs` | theorems about the socket | `FrameLink`, `NumberLemmas` |
| `MemoryProofs` | theorems about the nightly jobs, working memory and backup | those three, `FoldLemmas` |
| `ToolProofs` | theorems about ladder, finance, fill and sessions | those four |
| `FaceProofs` | theorems about card and stage | those two, `FoldLemmas` |
| `NumberLemmas`, `FoldLemmas` | induction, least elements, sums; what a fold computes, for any operator | |

**How state and actions correspond to the code.**

*SpendLedger.* An instance is what one `createSpendLedger` returns; `registry.ts` makes one
for each gated call. `file`/`readable` are the JSON file, `mem` the object's `state`,
`held` its last reserve. `Open` is the constructor with its day roll and optional
write, `Grant`/`Refuse` the two results of `checkAndReserve`, `Release` the give-back,
`Drop` and `Keep` what the breaker does when it cancels or goes on. `SerialLoop` is the
loop's serial drain, which is all that keeps two copies from being live at once.
`granted`, `spent`, `orphaned` are history.

*RedBreaker.* `pc` is where a dispatch awaits; `latch` and `activeId` are the two
module-level variables `breakerCancelled` and `activePreviewId`; `left` counts polls to
the deadline. Code separated only by settled promises is one action, since no socket
event can be handled in between: `DeliverCancel` needs every run to be at a point that
yields. A preview's id is the run (the server stamps a fresh one on each). The
executor is one effect. `ReRead` reads the world again when the window has passed, and the
comparison of the hashes is a step of its own, as are the audit line and the executor; the
world may change before and after each. `ReadsWorld = FALSE` is production's `reReadState`,
which returns the call itself; TRUE is a tool that surfaces the state it depends on, which
`registry.ts:112-113` provides for and no tool of today does.

*AgentLoop.* `pc = "take"` is the head of the while loop; `"compact"`, `"reason"` and
`"dispatch"` are its awaits, the only places where frames are handled; the other values
hold the thread and are separate for a crash only. `queue` and `current` are the
intents. `DecisionsOf` is what each provider can answer. A toggle changes the
provider under a pass, which keeps the one it `asked`. A rejected cloud call
(`ReasonRejects`) is an unhandled rejection and ends the process.

*BrainToggle.* `faceBrain` is the Face's UserDefaults and menu, `selection` and `brain` the
daemon's label and provider, `pref` is `brain.json`; `settings` are the Face's frames in
flight, `commands` those of the text client's `/brain cloud|local`. The daemon tells no
client of the other's choice: `overridden` remembers that the last one applied was the text
client's, `dropped` that the Face's last pick was lost.

*Frames.* A frame is its type, the keys it carries and its length. `Schema` is the zod
union, `FaceDecoder` and `FaceEncoder` the Codable enum; each is written out case by case
from its own file, so that `CodecsAgree` compares two translations. An encoder writes a key
the frame need not have (`encodeIfPresent`) only if it is there, and no decoder asks for it.

*FrameLink.* `up` and `down` are the bytes on the wire, an atom each; a read takes any
number of them. `dbuf`, `fbuf`, `cbuf` are the three buffers. The Face's callbacks become
main actor tasks (`tasks`), which carry no connection; the connection in a task is
history. The text client's handler waits inside its loop for Ollama (`resting`) while
another chunk starts a second handler on the same buffer. `got` is what each direction
handled. A character cut by a read is not modelled: the daemon sets the encoding of its
sockets and the Face buffers bytes, so only the text client would show it.

*ObstacleLadder.* `rung` is where `runLadder` is; `trail` is the history of its dispatches.
What a dispatch may return follows from the gate's verdict on the call.

*BreakerCard.* Time in seconds. `left` is the daemon's window, `remaining` the `@State` of the
card, `due` the pending tick of its timer, which may be late. `Present` is
`presentBreakerPreview` and what SwiftUI does with it: a card that is already there keeps
its countdown.

*SpeechStage.* `RunStep` is the engine's loop, `Sorted`, `CuesOf` and `FinishOf` are
`assembleSpeak`; `loaded`, `fired`,
`finished`, `ticking` are the fields of the stage, `speech` the synthesizer's queue.
`Boundary` is a word callback, of the first utterance in that queue whatever reply is
loaded; `Tick` is the fallback timer, which may skip ahead over sentences it was late for.

*ClaudeSession.* A line of the process is what `JSON.parse` makes of it. `Regate` hands one
denial to dispatch, which may throw; an entry that cannot be mapped to a call throws before
that, and runSession with it (`MappingThrows`). `pill` is what `appendTranscript` makes of
the frames. A line that is JSON and no object, which would end the daemon, is left out.

*BrowserFill.* A field is what its attributes tell. `ProbeType`, `ProbeLabel` and `ProbeFails`
are `surfaceFillSignals`: type and autocomplete, then the label, or nothing when a read fails.
The label is the call's own `args.label` when it has one, whatever it is and whichever locator
is used, and the aria-label otherwise. `Type` is the second lookup in `execute`.

*FinanceSync.* A step is one call of the security CLI, the store or Plaid; the bank books and
settles between any two. `told` is what the last answer showed and should have shown. A
command killed by a signal has no exit code, which the code takes for 0: `AddKey` may go on
with a key that was not written (`unwritten`).

*WorkingMemory.* A step is one file access or the wait for the brain. A version of
IDENTITY.md is its own hash. `Truncate` and `WriteSummary` are the two halves of
`writeFileSync`, `raced` are the notes written while compact held an older scratchpad.

*Backup.* A tree maps three paths to what they hold. `Push` runs the hook, which compares
the two tips only, or finds nothing: git passes over a hook that is not executable, and a
`git diff` that fails inside the hook is ignored (`unscanned`). `AssertFinance` is skipped
when `ls-files` fails. The owner writes and stages between any two git calls.

*MemoryMaintenance.* A step of a job is one file system call. A file is absent or holds a set
of session blocks; age is days since the last write.

## 4. Runs

| run | question | bounds |
| --- | --- | --- |
| `MCRedBreaker` | does the veto hold, do cancels stay with their call, does only what was gated run, does the audit log tell the truth? | 3 dispatches, one call of each verdict, window of 2 polls, one ceiling, torn ledger writes allowed |
| `MCRedBreakerWorld` | does the ceiling hold for the composed system, does the ledger charge what the audit says, also with windows that end in a TOCTOU abort, is the breaker a `RedAction`, its windows resolved? | 2 purchases, 2 days, 2 ceilings, 2 worlds, window of 1 poll |
| `MCAgentLoop` | is the loop a serial queue that loses nothing but with the process, answers in order and after its log, and does it keep the owner's brain? | override, compact, turn; 1 settings frame of each client in flight |
| `MCFrameLink` | is every direction of every connection a `FifoLink`, do frames arrive, do the codecs agree? | one connection of each client at a time, dialled again without limit; reads of up to 3 bytes, a cap of 3, a reply of 4; 2 frames down, 1 up, 2 tasks |
| `MCMemory` | is knowledge vetted and memory kept under any interleaving, and every fact promoted before its log goes while nights are healthy? | 3 facts (owner's, own, external), 2 days of logs, retention of 1 day, jobs that die or hang |
| `MCParts` | what each of nine components that share no state promises | see below |
| `MCRedBreakerStale` | the promise about the world, with production's `reReadState` | violated |
| `MCAgentLoopThrow` | does an error stay with its utterance? | violated: two turns |
| `MCObstacleLadderDeny` | does a denied Red call end the ladder? | violated |
| `MCBreakerCardReplaced` | does also a card that replaces another keep its button? | violated |
| `MCMemoryWake` | is a log distilled also when nights are slept through or jobs fail? | violated |
| `MCBackupHistory` | was the remote never given an amount? | violated |

What each run checks, by name:

* `MCRedBreaker`: `BreakerInv`, `VetoHolds`, `CancelIsTheOwners`, `OnlyGatedEffects`,
  `AuditMatchesOutcome`.
* `MCRedBreakerWorld`: `ChargesMatchAudit`, `GrantsWithinCeiling`, `RedPromise`.
* `MCRedBreakerStale` (violated): `ExecutedOnPreviewedWorld`.
* `MCAgentLoop`: `AnswersInOrder`, `AnswersAreLogged`, `ChoiceInForce`,
  `EveryUtteranceServed`, `SerialQueue`, `PickIsApplied`.
* `MCAgentLoopThrow` (violated): `NobodyLost`.
* `MCObstacleLadderDeny` (violated): `DeniedRedEndsLadder`.
* `MCBreakerCardReplaced` (violated): `CardCoversWindow`.
* `MCMemoryWake` (violated): `PrunedWasDistilled`.
* `MCMemory`: `KnowledgeIsVetted`, `FreshLogsStay`, `PrunedWhenHealthy`, `MemoryKept`,
  `FactsArePromoted`.
* `MCFrameLink`: `CodecsAgree`, `LinkIsFifo`, `FramesArrive`.
* `MCParts`: `OwnWindowShown`, `SilenceIsFinished`, `LastWidgetDissolves`, `RedEndsLadder`,
  `SuccessIsReal`, `StoreOpens`, `SyncIsComplete`, `NoSeenSecretTyped`, `DenialsRegated`,
  `InjectedIsVerified`, `BriefingIsSound`, `RemoteTipIsClean`, `MirrorsFace`,
  `CardGoesAway`, `CuesFireAlone`, `LadderAnswers`, `NotesKept`.
* `MCBackupHistory` (violated): `RemoteHistoryIsClean`.


`MCParts` picks one component per behaviour (`part`) and leaves the others at rest, so its
states are the sum of the components' own. Its bounds: 3 previews and a window of 3 s;
4 steps, one of them outside the preset, with 0, 1 and 3 planned widgets, and a chat
reply; calls of each verdict, 2 sub-steps and 3 retries (`maxRetries`); 3 transactions on
pages of one, and a limit of 2 pages; every kind of field and label; 2 sessions of up to
4 lines with 2 denials and one that cannot be mapped between them; 2 notes, 3 documents, a cap that the larger one does not fit, 2
versions of IDENTITY.md, 2 turns; 2 commits, and nothing more of a backup after a push that went unread; 3
settings frames of each client in flight.

**Why the bounds are enough.** A breaker hazard takes an old preview, the current one and
the next: three dispatches. The ledger's needs one reserve on each side of a midnight
or a restart, and a second one that no longer fits. A window of one or two polls has a
cancel before, at and after the last poll. The loop's hazards need an utterance in
hand, one waiting and one arriving; each kind occurs once because kinds only differ
in the path taken. A frame of each client in flight
shows one choice overtaken by the other's; the toggle by itself (`MCParts`) has three. On the wire, a read may
end before, at and after a newline, take a part of a frame, several frames, or the end of
one and the start of the next; the reply is the one frame over the cap. Two sub-steps give a
success followed by a failure; three is the real number of retries. Three previews are
a window, the one before and the one that replaces it, and a window of three seconds
has a first, a middle and a last second. Three widgets are one more than the stage shows,
and three pages one more than its limit. Two commits are a refused one and the one that
carries it. Two days with a retention of one let a
log grow old while another is written. `MaxDay`, `MaxFrames`, `MaxSends`, `MaxTasks`, `MaxOpen`,
`MaxSteps`, `MaxKeys`, `MaxSessions`, `MaxEdits`, `MaxTurns` and `MaxCommits` are the bounds in
guards; the days after `MaxDay` in `MemoryMaintenance` go on without new logs. The runs
that are violated need less.

Each property is also run against a slip of the code: the operators marked "slip" in
the modules stand beside the definitions they would replace (`PROJECT.json`, `mutants`).

**Fairness**, and why the code justifies it.

* `RedBreaker`: weak fairness of each dispatch's own steps. Timers fire and settled promises
  continue while the event loop lives; nothing is assumed of the owner, the socket,
  the executor, nor that the process survives.
* `AgentLoop`: weak fairness of a pass's steps and of the settings handler. A pass waits for
  a brain (the SDK and `fetch` have timeouts), the breaker (its window is finite) or a
  tool (browser calls have timeouts); a tool without one would hold the loop for
  good. Reboot is not assumed fair.
* `FrameLink`: both event loops read what is there, the Face's main actor runs its tasks, the
  text client's wait for Ollama has a timeout of 3.5 s. Nothing is assumed of the owner,
  of the loop's replies, nor of dialling.
* `ObstacleLadder`: every rung that can go on does, under the assumption of `AgentLoop` on
  dispatch and brain.
* `BreakerCard`: time passes, and the card's timer fires while a second is due.
* `SpeechStage`: the fallback timer fires; nothing of the synthesizer, since the timer is
  there to replace its callbacks.
* `MemoryMaintenance`: both jobs and midnight. `Healthy` restricts it to nights in which
  consolidation ends before cleanup starts, both succeed, and both end before
  midnight: what the two launchd schedules intend on a machine that is awake.

Deadlock is checked except where the system may stop: on the socket when nobody has
anything more to send (`MCFrameLink`), and at the end of a ladder (`MCObstacleLadderDeny`).

### What the violated runs show

* `MCAgentLoopThrow`: `drain` has a `finally` and no `catch`, and nobody awaits it, so one
  cloud call that rejects ends the process with the utterances queued behind it.
* `MCBreakerCardReplaced`: the card's countdown belongs to the view and the view has no
  identity per preview, so a preview that replaces a card still on the screen inherits
  its seconds; its card is gone while its window is open.
* `MCRedBreakerStale`: `reReadState` hashes the call itself, so the TOCTOU check never fires:
  a world that has moved between the preview and the second read is acted on. With a
  `reReadState` that reads the world there is still the time between that read and the
  executor's effect, which no check made before the call can close.
* `MCObstacleLadderDeny`: only a stopped breaker run is marked `gated`; a Red call that the
  gate denies is replanned, decomposed and retried.
* `MCMemoryWake`: cleanup looks at a log's age alone. After a sleep launchd starts both jobs
  at the wake, in no order, and a log nothing was promoted from is removed.
* `MCBackupHistory`: a commit whose push was refused stays on the branch; when a later
  backup has removed the amount, the hook sees a clean diff of the tips and both commits
  go out.

### Other disagreements, without a run of their own

* A crash inside `writeFileSync` of the ledger leaves a file that does not parse, and the
  next object starts the day at zero (`spend-ledger.ts:106,119`; the model has it under
  `TornWrites`, with which `GrantsWithinCeiling` fails). `dayKey` is the UTC date where its
  comment says local (`spend-ledger.ts:65-67`).
* A cancel tapped without a connection, or after the last poll, is shown as cancelled while
  the action runs (`KernelSocket.swift:77`, `BreakerPreviewCard.swift:62`). A denied Red call is
  not audited (`registry.ts:163`, `audit.ts:2,23`).
* A fresh install says cloud and answers with the stub (`settings.ts:30`, `loop.ts:51`). A
  brain picked without a connection is never sent again (`AppCoordinator.swift:294`). After a
  `/brain` in the text client (`chat.mjs:350`) the Face's menu shows the other brain until the
  next pick, and to pick what it shows sends nothing (`AppCoordinator.swift:278-295`). A
  turn's stats frame names the selection of the moment the turn ended (`ipc/server.ts:62`).
* Any failure to read the key from the Keychain makes a new one and writes it over the old
  (`keychain.ts:74-99`), after which the store cannot be opened. A `security` killed by a
  signal counts as exit code 0 (`keychain.ts:51`), so a store may be created under a key that
  was never written. Opening it with a wrong key
  throws before the `try` of `execute` (`tools/finance.ts`). `modified` and `removed` of a Plaid
  page are not read, so a pending transaction that settles stays beside the posted one.
* `onFinish` dissolves only the widget that blooms last; of two, the first one lingers
  (`cues.ts:16,51`).
* "Tolerate nothing to commit" (`backup.ts:143,149`) looks for the words in `err.message`, but
  git prints them on stdout: the backup throws, and a push that was refused or failed is
  not tried again until something changes. A note with finance in its name under a backed
  up directory is staged, the backup throws, and the next start of the daemon refuses.
* A note written into `current.md` while compact waits for the brain is overwritten and in
  no archive (`compact-cmd.ts:15,217,239`).
* A denial of Claude Code becomes a call of the tool `shell`, which the registry does not
  have, so it never reaches the gate that `claude-code.ts:301` says it re-enters. An entry that
  is null throws outside the `try` (`claude-code.ts:305`), and the denials behind it are dropped.
* "The accessible label drives the fence's label regex" (`browser.ts:268`), but a label that the
  call gives takes its place (`browser.ts:270`), and Playwright finds a field by a part of its
  label, or by the empty text under another locator: a field whose aria-label is a credential
  word is typed into when the call names it by a part the fence does not know. A `<label>`
  element is never read, nor the `name` that goes with a role. When a read of the probe fails,
  nothing is surfaced, also if the field was found (`browser.ts:277`).
* The backup asks whether the hook is there and not whether it can be executed
  (`backup.ts:110`); git skips one that cannot. A `git diff` that fails in the hook is ignored
  (`kernel-memory-pre-push.sh:65-71`), and so is an `ls-files` that fails in the assertion
  (`leakguard.ts:25-32`), which the hook makes up for.
* `Frames.swift:3-6` calls the Face's frames an exact mirror of the daemon's; it has no
  `capabilities` and no `stats`, which it drops (`CodecsAgree` excepts the two).

## 5. Proofs

The theorems hold for every value of the constants that satisfies the named `ASSUME`s:
any number of calls, ledger objects, days, utterances, sub-steps, retries, pages, notes,
commits.

Every invariant and action property that a passing run checks is stated by a theorem, but
for `LinkIsFifo`, and for what refers to fairness. The proofs below name the inductive
invariant each rests on and why the property is not enough by itself. Those found in this
way were checked by TLC on the run of their component before they were proved.

**RedBreakerProofs: the ledger.** `LedgerInv` is inductive: *the file, read back, is the
history of grants of its day* (`FileIsHistory`); at most one object is open (`OneLive`) and
it agrees with the file (`LiveAgrees`); its reserve belongs to the file's day
(`HeldAgrees`); grants are spent, orphaned or held (`GrantsAccounted`). The ceiling alone is
not inductive: a grant looks at the object's copy, so the copy must be tied to the file,
and the file to the history. From it: `LedgerCeiling`, `LedgerBudget`. All assume
`TornWrites = FALSE`.

**RedBreakerProofs: the breaker.** `BreakerInv` says for each place of a dispatch what is
already known of it (`RunInv`), that one dispatch is live (`OneRun`), and that an open
window owns `activeId` and the latch, which is only up for a tap of the owner's. It is
needed because "vetoed calls never run" says nothing about the latch on which it rests.
From it: `VetoAlwaysHolds`, `CancelsAreTheOwners`, `EffectsAreGated`, and two simulations:
`ImplementsLedger` (each step is a ledger step, so `BreakerCeiling` follows, under
`TornWrites = FALSE`) and `ImplementsRedAction` (each step is one of `RedAction`).
`AuditTellsTheTruth` adds `RunAudit`: a run without a verdict is not in the log, so its
first line is its only one, and lines other than "executed" belong to runs that ended.
`BooksBalance` puts the two together: `ChargeInv` says that what was spent on a day is the
sum over the runs the log calls executed (`Accounted`), and that a run at its verdict holds
a reserve of exactly its cost (`HeldForRun`); one line more in the log adds one summand
(`SumOfOneMore`), and a run already in the log never dispatches again. With `LedgerBudget` the
file follows.

**AgentLoopProofs.** `ToggleInv` adds to the promise that `brain.json` is the last choice
(`PrefIsChoice`): without it a boot could restore anything. It gives `ChoiceSurvives` and
`FaceIsMirrored`, assuming every write of `brain.json` succeeds (`PrefWrites`); the code
ignores a failed write, and then a relaunch may bring back an older choice. With two clients
that set the brain, the Face is mirrored when its last pick was not lost, nothing is in flight
and the last choice applied was not the text client's.
`LoopInv` ties `pc` to the intent in hand and the queue, `LoggedInv` the answers to the log.
`ImplementsToggle` carries the toggle's theorems over (`AgentKeepsChoice`). `NeverStranded`,
`AlwaysLogged`, `AgentTypes` follow, and `ImplementsQueue`: each step of the loop is a step of
`IntentQueue` under the mapping `pending = in hand, then queue; served = log`.
`RepliesKeepOrder` needs more than the order of the answers: `OrderInv` says that what waits is
in the order of arrival, behind what is in hand, and that behind all that was answered.

**LinkProofs.** `StreamTypes` says which frames a stream can carry, for any cut into reads:
each write adds whole frames of its writer, each read takes bytes away, and what a data event
answers is an error or a pong, whatever the line was. With `SchemaTakesFace`,
`SchemaTakesChat` and `FaceTakesDaemon`, which compare the codecs case by case, `CodecsMatch`
follows. It assumes of the frames the clients and the loop send only who builds them
(`FramesSent`): the Face's encoder, the text client's two frames or a line that is none, a
reply of any length.

**MemoryProofs.** For the nightly jobs, `MemInv`: what a consolidation has in hand was logged
(`VettedInv`), a log that has aged is of an earlier day, and cleanup holds only such (`FreshInv`), and in
a healthy night what cleanup may remove was read to its end before (`HealthyInv`). It gives
`OnlyVettedKnowledge`, `TodaysLogStays`, `HealthyNightsKeepFacts`; `MemoryIsKept` is an action
property. For working memory, `CompactionInv` says where the notes are that a compaction will
take away: in its hand, then in the archive; `PersonaInv` follows the hash from the baseline
to the briefing; `TrustInv` keeps external material out of the scratchpad a compaction writes,
since the briefing copies it unread, and `GreedyFits` is an induction over the ranked
candidates. They give `CompactionKeepsNotes` (an action property), `PersonaIsVerified` and
`BriefingStaysSound`. For the backup, the tip stays clean because a backup under way has its
hook, which the owner leaves alone meanwhile, and what the hook lets pass on a clean tip is
clean (`HookKeepsClean`). `TipStaysClean` does not need the assertion before the commit: the
hook alone carries it, until a push goes out that it has not read. It says nothing of the
commits below the tip (`MCBackupHistory`).

**ToolProofs.** `LadderInv` follows the trail against the rung and gives `BreakerEndsLadder`,
`NoHollowSuccess`, `LadderIsBounded`, `LadderTypes`. `FinanceInv`: a call that is about to make
a key knows that there is none, unless a read of one that is there has failed, and a call
that opens the store holds the Keychain's key or one that was taken for written (`KeyInv`);
a key that was not written says nothing of the Keychain from then on; during the pages, what was seen is
in the store and what must be shown is still at the bank, so the last page brings the two
together (`SyncInv`). It gives `KeyIsNeverLost` and `SyncMissesNothing`. `FillInv` ties the hints
the gate is given to the field that was read whole, and gives `SeenSecretsStayEmpty`.
`SessionInv`: what was blocked is what was regated, then what the session still has in hand,
or an entry that could not be mapped; it gives `NoDenialIsLost`.

**FaceProofs.** `CardInv`: the preview of the open window is the newest frame on its way or, once
inserted, the card, which counts at least what the window has left, and one second more while
a tick is due. It gives `CardTypes` and `InsertedCardStays`. `StageInv`: a silent synthesizer has
no timer running and no cue left, and what is finished has dissolved its last widget; it rests
on what a fold of blooming widgets leaves in focus (`BloomsKeepFocus`). It gives
`FocusStaysSmall`, `SilenceMeansDone`, `LastWidgetIsGone`.

**NumberLemmas, FoldLemmas.** The library's induction takes an operator as a parameter, which
the provers cannot instantiate. `NumbersByInduction` states it for a *set* of numbers, derived
from the least element of a set; from it follow what the recursive functions behind
`SumFunction` and `FoldLeft` compute, for every function and sequence (`SumOfNone`,
`SumOfOneMore`, `FoldOfNone`, `FoldOfAppend`, `FoldPreserves`).

Only model-checked: everything under fairness (`RedPromise`'s liveness, `EveryUtteranceServed`,
`SerialQueue`'s liveness, `PickIsApplied`, `FramesArrive`, `LadderAnswers`, `CardGoesAway`,
`CuesFireAlone`, `FactsArePromoted`), since the prover does no liveness; and `LinkIsFifo`, whose
proof needs what lines a run of bytes has after another is appended or cut off.

## 6. Plan

Done, in this order: ledger, gate, breaker with its refinement; toggle, loop with its
refinement; ladder; card; memory maintenance; socket with its refinement; stage; finance,
fill, sessions; working memory; backup; the proofs of section 5.

Left: `LinkIsFifo` as a theorem. It needs the lemmas on `Newlines` of two runs joined, the
invariant that a stream is the rest of one frame and then whole frames (a rest shorter than
its frame only for one over the cap), and that the daemon's and the Face's buffers hold no
newline between two events. Then what a routine's steps gather, with their own timeouts, once
something calls them.

## 7. Not modelled, and why

The brains' HTTP and process calls, text building (prompts, reports, mail replies, voice
profile), rendering, audio and system frameworks: no state of their own that a property
is about. `override.ts` is one expiry time that lowers friction for Green and Yellow, and the
gate does not ask it about Red; the frame that sets it is left out with it. What tools do
to the outside world is one abstract effect. Quarantined memory files are pruned like
reflections. Self metrics and changelog are reports nobody reads back. The environment of
`kernel-launch.sh` is taken as given. The text client's panels and Ollama reads only
matter for the time they take. Routines, ladder and Claude Code sessions have
no production caller yet; they are modelled as they stand, with the caller left open.
