-------------------------------- MODULE Backup --------------------------------
(***************************************************************************)
(* The nightly backup of the memory repository (memory/backup.ts), with    *)
(* the assertion it shares with the start of the daemon (leakguard.ts) and *)
(* the pre-push hook that git runs under it (kernel-memory-pre-push.sh).   *)
(*                                                                         *)
(* A tree maps the paths to what they hold: "note" is a file under one of  *)
(* BACKUP_PATHS, "financeNote" another one with finance in its name, and   *)
(* "vault" a file of finance/, which is ignored and on no list.  A text    *)
(* with a dollar amount or an account number in it is an "amount".  A step *)
(* is one call of git.  The owner writes files, and stages what he likes,  *)
(* between any two; the hook and the remote he leaves alone while a backup *)
(* runs.                                                                   *)
(***************************************************************************)
EXTENDS Naturals, Sequences

CONSTANT MaxCommits     \* bound on the local history

ASSUME BackupNats == MaxCommits \in Nat \ {0}

Paths == {"note", "financeNote", "vault"}
BackupPaths == {"note", "financeNote"}
FinancePaths == {"financeNote", "vault"}
Texts == {"none", "clean", "amount"}
EmptyTree == [path \in Paths |-> "none"]

VARIABLES
    work,           \* the working tree
    index,          \* what git tracks
    commits,        \* the local branch: a sequence of trees
    pushed,         \* how many of them the remote has
    hook,           \* the pre-push hook is there
    remote,         \* a remote is configured
    backup,         \* where runBackup is
    unscanned       \* history: a hook that is there has let a push go unread

backupVars == <<work, index, commits, pushed, hook, remote, backup, unscanned>>

BackupInit ==
    /\ work = EmptyTree /\ index = EmptyTree
    /\ commits = <<>> /\ pushed = 0
    /\ hook \in BOOLEAN /\ remote \in BOOLEAN
    /\ backup = "idle" /\ unscanned = FALSE

TreeAt(n) == IF n = 0 THEN EmptyTree ELSE commits[n]

-----------------------------------------------------------------------------
(* runBackup.                                                              *)

ReadyWithoutHook == remote          \* slip: an absent hook is not an error

Ready == hook /\ remote

(* It fails loud if either is missing; that git can execute the hook it    *)
(* does not ask.                                                           *)
StartBackup ==
    /\ backup = "idle" /\ Ready
    /\ backup' = "add"
    /\ UNCHANGED <<work, index, commits, pushed, hook, remote, unscanned>>

(* git add -- paths: a deletion under them is staged too.                  *)
Stage ==
    /\ backup = "add"
    /\ index' = [path \in Paths |-> IF path \in BackupPaths THEN work[path]
                                    ELSE index[path]]
    /\ backup' = "assert"
    /\ UNCHANGED <<work, commits, pushed, hook, remote, unscanned>>

FinanceTracked == \E path \in FinancePaths : index[path] # "none"

(* assertFinanceNotTracked: what was staged stays staged.  When ls-files   *)
(* fails the assertion is skipped, as outside a git repository.            *)
AssertFinance ==
    /\ backup = "assert"
    /\ backup' \in IF FinanceTracked THEN {"idle", "commit"} ELSE {"commit"}
    /\ UNCHANGED <<work, index, commits, pushed, hook, remote, unscanned>>

(* With nothing to commit git says so on stdout and the error does not     *)
(* carry it: the backup throws, and pushes nothing.                        *)
Commit ==
    /\ backup = "commit"
    /\ IF index = TreeAt(Len(commits))
       THEN backup' = "idle" /\ UNCHANGED commits
       ELSE /\ Len(commits) < MaxCommits
            /\ commits' = Append(commits, index)
            /\ backup' = "push"
    /\ UNCHANGED <<work, index, pushed, hook, remote, unscanned>>

(* The hook: the paths and the added lines of the diff of the two tips.    *)
ScanRefuses(old, new) ==
    \/ \E path \in FinancePaths : new[path] # old[path]
    \/ \E path \in Paths : new[path] = "amount" /\ old[path] # "amount"

(* A push that goes out has been scanned and found clean, or was not read: *)
(* git passes over a hook it cannot execute, and a git diff that fails     *)
(* inside the hook leaves it nothing to find.  It may as well be refused,  *)
(* or fail on the way.                                                     *)
Push ==
    /\ backup = "push"
    /\ \/ /\ pushed' = Len(commits)
          /\ \E scanned \in BOOLEAN :
                /\ scanned => /\ hook
                              /\ ~ScanRefuses(TreeAt(pushed), TreeAt(Len(commits)))
                /\ unscanned' = (unscanned \/ (hook /\ ~scanned))
       \/ UNCHANGED <<pushed, unscanned>>
    /\ backup' = "idle"
    /\ UNCHANGED <<work, index, commits, hook, remote>>

BackupCrash ==
    /\ backup # "idle" /\ backup' = "idle"
    /\ UNCHANGED <<work, index, commits, pushed, hook, remote, unscanned>>

-----------------------------------------------------------------------------
(* The owner.                                                              *)

WriteFile(path, text) ==
    /\ work[path] # text
    /\ path \in FinancePaths => text # "amount"     \* its name is enough
    /\ work' = [work EXCEPT ![path] = text]
    /\ UNCHANGED <<index, commits, pushed, hook, remote, backup, unscanned>>

(* git add -f, and git rm --cached.                                        *)
ForceStage(path) ==
    /\ index[path] # work[path]
    /\ index' = [index EXCEPT ![path] = work[path]]
    /\ UNCHANGED <<work, commits, pushed, hook, remote, backup, unscanned>>

Untrack(path) ==
    /\ index[path] # "none"
    /\ index' = [index EXCEPT ![path] = "none"]
    /\ UNCHANGED <<work, commits, pushed, hook, remote, backup, unscanned>>

Configure ==
    /\ backup = "idle"
    /\ hook' \in BOOLEAN /\ remote' \in BOOLEAN
    /\ <<hook', remote'>> # <<hook, remote>>
    /\ UNCHANGED <<work, index, commits, pushed, backup, unscanned>>

BackupNext ==
    \/ StartBackup \/ Stage \/ AssertFinance \/ Commit \/ Push \/ BackupCrash
    \/ \E path \in Paths, text \in Texts : WriteFile(path, text)
    \/ \E path \in Paths : ForceStage(path) \/ Untrack(path)
    \/ Configure

BackupSpec == BackupInit /\ [][BackupNext]_backupVars

-----------------------------------------------------------------------------
NoAmount(tree) == \A path \in Paths : tree[path] # "amount"

Clean(tree) ==
    /\ \A path \in FinancePaths : tree[path] = "none"
    /\ NoAmount(tree)

(* What a fresh clone of the remote checks out holds neither a finance     *)
(* path nor an amount, whatever was staged behind the backup's back and    *)
(* although the assertion may be skipped (backup.ts:139,                   *)
(* kernel-memory-pre-push.sh:17), until a push goes out that the hook of   *)
(* the repository has not read.                                            *)
RemoteTipIsClean == unscanned \/ Clean(TreeAt(pushed))

(* The remote has never been given an amount by a push that was scanned:   *)
(* "finance data must NEVER leave this machine"                            *)
(* (kernel-memory-pre-push.sh:94).                                         *)
RemoteHistoryIsClean == unscanned \/ \A n \in 1..pushed : NoAmount(TreeAt(n))
===============================================================================
