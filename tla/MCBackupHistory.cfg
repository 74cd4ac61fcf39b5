SPECIFICATION BackupSpec
CONSTANTS
    MaxCommits = 2
INVARIANTS RemoteHistoryIsClean
