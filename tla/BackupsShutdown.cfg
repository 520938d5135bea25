SPECIFICATION FairSpec
CONSTANTS
    Loop = Loop
    Main = Main
    Admins = {a1}
    Keep = 3
    Faults = {"crash"}
    Failing = {Main, Loop, a1}
    MaxName = 5
    MaxWrites = 1
    MaxStarts = 2
CHECK_DEADLOCK FALSE
INVARIANTS TypeOK FinalBackup
PROPERTIES RetentionSpec LastSnapshotOvertaken AloneLeavesKeep AnswerNamesSnapshot ShutdownEnds
