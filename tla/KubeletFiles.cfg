SPECIFICATION FairSpec
CONSTANTS
    port = port  n1 = n1  n2 = n2  NoFile = NoFile
    Want <- MCWant
    Others = {port}
    Edited <- MCEdited
    Users = {n1, n2}
    MaxFaults = 1
    MaxStops = 1
    MaxEdits = 2
    MaxWrites = 3
INVARIANTS
    TypeOK
    SettingsKept
    EveryWriteRepairs
PROPERTIES
    Converges
    InlineReplaced
