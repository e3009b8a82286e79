SPECIFICATION ReducedSpec
CONSTANTS
    FieldSize = 4
    Header = {ipv4, sr}
    Bytes <- Lengths
    Session = {1}
    SessionId = {0, 1}
    ListId = {0, 2, 3}
    Port = {0}
    drop_port = 1
    Mgid = {1}
    MaxCalls = 2
    MaxDigests = 2
    MaxSilent = 1
    Fields <- FieldsOf
    LearnList = {1, 2, 3}
    KnownLists = {2, 3}
    KnownTables = {0}
    Table = {0, 1}
    Entries = 2
    MaxAgeings = 1
    Context = {0, 1}
INVARIANTS TypeOK RequestsAsAsked LengthExact DigestsInOrder
PROPERTIES DroppedIffMarked QuietDuringSwap OnlySwapsSilence
SYMMETRY HeaderSymmetry
