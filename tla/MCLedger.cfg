\* Two clients race for the head; once an older copy of the file comes back.
SPECIFICATION FairSpec
CONSTANTS
    c1 = c1
    c2 = c2
    Client = {c1, c2}
    NoClient = NoClient
    NoEvent = NoEvent
    Event <- MCEvent
    Admissible <- MCAdmissible
    MaxLog = 3
    MaxRestores = 1
INVARIANTS TypeOK HistoryReplays SnapshotStillExact AcknowledgedIsDurable
PROPERTIES AppendOnly ImplementsAppendLog CallsEnd
