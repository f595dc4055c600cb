\* Two clients, three rows, two edits.
SPECIFICATION Spec
CONSTANTS
    c1 = c1
    c2 = c2
    Client = {c1, c2}
    Event <- FourEvents
    NoEvent <- NoSuchEvent
    MaxRows = 3
    MaxEdits = 2
INVARIANTS NothingInvented
PROPERTIES AppendsToSnapshot
CHECK_DEADLOCK FALSE
