\* Three processes on either platform; two losses of power, three failing calls or
\* processes, two foreign writes.
SPECIFICATION FairSpec
CONSTANTS
    c1 = c1
    c2 = c2
    c3 = c3
    Client = {c1, c2, c3}
    NoClient = NoClient
    MaxCrashes = 2
    MaxFaults = 3
    MaxForeign = 2
INVARIANTS TypeOK ReservationIsRecoverable SuccessIsDurable
PROPERTIES NothingReinitialized EventuallyReady
