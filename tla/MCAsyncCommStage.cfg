\* Two Members, holes and trimming in a vector of up to four slots, and a
\* client that keeps calling advanceSome().
SPECIFICATION PollingSpec
CONSTANTS
    Members = {m1, m2}
    NoMember = NoMember
    MaxReq = 2
    MaxSlots = 4
    MaxWaits = 2
    YankBeforeDetach = TRUE
INVARIANTS
    MapsConsistent
    RequestsOwned
    QueueExact
PROPERTIES
    AdvanceDelivers
    
    CallsReturn
    NoStarvation
