\* Every tree of five slaves, with and without clocks.
CONSTANTS
    SlaveCount = 5
    Delays <- LinkTimes
    Offsets <- ClockValues
    HalfRange = 50
SPECIFICATION MCSpec
INVARIANTS
    ParentIsRight
    
\* The configuration of the network ends.
CHECK_DEADLOCK FALSE
