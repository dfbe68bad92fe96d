\* Three slaves, segments of four bytes.
CONSTANTS
    N = 3
    Types <- Kinds
    Assigned <- KindsAssigned
    MaxSegment = 4
    MaxSegments = 4
SPECIFICATION Spec
INVARIANTS TypeOK Disjoint  FramesCarryAll MissingIsNoticed
\* The mapping ends.
CHECK_DEADLOCK FALSE
