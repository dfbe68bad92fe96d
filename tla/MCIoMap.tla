------------------------------ MODULE MCIoMap ------------------------------
(* IoMap for TLC: slaves of less than a byte, of bytes, of several sync    *)
(* managers that connect and that do not.                                  *)
EXTENDS IoMap

SM(bits) == [bits |-> bits, gap |-> FALSE]
Far(bits) == [bits |-> bits, gap |-> TRUE]
Slave(out, in) == [d \in Dirs |-> IF d = "out" THEN out ELSE in]

Kinds == {Slave(<<SM(3)>>, <<>>),
          Slave(<<SM(6)>>, <<SM(5)>>),
          Slave(<<>>, <<SM(16)>>),
          Slave(<<SM(24)>>, <<SM(8), Far(8), Far(8)>>),
          Slave(<<SM(8), Far(8)>>, <<SM(8), SM(8), Far(8)>>)}
KindsAssigned == {Slave(<<SM(8)>>, <<SM(7), SM(9)>>)}
=============================================================================
