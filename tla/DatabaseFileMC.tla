--------------------------- MODULE DatabaseFileMC ---------------------------
(* Block sizes for TLC.                                                    *)
EXTENDS DatabaseFile

Plain == [ b \in Blocks |-> 1 ]

\* A block of two cells, which a short write can cut in half.
TwoCells == [Plain EXCEPT ![8] = 2]

\* No dictionary; and a file one cell too long for an OffsetLimit of 45.
SomeProfiles == { TwoCells, [Plain EXCEPT ![Dict] = 0], [TwoCells EXCEPT ![9] = 2] }
=============================================================================
