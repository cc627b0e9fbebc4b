---------------------------- MODULE MCThreadUtils ----------------------------
(* A negative core number, the two ends of the range of CPU_SET and the    *)
(* numbers beyond them.                                                    *)
EXTENDS ThreadUtils

MCCoreIds == {-2, -1, 0, 1, 2, 3, 4, 5}
=============================================================================
