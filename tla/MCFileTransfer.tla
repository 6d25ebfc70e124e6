--------------------------- MODULE MCFileTransfer ---------------------------
(* A department with a faculty member and two who would be its HOD, and a    *)
(* faculty member of another department.                                    *)
EXTENDS FileTransfer, TLC

CONSTANTS t1, t2, p1, p2, f1, f2, hodCS, nextCS, facCS, facEE

MCProfile == [i \in Ids |->
    CASE i = hodCS -> [name |-> "h", role |-> "HOD", dept |-> "CS"]
      [] i = nextCS -> [name |-> "n", role |-> "HOD", dept |-> "CS"]
      [] i = facCS -> [name |-> "f", role |-> "FACULTY", dept |-> "CS"]
      [] i = facEE -> [name |-> "e", role |-> "FACULTY", dept |-> "EE"]]

\* All threads in one process / one thread in each of two.
OneProcess == [t \in Threads |-> p1]
TwoProcesses == [t \in Threads |-> IF t = t1 THEN p1 ELSE p2]

Symmetry == Permutations(Files) \cup Permutations(Threads)

\* Under TwoProcesses: the threads change places together with their processes.
Swap == [x \in {t1, t2, p1, p2} |->
    CASE x = t1 -> t2 [] x = t2 -> t1 [] x = p1 -> p2 [] x = p2 -> p1]
ProcessSymmetry == {Swap, [x \in {t1, t2, p1, p2} |-> x]}

=============================================================================
