--------------------------- MODULE MCRegistration ---------------------------
(* Two threads, two usernames (one typed in two ways), two departments.     *)
EXTENDS Registration

MCNormName == [n \in RawNames |-> IF n = "Ann" THEN "ann" ELSE n]
MCNormDept == [d \in RawDepts |-> IF d = "cs" THEN "CS" ELSE d]

=============================================================================
