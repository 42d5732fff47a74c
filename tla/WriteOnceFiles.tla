--------------------------- MODULE WriteOnceFiles ----------------------------
(***************************************************************************)
(* The promise of the artifact and manifest stores: a file, once written    *)
(* under its name, keeps the contents it was written with.                  *)
(***************************************************************************)
CONSTANTS Names, Absent

VARIABLE files

Init == \A n \in Names : files[n] = Absent

Write(n) ==
  /\ files[n] = Absent
  /\ files'[n] # Absent
  /\ \A other \in Names \ {n} : files'[other] = files[other]

Next == \E n \in Names : Write(n)

Spec == Init /\ [][Next]_files
=============================================================================
