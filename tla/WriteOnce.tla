------------------------------ MODULE WriteOnce ------------------------------
(***************************************************************************)
(* What a store of immutable versions promises: a version is absent until  *)
(* one artifact is published under it, and from then on it is that         *)
(* artifact.                                                               *)
(***************************************************************************)
CONSTANTS Versions, Artifacts, Absent

VARIABLE published

Init == published = [v \in Versions |-> Absent]

Publish(v, a) ==
  /\ published[v] = Absent
  /\ published' = [published EXCEPT ![v] = a]

Next == \E v \in Versions, a \in Artifacts : Publish(v, a)

Spec == Init /\ [][Next]_published

=============================================================================
