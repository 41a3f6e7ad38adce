--------------------------- MODULE MCHousekeeping ---------------------------
(* Instances of Housekeeping for TLC.                                      *)
EXTENDS Housekeeping

CONSTANTS n1, n2, m1, m2, cluster, role, dns, own, foreign, worker

Tags(c, r) == [NoTags EXCEPT ![cluster] = c, ![role] = r, ![dns] = r]

(* What users write: nothing, or the cluster's tag and a role. *)
UserTags == {NoTags, Tags(own, worker)}

Allocated(m, n, tags) == [id |-> m, host |-> n, tags |-> tags, key |-> TRUE]

(* One machine, left with the tag of another cluster; one that is free, to *)
(* take its place.                                                         *)
OneMachine ==
  [m \in Machine |-> IF m = m1 THEN Allocated(m1, n1, Tags(foreign, None))
                     ELSE Unallocated(m)]
NoNodes == [n \in Node |-> NoNode]

(* A running cluster of two nodes. *)
TwoMachines ==
  [m \in Machine |-> IF m = m1 THEN Allocated(m1, n1, Tags(foreign, None))
                     ELSE Allocated(m2, n2, Tags(own, worker))]
TwoNodes ==
  [n \in Node |-> [NoNode EXCEPT !.there = TRUE, !.id = IF n = n1 THEN m1 ELSE m2]]
=============================================================================
