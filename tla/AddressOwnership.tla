-------------------------- MODULE AddressOwnership --------------------------
(***************************************************************************)
(* What the load balancer controller promises about the addresses of a     *)
(* project, without the calls it takes: an address is leased to the        *)
(* services that use it, or to somebody else.  A service gets a new        *)
(* address, shares one that exists, or leaves one; with its last user an   *)
(* ephemeral address is gone.  Nothing else happens to an address, so none *)
(* is ever kept for nobody, and those of others are left alone.            *)
(*                                                                         *)
(* LoadBalancer implements this specification, with the mapping Ownership. *)
(***************************************************************************)
CONSTANTS Service,   \* services of the cluster
          Other,     \* users that are no services: machines, cluster egress
          Address

VARIABLE lease

Free == [type |-> "free", users |-> {}]
Lease == [type : {"free", "ephemeral", "static"}, users : SUBSET (Service \cup Other)]

TypeOK == lease \in [Address -> Lease]

Init == /\ TypeOK
        /\ \A a \in Address : /\ lease[a].users \cap Service = {}
                              /\ lease[a].type = "free" => lease[a] = Free

Set(a, new) == lease' = [lease EXCEPT ![a] = new]

Acquire(s, a) == /\ lease[a] = Free
                 /\ Set(a, [type |-> "ephemeral", users |-> {s}])

Share(s, a) == /\ lease[a].type # "free"
               /\ lease[a].users \cap Other = {}
               /\ Set(a, [lease[a] EXCEPT !.users = @ \cup {s}])

Leave(s, a) ==
  LET rest == lease[a].users \ {s}
  IN /\ s \in lease[a].users
     /\ Set(a, IF lease[a].type = "ephemeral" /\ rest = {}
               THEN Free ELSE [lease[a] EXCEPT !.users = rest])

(* Somebody else gets a free address. *)
AllocateElsewhere(a) ==
  /\ lease[a] = Free
  /\ \E new \in {[type |-> "static", users |-> {}]}
                \cup {[type |-> "ephemeral", users |-> {t}] : t \in Other} : Set(a, new)

Next == \E a \in Address :
          \/ \E s \in Service : Acquire(s, a) \/ Share(s, a) \/ Leave(s, a)
          \/ AllocateElsewhere(a)

Spec == Init /\ [][Next]_lease
=============================================================================
