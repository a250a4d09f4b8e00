---------------------------- MODULE VcOwnership ----------------------------
(***************************************************************************)
(* What the VC scheduler of a router promises to its clients: an output VC *)
(* belongs to at most one client at a time, from the grant that wins it    *)
(* until that client gives it back.  Packets of different inputs therefore *)
(* never mix on one VC.  VcScheduler implements this specification.        *)
(***************************************************************************)
CONSTANTS Clients,  \* the input queues of the router
          Vcs,      \* the output VCs of the router
          Free      \* the owner of a VC nobody holds

VARIABLE owner      \* owner[v]: the client holding VC v, or Free

Init == owner = [v \in Vcs |-> Free]

(* Some free VCs are granted, to as many different clients.                *)
Grant == \E g \in [Vcs -> Clients \cup {Free}] :
           /\ \A v \in Vcs : g[v] # Free => owner[v] = Free
           /\ \A v, w \in Vcs : v # w /\ g[v] = g[w] => g[v] = Free
           /\ owner' = [v \in Vcs |-> IF g[v] = Free THEN owner[v] ELSE g[v]]

(* A client gives one of its VCs back.                                     *)
Release == \E v \in Vcs : /\ owner[v] # Free
                          /\ owner' = [owner EXCEPT ![v] = Free]

Next == Grant \/ Release

Spec == Init /\ [][Next]_owner
=============================================================================
