---------------------------- MODULE Allocation ----------------------------
(***************************************************************************)
(* The allocators (allocator/): how a set of <<client, resource>> requests *)
(* becomes a set of grants.  An arbiter picks one of the requests it sees; *)
(* which one depends on its policy and its past, so the operators below    *)
(* give the set of all grant sets an allocator may return, whatever its    *)
(* arbiters are.                                                           *)
(***************************************************************************)
EXTENDS Naturals, FiniteSets

(* What the VC scheduler needs of its allocator: it grants only what was   *)
(* asked, a VC to at most one client and a client at most one VC.  The     *)
(* last is the assertion "multiple grants to the same client? BAD".        *)
Matching(reqs, g) ==
  /\ g \subseteq reqs
  /\ \A x, y \in g : x # y => x[1] # y[1] /\ x[2] # y[2]

(* What the crossbar scheduler, each of whose clients asks for one port,   *)
(* needs of its own: a port goes to at most one of those who asked for it, *)
(* and something is granted whenever something was asked.                  *)
OnePerResource(reqs, g) ==
  /\ g \subseteq reqs
  /\ \A x, y \in g : x[2] = y[2] => x = y
  /\ reqs # {} => g # {}

(* One arbiter per resource: each requested resource picks one client.     *)
PerResource(reqs) ==
  {g \in SUBSET reqs :
     \A x \in reqs : \E y \in g : y[2] = x[2] /\ \A z \in g : z[2] = x[2] => z = y}

(* One arbiter per client: each requesting client picks one resource.      *)
PerClient(reqs) ==
  {g \in SUBSET reqs :
     \A x \in reqs : \E y \in g : y[1] = x[1] /\ \A z \in g : z[1] = x[1] => z = y}

(* RSeparableAllocator::allocate: the resource arbiters alone.             *)
RSeparable(reqs) == PerResource(reqs)

(* One iteration of RcSeparableAllocator::allocate: the resources pick     *)
(* clients, then the clients pick among the resources that picked them.    *)
RcPass(reqs) == UNION {PerClient(i) : i \in PerResource(reqs)}

(* One iteration of CrSeparableAllocator::allocate: the other way round.   *)
CrPass(reqs) == UNION {PerResource(i) : i \in PerClient(reqs)}

(* What is left for the next iteration: the requests of the clients that   *)
(* won and those for the resources that were given out are removed.        *)
Remaining(reqs, g) == {x \in reqs : \A y \in g : x[1] # y[1] /\ x[2] # y[2]}

(* The outcomes of n iterations of one of the two; the grants add up.      *)
Pass(order, reqs) == IF order = "rc" THEN RcPass(reqs) ELSE CrPass(reqs)
Iterated(order, reqs, n) ==
  LET after[k \in 0..n] ==    \* the <<requests left, grants>> after k iterations
        IF k = 0
        THEN {<<reqs, {}>>}
        ELSE UNION {{<<Remaining(s[1], g), s[2] \cup g>> : g \in Pass(order, s[1])} :
                      s \in after[k - 1]}
  IN {s[2] : s \in after[n]}

RcSeparable(reqs, iterations) == Iterated("rc", reqs, iterations)
CrSeparable(reqs, iterations) == Iterated("cr", reqs, iterations)
=============================================================================
