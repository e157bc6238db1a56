------------------------------- MODULE Lease --------------------------------
(***************************************************************************)
(* What the lock of a schedule promises: a lease that time ends, if its    *)
(* owner does not.  It is not exclusive.  Whoever sees it free, or his     *)
(* own, may take it a moment later, although somebody else has taken it in *)
(* between; but nobody takes it who did not look.                          *)
(***************************************************************************)
CONSTANTS
  Instance,
  NoInstance   \* not an instance

VARIABLES
  owner,       \* the instance that holds the lease, or NoInstance
  contenders   \* the instances that have looked and not yet decided

leaseVars == <<owner, contenders>>

Init == owner = NoInstance /\ contenders = {}

Look(i) ==
  /\ owner \in {NoInstance, i}
  /\ contenders' = contenders \cup {i}
  /\ UNCHANGED owner

(* An instance may look several times at once, and stays a contender until *)
(* the last of its attempts is decided.                                    *)
Decided(i) == contenders' \in {contenders, contenders \ {i}}

Take(i) ==
  /\ i \in contenders
  /\ owner' = i
  /\ Decided(i)

GiveUp(i) ==
  /\ i \in contenders
  /\ Decided(i)
  /\ UNCHANGED owner

Lapse == owner' = NoInstance /\ UNCHANGED contenders

Next ==
  \/ \E i \in Instance : Look(i) \/ Take(i) \/ GiveUp(i)
  \/ Lapse

Spec == Init /\ [][Next]_leaseVars
=============================================================================
