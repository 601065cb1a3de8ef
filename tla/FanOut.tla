-------------------------------- MODULE FanOut --------------------------------
(***************************************************************************)
(* What a transport of channel frames promises (backend/app/broadcaster.py *)
(* "delivers through exactly one path ... keeps delivery single and        *)
(* ordering consistent"): each replica hands its sockets the published     *)
(* frames in the order of publication, none twice.  Some may be missing.   *)
(* A frame is named by its place in that order.                            *)
(***************************************************************************)
EXTENDS Naturals

CONSTANT Replicas

VARIABLES
    published,   \* how many frames have been published
    seen         \* the frames each replica has delivered

Init ==
    /\ published = 0
    /\ seen = [p \in Replicas |-> {}]

Publish ==
    /\ published' = published + 1
    /\ UNCHANGED seen

\* Only a frame after all those delivered before.
Deliver(p, f) ==
    /\ f \in 1..published
    /\ \A g \in seen[p] : g < f
    /\ seen' = [seen EXCEPT ![p] = @ \cup {f}]
    /\ UNCHANGED published

Next == Publish \/ \E p \in Replicas : \E f \in 1..published : Deliver(p, f)

Spec == Init /\ [][Next]_<<published, seen>>
=============================================================================
