------------------------------ MODULE MCBlobs ------------------------------
(***************************************************************************)
(* Instance of Blobs for TLC.  Requests and conversations are created      *)
(* alike, so both sets may be permuted.  Requests that follow one another  *)
(* with the store answering have the room MaxFile and MaxMsg give; once    *)
(* two overlap, or a call of the store has failed, there is less of it,    *)
(* and an execution has failing calls or failing statements, not both.     *)
(***************************************************************************)
EXTENDS Blobs, TLC

CONSTANT MaxIdDisturbed    \* bound: ids handed out once requests overlap or calls fail

ASSUME MaxIdDisturbed \in Nat

Symmetry == Permutations(Requests) \cup Permutations(Conversations)

Room ==
    /\ overlapped \/ storeFaults > 0 =>
          nextFile =< MaxIdDisturbed + 1 /\ nextMsg =< MaxIdDisturbed + 1
    /\ ~(faults > 0 /\ storeFaults > 0)
=============================================================================
