------------------------------ MODULE MCThread ------------------------------
(***************************************************************************)
(* Thread for TLC: two slots for requests, which may be permuted.  Threads *)
(* on which requests have overlapped or failed are followed on fewer rows. *)
(***************************************************************************)
EXTENDS Thread, TLC

CONSTANTS
    MaxIdOverlapped,    \* bound: ids a thread may have once requests overlap
    MaxIdFailed         \* bound: ids it may have once a request was cut short

Symmetry == Permutations(Requests)

Bound ==
    /\ overlapped => nextId =< MaxIdOverlapped + 1
    /\ faults > 0 => nextId =< MaxIdFailed + 1
=============================================================================
