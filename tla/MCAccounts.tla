----------------------------- MODULE MCAccounts -----------------------------
(***************************************************************************)
(* Instances of Accounts for TLC.                                          *)
(***************************************************************************)
EXTENDS Accounts, TLC

Symmetry == Permutations(Requests) \cup Permutations(Names) \cup Permutations(Subjects)

Same == [role |-> "same", flag |-> "same", reset |-> FALSE]

\* What the administration page sends: one field at a time, and one body with all.
OneField ==
    {[Same EXCEPT !.role = role] : role \in {"admin", "user"}}
    \cup {[Same EXCEPT !.flag = flag] : flag \in {"on", "off"}}
    \cup {[Same EXCEPT !.reset = TRUE],
          [role |-> "user", flag |-> "on", reset |-> TRUE]}
=============================================================================
