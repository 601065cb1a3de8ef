----------------------------- MODULE MCDatabase -----------------------------
(***************************************************************************)
(* Two overlapping requests on SQLite: a unit of work that replaces the     *)
(* permissions of a group, and a handler that sets the tags of a            *)
(* conversation and commits.                                                *)
(***************************************************************************)
EXTENDS Database, TLC

OneProcess == {[r \in Requests |-> "p1"]}
UnitAndWriter ==
    "r1" :> {SetGroupPermissions(<<"b">>)} @@ "r2" :> {SetTags(<<"b">>)}
=============================================================================
