---------------------------- MODULE MCMigrations ----------------------------
(***************************************************************************)
(* Module Migrations for TLC: two runs of a release with four files, the   *)
(* second and fourth of which build indexes, and a run of an older release *)
(* whose index file differs.                                               *)
(***************************************************************************)
EXTENDS Migrations, TLC

CONSTANTS new1, new2, old

MCDirectory == (new1 :> <<"v1", "v1", "v1", "v1">>) @@ (new2 :> <<"v1", "v1", "v1", "v1">>)
               @@ (old :> <<"v1", "v2">>)

Symmetry == Permutations({new1, new2})
=============================================================================
