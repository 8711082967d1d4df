---------------------------- MODULE MCCloudflare ----------------------------
(***************************************************************************)
(* Symmetry for model checking CloudflareProvider: callers and browsers    *)
(* are interchangeable.                                                    *)
(***************************************************************************)
EXTENDS CloudflareProvider, TLC

Symmetry == Permutations(Caller) \cup Permutations(Session)
=============================================================================
