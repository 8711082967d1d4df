--------------------------- MODULE MCSessionControl ---------------------------
(* Small instances of the session control plane for TLC.                     *)
EXTENDS SessionControlInv, TLC

\* Requests, keys and hashes are interchangeable in the safety runs.
Symmetry == Permutations(Creator) \cup Permutations(Terminator)
              \cup Permutations(Key) \cup Permutations(Body)
===============================================================================
