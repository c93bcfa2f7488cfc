----------------------------- MODULE MCRegistry -----------------------------
(* Small instances of Registry for TLC. *)
EXTENDS Registry, TLC

\* Every key hashes to one slot, by different characters.
MCKey == Fd \cup Hostname
MCChars ==
  LET rank == CHOOSE r \in [MCKey -> 1 .. 3] : \A k, l \in MCKey : r[k] = r[l] => k = l
  IN  [k \in MCKey |-> <<7, (2 * rank[k]) + 1>>]

Symmetry == Permutations(Thread) \cup Permutations(Fd) \cup Permutations(Client)
=============================================================================
