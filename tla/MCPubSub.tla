------------------------------ MODULE MCPubSub ------------------------------
(* Small instances of PubSub for TLC. *)
EXTENDS TopicTable, TLC

Symmetry == Permutations(Thread) \cup Permutations(Fd) \cup Permutations(Topic)
=============================================================================
