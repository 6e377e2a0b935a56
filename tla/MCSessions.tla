----------------------------- MODULE MCSessions -----------------------------
(* Instances of Sessions for TLC. *)
EXTENDS Sessions, TLC
AllKinds == {"login", "password", "logout", "revoke", "mutate"}
SessionsSymmetry == Permutations(Requests) \cup Permutations(Keys)
=============================================================================
