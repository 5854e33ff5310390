---------------------------- MODULE MCAuditChain ----------------------------
(***************************************************************************)
(* Instances of AuditChain for TLC.                                        *)
(***************************************************************************)
EXTENDS AuditChain, TLC

\* Tenants are not: only some may overlap.
Symmetry == Permutations(Request) \cup Permutations(Body)
=============================================================================
