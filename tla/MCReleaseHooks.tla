--------------------------- MODULE MCReleaseHooks --------------------------
(***************************************************************************)
(* ReleaseHooks as TLC checks it, with what the configuration says of      *)
(* delete_bad_crc and the code does not keep.                              *)
(***************************************************************************)
EXTENDS ReleaseHooks, TLC

Symmetric == Permutations(Jobs) \cup Permutations(Payload)

\* Every smaller setting has only behaviours of one of these, and a property that
\* depends on the setting asks that "delete" or "fail" be not there.
Widest == {Happens, Happens \ {"fail"}, Happens \ {"delete"}}
=============================================================================
