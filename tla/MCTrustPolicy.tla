---------------------------- MODULE MCTrustPolicy ----------------------------
(* TrustPolicy with the source revisions of a few builds, and a cache file  *)
(* in the hands of others, or not.                                          *)
EXTENDS TrustPolicy

(* Build 3 is a rebuild of build 2's revision, build 4 claims build 1's. *)
Rebuilt == <<"a", "b", "b", "a">>
Distinct == <<"a", "b">>

(* Source looks at no more than the first Count entries of the file, in the *)
(* order they are in: every file is read like one of AnyCache.  Some of     *)
(* them: a file lost, rolled back, of an unsigned build, of it and another. *)
AnyCache == {S \in SUBSET Releases : Cardinality(S) <= Count}
SomeCaches == {{}, {1}, {4}, {3, 4}}
NoDamage == {}

=============================================================================
