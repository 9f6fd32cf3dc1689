---------------------------- MODULE MCReleasePublish ----------------------------
(* Two archives and the manifest; two builds of one commit, and a commit      *)
(* without a build.                                                           *)
EXTENDS ReleasePublish

CONSTANTS b1, b2, c1, c2

MCCommitOf == [b \in {b1, b2} |-> c1]
================================================================================
