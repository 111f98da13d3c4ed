-------------------------- MODULE MCSnapshotCache --------------------------
(* Two callers, one of them the reconciler's pass; two pools.              *)
EXTENDS SnapshotCache
============================================================================
