----------------------------- MODULE MCBalancer -----------------------------
(* Three servers; entities that every server can lead, and two that only   *)
(* two of them can, so that a server with room is not always a candidate.  *)
EXTENDS Balancer, TLC

CONSTANTS s1, s2, s3

MCGroup == <<{s1, s2, s3}, {s1, s2}, {s1, s2, s3}, {s1, s3}>>
=============================================================================
