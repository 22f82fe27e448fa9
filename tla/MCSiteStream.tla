---------------------------- MODULE MCSiteStream ----------------------------
(* Instances of SiteStream for TLC. *)
EXTENDS SiteStream
=============================================================================
