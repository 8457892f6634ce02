----------------------------- MODULE MCShmKeys ------------------------------
(* Constants for model checking ShmKeys. *)
EXTENDS ShmKeys

CONSTANTS c1, c2, c3, k1, k2, k3

=============================================================================
