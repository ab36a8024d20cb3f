--------------------------- MODULE MCActivityManager ---------------------------
(***************************************************************************)
(* Instances of ActivityManager for TLC. The values are in the .cfg files. *)
(***************************************************************************)
EXTENDS ActivityManager

\* Subscribers differ in nothing but their names.
SubscriberSymmetry == Permutations(Subscribers)
=============================================================================
