---------------------------- MODULE MCSyncWorker ----------------------------
(***************************************************************************)
(* A small zone for TLC: one evidence event that two devices may hold, and *)
(* an observation that shares its idempotency key, and one that does not.  *)
(***************************************************************************)
EXTENDS SyncWorker, TLC

CONSTANTS d1, d2, e1, o1, o2, k1, k2, h1, h2

MCKeyOf == (e1 :> k1) @@ (o1 :> k1) @@ (o2 :> k2)

\* Nothing in the Worker orders its handlers or the devices.
MCSymmetry == Permutations(Slots) \cup Permutations(Devices)
=============================================================================
