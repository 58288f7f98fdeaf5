---------------------------- MODULE MCSyncSystem ----------------------------
(***************************************************************************)
(* Two devices and one Worker for TLC, in two instances.                 *)
(***************************************************************************)
EXTENDS SyncSystem, TLC

CONSTANTS d1, d2, e1, e2, o1, c1, ke, ko, kc, p1, p2, q1, q2, h1, h2

MCKeyOf == [e \in Events |-> CASE e = e1 -> ke [] e = o1 -> ko [] e = c1 -> kc]

\* Retries: the first device captures, two sync processes of it push, and it
\* pulls its own events back; a second unit is addressed to another zone.
RetryCapturedOn == [e \in Events |-> {d1}]
RetryDeviceOf == [p \in Pushers |-> d1]
RetryPullsFor == [q \in Pullers |-> d1]
RetrySymmetry == Permutations(Pushers) \cup Permutations(Slots)

\* Shared captures: both devices may capture the evidence e1, and the second one
\* other evidence under the same key; the first also proposes a unit.  Each device
\* has its pusher, and two processes pull for the second.
SharedKeyOf == [e \in Events |-> IF e = c1 THEN kc ELSE ke]
SharedCapturedOn ==
  [e \in Events |-> CASE e = e1 -> {d1, d2} [] e = e2 -> {d2} [] e = c1 -> {d1}]
SharedDeviceOf == [p \in Pushers |-> IF p = p1 THEN d1 ELSE d2]
SharedPullsFor == [q \in Pullers |-> d2]
SharedSymmetry == Permutations(Pullers)
=============================================================================
