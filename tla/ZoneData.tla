------------------------------ MODULE ZoneData ------------------------------
(***************************************************************************)
(* The data every sync module speaks about: the records of one trust zone. *)
(*                                                                         *)
(* An element of Events is a canonical event id.  The code derives it by   *)
(* hashing (trust zone, idempotency key, request fingerprint), so within a *)
(* zone an event stands for its idempotency key KeyOf[e] together with its *)
(* request fingerprint: two events with one key are the "same key,         *)
(* different content" case, and a repeated event is a replay.  The         *)
(* protected value id is hashed from the same three parts, so the event    *)
(* also names its protected value.                                         *)
(*                                                                         *)
(* What is NOT determined by the event is its body: the ciphertext digest  *)
(* and the recorded time come from the device that captured it (a random   *)
(* nonce and the device's own key).  A body is therefore identified by its *)
(* origin, a device.                                                       *)
(***************************************************************************)
EXTENDS Naturals, FiniteSets

CONSTANTS
  Devices,      \* the machines enrolled in the zone
  Events,       \* canonical event ids
  Keys,         \* idempotency keys
  KeyOf,        \* the idempotency key of each event
  Evidence,     \* the EvidenceArtifact events: their body refers to a protected value
  ActiveUnits,  \* the Observation and Claim events born with lifecycle_status "active"
  MaxAttempts,  \* bound on the leases (and so the upload attempts) of a behaviour
  None          \* absence: a NULL column, a missing row, an idle slot

\* The attempts: each lease of an outbox row is one attempt to push it, and each
\* attempt wraps the device key with a nonce of its own.
Attempts == 1 .. MaxAttempts

ASSUME ZoneDataAssumption ==
  /\ KeyOf \in [Events -> Keys]
  /\ Evidence \subseteq Events
  /\ ActiveUnits \subseteq Events \ Evidence
  /\ MaxAttempts \in Nat
  /\ None \notin Devices
  /\ None \notin Events
  /\ None \notin Attempts
=============================================================================
