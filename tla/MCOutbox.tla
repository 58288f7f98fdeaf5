------------------------------ MODULE MCOutbox ------------------------------
(***************************************************************************)
(* One store for TLC: an evidence event, an active unit and a draft unit,  *)
(* pushed by two concurrent sync processes under changing policies.        *)
(***************************************************************************)
EXTENDS Outbox, TLC

CONSTANTS d1, e1, o1, c1, ke, ko, kc, p1, p2

MCKeyOf == (e1 :> ke) @@ (o1 :> ko) @@ (c1 :> kc)
MCCapturedOn == [e \in Events |-> Devices]
MCDeviceOf == [p \in Pushers |-> d1]

\* The two pushers run the same program on the same store.
MCSymmetry == Permutations(Pushers)
=============================================================================
