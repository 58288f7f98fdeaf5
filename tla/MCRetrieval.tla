---------------------------- MODULE MCRetrieval ----------------------------
(***************************************************************************)
(* One store for TLC: Observations of its own and of another device, a     *)
(* Claim, and the other device's Supersession and erasure of it.           *)
(***************************************************************************)
EXTENDS Retrieval

CONSTANTS own1, other1, claim1, sup1, era1

Plain(type, refs) == [type |-> type, refs |-> refs, replacement |-> {}, draft |-> FALSE]
MCShape == [e \in Units |->
  IF e \in {own1, other1} THEN Plain("Observation", {})
  ELSE IF e = claim1 THEN Plain("Claim", {own1} \cap Units) ELSE Plain("Supersession", {claim1})]
MCTarget == [x \in Erasures |-> claim1]
=============================================================================
