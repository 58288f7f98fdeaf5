-------------------------------- MODULE Lists --------------------------------
(***************************************************************************)
(* SelectSeq by membership, as a fold that proofs can take apart.          *)
(***************************************************************************)
EXTENDS Sequences, SequencesExt

\* The elements of a sequence that are in a set, in their order.
Filtered(seq, set) ==
  FlattenSeq([i \in DOMAIN seq |-> IF seq[i] \in set THEN <<seq[i]>> ELSE <<>>])
==============================================================================
