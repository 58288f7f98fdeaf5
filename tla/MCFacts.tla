------------------------------ MODULE MCFacts ------------------------------
(***************************************************************************)
(* One Claim of this repository and its readers for TLC.                   *)
(***************************************************************************)
EXTENDS AcceptedFacts

CONSTANTS cl, oh

\* The Claim names an Observation.
MCSupportOf == [c \in Claims |-> {oh}]
=============================================================================
