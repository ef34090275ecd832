------------------------------- MODULE Absence -------------------------------
(* What the pure modules answer when there is nothing to answer with. *)

CONSTANTS
  Missing,  \* an empty text, an absent record
  Raised    \* the call raised
=============================================================================
