----------------------------- MODULE MCExcursion -----------------------------
(* Two cancellation codes, so that a second cancellation can be told from the
   first one. *)
EXTENDS Excursion

MCCodes == {"c1", "c2"}
=============================================================================
