--------------------------- MODULE MCCryptState ----------------------------
(* Small bytes for CryptState: the nonces lie just below a carry into hi,   *)
(* just below a wrap of byte 1 to 0, and at the zero the history starts as. *)
EXTENDS CryptState

MCNonces == {[lo |-> 4, hi |-> 5], [lo |-> 1, hi |-> 0]}

=============================================================================
