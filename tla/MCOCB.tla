-------------------------------- MODULE MCOCB --------------------------------
(* Blocks of three bytes of one bit, the field of x^3 + x + 1, and messages  *)
(* of at most two whole blocks and a rest.                                   *)
EXTENDS OCB

MCPoly == {1, 2}

Table == <<5, 2, 7, 0, 3, 6, 1, 4>>
Number(b) == (IF 0 \in b THEN 4 ELSE 0) + (IF 1 \in b THEN 2 ELSE 0) + (IF 2 \in b THEN 1 ELSE 0)
MCAES == [b \in SUBSET (0..2) |->
  CHOOSE c \in SUBSET (0..2) : Number(c) = Table[Number(b) + 1]]

(* x = 2, so the logarithms of 1, x, x+1, x^2, ... are 0, 1, 3, 2, 6, 4, 5. *)
Logs == <<0, 1, 3, 2, 6, 4, 5>>
MCLog == [b \in SUBSET (0..2) \ {{}} |-> Logs[Number(b)]]

MCNonces == {{}, {0, 1}, {1, 2}}
Bodies == {<<>>} \cup {<<a>> : a \in SUBSET (0..2)}
            \cup {<<a, b>> : a \in SUBSET (0..2), b \in SUBSET (0..2)}
MCMessages ==
  {m \in [body : Bodies, last : SUBSET (0..2), len : 0..3] :
     m.last \subseteq 0..(m.len - 1) /\ (m.len = 0 => m.body = <<>>)}
=============================================================================
