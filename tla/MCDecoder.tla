------------------------------ MODULE MCDecoder -----------------------------
(* A small instance of DFlashDecoder: two tokens and a stop token, and a   *)
(* target whose prediction depends on the whole text.                      *)
EXTENDS DFlashDecoder

TwoReqs == {1, 2}
Tokens == 0..2
Prompts == [r \in {1, 2} |-> <<r - 1>>]
StopTokens == {2}

(* The greedy responses are 0 0 0 1 2 (stopped) and 0 1 0 1 0 1 (length).  *)
Hash(s) ==
    LET h[i \in 0..Len(s)] == IF i = 0 THEN 1 ELSE (h[i - 1] * 7 + s[i] * 3 + 1) % 11
    IN  h[Len(s)]
Model(s) == IF Hash(s) = 9 THEN 2 ELSE Hash(s) % 2
=============================================================================
