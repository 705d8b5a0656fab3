-------------------------------- MODULE MCKV --------------------------------
(* Small instances of DFlashKV.                                            *)
EXTENDS DFlashKV

(* Three samples of one prompt: two agree on a token after the prompt, two *)
(* are equal (greedy decoding of the same prompt).                         *)
First == <<1, 1, 1, 2, 3, 4, 5, 6, 7, 8>>
Second == <<1, 1, 1, 2, 3, 9, 5, 6, 7, 8>>
Texts == <<First, Second, First>>
DistinctTexts == <<First, Second>>
TwoReqs == 1..2
ThreeReqs == 1..3
=============================================================================
