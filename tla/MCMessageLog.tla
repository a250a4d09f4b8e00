---------------------------- MODULE MCMessageLog ----------------------------
(* The log of a run with messages of one or two packets, read by sslatency *)
(* as its Makefile builds it.                                              *)
EXTENDS MessageLog

Times == {<<0, 1>>, <<0, 3>>, <<1, 2>>, <<2, 3>>}
Short == {<<<<f>>>> : f \in Times}
Long == {<<<<f, g>>, <<h>>>> : f, g, h \in Times}
TwoMessages == (Short \X Long) \cup (Long \X Short)

Spec == Init /\ [][ReadLine]_<<messages, lines, reader>>
=============================================================================
