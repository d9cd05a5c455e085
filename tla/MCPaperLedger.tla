-------------------------------- MODULE MCPaperLedger --------------------------------
(***************************************************************************)
(* Instances of PaperLedger: two codes, and the market days that matter -  *)
(* one cheap, one dear, one where neither can be sold, one with a code     *)
(* missing.                                                                *)
(***************************************************************************)
EXTENDS PaperLedger

CONSTANTS x, y

Open(price) == [price |-> price, buy |-> TRUE, sell |-> TRUE]
AtLowerLimit(price) == [price |-> price, buy |-> TRUE, sell |-> FALSE]
AtUpperLimit(price) == [price |-> price, buy |-> FALSE, sell |-> TRUE]
Missing == [price |-> 0, buy |-> FALSE, sell |-> FALSE]

Days == {[c \in Codes |-> Open(2)],
         [c \in Codes |-> IF c = x THEN Open(5) ELSE AtUpperLimit(3)],
         [c \in Codes |-> IF c = x THEN AtLowerLimit(1) ELSE Missing]}
=============================================================================
