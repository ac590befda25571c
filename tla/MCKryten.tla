------------------------------ MODULE MCKryten ------------------------------
(***************************************************************************)
(* Small configurations of kryten: client p, which runs a command, and     *)
(* client a, whose command is quit 6.  PVs have the integer values 1 and 2,*)
(* of which every match list accepts the first: p's is = 0 | = 1, a's <= 1.*)
(***************************************************************************)
EXTENDS Kryten, TLC

CONSTANTS p, a

MCStrings == {}
MCNothing == [s \in {} |-> 0]

MCValues == {Integer(1), Integer(2)}

MCRange(comp, k) == [comp |-> comp, lower |-> Integer(k), upper |-> Void]
MCMatchSet == [c \in Clients |-> IF c = p THEN <<MCRange("ckEqual", 0), MCRange("ckEqual", 1)>>
                                          ELSE <<MCRange("ckLessThanEqual", 1)>>]
MCQuitCode == [c \in Quits |-> 6]

MCFirst  == [c \in Clients |-> 1]
MCSecond == [c \in Clients |-> 2]

(* Bound of the run with two clients: the queue as a whole.                *)
ShortQueue == Len(queue) <= 3
=============================================================================
