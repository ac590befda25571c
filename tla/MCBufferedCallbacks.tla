------------------------- MODULE MCBufferedCallbacks ------------------------
(* Two library threads and the application thread, as model values.  One   *)
(* library thread makes two elements, for its order to matter, the other   *)
(* one.                                                                    *)
EXTENDS BufferedCallbacks, TLC

CONSTANTS t1, t2

MCCallbacks == t1 :> 2 @@ t2 :> 1
=============================================================================
