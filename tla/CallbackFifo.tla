---------------------------- MODULE CallbackFifo ----------------------------
(***************************************************************************)
(* What buffered_callbacks.h promises of the module's queue, with no       *)
(* threads, mutex or memory in sight: a callback made by the Channel       *)
(* Access library is stored (buffered_callbacks.h:42-45), the application  *)
(* is given the stored callbacks one at a time in the order they were      *)
(* stored, and once Channel Access is no longer required the outstanding   *)
(* ones are discarded (buffered_callbacks.h:136-140).                      *)
(***************************************************************************)
EXTENDS Sequences

CONSTANT Callback                 \* the callbacks that may be stored

VARIABLES pending,                \* callbacks stored and not yet delivered
          delivered,              \* callbacks given to the application, in order
          closing                 \* discarding has begun

fifoVars == <<pending, delivered, closing>>

FifoInit == pending = <<>> /\ delivered = <<>> /\ closing = FALSE

Store == /\ ~closing
         /\ \E c \in Callback : pending' = Append(pending, c)
         /\ UNCHANGED <<delivered, closing>>

Deliver == /\ ~closing
           /\ pending # <<>>
           /\ delivered' = Append(delivered, Head(pending))
           /\ pending' = Tail(pending)
           /\ UNCHANGED closing

BeginDiscarding == closing' = TRUE /\ UNCHANGED <<pending, delivered>>

Discard == /\ closing
           /\ pending # <<>>
           /\ pending' = Tail(pending)
           /\ UNCHANGED <<delivered, closing>>

FifoNext == Store \/ Deliver \/ BeginDiscarding \/ Discard

FifoSpec == FifoInit /\ [][FifoNext]_fifoVars
=============================================================================
