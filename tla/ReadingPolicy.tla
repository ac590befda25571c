---------------------------- MODULE ReadingPolicy ---------------------------
(***************************************************************************)
(* What is promised of a configuration (kryten.html:110-157), once it is   *)
(* known to be a given list of specifications: they are read in their      *)
(* order, and each of them gives the client it gives alone, whatever       *)
(* stands before and behind it.  The list is complete when all have been   *)
(* read.  How a text is divided into the list is not for this module to    *)
(* say: who instantiates it gives both.                                    *)
(***************************************************************************)
EXTENDS Sequences

CONSTANTS Texts,        \* what may be written as a specification
          ClientsOf,      \* the clients each one gives
          Fatal           \* those that stop the program

VARIABLES given,        \* the specifications of the configuration, an input that
                        \* is only looked at when it is opened
          todo,         \* those that have not been read
          made,         \* the clients of those that have
          phase           \* closed, open, done or stopped

policyVars == <<todo, made, phase>>

PolicyInit == /\ phase = "closed"
              /\ todo = <<>>
              /\ made = <<>>

(* A configuration that is empty on the command line is none.              *)
OpenConfiguration ==
  /\ phase = "closed"
  /\ phase' = "open"
  /\ todo' \in {given, <<>>}
  /\ UNCHANGED made

TakeSpecification ==
  /\ phase = "open"
  /\ todo # <<>>
  /\ todo' = Tail(todo)
  /\ made' = made \o ClientsOf[Head(todo)]
  /\ phase' = IF Head(todo) \in Fatal THEN "stopped" ELSE "open"

EndOfConfiguration ==
  /\ phase = "open"
  /\ todo = <<>>
  /\ phase' = "done"
  /\ UNCHANGED <<todo, made>>

PolicyNext == OpenConfiguration \/ TakeSpecification \/ EndOfConfiguration

PolicySpec == PolicyInit /\ [][PolicyNext]_policyVars
=============================================================================
