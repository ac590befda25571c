------------------------------- MODULE Filter -------------------------------
(***************************************************************************)
(* src/krytenApp/filter.c with its state: has an update changed whether    *)
(* the PV's value matches, and the command to run when it has.  A command  *)
(* is built in (quit) or a call of system(), which returns when the        *)
(* command has ended.                                                      *)
(***************************************************************************)
EXTENDS Matching

CONSTANT NoCommand                \* system() is not running

VARIABLES last_update_matched,   \* of each client
          command,               \* the command system() is running
          quit_invoked,          \* globals of kryten.c
          exit_code

filterVars == <<last_update_matched, command, quit_invoked, exit_code>>

Commands == [client : Clients \ Quits, state : {"match", "reject", "disconnect"}]

ASSUME CommandAssumption == NoCommand \notin Commands

FilterTypeOK == /\ last_update_matched \in [Clients -> BOOLEAN]
                /\ command \in Commands \cup {NoCommand}
                /\ quit_invoked \in BOOLEAN
                /\ exit_code \in Int

FilterInit == /\ last_update_matched = [c \in Clients |-> FALSE]
              /\ command = NoCommand
              /\ quit_invoked = FALSE
              /\ exit_code = 0

-----------------------------------------------------------------------------
(* As call_command, had quit not looked at the state.                      *)
call_commandAnyState(c, state) ==
  IF c \in Quits
    THEN /\ quit_invoked' = TRUE
         /\ exit_code' = QuitCode[c]
         /\ UNCHANGED command
    ELSE /\ command' = [client |-> c, state |-> state]
         /\ UNCHANGED <<quit_invoked, exit_code>>

(* The command of client c is called with a state: quit acts on a match    *)
(* only, any other is given to system().                                   *)
call_command(c, state) ==
  IF c \in Quits
    THEN /\ quit_invoked' = (quit_invoked \/ state = "match")
         /\ exit_code' = IF state = "match" THEN QuitCode[c] ELSE exit_code
         /\ UNCHANGED command
    ELSE /\ command' = [client |-> c, state |-> state]
         /\ UNCHANGED <<quit_invoked, exit_code>>

ChangedOrNot(c, value) == TRUE
Changed(c, value) == last_update_matched[c] # Matches(c, value)

(* An update is processed as far as the call of system(), if there is one: *)
(* last_update_matched is assigned after it has returned.                  *)
Process_PV_Update(c, value) ==
  \/ /\ Changed(c, value)
     /\ call_command(c, IF Matches(c, value) THEN "match" ELSE "reject")
     /\ last_update_matched' =
          IF c \in Quits THEN [last_update_matched EXCEPT ![c] = Matches(c, value)]
                         ELSE last_update_matched
  \/ /\ ~Changed(c, value)
     /\ UNCHANGED filterVars

Process_PV_Disconnect(c) ==
  /\ call_command(c, "disconnect")
  /\ UNCHANGED last_update_matched

(* system() returns: what is left of Process_PV_Update, if it was called   *)
(* from there.                                                             *)
FinishForgetting ==
  /\ command' = NoCommand
  /\ UNCHANGED <<last_update_matched, quit_invoked, exit_code>>

FinishCommand ==
  /\ command' = NoCommand
  /\ last_update_matched' =
       IF command.state = "disconnect" THEN last_update_matched
       ELSE [last_update_matched EXCEPT ![command.client] = (command.state = "match")]
  /\ UNCHANGED <<quit_invoked, exit_code>>
=============================================================================
