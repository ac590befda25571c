---------------------------- MODULE CommandPolicy ---------------------------
(***************************************************************************)
(* What kryten promises the user about the commands it runs                *)
(* (kryten.html:269-271, README.md): the command of a PV is run when its   *)
(* match status changes and when the PV disconnects.  So, for each PV,     *)
(* match and reject alternate, beginning with match, and come only while   *)
(* the PV is connected; disconnect comes once for each connection; and     *)
(* kryten waits for a command before it runs the next one.                 *)
(***************************************************************************)
CONSTANTS PVs,            \* the PVs monitored
          BuiltIn,        \* those whose command is built in: it takes no time
          None            \* no command is running

VARIABLES matched,        \* the PV's last status was match
          online,         \* the PV is connected
          running         \* the command that runs

policyVars == <<matched, online, running>>

Run(p, s) == IF p \in BuiltIn THEN running' = None
                              ELSE running' = [client |-> p, state |-> s]

PolicyInit == /\ matched = [p \in PVs |-> FALSE]
              /\ online = [p \in PVs |-> FALSE]
              /\ running = None

GoOnline(p) == /\ running = None
               /\ ~online[p]
               /\ online' = [online EXCEPT ![p] = TRUE]
               /\ UNCHANGED <<matched, running>>

GoOffline(p) == /\ running = None
                /\ online[p]
                /\ online' = [online EXCEPT ![p] = FALSE]
                /\ Run(p, "disconnect")
                /\ UNCHANGED matched

(* The status of a PV changes: for a built in command that is all, another *)
(* one is started and the status has changed when it has ended.            *)
StatusChanges(p) ==
  /\ running = None
  /\ online[p]
  /\ Run(p, IF matched[p] THEN "reject" ELSE "match")
  /\ matched' = IF p \in BuiltIn THEN [matched EXCEPT ![p] = ~@] ELSE matched
  /\ UNCHANGED online

CommandEnds ==
  /\ running # None
  /\ running' = None
  /\ matched' = IF running.state = "disconnect" THEN matched
                ELSE [matched EXCEPT ![running.client] = (running.state = "match")]
  /\ UNCHANGED online

PolicyNext == \/ \E p \in PVs : GoOnline(p) \/ GoOffline(p) \/ StatusChanges(p)
              \/ CommandEnds

PolicySpec == PolicyInit /\ [][PolicyNext]_policyVars
=============================================================================
