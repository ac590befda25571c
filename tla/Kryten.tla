------------------------------- MODULE Kryten -------------------------------
(***************************************************************************)
(* The program: Process_Clients of src/krytenApp/pv_client.c and the       *)
(* signal handling and exit code of src/krytenApp/kryten.c, around the     *)
(* clients, the filter and Channel Access.                                 *)
(*                                                                         *)
(* The application thread creates the channels; then, until a signal or a  *)
(* quit command asks it to stop, it takes callbacks from the queue in      *)
(* bursts of at most Maximum and sleeps; then it clears the channels and   *)
(* returns the exit code.  A handler is as many steps as it makes calls    *)
(* between which the library's threads or a signal can matter, and a       *)
(* command that system() runs holds the thread until it ends.              *)
(***************************************************************************)
EXTENDS PVClient

CONSTANTS Signals,        \* bound: the signals that are sent
          Maximum,        \* callbacks processed in a burst (400)
          TimeoutCycles,  \* bursts in 2 seconds (40)
          NoClient,       \* no handler is running
          NoStatus,       \* main has not returned
          NoCode          \* nothing has asked for shut down

ASSUME BurstAssumption == /\ Maximum \in Nat \ {0}
                          /\ TimeoutCycles \in Nat \ {0}

SigIntCode  == 128 + 2
SigTermCode == 128 + 15

VARIABLES
  pc,               \* where the application thread is
  cur,              \* the client whose connection is being handled
  n,                \* callbacks processed in this burst
  cycle,            \* bursts begun, as far as the time out test can tell
  timeouts_done,    \* connection_timouts_are_done
  todo,             \* the clients a loop over the client list has yet to visit
  sig_int, sig_term,\* sig_int_received, sig_term_received
  status,           \* what main returns
  online,           \* history: the last connection callback handled was UP
  first_exit,       \* history: the exit code of what first asked to stop
  late              \* history: callbacks taken after that

mainVars    == <<cur, n, cycle, timeouts_done, todo, status>>
signalVars  == <<sig_int, sig_term>>
historyVars == <<online, first_exit, late>>

vars == <<caVars, clientVars, filterVars, pc, mainVars, signalVars, historyVars>>

ShutDownIgnoringTerm == sig_int \/ quit_invoked
Shut_Down_Is_Required == sig_int \/ sig_term \/ quit_invoked

TypeOK ==
  /\ CATypeOK
  /\ FilterTypeOK
  /\ ClientTypeOK
  /\ pc \in {"start", "create", "test", "drain", "get", "subscribe", "system",
             "timeouts", "clear", "exit"}
  /\ cur \in Clients \cup {NoClient}
  /\ n \in 0..Maximum
  /\ cycle \in 0..TimeoutCycles
  /\ timeouts_done \in BOOLEAN
  /\ todo \subseteq Clients
  /\ sig_int \in BOOLEAN
  /\ sig_term \in BOOLEAN
  /\ status \in Int \cup {NoStatus}
  /\ online \in [Clients -> BOOLEAN]
  /\ first_exit \in Int \cup {NoCode}
  /\ late \in Nat

Init ==
  /\ CAInit
  /\ FilterInit
  /\ ClientInit
  /\ pc = "start"
  /\ cur = NoClient
  /\ n = 0
  /\ cycle = 0
  /\ timeouts_done = FALSE
  /\ todo = {}
  /\ sig_int = FALSE
  /\ sig_term = FALSE
  /\ status = NoStatus
  /\ online = [c \in Clients |-> FALSE]
  /\ first_exit = NoCode
  /\ late = 0

-----------------------------------------------------------------------------
(* Process_Clients, up to the loop.                                        *)
ContextCreate ==
  /\ pc = "start"
  /\ pc' = "create"
  /\ todo' = Clients
  /\ UNCHANGED <<caVars, clientVars, filterVars, cur, n, cycle, timeouts_done,
                 status, signalVars, historyVars>>

(* ca_context_create fails: Process_Clients returns false, main 1.         *)
ContextCreateFails ==
  /\ pc = "start"
  /\ Fault
  /\ pc' = "exit"
  /\ status' = 1
  /\ UNCHANGED <<channel_id, serverVars, subs, gets, due, queue, clientVars, filterVars,
                 cur, n, cycle, timeouts_done, todo, signalVars, historyVars>>

Create_All_Channels ==
  /\ pc = "create"
  /\ \E c \in todo : Create_Channel(c) /\ todo' = todo \ {c}
  /\ pc' = IF todo' = {} THEN "test" ELSE "create"
  /\ UNCHANGED <<cur, n, cycle, timeouts_done, status, signalVars,
                 historyVars>>

(* The head of the loop: to stop, or another burst (ca_flush_io only hurries *)
(* requests that the library is free to send at any time).                 *)
Continue ==
  /\ pc = "test"
  /\ ~Shut_Down_Is_Required
  /\ pc' = "drain"
  /\ n' = 0
  /\ cycle' = SmallerOf(cycle + 1, TimeoutCycles)
  /\ UNCHANGED <<caVars, clientVars, filterVars, cur, timeouts_done, todo,
                 status, signalVars, historyVars>>

ShutDown ==
  /\ pc = "test"
  /\ Shut_Down_Is_Required
  /\ pc' = "clear"
  /\ todo' = Clients
  /\ UNCHANGED <<caVars, clientVars, filterVars, cur, n, cycle, timeouts_done,
                 status, signalVars, historyVars>>

-----------------------------------------------------------------------------
(* process_buffered_callbacks takes the first callback; after it has been  *)
(* handled the burst goes on unless it was the last one allowed.  All are  *)
(* of a client with a channel (CallbacksAreValid).                         *)
Take(cb) ==
  /\ pc = "drain"
  /\ queue # <<>>
  /\ cb = Head(queue)
  /\ queue' = Tail(queue)
  /\ n' = n + 1
  /\ late' = IF Shut_Down_Is_Required THEN late + 1 ELSE late
  /\ UNCHANGED <<cycle, timeouts_done, todo, status, signalVars>>

AfterBeyond(k) == "drain"
After(k) == IF k >= Maximum THEN "timeouts" ELSE "drain"

NotedQuit == first_exit' = IF first_exit = NoCode /\ quit_invoked' THEN exit_code'
                           ELSE first_exit

(* application_connection_handler, CA_OP_CONN_UP: too few elements end it. *)
HandleUp(c) ==
  /\ Take(Up(c))
  /\ Validate_Channel_Id(c)
  /\ ConnectionUp(c)
  /\ cur' = IF EnoughElements(c) THEN c ELSE NoClient
  /\ pc' = IF EnoughElements(c) THEN "get" ELSE After(n')
  /\ online' = [online EXCEPT ![c] = TRUE]
  /\ UNCHANGED first_exit

Get ==
  /\ pc = "get"
  /\ \/ GetAccepted(cur) /\ pc' = "subscribe" /\ UNCHANGED cur
     \/ GetRefused(cur) /\ pc' = After(n) /\ cur' = NoClient
  /\ UNCHANGED <<n, cycle, timeouts_done, todo, status, signalVars, historyVars>>

Subscribe ==
  /\ pc = "subscribe"
  /\ SubscribeAccepted(cur) \/ SubscribeRefused(cur)
  /\ pc' = After(n)
  /\ cur' = NoClient
  /\ UNCHANGED <<n, cycle, timeouts_done, todo, status, signalVars, historyVars>>

HandleDown(c) ==
  /\ Take(Down(c))
  /\ Validate_Channel_Id(c)
  /\ ConnectionDown(c)
  /\ pc' = IF command' # NoCommand THEN "system" ELSE After(n')
  /\ online' = [online EXCEPT ![c] = FALSE]
  /\ UNCHANGED <<cur, first_exit>>

HandleEvent ==
  /\ Take(Head(queue))
  /\ Head(queue).op \in {"EVENT", "FAILED"}
  /\ Validate_Channel_Id(Head(queue).client)
  /\ EventHandled(Head(queue))
  /\ pc' = IF command' # NoCommand THEN "system" ELSE After(n')
  /\ NotedQuit
  /\ UNCHANGED <<cur, online>>

(* The command that system() runs ends.                                    *)
SystemReturns ==
  /\ pc = "system"
  /\ FinishCommand
  /\ pc' = After(n)
  /\ UNCHANGED <<caVars, clientVars, mainVars, signalVars, historyVars>>

EndDrain ==
  /\ pc = "drain"
  /\ queue = <<>>
  /\ pc' = "timeouts"
  /\ UNCHANGED <<caVars, clientVars, filterVars, mainVars, signalVars, historyVars>>

(* Print_All_Connection_Timeouts, once, 2 seconds after the start, reports *)
(* the clients of TimedOut; and the sleep.                                 *)
TimeoutsDue == pc = "timeouts" /\ ~timeouts_done /\ cycle >= TimeoutCycles

TimedOut == {c \in Clients : ~is_connected[c]}

Timeouts ==
  /\ pc = "timeouts"
  /\ pc' = "test"
  /\ timeouts_done' = (timeouts_done \/ TimeoutsDue)
  /\ UNCHANGED <<caVars, clientVars, filterVars, cur, n, cycle, todo, status,
                 signalVars, historyVars>>

-----------------------------------------------------------------------------
(* As Clear_All_Channels, had what is left in the queue been handled then. *)
Clear_All_ChannelsThenDrain ==
  /\ pc = "clear"
  /\ \E c \in todo : Clear_Channel(c) /\ todo' = todo \ {c}
  /\ pc' = IF todo' = {} THEN "drain" ELSE "clear"
  /\ UNCHANGED <<cur, n, cycle, timeouts_done, status, signalVars,
                 historyVars>>

Clear_All_Channels ==
  /\ pc = "clear"
  /\ \E c \in todo : Clear_Channel(c) /\ todo' = todo \ {c}
  /\ UNCHANGED <<pc, cur, n, cycle, timeouts_done, status, signalVars,
                 historyVars>>

(* ca_context_destroy; main returns the exit code.                         *)
ExitWithoutSignal ==
  /\ pc = "clear"
  /\ todo = {}
  /\ pc' = "exit"
  /\ status' = IF quit_invoked THEN exit_code ELSE 0
  /\ UNCHANGED <<caVars, clientVars, filterVars, cur, n, cycle, timeouts_done,
                 todo, signalVars, historyVars>>

Exit ==
  /\ pc = "clear"
  /\ todo = {}
  /\ pc' = "exit"
  /\ status' = exit_code
  /\ UNCHANGED <<caVars, clientVars, filterVars, cur, n, cycle, timeouts_done,
                 todo, signalVars, historyVars>>

(* Signal_Catcher, at any time the process lives; system() makes the       *)
(* process ignore SIGINT.                                                  *)
Signalled(code) ==
  /\ pc # "exit"
  /\ exit_code' = code
  /\ first_exit' = IF first_exit = NoCode THEN code ELSE first_exit
  /\ UNCHANGED <<caVars, clientVars, last_update_matched, command, quit_invoked,
                 pc, mainVars, online, late>>

SigInt == /\ "SIGINT" \in Signals
          /\ pc # "system"
          /\ Signalled(SigIntCode)
          /\ sig_int' = TRUE
          /\ UNCHANGED sig_term

SigTerm == /\ "SIGTERM" \in Signals
           /\ Signalled(SigTermCode)
           /\ sig_term' = TRUE
           /\ UNCHANGED sig_int

-----------------------------------------------------------------------------
ApplicationStep ==
  \/ ContextCreate \/ ContextCreateFails \/ Create_All_Channels
  \/ Continue \/ ShutDown
  \/ \E c \in Clients : HandleUp(c) \/ HandleDown(c)
  \/ Get \/ Subscribe \/ HandleEvent
  \/ EndDrain \/ Timeouts
  \/ Clear_All_Channels \/ Exit

LibraryStep(c) == /\ pc # "exit"
                  /\ Library(c)
                  /\ UNCHANGED <<clientVars, filterVars, pc, mainVars, signalVars, historyVars>>

Next == \/ ApplicationStep
        \/ SystemReturns
        \/ \E c \in Clients : LibraryStep(c)
        \/ SigInt \/ SigTerm

Spec == Init /\ [][Next]_vars

(* The application thread is scheduled, and the library and the servers    *)
(* answer gets and report updates while the circuit is up.  Signals,       *)
(* circuits and values come as they like.                                  *)
Answers(c) == /\ pc # "exit"
              /\ DeliverGet(c) \/ DeliverEvent(c)
              /\ UNCHANGED <<clientVars, filterVars, pc, mainVars, signalVars, historyVars>>

Fairness == /\ WF_vars(ApplicationStep)
            /\ \A c \in Clients : WF_vars(Answers(c))

(* In the second one the commands end as well.                             *)
FairSpec == Spec /\ Fairness
FairSpecCommandsEnd == FairSpec /\ WF_vars(SystemReturns)
-----------------------------------------------------------------------------
(* A client never has two subscriptions, and unsubscribing always finds    *)
(* the one there is: event_id tells the application what the library has,  *)
(* however connections and disconnections queue up before they are         *)
(* handled.                                                                *)
OneSubscription == \A c \in Clients : subs[c] = IF event_id[c] THEN 1 ELSE 0

(* Nothing more is on its way to the application about channel c.          *)
AtRest(c) == /\ pc \in {"test", "timeouts"}
             /\ ~Shut_Down_Is_Required
             /\ Queued(c) = 0
             /\ link[c] = "up"

(* When callbacks are lost: event_id still is a subscription the library   *)
(* has, and each loss leaks at most one subscription.                      *)
EventIdIsLive == \A c \in Clients : event_id[c] => subs[c] > 0

LeakIsBounded ==
  \A c \in Clients : subs[c] <= faults + (IF event_id[c] THEN 1 ELSE 0)

(* No callback is handled of a channel that is not there, lost callbacks   *)
(* and failing calls or not: Validate_Channel_Id would ask the library     *)
(* about a channel it has freed.                                           *)
CallbacksAreValid ==
  pc = "drain" => \A k \in DOMAIN queue : channel_id[queue[k].client]

(* A connected channel with enough elements is subscribed once the queue   *)
(* has been dealt with, whatever the circuit did while the callbacks of an *)
(* earlier connection were still in the queue.                             *)
SubscribedAtRest ==
  \A c \in Clients : AtRest(c) /\ element_index[c] <= nelm[c] => event_id[c]

(* The status kryten last acted on is that of the PV's present value as    *)
(* soon as the library has no more to say: no update is lost between the   *)
(* initial get, the subscription and a reconnection.                       *)
NeverStale ==
  \A c \in Clients :
    AtRest(c) /\ event_id[c] /\ gets[c] = 0 /\ due[c] = 0
      => last_update_matched[c] = Matches(c, pv[c])

(* Once a signal or a quit has asked kryten to stop, at most one burst of  *)
(* callbacks is still handled.                                             *)
ShutdownBounded == late <= Maximum

(* When main returns no channel and no subscription is left behind.        *)
CleanExit ==
  status # NoStatus =>
    \A c \in Clients : ~channel_id[c] /\ ~event_id[c] /\ subs[c] = 0 /\ gets[c] = 0

(* The exit code is that of a signal that was caught or of a quit command  *)
(* that was run, and nothing else ends a kryten that has started.          *)
ExitCodeExplained ==
  status # NoStatus =>
    \/ sig_int /\ status = SigIntCode
    \/ sig_term /\ status = SigTermCode
    \/ quit_invoked /\ status \in {QuitCode[c] : c \in Quits}
    \/ faults > 0 /\ status = 1

(* quit takes effect when its PV begins to match: not for a PV that stops  *)
(* matching, disconnects or reports the same status again.                 *)
QuitOnlyOnMatch ==
  [][quit_invoked' # quit_invoked =>
       \E c \in Quits : ~last_update_matched[c] /\ last_update_matched'[c]]_vars

(* The commands that are run follow the policy the user is told of.        *)
Policy == INSTANCE CommandPolicy WITH PVs <- Clients, BuiltIn <- Quits,
            None <- NoCommand, matched <- last_update_matched, running <- command
ImplementsCommandPolicy == Policy!PolicySpec

(* The report of channels that are not found names none that has connected *)
(* and is connected still, as far as the application has been told.        *)
TimedOutAreOffline == TimeoutsDue => \A c \in TimedOut : ~online[c]

(* If a PV stays connected, with the element asked for, and keeps a value, *)
(* kryten ends up in the status of that value, unless it is asked to stop  *)
(* or a callback is lost.                                                  *)
EventuallyTracks ==
  \A c \in Clients, v \in Values :
    <>[](/\ link[c] = "up" /\ element_index[c] <= nelm[c]
         /\ pv[c] = v
         /\ ~Shut_Down_Is_Required)
      => <>[](last_update_matched[c] = Matches(c, v))

(* Once asked to stop kryten does, if the command it is running ends.      *)
ShutdownTerminates == (sig_int \/ sig_term \/ quit_invoked) ~> pc = "exit"

-----------------------------------------------------------------------------
(* What the documentation says and the code does not do.                   *)

(* release-notes.html:49, "Exit codes from sig int and sig term are now    *)
(* the same as if these signals were not caught": a kryten that a signal   *)
(* stops returns the code of the signal.                                   *)
SignalCodeKept ==
  status # NoStatus /\ first_exit \in {SigIntCode, SigTermCode}
    => status \in {SigIntCode, SigTermCode}

(* release-notes.html:85-86, "After 2 seconds kryten now issues connection *)
(* timeout messages for any channel that is not connected".                *)
AllOfflineTimedOut == TimeoutsDue => \A c \in Clients : ~online[c] => c \in TimedOut

(* kryten.html:273-274, "The program or script is run in background mode,  *)
(* and therefore it will run asynchronously": no command holds the         *)
(* application thread for ever.                                            *)
CommandsInBackground == []<>(pc # "system")
=============================================================================
