------------------------------- MODULE Startup ------------------------------
(***************************************************************************)
(* The program from its command line to a command: main reads its options, *)
(* the reader makes the list of clients, Run goes on to Process_Clients    *)
(* unless there is no client or only a check was asked for; then the       *)
(* command of a client is made for a state and a value, and is run or      *)
(* quits.  What happens in between, from Process_Clients to the call of    *)
(* the command, is module Kryten.                                          *)
(***************************************************************************)
EXTENDS CommandLine, Configuration, Specifications, Substitute

CONSTANTS Inputs,       \* command lines and configurations, with what the
                        \* latter says when it is written as documented
          ValueImages,  \* values of PVs, as texts
          Unspecified   \* it is left open what is meant

ASSUME InputAssumption ==
  /\ \A i \in Inputs : i.arguments \in Seq(Arguments) /\ i.text \in Texts
  /\ ValueImages \subseteq Texts

VARIABLES input,        \* history: the one that was given
          call,         \* history: the client, state and value of the command
          quit_invoked,
          exit_code

callVars == <<input, call, quit_invoked, exit_code>>
vars == <<mainVars, readerVars, substituteVars, callVars>>

NoCall == [client |-> 0, state |-> <<>>, value |-> <<>>]

TypeOK ==
  /\ CommandLineTypeOK
  /\ ReaderTypeOK
  /\ SubstituteTypeOK
  /\ call.client \in 0..Len(clients)
  /\ quit_invoked \in BOOLEAN
  /\ exit_code \in Int

Init ==
  /\ input \in Inputs
  /\ CommandLineInit(input.arguments)
  /\ ReaderInit
  /\ SubstituteInit
  /\ call = NoCall
  /\ quit_invoked = FALSE
  /\ exit_code = 0

-----------------------------------------------------------------------------
ParseOptions ==
  /\ CommandLineStep
  /\ UNCHANGED <<readerVars, substituteVars, callVars>>

(* Create_PV_Client_List_From_File and _From_String: the text is opened,   *)
(* none of it when the parameter of --monitor is empty.                    *)
CreateClientList ==
  /\ Open
  /\ reader' = "line"
  /\ text' = IF string_config = "" THEN <<>> ELSE input.text
  /\ clients' = <<>>
  /\ UNCHANGED <<source, sub_line, entry, substituteVars, callVars>>

ScanConfiguration ==
  /\ main = "read"
  /\ ReaderStep
  /\ main' = IF reader' = "crashed" THEN "crashed" ELSE main
  /\ UNCHANGED <<argv, flags, string_config, status, substituteVars, callVars>>

EmptyList ==
  /\ main = "read"
  /\ reader = "done"
  /\ clients = <<>>
  /\ Return(0)
  /\ UNCHANGED <<argv, flags, string_config, readerVars, substituteVars, callVars>>

(* Run: a check ends here.                                                 *)
StartRun ==
  /\ main = "read"
  /\ reader = "done"
  /\ clients # <<>>
  /\ main' = "run"
  /\ UNCHANGED <<argv, flags, string_config, status, readerVars,
                 substituteVars, callVars>>

JustCheck ==
  /\ main = "run"
  /\ "check" \in flags
  /\ Return(exit_code)
  /\ UNCHANGED <<argv, flags, string_config, readerVars, substituteVars, callVars>>

ProcessClientsAlways ==
  /\ main = "run"
  /\ main' = "process"
  /\ UNCHANGED <<argv, flags, string_config, status, readerVars,
                 substituteVars, callVars>>

ProcessClients ==
  /\ main = "run"
  /\ "check" \notin flags
  /\ main' = "process"
  /\ UNCHANGED <<argv, flags, string_config, status, readerVars,
                 substituteVars, callVars>>

-----------------------------------------------------------------------------
(* The states as Process_PV_Update and Process_PV_Disconnect pass them.    *)
StateImages == {<<"match", " ">>, <<"reject">>, <<"disconnect">>}

call_command(c, state_image, value_image) ==
  /\ main = "process"
  /\ main' = "command"
  /\ call' = [client |-> c, state |-> state_image, value |-> value_image]
  /\ BeginSubstitute(clients[c].match_command,
                     Images(clients[c].pv_name, clients[c].element_index,
                            state_image, value_image))
  /\ UNCHANGED <<argv, flags, string_config, status, readerVars, input,
                 quit_invoked, exit_code>>

CallSomeCommand ==
  \E c \in DOMAIN clients, s \in StateImages, v \in ValueImages :
    call_command(c, s, IF s = <<"disconnect">> THEN <<>> ELSE v)

SubstituteImages ==
  /\ main = "command"
  /\ SubstituteStep
  /\ UNCHANGED <<mainVars, readerVars, callVars>>

(* The command is built in when it begins with quit and a blank; otherwise *)
(* system() runs it.                                                       *)
IsQuit(command) == StartsWith(command, <<"quit", " ">>)

QuitOrRunAnyState ==
  /\ main = "command"
  /\ pass = 5
  /\ main' = "done"
  /\ quit_invoked' = (quit_invoked \/ IsQuit(from))
  /\ exit_code' = IF IsQuit(from) THEN Atoi(Rest(from, 2)) ELSE exit_code
  /\ UNCHANGED <<argv, flags, string_config, status, readerVars,
                 substituteVars, input, call>>

QuitOrRun ==
  /\ main = "command"
  /\ pass = 5
  /\ main' = "done"
  /\ LET quits == IsQuit(from) /\ call.state[1] = "match"
     IN  /\ quit_invoked' = (quit_invoked \/ quits)
         /\ exit_code' = IF quits THEN Atoi(Rest(from, 2)) ELSE exit_code
  /\ UNCHANGED <<argv, flags, string_config, status, readerVars,
                 substituteVars, input, call>>

Next == \/ ParseOptions \/ CreateClientList \/ ScanConfiguration
        \/ EmptyList \/ StartRun \/ JustCheck \/ ProcessClients
        \/ CallSomeCommand \/ SubstituteImages \/ QuitOrRun

Spec == Init /\ [][Next]_vars

(* One thread, which nothing holds up.                                     *)
FairSpec == Spec /\ WF_vars(Next)

-----------------------------------------------------------------------------
(* The options are those the command line has, whatever their order and    *)
(* repetitions, with the parameter of the first --monitor and the rest of  *)
(* the arguments behind the last option.                                   *)
OptionsAsWritten ==
  LET a == input.arguments
      m == Smallest(MonitorsIn(a))
  IN  main \notin {"special", "options"} /\ ~IsInformative(a) =>
        /\ flags = FlagsIn(a)
        /\ string_config = IF "monitor" \notin FlagsIn(a) \/ m = Len(a) THEN NULL
                           ELSE a[m + 1]
        /\ \A k \in Reached(a) \ OptionsIn(a) : argv = SubSeq(a, k, Len(a))

(* The reader makes of a text the clients that the documented grammar      *)
(* gives its specifications, in their order: one with an error, a comment  *)
(* or a blank line adds none and spoils none before or behind it.          *)
ReadAsWritten ==
  reader = "done" /\ input.written # Unspecified =>
    clients = IF string_config = "" THEN <<>> ELSE input.written

(* What is still to be read of a specification, and the clients it will    *)
(* have given then.                                                        *)
ListAhead == MatchList[<<entry.match_set, parse_match[sub_line]>>]

ClientsAhead ==
  CASE reader = "match"   -> Completed[<<entry, ListAhead>>]
    [] reader = "command" -> Completed[<<entry, Read(entry.match_set, sub_line)>>]
    [] OTHER              -> <<>>

SpecificationsAhead ==
  (IF reader \in {"idle", "line", "done"} THEN <<>> ELSE InLine[source]) \o InText[text]

Phase ==
  CASE reader = "idle" -> "closed"
    [] reader = "done" -> "done"
    [] \/ reader = "crashed"
       \/ reader = "match" /\ ListAhead.outcome = "overrun" -> "stopped"
    [] OTHER -> "open"

(* The list a text is: of an ordinary text what the documents say it is.   *)
(* A text with a line that does not fit the buffer, or with a semicolon in *)
(* quotes, the reader does not divide as they say (run startup_lines), and *)
(* its list is the one the reader finds.                                   *)
Given(t) == IF Ordinary(t) THEN DocumentedText[t] ELSE InText[t]

(* The reader takes a text as this list: with its buffer of a line, its    *)
(* semicolons, match items and errors, and with all it keeps from one      *)
(* specification to the next, it makes the clients that each specification *)
(* gives alone, in their order, each one once.                             *)
Reading == INSTANCE ReadingPolicy WITH
  given <- Given(input.text), todo <- SpecificationsAhead,
  made <- clients \o ClientsAhead, phase <- Phase

ImplementsReadingPolicy == Reading!PolicySpec

(* Processing begins only with a client and when no check was asked for; a *)
(* program that ends before returns 0, but for a configuration that is not *)
(* given or cannot be opened.  A crash is a --monitor without parameter or *)
(* an opening quote that ends a specification.                             *)
ExitExplained ==
  LET a == input.arguments
      check == "check" \in FlagsIn(a)
  IN  /\ main \in {"process", "command", "done"} =>
           ~IsInformative(a) /\ clients # <<>> /\ ~check
      /\ main = "exit" =>
           CASE IsInformative(a) -> status = 0 /\ reader = "idle"
             [] ~IsInformative(a) /\ reader = "idle" -> status = 1
             [] OTHER -> status = 0 /\ reader = "done" /\ (clients = <<>> \/ check)
      /\ main = "crashed" =>
           \/ reader = "crashed" /\ sub_line[Len(sub_line)] = QuotationMark
           \/ reader = "idle" /\ "monitor" \in flags /\ string_config = NULL

(* A command that names each placeholder at most once is expanded in full  *)
(* and as documented: COMMAND_BUFFER_SIZE is enough for every client the   *)
(* reader makes, and no image is taken for a placeholder.  The value may   *)
(* hold a %, and so is done last (filter.c:68); a PV name may not.         *)
ExpandedAsWritten ==
  pass = 5 =>
    LET c == clients[call.client]
    IN  EachOnce(c.match_command) /\ ~Holds(c.pv_name, "%") =>
          from = Expanded(c.match_command, images)

(* The number behind quit, without its sign, ends before the first         *)
(* placeholder.                                                            *)
NumberWritten(command) ==
  LET literal == Prefix(command, UpTo(command, {"%"}))
      number  == Unsigned(SkipWhite[Rest(literal, 2)])
  IN  literal = command \/ Span(number, DOMAIN Digit) < Len(number)

(* quit takes effect when it is the command as written and the PV begins   *)
(* to match; what the placeholders stand for never makes a command quit    *)
(* unless it begins with one.  The code is the number given, with its      *)
(* sign, when it ends before the first placeholder.  It is 0 when none is  *)
(* given and the PV's name does not begin with a digit: the default        *)
(* parameters are added to quit as well (see BareQuitIsZero).              *)
QuitAsWritten ==
  main = "done" =>
    LET c == clients[call.client]
        command == c.match_command
    IN  ~Begins(command, {"%"}) =>
          /\ quit_invoked <=> IsQuit(command) /\ call.state[1] = "match"
          /\ quit_invoked /\ NumberWritten(command) =>
               exit_code = Atoi(Rest(command, 2))
          /\ /\ quit_invoked
             /\ command = <<"quit">> \o DefaultParameters
             /\ ~Holds(c.pv_name, "%")
             /\ ~Begins(c.pv_name, DOMAIN Digit)
             => exit_code = 0

(* kryten.html:196-197, information.c:195: without an exit code quit ends  *)
(* the program with 0, whatever the PV is called.                          *)
BareQuitIsZero ==
  main = "done" /\ quit_invoked =>
    LET command == clients[call.client].match_command
    IN  command = <<"quit">> \o DefaultParameters => exit_code = 0

(* What is left to do, what counts most first: of main, of its options, of *)
(* the text, of a line, of a specification, and of a command.              *)
MainLeft == [special |-> 7, options |-> 6, config |-> 5, read |-> 4, run |-> 3,
             process |-> 2, command |-> 1, done |-> 0, exit |-> 0, crashed |-> 0]

LineLeft == [idle |-> 0, line |-> 1, spec |-> 2, match |-> 2, command |-> 2,
             done |-> 0, crashed |-> 0]

SpecLeft == [idle |-> 0, line |-> 0, spec |-> 0, match |-> 2, command |-> 1,
             done |-> 0, crashed |-> 0]

Left == << MainLeft[main], Len(argv),
           Len(text), LineLeft[reader], Len(source), SpecLeft[reader], Len(sub_line),
           5 - pass, Len(from) + Room(dest) >>

Less(a, b) == \E k \in DOMAIN b : a[k] < b[k] /\ \A j \in 1..k - 1 : a[j] = b[j]

(* A step leaves less to do.                                               *)
CountsDown == Left \in Seq(Nat) /\ Less(Left', Left)

(* No loop over arguments, lines, specifications, match items or           *)
(* placeholders turns without an end: every step leaves less to do, also   *)
(* one that meets an error, and there is no infinite descent.              *)
StepsCountDown == [][CountsDown]_vars

(* For every command line and text the program comes to the end of them.   *)
Terminates == <>(main \in {"done", "exit", "crashed"})
=============================================================================
