----------------------------- MODULE CommandLine ----------------------------
(***************************************************************************)
(* The command line of kryten: main of src/krytenApp/kryten.c as far as    *)
(* the configuration.  Options come first; some, alone in first place,     *)
(* print a text and end the program.  A step is an iteration of the loop   *)
(* over the options.                                                       *)
(***************************************************************************)
EXTENDS Integers, Sequences

CONSTANTS Arguments,    \* what may be written on the command line
          Dashed,       \* the arguments among them that begin with -
          NULL,         \* no argument
          NoStatus      \* main has not returned

ASSUME DashAssumption == {"--monitor", "-m"} \cap Arguments \subseteq Dashed

VARIABLES main,             \* where main is
          argv,             \* argv[1] and what follows
          flags,            \* is_suppress, is_verbose, is_daemon, is_just_check
                            \* and is_command_line_config: those that are true
          string_config,    \* the parameter of --monitor
          status            \* what main returns

mainVars == <<main, argv, flags, string_config, status>>

Informative == {"--help", "-h", "--licence", "-l", "--warranty", "-w",
                "--redistribute", "-r", "--version", "-V"}

Names == [suppress |-> {"--suppress", "-s"}, verbose |-> {"--verbose", "-v"},
          daemon   |-> {"--daemon", "-d"},   check   |-> {"--check", "-c"}]

Monitor == {"--monitor", "-m"}

CommandLineTypeOK ==
  /\ main \in {"special", "options", "config", "read", "run", "process",
               "command", "done", "exit", "crashed"}
  /\ argv \in Seq(Arguments)
  /\ flags \subseteq DOMAIN Names \cup {"monitor"}
  /\ string_config \in Arguments \cup {NULL}
  /\ status \in Int \cup {NoStatus}

CommandLineInit(arguments) == /\ main = "special"
                              /\ argv = arguments
                              /\ flags = {}
                              /\ string_config = NULL
                              /\ status = NoStatus

Return(code) == main' = "exit" /\ status' = code

FirstIn(S) == argv # <<>> /\ argv[1] \in S

-----------------------------------------------------------------------------
SpecialOption ==
  /\ main = "special"
  /\ FirstIn(Informative)
  /\ Return(0)
  /\ UNCHANGED <<argv, flags, string_config>>

NoSpecialOption ==
  /\ main = "special"
  /\ ~FirstIn(Informative)
  /\ main' = "options"
  /\ UNCHANGED <<argv, flags, string_config, status>>

(* The loop goes on while the first argument begins with a dash.           *)
AtOption == main = "options" /\ FirstIn(Dashed)

(* check_flag                                                              *)
Flag(f) ==
  /\ AtOption
  /\ argv[1] \in Names[f]
  /\ flags' = flags \cup {f}
  /\ argv' = Tail(argv)
  /\ UNCHANGED <<main, string_config, status>>

(* check_argument: the first one counts; the parameter of each is skipped. *)
MonitorLast ==
  /\ AtOption
  /\ argv[1] \in Monitor
  /\ flags' = flags \cup {"monitor"}
  /\ string_config' = IF Len(argv) = 1 THEN NULL ELSE argv[2]
  /\ argv' = SubSeq(argv, 3, Len(argv))
  /\ UNCHANGED <<main, status>>

MonitorOption ==
  /\ AtOption
  /\ argv[1] \in Monitor
  /\ flags' = flags \cup {"monitor"}
  /\ string_config' = IF "monitor" \in flags THEN string_config
                      ELSE IF Len(argv) = 1 THEN NULL ELSE argv[2]
  /\ argv' = SubSeq(argv, 3, Len(argv))
  /\ UNCHANGED <<main, status>>

UnknownOption ==
  /\ AtOption
  /\ argv[1] \notin Monitor \cup UNION {Names[f] : f \in DOMAIN Names}
  /\ argv' = Tail(argv)
  /\ UNCHANGED <<main, flags, string_config, status>>

EndOfOptions ==
  /\ main = "options"
  /\ ~AtOption
  /\ main' = "config"
  /\ UNCHANGED <<argv, flags, string_config, status>>

NoConfiguration == "monitor" \notin flags /\ ~FirstIn(Arguments \ {""})

MissingFile ==
  /\ main = "config"
  /\ NoConfiguration
  /\ Return(1)
  /\ UNCHANGED <<argv, flags, string_config>>

(* strlen of a parameter that is not there.                                *)
MissingParameter ==
  /\ main = "config"
  /\ "monitor" \in flags
  /\ string_config = NULL
  /\ main' = "crashed"
  /\ UNCHANGED <<argv, flags, string_config, status>>

(* fopen or fmemopen fails.                                                *)
OpenFails ==
  /\ main = "config"
  /\ ~NoConfiguration
  /\ "monitor" \in flags => string_config # NULL
  /\ Return(1)
  /\ UNCHANGED <<argv, flags, string_config>>

Open ==
  /\ main = "config"
  /\ ~NoConfiguration
  /\ "monitor" \in flags => string_config # NULL
  /\ main' = "read"
  /\ UNCHANGED <<argv, flags, string_config, status>>

CommandLineStep ==
  \/ SpecialOption \/ NoSpecialOption
  \/ \E f \in DOMAIN Names : Flag(f)
  \/ MonitorOption \/ UnknownOption \/ EndOfOptions
  \/ MissingFile \/ MissingParameter \/ OpenFails

-----------------------------------------------------------------------------
(* What a command line means: an argument is an option when it begins with *)
(* a dash and only options and their parameters stand before it.           *)
Reached(arguments) ==
  LET reached[k \in 1..Len(arguments) + 1] ==
        \/ k = 1
        \/ k > 1 /\ reached[k - 1] /\ arguments[k - 1] \in Dashed \ Monitor
        \/ k > 2 /\ reached[k - 2] /\ arguments[k - 2] \in Monitor
  IN  {k \in DOMAIN reached : reached[k]}

OptionsIn(arguments) ==
  {k \in Reached(arguments) \cap DOMAIN arguments : arguments[k] \in Dashed}

MonitorsIn(arguments) == {k \in OptionsIn(arguments) : arguments[k] \in Monitor}

FlagsIn(arguments) ==
  {f \in DOMAIN Names : \E k \in OptionsIn(arguments) : arguments[k] \in Names[f]}
    \cup {f \in {"monitor"} : MonitorsIn(arguments) # {}}

IsInformative(arguments) == arguments # <<>> /\ arguments[1] \in Informative
=============================================================================
