----------------------------- MODULE ClientList -----------------------------
(***************************************************************************)
(* What the configuration gives: the list of CA_Clients of                 *)
(* src/krytenApp/pv_client.c, with the fields read_configuration.c fills.  *)
(***************************************************************************)
EXTENDS Integers

CONSTANTS Clients,        \* the CA_Clients, one per entry of the configuration
          element_index,  \* the element of the PV each one asks for
          match_set,      \* its match list, a sequence of ranges
          Quits,          \* those whose match_command is the built in quit
          QuitCode        \* the exit code each of those gives

ASSUME ElementAssumption == element_index \in [Clients -> Nat \ {0}]
ASSUME QuitAssumption == Quits \subseteq Clients /\ QuitCode \in [Quits -> Int]
=============================================================================
