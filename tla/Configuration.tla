---------------------------- MODULE Configuration ---------------------------
(***************************************************************************)
(* The configuration reader, src/krytenApp/read_configuration.c: lines of  *)
(* PV specifications separated by semicolons, each read into a CA_Client.  *)
(* A specification with an error is reported and skipped, and the reader   *)
(* goes on behind it.                                                      *)
(*                                                                         *)
(* A step reads a line, begins a specification (as far as its match list), *)
(* reads one match item, or ends a specification (its command, the checks  *)
(* of sizes and the allocation of the client).                             *)
(***************************************************************************)
EXTENDS Parsing

VARIABLES reader,       \* where the reader is
          text,         \* what fgets has yet to read
          source,       \* the line behind the specification that is read
          sub_line,     \* what is left of that specification
          entry,        \* what has been read of it
          clients       \* CA_Client_List

readerVars == <<reader, text, source, sub_line, entry, clients>>

ReaderTypeOK ==
  /\ reader \in {"idle", "line", "spec", "match", "command", "done", "crashed"}
  /\ {text, source, sub_line} \subseteq Texts
  /\ entry \in Entries
  /\ clients \in Seq([pv_name : Texts, element_index : Ints,
                      match_set : Seq(ReadRanges), match_command : Texts])

ReaderInit == /\ reader = "idle"
              /\ text = <<>>
              /\ source = <<>>
              /\ sub_line = <<>>
              /\ entry = Entry(<<>>, 1, <<>>)
              /\ clients = <<>>

-----------------------------------------------------------------------------
(* The next line; blank lines and comments are skipped.                    *)
ReadLine ==
  /\ reader = "line"
  /\ text # <<>>
  /\ text' = Rest(text, LineLength(text))
  /\ source' = Line(text)
  /\ reader' = IF source' = <<>> \/ IsComment(source') THEN "line" ELSE "spec"
  /\ UNCHANGED <<sub_line, entry, clients>>

EndOfText ==
  /\ reader = "line"
  /\ text = <<>>
  /\ reader' = "done"
  /\ UNCHANGED <<text, source, sub_line, entry, clients>>

EndOfLine ==
  /\ reader = "spec"
  /\ source = <<>>
  /\ reader' = "line"
  /\ UNCHANGED <<text, source, sub_line, entry, clients>>

SkipLine == /\ reader' = "line"
            /\ UNCHANGED <<sub_line, entry, clients>>

(* Past a specification with an error, to the next one of the line.        *)
Skip == /\ reader' = "spec"
        /\ UNCHANGED <<sub_line, entry, clients>>

(* next_source: behind the semicolon that ends the specification.          *)
next_sourceAtSemicolon(line, k) == Rest(line, k)

next_sourceIfSemicolon(line, k) == IF k < Len(line) THEN Rest(line, k + 1) ELSE line

next_source(line, k) == Rest(line, k + 1)

(* A specification up to the next semicolon, also one within quotes.       *)
BeginSpec ==
  /\ reader = "spec"
  /\ source # <<>>
  /\ \E k \in {UpTo(source, {";"})} :
     \E head \in {Heading[Prefix(source, k)]} :
       /\ source' = next_source(source, k)
       /\ \/ /\ head.outcome = "read"
             /\ entry' = head.value
             /\ sub_line' = head.rest
             /\ reader' = "match"
             /\ UNCHANGED clients
          \/ /\ head.outcome = "error"
             /\ Skip
  /\ UNCHANGED text

(* As MatchItem, had the count not been looked at.                         *)
MatchItemUncounted ==
  /\ reader = "match"
  /\ \E item \in {parse_match[sub_line]} :
         /\ item.outcome = "read"
         /\ entry' = [entry EXCEPT !.match_set = Append(@, item.value)]
         /\ sub_line' = Rest(SkipWhite[item.rest], 1)
         /\ reader' = IF Begins(SkipWhite[item.rest], {"|"}) THEN "match" ELSE "command"
  /\ UNCHANGED <<text, source, clients>>

(* An iteration of the loop over match items.                              *)
MatchItem ==
  /\ reader = "match"
  /\ \E item \in {parse_match[sub_line]} :
     LET next == SkipWhite[item.rest]
         found == Append(entry.match_set, item.value)
     IN  \/ /\ item.outcome = "read"
            /\ Begins(next, {"|"})
            /\ Len(found) < NUMBER_OF_VARIENT_RANGES
            /\ entry' = [entry EXCEPT !.match_set = found]
            /\ sub_line' = Rest(next, 1)
            /\ UNCHANGED <<reader, clients>>
         \/ /\ item.outcome = "read"
            /\ next # <<>>
            /\ ~Begins(next, {"|"})
            /\ entry' = [entry EXCEPT !.match_set = found]
            /\ sub_line' = next
            /\ reader' = "command"
            /\ UNCHANGED clients
         \/ /\ \/ item.outcome = "error"
               \/ item.outcome = "read" /\ next = <<>>
               \/ /\ item.outcome = "read"
                  /\ Begins(next, {"|"})
                  /\ Len(found) >= NUMBER_OF_VARIENT_RANGES
            /\ Skip
         \/ /\ item.outcome = "overrun"
            /\ reader' = "crashed"
            /\ UNCHANGED <<sub_line, entry, clients>>
  /\ UNCHANGED <<text, source>>

(* The rest is the command.                                                *)
EndSpec ==
  /\ reader = "command"
  /\ reader' = "spec"
  /\ \E c \in {Client(entry, Command[sub_line])} :
       clients' = IF Fits(c) THEN Append(clients, c) ELSE clients
  /\ UNCHANGED <<text, source, sub_line, entry>>

ReaderStep == \/ ReadLine \/ EndOfText \/ EndOfLine
              \/ BeginSpec \/ MatchItem \/ EndSpec

-----------------------------------------------------------------------------
(* Whatever the text is, a client that was made of it is one the rest of   *)
(* the program can use: it is named and fits its fields, its element index *)
(* is positive, it has a value to match and no more than its array can     *)
(* hold, and only a range has an upper end.                                *)
WellKinded(r) == /\ r.lower.kind # "vkVoid"
                 /\ r.comp = "ckRange" <=> r.upper.kind # "vkVoid"

WellFormed(c) ==
  /\ Begins(c.pv_name, Alnum \cup {"$"})
  /\ Len(c.pv_name) < MAXIMUM_PVNAME_SIZE
  /\ Len(c.match_command) <= MATCH_COMMAND_LENGTH
  /\ c.element_index >= 1
  /\ Len(c.match_set) \in 1..NUMBER_OF_VARIENT_RANGES
  /\ \A j \in DOMAIN c.match_set : WellKinded(c.match_set[j])

ClientsWellFormed == \A c \in DOMAIN clients : WellFormed(clients[c])
=============================================================================
