--------------------------- MODULE Specifications ---------------------------
(***************************************************************************)
(* What a configuration says, one specification after the other: which     *)
(* ones a text holds, and the client that each of them gives on its own.   *)
(***************************************************************************)
EXTENDS Parsing

(* The specifications the reader finds in a line, which stand between      *)
(* semicolons, and in a text, whose lines have them unless they are        *)
(* comments.                                                               *)
InLine[line \in Texts] ==
  IF line = <<>> THEN <<>>
  ELSE LET k == UpTo(line, {";"})
       IN  <<Prefix(line, k)>> \o InLine[Rest(line, k + 1)]

InText[t \in Texts] ==
  IF t = <<>> THEN <<>>
  ELSE (IF IsComment(Line(t)) THEN <<>> ELSE InLine[Line(t)])
         \o InText[Rest(t, LineLength(t))]

-----------------------------------------------------------------------------
(* The specifications a text holds as the documents have it: a line goes   *)
(* on to its newline, however far that is, and is ignored when it starts   *)
(* with # (kryten.html:105, 113); a semicolon separates specifications     *)
(* (:116) unless it is some of the text between quotation marks (:134).    *)
Paired(s) == Cardinality({k \in DOMAIN s : s[k] = QuotationMark}) % 2 = 0

Separators(line) == {k \in DOMAIN line : line[k] = ";" /\ Paired(Prefix(line, k - 1))}

UpToSeparator(line) == IF Separators(line) = {} THEN Len(line)
                                               ELSE Smallest(Separators(line)) - 1

DocumentedLine[line \in Texts] ==
  IF line = <<>> THEN <<>>
  ELSE LET k == UpToSeparator(line)
       IN  <<Prefix(line, k)>> \o DocumentedLine[Rest(line, k + 1)]

WholeLine(t) == SkipWhite[Prefix(t, UpTo(t, {"\n"}))]

DocumentedText[t \in Texts] ==
  IF t = <<>> THEN <<>>
  ELSE (IF IsComment(WholeLine(t)) THEN <<>> ELSE DocumentedLine[WholeLine(t)])
         \o DocumentedText[Rest(t, UpTo(t, {"\n"}) + 1)]

(* A text of which the reader may be expected to find them: each line fits *)
(* its buffer, and what stands between two semicolons has its quotation    *)
(* marks in pairs, that is, no semicolon is quoted.                        *)
OrdinaryLine(t) ==
  /\ UpTo(t, {"\n"}) + 1 < MAX_LINE_LENGTH
  /\ \/ IsComment(WholeLine(t))
     \/ \A k \in DOMAIN InLine[WholeLine(t)] : Paired(InLine[WholeLine(t)][k])

Ordinary(t) == \A k \in 0..Len(t) : k = 0 \/ t[k] = "\n" => OrdinaryLine(Rest(t, k))

-----------------------------------------------------------------------------
(* A match list, of which x[1] has been read and x[2] is the outcome of    *)
(* parsing the next item; the command is behind the last one.              *)
MatchList[x \in Seq(ReadRanges) \X Outcomes(ReadRanges)] ==
  LET item  == x[2]
      next  == SkipWhite[item.rest]
      found == Append(x[1], item.value)
  IN  IF item.outcome # "read" THEN item
      ELSE IF next = <<>> THEN Error
      ELSE IF ~Begins(next, {"|"}) THEN Read(found, next)
      ELSE IF Len(found) >= NUMBER_OF_VARIENT_RANGES THEN Error
      ELSE MatchList[<<found, parse_match[Rest(next, 1)]>>]

(* The clients a specification gives, one or none: x[1] is its heading,    *)
(* x[2] its match list and the command.                                    *)
Completed[x \in Entries \X Outcomes(Seq(ReadRanges))] ==
  LET e == x[1]
      c == Client(Entry(e.pv_name, e.element_index, x[2].value), Command[x[2].rest])
  IN  IF x[2].outcome = "read" /\ Fits(c) THEN <<c>> ELSE <<>>

ListOf(head) == MatchList[<< <<>>, parse_match[head.rest] >>]

ClientsOf[spec \in Texts] ==
  LET head == Heading[spec]
  IN  IF head.outcome = "read" THEN Completed[<<head.value, ListOf(head)>>] ELSE <<>>

(* Those that the program does not survive.                                *)
Fatal == {spec \in Texts : /\ Heading[spec].outcome = "read"
                           /\ ListOf(Heading[spec]).outcome = "overrun"}
=============================================================================
