# A verification project for kryten

kryten is a Channel Access client that monitors EPICS process variables (PVs)
and runs a command whenever a PV enters or leaves its "match" status, and when
it disconnects. This directory holds TLA+ models of the program, the TLC
configurations that check them and TLAPS proofs about them. Paths such as
`filter.c:90` are relative to `src/krytenApp/`, documents to
`src/documentation/`.

## 1. The system: components, state, interactions

| component | state it keeps | operations |
|---|---|---|
| buffered callbacks (`buffered_callbacks.c`) | a linked list of heap elements, its mutex, a count of failed mallocs | three `buffered_*_handler` functions called by the library's threads, `process_buffered_callbacks` called by the application, `clear_all_buffered_callbacks` |
| PV clients (`pv_client.c`) | per client: `channel_id`, `event_id`, `is_connected`, `last_update_matched`, the match list and the command | create, subscribe, unsubscribe and clear a channel; the connection and the event handler; the client list; the main loop `Process_Clients` |
| filter (`filter.c`) | none of its own (writes `last_update_matched`, `quit_invoked`, `exit_code`) | `Process_PV_Update`, `Process_PV_Disconnect`, `call_command` (built in `quit`, or `system()`) |
| variants (`utilities.c`) | none | comparison of void, string, floating and integer values; image and parse helpers; `substitute`; option helpers |
| program (`kryten.c`) | `sig_int_received`, `sig_term_received`, `quit_invoked`, `exit_code` | `main`, `Signal_Catcher`, `Shut_Down_Is_Required` |
| configuration (`read_configuration.c`) | none after start | parse a file or a string into the list of clients |
| texts (`information.c`, `gnu_public_licence.c`) | none | help, version, licence |
| Channel Access (external) | circuits, subscriptions, outstanding gets | calls made by `pv_client.c`; callbacks on threads of its own |

How they interact: the library calls back on threads of its own (preemptive
callbacks, `pv_client.c:887`); every callback is copied to the list and handled
later by the application thread, in bursts of at most 400, every 50 ms. A
connection makes the application ask for the value and subscribe; an update is
given to the filter, which compares it with the match list and calls the command
with `system()` when the status changes, in the same thread. Signals set flags
that the loop tests once per burst.

What is hard here:

- *interleaving*: library threads, the application thread and signals;
- *ordering and staleness*: a callback is handled some time after it happened,
  when the circuit may be down again, or up to another server;
- *loss*: a callback is dropped when its element cannot be allocated;
- *blocking*: the command holds the only application thread;
- *termination*: a request to stop is seen once per burst, and several writers
  share `exit_code`;
- *data*: comparisons between values of different kinds, NaN included.

What makes each component correct: the queue neither loses, repeats, reorders
nor leaks and is not stuck; a client has one subscription exactly when it
believes it has, and one when it should; the status acted on is that of the
present value once things are quiet; commands are run when the status changes
and at no other time; kryten stops soon after it is asked to, cleanly, with an
exit code that someone asked for; match items mean what their notation says; a
text gives the clients the documented grammar gives it, an error in one
specification spoils no other, and a command is expanded as written within its
buffers. The
list of hazards, at the line where each one bites, is in `PROJECT.json`.

## 2. Modules

```
CallbackFifo <-- refines -- BufferedCallbacks         (queue, threads, memory)
                                 ...first in, first out: the queue of...
ClientList <- Matching, Variants <- MatchingLaws      (comparisons)
                  ^
               Filter        ChannelAccess (external: library and servers)
                  ^           ^
                  +- PVClient +
                        ^
CommandPolicy <-- refines -- Kryten                   (loop, signals, exit)

Texts, Sizes <- Substitute                            (text of a command)
      ^             ^
   Parsing      CommandLine                           (options)
    ^ ^ ^           ^
    | | +- Configuration <- Startup -- refines --> ReadingPolicy
    | +--- Specifications <----+                      (configuration)
    +----- Grammar <-- MCStartup                      (documented language)
```

Kryten begins where Startup's `ProcessClients` ends: what Startup makes of a text
is what Kryten's constants (`Clients`, `element_index`, the match lists, `Quits`)
stand for, and Startup's `call_command` is what happens inside Kryten's step into
`system()` or `quit`. Theorem modules (`*_proofs`) extend the module they are
about; section 6 has them.

**CallbackFifo** states what `buffered_callbacks.h` promises: store, deliver in
order, discard once Channel Access is no longer required.

**BufferedCallbacks** is `buffered_callbacks.c` with its threads. `pc[t]` is
where a thread is: `idle`, `count` (between the read and the write of
`allocate_fail_count++`), `lock` (waiting for the mutex), `add`/`get` (inside
it), and for the application `reset`, `handle`, `free`. `ellAdd` and `ellGet` are
two steps each, a read of the list into `copy` and a write back, so that only
the mutex makes them atomic. `heap` is the set of malloc blocks: one node per
element and one payload block for an event with data or a text. `Handler` is a
`buffered_*_handler` up to `load_element`; `AllocateFails` and `PayloadFails` are
its two mallocs failing (the second one is a write through NULL: `crashed`).
`Process` is the test of the failure count, `ResetCount` its reset, `UnloadBegin`
/`UnloadEmpty`/`UnloadFirst` are `unload_element`, `Handle` the switch, `Free` is
`free_element` and the test of `max`; `ClearAll` calls
`clear_all_buffered_callbacks`, which unloads and frees with `closing` set.

**ClientList** has the configuration's result as constants. **Variants** has the
comparisons of `utilities.c:333-560` with their conversions (doubles as whole
numbers of halves or NaN, `atol`/`atof`/`strncmp` as constant functions).
**Matching** has `is_value_a_match` and the loop over a match list.
**MatchingLaws** has a value and the two values of a range as state and the laws
they should satisfy as invariants.

**Filter** is `filter.c`: `Process_PV_Update` is as far as the call of `system()`;
while `command` is not `NoCommand` the application thread is in it;
`FinishCommand` is the rest, the assignment of `last_update_matched`.

**ChannelAccess** (external, written from the calls `pv_client.c` makes and the
callbacks it expects) has circuits, PV values and element counts, subscriptions,
gets, updates due (a counter per channel: updates not yet delivered are merged
to the newest value) and the queue of callbacks; `Buffer` puts callbacks into the
queue or drops one.

**PVClient** has the functions on a `CA_Client`. `EnoughElements` is the argument
checks of `Subscribe_Channel`; `GetAccepted`/`GetRefused` and
`SubscribeAccepted`/`SubscribeRefused` its two library calls. **Kryten** composes:
`pc` walks through `Process_Clients`; `HandleUp`, `Get` and `Subscribe` are three
steps because the circuit can change between them; `HandleDown` and
`HandleEvent` are the other handlers; `Continue`, `EndDrain`, `Timeouts`,
`ShutDown` are the loop; `Clear_All_Channels` and `Exit` the end; `SigInt` and
`SigTerm` happen at any time. `online`, `first_exit` and `late` are history.

**CommandPolicy** states what the user is told (`kryten.html:269-271`): for each PV
match and reject alternate, beginning with match, only while it is online;
disconnect comes once per connection; one command at a time.

**Texts** has C strings as sequences of symbols. A symbol is a character or a
word that the program only takes as a whole (`quit`, `match`), so that buffers of
a few symbols can overflow in a small model. `Span`, `UpTo`, `Occurrences`, `Cut`,
`Trim`, `Atoi` (with its blanks and its sign) are the library functions and loops
over characters. **Sizes** has the `#define`s of the buffers and arrays.

**CommandLine** is `main` of `kryten.c` up to the configuration: the options that
print a text and end the program, the loop of `check_flag` and `check_argument`
over the others (one step per argument), and the returns for a configuration that
is missing or cannot be opened. `MissingParameter` is `strlen` of the `NULL` that
`--monitor` as the last argument leaves: `main` is then `crashed`.

**Parsing** has the parts of a specification, as functions from a text to what is
read at its beginning and the rest: `parse_value`, `parse_match`, `parse_index`,
`Heading` (PV name and index), `Command` (blanks squeezed, default parameters). A
closing quote alone gives a length of -1 to `strncpy`: the outcome is `overrun`. The
index is a `long` stored in an `int` (`AsInt`, modulo `IntSpan`).

**Configuration** is the loop of `Scan_Configuration` and `parse_line`, a step at a
time. `ReadLine` is an `fgets` of at most `MAX_LINE_LENGTH - 1` symbols with the
skipping of blanks and comments; `BeginSpec` cuts the line at the next semicolon
and reads the heading; `MatchItem` is an iteration over the match items; `EndSpec`
is the command, the checks of sizes and the allocation of the client. An error
skips to the next specification; an overrun crashes.

**ReadingPolicy** is the abstract reader: a list of specifications, which it is
given, is taken one by one, and each gives the clients it gives alone. It does not
say how a text is divided into that list. **Specifications** does, twice:
`DocumentedText` as the documents have it (a line ends at its newline, a `#` at its
beginning makes all of it a comment, a semicolon within quotation marks is text),
and `InText` as the reader's `fgets` and semicolons find it. It also says what one
specification gives alone (`ClientsOf`). A text is `Ordinary` when its lines fit the
buffer and no semicolon is quoted. Startup's instance `Reading` maps the reader to
the policy: the list given (`Given`) is the documents' for an ordinary text and the
one the reader finds for any other; what is still to be read is the rest of the line
and of the text; and a specification partly read counts as taken, with the client
its rest will give (`ClientsAhead`).

**Grammar** is the reference: the ways `kryten.html` and `information.c` allow a
specification to be written (`Written`), the client it means (`Meant`), and what
can be said at all (`Sayable`: a string without quotation marks that fits, a name
that begins with a letter, digit or `$`). It generates texts and is not used by the
model of the reader.

**Substitute** is the text of a command (`filter.c:41-70`, `utilities.c:118-170`):
four passes over two buffers of `COMMAND_BUFFER_SIZE`, a step for each occurrence
replaced and one for the end of a pass. **Startup** composes: options, reader,
`--check` or `Process_Clients`, then a call of `call_command` for any client, state
and value, its substitution, and `QuitOrRun`, the test for the built in `quit`.
`input` is history: the command line, the text, and the clients it should give.

## 3. What is abstracted

- A PV has one value; which element of the array it is, meta data, alarms and
  time stamps are left out. The comparison of the element count with the index
  is kept. The type of the first match value (the "match type is invalid" return)
  is always a valid one, as the parser makes it.
- In Kryten the queue is a sequence: that the list of BufferedCallbacks behaves as
  one is what `ImplementsFifo` says. Texts of the library (`PRINTF`) are in
  BufferedCallbacks only; in Kryten they would be printed and nothing else.
- `ca_flush_io` only hastens requests the library may send at any time.
- Values of a PV that change faster than they are delivered are merged, as the
  library may do. `due` is zero while the circuit is down and the number of
  subscriptions when it is up again.
- `ca_clear_channel` drops the channel with its subscriptions, and the library
  makes no callback for it afterwards.
- SIGINT is not caught while `system()` runs (it ignores it); SIGTERM is.
- The arithmetic of values is exact: integers of the machine's width and
  rounding of doubles are not modelled. Two strings are equal when they are the
  same string.
- `Validate_Channel_Id` is a guard of the handlers: what follows when it fails (the
  callback is reported and dropped) cannot happen, as `CallbacksAreValid` shows.
- A quit command's code is a constant of the client in Kryten; Startup has it as
  `atoi` of the command's text: blanks, a sign or none, and digits. The number is
  exact, because `atoi` promises nothing for one that is no `int`.
- `strtol` and `strtod` are sets of texts with their values (`Long`, `Double`), so
  which texts are numbers is given and not computed; likewise the decimal image
  of an index (`Decimal`). The image of a value (`Variant_Image`) is any text of
  `ValueImages`. A tab is read as a blank is. Messages and warnings are left out,
  also those about match items of different kinds.
- `daemon()` changes nothing else of the program. A signal between the options
  and the return of `--check` or of an empty configuration, which would show in
  the exit code, is not in Startup; Kryten has signals from Process_Clients on.

## 4. Runs

Bounds are constants of the modules or of the configuration and each is named
there: `MaxCallbacks`, `MaxFailures`, `MaxQueue`, `MaxFaults`, `ShortQueue`,
`Signals`, `TimeoutCycles`.

| run | bounds | what it shows |
|---|---|---|
| `buffered` | 2 library threads, 2 elements of one and 1 of the other, 2 failing mallocs, max = 1 | 175 000 states: types, mutual exclusion with a stable list (`ListIsStable`), every element in one place and in order (`ExactlyOnceInOrder`), heap exactly the elements in use (`HeapIsExact`), refinement of CallbackFifo; `EventuallyDelivered`; `FailuresReported`: a failed malloc is followed by a report, unless it is counted between the test and the reset of the unlocked counter |
| `laws` | 16 values of all kinds, 4096 triples | `Trichotomy`, `OppositesPartition`, `RangeIsBothEnds`, `InvertedRangeIsEmpty` |
| `kryten_one` | 1 client on element 2 of 1 or 2 elements, 4 callbacks queued, both signals, bursts of 2 | the life of a channel: `OneSubscription`, `SubscribedAtRest`, `NeverStale`, `ShutdownBounded`, `CleanExit`, `TimedOutAreOffline`, refinement of CommandPolicy |
| `kryten_two` | a client with a command and one with quit, 2 callbacks each, 3 in all | two clients sharing the queue: `NeverStale`, `ExitCodeExplained`, refinement of CommandPolicy; `QuitOnlyOnMatch` |
| `kryten_faults` | 1 client, 2 callbacks lost or calls failing | `EventIdIsLive`, `LeakIsBounded`, `CleanExit`, `CallbacksAreValid` |
| `kryten_live` | 1 client, 3 callbacks queued, SIGTERM | `EventuallyTracks`, `ShutdownTerminates` |
| `startup` | below | 136 000 states: `OptionsAsWritten`, `ReadAsWritten`, `ClientsWellFormed`, `ExitExplained`, `CommandFitsBuffer`, `ExpandedAsWritten`, `QuitAsWritten`, `Terminates`, `StepsCountDown`, refinement of ReadingPolicy |
| `kryten_sigquit` | violated | SIGTERM's exit code is replaced by that of a quit |
| `kryten_timeouts` | violated | a channel that went down is not reported as not connected |
| `kryten_blocked` | violated | a command is not run in the background |
| `startup_quit` | violated, the texts of `startup` | the exit code of a quit without one is not 0 for a PV whose name begins with a digit (`BareQuitIsZero`) |
| `startup_lines` | violated, one text with a long comment and a quoted semicolon | the comment's end is made a client, and what is quoted is cut in two (`ReadAsWritten`) |

Why the bounds are enough: two threads, one of them with a second element, and the
application give every order in which two uses of the list can overlap; a burst of
one leaves elements for the next; and of two failures the second one can fall
between the test and the reset that follow the first. For one channel, four queued callbacks hold a connection, the
answer of its get, an update and a disconnection, or two connections with the
disconnection between them, so that a CONN_UP is handled when the circuit is down
and when it is up again; bursts of two end with callbacks left. Two values
suffice for one to match and one not. Clients share nothing but the queue, the
thread and the exit code, so two of them show what one can do to another.

`startup` has as inputs: every command line of at most three of seven arguments
(a file, an empty argument, `--monitor`, an unknown option, a flag, `--check`,
`--help`), which is one more than an option with its parameter, so that each
interaction of two options occurs; one specification in every way the grammar
allows it to be written, with every match item alone and in pairs, with and
without gaps, five names, two indices and seven commands; two specifications in
one line or in two, one of them with each of 23 errors in first or in second
place; and eight texts that the documents contradict or do not explain (long lines,
semicolons and single quotation marks within quotes, an index that is no `int`). Of
these eight no clients are said to be right, but they must be read to an end within
the buffers. TLC evaluates assumptions about the inputs, which are what the theorems
about the grammar suppose: everything they say is `Sayable` (`SaidAssumption`), and
each is ordinary and says what those of its specifications say that are written by
the grammar, in their order (`WrittenAssumption`). The specifications are read one after the other with no state between them but
`source` and `clients`, so two show what one can do to the next. Every size is
small enough to be exceeded by some input: names of 4, strings of 5, 3 match
items, commands of 16, lines of 48 and `int`s of 16 values; a command has up to
six placeholders of one kind, and a value that holds placeholders itself.

Deadlock is not checked where the program ends: `main` has returned, or the queue
has been cleared.

The five violated properties state sentences of the documents, quoted in
`PROJECT.json`:

- The same cause as `kryten_sigquit` makes the second of two quits in one burst
  replace the first one's exit code (`ExitCodeExplained` allows any quit that was
  run).
- `startup_quit`: `quit` without a code gets the default parameters as every command
  of one word does (`read_configuration.c:459`), so that `atoi` reads the PV's name.
  `kryten.html:196` says that 0 is the code otherwise. `QuitAsWritten` has the part
  that holds: the code is 0 when the name does not begin with a digit.
- `startup_lines`: a line that does not fit the buffer of 255 characters is read as
  two, so that the end of a long comment becomes a specification (against
  `kryten.html:105`), and a semicolon within quotation marks ends one (against
  `kryten.html:134`, and a TODO at `read_configuration.c:515`). The run's text has
  both. Its last state has a client made of the comment's end and none of the
  specification with the quoted semicolon; TLC confirms that the latter is written
  as the grammar says (`QuotedAssumption`) and that neither is ordinary
  (`MisreadAssumption`).

`clear_all_buffered_callbacks` is never called by the program, so callbacks left at
the end are freed with the process.

Some more behaviour is worth knowing: 20 match items are accepted where the
documents speak of 16; a line that is no comment and does not fit the buffer is cut
there too; the state given for a match is `match` with a blank behind it
(`filter.c:173`); `--help` and the like count only in first place; an index image is
cut to nine digits; and a PV that never had the element asked for runs its
disconnect command when it goes (`pv_client.c:580`), though
`release-notes.html:122` says that such a PV is ignored. CommandPolicy allows this.

After a reconnection a PV whose status is the same as before causes no command,
although the last one run was `disconnect`. The documents promise a call when the
status changes, so CommandPolicy allows it; a user who pairs commands should know.

## 5. Fairness

`BufferedCallbacks!FairSpec`: a library thread in a handler goes on; the
application keeps calling `process_buffered_callbacks` (`pv_client.c:912-940`). The
lock taken in `load_element` is strongly fair: the application releases the mutex
after each element and sleeps 50 ms after each burst, so a waiting thread gets it.
Nothing makes the library call a handler, a malloc fail or the queue be cleared.

`Kryten!FairSpec`: the application thread is scheduled; the library answers gets
and reports updates while a circuit is up (it runs on its own threads and the
servers answer). Nothing is assumed of signals, circuits, values or of commands;
`FairSpecCommandsEnd` adds that a command that is run ends, without which
neither liveness property holds (`kryten_blocked`). Callbacks are not lost in the
liveness run: a lost CONN_UP leaves the PV without a subscription until it
reconnects.

`Startup!FairSpec`: there is one thread and nothing it waits for, so weak fairness
of `Next` only says that the program is scheduled; `Terminates` then means that no
loop over arguments, lines, specifications, match items or placeholders runs for
ever.

## 6. Proofs

All proofs are for every value of the constants, under the named assumptions of
the modules (`grep ASSUME`): processes, mutex values and items are distinct;
bounds are natural numbers; `NoCommand` is no command (`CommandAssumption`); sizes
are positive and the symbols the program itself writes are symbols. Four theorems
about Kryten also assume `MaxFaults = 0` and say so: with a lost callback they are
false (`kryten_faults` and `LeaksAreBounded` are about that case).

- `BufferedCallbacks_proofs`. Mutual exclusion says nothing of where the others
  are, so the inductive invariant `IInv` adds to the types that a thread in the
  critical section owns the mutex, that its `copy` is the list, and which places
  hold an element. `Invariance` proves it, `TypeCorrect` and `ListStable` follow.
  `Refinement` maps the handler's element followed by the list to the abstract
  queue: `LoadEnd` stores, `Handle` delivers, an `UnloadFirst` while closing
  discards, the others stutter. `ElementsInOrder` and `HeapStaysExact` need
  `JourneyInv`, which says of the elements delivered, in hand and in the list
  (`Way`) that those of a thread are exactly the first `Sent(t)` it made, in order;
  of the elements not yet freed (`InUse`) that they are in order too, so that the
  blocks of the one being freed are those of no other; and of each element that
  `free_element` looks for a payload where the handler allocated one.
- `MatchingLaws_proofs`: the laws for all values. The split is on the kinds of
  the two values, which decides the conversion; after it the laws are those of
  integers or of the rank of strings.
- `KrytenInvariants_proofs`: `IInv` joins the types to `BurstInv`, `EventIdIsLive`,
  `ChannelInv` (a client without a channel has nothing in the library, and until
  the channels are cleared every queued callback is of a client with one) and
  `CommandInv` (a command runs exactly while the thread waits for it).
  `ShutdownIsBounded` is from `BurstInv`: callbacks taken after the request are
  among the `n` of the present burst, because no burst begins after it.
  `EventIdAlwaysLive`: however callbacks are lost, `event_id` is set only by a
  subscription that succeeded and cleared with it. From `IInv`: `TypesAreKept`,
  `CallbacksAreOfChannels`, and with a small invariant of their own each
  `ExitIsExplained`, `ExitIsClean`, `ReportedAreOffline`, `QuitNeedsMatch`.
- `KrytenPolicy_proofs` (no faults): a client's queued callbacks, read in order,
  lead step by step from the connection kryten knows of to the one the circuit
  has. `Leads(R, q, a, b)` says so for any step relation `R`, by the existence of
  the states in between; it composes when callbacks are appended and loses its
  first step when one is taken. `SubscribedOnce` and `PolicyIsImplemented`, the
  refinement of CommandPolicy, follow: when a connection is handled, the client
  was not connected before.
  With faults the same paths have a counter of connections that are handled of a
  client already told it is connected. Each loss adds at most one to the count at
  the end of the queue, and what is leaked is at most the count so far:
  `LeaksAreBounded`.
- `KrytenFreshness_proofs` (no faults): the last callback about a circuit that is
  still queued, or what has been handled if none is, tells what the circuit is;
  the last update queued, or the status acted on if none is, or one the library
  has still to report, has the PV's value. With an empty queue these are
  `RestIsSubscribed` and `RestIsCurrent`.
- `Startup_proofs`: `IInv` is the types of the reader and of the substitution and,
  of a specification partly read, that its index is positive, its match items are
  well formed and they leave room in the array while another is to come. Lemmas
  bound what each function on texts returns, with its length.
  `ClientsAreWellFormed` and `CommandAlwaysFits` follow for any text and any sizes.
  The second half is about main: `ControlInv` says of the loop over the arguments that
  what has been read is the line up to some place `p` of `Reached`, and the flags
  and parameter those of the options before `p` (`ReadUpTo`); and where the reader,
  a call and the codes are for each place of `main`. `Reached` is a recursive
  function of the line; `ReachedPlaces` gives what it consists of and
  `NextOption` that nothing lies between an option and the next one.
  `OptionsAreAsWritten`, `EndsAreExplained` (with `MatchReads`: what a part of the
  reader leaves is the end of what it was given, so that a crash is in a
  specification's last quote) and `TypesAreKept`, the whole of `TypeOK`.
  `LoopsEnd` proves the part of `Terminates` that is about the code: `Left` lists
  what is left to do of main, its options, the text, a line, a specification and a
  command, and each step makes it less (`StepsCountDown`), an error included. That
  the program is scheduled until nothing is left is the fairness TLC adds.
- `StartupReader_proofs`, the two halves of what the documents promise of a
  configuration. First, `ReadingIsImplemented`: the reader implements
  ReadingPolicy, of an ordinary text with the list the documents say it is, of any
  other with the list it finds. The recursive functions of Specifications are first
  shown to be what their equations say (`Recursion`, by induction on the length of a
  text, or of the rest a match list leaves: `InLineIs`, `InTextIs`, `MatchListIs`,
  `DocumentedLineIs`). `OrdinaryTextsAreDivided` says that the two ways to divide a
  text agree on ordinary ones: a semicolon with pairs of quotation marks before it
  is the next separator (`SameSeparator`), so a line is divided alike (`SameLine`),
  and what follows a line of an ordinary text is ordinary. Then `ReadLine`, `EndOfLine`, `MatchItem` and `EndSpec` change nothing abstract,
  because what they do is what `SpecificationsAhead` and `ClientsAhead` say was still
  to be done; `BeginSpec` takes a specification, also when it ends in an error or in a
  crash. Secondly, `GrammarIsRead`: every way the grammar has to write a `Sayable`
  specification, with any blanks, is read as the one client it means. Its lemmas follow
  the parser: how far a value, an item (`ItemIs`), an index (`IndexIs`), a heading and
  a command go when something else stands behind; that a quoted string, a range and a
  qualifier are told apart (`<=` is not `<` and a string that begins with `=`); a list
  of items between bars (`ItemsWritten`, by induction on their number); and that the
  command loses all its gaps but one blank between two words (`WordsSqueezed`).
  `ConfigurationIsReadAsWritten` joins them: `WrittenInv` says that so many
  specifications have been read and what they make is what the configuration says of
  them. Its hypothesis is about the constants: an input is ordinary, and what it says
  (`written`) is what its specifications (`DocumentedText`) say one by one, where each
  is written by the grammar or gives no client alone (`AsDocumented`). That is a condition on one specification at a
  time; that no other one, no line, comment, semicolon or error makes a difference
  is what the theorem says.
- `StartupCommand_proofs`: `Exp(J, im, s)` is the text `s` with the placeholders of
  the set `J` replaced where they stand, as the end of a function from the places
  of `s` that `IsTail` describes. `ExpandedIs`: with all four it is the reference
  `Expanded`. `ExpConcat`, `TailOfRest` and `ExpPlain` cut and join such texts;
  `DownTo` carries an equality from the end of a text to its beginning. The
  invariant of a call, `MadeInv`, is that what the passes still to come would make
  of the rest (`Exp(Later(pass), ...)`) behind what is already written is what all
  four make of the command (`Expanding`), that its length is within the buffer
  (`ExpBound`: with each placeholder once at most, the images' lengths are enough),
  and that the command up to its first placeholder is still there and followed by
  no blank (`Kept`). `CommandIsExpanded` is its first part at the end.
  `QuitIsAsWritten` is its last part with `AtoiThen`: what `atoi` reads does not
  change when something is added behind a symbol that is no digit and no sign that
  the number begins with; and of a `quit` without a code it reads the name of the PV,
  which is 0 when that begins with no digit.

What the theorems about Startup assume of the constants is what the code gives: an
option is an argument with a dash (`DashAssumption`), a decimal image has digits and
nothing else, digits are neither blank nor `%`, letters and digits of a name are
neither nor a sign (`AlnumAssumption`), no text is read by `strtol` and by `strtod` (which is
tried second: `NumberAssumption`), a text that is a number is not empty and has in it
neither a blank nor what a specification is punctuated with (`NumeralAssumption`), and
the buffers of images have room for at least one symbol and the zero. The conditions in `ExpandedAsWritten` and `QuitAsWritten` are
part of what is checked and proved: a PV whose name holds a `%` has its own name
expanded again (`filter.c:66`, the name is substituted first); a command that begins
with a placeholder can become a quit, as that of a PV named `quit` with the command
`%p`; and the code is the one written only if the number, its sign put aside, ends
before the first placeholder (`NumberWritten`): what stands for `%e` in `quit -%e`
is read as part of it.

Model-checked only:

- liveness (`EventuallyDelivered`, `FailuresReported`, `EventuallyTracks`,
  `ShutdownTerminates`, `Terminates`), which is out of the prover's reach
  (`LoopsEnd` is the descent that `Terminates` rests on);
- that the inputs of the `startup` run satisfy what `ConfigurationIsReadAsWritten`
  supposes (`SaidAssumption`, `WrittenAssumption`): it is computed by TLC;
- the five violated properties, and what clients should be made of a text that is
  not ordinary, or of a specification that the grammar does not write: of these
  `ReadingIsImplemented` says only that each one found gives what it gives alone.

## 7. Not modelled

Nothing that keeps state or decides anything is left but these, and why:

- the information and licence texts (`information.c`, `gnu_public_licence.c`) and
  all messages: output without state;
- `Variant_Image` and the extraction of values, units, precision and alarms from
  the library's buffers (in `Get_Event_Handler`, `pv_client.c:216-447`): formatting and copying of data
  that no decision but the comparison depends on; the check of the element count,
  which does, is modelled;
- `strtol`, `strtod`, `atol`, `atof` digit by digit, and the rounding of doubles;
- the failure of `callocMustSucceed` for a client, which does not return, and of
  `epicsMutexCreate` at the start;
- the build system and the documents.

Possible next steps: one model in which Startup's clients are Kryten's (its state
space is the product of two that are each as large as can be run); values as arrays
of elements; and the converse of `GrammarIsRead`, which of the texts that give a
client are in no way written as documented.
