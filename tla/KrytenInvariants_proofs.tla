----------------------- MODULE KrytenInvariants_proofs ----------------------
(***************************************************************************)
(* More invariants of kryten for any list of clients, any length of the    *)
(* queue and any number of faults: types, channels, the exit code, the     *)
(* time out report and the clean exit.                                     *)
(***************************************************************************)
EXTENDS Kryten, SequenceTheorems, TLAPS

-----------------------------------------------------------------------------
(* A burst handles at most Maximum callbacks, and those that are taken     *)
(* after the request to stop are among them: no burst begins after it.     *)
BurstInv ==
  /\ n \in 0..Maximum
  /\ pc = "drain" => n < Maximum
  /\ late \in 0..n
  /\ late > 0 => Shut_Down_Is_Required

LEMMA BurstInit == Init => BurstInv
  BY BurstAssumption DEF Init, BurstInv

(* A callback is taken and handled, whatever it is.                        *)
LEMMA TakeKeepsBurst ==
  ASSUME BurstInv, NEW cb, Take(cb), quit_invoked => quit_invoked',
         pc' = After(n') \/ pc' \in {"get", "system"}
  PROVE  BurstInv'
  BY BurstAssumption DEF BurstInv, Take, After, Shut_Down_Is_Required, signalVars

(* A step that takes none and leaves the counts alone.                     *)
LEMMA OtherKeepsBurst ==
  ASSUME BurstInv, UNCHANGED <<n, late>>,
         Shut_Down_Is_Required => Shut_Down_Is_Required',
         pc' = pc \/ pc' # "drain" \/ pc' = After(n)
  PROVE  BurstInv'
  BY BurstAssumption DEF BurstInv, After

LEMMA FilterKeepsQuit ==
  ASSUME NEW c, NEW v, Process_PV_Update(c, v) \/ Process_PV_Disconnect(c)
  PROVE  quit_invoked => quit_invoked'
  BY DEF Process_PV_Update, Process_PV_Disconnect, call_command, filterVars

LEMMA BurstStep == ASSUME BurstInv, [Next]_vars PROVE BurstInv'
<1>1. ASSUME NEW c \in Clients, HandleUp(c) PROVE BurstInv'
  BY <1>1, TakeKeepsBurst DEF HandleUp, ConnectionUp, filterVars
<1>2. ASSUME NEW c \in Clients, HandleDown(c) PROVE BurstInv'
  BY <1>2, TakeKeepsBurst, FilterKeepsQuit DEF HandleDown, ConnectionDown
<1>3. ASSUME HandleEvent PROVE BurstInv'
  BY <1>3, TakeKeepsBurst, FilterKeepsQuit DEF HandleEvent, EventHandled, filterVars
<1>4. ASSUME Continue PROVE BurstInv'
  BY <1>4, BurstAssumption
  DEF Continue, BurstInv, Shut_Down_Is_Required, filterVars, signalVars, historyVars
<1>5. ASSUME \/ ContextCreate \/ ContextCreateFails \/ Create_All_Channels
             \/ ShutDown \/ Get \/ Subscribe \/ EndDrain \/ Timeouts
             \/ Clear_All_Channels \/ Exit \/ SystemReturns
      PROVE  BurstInv'
  <2>1. UNCHANGED <<n, late, sig_int, sig_term, quit_invoked>>
    BY <1>5
    DEF ContextCreate, ContextCreateFails, Create_All_Channels, ShutDown, Get,
        Subscribe, EndDrain, Timeouts, Clear_All_Channels, Exit, SystemReturns,
        Create_Channel, Clear_Channel, GetAccepted, GetRefused,
        SubscribeAccepted, SubscribeRefused, FinishCommand,
        filterVars, mainVars, signalVars, historyVars
  <2>2. pc' # "drain" \/ pc' = After(n)
    BY <1>5
    DEF ContextCreate, ContextCreateFails, Create_All_Channels, ShutDown, Get,
        Subscribe, EndDrain, Timeouts, Clear_All_Channels, Exit, SystemReturns
  <2> QED
    BY <2>1, <2>2, OtherKeepsBurst DEF Shut_Down_Is_Required
<1>6. ASSUME NEW c \in Clients, LibraryStep(c) PROVE BurstInv'
  BY <1>6, OtherKeepsBurst
  DEF LibraryStep, Shut_Down_Is_Required, filterVars, mainVars, signalVars, historyVars
<1>7. ASSUME SigInt \/ SigTerm PROVE BurstInv'
  BY <1>7, OtherKeepsBurst
  DEF SigInt, SigTerm, Signalled, Shut_Down_Is_Required, mainVars
<1>8. ASSUME UNCHANGED vars PROVE BurstInv'
  BY <1>8, OtherKeepsBurst
  DEF vars, Shut_Down_Is_Required, filterVars, mainVars, signalVars, historyVars
<1> QED
  BY <1>1, <1>2, <1>3, <1>4, <1>5, <1>6, <1>7, <1>8
  DEF Next, ApplicationStep

(* However long the queue is and however many clients there are, at most   *)
(* Maximum callbacks are handled after a signal or a quit command.         *)
THEOREM ShutdownIsBounded == Spec => []ShutdownBounded
<1>1. BurstInv => ShutdownBounded
  BY BurstAssumption DEF BurstInv, ShutdownBounded
<1>2. BurstInv /\ [Next]_vars => BurstInv'
  BY BurstStep
<1> QED
  BY <1>1, <1>2, BurstInit, PTL DEF Spec

-----------------------------------------------------------------------------
(* event_id and the library's subscriptions, whatever has been lost.       *)
SubscriptionInv ==
  /\ subs \in [Clients -> Nat]
  /\ event_id \in [Clients -> BOOLEAN]
  /\ EventIdIsLive

LEMMA SubscriptionInit == Init => SubscriptionInv
  BY DEF Init, CAInit, ClientInit, SubscriptionInv, EventIdIsLive

LEMMA UnsubscribeKeepsIds ==
  ASSUME SubscriptionInv, NEW c \in Clients, Unsubscribe_Channel(c)
  PROVE  SubscriptionInv'
<1>1. CASE event_id[c]
  <2>1. /\ subs' = [subs EXCEPT ![c] = subs[c] - 1]
        /\ event_id' = [event_id EXCEPT ![c] = FALSE]
    BY <1>1 DEF Unsubscribe_Channel, ClearSubscription
  <2>2. subs[c] - 1 \in Nat
    BY <1>1 DEF SubscriptionInv, EventIdIsLive
  <2> QED
    BY <2>1, <2>2 DEF SubscriptionInv, EventIdIsLive
<1>2. CASE ~event_id[c]
  BY <1>2 DEF Unsubscribe_Channel, SubscriptionInv, EventIdIsLive
<1> QED
  BY <1>1, <1>2

LEMMA SubscriptionStep == ASSUME SubscriptionInv, [Next]_vars PROVE SubscriptionInv'
<1>1. ASSUME NEW c \in Clients, HandleDown(c) PROVE SubscriptionInv'
  BY <1>1, UnsubscribeKeepsIds DEF HandleDown, ConnectionDown
<1>2. ASSUME Subscribe PROVE SubscriptionInv'
  <2>1. CASE SubscribeAccepted(cur)
    <3>1. /\ subs' = [subs EXCEPT ![cur] = subs[cur] + 1]
          /\ event_id' = [event_id EXCEPT ![cur] = TRUE]
      BY <2>1 DEF SubscribeAccepted, CreateSubscription
    <3>2. CASE cur \in Clients
      <4>1. subs[cur] \in Nat
        BY <3>2 DEF SubscriptionInv
      <4> QED
        BY <3>1, <3>2, <4>1 DEF SubscriptionInv, EventIdIsLive
    <3>3. CASE cur \notin Clients
      <4>1. subs' = subs /\ event_id' = event_id
        BY <3>1, <3>3 DEF SubscriptionInv
      <4> QED
        BY <4>1 DEF SubscriptionInv, EventIdIsLive
    <3> QED
      BY <3>2, <3>3
  <2>2. CASE SubscribeRefused(cur)
    BY <2>2 DEF SubscribeRefused, GetRefused, clientVars, SubscriptionInv,
                EventIdIsLive
  <2> QED
    BY <1>2, <2>1, <2>2 DEF Subscribe
<1>3. ASSUME Clear_All_Channels PROVE SubscriptionInv'
  <2>1. PICK c \in todo : Clear_Channel(c)
    BY <1>3 DEF Clear_All_Channels
  <2>2. CASE channel_id[c]
    <3>1. /\ subs' = [subs EXCEPT ![c] = 0]
          /\ event_id' = [event_id EXCEPT ![c] = FALSE]
      BY <2>1, <2>2 DEF Clear_Channel, ClearChannel
    <3> QED
      BY <3>1 DEF SubscriptionInv, EventIdIsLive
  <2>3. CASE ~channel_id[c]
    <3>1. CASE c \in Clients
      BY <2>1, <2>3, <3>1, UnsubscribeKeepsIds DEF Clear_Channel
    <3>2. CASE c \notin Clients
      BY <2>1, <2>3, <3>2
      DEF Clear_Channel, Unsubscribe_Channel, ClearSubscription,
          SubscriptionInv, EventIdIsLive
    <3> QED
      BY <3>1, <3>2
  <2> QED
    BY <2>2, <2>3
<1>4. ASSUME \/ ContextCreate \/ ContextCreateFails \/ Create_All_Channels
             \/ Continue \/ ShutDown \/ Get \/ HandleEvent
             \/ EndDrain \/ Timeouts \/ Exit \/ SystemReturns
             \/ SigInt \/ SigTerm \/ UNCHANGED vars
             \/ \E c \in Clients : HandleUp(c) \/ LibraryStep(c)
      PROVE  SubscriptionInv'
  <2>1. UNCHANGED <<subs, event_id>>
    BY <1>4
    DEF ContextCreate, ContextCreateFails, Create_All_Channels, Continue,
        ShutDown, Get, HandleEvent, EndDrain, Timeouts, Exit,
        SystemReturns, SigInt, SigTerm, Signalled, HandleUp, LibraryStep,
        Create_Channel, CreateChannel, GetAccepted, GetRefused, ArrayGet,
        EventHandled, ConnectionUp, Library, Connect, CircuitLost,
        PVChange, DeliverGet, DeliverEvent, vars, caVars, clientVars
  <2> QED
    BY <2>1 DEF SubscriptionInv, EventIdIsLive
<1> QED
  BY <1>1, <1>2, <1>3, <1>4 DEF Next, ApplicationStep

(* Unsubscribe_Channel never clears a subscription the library does not    *)
(* have: event_id is one of its subscriptions whenever it is not NULL,     *)
(* even when callbacks are lost and requests fail.                         *)
THEOREM EventIdAlwaysLive == Spec => []EventIdIsLive
<1>1. SubscriptionInv => EventIdIsLive
  BY DEF SubscriptionInv
<1>2. SubscriptionInv /\ [Next]_vars => SubscriptionInv'
  BY SubscriptionStep
<1> QED
  BY <1>1, <1>2, SubscriptionInit, PTL DEF Spec
-----------------------------------------------------------------------------
(* A client without a channel has nothing of the library, and what is      *)
(* queued, until the channels are cleared, is of clients with one.         *)
Unused(c) == /\ link[c] = "down"
             /\ subs[c] = 0 /\ gets[c] = 0 /\ due[c] = 0
             /\ ~event_id[c]

ValidCallbacks == {cb \in Callbacks : channel_id[cb.client]}

ChannelInv ==
  /\ \A c \in Clients : channel_id[c] \/ Unused(c)
  /\ pc \in {"get", "subscribe"} => cur \in Clients /\ channel_id[cur]
  /\ pc \notin {"clear", "exit"} => queue \in Seq(ValidCallbacks)

(* system() runs a command exactly while the application thread waits.     *)
CommandInv == pc = "system" <=> command # NoCommand

IInv == /\ TypeOK
        /\ BurstInv
        /\ EventIdIsLive
        /\ ChannelInv
        /\ CommandInv

-----------------------------------------------------------------------------
(* The queue.                                                              *)
LEMMA BufferKeepsType ==
  ASSUME NEW S, queue \in Seq(S), NEW callbacks \in Seq(S), Buffer(callbacks)
  PROVE  /\ queue' \in Seq(S)
         /\ faults \in 0..MaxFaults => faults' \in 0..MaxFaults
<1>1. CASE queue' = queue \o callbacks /\ UNCHANGED faults
  BY <1>1, ConcatProperties
<1>2. CASE /\ \E k \in DOMAIN callbacks : queue' = queue \o RemoveAt(callbacks, k)
           /\ Fault
  <2>1. PICK k \in DOMAIN callbacks : queue' = queue \o RemoveAt(callbacks, k)
    BY <1>2
  <2>2. Len(callbacks) \in Nat /\ k \in 1..Len(callbacks)
    BY LenProperties
  <2>3. \A i \in 1..Len(callbacks) : callbacks[i] \in S
    BY ElementOfSeq
  <2>4. SubSeq(callbacks, 1, k - 1) \in Seq(S)
    BY <2>2, <2>3, SubSeqProperties
  <2>5. SubSeq(callbacks, k + 1, Len(callbacks)) \in Seq(S)
    BY <2>2, <2>3, SubSeqProperties
  <2>6. RemoveAt(callbacks, k) \in Seq(S)
    BY <2>4, <2>5, ConcatProperties DEF RemoveAt
  <2>7. faults < MaxFaults /\ faults' = faults + 1
    BY <1>2 DEF Fault
  <2> QED
    BY <2>1, <2>6, <2>7, ConcatProperties, CABoundAssumption
<1> QED
  BY <1>1, <1>2 DEF Buffer

LEMMA CallbackTypes ==
  ASSUME NEW c \in Clients
  PROVE  /\ Up(c) \in Callbacks /\ Up(c).client = c
         /\ Down(c) \in Callbacks /\ Down(c).client = c
         /\ Failed(c) \in Callbacks /\ Failed(c).client = c
         /\ \A v \in Values, k \in Nat :
              Event(c, v, k) \in Callbacks /\ Event(c, v, k).client = c
BY DEF Callbacks, Up, Down, Failed, Event

LEMMA UpdateType ==
  ASSUME CATypeOK, NEW c \in Clients
  PROVE  Update(c) \in Callbacks /\ Update(c).client = c
<1>1. SmallerOf(nelm[c], element_index[c]) \in Nat
  BY CountAssumption, ElementAssumption DEF CATypeOK, SmallerOf
<1>2. pv[c] \in Values
  BY DEF CATypeOK
<1> QED
  BY <1>1, <1>2, CallbackTypes DEF Update

LEMMA HeadIsValid ==
  ASSUME IInv, queue # <<>>
  PROVE  /\ Head(queue) \in Callbacks
         /\ Tail(queue) \in Seq(Callbacks)
         /\ pc \notin {"clear", "exit"} =>
              /\ channel_id[Head(queue).client]
              /\ Tail(queue) \in Seq(ValidCallbacks)
BY HeadTailProperties DEF IInv, TypeOK, CATypeOK, ChannelInv, ValidCallbacks

(* What the library adds to the queue is of a client with a channel.       *)
LEMMA BufferKeepsValid ==
  ASSUME IInv, NEW c \in Clients, channel_id[c], NEW callbacks \in Seq(Callbacks),
         \A k \in 1..Len(callbacks) : callbacks[k].client = c,
         Buffer(callbacks)
  PROVE  /\ queue' \in Seq(Callbacks)
         /\ faults' \in 0..MaxFaults
         /\ pc \notin {"clear", "exit"} => queue' \in Seq(ValidCallbacks)
<1>1. queue \in Seq(Callbacks) /\ faults \in 0..MaxFaults
  BY DEF IInv, TypeOK, CATypeOK
<1>2. callbacks \in Seq(ValidCallbacks)
  <2>1. Len(callbacks) \in Nat /\ callbacks \in [1..Len(callbacks) -> Callbacks]
    BY LenProperties
  <2>2. \A k \in 1..Len(callbacks) : callbacks[k] \in ValidCallbacks
    BY <2>1 DEF ValidCallbacks
  <2>3. callbacks \in [1..Len(callbacks) -> ValidCallbacks]
    BY <2>1, <2>2
  <2> QED
    BY <2>1, <2>3, SeqDef
<1>3. pc \notin {"clear", "exit"} => queue \in Seq(ValidCallbacks)
  BY DEF IInv, ChannelInv
<1> QED
  BY <1>1, <1>2, <1>3, BufferKeepsType

-----------------------------------------------------------------------------
(* The steps of the library.                                               *)
LEMMA ConnectStep ==
  ASSUME IInv, NEW c \in Clients, Connect(c), pc' = pc, event_id' = event_id, cur' = cur
  PROVE  CATypeOK' /\ ChannelInv'
<1>1. /\ channel_id[c] /\ link' = [link EXCEPT ![c] = "up"]
      /\ due' = [due EXCEPT ![c] = subs[c]]
      /\ \E k \in ElementCounts : nelm' = [nelm EXCEPT ![c] = k]
      /\ UNCHANGED <<channel_id, pv, subs, gets>>
      /\ Buffer(<<Up(c)>>)
  BY DEF Connect
<1>2. <<Up(c)>> \in Seq(Callbacks) /\ \A k \in 1..Len(<<Up(c)>>) : <<Up(c)>>[k].client = c
  BY CallbackTypes
<1>3. /\ queue' \in Seq(Callbacks)
      /\ faults' \in 0..MaxFaults
      /\ pc \notin {"clear", "exit"} => queue' \in Seq(ValidCallbacks)
  BY <1>1, <1>2, BufferKeepsValid
<1>4. CATypeOK'
  BY <1>1, <1>3 DEF IInv, TypeOK, CATypeOK
<1>5. ChannelInv'
  BY <1>1, <1>3 DEF IInv, ChannelInv, ValidCallbacks, Unused, TypeOK, CATypeOK
<1> QED
  BY <1>4, <1>5

LEMMA CircuitLostStep ==
  ASSUME IInv, NEW c \in Clients, CircuitLost(c), pc' = pc, event_id' = event_id, cur' = cur
  PROVE  CATypeOK' /\ ChannelInv'
<1> DEFINE failed    == [k \in 1..gets[c] |-> Failed(c)]
           callbacks == Append(failed, Down(c))
<1>1. /\ link[c] = "up" /\ link' = [link EXCEPT ![c] = "down"]
      /\ gets' = [gets EXCEPT ![c] = 0] /\ due' = [due EXCEPT ![c] = 0]
      /\ UNCHANGED <<channel_id, pv, nelm, subs>>
      /\ Buffer(callbacks)
  BY DEF CircuitLost
<1>2. channel_id[c]
  BY <1>1 DEF IInv, ChannelInv, Unused
<1>3. gets[c] \in Nat
  BY DEF IInv, TypeOK, CATypeOK
<1>4. failed \in [1..gets[c] -> Callbacks] /\ \A k \in 1..gets[c] : failed[k].client = c
  BY CallbackTypes
<1>5. failed \in Seq(Callbacks) /\ Len(failed) = gets[c]
  BY <1>3, <1>4, SeqDef, LenProperties
<1> HIDE DEF failed
<1>6. callbacks \in Seq(Callbacks) /\ \A k \in 1..Len(callbacks) : callbacks[k].client = c
  BY <1>4, <1>5, CallbackTypes, AppendProperties
<1>7. /\ queue' \in Seq(Callbacks)
      /\ faults' \in 0..MaxFaults
      /\ pc \notin {"clear", "exit"} => queue' \in Seq(ValidCallbacks)
  BY <1>1, <1>2, <1>6, BufferKeepsValid
<1>8. CATypeOK'
  BY <1>1, <1>7 DEF IInv, TypeOK, CATypeOK
<1>9. ChannelInv'
  BY <1>1, <1>2, <1>7 DEF IInv, ChannelInv, ValidCallbacks, Unused, TypeOK, CATypeOK
<1> QED
  BY <1>8, <1>9

LEMMA PVChangeStep ==
  ASSUME IInv, NEW c \in Clients, PVChange(c), pc' = pc, event_id' = event_id, cur' = cur
  PROVE  CATypeOK' /\ ChannelInv'
<1>1. /\ \E v \in Values : pv' = [pv EXCEPT ![c] = v]
      /\ due' = [due EXCEPT ![c] = IF link[c] = "up" THEN subs[c] ELSE 0]
      /\ UNCHANGED <<channel_id, link, nelm, subs, gets, queue, faults>>
  BY DEF PVChange
<1>2. CATypeOK'
  BY <1>1 DEF IInv, TypeOK, CATypeOK
<1>3. ChannelInv'
  BY <1>1 DEF IInv, ChannelInv, ValidCallbacks, Unused, TypeOK, CATypeOK
<1> QED
  BY <1>2, <1>3

LEMMA DeliverStep ==
  ASSUME IInv, NEW c \in Clients, DeliverGet(c) \/ DeliverEvent(c),
         pc' = pc, event_id' = event_id, cur' = cur
  PROVE  CATypeOK' /\ ChannelInv'
<1>1. /\ link[c] = "up"
      /\ \/ gets[c] > 0 /\ gets' = [gets EXCEPT ![c] = gets[c] - 1] /\ UNCHANGED due
         \/ due[c] > 0 /\ due' = [due EXCEPT ![c] = due[c] - 1] /\ UNCHANGED gets
      /\ UNCHANGED <<channel_id, link, pv, nelm, subs>>
      /\ Buffer(<<Update(c)>>)
  BY DEF DeliverGet, DeliverEvent, serverVars
<1>2. channel_id[c]
  BY <1>1 DEF IInv, ChannelInv, Unused
<1>3. <<Update(c)>> \in Seq(Callbacks)
      /\ \A k \in 1..Len(<<Update(c)>>) : <<Update(c)>>[k].client = c
  BY UpdateType DEF IInv, TypeOK
<1>4. /\ queue' \in Seq(Callbacks)
      /\ faults' \in 0..MaxFaults
      /\ pc \notin {"clear", "exit"} => queue' \in Seq(ValidCallbacks)
  BY <1>1, <1>2, <1>3, BufferKeepsValid
<1>5. gets[c] \in Nat /\ due[c] \in Nat
  BY DEF IInv, TypeOK, CATypeOK
<1>6. gets' \in [Clients -> Nat] /\ due' \in [Clients -> Nat]
  <2>1. gets[c] > 0 => gets[c] - 1 \in Nat
    BY <1>5
  <2>2. due[c] > 0 => due[c] - 1 \in Nat
    BY <1>5
  <2>3. gets \in [Clients -> Nat] /\ due \in [Clients -> Nat]
    BY DEF IInv, TypeOK, CATypeOK
  <2> QED
    BY <1>1, <2>1, <2>2, <2>3
<1>7. CATypeOK'
  BY <1>1, <1>4, <1>6 DEF IInv, TypeOK, CATypeOK
<1>8. ChannelInv'
  BY <1>1, <1>2, <1>4 DEF IInv, ChannelInv, ValidCallbacks, Unused, TypeOK, CATypeOK
<1> QED
  BY <1>7, <1>8

LEMMA LibraryKeepsIInv ==
  ASSUME IInv, NEW c \in Clients, LibraryStep(c)
  PROVE  CATypeOK' /\ ChannelInv'
<1>1. Library(c) /\ pc' = pc /\ event_id' = event_id /\ cur' = cur
  BY DEF LibraryStep, clientVars, mainVars
<1> QED
  BY <1>1, ConnectStep, CircuitLostStep, PVChangeStep, DeliverStep DEF Library

(* The library's part when nothing of it changes but the queue, from which *)
(* a callback may have been taken.                                         *)
LEMMA TakeKeepsChannels ==
  ASSUME IInv, NEW cb, Take(cb), UNCHANGED <<channel_id, serverVars, gets, faults>>
  PROVE  /\ queue' \in Seq(Callbacks)
         /\ queue' \in Seq(ValidCallbacks)'
         /\ cb \in Callbacks /\ channel_id[cb.client] /\ cb.client \in Clients
<1>1. /\ pc = "drain" /\ queue # <<>> /\ cb = Head(queue) /\ queue' = Tail(queue)
  BY DEF Take
<1>2. cb \in Callbacks /\ channel_id[cb.client]
      /\ queue' \in Seq(Callbacks) /\ queue' \in Seq(ValidCallbacks)
  BY <1>1, HeadIsValid
<1>3. cb.client \in Clients
  BY <1>2 DEF Callbacks
<1>4. ValidCallbacks' = ValidCallbacks
  BY DEF ValidCallbacks
<1> QED
  BY <1>2, <1>3, <1>4

-----------------------------------------------------------------------------
(* The filter.                                                             *)
LEMMA CallTypes ==
  ASSUME FilterTypeOK, NEW c \in Clients, NEW state \in {"match", "reject", "disconnect"},
         call_command(c, state)
  PROVE  /\ command' \in Commands \cup {NoCommand}
         /\ quit_invoked' \in BOOLEAN
         /\ exit_code' \in Int
<1>1. CASE c \in Quits
  <2>1. /\ quit_invoked' = (quit_invoked \/ state = "match")
        /\ exit_code' = IF state = "match" THEN QuitCode[c] ELSE exit_code
        /\ UNCHANGED command
    BY <1>1 DEF call_command
  <2>2. QuitCode[c] \in Int
    BY <1>1, QuitAssumption
  <2>3. quit_invoked' \in BOOLEAN
    BY <2>1, Zenon DEF FilterTypeOK
  <2> QED
    BY <2>1, <2>2, <2>3 DEF FilterTypeOK
<1>2. CASE c \notin Quits
  <2>1. /\ command' = [client |-> c, state |-> state]
        /\ UNCHANGED <<quit_invoked, exit_code>>
    BY <1>2 DEF call_command
  <2> QED
    BY <1>2, <2>1 DEF FilterTypeOK, Commands
<1> QED
  BY <1>1, <1>2

LEMMA MatchesType ==
  ASSUME NEW c, NEW v
  PROVE  Matches(c, v) \in BOOLEAN
BY DEF Matches

LEMMA UpdateTypes ==
  ASSUME FilterTypeOK, NEW c \in Clients, NEW v, Process_PV_Update(c, v)
  PROVE  FilterTypeOK'
<1>1. CASE UNCHANGED filterVars
  BY <1>1 DEF FilterTypeOK, filterVars
<1>2. CASE ~UNCHANGED filterVars
  <2>1. /\ call_command(c, IF Matches(c, v) THEN "match" ELSE "reject")
        /\ last_update_matched' =
             IF c \in Quits THEN [last_update_matched EXCEPT ![c] = Matches(c, v)]
                            ELSE last_update_matched
    BY <1>2 DEF Process_PV_Update
  <2>2. last_update_matched' \in [Clients -> BOOLEAN]
    BY <2>1, MatchesType DEF FilterTypeOK
  <2> QED
    BY <2>1, <2>2, CallTypes DEF FilterTypeOK
<1> QED
  BY <1>1, <1>2

LEMMA DisconnectTypes ==
  ASSUME FilterTypeOK, NEW c \in Clients, Process_PV_Disconnect(c)
  PROVE  FilterTypeOK'
BY CallTypes DEF Process_PV_Disconnect, FilterTypeOK

LEMMA FinishTypes ==
  ASSUME FilterTypeOK, command \in Commands, FinishCommand
  PROVE  FilterTypeOK'
<1>1. command.client \in Clients
  BY DEF Commands
<1>2. (command.state = "match") \in BOOLEAN
  OBVIOUS
<1> QED
  BY <1>1, <1>2 DEF FilterTypeOK, FinishCommand

-----------------------------------------------------------------------------
(* The steps of the application.                                           *)
MainTypeOK ==
  /\ pc \in {"start", "create", "test", "drain", "get", "subscribe", "system",
             "timeouts", "clear", "exit"}
  /\ cur \in Clients \cup {NoClient}
  /\ cycle \in 0..TimeoutCycles
  /\ timeouts_done \in BOOLEAN
  /\ todo \subseteq Clients
  /\ sig_int \in BOOLEAN
  /\ sig_term \in BOOLEAN
  /\ status \in Int \cup {NoStatus}
  /\ online \in [Clients -> BOOLEAN]
  /\ first_exit \in Int \cup {NoCode}

Types == CATypeOK /\ FilterTypeOK /\ ClientTypeOK /\ MainTypeOK

LEMMA TypesAre ==
  /\ TypeOK => Types
  /\ Types /\ BurstInv => TypeOK
<1>1. BurstInv => n \in 0..Maximum /\ late \in Nat
  BY BurstAssumption DEF BurstInv
<1> QED
  BY <1>1 DEF TypeOK, Types, MainTypeOK

LEMMA IInvParts ==
  ASSUME IInv
  PROVE  /\ CATypeOK /\ FilterTypeOK /\ ClientTypeOK /\ MainTypeOK
         /\ BurstInv /\ EventIdIsLive /\ ChannelInv /\ CommandInv
BY TypesAre DEF IInv, Types

LEMMA AfterIs ==
  ASSUME NEW k
  PROVE  After(k) \in {"timeouts", "drain"}
BY DEF After

LEMMA HandleUpStep ==
  ASSUME IInv, NEW c \in Clients, HandleUp(c)
  PROVE  Types' /\ ChannelInv' /\ CommandInv'
<1>1. /\ UNCHANGED <<channel_id, link, pv, nelm, subs, gets, due, faults, event_id>>
      /\ is_connected' = [is_connected EXCEPT ![c] = TRUE]
      /\ UNCHANGED <<last_update_matched, command, quit_invoked, exit_code>>
      /\ UNCHANGED <<cycle, timeouts_done, todo, status, sig_int, sig_term, first_exit>>
      /\ online' = [online EXCEPT ![c] = TRUE]
      /\ pc = "drain"
      /\ \/ cur' = c /\ pc' = "get"
         \/ cur' = NoClient /\ pc' = After(n')
  BY DEF HandleUp, Take, ConnectionUp, serverVars, filterVars, signalVars
<1>2. queue' \in Seq(Callbacks) /\ queue' \in Seq(ValidCallbacks)' /\ channel_id[c]
  <2>1. Take(Up(c)) /\ Up(c).client = c /\ UNCHANGED <<channel_id, serverVars, gets, faults>>
    BY <1>1, CallbackTypes DEF HandleUp, serverVars
  <2> QED
    BY <2>1, TakeKeepsChannels
<1>3. CATypeOK' /\ FilterTypeOK' /\ ClientTypeOK'
  BY <1>1, <1>2, IInvParts DEF CATypeOK, FilterTypeOK, ClientTypeOK
<1>4. MainTypeOK'
  BY <1>1, IInvParts, AfterIs DEF MainTypeOK
<1>5. ChannelInv'
  BY <1>1, <1>2, IInvParts, AfterIs DEF ChannelInv, Unused
<1>6. CommandInv'
  BY <1>1, IInvParts, AfterIs DEF CommandInv
<1> QED
  BY <1>3, <1>4, <1>5, <1>6 DEF Types

LEMMA UnsubscribeTypes ==
  ASSUME IInv, NEW c \in Clients, Unsubscribe_Channel(c), UNCHANGED <<channel_id, link, gets>>
  PROVE  /\ subs' \in [Clients -> Nat] /\ due' \in [Clients -> Nat]
         /\ event_id' \in [Clients -> BOOLEAN]
         /\ \A d \in Clients : channel_id'[d] \/ Unused(d)'
<1>0. /\ subs \in [Clients -> Nat] /\ due \in [Clients -> Nat]
      /\ event_id \in [Clients -> BOOLEAN]
      /\ \A d \in Clients : channel_id[d] \/ Unused(d)
  BY IInvParts DEF CATypeOK, ClientTypeOK, ChannelInv
<1>1. CASE event_id[c]
  <2>1. /\ subs' = [subs EXCEPT ![c] = subs[c] - 1]
        /\ due' = [due EXCEPT ![c] = SmallerOf(due[c], subs[c] - 1)]
        /\ event_id' = [event_id EXCEPT ![c] = FALSE]
    BY <1>1 DEF Unsubscribe_Channel, ClearSubscription
  <2>2. subs[c] > 0
    BY <1>1, IInvParts DEF EventIdIsLive
  <2>3. subs[c] - 1 \in Nat /\ SmallerOf(due[c], subs[c] - 1) \in Nat
    BY <1>0, <2>2 DEF SmallerOf
  <2>4. channel_id[c]
    BY <1>0, <1>1 DEF Unused
  <2> QED
    BY <1>0, <2>1, <2>3, <2>4 DEF Unused
<1>2. CASE ~event_id[c]
  BY <1>0, <1>2 DEF Unsubscribe_Channel, Unused
<1> QED
  BY <1>1, <1>2

LEMMA HandleDownStep ==
  ASSUME IInv, NEW c \in Clients, HandleDown(c)
  PROVE  Types' /\ ChannelInv' /\ CommandInv'
<1>1. /\ UNCHANGED <<channel_id, link, pv, nelm, gets, faults, is_connected>>
      /\ Unsubscribe_Channel(c)
      /\ Process_PV_Disconnect(c)
      /\ UNCHANGED <<cur, cycle, timeouts_done, todo, status, sig_int, sig_term, first_exit>>
      /\ online' = [online EXCEPT ![c] = FALSE]
      /\ pc = "drain"
      /\ pc' = IF command' # NoCommand THEN "system" ELSE After(n')
  BY DEF HandleDown, Take, ConnectionDown, serverVars, signalVars
<1>2. queue' \in Seq(Callbacks) /\ queue' \in Seq(ValidCallbacks)'
  <2>1. Take(Down(c)) /\ UNCHANGED <<channel_id, serverVars, gets, faults>>
    BY <1>1 DEF HandleDown, serverVars
  <2> QED
    BY <2>1, TakeKeepsChannels
<1>3. /\ subs' \in [Clients -> Nat] /\ due' \in [Clients -> Nat]
      /\ event_id' \in [Clients -> BOOLEAN]
      /\ \A d \in Clients : channel_id'[d] \/ Unused(d)'
  BY <1>1, UnsubscribeTypes
<1>4. FilterTypeOK'
  BY <1>1, IInvParts, DisconnectTypes
<1>5. CATypeOK' /\ ClientTypeOK'
  BY <1>1, <1>2, <1>3, IInvParts DEF CATypeOK, ClientTypeOK
<1>6. MainTypeOK'
  BY <1>1, IInvParts, AfterIs DEF MainTypeOK
<1>7. ChannelInv'
  BY <1>1, <1>2, <1>3, AfterIs DEF ChannelInv
<1>8. CommandInv'
  BY <1>1, AfterIs DEF CommandInv
<1> QED
  BY <1>4, <1>5, <1>6, <1>7, <1>8 DEF Types

LEMMA HandleEventStep ==
  ASSUME IInv, HandleEvent
  PROVE  Types' /\ ChannelInv' /\ CommandInv'
<1> DEFINE cb == Head(queue)
<1>1. /\ UNCHANGED <<channel_id, link, pv, nelm, subs, gets, due, faults,
                     is_connected, event_id>>
      /\ Process_PV_Update(cb.client, cb.value) \/ UNCHANGED filterVars
      /\ UNCHANGED <<cur, cycle, timeouts_done, todo, status, sig_int, sig_term, online>>
      /\ pc = "drain"
      /\ pc' = IF command' # NoCommand THEN "system" ELSE After(n')
      /\ first_exit' \in {first_exit, exit_code'}
  BY DEF HandleEvent, Take, EventHandled, NotedQuit, serverVars, signalVars, clientVars
<1>2. queue' \in Seq(Callbacks) /\ queue' \in Seq(ValidCallbacks)' /\ cb.client \in Clients
  <2>1. Take(cb) /\ UNCHANGED <<channel_id, serverVars, gets, faults>>
    BY <1>1 DEF HandleEvent, serverVars
  <2> QED
    BY <2>1, TakeKeepsChannels
<1> HIDE DEF cb
<1>3. FilterTypeOK'
  <2>1. CASE UNCHANGED filterVars
    BY <2>1, IInvParts DEF FilterTypeOK, filterVars
  <2> QED
    BY <1>1, <1>2, <2>1, IInvParts, UpdateTypes
<1>4. CATypeOK' /\ ClientTypeOK'
  BY <1>1, <1>2, IInvParts DEF CATypeOK, ClientTypeOK
<1>5. MainTypeOK'
  BY <1>1, <1>3, IInvParts, AfterIs DEF MainTypeOK, FilterTypeOK
<1>6. ChannelInv'
  BY <1>1, <1>2, IInvParts, AfterIs DEF ChannelInv, Unused
<1>7. CommandInv'
  BY <1>1, AfterIs DEF CommandInv
<1> QED
  BY <1>3, <1>4, <1>5, <1>6, <1>7 DEF Types

LEMMA GetStep ==
  ASSUME IInv, Get
  PROVE  Types' /\ ChannelInv' /\ CommandInv'
<1>0. cur \in Clients /\ channel_id[cur] /\ gets[cur] + 1 \in Nat
  BY IInvParts DEF Get, ChannelInv, CATypeOK
<1>1. /\ UNCHANGED <<channel_id, link, pv, nelm, subs, due, queue, is_connected, event_id>>
      /\ UNCHANGED <<last_update_matched, command, quit_invoked, exit_code>>
      /\ UNCHANGED <<cycle, timeouts_done, todo, status, sig_int, sig_term, online, first_exit>>
      /\ pc = "get"
      /\ \/ gets' = [gets EXCEPT ![cur] = gets[cur] + 1] /\ UNCHANGED faults
         \/ UNCHANGED <<gets, faults>>
         \/ UNCHANGED gets /\ faults < MaxFaults /\ faults' = faults + 1
      /\ \/ pc' = "subscribe" /\ UNCHANGED cur
         \/ pc' = After(n) /\ cur' = NoClient
  BY DEF Get, GetAccepted, GetRefused, ArrayGet, Fault, serverVars, clientVars,
         filterVars, signalVars, historyVars
<1>2. faults' \in 0..MaxFaults
  BY <1>1, IInvParts, CABoundAssumption DEF CATypeOK
<1>3. gets' \in [Clients -> Nat]
  BY <1>0, <1>1, IInvParts DEF CATypeOK
<1>4. CATypeOK' /\ FilterTypeOK' /\ ClientTypeOK'
  BY <1>1, <1>2, <1>3, IInvParts DEF CATypeOK, FilterTypeOK, ClientTypeOK
<1>5. MainTypeOK'
  BY <1>1, IInvParts, AfterIs DEF MainTypeOK
<1>6. ChannelInv'
  <2>1. \A c \in Clients : channel_id'[c] \/ Unused(c)'
    BY <1>0, <1>1, IInvParts DEF ChannelInv, Unused, CATypeOK
  <2>2. queue' \in Seq(ValidCallbacks)'
    BY <1>1, IInvParts DEF ChannelInv, ValidCallbacks
  <2> QED
    BY <1>0, <1>1, <2>1, <2>2, AfterIs DEF ChannelInv
<1>7. CommandInv'
  BY <1>1, IInvParts, AfterIs DEF CommandInv
<1> QED
  BY <1>4, <1>5, <1>6, <1>7 DEF Types

LEMMA SubscribeStep ==
  ASSUME IInv, Subscribe
  PROVE  Types' /\ ChannelInv' /\ CommandInv'
<1>0. cur \in Clients /\ channel_id[cur] /\ subs[cur] + 1 \in Nat /\ due[cur] + 1 \in Nat
  BY IInvParts DEF Subscribe, ChannelInv, CATypeOK
<1>1. /\ UNCHANGED <<channel_id, link, pv, nelm, gets, queue, is_connected>>
      /\ UNCHANGED <<last_update_matched, command, quit_invoked, exit_code>>
      /\ UNCHANGED <<cycle, timeouts_done, todo, status, sig_int, sig_term, online, first_exit>>
      /\ pc = "subscribe"
      /\ pc' = After(n) /\ cur' = NoClient
      /\ \/ /\ subs' = [subs EXCEPT ![cur] = subs[cur] + 1]
            /\ due' = [due EXCEPT ![cur] = IF link[cur] = "up" THEN due[cur] + 1 ELSE 0]
            /\ event_id' = [event_id EXCEPT ![cur] = TRUE]
            /\ UNCHANGED faults
         \/ /\ UNCHANGED <<subs, due, event_id>>
            /\ \/ UNCHANGED faults
               \/ faults < MaxFaults /\ faults' = faults + 1
  BY DEF Subscribe, SubscribeAccepted, SubscribeRefused, GetRefused, CreateSubscription,
         Fault, serverVars, clientVars, filterVars, signalVars, historyVars
<1>2. faults' \in 0..MaxFaults
  BY <1>1, IInvParts, CABoundAssumption DEF CATypeOK
<1>3. subs' \in [Clients -> Nat] /\ due' \in [Clients -> Nat]
  <2>1. subs \in [Clients -> Nat] /\ due \in [Clients -> Nat]
    BY IInvParts DEF CATypeOK
  <2>2. (IF link[cur] = "up" THEN due[cur] + 1 ELSE 0) \in Nat
    BY <1>0
  <2> QED
    BY <1>0, <1>1, <2>1, <2>2
<1>4. event_id' \in [Clients -> BOOLEAN]
  BY <1>0, <1>1, IInvParts DEF ClientTypeOK
<1>5. CATypeOK' /\ FilterTypeOK' /\ ClientTypeOK'
  BY <1>1, <1>2, <1>3, <1>4, IInvParts DEF CATypeOK, FilterTypeOK, ClientTypeOK
<1>6. MainTypeOK'
  BY <1>1, IInvParts, AfterIs DEF MainTypeOK
<1>7. ChannelInv'
  <2>1. \A c \in Clients : channel_id'[c] \/ Unused(c)'
    BY <1>0, <1>1, IInvParts DEF ChannelInv, Unused, CATypeOK, ClientTypeOK
  <2>2. queue' \in Seq(ValidCallbacks)'
    BY <1>1, IInvParts DEF ChannelInv, ValidCallbacks
  <2> QED
    BY <1>1, <2>1, <2>2, AfterIs DEF ChannelInv
<1>8. CommandInv'
  BY <1>1, IInvParts, AfterIs DEF CommandInv
<1> QED
  BY <1>5, <1>6, <1>7, <1>8 DEF Types

LEMMA CreateChannelsStep ==
  ASSUME IInv, Create_All_Channels
  PROVE  Types' /\ ChannelInv' /\ CommandInv'
<1>1. PICK c \in todo : Create_Channel(c) /\ todo' = todo \ {c}
  BY DEF Create_All_Channels
<1>2. c \in Clients
  BY IInvParts DEF MainTypeOK
<1>3. /\ UNCHANGED <<link, pv, nelm, subs, gets, due, queue, event_id>>
      /\ UNCHANGED <<last_update_matched, command, quit_invoked, exit_code>>
      /\ UNCHANGED <<cur, cycle, timeouts_done, status, sig_int, sig_term, online, first_exit>>
      /\ is_connected' = [is_connected EXCEPT ![c] = FALSE]
      /\ pc = "create" /\ pc' \in {"test", "create"}
      /\ \/ channel_id' = [channel_id EXCEPT ![c] = TRUE] /\ UNCHANGED faults
         \/ UNCHANGED channel_id /\ faults < MaxFaults /\ faults' = faults + 1
  BY <1>1 DEF Create_All_Channels, Create_Channel, CreateChannel, Fault, serverVars,
              filterVars, signalVars, historyVars
<1>4. faults' \in 0..MaxFaults
  BY <1>3, IInvParts, CABoundAssumption DEF CATypeOK
<1>5. CATypeOK' /\ FilterTypeOK' /\ ClientTypeOK'
  BY <1>2, <1>3, <1>4, IInvParts DEF CATypeOK, FilterTypeOK, ClientTypeOK
<1>6. MainTypeOK'
  BY <1>1, <1>3, IInvParts DEF MainTypeOK
<1>7. ChannelInv'
  <2>1. \A d \in Clients : channel_id[d] => channel_id'[d]
    BY <1>3, IInvParts DEF CATypeOK
  <2>2. \A d \in Clients : channel_id'[d] \/ Unused(d)'
    BY <1>3, <2>1, IInvParts DEF ChannelInv, Unused
  <2>3. ValidCallbacks \subseteq ValidCallbacks'
    BY <2>1 DEF ValidCallbacks, Callbacks
  <2>4. queue' \in Seq(ValidCallbacks)'
    BY <1>3, <2>3, IInvParts, SeqMonotonic DEF ChannelInv
  <2> QED
    BY <1>3, <2>2, <2>4 DEF ChannelInv
<1>8. CommandInv'
  BY <1>3, IInvParts DEF CommandInv
<1> QED
  BY <1>5, <1>6, <1>7, <1>8 DEF Types

LEMMA ClearChannelsStep ==
  ASSUME IInv, Clear_All_Channels
  PROVE  /\ Types' /\ ChannelInv' /\ CommandInv'
         /\ \E c \in todo : todo' = todo \ {c} /\ ~channel_id'[c]
         /\ \A d \in Clients : ~channel_id[d] => ~channel_id'[d]
<1>1. PICK c \in todo : Clear_Channel(c) /\ todo' = todo \ {c}
  BY DEF Clear_All_Channels
<1>2. c \in Clients
  BY IInvParts DEF MainTypeOK
<1>3. /\ UNCHANGED <<pv, nelm, queue, faults>>
      /\ UNCHANGED <<last_update_matched, command, quit_invoked, exit_code>>
      /\ UNCHANGED <<cur, cycle, timeouts_done, status, sig_int, sig_term, online, first_exit>>
      /\ pc = "clear" /\ UNCHANGED pc
  BY <1>1 DEF Clear_All_Channels, Clear_Channel, filterVars, signalVars, historyVars
<1>4. /\ channel_id' = [channel_id EXCEPT ![c] = FALSE]
      /\ link' = [link EXCEPT ![c] = "down"]
      /\ subs' = [subs EXCEPT ![c] = 0]
      /\ gets' = [gets EXCEPT ![c] = 0]
      /\ due' = [due EXCEPT ![c] = 0]
      /\ event_id' = [event_id EXCEPT ![c] = FALSE]
      /\ is_connected' \in {is_connected, [is_connected EXCEPT ![c] = FALSE]}
  <2>1. CASE channel_id[c]
    BY <1>1, <2>1 DEF Clear_Channel, ClearChannel
  <2>2. CASE ~channel_id[c]
    <3>1. Unused(c)
      BY <1>2, <2>2, IInvParts DEF ChannelInv
    <3>2. UNCHANGED <<channel_id, link, gets, subs, due, event_id, is_connected>>
      BY <1>1, <2>2, <3>1 DEF Clear_Channel, Unsubscribe_Channel, Unused
    <3> QED
      BY <1>2, <2>2, <3>1, <3>2, IInvParts DEF Unused, CATypeOK, ClientTypeOK
  <2> QED
    BY <2>1, <2>2
<1>5. CATypeOK' /\ FilterTypeOK' /\ ClientTypeOK'
  BY <1>3, <1>4, IInvParts DEF CATypeOK, FilterTypeOK, ClientTypeOK
<1>6. MainTypeOK'
  BY <1>1, <1>3, IInvParts DEF MainTypeOK
<1>7. ChannelInv'
  BY <1>2, <1>3, <1>4, IInvParts DEF ChannelInv, Unused, CATypeOK, ClientTypeOK
<1>8. CommandInv'
  BY <1>3, IInvParts DEF CommandInv
<1>9. ~channel_id'[c] /\ \A d \in Clients : ~channel_id[d] => ~channel_id'[d]
  BY <1>2, <1>4, IInvParts DEF CATypeOK
<1> QED
  BY <1>1, <1>5, <1>6, <1>7, <1>8, <1>9 DEF Types

LEMMA SystemReturnsStep ==
  ASSUME IInv, SystemReturns
  PROVE  Types' /\ ChannelInv' /\ CommandInv'
<1>1. /\ UNCHANGED <<channel_id, link, pv, nelm, subs, gets, due, queue, faults,
                     is_connected, event_id>>
      /\ UNCHANGED <<cur, cycle, timeouts_done, todo, status, sig_int, sig_term,
                     online, first_exit>>
      /\ pc = "system" /\ pc' = After(n) /\ command' = NoCommand
      /\ FinishCommand
  BY DEF SystemReturns, FinishCommand, caVars, serverVars, clientVars, mainVars, signalVars,
         historyVars
<1>2. command \in Commands
  BY <1>1, IInvParts DEF CommandInv, FilterTypeOK
<1>3. FilterTypeOK'
  BY <1>1, <1>2, IInvParts, FinishTypes
<1>4. CATypeOK' /\ ClientTypeOK'
  BY <1>1, IInvParts DEF CATypeOK, ClientTypeOK
<1>5. MainTypeOK'
  BY <1>1, IInvParts, AfterIs DEF MainTypeOK
<1>6. ChannelInv'
  BY <1>1, IInvParts, AfterIs DEF ChannelInv, ValidCallbacks, Unused
<1>7. CommandInv'
  BY <1>1, AfterIs DEF CommandInv
<1> QED
  BY <1>3, <1>4, <1>5, <1>6, <1>7 DEF Types

(* The steps that make no call of the library and process no update.       *)
QuietStep == \/ ContextCreate \/ ContextCreateFails \/ Continue \/ ShutDown
             \/ EndDrain \/ Timeouts \/ Exit

LEMMA QuietStepTypes ==
  ASSUME IInv, QuietStep
  PROVE  Types' /\ ChannelInv' /\ CommandInv'
<1>1. /\ UNCHANGED <<channel_id, link, pv, nelm, subs, gets, due, queue,
                     is_connected, event_id>>
      /\ UNCHANGED <<last_update_matched, command, quit_invoked, exit_code>>
      /\ UNCHANGED <<cur, sig_int, sig_term, online, first_exit>>
      /\ faults' = faults \/ (faults < MaxFaults /\ faults' = faults + 1)
      /\ pc \notin {"system"} /\ pc' \in {"create", "exit", "drain", "clear", "timeouts", "test"}
      /\ pc \in {"clear", "exit"} => pc' \in {"clear", "exit"}
  BY DEF QuietStep, ContextCreate, ContextCreateFails, Continue, ShutDown, EndDrain, Timeouts,
         Exit, Fault, caVars, serverVars, clientVars, filterVars, mainVars, signalVars,
         historyVars
<1>2. faults' \in 0..MaxFaults
  BY <1>1, IInvParts, CABoundAssumption DEF CATypeOK
<1>3. CATypeOK' /\ FilterTypeOK' /\ ClientTypeOK'
  BY <1>1, <1>2, IInvParts DEF CATypeOK, FilterTypeOK, ClientTypeOK
<1>4. /\ cycle' \in 0..TimeoutCycles
      /\ timeouts_done' \in BOOLEAN
      /\ todo' \subseteq Clients
      /\ status' \in Int \cup {NoStatus}
  <2>1. cycle \in 0..TimeoutCycles /\ SmallerOf(cycle + 1, TimeoutCycles) \in 0..TimeoutCycles
    BY IInvParts, BurstAssumption DEF MainTypeOK, SmallerOf
  <2>2. /\ cycle' \in {cycle, SmallerOf(cycle + 1, TimeoutCycles)}
        /\ timeouts_done' \in {timeouts_done, timeouts_done \/ TimeoutsDue}
        /\ todo' \in {todo, Clients}
        /\ status' \in {status, 1, exit_code}
    BY DEF QuietStep, ContextCreate, ContextCreateFails, Continue, ShutDown, EndDrain,
           Timeouts, Exit, mainVars
  <2>3. (timeouts_done \/ TimeoutsDue) \in BOOLEAN
    BY Zenon DEF TimeoutsDue
  <2>4. exit_code \in Int /\ status \in Int \cup {NoStatus}
    BY IInvParts DEF FilterTypeOK, MainTypeOK
  <2>5. timeouts_done \in BOOLEAN /\ todo \subseteq Clients
    BY IInvParts DEF MainTypeOK
  <2>6. timeouts_done' \in BOOLEAN
    BY <2>2, <2>3, <2>5
  <2>7. status' \in Int \cup {NoStatus}
    BY <2>2, <2>4
  <2> QED
    BY <2>1, <2>2, <2>5, <2>6, <2>7
<1>5. MainTypeOK'
  BY <1>1, <1>4, IInvParts DEF MainTypeOK
<1>6. ChannelInv'
  BY <1>1, IInvParts DEF ChannelInv, ValidCallbacks, Unused
<1>7. CommandInv'
  BY <1>1, IInvParts DEF CommandInv
<1> QED
  BY <1>3, <1>5, <1>6, <1>7 DEF Types

LEMMA SignalStep ==
  ASSUME IInv, SigInt \/ SigTerm
  PROVE  Types' /\ ChannelInv' /\ CommandInv'
<1>1. /\ UNCHANGED <<channel_id, link, pv, nelm, subs, gets, due, queue, faults,
                     is_connected, event_id, last_update_matched, command, quit_invoked>>
      /\ UNCHANGED <<pc, cur, cycle, timeouts_done, todo, status, online>>
      /\ sig_int' \in {sig_int, TRUE} /\ sig_term' \in {sig_term, TRUE}
      /\ exit_code' \in {SigIntCode, SigTermCode}
      /\ first_exit' \in {first_exit, SigIntCode, SigTermCode}
  BY DEF SigInt, SigTerm, Signalled, caVars, serverVars, clientVars, mainVars
<1>2. SigIntCode \in Int /\ SigTermCode \in Int
  BY DEF SigIntCode, SigTermCode
<1>3. CATypeOK' /\ FilterTypeOK' /\ ClientTypeOK'
  BY <1>1, <1>2, IInvParts DEF CATypeOK, FilterTypeOK, ClientTypeOK
<1>4. MainTypeOK'
  BY <1>1, <1>2, IInvParts DEF MainTypeOK
<1>5. ChannelInv'
  BY <1>1, IInvParts DEF ChannelInv, ValidCallbacks, Unused
<1>6. CommandInv'
  BY <1>1, IInvParts DEF CommandInv
<1> QED
  BY <1>3, <1>4, <1>5, <1>6 DEF Types

LEMMA LibraryTypes ==
  ASSUME IInv, NEW c \in Clients, LibraryStep(c)
  PROVE  Types' /\ ChannelInv' /\ CommandInv'
<1>1. /\ UNCHANGED <<is_connected, event_id, last_update_matched, command, quit_invoked,
                     exit_code>>
      /\ UNCHANGED <<pc, cur, cycle, timeouts_done, todo, status, sig_int, sig_term, online,
                     first_exit>>
  BY DEF LibraryStep, clientVars, filterVars, mainVars, signalVars, historyVars
<1>2. CATypeOK' /\ ChannelInv'
  BY LibraryKeepsIInv
<1>3. FilterTypeOK' /\ ClientTypeOK'
  BY <1>1, IInvParts DEF FilterTypeOK, ClientTypeOK
<1>4. MainTypeOK'
  BY <1>1, IInvParts DEF MainTypeOK
<1>5. CommandInv'
  BY <1>1, IInvParts DEF CommandInv
<1> QED
  BY <1>2, <1>3, <1>4, <1>5 DEF Types

LEMMA StutterTypes ==
  ASSUME IInv, UNCHANGED vars
  PROVE  Types' /\ ChannelInv' /\ CommandInv'
<1>1. UNCHANGED <<channel_id, link, pv, nelm, subs, gets, due, queue, faults,
                  is_connected, event_id, last_update_matched, command, quit_invoked,
                  exit_code, pc, cur, cycle, timeouts_done, todo, status, sig_int, sig_term,
                  online, first_exit>>
  BY DEF vars, caVars, clientVars, filterVars, mainVars, signalVars, historyVars
<1>2. CATypeOK' /\ FilterTypeOK' /\ ClientTypeOK'
  BY <1>1, IInvParts DEF CATypeOK, FilterTypeOK, ClientTypeOK
<1>3. MainTypeOK'
  BY <1>1, IInvParts DEF MainTypeOK
<1>4. ChannelInv'
  BY <1>1, IInvParts DEF ChannelInv, ValidCallbacks, Unused
<1>5. CommandInv'
  BY <1>1, IInvParts DEF CommandInv
<1> QED
  BY <1>2, <1>3, <1>4, <1>5 DEF Types

(* One step, by its action.                                                *)
LEMMA StepKinds ==
  ASSUME [Next]_vars
  PROVE  \/ \E c \in Clients : HandleUp(c) \/ HandleDown(c) \/ LibraryStep(c)
         \/ HandleEvent \/ Get \/ Subscribe \/ SystemReturns
         \/ Create_All_Channels \/ Clear_All_Channels
         \/ QuietStep \/ SigInt \/ SigTerm \/ UNCHANGED vars
BY DEF Next, ApplicationStep, QuietStep

LEMMA IInvInit == Init => IInv
<1> SUFFICES ASSUME Init PROVE IInv
  OBVIOUS
<1>1. CATypeOK
  BY CABoundAssumption, EmptySeq DEF Init, CAInit, CATypeOK
<1>2. FilterTypeOK
  <2>1. [c \in Clients |-> FALSE] \in [Clients -> BOOLEAN] /\ 0 \in Int
    OBVIOUS
  <2> QED
    BY <2>1 DEF Init, FilterInit, FilterTypeOK
<1>3. TypeOK
  <2>1. ClientTypeOK
    BY DEF Init, ClientInit, ClientTypeOK
  <2>2. MainTypeOK
    <3>1. [c \in Clients |-> FALSE] \in [Clients -> BOOLEAN] /\ 0 \in 0..TimeoutCycles
      BY BurstAssumption
    <3> QED
      BY <3>1 DEF Init, MainTypeOK
  <2> QED
    BY <1>1, <1>2, <2>1, <2>2, BurstInit, TypesAre DEF Types
<1>4. ChannelInv
  BY EmptySeq DEF Init, CAInit, ClientInit, ChannelInv, Unused
<1>5. CommandInv
  BY DEF Init, FilterInit, CommandInv
<1>6. EventIdIsLive
  BY DEF Init, ClientInit, EventIdIsLive
<1> QED
  BY <1>3, <1>4, <1>5, <1>6, BurstInit DEF IInv

LEMMA IInvStep ==
  ASSUME IInv, [Next]_vars
  PROVE  IInv'
<1>1. Types' /\ ChannelInv' /\ CommandInv'
  BY StepKinds, HandleUpStep, HandleDownStep, HandleEventStep, GetStep, SubscribeStep,
     SystemReturnsStep, CreateChannelsStep, ClearChannelsStep, QuietStepTypes, SignalStep,
     LibraryTypes, StutterTypes
<1>2. BurstInv'
  BY IInvParts, BurstStep
<1>3. SubscriptionInv
  BY IInvParts DEF SubscriptionInv, CATypeOK, ClientTypeOK
<1>4. EventIdIsLive'
  BY <1>3, SubscriptionStep DEF SubscriptionInv
<1>5. TypeOK'
  <2>1. n' \in 0..Maximum /\ late' \in Nat
    BY <1>2, BurstAssumption DEF BurstInv
  <2> QED
    BY <1>1, <2>1 DEF TypeOK, Types, MainTypeOK
<1> QED
  BY <1>1, <1>2, <1>4, <1>5 DEF IInv

(* The inductive invariant of the composed program.                        *)
THEOREM AlwaysInvariant == Spec => []IInv
BY IInvInit, IInvStep, PTL DEF Spec

(* Every variable keeps its type, the queue holds callbacks of clients and *)
(* the number of faults its bound: nothing kryten does takes a count below *)
(* zero, or looks for a client that is not there.                          *)
THEOREM TypesAreKept == Spec => []TypeOK
<1>1. IInv => TypeOK
  BY DEF IInv
<1> QED
  BY <1>1, AlwaysInvariant, PTL

(* A callback is handled only of a channel kryten has created and not yet  *)
(* cleared, however many clients there are, however long the queue is and  *)
(* whatever has been lost.                                                 *)
THEOREM CallbacksAreOfChannels == Spec => []CallbacksAreValid
<1>1. IInv => CallbacksAreValid
  <2> SUFFICES ASSUME IInv, pc = "drain", NEW k \in DOMAIN queue
               PROVE  channel_id[queue[k].client]
    BY DEF CallbacksAreValid
  <2>1. queue \in Seq(ValidCallbacks)
    BY IInvParts DEF ChannelInv
  <2>2. k \in 1..Len(queue)
    BY <2>1, LenProperties
  <2>3. queue[k] \in ValidCallbacks
    BY <2>1, <2>2, ElementOfSeq
  <2> QED
    BY <2>3 DEF ValidCallbacks
<1> QED
  BY <1>1, AlwaysInvariant, PTL

-----------------------------------------------------------------------------
(* What a step may do to the exit code and to what it is explained by.     *)
Explained(code) == \/ sig_int /\ code = SigIntCode
                   \/ sig_term /\ code = SigTermCode
                   \/ quit_invoked /\ code \in {QuitCode[c] : c \in Quits}

ExitInv == /\ Shut_Down_Is_Required => Explained(exit_code)
           /\ pc = "clear" => Shut_Down_Is_Required
           /\ ExitCodeExplained

CodeKept == UNCHANGED <<sig_int, sig_term, quit_invoked, exit_code>>

LEMMA CallCode ==
  ASSUME FilterTypeOK, NEW c \in Clients, NEW state, call_command(c, state)
  PROVE  \/ UNCHANGED <<quit_invoked, exit_code>>
         \/ quit_invoked' /\ exit_code' \in {QuitCode[q] : q \in Quits}
<1>1. CASE c \in Quits /\ state = "match"
  BY <1>1 DEF call_command
<1>2. CASE c \in Quits /\ state # "match"
  BY <1>2, Zenon DEF call_command, FilterTypeOK
<1>3. CASE c \notin Quits
  BY <1>3 DEF call_command
<1> QED
  BY <1>1, <1>2, <1>3

LEMMA CodeStep ==
  ASSUME IInv, [Next]_vars
  PROVE  CodeKept \/ (Explained(exit_code)' /\ (quit_invoked => quit_invoked'))
<1>1. ASSUME NEW c \in Clients, HandleUp(c) \/ LibraryStep(c) PROVE CodeKept
  BY <1>1 DEF HandleUp, Take, ConnectionUp, LibraryStep, filterVars, signalVars, CodeKept
<1>2. ASSUME NEW c \in Clients, HandleDown(c)
      PROVE  CodeKept \/ (Explained(exit_code)' /\ quit_invoked')
  <2>1. call_command(c, "disconnect") /\ UNCHANGED <<sig_int, sig_term>>
    BY <1>2 DEF HandleDown, Take, ConnectionDown, Process_PV_Disconnect, signalVars
  <2> QED
    BY <2>1, CallCode, IInvParts DEF CodeKept, Explained
<1>3. ASSUME HandleEvent
      PROVE  CodeKept \/ (Explained(exit_code)' /\ quit_invoked')
  <2>1. /\ Process_PV_Update(Head(queue).client, Head(queue).value) \/ UNCHANGED filterVars
        /\ UNCHANGED <<sig_int, sig_term>>
        /\ queue # <<>>
    BY <1>3 DEF HandleEvent, Take, EventHandled, signalVars
  <2>2. Head(queue).client \in Clients
    BY <2>1, HeadIsValid DEF Callbacks
  <2>3. \/ UNCHANGED filterVars
        \/ \E state \in {"match", "reject"} : call_command(Head(queue).client, state)
    BY <2>1 DEF Process_PV_Update
  <2> QED
    BY <2>1, <2>2, <2>3, CallCode, IInvParts DEF CodeKept, Explained, filterVars
<1>4. ASSUME Get \/ Subscribe \/ SystemReturns \/ Create_All_Channels \/ Clear_All_Channels
      PROVE  CodeKept
  BY <1>4 DEF Get, Subscribe, SystemReturns, Create_All_Channels, Clear_All_Channels,
              GetAccepted, GetRefused, SubscribeAccepted, SubscribeRefused, FinishCommand,
              Create_Channel, Clear_Channel, filterVars, signalVars, CodeKept
<1>5. ASSUME QuietStep \/ UNCHANGED vars PROVE CodeKept
  BY <1>5 DEF QuietStep, ContextCreate, ContextCreateFails, Continue, ShutDown, EndDrain,
              Timeouts, Exit, vars, filterVars, signalVars, CodeKept
<1>6. ASSUME SigInt \/ SigTerm
      PROVE  Explained(exit_code)' /\ UNCHANGED quit_invoked
  BY <1>6 DEF SigInt, SigTerm, Signalled, Explained
<1> QED
  BY <1>1, <1>2, <1>3, <1>4, <1>5, <1>6, StepKinds

(* The requests to stop are never withdrawn, and faults only add up.       *)
LEMMA RequestsStay ==
  ASSUME IInv, [Next]_vars
  PROVE  /\ sig_int => sig_int'
         /\ sig_term => sig_term'
         /\ quit_invoked => quit_invoked'
         /\ faults > 0 => faults' > 0
<1>1. faults \in Nat
  BY IInvParts, CABoundAssumption DEF CATypeOK
<1>2. faults' = faults \/ faults' = faults + 1
  <2>1. ASSUME NEW c \in Clients, HandleUp(c) \/ HandleDown(c)
        PROVE  faults' = faults
    BY <2>1 DEF HandleUp, HandleDown, ConnectionUp, ConnectionDown
  <2>2. ASSUME NEW c \in Clients, LibraryStep(c)
        PROVE  faults' = faults \/ faults' = faults + 1
    BY <2>2, Zenon DEF LibraryStep, Library, Connect, CircuitLost, PVChange, DeliverGet,
                       DeliverEvent, Buffer, Fault
  <2>3. ASSUME Get \/ Subscribe
        PROVE  faults' = faults \/ faults' = faults + 1
    BY <2>3 DEF Get, Subscribe, GetAccepted, GetRefused, SubscribeAccepted, SubscribeRefused,
                ArrayGet, CreateSubscription, Fault
  <2>4. ASSUME Create_All_Channels \/ Clear_All_Channels
        PROVE  faults' = faults \/ faults' = faults + 1
    BY <2>4 DEF Create_All_Channels, Clear_All_Channels, Create_Channel, CreateChannel,
                Clear_Channel, Fault
  <2>5. ASSUME HandleEvent \/ SystemReturns \/ QuietStep \/ SigInt \/ SigTerm \/ UNCHANGED vars
        PROVE  faults' = faults \/ faults' = faults + 1
    BY <2>5 DEF HandleEvent, EventHandled, SystemReturns, QuietStep, ContextCreate,
                ContextCreateFails, Continue, ShutDown, EndDrain, Timeouts, Exit, Fault,
                SigInt, SigTerm, Signalled, vars, caVars
  <2> QED
    BY <2>1, <2>2, <2>3, <2>4, <2>5, StepKinds
<1>3. (sig_int => sig_int') /\ (sig_term => sig_term')
  <2>1. SigInt \/ SigTerm \/ UNCHANGED <<sig_int, sig_term>>
    BY StepKinds
    DEF HandleUp, HandleDown, HandleEvent, Take, LibraryStep, Get, Subscribe, SystemReturns,
        Create_All_Channels, Clear_All_Channels, QuietStep, ContextCreate,
        ContextCreateFails, Continue, ShutDown, EndDrain, Timeouts, Exit, vars, signalVars
  <2> QED
    BY <2>1 DEF SigInt, SigTerm
<1>4. quit_invoked => quit_invoked'
  BY CodeStep DEF CodeKept
<1>5. faults > 0 => faults' > 0
  BY <1>1, <1>2
<1> QED
  BY <1>3, <1>4, <1>5

(* Where a step may take the application thread, and with what.            *)
LEMMA MovesAre ==
  ASSUME [Next]_vars
  PROVE  /\ pc' = "start" => pc = "start"
         /\ pc' = "create" => pc \in {"start", "create"}
         /\ pc' = "clear" => \/ pc = "clear" /\ UNCHANGED todo
                             \/ Clear_All_Channels
                             \/ pc = "test" /\ todo' = Clients /\ Shut_Down_Is_Required
         /\ pc' = "exit" => \/ pc = "exit"
                            \/ ContextCreateFails
                            \/ Exit
         /\ pc = "exit" => UNCHANGED <<pc, channel_id, event_id, subs, gets, online>>
         /\ status' = status \/ ContextCreateFails \/ Exit
<1> DEFINE G == /\ pc' = "start" => pc = "start"
                /\ pc' = "create" => pc \in {"start", "create"}
                /\ pc' = "clear" => \/ pc = "clear" /\ UNCHANGED todo
                                    \/ Clear_All_Channels
                                    \/ pc = "test" /\ todo' = Clients /\ Shut_Down_Is_Required
                /\ pc' = "exit" => \/ pc = "exit"
                                   \/ ContextCreateFails
                                   \/ Exit
                /\ pc = "exit" => UNCHANGED <<pc, channel_id, event_id, subs, gets, online>>
                /\ status' = status \/ ContextCreateFails \/ Exit
<1>1. ASSUME NEW c \in Clients, HandleUp(c) \/ HandleDown(c) PROVE G
  <2>1. pc = "drain" /\ pc' \in {"get", "system", "drain", "timeouts"} /\ UNCHANGED status
    BY <1>1, AfterIs DEF HandleUp, HandleDown, Take
  <2> QED
    BY <2>1
<1>2. ASSUME NEW c \in Clients, LibraryStep(c) PROVE G
  <2>1. pc # "exit" /\ UNCHANGED <<pc, todo, status>>
    BY <1>2 DEF LibraryStep, mainVars
  <2> QED
    BY <2>1
<1>3. ASSUME HandleEvent PROVE G
  <2>1. pc = "drain" /\ pc' \in {"system", "drain", "timeouts"} /\ UNCHANGED status
    BY <1>3, AfterIs DEF HandleEvent, Take
  <2> QED
    BY <2>1
<1>4. ASSUME Get \/ Subscribe \/ SystemReturns PROVE G
  <2>1. /\ pc \in {"get", "subscribe", "system"}
        /\ pc' \in {"subscribe", "drain", "timeouts"} /\ UNCHANGED status
    BY <1>4, AfterIs DEF Get, Subscribe, SystemReturns, mainVars
  <2> QED
    BY <2>1
<1>5. ASSUME Create_All_Channels \/ Clear_All_Channels PROVE G
  <2>1. \/ pc = "create" /\ pc' \in {"create", "test"} /\ UNCHANGED status
        \/ Clear_All_Channels /\ pc = "clear" /\ UNCHANGED <<pc, status>>
    BY <1>5 DEF Create_All_Channels, Clear_All_Channels
  <2> QED
    BY <2>1
<1>6. ASSUME QuietStep PROVE G
  BY <1>6 DEF QuietStep, ContextCreate, ContextCreateFails, Continue, ShutDown, EndDrain,
              Timeouts, Exit, mainVars
<1>7. ASSUME SigInt \/ SigTerm PROVE G
  <2>1. pc # "exit" /\ UNCHANGED <<pc, todo, status>>
    BY <1>7 DEF SigInt, SigTerm, Signalled, mainVars
  <2> QED
    BY <2>1
<1>8. ASSUME UNCHANGED vars PROVE G
  BY <1>8 DEF vars, mainVars, caVars, clientVars, historyVars
<1> QED
  BY <1>1, <1>2, <1>3, <1>4, <1>5, <1>6, <1>7, <1>8, StepKinds

-----------------------------------------------------------------------------
(* The exit code.                                                          *)
LEMMA ExitInit == Init => ExitInv
BY DEF Init, FilterInit, ExitInv, Shut_Down_Is_Required, ExitCodeExplained

LEMMA ExitStep ==
  ASSUME IInv, ExitInv, [Next]_vars
  PROVE  ExitInv'
<1>1. Shut_Down_Is_Required' => Explained(exit_code)'
  BY CodeStep DEF ExitInv, CodeKept, Explained, Shut_Down_Is_Required
<1>2. Shut_Down_Is_Required => Shut_Down_Is_Required'
  BY RequestsStay DEF Shut_Down_Is_Required
<1>3. pc' = "clear" => Shut_Down_Is_Required'
  BY <1>2, MovesAre DEF ExitInv, Clear_All_Channels
<1>4. ExitCodeExplained'
  <2>1. CASE status' = status
    BY <2>1, RequestsStay DEF ExitInv, ExitCodeExplained
  <2>2. CASE ContextCreateFails
    <3>1. status' = 1 /\ faults' = faults + 1
      BY <2>2 DEF ContextCreateFails, Fault
    <3>2. faults' > 0
      BY <3>1, IInvParts, CABoundAssumption DEF CATypeOK
    <3> QED
      BY <3>1, <3>2 DEF ExitCodeExplained
  <2>3. CASE Exit
    <3>1. status' = exit_code /\ pc = "clear"
          /\ UNCHANGED <<sig_int, sig_term, quit_invoked, exit_code>>
      BY <2>3 DEF Exit, filterVars, signalVars
    <3>2. Explained(exit_code)
      BY <3>1 DEF ExitInv
    <3> QED
      BY <3>1, <3>2 DEF Explained, ExitCodeExplained
  <2> QED
    BY <2>1, <2>2, <2>3, MovesAre
<1> QED
  BY <1>1, <1>3, <1>4 DEF ExitInv

(* The exit code is that of a signal that was caught or of a quit command  *)
(* that was run, or 1 when the library could not be started.               *)
THEOREM ExitIsExplained == Spec => []ExitCodeExplained
<1> DEFINE J == IInv /\ ExitInv
<1>1. Init => J
  BY IInvInit, ExitInit
<1>2. J /\ [Next]_vars => J'
  BY IInvStep, ExitStep
<1>3. J => ExitCodeExplained
  BY DEF ExitInv
<1> QED
  BY <1>1, <1>2, <1>3, PTL DEF Spec

-----------------------------------------------------------------------------
(* What main leaves behind.                                                *)
CleanInv == /\ pc = "start" => \A c \in Clients : ~channel_id[c]
            /\ pc = "clear" => \A c \in Clients \ todo : ~channel_id[c]
            /\ pc = "exit" => \A c \in Clients : ~channel_id[c]
            /\ status # NoStatus => pc = "exit"

(* A channel appears only while they are created.                          *)
LEMMA ChannelsStay ==
  ASSUME IInv, [Next]_vars
  PROVE  channel_id' = channel_id \/ Create_All_Channels \/ Clear_All_Channels
<1>1. ASSUME NEW c \in Clients, HandleUp(c) \/ HandleDown(c) \/ LibraryStep(c)
      PROVE  channel_id' = channel_id
  BY <1>1 DEF HandleUp, HandleDown, ConnectionUp, ConnectionDown, LibraryStep, Library,
              Connect, CircuitLost, PVChange, DeliverGet, DeliverEvent
<1>2. ASSUME HandleEvent \/ Get \/ Subscribe \/ SystemReturns \/ QuietStep
             \/ SigInt \/ SigTerm \/ UNCHANGED vars
      PROVE  channel_id' = channel_id
  BY <1>2 DEF HandleEvent, EventHandled, Get, Subscribe, GetAccepted, GetRefused,
              SubscribeAccepted, SubscribeRefused, ArrayGet, CreateSubscription,
              SystemReturns, QuietStep, ContextCreate, ContextCreateFails, Continue, ShutDown,
              EndDrain, Timeouts, Exit, SigInt, SigTerm, Signalled, vars, caVars
<1> QED
  BY <1>1, <1>2, StepKinds

LEMMA CleanStep ==
  ASSUME IInv, CleanInv, [Next]_vars
  PROVE  CleanInv'
<1>1. CASE Create_All_Channels
  <2>1. pc = "create" /\ pc' \in {"create", "test"} /\ UNCHANGED status
    BY <1>1 DEF Create_All_Channels
  <2> QED
    BY <2>1 DEF CleanInv
<1>2. CASE Clear_All_Channels
  <2>1. pc = "clear" /\ UNCHANGED <<pc, status>>
    BY <1>2 DEF Clear_All_Channels
  <2>2. PICK c \in todo : todo' = todo \ {c} /\ ~channel_id'[c]
    BY <1>2, ClearChannelsStep
  <2>3. \A d \in Clients : ~channel_id[d] => ~channel_id'[d]
    BY <1>2, ClearChannelsStep
  <2>4. \A d \in Clients \ todo' : ~channel_id'[d]
    BY <2>1, <2>2, <2>3 DEF CleanInv
  <2> QED
    BY <2>1, <2>4 DEF CleanInv
<1>3. CASE channel_id' = channel_id /\ ~Create_All_Channels /\ ~Clear_All_Channels
  <2>1. pc' = "start" => \A c \in Clients : ~channel_id'[c]
    BY <1>3, MovesAre DEF CleanInv
  <2>2. pc' = "clear" => \A c \in Clients \ todo' : ~channel_id'[c]
    BY <1>3, MovesAre DEF CleanInv
  <2>3. pc' = "exit" => \A c \in Clients : ~channel_id'[c]
    <3>1. CASE pc = "exit"
      BY <1>3, <3>1 DEF CleanInv
    <3>2. CASE ContextCreateFails
      BY <1>3, <3>2 DEF CleanInv, ContextCreateFails
    <3>3. CASE Exit
      BY <1>3, <3>3 DEF CleanInv, Exit
    <3> QED
      BY <3>1, <3>2, <3>3, MovesAre
  <2>4. status' # NoStatus => pc' = "exit"
    <3>1. CASE ContextCreateFails \/ Exit
      BY <3>1 DEF ContextCreateFails, Exit
    <3>2. CASE status' = status
      BY <3>2, MovesAre DEF CleanInv
    <3> QED
      BY <3>1, <3>2, MovesAre
  <2> QED
    BY <2>1, <2>2, <2>3, <2>4 DEF CleanInv
<1> QED
  BY <1>1, <1>2, <1>3, ChannelsStay

(* When main returns no channel, no subscription and no get is left, also  *)
(* after faults and for a client whose channel could not be created.       *)
THEOREM ExitIsClean == Spec => []CleanExit
<1> DEFINE J == IInv /\ CleanInv
<1>1. Init => J
  BY IInvInit DEF Init, CAInit, CleanInv
<1>2. J /\ [Next]_vars => J'
  BY IInvStep, CleanStep
<1>3. J => CleanExit
  <2> SUFFICES ASSUME J, status # NoStatus, NEW c \in Clients
               PROVE  ~channel_id[c] /\ ~event_id[c] /\ subs[c] = 0 /\ gets[c] = 0
    BY DEF CleanExit
  <2>1. ~channel_id[c]
    BY DEF CleanInv
  <2>2. Unused(c)
    BY <2>1, IInvParts DEF ChannelInv
  <2> QED
    BY <2>1, <2>2 DEF Unused
<1> QED
  BY <1>1, <1>2, <1>3, PTL DEF Spec

-----------------------------------------------------------------------------
(* The report of the channels not found.                                   *)
OnlineInv == /\ pc \in {"start", "create"} => \A c \in Clients : ~online[c]
             /\ pc \notin {"clear", "exit"} =>
                  \A c \in Clients : online[c] => is_connected[c]

(* online and is_connected change when a connection is handled, otherwise  *)
(* only while channels are created or cleared.                             *)
LEMMA OnlineStays ==
  ASSUME IInv, [Next]_vars
  PROVE  \/ UNCHANGED <<online, is_connected>>
         \/ \E c \in Clients : HandleUp(c) \/ HandleDown(c)
         \/ Create_All_Channels
         \/ Clear_All_Channels
<1>1. ASSUME NEW c \in Clients, LibraryStep(c)
      PROVE  UNCHANGED <<online, is_connected>>
  BY <1>1 DEF LibraryStep, clientVars, historyVars
<1>2. ASSUME HandleEvent \/ Get \/ Subscribe \/ SystemReturns \/ QuietStep
             \/ SigInt \/ SigTerm \/ UNCHANGED vars
      PROVE  UNCHANGED <<online, is_connected>>
  BY <1>2 DEF HandleEvent, EventHandled, Get, Subscribe, GetAccepted, GetRefused,
              SubscribeAccepted, SubscribeRefused, SystemReturns, QuietStep, ContextCreate,
              ContextCreateFails, Continue, ShutDown, EndDrain, Timeouts, Exit, SigInt,
              SigTerm, Signalled, vars, clientVars, historyVars
<1> QED
  BY <1>1, <1>2, StepKinds

LEMMA OnlineStep ==
  ASSUME IInv, OnlineInv, [Next]_vars
  PROVE  OnlineInv'
<1>0. online \in [Clients -> BOOLEAN] /\ is_connected \in [Clients -> BOOLEAN]
  BY IInvParts DEF MainTypeOK, ClientTypeOK
<1>1. ASSUME NEW c \in Clients, HandleUp(c) PROVE OnlineInv'
  <2>1. /\ online' = [online EXCEPT ![c] = TRUE]
        /\ is_connected' = [is_connected EXCEPT ![c] = TRUE]
        /\ pc = "drain" /\ pc' \in {"get", "drain", "timeouts"}
    BY <1>1, AfterIs DEF HandleUp, Take, ConnectionUp
  <2> QED
    BY <1>0, <2>1 DEF OnlineInv
<1>2. ASSUME NEW c \in Clients, HandleDown(c) PROVE OnlineInv'
  <2>1. /\ online' = [online EXCEPT ![c] = FALSE]
        /\ is_connected' = is_connected
        /\ pc = "drain" /\ pc' \in {"system", "drain", "timeouts"}
    BY <1>2, AfterIs DEF HandleDown, Take, ConnectionDown
  <2> QED
    BY <1>0, <2>1 DEF OnlineInv
<1>3. ASSUME Create_All_Channels PROVE OnlineInv'
  <2>1. UNCHANGED online /\ pc = "create"
    BY <1>3 DEF Create_All_Channels, historyVars
  <2> QED
    BY <2>1 DEF OnlineInv
<1>4. ASSUME Clear_All_Channels PROVE OnlineInv'
  <2>1. pc' = "clear"
    BY <1>4 DEF Clear_All_Channels
  <2> QED
    BY <2>1 DEF OnlineInv
<1>5. ASSUME UNCHANGED <<online, is_connected>>, ~Clear_All_Channels PROVE OnlineInv'
  <2>1. pc' \in {"start", "create"} => pc \in {"start", "create"}
    BY MovesAre
  <2>2. pc' \notin {"clear", "exit"} => pc \notin {"clear", "exit"}
    BY <1>5, StepKinds
    DEF HandleUp, HandleDown, HandleEvent, Take, LibraryStep, Get, Subscribe, SystemReturns,
        Create_All_Channels, QuietStep, ContextCreate, ContextCreateFails, Continue, ShutDown,
        EndDrain, Timeouts, Exit, SigInt, SigTerm, Signalled, vars
  <2> QED
    BY <1>5, <2>1, <2>2 DEF OnlineInv
<1> QED
  BY <1>1, <1>2, <1>3, <1>4, <1>5, OnlineStays

(* A channel whose last connection callback said it was up is never among  *)
(* those reported as timed out.                                            *)
THEOREM ReportedAreOffline == Spec => []TimedOutAreOffline
<1> DEFINE J == IInv /\ OnlineInv
<1>1. Init => J
  BY IInvInit DEF Init, OnlineInv
<1>2. J /\ [Next]_vars => J'
  BY IInvStep, OnlineStep
<1>3. J => TimedOutAreOffline
  BY DEF OnlineInv, TimedOutAreOffline, TimeoutsDue, TimedOut
<1> QED
  BY <1>1, <1>2, <1>3, PTL DEF Spec

-----------------------------------------------------------------------------
(* The quit command.                                                       *)
QuitStep == quit_invoked' # quit_invoked =>
              \E c \in Quits : ~last_update_matched[c] /\ last_update_matched'[c]

LEMMA QuitStepHolds ==
  ASSUME IInv, [Next]_vars
  PROVE  QuitStep
<1>1. CASE HandleEvent
  <2> DEFINE c == Head(queue).client
             v == Head(queue).value
  <2>1. Process_PV_Update(c, v) \/ UNCHANGED filterVars
    BY <1>1 DEF HandleEvent, EventHandled
  <2>2. c \in Clients
    <3>1. queue # <<>>
      BY <1>1 DEF HandleEvent, Take
    <3> QED
      BY <3>1, HeadIsValid DEF Callbacks
  <2> HIDE DEF c, v
  <2>3. CASE UNCHANGED filterVars
    BY <2>3 DEF filterVars, QuitStep
  <2>4. CASE ~UNCHANGED filterVars
    <3>1. /\ last_update_matched[c] # Matches(c, v)
          /\ call_command(c, IF Matches(c, v) THEN "match" ELSE "reject")
          /\ last_update_matched' =
               IF c \in Quits THEN [last_update_matched EXCEPT ![c] = Matches(c, v)]
                              ELSE last_update_matched
      BY <2>1, <2>4 DEF Process_PV_Update, Changed
    <3>2. CASE c \in Quits /\ Matches(c, v)
      BY <2>2, <3>1, <3>2, IInvParts DEF FilterTypeOK, QuitStep
    <3>3. CASE c \notin Quits \/ ~Matches(c, v)
      <4>1. quit_invoked' = quit_invoked
        BY <3>1, <3>3, IInvParts, Zenon DEF call_command, FilterTypeOK
      <4> QED
        BY <4>1 DEF QuitStep
    <3> QED
      BY <3>2, <3>3
  <2> QED
    BY <2>3, <2>4
<1>2. ASSUME NEW c \in Clients, HandleDown(c) PROVE QuitStep
  <2>1. call_command(c, "disconnect")
    BY <1>2 DEF HandleDown, ConnectionDown, Process_PV_Disconnect
  <2>2. quit_invoked \in BOOLEAN
    BY IInvParts DEF FilterTypeOK
  <2>3. quit_invoked' = quit_invoked
    <3>1. CASE c \in Quits
      <4>1. quit_invoked' = (quit_invoked \/ "disconnect" = "match")
        BY <2>1, <3>1 DEF call_command
      <4> QED
        BY <2>2, <4>1
    <3>2. CASE c \notin Quits
      BY <2>1, <3>2 DEF call_command
    <3> QED
      BY <3>1, <3>2
  <2> QED
    BY <2>3 DEF QuitStep
<1>3. CASE \/ Get \/ Subscribe \/ SystemReturns \/ Create_All_Channels
           \/ Clear_All_Channels \/ QuietStep \/ SigInt \/ SigTerm \/ UNCHANGED vars
           \/ \E c \in Clients : HandleUp(c) \/ LibraryStep(c)
  <2>1. quit_invoked' = quit_invoked
    BY <1>3
    DEF HandleUp, ConnectionUp, LibraryStep, Get, Subscribe, GetAccepted, GetRefused,
        SubscribeAccepted, SubscribeRefused, SystemReturns, FinishCommand,
        Create_All_Channels, Create_Channel, Clear_All_Channels, Clear_Channel, QuietStep,
        ContextCreate, ContextCreateFails, Continue, ShutDown, EndDrain, Timeouts, Exit,
        SigInt, SigTerm, Signalled, vars, filterVars
  <2> QED
    BY <2>1 DEF QuitStep
<1> QED
  BY <1>1, <1>2, <1>3, StepKinds

(* quit takes effect only in a step in which its PV begins to match: never *)
(* for a disconnection, a reject or an update that changes nothing.        *)
THEOREM QuitNeedsMatch == Spec => QuitOnlyOnMatch
<1>1. IInv /\ [Next]_vars => [QuitStep]_vars
  BY QuitStepHolds
<1> QED
  BY <1>1, AlwaysInvariant, PTL DEF Spec, QuitOnlyOnMatch, QuitStep
=============================================================================
