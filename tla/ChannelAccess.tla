---------------------------- MODULE ChannelAccess ---------------------------
(***************************************************************************)
(* The EPICS Channel Access library and the servers behind it, as far as   *)
(* pv_client.c uses them (external: neither is part of the repository),    *)
(* with the queue that buffered_callbacks.c puts between the library's     *)
(* threads and the application: every callback of the library is stored at *)
(* the end of one queue, or dropped when its element cannot be allocated.  *)
(* That the queue is first in, first out is what BufferedCallbacks shows.  *)
(*                                                                         *)
(* A channel has a circuit to its server, up or down.  While it is up the  *)
(* library answers each get, and tells of each change of the PV once for   *)
(* each subscription.  When the circuit is lost the outstanding gets fail; *)
(* the subscriptions live on and are reinstated when it is up again.       *)
(***************************************************************************)
EXTENDS ClientList, Sequences, FiniteSets, SequencesExt

CONSTANTS Values,         \* the values a PV can have
          ElementCounts,  \* the numbers of elements a server can offer
          MaxQueue,       \* bound: callbacks queued for one channel
          MaxFaults       \* bound: callbacks and requests that fail

ASSUME CountAssumption   == ElementCounts \subseteq Nat
ASSUME CABoundAssumption == MaxQueue \in Nat /\ MaxFaults \in Nat

VARIABLES channel_id,     \* the client has a channel (is not NULL)
          link,           \* the circuit of the channel
          pv,             \* the value at the server
          nelm,           \* the elements the server offers
          subs,           \* the subscriptions the library has
          gets,           \* gets that are not answered
          due,            \* updates the subscriptions have yet to report
          queue,          \* the buffered callbacks
          faults          \* how much has failed

caVars == <<channel_id, link, pv, nelm, subs, gets, due, queue, faults>>
serverVars == <<link, pv, nelm>>

(* The callbacks: connection up or down, the value a get or a subscription *)
(* returns with the number of elements, a get that failed.                 *)
Up(c)            == [client |-> c, op |-> "UP"]
Down(c)          == [client |-> c, op |-> "DOWN"]
Event(c, v, num) == [client |-> c, op |-> "EVENT", value |-> v, count |-> num]
Failed(c)        == [client |-> c, op |-> "FAILED"]

Callbacks ==
  [client : Clients, op : {"UP", "DOWN", "FAILED"}] \cup
  [client : Clients, op : {"EVENT"}, value : Values, count : Nat]

CATypeOK ==
  /\ channel_id \in [Clients -> BOOLEAN]
  /\ link \in [Clients -> {"up", "down"}]
  /\ pv \in [Clients -> Values]
  /\ nelm \in [Clients -> ElementCounts]
  /\ subs \in [Clients -> Nat]
  /\ gets \in [Clients -> Nat]
  /\ due \in [Clients -> Nat]
  /\ queue \in Seq(Callbacks)
  /\ faults \in 0..MaxFaults

CAInit ==
  /\ channel_id = [c \in Clients |-> FALSE]
  /\ link = [c \in Clients |-> "down"]
  /\ pv \in [Clients -> Values]
  /\ nelm \in [Clients -> ElementCounts]
  /\ subs = [c \in Clients |-> 0]
  /\ gets = [c \in Clients |-> 0]
  /\ due = [c \in Clients |-> 0]
  /\ queue = <<>>
  /\ faults = 0

-----------------------------------------------------------------------------
Queued(c) == Cardinality({k \in DOMAIN queue : queue[k].client = c})
Room(c, k) == Queued(c) + k <= MaxQueue

Fault == faults < MaxFaults /\ faults' = faults + 1

(* The library makes these callbacks: each is queued, or one is dropped.   *)
Buffer(callbacks) ==
  \/ queue' = queue \o callbacks /\ UNCHANGED faults
  \/ /\ \E k \in DOMAIN callbacks : queue' = queue \o RemoveAt(callbacks, k)
     /\ Fault

SmallerOf(a, b) == IF a < b THEN a ELSE b

Update(c) == Event(c, pv[c], SmallerOf(nelm[c], element_index[c]))

-----------------------------------------------------------------------------
(* The channel's circuit is established, perhaps to a server that was      *)
(* restarted with another number of elements.                              *)
Connect(c) ==
  /\ channel_id[c]
  /\ link[c] = "down"
  /\ Room(c, 1)
  /\ link' = [link EXCEPT ![c] = "up"]
  /\ \E k \in ElementCounts : nelm' = [nelm EXCEPT ![c] = k]
  /\ due' = [due EXCEPT ![c] = subs[c]]
  /\ Buffer(<<Up(c)>>)
  /\ UNCHANGED <<channel_id, pv, subs, gets>>

CircuitLost(c) ==
  /\ link[c] = "up"
  /\ Room(c, gets[c] + 1)
  /\ link' = [link EXCEPT ![c] = "down"]
  /\ gets' = [gets EXCEPT ![c] = 0]
  /\ due' = [due EXCEPT ![c] = 0]
  /\ Buffer(Append([k \in 1..gets[c] |-> Failed(c)], Down(c)))
  /\ UNCHANGED <<channel_id, pv, nelm, subs>>

PVChange(c) ==
  /\ \E v \in Values \ {pv[c]} : pv' = [pv EXCEPT ![c] = v]
  /\ due' = [due EXCEPT ![c] = IF link[c] = "up" THEN subs[c] ELSE 0]
  /\ UNCHANGED <<channel_id, link, nelm, subs, gets, queue, faults>>

DeliverGet(c) ==
  /\ link[c] = "up"
  /\ gets[c] > 0
  /\ Room(c, 1)
  /\ gets' = [gets EXCEPT ![c] = @ - 1]
  /\ Buffer(<<Update(c)>>)
  /\ UNCHANGED <<channel_id, serverVars, subs, due>>

DeliverEvent(c) ==
  /\ link[c] = "up"
  /\ due[c] > 0
  /\ Room(c, 1)
  /\ due' = [due EXCEPT ![c] = @ - 1]
  /\ Buffer(<<Update(c)>>)
  /\ UNCHANGED <<channel_id, serverVars, subs, gets>>

Library(c) == \/ Connect(c) \/ CircuitLost(c) \/ PVChange(c)
              \/ DeliverGet(c) \/ DeliverEvent(c)

-----------------------------------------------------------------------------
(* The calls the application makes.  ca_create_channel:                    *)
CreateChannel(c) ==
  /\ channel_id' = [channel_id EXCEPT ![c] = TRUE]
  /\ UNCHANGED <<serverVars, subs, gets, due, queue, faults>>

(* ca_element_count: none while the channel is not connected.              *)
ElementCount(c) == IF link[c] = "up" THEN nelm[c] ELSE 0

(* ca_array_get_callback and ca_create_subscription refuse more elements   *)
(* than the channel has, and a get needs the circuit.                      *)
Available(c) == link[c] = "up" /\ element_index[c] <= nelm[c]

ArrayGet(c) ==
  /\ gets' = [gets EXCEPT ![c] = @ + 1]
  /\ UNCHANGED <<channel_id, serverVars, subs, due, queue, faults>>

(* ca_create_subscription: the first update follows at once, or when the   *)
(* circuit is up.                                                          *)
CreateSubscription(c) ==
  /\ subs' = [subs EXCEPT ![c] = @ + 1]
  /\ due' = [due EXCEPT ![c] = IF link[c] = "up" THEN @ + 1 ELSE 0]
  /\ UNCHANGED <<channel_id, serverVars, gets, queue, faults>>

(* ca_clear_subscription; what it has in the queue stays there.            *)
ClearSubscription(c) ==
  /\ subs' = [subs EXCEPT ![c] = @ - 1]
  /\ due' = [due EXCEPT ![c] = SmallerOf(@, subs[c] - 1)]

(* ca_clear_channel: the library forgets the channel with its gets and     *)
(* subscriptions, and makes no more callbacks for it.                      *)
ClearChannel(c) ==
  /\ channel_id' = [channel_id EXCEPT ![c] = FALSE]
  /\ link' = [link EXCEPT ![c] = "down"]
  /\ subs' = [subs EXCEPT ![c] = 0]
  /\ gets' = [gets EXCEPT ![c] = 0]
  /\ due' = [due EXCEPT ![c] = 0]
=============================================================================
