------------------------------ MODULE PVClient ------------------------------
(***************************************************************************)
(* The CA_Client operations of src/krytenApp/pv_client.c: the application  *)
(* thread opens a channel per client, subscribes when the channel connects *)
(* and unsubscribes when it disconnects, and passes each update to the     *)
(* filter.  Each operation is a relation between the client's state before *)
(* and after; Kryten says when they happen.                                *)
(***************************************************************************)
EXTENDS ChannelAccess, Filter

VARIABLES is_connected,   \* the CA_Client field
          event_id        \* the client has a subscription (is not NULL)

clientVars == <<is_connected, event_id>>

ClientTypeOK == /\ is_connected \in [Clients -> BOOLEAN]
                /\ event_id \in [Clients -> BOOLEAN]

(* Allocate_Client                                                         *)
ClientInit == /\ is_connected = [c \in Clients |-> FALSE]
              /\ event_id = [c \in Clients |-> FALSE]

-----------------------------------------------------------------------------
(* The creation of the channel may fail: channel_id stays NULL.            *)
Create_Channel(c) ==
  /\ is_connected' = [is_connected EXCEPT ![c] = FALSE]
  /\ \/ CreateChannel(c)
     \/ Fault /\ UNCHANGED <<channel_id, serverVars, subs, gets, due, queue>>
  /\ UNCHANGED <<event_id, filterVars>>

(* A callback's channel is that of a client.                               *)
Validate_Channel_Id(c) == channel_id[c]

(* application_connection_handler, CA_OP_CONN_UP, as far as the first call *)
(* of Subscribe_Channel: are there enough elements?                        *)
EnoughElementsOrMore(c) == ElementCount(c) # 0 /\ element_index[c] < ElementCount(c)
EnoughElements(c) == ElementCount(c) # 0 /\ element_index[c] <= ElementCount(c)

ConnectionUpUnnoted(c) ==
  UNCHANGED <<channel_id, serverVars, subs, gets, due, faults, clientVars, filterVars>>

ConnectionUp(c) ==
  /\ is_connected' = [is_connected EXCEPT ![c] = TRUE]
  /\ UNCHANGED <<channel_id, serverVars, subs, gets, due, faults, event_id, filterVars>>

(* Subscribe_Channel: the initial get.                                     *)
GetAccepted(c) ==
  /\ Available(c)
  /\ ArrayGet(c)
  /\ UNCHANGED <<clientVars, filterVars>>

GetRefused(c) ==
  /\ \/ ~Available(c) /\ UNCHANGED faults
     \/ Fault
  /\ UNCHANGED <<channel_id, serverVars, subs, gets, due, queue, clientVars, filterVars>>

(* Subscribe_Channel: the subscription.                                    *)
SubscribeAccepted(c) ==
  /\ link[c] = "up" => Available(c)
  /\ CreateSubscription(c)
  /\ event_id' = [event_id EXCEPT ![c] = TRUE]
  /\ UNCHANGED <<is_connected, filterVars>>

SubscribeRefusedKeepingId(c) ==
  /\ ~Available(c)
  /\ event_id' = [event_id EXCEPT ![c] = TRUE]
  /\ UNCHANGED <<caVars, is_connected, filterVars>>

SubscribeRefused(c) == GetRefused(c)

(* Unsubscribe_Channel, with what remains to be said of the subscriptions. *)
Unsubscribe_ChannelNever(c) == UNCHANGED <<subs, due, event_id>>

Unsubscribe_Channel(c) ==
  \/ /\ event_id[c]
     /\ ClearSubscription(c)
     /\ event_id' = [event_id EXCEPT ![c] = FALSE]
  \/ /\ ~event_id[c]
     /\ UNCHANGED <<subs, due, event_id>>

(* application_connection_handler, CA_OP_CONN_DOWN.                        *)
ConnectionDown(c) ==
  /\ Unsubscribe_Channel(c)
  /\ Process_PV_Disconnect(c)
  /\ UNCHANGED <<channel_id, serverVars, gets, faults, is_connected>>

(* application_event_handler and Get_Event_Handler: a failed get and an    *)
(* update with too few elements are ignored.                               *)
Usable(cb) == cb.op = "EVENT" /\ cb.count >= element_index[cb.client]

EventHandled(cb) ==
  /\ \/ Usable(cb) /\ Process_PV_Update(cb.client, cb.value)
     \/ ~Usable(cb) /\ UNCHANGED filterVars
  /\ UNCHANGED <<channel_id, serverVars, subs, gets, due, faults, clientVars>>

(* Clear_Channel: unsubscribe, then close the channel.                     *)
Clear_ChannelIfConnected(c) ==
  /\ \/ is_connected[c] /\ ClearChannel(c)
     \/ ~is_connected[c] /\ UNCHANGED <<channel_id, link, subs, gets, due>>
  /\ event_id' = [event_id EXCEPT ![c] = FALSE]
  /\ UNCHANGED <<pv, nelm, queue, faults, is_connected, filterVars>>

Clear_Channel(c) ==
  /\ \/ /\ channel_id[c]
        /\ ClearChannel(c)
        /\ event_id' = [event_id EXCEPT ![c] = FALSE]
        /\ is_connected' = [is_connected EXCEPT ![c] = FALSE]
     \/ /\ ~channel_id[c]
        /\ Unsubscribe_Channel(c)
        /\ UNCHANGED <<channel_id, link, gets, is_connected>>
  /\ UNCHANGED <<pv, nelm, queue, faults, filterVars>>
=============================================================================
