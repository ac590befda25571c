------------------------ MODULE KrytenPolicy_proofs -------------------------
(***************************************************************************)
(* What the queued callbacks of a client say when they are read in order,  *)
(* for any list of clients and any length of the queue.                    *)
(*                                                                         *)
(* When no callback is lost and no call fails they lead from the           *)
(* connection kryten knows of to the one the circuit has: a client has at  *)
(* most one subscription, and the commands that are run follow the policy  *)
(* of CommandPolicy.  When some are lost, the same path with a counter     *)
(* bounds the subscriptions that leak.                                     *)
(***************************************************************************)
EXTENDS KrytenInvariants_proofs

-----------------------------------------------------------------------------
(* The items of q take a to b, each by a step of the relation R: f is what *)
(* they pass through.                                                      *)
Through(R, q, a, b, f) ==
  /\ f[0] = a
  /\ f[Len(q)] = b
  /\ \A i \in 1..Len(q) : <<q[i], f[i - 1], f[i]>> \in R

Leads(R, q, a, b) == \E f : Through(R, q, a, b, f)

LEMMA LeadsOne ==
  ASSUME NEW R, NEW cb, NEW a, NEW b, <<cb, a, b>> \in R
  PROVE  Leads(R, <<cb>>, a, b)
<1> DEFINE f == [i \in 0..1 |-> IF i = 0 THEN a ELSE b]
<1>1. f[0] = a /\ f[1] = b
  OBVIOUS
<1> HIDE DEF f
<1>2. Through(R, <<cb>>, a, b, f)
  <2>1. Len(<<cb>>) = 1 /\ <<cb>>[1] = cb
    OBVIOUS
  <2>2. \A i \in 1..1 : <<<<cb>>[i], f[i - 1], f[i]>> \in R
    <3>1. 1 - 1 = 0 /\ \A i \in 1..1 : i = 1
      OBVIOUS
    <3> QED
      BY <1>1, <2>1, <3>1
  <2> QED
    BY <1>1, <2>1, <2>2 DEF Through
<1> QED
  BY <1>2 DEF Leads

LEMMA LeadsConcat ==
  ASSUME NEW S, NEW R, NEW q \in Seq(S), NEW r \in Seq(S), NEW a, NEW b, NEW d,
         Leads(R, q, a, b), Leads(R, r, b, d)
  PROVE  Leads(R, q \o r, a, d)
<1>1. PICK f : Through(R, q, a, b, f)
  BY DEF Leads
<1>2. PICK g : Through(R, r, b, d, g)
  BY DEF Leads
<1> DEFINE m == Len(q)
           k == Len(r)
           h == [i \in 0..(m + k) |-> IF i <= m THEN f[i] ELSE g[i - m]]
<1>3. m \in Nat /\ k \in Nat
  BY LenProperties
<1>4. /\ Len(q \o r) = m + k
      /\ \A i \in 1..(m + k) : (q \o r)[i] = IF i <= m THEN q[i] ELSE r[i - m]
  BY ConcatProperties
<1>5. /\ f[0] = a /\ f[m] = b
      /\ \A i \in 1..m : <<q[i], f[i - 1], f[i]>> \in R
  BY <1>1 DEF Through
<1>6. /\ g[0] = b /\ g[k] = d
      /\ \A i \in 1..k : <<r[i], g[i - 1], g[i]>> \in R
  BY <1>2 DEF Through
<1> HIDE DEF m, k
<1>7. \A i \in 0..(m + k) : h[i] = IF i <= m THEN f[i] ELSE g[i - m]
  OBVIOUS
<1> HIDE DEF h
<1>8. h[0] = a /\ h[m + k] = d
  <2>1. CASE k = 0
    BY <1>3, <1>5, <1>6, <1>7, <2>1
  <2>2. CASE k # 0
    BY <1>3, <1>5, <1>6, <1>7, <2>2
  <2> QED
    BY <2>1, <2>2
<1>9. ASSUME NEW i \in 1..(m + k) PROVE <<(q \o r)[i], h[i - 1], h[i]>> \in R
  <2>1. CASE i <= m
    <3>1. h[i - 1] = f[i - 1] /\ h[i] = f[i] /\ (q \o r)[i] = q[i] /\ i \in 1..m
      BY <1>3, <1>4, <1>7, <2>1
    <3> QED
      BY <1>5, <3>1
  <2>2. CASE i > m
    <3>1. i - m \in 1..k
      BY <1>3, <2>2
    <3>2. h[i] = g[i - m] /\ (q \o r)[i] = r[i - m]
      BY <1>3, <1>4, <1>7, <2>2
    <3>3. h[i - 1] = g[(i - m) - 1]
      <4>1. CASE i = m + 1
        <5>1. h[i - 1] = f[m] /\ (i - m) - 1 = 0
          BY <1>3, <1>7, <4>1
        <5> QED
          BY <1>5, <1>6, <5>1
      <4>2. CASE i # m + 1
        BY <1>3, <1>7, <2>2, <4>2
      <4> QED
        BY <4>1, <4>2
    <3>4. <<r[i - m], g[(i - m) - 1], g[i - m]>> \in R
      BY <1>6, <3>1
    <3> QED
      BY <3>2, <3>3, <3>4
  <2>3. i <= m \/ i > m
    BY <1>3
  <2> QED
    BY <2>1, <2>2, <2>3
<1>10. Through(R, q \o r, a, d, h)
  BY <1>4, <1>8, <1>9 DEF Through
<1> QED
  BY <1>10 DEF Leads

LEMMA LeadsTail ==
  ASSUME NEW S, NEW R, NEW q \in Seq(S), q # <<>>, NEW a, NEW b, Leads(R, q, a, b)
  PROVE  \E d : <<Head(q), a, d>> \in R /\ Leads(R, Tail(q), d, b)
<1>1. PICK f : Through(R, q, a, b, f)
  BY DEF Leads
<1> DEFINE m == Len(q)
           h == [i \in 0..(m - 1) |-> f[i + 1]]
<1>2. m \in Nat /\ m > 0
  BY EmptySeq, LenProperties
<1>3. /\ f[0] = a /\ f[m] = b
      /\ \A i \in 1..m : <<q[i], f[i - 1], f[i]>> \in R
  BY <1>1 DEF Through
<1>4. /\ Head(q) = q[1] /\ Len(Tail(q)) = m - 1
      /\ \A i \in 1..(m - 1) : Tail(q)[i] = q[i + 1]
  BY HeadTailProperties
<1> HIDE DEF m
<1>5. <<Head(q), a, f[1]>> \in R
  <2>1. 1 \in 1..m /\ 1 - 1 = 0
    BY <1>2
  <2> QED
    BY <1>3, <1>4, <2>1
<1>6. \A i \in 0..(m - 1) : h[i] = f[i + 1]
  OBVIOUS
<1> HIDE DEF h
<1>7. h[0] = f[1] /\ h[m - 1] = b
  BY <1>2, <1>3, <1>6
<1>8. ASSUME NEW i \in 1..(m - 1) PROVE <<Tail(q)[i], h[i - 1], h[i]>> \in R
  <2>1. i + 1 \in 1..m /\ (i + 1) - 1 = i
    BY <1>2
  <2>2. h[i - 1] = f[i] /\ h[i] = f[i + 1]
    BY <1>2, <1>6
  <2> QED
    BY <1>3, <1>4, <2>1, <2>2
<1>9. Through(R, Tail(q), f[1], b, h)
  BY <1>4, <1>7, <1>8 DEF Through
<1> QED
  BY <1>5, <1>9 DEF Leads

(* Items that leave a as it is, or no items at all.                        *)
LEMMA LeadsNowhere ==
  ASSUME NEW S, NEW R, NEW q \in Seq(S), NEW a,
         \A i \in 1..Len(q) : <<q[i], a, a>> \in R
  PROVE  Leads(R, q, a, a)
<1> DEFINE f == [i \in 0..Len(q) |-> a]
<1>1. Len(q) \in Nat
  BY LenProperties
<1>2. f[0] = a /\ f[Len(q)] = a /\ \A i \in 1..Len(q) : f[i - 1] = a /\ f[i] = a
  BY <1>1
<1> HIDE DEF f
<1>3. Through(R, q, a, a, f)
  BY <1>2 DEF Through
<1> QED
  BY <1>3 DEF Leads

-----------------------------------------------------------------------------
(* A callback cb takes the connection of client c from a to b.             *)
Moves(c, cb, a, b) ==
  /\ cb.client # c => b = a
  /\ cb.client = c => /\ cb.op = "UP" => ~a /\ b
                      /\ cb.op = "DOWN" => a /\ ~b
                      /\ cb.op \in {"EVENT", "FAILED"} => a /\ b

Connection(c) ==
  {t \in Callbacks \X BOOLEAN \X BOOLEAN : Moves(c, t[1], t[2], t[3])}

LEMMA ConnectionIs ==
  ASSUME NEW c, NEW cb, NEW a, NEW b
  PROVE  <<cb, a, b>> \in Connection(c) <=>
           /\ cb \in Callbacks /\ a \in BOOLEAN /\ b \in BOOLEAN
           /\ Moves(c, cb, a, b)
BY DEF Connection

(* A lost circuit: the gets fail, then the connection is down.             *)
LEMMA LeadsDown ==
  ASSUME NEW c \in Clients, NEW q \in Seq(Callbacks),
         \A i \in 1..Len(q) : q[i] = Failed(c)
  PROVE  Leads(Connection(c), Append(q, Down(c)), TRUE, FALSE)
<1>1. Failed(c) \in Callbacks /\ Moves(c, Failed(c), TRUE, TRUE)
  BY CallbackTypes DEF Moves, Failed
<1>2. Down(c) \in Callbacks /\ Moves(c, Down(c), TRUE, FALSE)
  BY CallbackTypes DEF Moves, Down
<1>3. Leads(Connection(c), q, TRUE, TRUE)
  <2>1. \A i \in 1..Len(q) : <<q[i], TRUE, TRUE>> \in Connection(c)
    BY <1>1, ConnectionIs
  <2> QED
    BY <2>1, LeadsNowhere
<1>4. Leads(Connection(c), <<Down(c)>>, TRUE, FALSE)
  BY <1>2, ConnectionIs, LeadsOne
<1>5. Append(q, Down(c)) = q \o <<Down(c)>> /\ <<Down(c)>> \in Seq(Callbacks)
  BY <1>2, AppendIsConcat
<1> QED
  BY <1>3, <1>4, <1>5, LeadsConcat

-----------------------------------------------------------------------------
(* The inductive invariant.                                                *)
PathInv ==
  pc \notin {"clear", "exit"} =>
    \A c \in Clients : /\ Leads(Connection(c), queue, online[c], link[c] = "up")
                       /\ event_id[c] => online[c]

PolicyInv == /\ PathInv
             /\ OneSubscription
             /\ pc \in {"get", "subscribe"} => online[cur] /\ ~event_id[cur]

LEMMA PolicyInvInit == Init => PolicyInv
<1> SUFFICES ASSUME Init PROVE PolicyInv
  OBVIOUS
<1>1. ASSUME NEW c \in Clients PROVE Leads(Connection(c), queue, online[c], link[c] = "up")
  <2>1. queue = <<>> /\ online[c] = FALSE /\ (link[c] = "up") = FALSE
    BY DEF Init, CAInit
  <2>2. queue \in Seq(Callbacks) /\ Len(queue) = 0
    BY <2>1, EmptySeq
  <2>3. \A i \in 1..Len(queue) : <<queue[i], FALSE, FALSE>> \in Connection(c)
    BY <2>2
  <2>4. Leads(Connection(c), queue, FALSE, FALSE)
    BY <2>2, <2>3, LeadsNowhere
  <2> QED
    BY <2>1, <2>4
<1>2. pc = "start" /\ \A c \in Clients : ~event_id[c] /\ subs[c] = 0
  BY DEF Init, CAInit, ClientInit
<1> QED
  BY <1>1, <1>2 DEF PolicyInv, PathInv, OneSubscription

(* Nothing is lost.                                                        *)
LEMMA NothingLost ==
  ASSUME IInv, MaxFaults = 0
  PROVE  ~Fault
BY IInvParts DEF CATypeOK, Fault

(* The library adds to the queue callbacks that lead client c from its     *)
(* circuit to what the circuit becomes.                                    *)
LEMMA LibraryLeads ==
  ASSUME IInv, PathInv, MaxFaults = 0, NEW c \in Clients,
         NEW callbacks \in Seq(Callbacks),
         \A i \in 1..Len(callbacks) : callbacks[i].client = c,
         Buffer(callbacks), UNCHANGED <<pc, online, event_id>>,
         NEW up \in BOOLEAN, Leads(Connection(c), callbacks, link[c] = "up", up),
         \A d \in Clients : (link'[d] = "up") = (IF d = c THEN up ELSE link[d] = "up")
  PROVE  PathInv'
<1> SUFFICES ASSUME pc \notin {"clear", "exit"}, NEW d \in Clients
             PROVE  Leads(Connection(d), queue', online[d], link'[d] = "up")
  BY DEF PathInv
<1>1. queue' = queue \o callbacks /\ queue \in Seq(Callbacks)
  BY NothingLost, IInvParts DEF Buffer, CATypeOK
<1>2. Leads(Connection(d), queue, online[d], link[d] = "up")
  BY DEF PathInv
<1>3. Leads(Connection(d), callbacks, link[d] = "up", link'[d] = "up")
  <2>1. CASE d = c
    BY <2>1
  <2>2. CASE d # c
    <3>1. (link'[d] = "up") = (link[d] = "up")
      BY <2>2
    <3>2. (link[d] = "up") \in BOOLEAN
      OBVIOUS
    <3>3. \A i \in 1..Len(callbacks) : callbacks[i] \in Callbacks /\ callbacks[i].client # d
      BY <2>2, ElementOfSeq
    <3>4. \A i \in 1..Len(callbacks) :
            <<callbacks[i], link[d] = "up", link[d] = "up">> \in Connection(d)
      BY <3>2, <3>3, ConnectionIs DEF Moves
    <3>5. Leads(Connection(d), callbacks, link[d] = "up", link[d] = "up")
      BY <3>4, LeadsNowhere
    <3> QED
      BY <3>1, <3>5
  <2> QED
    BY <2>1, <2>2
<1> QED
  BY <1>1, <1>2, <1>3, LeadsConcat

LEMMA LibraryKeepsPath ==
  ASSUME IInv, PathInv, MaxFaults = 0, NEW c \in Clients, LibraryStep(c)
  PROVE  PathInv'
<1>1. UNCHANGED <<pc, online, event_id>>
  BY DEF LibraryStep, clientVars, historyVars
<1>2. link \in [Clients -> {"up", "down"}]
  BY IInvParts DEF CATypeOK
<1>3. CASE Connect(c)
  <2>1. link[c] = "down" /\ link' = [link EXCEPT ![c] = "up"] /\ Buffer(<<Up(c)>>)
    BY <1>3 DEF Connect
  <2>2. Up(c) \in Callbacks /\ Moves(c, Up(c), FALSE, TRUE)
    BY CallbackTypes DEF Moves, Up
  <2>3. Leads(Connection(c), <<Up(c)>>, FALSE, TRUE)
    BY <2>2, ConnectionIs, LeadsOne
  <2>4. (link[c] = "up") = FALSE
    BY <2>1
  <2>5. <<Up(c)>> \in Seq(Callbacks) /\ \A i \in 1..Len(<<Up(c)>>) : <<Up(c)>>[i].client = c
    BY CallbackTypes
  <2>6. \A d \in Clients : (link'[d] = "up") = (IF d = c THEN TRUE ELSE link[d] = "up")
    BY <1>2, <2>1
  <2> QED
    BY <1>1, <2>1, <2>3, <2>4, <2>5, <2>6, LibraryLeads
<1>4. CASE CircuitLost(c)
  <2> DEFINE failed == [k \in 1..gets[c] |-> Failed(c)]
             callbacks == Append(failed, Down(c))
  <2>1. link[c] = "up" /\ link' = [link EXCEPT ![c] = "down"] /\ Buffer(callbacks)
    BY <1>4 DEF CircuitLost
  <2>2. gets[c] \in Nat
    BY IInvParts DEF CATypeOK
  <2>3. failed \in [1..gets[c] -> Callbacks] /\ \A k \in 1..gets[c] : failed[k] = Failed(c)
    BY CallbackTypes
  <2>4. failed \in Seq(Callbacks) /\ Len(failed) = gets[c]
    BY <2>2, <2>3, SeqDef, LenProperties
  <2> HIDE DEF failed
  <2>5. callbacks \in Seq(Callbacks) /\ \A k \in 1..Len(callbacks) : callbacks[k].client = c
    <3>1. Failed(c).client = c /\ Down(c).client = c /\ Down(c) \in Callbacks
      BY CallbackTypes
    <3> QED
      BY <2>3, <2>4, <3>1, AppendProperties
  <2>6. Leads(Connection(c), callbacks, TRUE, FALSE)
    BY <2>3, <2>4, LeadsDown
  <2> HIDE DEF callbacks
  <2>7. (link[c] = "up") = TRUE
    BY <2>1
  <2>8. \A d \in Clients : (link'[d] = "up") = (IF d = c THEN FALSE ELSE link[d] = "up")
    BY <1>2, <2>1
  <2> QED
    BY <1>1, <2>1, <2>5, <2>6, <2>7, <2>8, LibraryLeads
<1>5. CASE PVChange(c)
  <2>1. UNCHANGED <<queue, link>>
    BY <1>5 DEF PVChange
  <2> QED
    BY <1>1, <2>1 DEF PathInv
<1>6. CASE DeliverGet(c) \/ DeliverEvent(c)
  <2>1. link[c] = "up" /\ link' = link /\ Buffer(<<Update(c)>>)
    BY <1>6 DEF DeliverGet, DeliverEvent, serverVars
  <2>2. Update(c) \in Callbacks /\ Update(c).client = c /\ Update(c).op = "EVENT"
    BY IInvParts, UpdateType DEF Update, Event
  <2>3. Moves(c, Update(c), TRUE, TRUE)
    BY <2>2 DEF Moves
  <2>4. Leads(Connection(c), <<Update(c)>>, TRUE, TRUE)
    BY <2>2, <2>3, ConnectionIs, LeadsOne
  <2>5. (link[c] = "up") = TRUE
    BY <2>1
  <2>6. /\ <<Update(c)>> \in Seq(Callbacks)
        /\ \A i \in 1..Len(<<Update(c)>>) : <<Update(c)>>[i].client = c
    BY <2>2
  <2>7. \A d \in Clients : (link'[d] = "up") = (IF d = c THEN TRUE ELSE link[d] = "up")
    BY <2>1
  <2> QED
    BY <1>1, <2>1, <2>4, <2>5, <2>6, <2>7, LibraryLeads
<1> QED
  BY <1>3, <1>4, <1>5, <1>6 DEF LibraryStep, Library

(* A callback is taken: what it says of its client's connection.           *)
LEMMA TakeLeads ==
  ASSUME IInv, PathInv, NEW cb, Take(cb)
  PROVE  /\ cb.client \in Clients /\ cb \in Callbacks
         /\ cb.op = "UP" => ~online[cb.client]
         /\ cb.op \in {"DOWN", "EVENT", "FAILED"} => online[cb.client]
         /\ \A c \in Clients :
              Leads(Connection(c), queue', IF c = cb.client
                                 THEN IF cb.op = "UP" THEN TRUE
                                      ELSE IF cb.op = "DOWN" THEN FALSE ELSE online[c]
                                 ELSE online[c],
                    link[c] = "up")
<1>1. pc = "drain" /\ queue # <<>> /\ cb = Head(queue) /\ queue' = Tail(queue)
  BY DEF Take
<1>2. queue \in Seq(Callbacks) /\ online \in [Clients -> BOOLEAN]
  BY IInvParts DEF CATypeOK, MainTypeOK
<1>3. cb \in Callbacks
  BY <1>1, HeadIsValid
<1>4. cb.client \in Clients /\ cb.op \in {"UP", "DOWN", "EVENT", "FAILED"}
  BY <1>3 DEF Callbacks
<1>5. \A c \in Clients : \E d \in BOOLEAN :
        Moves(c, cb, online[c], d) /\ Leads(Connection(c), queue', d, link[c] = "up")
  <2> SUFFICES ASSUME NEW c \in Clients
               PROVE  \E d \in BOOLEAN :
                        Moves(c, cb, online[c], d) /\ Leads(Connection(c), queue', d, link[c] = "up")
    OBVIOUS
  <2>1. Leads(Connection(c), queue, online[c], link[c] = "up")
    BY <1>1 DEF PathInv
  <2>2. PICK d : <<Head(queue), online[c], d>> \in Connection(c)
                   /\ Leads(Connection(c), Tail(queue), d, link[c] = "up")
    BY <1>1, <1>2, <2>1, LeadsTail
  <2>3. d \in BOOLEAN /\ Moves(c, cb, online[c], d)
    BY <1>1, <2>2, ConnectionIs
  <2> QED
    BY <1>1, <2>2, <2>3
<1>6. /\ cb.op = "UP" => ~online[cb.client]
      /\ cb.op \in {"DOWN", "EVENT", "FAILED"} => online[cb.client]
  BY <1>4, <1>5 DEF Moves
<1>7. ASSUME NEW c \in Clients
      PROVE  Leads(Connection(c), queue', IF c = cb.client
                                THEN IF cb.op = "UP" THEN TRUE
                                     ELSE IF cb.op = "DOWN" THEN FALSE ELSE online[c]
                                ELSE online[c],
                   link[c] = "up")
  <2>1. PICK d \in BOOLEAN :
          Moves(c, cb, online[c], d) /\ Leads(Connection(c), queue', d, link[c] = "up")
    BY <1>5
  <2>2. online[c] \in BOOLEAN
    BY <1>2
  <2>3. d = IF c = cb.client THEN IF cb.op = "UP" THEN TRUE
                                  ELSE IF cb.op = "DOWN" THEN FALSE ELSE online[c]
            ELSE online[c]
    BY <1>4, <2>1, <2>2 DEF Moves
  <2> QED
    BY <2>1, <2>3
<1> QED
  BY <1>3, <1>4, <1>6, <1>7

-----------------------------------------------------------------------------
(* The steps.                                                              *)
LEMMA HandleUpPolicy ==
  ASSUME IInv, PolicyInv, NEW c \in Clients, HandleUp(c)
  PROVE  PolicyInv' /\ Policy!GoOnline(c)
<1>1. /\ Take(Up(c))
      /\ UNCHANGED <<link, subs, event_id, last_update_matched, command>>
      /\ online' = [online EXCEPT ![c] = TRUE]
      /\ pc = "drain"
      /\ \/ cur' = c /\ pc' = "get"
         \/ pc' = After(n')
  BY DEF HandleUp, Take, ConnectionUp, serverVars, filterVars
<1>2. Up(c).client = c /\ Up(c).op = "UP"
  BY DEF Up
<1>3. online \in [Clients -> BOOLEAN] /\ command = NoCommand
  BY <1>1, IInvParts DEF MainTypeOK, CommandInv
<1>4. /\ ~online[c]
      /\ \A d \in Clients : Leads(Connection(d), queue', IF d = c THEN TRUE ELSE online[d], link[d] = "up")
  BY <1>1, <1>2, TakeLeads DEF PolicyInv
<1>5. ~event_id[c]
  BY <1>1, <1>4 DEF PolicyInv, PathInv
<1>6. PathInv'
  <2>1. \A d \in Clients : online'[d] = IF d = c THEN TRUE ELSE online[d]
    BY <1>1, <1>3
  <2>2. \A d \in Clients : event_id[d] => online[d]
    BY <1>1 DEF PolicyInv, PathInv
  <2> QED
    BY <1>1, <1>4, <2>1, <2>2 DEF PathInv
<1>7. PolicyInv'
  BY <1>1, <1>3, <1>5, <1>6, AfterIs DEF PolicyInv, OneSubscription
<1>8. Policy!GoOnline(c)
  BY <1>1, <1>3, <1>4 DEF Policy!GoOnline
<1> QED
  BY <1>7, <1>8

LEMMA HandleDownPolicy ==
  ASSUME IInv, PolicyInv, NEW c \in Clients, HandleDown(c)
  PROVE  PolicyInv' /\ Policy!GoOffline(c)
<1>1. /\ Take(Down(c))
      /\ UNCHANGED <<link, last_update_matched>>
      /\ Unsubscribe_Channel(c)
      /\ call_command(c, "disconnect")
      /\ online' = [online EXCEPT ![c] = FALSE]
      /\ pc = "drain"
      /\ pc' \in {"system", "drain", "timeouts"}
  BY AfterIs DEF HandleDown, Take, ConnectionDown, Process_PV_Disconnect, serverVars
<1>2. Down(c).client = c /\ Down(c).op = "DOWN"
  BY DEF Down
<1>3. /\ online \in [Clients -> BOOLEAN] /\ command = NoCommand
      /\ subs \in [Clients -> Nat] /\ event_id \in [Clients -> BOOLEAN]
  BY <1>1, IInvParts DEF MainTypeOK, CommandInv, CATypeOK, ClientTypeOK
<1>4. /\ online[c]
      /\ \A d \in Clients : Leads(Connection(d), queue', IF d = c THEN FALSE ELSE online[d], link[d] = "up")
  BY <1>1, <1>2, TakeLeads DEF PolicyInv
<1>5. /\ subs' = [subs EXCEPT ![c] = 0]
      /\ event_id' = [event_id EXCEPT ![c] = FALSE]
  <2>1. CASE event_id[c]
    <3>1. subs[c] = 1
      BY <2>1 DEF PolicyInv, OneSubscription
    <3>2. /\ subs' = [subs EXCEPT ![c] = subs[c] - 1]
          /\ event_id' = [event_id EXCEPT ![c] = FALSE]
      BY <1>1, <2>1 DEF Unsubscribe_Channel, ClearSubscription
    <3> QED
      BY <3>1, <3>2
  <2>2. CASE ~event_id[c]
    <3>1. subs[c] = 0
      BY <2>2 DEF PolicyInv, OneSubscription
    <3>2. UNCHANGED <<subs, event_id>> /\ event_id[c] = FALSE
      BY <1>1, <1>3, <2>2 DEF Unsubscribe_Channel
    <3> QED
      BY <1>3, <3>1, <3>2
  <2> QED
    BY <2>1, <2>2
<1>6. PathInv'
  <2>1. \A d \in Clients : online'[d] = IF d = c THEN FALSE ELSE online[d]
    BY <1>1, <1>3
  <2>2. \A d \in Clients : event_id'[d] => online'[d]
    BY <1>1, <1>3, <1>5, <2>1 DEF PolicyInv, PathInv
  <2>3. \A d \in Clients : Leads(Connection(d), queue', online'[d], link'[d] = "up")
    BY <1>1, <1>4, <2>1
  <2> QED
    BY <2>2, <2>3 DEF PathInv
<1>7. OneSubscription'
  BY <1>3, <1>5 DEF PolicyInv, OneSubscription
<1>8. PolicyInv'
  BY <1>1, <1>6, <1>7 DEF PolicyInv
<1>9. Policy!Run(c, "disconnect")
  BY <1>1, <1>3 DEF call_command, Policy!Run
<1>10. Policy!GoOffline(c)
  BY <1>1, <1>3, <1>4, <1>9 DEF Policy!GoOffline
<1> QED
  BY <1>8, <1>10

LEMMA HandleEventPolicy ==
  ASSUME IInv, PolicyInv, HandleEvent
  PROVE  /\ PolicyInv'
         /\ \/ UNCHANGED Policy!policyVars
            \/ \E c \in Clients : Policy!StatusChanges(c)
<1> DEFINE cb == Head(queue)
           c == cb.client
           v == cb.value
<1>1. /\ Take(cb)
      /\ cb.op \in {"EVENT", "FAILED"}
      /\ UNCHANGED <<link, subs, event_id, online>>
      /\ Process_PV_Update(c, v) \/ UNCHANGED filterVars
      /\ pc = "drain"
      /\ pc' \in {"system", "drain", "timeouts"}
  BY AfterIs DEF HandleEvent, Take, EventHandled, serverVars, clientVars
<1> HIDE DEF cb
<1>2. /\ c \in Clients
      /\ online[c]
      /\ \A d \in Clients : Leads(Connection(d), queue', online[d], link[d] = "up")
  BY <1>1, TakeLeads DEF PolicyInv
<1> HIDE DEF c, v
<1>3. PolicyInv'
  BY <1>1, <1>2 DEF PolicyInv, PathInv, OneSubscription
<1>4. last_update_matched \in [Clients -> BOOLEAN] /\ command = NoCommand
  BY <1>1, IInvParts DEF FilterTypeOK, CommandInv
<1>5. CASE UNCHANGED filterVars
  <2>1. UNCHANGED Policy!policyVars
    BY <1>1, <1>5 DEF filterVars, Policy!policyVars
  <2> QED
    BY <1>3, <2>1
<1>6. CASE ~UNCHANGED filterVars
  <2>1. /\ last_update_matched[c] # Matches(c, v)
        /\ call_command(c, IF Matches(c, v) THEN "match" ELSE "reject")
        /\ last_update_matched' =
             IF c \in Quits THEN [last_update_matched EXCEPT ![c] = Matches(c, v)]
                            ELSE last_update_matched
    BY <1>1, <1>6 DEF Process_PV_Update, Changed
  <2>2. Matches(c, v) = ~last_update_matched[c] /\ last_update_matched[c] \in BOOLEAN
    BY <1>2, <1>4, <2>1, MatchesType
  <2>3. call_command(c, IF last_update_matched[c] THEN "reject" ELSE "match")
    BY <2>1, <2>2
  <2>4. Policy!Run(c, IF last_update_matched[c] THEN "reject" ELSE "match")
    BY <1>4, <2>3 DEF call_command, Policy!Run
  <2>5. last_update_matched' =
          IF c \in Quits THEN [last_update_matched EXCEPT ![c] = ~last_update_matched[c]]
                         ELSE last_update_matched
    BY <2>1, <2>2
  <2>6. Policy!StatusChanges(c)
    BY <1>1, <1>2, <1>4, <2>4, <2>5 DEF Policy!StatusChanges
  <2> QED
    BY <1>2, <1>3, <2>6
<1> QED
  BY <1>5, <1>6

(* Subscribe_Channel, between whose calls nothing else is handled.         *)
LEMMA SubscribePolicy ==
  ASSUME IInv, PolicyInv, Get \/ Subscribe
  PROVE  PolicyInv'
<1>1. /\ cur \in Clients /\ pc \in {"get", "subscribe"}
      /\ online[cur] /\ ~event_id[cur]
      /\ subs \in [Clients -> Nat] /\ event_id \in [Clients -> BOOLEAN]
  BY IInvParts DEF Get, Subscribe, ChannelInv, PolicyInv, CATypeOK, ClientTypeOK
<1>2. /\ UNCHANGED <<link, queue, online>>
      /\ \/ pc' = "subscribe" /\ UNCHANGED <<cur, subs, event_id>>
         \/ pc' = After(n) /\ UNCHANGED <<subs, event_id>>
         \/ /\ pc' = After(n)
            /\ subs' = [subs EXCEPT ![cur] = subs[cur] + 1]
            /\ event_id' = [event_id EXCEPT ![cur] = TRUE]
  BY DEF Get, Subscribe, GetAccepted, GetRefused, SubscribeAccepted, SubscribeRefused,
         ArrayGet, CreateSubscription, serverVars, clientVars, historyVars
<1>3. PathInv'
  <2>1. \A d \in Clients : event_id'[d] => event_id[d] \/ d = cur
    BY <1>1, <1>2
  <2> QED
    BY <1>1, <1>2, <2>1 DEF PolicyInv, PathInv
<1>4. OneSubscription'
  <2>1. subs[cur] = 0
    BY <1>1 DEF PolicyInv, OneSubscription
  <2> QED
    BY <1>1, <1>2, <2>1 DEF PolicyInv, OneSubscription
<1> QED
  BY <1>1, <1>2, <1>3, <1>4, AfterIs DEF PolicyInv

LEMMA ClearPolicy ==
  ASSUME IInv, PolicyInv, Clear_All_Channels
  PROVE  PolicyInv'
<1>1. PICK c \in todo : Clear_Channel(c)
  BY DEF Clear_All_Channels
<1>2. pc' = "clear"
  BY DEF Clear_All_Channels
<1>3. c \in Clients /\ subs \in [Clients -> Nat] /\ event_id \in [Clients -> BOOLEAN]
  BY IInvParts DEF MainTypeOK, CATypeOK, ClientTypeOK
<1>4. OneSubscription'
  <2>1. CASE channel_id[c]
    <3>1. /\ subs' = [subs EXCEPT ![c] = 0]
          /\ event_id' = [event_id EXCEPT ![c] = FALSE]
      BY <1>1, <2>1 DEF Clear_Channel, ClearChannel
    <3> QED
      BY <1>3, <3>1 DEF PolicyInv, OneSubscription
  <2>2. CASE ~channel_id[c]
    <3>1. ~event_id[c]
      BY <1>3, <2>2, IInvParts DEF ChannelInv, Unused
    <3>2. UNCHANGED <<subs, event_id>>
      BY <1>1, <2>2, <3>1 DEF Clear_Channel, Unsubscribe_Channel
    <3> QED
      BY <3>2 DEF PolicyInv, OneSubscription
  <2> QED
    BY <2>1, <2>2
<1> QED
  BY <1>2, <1>4 DEF PolicyInv, PathInv

(* The other steps of kryten do not move what the invariants are about.    *)
OtherStep == \/ Create_All_Channels \/ SystemReturns \/ QuietStep \/ SigInt \/ SigTerm
             \/ UNCHANGED vars

LEMMA OtherStepIs ==
  ASSUME OtherStep
  PROVE  /\ UNCHANGED <<link, queue, online, subs, event_id, cur>>
         /\ pc' = pc \/ (pc \notin {"get", "subscribe"} /\ pc' \notin {"get", "subscribe"})
         /\ pc' \notin {"clear", "exit"} => pc \notin {"clear", "exit"}
BY AfterIs
DEF OtherStep, Create_All_Channels, Create_Channel, CreateChannel, SystemReturns,
    FinishCommand, QuietStep, ContextCreate, ContextCreateFails, Continue, ShutDown,
    EndDrain, Timeouts, Exit, SigInt, SigTerm, Signalled, vars, caVars, serverVars,
    clientVars, mainVars, historyVars

LEMMA OtherPolicy ==
  ASSUME IInv, PolicyInv, OtherStep
  PROVE  PolicyInv'
BY OtherStepIs DEF PolicyInv, PathInv, OneSubscription

LEMMA LibraryPolicy ==
  ASSUME IInv, PolicyInv, MaxFaults = 0, NEW c \in Clients, LibraryStep(c)
  PROVE  PolicyInv'
<1>1. UNCHANGED <<pc, cur, online, event_id>>
  BY DEF LibraryStep, clientVars, mainVars, historyVars
<1>2. UNCHANGED subs
  BY DEF LibraryStep, Library, Connect, CircuitLost, PVChange, DeliverGet, DeliverEvent
<1>3. PathInv'
  BY LibraryKeepsPath DEF PolicyInv
<1> QED
  BY <1>1, <1>2, <1>3 DEF PolicyInv, OneSubscription

LEMMA PolicyInvStep ==
  ASSUME IInv, PolicyInv, MaxFaults = 0, [Next]_vars
  PROVE  PolicyInv'
BY StepKinds, HandleUpPolicy, HandleDownPolicy, HandleEventPolicy, SubscribePolicy,
   ClearPolicy, OtherPolicy, LibraryPolicy DEF OtherStep

(* Each step of kryten is a step of the policy or leaves what the policy   *)
(* is about as it is.                                                      *)
LEMMA PolicyStep ==
  ASSUME IInv, PolicyInv, [Next]_vars
  PROVE  [Policy!PolicyNext]_(Policy!policyVars)
<1>1. ASSUME NEW c \in Clients, HandleUp(c) \/ HandleDown(c)
      PROVE  Policy!PolicyNext
  BY <1>1, HandleUpPolicy, HandleDownPolicy DEF Policy!PolicyNext
<1>2. ASSUME HandleEvent
      PROVE  [Policy!PolicyNext]_(Policy!policyVars)
  BY <1>2, HandleEventPolicy DEF Policy!PolicyNext
<1>3. ASSUME SystemReturns
      PROVE  Policy!PolicyNext
  <2>1. FinishCommand /\ UNCHANGED online /\ command # NoCommand
    BY <1>3, IInvParts DEF SystemReturns, historyVars, CommandInv
  <2>2. Policy!CommandEnds
    BY <2>1 DEF FinishCommand, Policy!CommandEnds
  <2> QED
    BY <2>2 DEF Policy!PolicyNext
<1>4. ASSUME Get \/ Subscribe \/ Create_All_Channels \/ Clear_All_Channels \/ QuietStep
             \/ SigInt \/ SigTerm \/ UNCHANGED vars
             \/ \E c \in Clients : LibraryStep(c)
      PROVE  UNCHANGED Policy!policyVars
  BY <1>4
  DEF LibraryStep, Get, Subscribe, GetAccepted, GetRefused, SubscribeAccepted,
      SubscribeRefused, Create_All_Channels, Create_Channel, Clear_All_Channels,
      Clear_Channel, QuietStep, ContextCreate, ContextCreateFails, Continue, ShutDown,
      EndDrain, Timeouts, Exit, SigInt, SigTerm, Signalled, vars, filterVars, historyVars,
      Policy!policyVars
<1> QED
  BY <1>1, <1>2, <1>3, <1>4, StepKinds

-----------------------------------------------------------------------------
(* When nothing is lost a client has one subscription while event_id is    *)
(* set and none while it is not, however many connections and              *)
(* disconnections are in the queue.                                        *)
THEOREM SubscribedOnce == ASSUME MaxFaults = 0 PROVE Spec => []OneSubscription
<1> DEFINE J == IInv /\ PolicyInv
<1>1. Init => J
  BY IInvInit, PolicyInvInit
<1>2. J /\ [Next]_vars => J'
  BY IInvStep, PolicyInvStep
<1>3. J => OneSubscription
  BY DEF PolicyInv
<1> QED
  BY <1>1, <1>2, <1>3, PTL DEF Spec

(* When nothing is lost kryten implements the policy its user is told of:  *)
(* one command at a time, for a PV that is connected and whose status has  *)
(* changed or that disconnects, never twice for the same.                  *)
THEOREM PolicyIsImplemented == ASSUME MaxFaults = 0 PROVE Spec => ImplementsCommandPolicy
<1> DEFINE J == IInv /\ PolicyInv
<1>1. Init => J
  BY IInvInit, PolicyInvInit
<1>2. J /\ [Next]_vars => J'
  BY IInvStep, PolicyInvStep
<1>3. Init => Policy!PolicyInit
  BY DEF Init, FilterInit, Policy!PolicyInit
<1>4. J /\ [Next]_vars => [Policy!PolicyNext]_(Policy!policyVars)
  BY PolicyStep
<1> QED
  BY <1>1, <1>2, <1>3, <1>4, PTL DEF Spec, ImplementsCommandPolicy, Policy!PolicySpec
-----------------------------------------------------------------------------
(* When callbacks are lost and calls fail, the subscriptions a client      *)
(* leaks are no more than what has been lost.  A subscription is leaked    *)
(* when a connection is handled of a client that has not been told of the  *)
(* disconnection before it, so the invariant counts such connections in    *)
(* the queue.                                                              *)
(*                                                                         *)
(* A state is whether client c has been told it is connected and how often *)
(* it was told so while it was; m is the count at the end of the queue.    *)
States(m) == BOOLEAN \X (0..m)

Counts(c, cb, s, t) ==
  /\ cb.client # c => t = s
  /\ cb.client = c =>
       /\ cb.op = "UP" => t = <<TRUE, IF s[1] THEN s[2] + 1 ELSE s[2]>>
       /\ cb.op = "DOWN" => t = <<FALSE, s[2]>>
       /\ cb.op \in {"EVENT", "FAILED"} => t = s

Counting(c, m) ==
  {t \in Callbacks \X States(m) \X States(m) : Counts(c, t[1], t[2], t[3])}

LEMMA CountingIs ==
  ASSUME NEW c, NEW m, NEW cb, NEW s, NEW t
  PROVE  <<cb, s, t>> \in Counting(c, m) <=>
           /\ cb \in Callbacks /\ s \in States(m) /\ t \in States(m)
           /\ Counts(c, cb, s, t)
BY DEF Counting

LEMMA CountingGrows ==
  ASSUME NEW c, NEW m \in Nat, NEW k \in Nat, m <= k, NEW q, NEW a, NEW b,
         Leads(Counting(c, m), q, a, b)
  PROVE  Leads(Counting(c, k), q, a, b)
<1>1. States(m) \subseteq States(k)
  <2>1. 0..m \subseteq 0..k
    OBVIOUS
  <2> QED
    BY <2>1 DEF States
<1>2. Counting(c, m) \subseteq Counting(c, k)
  BY <1>1 DEF Counting
<1> QED
  BY <1>2 DEF Leads, Through

(* The count does not go down.                                             *)
LEMMA CountIsBelow ==
  ASSUME NEW c, NEW q \in Seq(Callbacks), NEW m \in Nat, NEW a, NEW k \in Nat, NEW b,
         Leads(Counting(c, m), q, <<a, k>>, <<b, m>>)
  PROVE  k <= m
<1>1. CASE q = <<>>
  <2>1. PICK f : f[0] = <<a, k>> /\ f[Len(q)] = <<b, m>>
    BY DEF Leads, Through
  <2>2. Len(q) = 0
    BY <1>1, EmptySeq
  <2>3. <<a, k>> = <<b, m>>
    BY <2>1, <2>2
  <2> QED
    BY <2>3
<1>2. CASE q # <<>>
  <2>1. PICK d : <<Head(q), <<a, k>>, d>> \in Counting(c, m)
    BY <1>2, LeadsTail
  <2>2. <<a, k>> \in States(m)
    BY <2>1, CountingIs
  <2> QED
    BY <2>2 DEF States
<1> QED
  BY <1>1, <1>2

(* Callbacks of a client that do not say it is connected: only the last    *)
(* may say that it is not.                                                 *)
NoUp(c, r) == \A i \in 1..Len(r) : /\ r[i].client = c
                                   /\ r[i].op # "UP"
                                   /\ r[i].op = "DOWN" => i = Len(r)

LEMMA NoUpLeads ==
  ASSUME NEW c, NEW r \in Seq(Callbacks), NoUp(c, r), NEW a \in BOOLEAN, NEW m \in Nat
  PROVE  \E b \in BOOLEAN :
           /\ Leads(Counting(c, m), r, <<a, m>>, <<b, m>>)
           /\ r # <<>> /\ r[Len(r)].op = "DOWN" => ~b
<1> DEFINE l == Len(r)
           b == IF l > 0 /\ r[l].op = "DOWN" THEN FALSE ELSE a
           f == [i \in 0..l |-> IF i = l THEN <<b, m>> ELSE <<a, m>>]
<1>1. l \in Nat /\ b \in BOOLEAN /\ (l = 0 => b = a) /\ (r # <<>> => l > 0)
  <2>1. l \in Nat /\ (r # <<>> => l # 0)
    BY LenProperties, EmptySeq
  <2>2. b \in BOOLEAN
    OBVIOUS
  <2>3. l = 0 => b = a
    OBVIOUS
  <2> HIDE DEF l, b
  <2> QED
    BY <2>1, <2>2, <2>3
<1>2. \A i \in 1..l : /\ r[i] \in Callbacks /\ r[i].client = c
                      /\ r[i].op \in {"EVENT", "FAILED"} \/ (r[i].op = "DOWN" /\ i = l)
  <2>1. \A i \in 1..l : r[i] \in Callbacks
    BY ElementOfSeq
  <2> QED
    BY <2>1 DEF NoUp, Callbacks
<1>3. l > 0 => IF r[l].op = "DOWN" THEN ~b ELSE b = a
  OBVIOUS
<1> HIDE DEF b, l
<1>4. \A i \in 0..l : f[i] = IF i = l THEN <<b, m>> ELSE <<a, m>>
  OBVIOUS
<1> HIDE DEF f
<1>5. <<a, m>> \in States(m) /\ <<b, m>> \in States(m)
  BY <1>1 DEF States
<1>6. ASSUME NEW i \in 1..l PROVE <<r[i], f[i - 1], f[i]>> \in Counting(c, m)
  <2>1. f[i - 1] = <<a, m>>
    BY <1>1, <1>4
  <2>2. CASE i # l
    <3>1. f[i] = <<a, m>>
      BY <1>1, <1>4, <2>2
    <3>2. Counts(c, r[i], <<a, m>>, <<a, m>>)
      BY <1>2, <2>2 DEF Counts
    <3> QED
      BY <1>2, <1>5, <2>1, <3>1, <3>2, CountingIs
  <2>3. CASE i = l
    <3>1. f[i] = <<b, m>> /\ l > 0
      BY <1>1, <1>4, <2>3
    <3>2. Counts(c, r[i], <<a, m>>, <<b, m>>)
      <4>1. CASE r[i].op = "DOWN"
        <5>1. b = FALSE
          BY <1>1, <1>3, <2>3, <3>1, <4>1
        <5> QED
          BY <1>2, <4>1, <5>1 DEF Counts
      <4>2. CASE r[i].op \in {"EVENT", "FAILED"}
        <5>1. b = a
          BY <1>3, <2>3, <3>1, <4>2
        <5> QED
          BY <1>2, <4>2, <5>1 DEF Counts
      <4> QED
        BY <1>2, <4>1, <4>2
    <3> QED
      BY <1>2, <1>5, <2>1, <3>1, <3>2, CountingIs
  <2> QED
    BY <2>2, <2>3
<1>7. f[0] = <<a, m>> /\ f[l] = <<b, m>>
  BY <1>1, <1>4
<1>8. Leads(Counting(c, m), r, <<a, m>>, <<b, m>>)
  BY <1>6, <1>7 DEF Leads, Through, l
<1>9. r # <<>> /\ r[l].op = "DOWN" => ~b
  BY <1>1, <1>3
<1> QED
  BY <1>1, <1>8, <1>9 DEF l

LEMMA RemoveAtProperties ==
  ASSUME NEW S, NEW s \in Seq(S), NEW k \in 1..Len(s)
  PROVE  /\ RemoveAt(s, k) \in Seq(S)
         /\ Len(RemoveAt(s, k)) = Len(s) - 1
         /\ \A i \in 1..(Len(s) - 1) :
              RemoveAt(s, k)[i] = IF i < k THEN s[i] ELSE s[i + 1]
<1> DEFINE l == Len(s)
           x == SubSeq(s, 1, k - 1)
           y == SubSeq(s, k + 1, l)
<1>1. l \in Nat /\ k \in 1..l /\ \A i \in 1..l : s[i] \in S
  BY LenProperties, ElementOfSeq
<1>2. x \in Seq(S) /\ Len(x) = k - 1 /\ \A i \in 1..(k - 1) : x[i] = s[i]
  BY <1>1, SubSeqProperties
<1>3. y \in Seq(S) /\ Len(y) = l - k /\ \A i \in 1..(l - k) : y[i] = s[k + i]
  <2>1. y \in Seq(S) /\ Len(y) = IF k + 1 <= l THEN l - (k + 1) + 1 ELSE 0
    BY <1>1, SubSeqProperties
  <2>2. \A i \in 1..(l - (k + 1) + 1) : y[i] = s[(k + 1) + i - 1]
    BY <1>1, SubSeqProperties
  <2> QED
    BY <1>1, <2>1, <2>2
<1>4. RemoveAt(s, k) = x \o y
  BY DEF RemoveAt
<1> HIDE DEF x, y, l
<1>5. /\ x \o y \in Seq(S)
      /\ Len(x \o y) = l - 1
      /\ \A i \in 1..(l - 1) : (x \o y)[i] = IF i <= k - 1 THEN x[i] ELSE y[i - (k - 1)]
  BY <1>1, <1>2, <1>3, ConcatProperties
<1>6. ASSUME NEW i \in 1..(l - 1)
      PROVE  (x \o y)[i] = IF i < k THEN s[i] ELSE s[i + 1]
  <2>1. CASE i < k
    BY <1>1, <1>2, <1>5, <2>1
  <2>2. CASE i >= k
    <3>1. i - (k - 1) \in 1..(l - k) /\ k + (i - (k - 1)) = i + 1
      BY <1>1, <2>2
    <3>2. (x \o y)[i] = y[i - (k - 1)]
      BY <1>1, <1>5, <2>2
    <3>3. y[i - (k - 1)] = s[i + 1]
      BY <1>3, <3>1
    <3>4. ~(i < k)
      BY <1>1, <2>2
    <3> QED
      BY <3>2, <3>3, <3>4
  <2>3. i < k \/ i >= k
    BY <1>1
  <2> QED
    BY <2>1, <2>2, <2>3
<1> QED
  BY <1>4, <1>5, <1>6 DEF l

-----------------------------------------------------------------------------
(* The inductive invariant.                                                *)
One(b) == IF b THEN 1 ELSE 0

(* A connection is being handled of a client that has a subscription.      *)
Leaking(c) == pc \in {"get", "subscribe"} /\ cur = c /\ event_id[c]

LeakPath(c) ==
  \E up \in BOOLEAN, m \in Nat, k \in Nat :
    /\ Leads(Counting(c, m), queue, <<online[c], k>>, <<up, m>>)
    /\ subs[c] + One(Leaking(c)) <= k + One(event_id[c])
    /\ m + One(up /\ link[c] = "down") <= faults

LeakInv ==
  /\ pc \in {"clear", "exit"} => LeakIsBounded
  /\ pc \notin {"clear", "exit"} => \A c \in Clients : /\ LeakPath(c)
                                                       /\ event_id[c] => online[c]
  /\ pc \in {"get", "subscribe"} => online[cur]

LEMMA OneIs == \A b \in BOOLEAN : One(b) = IF b THEN 1 ELSE 0
BY DEF One

LEMMA LeakTypes ==
  ASSUME IInv
  PROVE  /\ queue \in Seq(Callbacks)
         /\ subs \in [Clients -> Nat] /\ faults \in Nat
         /\ event_id \in [Clients -> BOOLEAN] /\ online \in [Clients -> BOOLEAN]
         /\ link \in [Clients -> {"up", "down"}]
BY IInvParts, CABoundAssumption DEF CATypeOK, ClientTypeOK, MainTypeOK

LEMMA PathBounds ==
  ASSUME IInv, NEW c \in Clients, LeakPath(c)
  PROVE  subs[c] <= faults + One(event_id[c])
<1>1. PICK up \in BOOLEAN, m \in Nat, k \in Nat :
        /\ Leads(Counting(c, m), queue, <<online[c], k>>, <<up, m>>)
        /\ subs[c] + One(Leaking(c)) <= k + One(event_id[c])
        /\ m + One(up /\ link[c] = "down") <= faults
  BY DEF LeakPath
<1>2. k <= m
  BY <1>1, LeakTypes, CountIsBelow
<1>3. One(Leaking(c)) \in {0, 1} /\ One(up /\ link[c] = "down") \in {0, 1}
      /\ One(event_id[c]) \in {0, 1}
  BY DEF One
<1>4. subs[c] \in Nat /\ faults \in Nat
  BY LeakTypes
<1> QED
  BY <1>1, <1>2, <1>3, <1>4

LEMMA LeakInvBounds ==
  ASSUME IInv, LeakInv
  PROVE  LeakIsBounded
<1>1. CASE pc \in {"clear", "exit"}
  BY <1>1 DEF LeakInv
<1>2. CASE pc \notin {"clear", "exit"}
  <2> SUFFICES ASSUME NEW c \in Clients
               PROVE  subs[c] <= faults + (IF event_id[c] THEN 1 ELSE 0)
    BY DEF LeakIsBounded
  <2>1. LeakPath(c)
    BY <1>2 DEF LeakInv
  <2> QED
    BY <2>1, PathBounds DEF One
<1> QED
  BY <1>1, <1>2

LEMMA LeakInvInit == Init => LeakInv
<1> SUFFICES ASSUME Init PROVE LeakInv
  OBVIOUS
<1>1. /\ queue = <<>> /\ faults = 0 /\ pc = "start"
      /\ \A c \in Clients : online[c] = FALSE /\ subs[c] = 0 /\ ~event_id[c]
  BY DEF Init, CAInit, ClientInit
<1>2. queue \in Seq(Callbacks) /\ Len(queue) = 0
  BY <1>1, EmptySeq
<1>3. ASSUME NEW c \in Clients PROVE LeakPath(c)
  <2>1. \A i \in 1..Len(queue) : <<queue[i], <<FALSE, 0>>, <<FALSE, 0>>>> \in Counting(c, 0)
    BY <1>2
  <2>2. Leads(Counting(c, 0), queue, <<online[c], 0>>, <<FALSE, 0>>)
    BY <1>1, <1>2, <2>1, LeadsNowhere
  <2>3. One(Leaking(c)) = 0 /\ One(event_id[c]) = 0 /\ One(FALSE /\ link[c] = "down") = 0
    BY <1>1 DEF Leaking, One
  <2>4. subs[c] + One(Leaking(c)) <= 0 + One(event_id[c])
    BY <1>1, <2>3
  <2>5. 0 + One(FALSE /\ link[c] = "down") <= faults
    BY <1>1, <2>3
  <2>6. FALSE \in BOOLEAN /\ 0 \in Nat
    OBVIOUS
  <2> QED
    BY <2>2, <2>4, <2>5, <2>6 DEF LeakPath
<1> QED
  BY <1>1, <1>3 DEF LeakInv

(* The library makes no call about the connection being up.                *)
LEMMA NoUpLeaks ==
  ASSUME IInv, NEW c \in Clients, LeakPath(c),
         NEW r \in Seq(Callbacks), NoUp(c, r), queue' = queue \o r,
         UNCHANGED <<pc, cur, online, event_id, subs>>,
         link'[c] = "down" => \/ r # <<>> /\ r[Len(r)].op = "DOWN" /\ faults' = faults
                              \/ faults' = faults + 1,
         faults' \in {faults, faults + 1}
  PROVE  LeakPath(c)'
<1>1. PICK up \in BOOLEAN, m \in Nat, k \in Nat :
        /\ Leads(Counting(c, m), queue, <<online[c], k>>, <<up, m>>)
        /\ subs[c] + One(Leaking(c)) <= k + One(event_id[c])
        /\ m + One(up /\ link[c] = "down") <= faults
  BY DEF LeakPath
<1>2. PICK b \in BOOLEAN : /\ Leads(Counting(c, m), r, <<up, m>>, <<b, m>>)
                           /\ r # <<>> /\ r[Len(r)].op = "DOWN" => ~b
  BY NoUpLeads
<1>3. Leads(Counting(c, m), queue', <<online'[c], k>>, <<b, m>>)
  BY <1>1, <1>2, LeakTypes, LeadsConcat
<1>4. m <= faults
  <2>1. One(up /\ link[c] = "down") \in {0, 1} /\ faults \in Nat
    BY LeakTypes DEF One
  <2> QED
    BY <1>1, <2>1
<1>5. m + One(b /\ link'[c] = "down") <= faults'
  <2>1. CASE b /\ link'[c] = "down"
    <3>1. faults' = faults + 1 /\ One(b /\ link'[c] = "down") = 1
      BY <1>2, <2>1 DEF One
    <3> QED
      BY <1>4, <3>1, LeakTypes
  <2>2. CASE ~(b /\ link'[c] = "down")
    <3>1. One(b /\ link'[c] = "down") = 0
      BY <2>2 DEF One
    <3> QED
      BY <1>4, <3>1, LeakTypes
  <2> QED
    BY <2>1, <2>2
<1>6. subs'[c] + One(Leaking(c)') <= k + One(event_id'[c])
  <2>1. Leaking(c)' <=> Leaking(c)
    BY DEF Leaking
  <2>2. One(Leaking(c)') = One(Leaking(c))
    BY <2>1 DEF One
  <2> QED
    BY <1>1, <2>2
<1> QED
  BY <1>3, <1>5, <1>6 DEF LeakPath

(* The library's calls for another client.                                 *)
LEMMA OthersLeakNothing ==
  ASSUME IInv, NEW c \in Clients, LeakPath(c),
         NEW r \in Seq(Callbacks), \A i \in 1..Len(r) : r[i].client # c, queue' = queue \o r,
         UNCHANGED <<pc, cur, online, event_id, subs>>, link'[c] = link[c],
         faults' \in {faults, faults + 1}
  PROVE  LeakPath(c)'
<1>1. PICK up \in BOOLEAN, m \in Nat, k \in Nat :
        /\ Leads(Counting(c, m), queue, <<online[c], k>>, <<up, m>>)
        /\ subs[c] + One(Leaking(c)) <= k + One(event_id[c])
        /\ m + One(up /\ link[c] = "down") <= faults
  BY DEF LeakPath
<1>2. Leads(Counting(c, m), r, <<up, m>>, <<up, m>>)
  <2>1. <<up, m>> \in States(m)
    BY DEF States
  <2>2. \A i \in 1..Len(r) : r[i] \in Callbacks /\ Counts(c, r[i], <<up, m>>, <<up, m>>)
    BY ElementOfSeq DEF Counts
  <2>3. \A i \in 1..Len(r) : <<r[i], <<up, m>>, <<up, m>>>> \in Counting(c, m)
    BY <2>1, <2>2, CountingIs
  <2> QED
    BY <2>3, LeadsNowhere
<1>3. Leads(Counting(c, m), queue', <<online'[c], k>>, <<up, m>>)
  BY <1>1, <1>2, LeakTypes, LeadsConcat
<1>4. m + One(up /\ link'[c] = "down") <= faults'
  <2>1. One(up /\ link[c] = "down") \in {0, 1} /\ faults \in Nat
    BY LeakTypes DEF One
  <2> QED
    BY <1>1, <2>1
<1>5. subs'[c] + One(Leaking(c)') <= k + One(event_id'[c])
  <2>1. Leaking(c)' <=> Leaking(c)
    BY DEF Leaking
  <2>2. One(Leaking(c)') = One(Leaking(c))
    BY <2>1 DEF One
  <2> QED
    BY <1>1, <2>2
<1> QED
  BY <1>3, <1>4, <1>5 DEF LeakPath

LEMMA ConnectLeaks ==
  ASSUME IInv, NEW c \in Clients, LeakPath(c), link[c] = "down", link'[c] = "up",
         queue' = queue \o <<Up(c)>>, UNCHANGED <<pc, cur, online, event_id, subs, faults>>
  PROVE  LeakPath(c)'
<1>1. PICK up \in BOOLEAN, m \in Nat, k \in Nat :
        /\ Leads(Counting(c, m), queue, <<online[c], k>>, <<up, m>>)
        /\ subs[c] + One(Leaking(c)) <= k + One(event_id[c])
        /\ m + One(up /\ link[c] = "down") <= faults
  BY DEF LeakPath
<1> DEFINE p == IF up THEN m + 1 ELSE m
<1>2. p \in Nat /\ m <= p /\ p <= faults
  <2>1. One(up /\ link[c] = "down") = IF up THEN 1 ELSE 0
    BY DEF One
  <2> QED
    BY <1>1, <2>1
<1>3. Counts(c, Up(c), <<up, m>>, <<TRUE, p>>)
  BY DEF Counts, Up
<1> HIDE DEF p
<1>4. <<up, m>> \in States(p) /\ <<TRUE, p>> \in States(p)
  <2>1. m \in 0..p /\ p \in 0..p
    BY <1>2
  <2> QED
    BY <2>1 DEF States
<1>5. Leads(Counting(c, p), <<Up(c)>>, <<up, m>>, <<TRUE, p>>)
  BY <1>3, <1>4, CallbackTypes, CountingIs, LeadsOne
<1>6. Leads(Counting(c, p), queue, <<online[c], k>>, <<up, m>>)
  BY <1>1, <1>2, CountingGrows
<1>7. Leads(Counting(c, p), queue', <<online'[c], k>>, <<TRUE, p>>)
  <2>1. <<Up(c)>> \in Seq(Callbacks)
    BY CallbackTypes
  <2> QED
    BY <1>5, <1>6, <2>1, LeakTypes, LeadsConcat
<1>8. p + One(TRUE /\ link'[c] = "down") <= faults'
  <2>1. One(TRUE /\ link'[c] = "down") = 0
    BY DEF One
  <2> QED
    BY <1>2, <2>1
<1>9. subs'[c] + One(Leaking(c)') <= k + One(event_id'[c])
  <2>1. Leaking(c)' <=> Leaking(c)
    BY DEF Leaking
  <2>2. One(Leaking(c)') = One(Leaking(c))
    BY <2>1 DEF One
  <2> QED
    BY <1>1, <2>2
<1> QED
  BY <1>2, <1>7, <1>8, <1>9 DEF LeakPath

(* What Buffer queues when there is one callback, and when one is lost.    *)
LEMMA BufferOne ==
  ASSUME NEW cb, Buffer(<<cb>>), queue \in Seq(Callbacks)
  PROVE  \/ queue' = queue \o <<cb>> /\ faults' = faults
         \/ queue' = queue \o <<>> /\ faults' = faults + 1
<1>1. CASE queue' = queue \o <<cb>> /\ UNCHANGED faults
  BY <1>1
<1>2. CASE Fault /\ \E k \in DOMAIN <<cb>> : queue' = queue \o RemoveAt(<<cb>>, k)
  <2> DEFINE s == <<cb>>
             S == {cb}
  <2>1. PICK k \in DOMAIN s : queue' = queue \o RemoveAt(s, k)
    BY <1>2
  <2>2. s \in Seq(S) /\ Len(s) = 1 /\ k \in 1..Len(s)
    OBVIOUS
  <2> HIDE DEF s, S
  <2>3. RemoveAt(s, k) \in Seq(S) /\ Len(RemoveAt(s, k)) = Len(s) - 1
    BY <2>2, RemoveAtProperties
  <2>4. RemoveAt(s, k) = <<>>
    BY <2>2, <2>3, EmptySeq
  <2> QED
    BY <1>2, <2>1, <2>4 DEF Fault, s
<1> QED
  BY <1>1, <1>2 DEF Buffer

LEMMA NoUpRemoved ==
  ASSUME NEW c, NEW r \in Seq(Callbacks), NoUp(c, r), NEW k \in 1..Len(r)
  PROVE  NoUp(c, RemoveAt(r, k)) /\ RemoveAt(r, k) \in Seq(Callbacks)
<1> DEFINE x == RemoveAt(r, k)
<1>1. /\ x \in Seq(Callbacks) /\ Len(x) = Len(r) - 1 /\ Len(r) \in Nat
      /\ \A i \in 1..(Len(r) - 1) : x[i] = IF i < k THEN r[i] ELSE r[i + 1]
  BY RemoveAtProperties, LenProperties
<1> HIDE DEF x
<1>2. ASSUME NEW i \in 1..Len(x)
      PROVE  x[i].client = c /\ x[i].op # "UP" /\ (x[i].op = "DOWN" => i = Len(x))
  <2>1. CASE i < k
    <3>1. x[i] = r[i] /\ i \in 1..Len(r) /\ i # Len(r)
      BY <1>1, <2>1
    <3> QED
      BY <3>1 DEF NoUp
  <2>2. CASE ~(i < k)
    <3>1. x[i] = r[i + 1] /\ i + 1 \in 1..Len(r) /\ (i + 1 = Len(r) => i = Len(x))
      BY <1>1, <2>2
    <3> QED
      BY <3>1 DEF NoUp
  <2> QED
    BY <2>1, <2>2
<1>3. NoUp(c, x)
  BY <1>2 DEF NoUp
<1> QED
  BY <1>1, <1>3 DEF x

(* A step of the library.                                                  *)
LEMMA LibraryLeak ==
  ASSUME IInv, NEW c \in Clients, LibraryStep(c), NEW d \in Clients, LeakPath(d)
  PROVE  LeakPath(d)'
<1>1. UNCHANGED <<pc, cur, online, event_id>>
  BY DEF LibraryStep, clientVars, mainVars, historyVars
<1>2. UNCHANGED subs
  BY DEF LibraryStep, Library, Connect, CircuitLost, PVChange, DeliverGet, DeliverEvent
<1>3. \A r \in Seq(Callbacks) :
        /\ \A i \in 1..Len(r) : r[i].client = c
        /\ queue' = queue \o r
        /\ link' = [link EXCEPT ![c] = link'[c]]
        /\ faults' \in {faults, faults + 1}
        /\ d # c
        => LeakPath(d)'
  <2> SUFFICES ASSUME NEW r \in Seq(Callbacks), \A i \in 1..Len(r) : r[i].client = c,
                      queue' = queue \o r, link' = [link EXCEPT ![c] = link'[c]],
                      faults' \in {faults, faults + 1}, d # c
               PROVE  LeakPath(d)'
    OBVIOUS
  <2>1. \A i \in 1..Len(r) : r[i].client # d
    OBVIOUS
  <2>2. link'[d] = link[d]
    BY LeakTypes
  <2> QED
    BY <1>1, <1>2, <2>1, <2>2, OthersLeakNothing
<1>4. CASE Connect(c)
  <2>1. link[c] = "down" /\ link' = [link EXCEPT ![c] = "up"] /\ Buffer(<<Up(c)>>)
    BY <1>4 DEF Connect
  <2>2. link'[c] = "up" /\ link' = [link EXCEPT ![c] = link'[c]]
    BY <2>1, LeakTypes
  <2>3. CASE queue' = queue \o <<Up(c)>> /\ faults' = faults
    <3>1. CASE d = c
      BY <1>1, <1>2, <2>1, <2>2, <2>3, <3>1, ConnectLeaks
    <3>2. CASE d # c
      <4>1. <<Up(c)>> \in Seq(Callbacks)
            /\ \A i \in 1..Len(<<Up(c)>>) : <<Up(c)>>[i].client = c
        BY CallbackTypes
      <4> QED
        BY <1>3, <2>2, <2>3, <3>2, <4>1
    <3> QED
      BY <3>1, <3>2
  <2>4. CASE queue' = queue \o <<>> /\ faults' = faults + 1
    <3>1. <<>> \in Seq(Callbacks) /\ Len(<<>>) = 0
      BY EmptySeq
    <3>2. CASE d = c
      <4>1. NoUp(c, <<>>)
        BY <3>1 DEF NoUp
      <4> QED
        BY <1>1, <1>2, <2>2, <2>4, <3>1, <3>2, <4>1, NoUpLeaks
    <3>3. CASE d # c
      <4>1. \A i \in 1..Len(<<>>) : <<>>[i].client = c
        BY <3>1
      <4> QED
        BY <1>3, <2>2, <2>4, <3>1, <3>3, <4>1
    <3> QED
      BY <3>2, <3>3
  <2> QED
    BY <2>1, <2>3, <2>4, LeakTypes, BufferOne
<1>5. ASSUME NEW r \in Seq(Callbacks), NoUp(c, r), Buffer(r),
             link' = [link EXCEPT ![c] = link'[c]],
             link'[c] = "down" => r # <<>> /\ r[Len(r)].op = "DOWN"
      PROVE  LeakPath(d)'
  <2>1. CASE queue' = queue \o r /\ UNCHANGED faults
    <3>1. CASE d = c
      BY <1>1, <1>2, <1>5, <2>1, <3>1, NoUpLeaks
    <3>2. CASE d # c
      BY <1>3, <1>5, <2>1, <3>2 DEF NoUp
    <3> QED
      BY <3>1, <3>2
  <2>2. CASE Fault /\ \E k \in DOMAIN r : queue' = queue \o RemoveAt(r, k)
    <3>1. PICK k \in DOMAIN r : queue' = queue \o RemoveAt(r, k)
      BY <2>2
    <3>2. k \in 1..Len(r)
      BY LenProperties
    <3>3. NoUp(c, RemoveAt(r, k)) /\ RemoveAt(r, k) \in Seq(Callbacks)
      BY <1>5, <3>2, NoUpRemoved
    <3>4. faults' = faults + 1
      BY <2>2 DEF Fault
    <3>5. CASE d = c
      BY <1>1, <1>2, <3>1, <3>3, <3>4, <3>5, NoUpLeaks
    <3>6. CASE d # c
      BY <1>3, <1>5, <3>1, <3>3, <3>4, <3>6 DEF NoUp
    <3> QED
      BY <3>5, <3>6
  <2> QED
    BY <1>5, <2>1, <2>2 DEF Buffer
<1>6. CASE CircuitLost(c)
  <2> DEFINE failed == [k \in 1..gets[c] |-> Failed(c)]
             r == Append(failed, Down(c))
  <2>1. link' = [link EXCEPT ![c] = "down"] /\ Buffer(r)
    BY <1>6 DEF CircuitLost
  <2>2. gets[c] \in Nat
    BY IInvParts DEF CATypeOK
  <2>3. failed \in [1..gets[c] -> Callbacks] /\ \A k \in 1..gets[c] : failed[k] = Failed(c)
    BY CallbackTypes
  <2>4. failed \in Seq(Callbacks) /\ Len(failed) = gets[c]
    BY <2>2, <2>3, SeqDef, LenProperties
  <2> HIDE DEF failed
  <2>5. /\ r \in Seq(Callbacks) /\ Len(r) = gets[c] + 1
        /\ \A k \in 1..gets[c] : r[k] = Failed(c)
        /\ r[gets[c] + 1] = Down(c)
    BY <2>3, <2>4, CallbackTypes, AppendProperties
  <2> HIDE DEF r
  <2>6. NoUp(c, r)
    <3> SUFFICES ASSUME NEW i \in 1..Len(r)
                 PROVE  r[i].client = c /\ r[i].op # "UP" /\ (r[i].op = "DOWN" => i = Len(r))
      BY DEF NoUp
    <3>1. i \in 1..gets[c] \/ i = gets[c] + 1
      BY <2>2, <2>5
    <3> QED
      BY <2>5, <3>1 DEF Failed, Down
  <2>7. r # <<>> /\ r[Len(r)].op = "DOWN"
    BY <2>2, <2>5, EmptySeq DEF Down
  <2>8. link' = [link EXCEPT ![c] = link'[c]]
    BY <2>1, LeakTypes
  <2> QED
    BY <1>5, <2>1, <2>5, <2>6, <2>7, <2>8
<1>7. CASE DeliverGet(c) \/ DeliverEvent(c)
  <2>1. link[c] = "up" /\ link' = link /\ Buffer(<<Update(c)>>)
    BY <1>7 DEF DeliverGet, DeliverEvent, serverVars
  <2>2. Update(c) \in Callbacks /\ Update(c).client = c /\ Update(c).op = "EVENT"
    BY IInvParts, UpdateType DEF Update, Event
  <2>3. NoUp(c, <<Update(c)>>) /\ <<Update(c)>> \in Seq(Callbacks)
    BY <2>2 DEF NoUp
  <2>4. link' = [link EXCEPT ![c] = link'[c]] /\ link'[c] # "down"
    BY <2>1, LeakTypes
  <2> QED
    BY <1>5, <2>1, <2>3, <2>4
<1>8. CASE PVChange(c)
  <2>1. UNCHANGED <<queue, link, faults>>
    BY <1>8 DEF PVChange
  <2>2. queue' = queue \o <<>> /\ <<>> \in Seq(Callbacks) /\ Len(<<>>) = 0
    BY <2>1, LeakTypes, ConcatProperties, EmptySeq
  <2>3. \A i \in 1..Len(<<>>) : <<>>[i].client # d
    BY <2>2
  <2> QED
    BY <1>1, <1>2, <2>1, <2>2, <2>3, OthersLeakNothing
<1> QED
  BY <1>4, <1>6, <1>7, <1>8 DEF LibraryStep, Library

-----------------------------------------------------------------------------
(* The steps of the application.                                           *)
LEMMA FaultsGrow ==
  ASSUME IInv, [Next]_vars
  PROVE  faults' = faults \/ faults' = faults + 1
<1>1. ASSUME NEW c \in Clients, HandleUp(c) \/ HandleDown(c)
      PROVE  faults' = faults
  BY <1>1 DEF HandleUp, HandleDown, ConnectionUp, ConnectionDown
<1>2. ASSUME NEW c \in Clients, LibraryStep(c)
      PROVE  faults' = faults \/ faults' = faults + 1
  BY <1>2, Zenon DEF LibraryStep, Library, Connect, CircuitLost, PVChange, DeliverGet,
                     DeliverEvent, Buffer, Fault
<1>3. ASSUME Get \/ Subscribe
      PROVE  faults' = faults \/ faults' = faults + 1
  BY <1>3 DEF Get, Subscribe, GetAccepted, GetRefused, SubscribeAccepted, SubscribeRefused,
              ArrayGet, CreateSubscription, Fault
<1>4. ASSUME Create_All_Channels \/ Clear_All_Channels
      PROVE  faults' = faults \/ faults' = faults + 1
  BY <1>4 DEF Create_All_Channels, Clear_All_Channels, Create_Channel, CreateChannel,
              Clear_Channel, Fault
<1>5. ASSUME HandleEvent \/ SystemReturns \/ QuietStep \/ SigInt \/ SigTerm \/ UNCHANGED vars
      PROVE  faults' = faults \/ faults' = faults + 1
  BY <1>5 DEF HandleEvent, EventHandled, SystemReturns, QuietStep, ContextCreate,
              ContextCreateFails, Continue, ShutDown, EndDrain, Timeouts, Exit, Fault,
              SigInt, SigTerm, Signalled, vars, caVars
<1> QED
  BY <1>1, <1>2, <1>3, <1>4, <1>5, StepKinds

(* A callback is taken: the path of client c goes on from what it says.    *)
LEMMA TakeLeaks ==
  ASSUME IInv, NEW cb, Take(cb), NEW c \in Clients, LeakPath(c),
         UNCHANGED <<link, faults>>
  PROVE  \E up \in BOOLEAN, m \in Nat, k \in Nat, s \in BOOLEAN \X Nat :
           /\ Leads(Counting(c, m), queue', s, <<up, m>>)
           /\ Counts(c, cb, <<online[c], k>>, s)
           /\ cb \in Callbacks
           /\ subs[c] <= k + One(event_id[c])
           /\ m + One(up /\ link'[c] = "down") <= faults'
<1>1. PICK up \in BOOLEAN, m \in Nat, k \in Nat :
        /\ Leads(Counting(c, m), queue, <<online[c], k>>, <<up, m>>)
        /\ subs[c] + One(Leaking(c)) <= k + One(event_id[c])
        /\ m + One(up /\ link[c] = "down") <= faults
  BY DEF LeakPath
<1>2. queue # <<>> /\ cb = Head(queue) /\ queue' = Tail(queue) /\ pc = "drain"
  BY DEF Take
<1>3. PICK s : <<Head(queue), <<online[c], k>>, s>> \in Counting(c, m)
               /\ Leads(Counting(c, m), Tail(queue), s, <<up, m>>)
  BY <1>1, <1>2, LeakTypes, LeadsTail
<1>4. Counts(c, cb, <<online[c], k>>, s) /\ cb \in Callbacks /\ s \in BOOLEAN \X Nat
  BY <1>2, <1>3, CountingIs DEF States
<1>5. One(Leaking(c)) = 0
  BY <1>2 DEF Leaking, One
<1>6. subs[c] <= k + One(event_id[c])
  BY <1>1, <1>5, LeakTypes
<1> QED
  BY <1>1, <1>2, <1>3, <1>4, <1>6

LEMMA HandleUpLeak ==
  ASSUME IInv, LeakInv, NEW c \in Clients, HandleUp(c), NEW d \in Clients
  PROVE  LeakPath(d)' /\ (event_id'[d] => online'[d])
<1>1. /\ Take(Up(c))
      /\ UNCHANGED <<link, subs, event_id, faults>>
      /\ online' = [online EXCEPT ![c] = TRUE]
      /\ pc = "drain"
      /\ \/ cur' = c /\ pc' = "get"
         \/ pc' = After(n')
  BY DEF HandleUp, Take, ConnectionUp, serverVars
<1>2. LeakPath(d) /\ (event_id[d] => online[d])
  BY <1>1 DEF LeakInv
<1>3. PICK up \in BOOLEAN, m \in Nat, k \in Nat, s \in BOOLEAN \X Nat :
        /\ Leads(Counting(d, m), queue', s, <<up, m>>)
        /\ Counts(d, Up(c), <<online[d], k>>, s)
        /\ subs[d] <= k + One(event_id[d])
        /\ m + One(up /\ link'[d] = "down") <= faults'
  BY <1>1, <1>2, TakeLeaks
<1>4. Up(c).client = c /\ Up(c).op = "UP"
  BY DEF Up
<1>5. event_id'[d] => online'[d]
  BY <1>1, <1>2, LeakTypes
<1>6. CASE d = c
  <2> DEFINE p == IF online[c] THEN k + 1 ELSE k
  <2>1. s = <<TRUE, p>>
    BY <1>3, <1>4, <1>6 DEF Counts
  <2>2. p \in Nat /\ subs'[d] + One(Leaking(d)') <= p + One(event_id'[d])
    <3>1. CASE event_id[d]
      <4>1. p = k + 1 /\ One(Leaking(d)') \in {0, 1} /\ One(event_id[d]) = 1
        BY <1>2, <1>6, <3>1 DEF One
      <4> QED
        BY <1>1, <1>3, <4>1, LeakTypes
    <3>2. CASE ~event_id[d]
      <4>1. One(Leaking(d)') = 0 /\ One(event_id[d]) = 0
        BY <1>1, <3>2 DEF Leaking, One
      <4>2. p \in Nat /\ k <= p
        OBVIOUS
      <4> HIDE DEF p
      <4> QED
        BY <1>1, <1>3, <4>1, <4>2, LeakTypes
    <3> QED
      BY <3>1, <3>2
  <2>3. online'[d] = TRUE
    BY <1>1, <1>6, LeakTypes
  <2> HIDE DEF p
  <2>4. Leads(Counting(d, m), queue', <<online'[d], p>>, <<up, m>>)
    BY <1>3, <2>1, <2>3
  <2> QED
    BY <1>3, <1>5, <2>2, <2>4 DEF LeakPath
<1>7. CASE d # c
  <2>1. s = <<online[d], k>>
    BY <1>3, <1>4, <1>7 DEF Counts
  <2>2. online'[d] = online[d]
    BY <1>1, <1>7, LeakTypes
  <2>3. One(Leaking(d)') = 0
    BY <1>1, <1>7, AfterIs DEF Leaking, One
  <2>4. subs'[d] + One(Leaking(d)') <= k + One(event_id'[d])
    BY <1>1, <1>3, <2>3, LeakTypes
  <2>5. Leads(Counting(d, m), queue', <<online'[d], k>>, <<up, m>>)
    BY <1>3, <2>1, <2>2
  <2> QED
    BY <1>3, <1>5, <2>4, <2>5 DEF LeakPath
<1> QED
  BY <1>6, <1>7

LEMMA HandleDownLeak ==
  ASSUME IInv, LeakInv, NEW c \in Clients, HandleDown(c), NEW d \in Clients
  PROVE  LeakPath(d)' /\ (event_id'[d] => online'[d])
<1>1. /\ Take(Down(c))
      /\ UNCHANGED <<link, faults>>
      /\ Unsubscribe_Channel(c)
      /\ online' = [online EXCEPT ![c] = FALSE]
      /\ pc = "drain"
      /\ pc' \in {"system", "drain", "timeouts"}
  BY AfterIs DEF HandleDown, Take, ConnectionDown, serverVars
<1>2. LeakPath(d) /\ (event_id[d] => online[d])
  BY <1>1 DEF LeakInv
<1>3. PICK up \in BOOLEAN, m \in Nat, k \in Nat, s \in BOOLEAN \X Nat :
        /\ Leads(Counting(d, m), queue', s, <<up, m>>)
        /\ Counts(d, Down(c), <<online[d], k>>, s)
        /\ subs[d] <= k + One(event_id[d])
        /\ m + One(up /\ link'[d] = "down") <= faults'
  BY <1>1, <1>2, TakeLeaks
<1>4. Down(c).client = c /\ Down(c).op = "DOWN"
  BY DEF Down
<1>5. \/ /\ event_id[c]
         /\ subs' = [subs EXCEPT ![c] = subs[c] - 1]
         /\ event_id' = [event_id EXCEPT ![c] = FALSE]
      \/ ~event_id[c] /\ UNCHANGED <<subs, event_id>>
  BY <1>1 DEF Unsubscribe_Channel, ClearSubscription
<1>6. One(Leaking(d)') = 0
  BY <1>1 DEF Leaking, One
<1>7. CASE d = c
  <2>1. s = <<FALSE, k>>
    BY <1>3, <1>4, <1>7 DEF Counts
  <2>2. online'[d] = FALSE /\ ~event_id'[d]
    BY <1>1, <1>5, <1>7, LeakTypes
  <2>3. subs'[d] + One(Leaking(d)') <= k + One(event_id'[d])
    <3>1. One(event_id'[d]) = 0
      BY <2>2 DEF One
    <3>2. subs'[d] = subs[d] - One(event_id[d]) /\ One(event_id[d]) \in {0, 1}
      BY <1>5, <1>7, LeakTypes DEF One
    <3> QED
      BY <1>3, <1>6, <3>1, <3>2, LeakTypes
  <2>4. Leads(Counting(d, m), queue', <<online'[d], k>>, <<up, m>>)
    BY <1>3, <2>1, <2>2
  <2> QED
    BY <1>3, <2>2, <2>3, <2>4 DEF LeakPath
<1>8. CASE d # c
  <2>1. s = <<online[d], k>>
    BY <1>3, <1>4, <1>8 DEF Counts
  <2>2. online'[d] = online[d] /\ event_id'[d] = event_id[d] /\ subs'[d] = subs[d]
    BY <1>1, <1>5, <1>8, LeakTypes
  <2>3. subs'[d] + One(Leaking(d)') <= k + One(event_id'[d])
    BY <1>3, <1>6, <2>2, LeakTypes
  <2>4. Leads(Counting(d, m), queue', <<online'[d], k>>, <<up, m>>)
    BY <1>3, <2>1, <2>2
  <2> QED
    BY <1>2, <1>3, <2>2, <2>3, <2>4 DEF LeakPath
<1> QED
  BY <1>7, <1>8

LEMMA HandleEventLeak ==
  ASSUME IInv, LeakInv, HandleEvent, NEW d \in Clients
  PROVE  LeakPath(d)' /\ (event_id'[d] => online'[d])
<1> DEFINE cb == Head(queue)
<1>1. /\ Take(cb)
      /\ cb.op \in {"EVENT", "FAILED"}
      /\ UNCHANGED <<link, faults, online, subs, event_id>>
      /\ pc = "drain"
      /\ pc' \in {"system", "drain", "timeouts"}
  BY AfterIs DEF HandleEvent, Take, EventHandled, serverVars, clientVars
<1> HIDE DEF cb
<1>2. LeakPath(d) /\ (event_id[d] => online[d])
  BY <1>1 DEF LeakInv
<1>3. PICK up \in BOOLEAN, m \in Nat, k \in Nat, s \in BOOLEAN \X Nat :
        /\ Leads(Counting(d, m), queue', s, <<up, m>>)
        /\ Counts(d, cb, <<online[d], k>>, s)
        /\ subs[d] <= k + One(event_id[d])
        /\ m + One(up /\ link'[d] = "down") <= faults'
  BY <1>1, <1>2, TakeLeaks
<1>4. s = <<online[d], k>>
  BY <1>1, <1>3 DEF Counts
<1>5. One(Leaking(d)') = 0
  BY <1>1 DEF Leaking, One
<1>6. subs'[d] + One(Leaking(d)') <= k + One(event_id'[d])
  BY <1>1, <1>3, <1>5, LeakTypes
<1>7. Leads(Counting(d, m), queue', <<online'[d], k>>, <<up, m>>)
  BY <1>1, <1>3, <1>4
<1> QED
  BY <1>1, <1>2, <1>3, <1>6, <1>7 DEF LeakPath

(* Subscribe_Channel: a second subscription is one that was to be leaked.  *)
LEMMA SubscribeLeak ==
  ASSUME IInv, LeakInv, Get \/ Subscribe, NEW d \in Clients
  PROVE  LeakPath(d)' /\ (event_id'[d] => online'[d])
<1>1. /\ cur \in Clients /\ pc \in {"get", "subscribe"} /\ online[cur]
      /\ LeakPath(d) /\ (event_id[d] => online[d])
  BY IInvParts DEF Get, Subscribe, ChannelInv, LeakInv
<1>2. /\ UNCHANGED <<link, queue, online>>
      /\ \/ pc' = "subscribe" /\ UNCHANGED <<cur, subs, event_id>>
         \/ pc' \in {"drain", "timeouts"} /\ UNCHANGED <<subs, event_id>>
         \/ /\ pc' \in {"drain", "timeouts"}
            /\ subs' = [subs EXCEPT ![cur] = subs[cur] + 1]
            /\ event_id' = [event_id EXCEPT ![cur] = TRUE]
  BY AfterIs
  DEF Get, Subscribe, GetAccepted, GetRefused, SubscribeAccepted, SubscribeRefused,
      ArrayGet, CreateSubscription, serverVars, clientVars, historyVars
<1>3. faults' = faults \/ faults' = faults + 1
  <2>1. [Next]_vars
    BY DEF Next, ApplicationStep
  <2> QED
    BY <2>1, FaultsGrow
<1>4. PICK up \in BOOLEAN, m \in Nat, k \in Nat :
        /\ Leads(Counting(d, m), queue, <<online[d], k>>, <<up, m>>)
        /\ subs[d] + One(Leaking(d)) <= k + One(event_id[d])
        /\ m + One(up /\ link[d] = "down") <= faults
  BY <1>1 DEF LeakPath
<1>5. event_id'[d] => online'[d]
  BY <1>1, <1>2, LeakTypes
<1>6. /\ One(Leaking(d)) \in {0, 1} /\ One(event_id[d]) \in {0, 1}
      /\ One(up /\ link[d] = "down") \in {0, 1}
  BY DEF One
<1>7. m + One(up /\ link'[d] = "down") <= faults'
  BY <1>2, <1>3, <1>4, <1>6, LeakTypes
<1>8. subs'[d] + One(Leaking(d)') <= k + One(event_id'[d])
  <2>1. CASE pc' = "subscribe" /\ UNCHANGED <<cur, subs, event_id>>
    <3>1. Leaking(d)' <=> Leaking(d)
      BY <1>1, <2>1 DEF Leaking
    <3>2. One(Leaking(d)') = One(Leaking(d))
      BY <3>1 DEF One
    <3> QED
      BY <1>4, <2>1, <3>2
  <2>2. CASE pc' \in {"drain", "timeouts"} /\ UNCHANGED <<subs, event_id>>
    <3>1. One(Leaking(d)') = 0 /\ One(event_id'[d]) = One(event_id[d])
      BY <2>2 DEF Leaking, One
    <3> QED
      BY <1>4, <1>6, <2>2, <3>1, LeakTypes
  <2>3. CASE /\ pc' \in {"drain", "timeouts"}
             /\ subs' = [subs EXCEPT ![cur] = subs[cur] + 1]
             /\ event_id' = [event_id EXCEPT ![cur] = TRUE]
    <3>1. One(Leaking(d)') = 0
      BY <2>3 DEF Leaking, One
    <3>2. CASE d = cur
      <4>1. One(event_id'[d]) = 1 /\ subs'[d] = subs[d] + 1
        BY <1>1, <2>3, <3>2, LeakTypes DEF One
      <4>2. One(Leaking(d)) = One(event_id[d])
        BY <1>1, <3>2 DEF Leaking, One
      <4>3. subs[d] <= k
        BY <1>4, <4>2, <1>6, LeakTypes
      <4> QED
        BY <3>1, <4>1, <4>3, LeakTypes
    <3>3. CASE d # cur
      <4>1. event_id'[d] = event_id[d] /\ subs'[d] = subs[d]
        BY <1>1, <2>3, <3>3, LeakTypes
      <4>2. One(event_id'[d]) = One(event_id[d])
        BY <4>1
      <4> QED
        BY <1>4, <1>6, <3>1, <4>1, <4>2, LeakTypes
    <3> QED
      BY <3>2, <3>3
  <2> QED
    BY <1>2, <2>1, <2>2, <2>3
<1>9. Leads(Counting(d, m), queue', <<online'[d], k>>, <<up, m>>)
  BY <1>2, <1>4
<1> QED
  BY <1>5, <1>7, <1>8, <1>9 DEF LeakPath

LEMMA OtherLeak ==
  ASSUME IInv, OtherStep, [Next]_vars, NEW d \in Clients, LeakPath(d)
  PROVE  LeakPath(d)'
<1>1. PICK up \in BOOLEAN, m \in Nat, k \in Nat :
        /\ Leads(Counting(d, m), queue, <<online[d], k>>, <<up, m>>)
        /\ subs[d] + One(Leaking(d)) <= k + One(event_id[d])
        /\ m + One(up /\ link[d] = "down") <= faults
  BY DEF LeakPath
<1>2. UNCHANGED <<link, queue, online, subs, event_id>> /\ (Leaking(d)' <=> Leaking(d))
  BY OtherStepIs DEF Leaking
<1>3. One(Leaking(d)') = One(Leaking(d)) /\ One(up /\ link[d] = "down") \in {0, 1}
  BY <1>2 DEF One
<1>4. m + One(up /\ link'[d] = "down") <= faults'
  BY <1>1, <1>2, <1>3, LeakTypes, FaultsGrow
<1>5. subs'[d] + One(Leaking(d)') <= k + One(event_id'[d])
  BY <1>1, <1>2, <1>3
<1>6. Leads(Counting(d, m), queue', <<online'[d], k>>, <<up, m>>)
  BY <1>1, <1>2
<1> QED
  BY <1>4, <1>5, <1>6 DEF LeakPath

(* When the channels are cleared there is only less to leak.               *)
LEMMA BoundKept ==
  ASSUME IInv, LeakIsBounded, [Next]_vars, pc' \in {"clear", "exit"}
  PROVE  LeakIsBounded'
<1> SUFFICES ASSUME NEW d \in Clients
             PROVE  subs'[d] <= faults' + (IF event_id'[d] THEN 1 ELSE 0)
  BY DEF LeakIsBounded
<1>1. /\ subs[d] <= faults + (IF event_id[d] THEN 1 ELSE 0) /\ subs[d] \in Nat
      /\ faults \in Nat /\ (faults' = faults \/ faults' = faults + 1)
  BY LeakTypes, FaultsGrow DEF LeakIsBounded
<1>2. CASE subs'[d] = 0
  BY <1>1, <1>2
<1>3. CASE UNCHANGED <<subs, event_id>>
  BY <1>1, <1>3
<1>4. CASE Clear_All_Channels
  <2>1. PICK c \in todo : Clear_Channel(c)
    BY <1>4 DEF Clear_All_Channels
  <2>2. CASE channel_id[c]
    <3>1. /\ subs' = [subs EXCEPT ![c] = 0]
          /\ event_id' = [event_id EXCEPT ![c] = FALSE]
      BY <2>1, <2>2 DEF Clear_Channel, ClearChannel
    <3>2. subs'[d] = 0 \/ (subs'[d] = subs[d] /\ event_id'[d] = event_id[d])
      BY <3>1, LeakTypes
    <3> QED
      BY <1>1, <1>2, <3>2
  <2>3. CASE ~channel_id[c]
    <3>1. ~event_id[c]
      BY <2>3, IInvParts DEF ChannelInv, Unused, MainTypeOK
    <3>2. UNCHANGED <<subs, event_id>>
      BY <2>1, <2>3, <3>1 DEF Clear_Channel, Unsubscribe_Channel
    <3> QED
      BY <1>3, <3>2
  <2> QED
    BY <2>2, <2>3
<1>5. CASE OtherStep
  BY <1>3, <1>5, OtherStepIs
<1>6. ASSUME NEW c \in Clients, LibraryStep(c) PROVE UNCHANGED <<subs, event_id>>
  BY <1>6 DEF LibraryStep, Library, Connect, CircuitLost, PVChange, DeliverGet, DeliverEvent,
              clientVars
<1>7. ASSUME \/ \E c \in Clients : HandleUp(c) \/ HandleDown(c)
             \/ HandleEvent \/ Get \/ Subscribe
      PROVE  FALSE
  <2>1. pc' \in {"drain", "timeouts", "get", "subscribe", "system"}
    BY <1>7, AfterIs DEF HandleUp, HandleDown, HandleEvent, Take, Get, Subscribe
  <2> QED
    BY <2>1
<1> QED
  BY <1>3, <1>4, <1>5, <1>6, <1>7, StepKinds DEF OtherStep

LEMMA LeakInvStep ==
  ASSUME IInv, LeakInv, [Next]_vars
  PROVE  LeakInv'
<1>1. pc' \notin {"clear", "exit"} => pc \notin {"clear", "exit"}
  BY StepKinds, OtherStepIs, AfterIs
  DEF OtherStep, HandleUp, HandleDown, HandleEvent, Take, Get, Subscribe, LibraryStep,
      Clear_All_Channels
<1>2. ASSUME pc' \notin {"clear", "exit"}, NEW d \in Clients
      PROVE  LeakPath(d)' /\ (event_id'[d] => online'[d])
  <2>1. LeakPath(d) /\ (event_id[d] => online[d])
    BY <1>1, <1>2 DEF LeakInv
  <2>2. CASE OtherStep
    BY <2>1, <2>2, OtherLeak, OtherStepIs
  <2>3. ASSUME NEW c \in Clients, LibraryStep(c)
        PROVE  LeakPath(d)' /\ (event_id'[d] => online'[d])
    <3>1. UNCHANGED <<event_id, online>>
      BY <2>3 DEF LibraryStep, clientVars, historyVars
    <3> QED
      BY <2>1, <2>3, <3>1, LibraryLeak
  <2>4. ~Clear_All_Channels
    BY <1>2 DEF Clear_All_Channels
  <2> QED
    BY <2>2, <2>3, <2>4, StepKinds, HandleUpLeak, HandleDownLeak, HandleEventLeak,
       SubscribeLeak DEF OtherStep
<1>3. pc' \in {"get", "subscribe"} => online'[cur']
  <2>1. ASSUME NEW c \in Clients, HandleUp(c), pc' \in {"get", "subscribe"}
        PROVE  online'[cur']
    <3>1. online' = [online EXCEPT ![c] = TRUE] /\ cur' = c
      BY <2>1, AfterIs DEF HandleUp
    <3> QED
      BY <3>1, LeakTypes
  <2>2. ASSUME NEW c \in Clients, HandleDown(c)
        PROVE  pc' \notin {"get", "subscribe"}
    BY <2>2, AfterIs DEF HandleDown
  <2>3. ASSUME Get \/ Subscribe, pc' \in {"get", "subscribe"}
        PROVE  online'[cur']
    BY <2>3, AfterIs DEF Get, Subscribe, LeakInv, historyVars
  <2>4. ASSUME OtherStep \/ Clear_All_Channels, pc' \in {"get", "subscribe"}
        PROVE  online'[cur']
    BY <2>4, OtherStepIs DEF Clear_All_Channels, LeakInv
  <2>5. ASSUME NEW c \in Clients, LibraryStep(c), pc' \in {"get", "subscribe"}
        PROVE  online'[cur']
    BY <2>5 DEF LibraryStep, mainVars, historyVars, LeakInv
  <2>6. ASSUME HandleEvent PROVE pc' \notin {"get", "subscribe"}
    BY <2>6, AfterIs DEF HandleEvent
  <2> QED
    BY <2>1, <2>2, <2>3, <2>4, <2>5, <2>6, StepKinds DEF OtherStep
<1>4. pc' \in {"clear", "exit"} => LeakIsBounded'
  BY LeakInvBounds, BoundKept
<1> QED
  BY <1>2, <1>3, <1>4 DEF LeakInv

(* Whatever callbacks are lost and whatever calls fail, a client has at    *)
(* most one subscription that event_id does not tell of for each of them:  *)
(* a loss leaks one subscription, and leaks do not breed.                  *)
THEOREM LeaksAreBounded == Spec => []LeakIsBounded
<1> DEFINE J == IInv /\ LeakInv
<1>1. Init => J
  BY IInvInit, LeakInvInit
<1>2. J /\ [Next]_vars => J'
  BY IInvStep, LeakInvStep
<1>3. J => LeakIsBounded
  BY LeakInvBounds
<1> QED
  BY <1>1, <1>2, <1>3, PTL DEF Spec
=============================================================================
