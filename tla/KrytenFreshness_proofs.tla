----------------------- MODULE KrytenFreshness_proofs -----------------------
(***************************************************************************)
(* When no callback is lost and no call fails, for any list of clients and *)
(* any length of the queue: at rest a client is subscribed and the status  *)
(* kryten acts on is that of the PV's value.  The invariant says what the  *)
(* last callbacks in the queue tell of the circuit and of the value.       *)
(***************************************************************************)
EXTENDS KrytenPolicy_proofs, FiniteSetTheorems

-----------------------------------------------------------------------------
(* Callback cb is in q after the first k.                                  *)
FollowedBy(q, cb, k) == \E j \in 1..Len(q) : j > k /\ q[j] = cb

LEMMA FollowedGrows ==
  ASSUME NEW q \in Seq(Callbacks), NEW r \in Seq(Callbacks), NEW cb, NEW k,
         FollowedBy(q, cb, k)
  PROVE  FollowedBy(q \o r, cb, k)
<1>1. PICK j \in 1..Len(q) : j > k /\ q[j] = cb
  BY DEF FollowedBy
<1>2. j \in 1..Len(q \o r) /\ (q \o r)[j] = q[j]
  BY ConcatProperties, LenProperties
<1> QED
  BY <1>1, <1>2 DEF FollowedBy

LEMMA FollowedTail ==
  ASSUME NEW q \in Seq(Callbacks), q # <<>>, NEW cb, NEW k \in Nat
  PROVE  FollowedBy(Tail(q), cb, k) <=> FollowedBy(q, cb, k + 1)
<1>1. /\ Len(q) \in Nat /\ Len(q) > 0 /\ Len(Tail(q)) = Len(q) - 1
      /\ \A i \in 1..(Len(q) - 1) : Tail(q)[i] = q[i + 1]
  BY LenProperties, EmptySeq, HeadTailProperties
<1>2. ASSUME FollowedBy(Tail(q), cb, k) PROVE FollowedBy(q, cb, k + 1)
  <2>1. PICK j \in 1..(Len(q) - 1) : j > k /\ Tail(q)[j] = cb
    BY <1>1, <1>2 DEF FollowedBy
  <2>2. j + 1 \in 1..Len(q) /\ j + 1 > k + 1 /\ q[j + 1] = cb
    BY <1>1, <2>1
  <2> QED
    BY <2>2 DEF FollowedBy
<1>3. ASSUME FollowedBy(q, cb, k + 1) PROVE FollowedBy(Tail(q), cb, k)
  <2>1. PICK j \in 1..Len(q) : j > k + 1 /\ q[j] = cb
    BY <1>3 DEF FollowedBy
  <2>2. j - 1 \in 1..(Len(q) - 1) /\ j - 1 > k /\ (j - 1) + 1 = j
    BY <1>1, <2>1
  <2>3. Tail(q)[j - 1] = cb
    BY <1>1, <2>1, <2>2
  <2> QED
    BY <1>1, <2>2, <2>3 DEF FollowedBy
<1> QED
  BY <1>2, <1>3

LEMMA FollowedHead ==
  ASSUME NEW q \in Seq(Callbacks), q # <<>>, NEW cb, Head(q) # cb, FollowedBy(q, cb, 0)
  PROVE  FollowedBy(Tail(q), cb, 0)
<1>1. PICK j \in 1..Len(q) : q[j] = cb
  BY DEF FollowedBy
<1>2. Head(q) = q[1] /\ Len(q) \in Nat
  BY HeadTailProperties, LenProperties
<1>3. j > 0 + 1
  BY <1>1, <1>2
<1>4. FollowedBy(q, cb, 0 + 1)
  BY <1>1, <1>3 DEF FollowedBy
<1> QED
  BY <1>4, FollowedTail

-----------------------------------------------------------------------------
(* The last callback about the circuit of c, or what has been handled if   *)
(* there is none, says what the circuit is.                                *)
Settled(c, q, up, on) ==
  /\ ~up => /\ on => FollowedBy(q, Down(c), 0)
            /\ \A k \in 1..Len(q) : q[k] = Up(c) => FollowedBy(q, Down(c), k)
  /\ up => /\ ~on => FollowedBy(q, Up(c), 0)
           /\ \A k \in 1..Len(q) : q[k] = Down(c) => FollowedBy(q, Up(c), k)

LEMMA UpIsNotDown ==
  ASSUME NEW c, NEW d
  PROVE  Up(c) # Down(d) /\ (Up(c) = Up(d) => c = d) /\ (Down(c) = Down(d) => c = d)
BY DEF Up, Down

LEMMA SettledGrows ==
  ASSUME NEW c, NEW q \in Seq(Callbacks), NEW r \in Seq(Callbacks), NEW up, NEW on,
         Settled(c, q, up, on),
         \A i \in 1..Len(r) : r[i] # Up(c) /\ r[i] # Down(c)
  PROVE  Settled(c, q \o r, up, on)
<1>1. /\ Len(q) \in Nat /\ Len(r) \in Nat /\ Len(q \o r) = Len(q) + Len(r)
      /\ \A i \in 1..(Len(q) + Len(r)) :
           (q \o r)[i] = IF i <= Len(q) THEN q[i] ELSE r[i - Len(q)]
  BY ConcatProperties, LenProperties
<1>2. ASSUME NEW k \in 1..Len(q \o r), (q \o r)[k] \in {Up(c), Down(c)}
      PROVE  k \in 1..Len(q) /\ (q \o r)[k] = q[k]
  <2>1. CASE k <= Len(q)
    BY <1>1, <2>1
  <2>2. CASE k > Len(q)
    <3>1. k - Len(q) \in 1..Len(r) /\ (q \o r)[k] = r[k - Len(q)]
      BY <1>1, <2>2
    <3> QED
      BY <1>2, <3>1
  <2>3. k <= Len(q) \/ k > Len(q)
    BY <1>1
  <2> QED
    BY <2>1, <2>2, <2>3
<1> QED
  BY <1>2, FollowedGrows DEF Settled

(* The last callback queued says so.                                       *)
LEMMA SettledAtLast ==
  ASSUME NEW c, NEW q \in Seq(Callbacks), NEW r \in Seq(Callbacks), r # <<>>,
         NEW up \in BOOLEAN, NEW on, r[Len(r)] = IF up THEN Up(c) ELSE Down(c)
  PROVE  Settled(c, q \o r, up, on)
<1> DEFINE last == IF up THEN Up(c) ELSE Down(c)
           l == Len(q \o r)
<1>1. l \in Nat /\ l > 0 /\ (q \o r)[l] = last
  <2>1. /\ Len(q) \in Nat /\ Len(r) \in Nat /\ Len(r) # 0 /\ l = Len(q) + Len(r)
        /\ \A i \in 1..(Len(q) + Len(r)) :
             (q \o r)[i] = IF i <= Len(q) THEN q[i] ELSE r[i - Len(q)]
    BY ConcatProperties, LenProperties, EmptySeq
  <2>2. l \in 1..(Len(q) + Len(r)) /\ ~(l <= Len(q)) /\ l - Len(q) = Len(r)
    BY <2>1
  <2> QED
    BY <2>1, <2>2
<1> HIDE DEF last
<1>2. ASSUME NEW k \in 0..l, k # l PROVE FollowedBy(q \o r, last, k)
  <2>1. l \in 1..l /\ l > k
    BY <1>1, <1>2
  <2> QED
    BY <1>1, <2>1 DEF FollowedBy
<1>3. FollowedBy(q \o r, last, 0)
  BY <1>1, <1>2
<1>4. ASSUME NEW k \in 1..l, (q \o r)[k] # last PROVE FollowedBy(q \o r, last, k)
  BY <1>1, <1>2, <1>4
<1>5. CASE up
  <2>1. last = Up(c)
    BY <1>5 DEF last
  <2> QED
    BY <1>3, <1>4, <1>5, <2>1, UpIsNotDown DEF Settled
<1>6. CASE ~up
  <2>1. last = Down(c)
    BY <1>6 DEF last
  <2> QED
    BY <1>3, <1>4, <1>6, <2>1, UpIsNotDown DEF Settled
<1> QED
  BY <1>5, <1>6

LEMMA SettledTail ==
  ASSUME NEW c, NEW q \in Seq(Callbacks), q # <<>>, NEW up, NEW on, NEW new \in BOOLEAN,
         Settled(c, q, up, on),
         Head(q) = Up(c) => new,
         Head(q) = Down(c) => ~new,
         Head(q) \notin {Up(c), Down(c)} => new = on
  PROVE  Settled(c, Tail(q), up, new)
<1>1. /\ Len(q) \in Nat /\ Len(q) > 0 /\ Len(Tail(q)) = Len(q) - 1 /\ Head(q) = q[1]
      /\ \A i \in 1..(Len(q) - 1) : Tail(q)[i] = q[i + 1]
  BY LenProperties, EmptySeq, HeadTailProperties
<1>2. ASSUME NEW k \in 1..Len(Tail(q)), NEW cb, NEW next,
             \A j \in 1..Len(q) : q[j] = cb => FollowedBy(q, next, j), Tail(q)[k] = cb
      PROVE  FollowedBy(Tail(q), next, k)
  <2>1. k \in Nat /\ k + 1 \in 1..Len(q) /\ q[k + 1] = cb
    BY <1>1, <1>2
  <2>2. FollowedBy(q, next, k + 1)
    BY <1>2, <2>1
  <2> QED
    BY <2>1, <2>2, FollowedTail
<1>3. ASSUME NEW next, FollowedBy(q, next, 1)
      PROVE  FollowedBy(Tail(q), next, 0)
  <2>1. FollowedBy(q, next, 0 + 1)
    BY <1>3
  <2> QED
    BY <2>1, FollowedTail
<1>4. 1 \in 1..Len(q)
  BY <1>1
<1>5. ASSUME ~up, new PROVE FollowedBy(Tail(q), Down(c), 0)
  <2>1. CASE Head(q) = Up(c)
    BY <1>1, <1>3, <1>4, <1>5, <2>1 DEF Settled
  <2>2. CASE Head(q) # Up(c)
    <3>1. Head(q) # Down(c) /\ on
      BY <1>5, <2>2
    <3> QED
      BY <1>5, <3>1, FollowedHead DEF Settled
  <2> QED
    BY <2>1, <2>2
<1>6. ASSUME up, ~new PROVE FollowedBy(Tail(q), Up(c), 0)
  <2>1. CASE Head(q) = Down(c)
    BY <1>1, <1>3, <1>4, <1>6, <2>1 DEF Settled
  <2>2. CASE Head(q) # Down(c)
    <3>1. Head(q) # Up(c) /\ ~on
      BY <1>6, <2>2
    <3> QED
      BY <1>6, <3>1, FollowedHead DEF Settled
  <2> QED
    BY <2>1, <2>2
<1>7. ~up => \A k \in 1..Len(Tail(q)) : Tail(q)[k] = Up(c) => FollowedBy(Tail(q), Down(c), k)
  BY <1>2 DEF Settled
<1>8. up => \A k \in 1..Len(Tail(q)) : Tail(q)[k] = Down(c) => FollowedBy(Tail(q), Up(c), k)
  BY <1>2 DEF Settled
<1> QED
  BY <1>5, <1>6, <1>7, <1>8 DEF Settled

-----------------------------------------------------------------------------
(* A callback that is an update of c; and: the last one in the queue, or   *)
(* the status s if there is none, says whether the value matches.          *)
Reports(c, cb) == cb.client = c /\ Usable(cb)

Shown(c, q, s, target) ==
  \E k \in 0..Len(q) :
    /\ k = 0 => s = target
    /\ k > 0 => Reports(c, q[k]) /\ Matches(c, q[k].value) = target
    /\ \A j \in 1..Len(q) : j > k => ~Reports(c, q[j])

LEMMA ShownGrows ==
  ASSUME NEW c, NEW q \in Seq(Callbacks), NEW r \in Seq(Callbacks), NEW s, NEW target,
         Shown(c, q, s, target), \A i \in 1..Len(r) : ~Reports(c, r[i])
  PROVE  Shown(c, q \o r, s, target)
<1>1. /\ Len(q) \in Nat /\ Len(r) \in Nat /\ Len(q \o r) = Len(q) + Len(r)
      /\ \A i \in 1..(Len(q) + Len(r)) :
           (q \o r)[i] = IF i <= Len(q) THEN q[i] ELSE r[i - Len(q)]
  BY ConcatProperties, LenProperties
<1>2. PICK k \in 0..Len(q) :
        /\ k = 0 => s = target
        /\ k > 0 => Reports(c, q[k]) /\ Matches(c, q[k].value) = target
        /\ \A j \in 1..Len(q) : j > k => ~Reports(c, q[j])
  BY DEF Shown
<1>3. k \in 0..Len(q \o r) /\ (k > 0 => (q \o r)[k] = q[k])
  BY <1>1
<1>4. ASSUME NEW j \in 1..Len(q \o r), j > k PROVE ~Reports(c, (q \o r)[j])
  <2>1. CASE j <= Len(q)
    BY <1>1, <1>2, <1>4, <2>1
  <2>2. CASE j > Len(q)
    <3>1. j - Len(q) \in 1..Len(r) /\ (q \o r)[j] = r[j - Len(q)]
      BY <1>1, <2>2
    <3> QED
      BY <3>1
  <2>3. j <= Len(q) \/ j > Len(q)
    BY <1>1
  <2> QED
    BY <2>1, <2>2, <2>3
<1> QED
  BY <1>2, <1>3, <1>4 DEF Shown

LEMMA ShownAtLast ==
  ASSUME NEW c, NEW q \in Seq(Callbacks), NEW cb \in Callbacks, NEW s, NEW target,
         Reports(c, cb), Matches(c, cb.value) = target
  PROVE  Shown(c, q \o <<cb>>, s, target)
<1> DEFINE l == Len(q \o <<cb>>)
<1>1. l \in Nat /\ l > 0 /\ (q \o <<cb>>)[l] = cb
  <2>1. q \o <<cb>> = Append(q, cb)
    BY AppendIsConcat
  <2>2. Len(Append(q, cb)) = Len(q) + 1 /\ Append(q, cb)[Len(q) + 1] = cb /\ Len(q) \in Nat
    BY AppendProperties, LenProperties
  <2> QED
    BY <2>1, <2>2
<1>2. l \in 0..l /\ \A j \in 1..l : ~(j > l)
  BY <1>1
<1> QED
  BY <1>1, <1>2 DEF Shown

LEMMA ShownTail ==
  ASSUME NEW c, NEW q \in Seq(Callbacks), q # <<>>, NEW s, NEW new, NEW target,
         Shown(c, q, s, target),
         Reports(c, Head(q)) => new = Matches(c, Head(q).value),
         ~Reports(c, Head(q)) => new = s
  PROVE  Shown(c, Tail(q), new, target)
<1>1. /\ Len(q) \in Nat /\ Len(q) > 0 /\ Len(Tail(q)) = Len(q) - 1 /\ Head(q) = q[1]
      /\ \A i \in 1..(Len(q) - 1) : Tail(q)[i] = q[i + 1]
  BY LenProperties, EmptySeq, HeadTailProperties
<1>2. PICK k \in 0..Len(q) :
        /\ k = 0 => s = target
        /\ k > 0 => Reports(c, q[k]) /\ Matches(c, q[k].value) = target
        /\ \A j \in 1..Len(q) : j > k => ~Reports(c, q[j])
  BY DEF Shown
<1>3. ASSUME NEW m \in Nat, k <= m + 1, NEW j \in 1..Len(Tail(q)), j > m
      PROVE  ~Reports(c, Tail(q)[j])
  <2>1. j + 1 \in 1..Len(q) /\ j + 1 > k /\ Tail(q)[j] = q[j + 1]
    BY <1>1, <1>3
  <2> QED
    BY <1>2, <2>1
<1>4. CASE k <= 1
  <2>1. new = target
    <3>1. CASE k = 0
      <4>1. ~Reports(c, Head(q))
        <5>1. 1 \in 1..Len(q) /\ 1 > k
          BY <1>1, <3>1
        <5> QED
          BY <1>1, <1>2, <5>1
      <4> QED
        BY <1>2, <3>1, <4>1
    <3>2. CASE k = 1
      BY <1>1, <1>2, <3>2
    <3> QED
      BY <1>4, <3>1, <3>2
  <2>2. 0 \in 0..Len(Tail(q)) /\ 0 \in Nat /\ k <= 0 + 1
    BY <1>1, <1>4
  <2>3. \A j \in 1..Len(Tail(q)) : j > 0 => ~Reports(c, Tail(q)[j])
    BY <1>3, <2>2
  <2> QED
    BY <2>1, <2>2, <2>3 DEF Shown
<1>5. CASE k > 1
  <2>1. k - 1 \in 0..Len(Tail(q)) /\ k - 1 \in Nat /\ k - 1 > 0 /\ k <= (k - 1) + 1
    BY <1>1, <1>5
  <2>2. Tail(q)[k - 1] = q[k]
    <3>1. k - 1 \in 1..(Len(q) - 1) /\ (k - 1) + 1 = k
      BY <1>1, <1>5
    <3> QED
      BY <1>1, <3>1
  <2>3. \A j \in 1..Len(Tail(q)) : j > k - 1 => ~Reports(c, Tail(q)[j])
    BY <1>3, <2>1
  <2>4. Reports(c, Tail(q)[k - 1]) /\ Matches(c, Tail(q)[k - 1].value) = target
    BY <1>2, <1>5, <2>2
  <2>5. k - 1 # 0
    BY <2>1
  <2> QED
    BY <2>1, <2>3, <2>4, <2>5 DEF Shown
<1> QED
  BY <1>4, <1>5

-----------------------------------------------------------------------------
(* The inductive invariant.  Status(c) is what last_update_matched[c] is   *)
(* once the command that is running, if there is one, has ended.           *)
Status(c) == IF command # NoCommand /\ command.client = c /\ command.state # "disconnect"
               THEN command.state = "match" ELSE last_update_matched[c]

Enough(c) == link[c] = "up" /\ element_index[c] <= nelm[c]
Leaving(c) == FollowedBy(queue, Down(c), 0)
Subscribing(c) == pc \in {"get", "subscribe"} /\ cur = c

Fresh(c) ==
  /\ Settled(c, queue, link[c] = "up", online[c])
  /\ online[c] /\ Enough(c) /\ ~Leaving(c) /\ ~Subscribing(c) => event_id[c]
  /\ event_id[c] /\ link[c] = "up" /\ ~Leaving(c) => Enough(c)
  /\ event_id[c] /\ Enough(c) /\ due[c] = 0
       => Shown(c, queue, Status(c), Matches(c, pv[c]))

FreshInv == pc \notin {"clear", "exit"} => \A c \in Clients : Fresh(c)

LEMMA FreshInit == Init => FreshInv
<1> SUFFICES ASSUME Init, NEW c \in Clients PROVE Fresh(c)
  BY DEF FreshInv
<1>1. /\ queue = <<>> /\ link[c] = "down"
      /\ online[c] = FALSE /\ event_id[c] = FALSE
  BY DEF Init, CAInit, ClientInit
<1>2. Settled(c, queue, link[c] = "up", online[c])
  BY <1>1 DEF Settled
<1> QED
  BY <1>1, <1>2 DEF Fresh

(* What the invariants say of client c.                                    *)
LEMMA FreshTypes ==
  ASSUME IInv, PolicyInv, NEW c \in Clients
  PROVE  /\ queue \in Seq(Callbacks)
         /\ link \in [Clients -> {"up", "down"}]
         /\ pv \in [Clients -> Values]
         /\ nelm \in [Clients -> ElementCounts]
         /\ due \in [Clients -> Nat]
         /\ event_id \in [Clients -> BOOLEAN]
         /\ online \in [Clients -> BOOLEAN]
         /\ nelm[c] \in Nat /\ element_index[c] \in Nat \ {0}
         /\ subs[c] = IF event_id[c] THEN 1 ELSE 0
         /\ pc \notin {"clear", "exit"} => (event_id[c] => online[c])
BY IInvParts, CountAssumption, ElementAssumption
DEF CATypeOK, ClientTypeOK, MainTypeOK, PolicyInv, PathInv, OneSubscription

(* Callbacks that are neither updates of client d nor about its circuit    *)
(* are queued, and nothing else changes for it.                            *)
LEMMA FreshGrows ==
  ASSUME IInv, PolicyInv, NEW d \in Clients, Fresh(d), NEW r \in Seq(Callbacks),
         \A i \in 1..Len(r) : r[i] # Up(d) /\ r[i] # Down(d) /\ ~Reports(d, r[i]),
         queue' = queue \o r,
         UNCHANGED <<pc, cur, online, event_id, last_update_matched, command>>,
         UNCHANGED <<link[d], pv[d], nelm[d], due[d]>>
  PROVE  Fresh(d)'
<1>1. queue \in Seq(Callbacks)
  BY FreshTypes
<1>2. Settled(d, queue', link'[d] = "up", online'[d])
  BY <1>1, SettledGrows DEF Fresh
<1>3. Leaving(d) => Leaving(d)'
  BY <1>1, FollowedGrows DEF Leaving
<1>4. Shown(d, queue, Status(d), Matches(d, pv[d]))
        => Shown(d, queue', Status(d), Matches(d, pv[d]))
  BY <1>1, ShownGrows
<1>5. Status(d)' = Status(d) /\ Enough(d)' = Enough(d) /\ Subscribing(d)' = Subscribing(d)
  BY DEF Status, Enough, Subscribing
<1> QED
  BY <1>2, <1>3, <1>4, <1>5 DEF Fresh

(* The steps of the library.                                               *)
LEMMA ConnectFresh ==
  ASSUME IInv, PolicyInv, NEW c \in Clients, Fresh(c), Connect(c),
         queue' = queue \o <<Up(c)>>, pc \notin {"clear", "exit"},
         UNCHANGED <<pc, cur, online, event_id, last_update_matched, command>>
  PROVE  Fresh(c)'
<1>1. /\ link[c] = "down" /\ link' = [link EXCEPT ![c] = "up"]
      /\ due' = [due EXCEPT ![c] = subs[c]]
  BY DEF Connect
<1>2. queue \in Seq(Callbacks) /\ link'[c] = "up" /\ due'[c] = subs[c]
  BY <1>1, FreshTypes
<1>3. <<Up(c)>> \in Seq(Callbacks) /\ <<Up(c)>> # <<>> /\ <<Up(c)>>[Len(<<Up(c)>>)] = Up(c)
  BY CallbackTypes
<1>4. Settled(c, queue', TRUE, online'[c])
  BY <1>2, <1>3, SettledAtLast
<1>5. online[c] => Leaving(c)'
  <2>1. online[c] => FollowedBy(queue, Down(c), 0)
    BY <1>1 DEF Fresh, Settled
  <2> QED
    BY <1>2, <1>3, <2>1, FollowedGrows DEF Leaving
<1>6. event_id[c] => online[c] /\ subs[c] = 1
  BY FreshTypes
<1>7. (link'[c] = "up") = TRUE
  BY <1>2
<1>8. Settled(c, queue', link'[c] = "up", online'[c])
  BY <1>4, <1>7
<1> QED
  BY <1>2, <1>5, <1>6, <1>8 DEF Fresh

LEMMA CircuitLostFresh ==
  ASSUME IInv, PolicyInv, NEW c \in Clients, CircuitLost(c), NEW r \in Seq(Callbacks),
         r # <<>>, r[Len(r)] = Down(c), queue' = queue \o r
  PROVE  Fresh(c)'
<1>1. link'[c] = "down" /\ queue \in Seq(Callbacks)
  BY FreshTypes DEF CircuitLost
<1>2. Settled(c, queue', FALSE, online'[c])
  BY <1>1, SettledAtLast
<1>3. (link'[c] = "up") = FALSE
  BY <1>1
<1>4. Settled(c, queue', link'[c] = "up", online'[c])
  BY <1>2, <1>3
<1> QED
  BY <1>3, <1>4 DEF Fresh, Enough

LEMMA DeliverFresh ==
  ASSUME IInv, PolicyInv, NEW c \in Clients, Fresh(c), queue' = queue \o <<Update(c)>>,
         UNCHANGED <<pc, cur, link, pv, nelm, online, event_id, last_update_matched, command>>
  PROVE  Fresh(c)'
<1>1. queue \in Seq(Callbacks) /\ Update(c) \in Callbacks
  BY FreshTypes, UpdateType, IInvParts
<1>2. /\ Update(c).op = "EVENT" /\ Update(c).client = c /\ Update(c).value = pv[c]
      /\ Update(c).count = SmallerOf(nelm[c], element_index[c])
  BY DEF Update, Event
<1>3. Update(c) # Up(c) /\ Update(c) # Down(c)
  BY <1>2 DEF Up, Down
<1>4. /\ <<Update(c)>> \in Seq(Callbacks)
      /\ \A i \in 1..Len(<<Update(c)>>) : <<Update(c)>>[i] = Update(c)
  BY <1>1
<1>5. Settled(c, queue', link'[c] = "up", online'[c])
  BY <1>1, <1>3, <1>4, SettledGrows DEF Fresh
<1>6. Leaving(c) => Leaving(c)'
  BY <1>1, <1>4, FollowedGrows DEF Leaving
<1>7. Enough(c) => Shown(c, queue', Status(c), Matches(c, pv[c]))
  <2>1. SUFFICES ASSUME Enough(c)
                 PROVE  Shown(c, queue', Status(c), Matches(c, pv[c]))
    OBVIOUS
  <2>2. Update(c).count >= element_index[c]
    BY <1>2, <2>1, FreshTypes DEF Enough, SmallerOf
  <2>3. Reports(c, Update(c)) /\ Matches(c, Update(c).value) = Matches(c, pv[c])
    BY <1>2, <2>2 DEF Reports, Usable
  <2> QED
    BY <1>1, <2>3, ShownAtLast
<1>8. Status(c)' = Status(c) /\ Enough(c)' = Enough(c) /\ Subscribing(c)' = Subscribing(c)
  BY DEF Status, Enough, Subscribing
<1> QED
  BY <1>5, <1>6, <1>7, <1>8 DEF Fresh

LEMMA PVChangeFresh ==
  ASSUME IInv, PolicyInv, NEW c \in Clients, Fresh(c), PVChange(c),
         UNCHANGED <<pc, cur, online, event_id>>
  PROVE  Fresh(c)'
<1>1. /\ UNCHANGED <<link, nelm, queue>>
      /\ link[c] = "up" => due'[c] = subs[c]
  BY FreshTypes DEF PVChange
<1>2. event_id[c] => subs[c] = 1
  BY FreshTypes
<1>3. Enough(c)' = Enough(c) /\ Subscribing(c)' = Subscribing(c) /\ Leaving(c)' = Leaving(c)
  BY <1>1 DEF Enough, Subscribing, Leaving
<1>4. event_id'[c] /\ Enough(c)' => due'[c] # 0
  BY <1>1, <1>2, <1>3 DEF Enough
<1> QED
  BY <1>1, <1>3, <1>4 DEF Fresh

(* Callbacks of client c mean nothing to another client.                   *)
LEMMA OthersAreQuiet ==
  ASSUME NEW c, NEW d, c # d, NEW cb, cb.client = c
  PROVE  cb # Up(d) /\ cb # Down(d) /\ ~Reports(d, cb)
BY DEF Up, Down, Reports

LEMMA LibraryFresh ==
  ASSUME IInv, PolicyInv, FreshInv, MaxFaults = 0, NEW c \in Clients, LibraryStep(c)
  PROVE  FreshInv'
<1>1. UNCHANGED <<pc, cur, online, event_id, last_update_matched, command>>
  BY DEF LibraryStep, clientVars, filterVars, mainVars, historyVars
<1> SUFFICES ASSUME pc \notin {"clear", "exit"}, NEW d \in Clients PROVE Fresh(d)'
  BY <1>1 DEF FreshInv
<1>2. Fresh(c) /\ Fresh(d) /\ queue \in Seq(Callbacks)
  BY FreshTypes DEF FreshInv
<1>3. d # c => UNCHANGED <<link[d], pv[d], nelm[d], due[d]>>
  BY FreshTypes
  DEF LibraryStep, Library, Connect, CircuitLost, PVChange, DeliverGet, DeliverEvent,
      serverVars
<1>4. ASSUME NEW r \in Seq(Callbacks), \A i \in 1..Len(r) : r[i].client = c,
             queue' = queue \o r, d # c
      PROVE  Fresh(d)'
  <2>1. \A i \in 1..Len(r) : r[i] # Up(d) /\ r[i] # Down(d) /\ ~Reports(d, r[i])
    BY <1>4, OthersAreQuiet
  <2> QED
    BY <1>1, <1>2, <1>3, <1>4, <2>1, FreshGrows
<1>5. CASE Connect(c)
  <2>1. queue' = queue \o <<Up(c)>>
    BY <1>5, NothingLost DEF Connect, Buffer
  <2>2. <<Up(c)>> \in Seq(Callbacks) /\ \A i \in 1..Len(<<Up(c)>>) : <<Up(c)>>[i].client = c
    BY CallbackTypes
  <2> QED
    BY <1>1, <1>2, <1>4, <1>5, <2>1, <2>2, ConnectFresh
<1>6. CASE CircuitLost(c)
  <2> DEFINE failed == [k \in 1..gets[c] |-> Failed(c)]
             callbacks == Append(failed, Down(c))
  <2>1. queue' = queue \o callbacks
    BY <1>6, NothingLost DEF CircuitLost, Buffer
  <2>2. gets[c] \in Nat
    BY IInvParts DEF CATypeOK
  <2>3. failed \in [1..gets[c] -> Callbacks] /\ \A k \in 1..gets[c] : failed[k] = Failed(c)
    BY CallbackTypes
  <2>4. failed \in Seq(Callbacks) /\ Len(failed) = gets[c]
    BY <2>2, <2>3, SeqDef, LenProperties
  <2> HIDE DEF failed
  <2>5. /\ callbacks \in Seq(Callbacks) /\ Len(callbacks) = gets[c] + 1
        /\ callbacks[Len(callbacks)] = Down(c)
        /\ \A k \in 1..Len(callbacks) : callbacks[k].client = c
    <3>1. Failed(c).client = c /\ Down(c).client = c /\ Down(c) \in Callbacks
      BY CallbackTypes
    <3> QED
      BY <2>3, <2>4, <3>1, AppendProperties
  <2> HIDE DEF callbacks
  <2>6. callbacks # <<>>
    BY <2>2, <2>5, EmptySeq
  <2> QED
    BY <1>4, <1>6, <2>1, <2>5, <2>6, CircuitLostFresh
<1>7. CASE PVChange(c)
  <2>1. UNCHANGED queue
    BY <1>7 DEF PVChange
  <2>2. <<>> \in Seq(Callbacks) /\ Len(<<>>) = 0 /\ queue \o <<>> = queue
    BY <1>2, EmptySeq, ConcatEmptySeq
  <2>3. queue' = queue \o <<>> /\ \A i \in 1..Len(<<>>) : <<>>[i].client = c
    BY <2>1, <2>2
  <2> QED
    BY <1>1, <1>2, <1>4, <1>7, <2>2, <2>3, PVChangeFresh
<1>8. CASE DeliverGet(c) \/ DeliverEvent(c)
  <2>1. queue' = queue \o <<Update(c)>> /\ UNCHANGED <<link, pv, nelm>>
    BY <1>8, NothingLost DEF DeliverGet, DeliverEvent, Buffer, serverVars
  <2>2. Update(c) \in Callbacks /\ Update(c).client = c
    BY UpdateType, IInvParts
  <2>3. /\ <<Update(c)>> \in Seq(Callbacks)
        /\ \A i \in 1..Len(<<Update(c)>>) : <<Update(c)>>[i].client = c
    BY <2>2
  <2> QED
    BY <1>1, <1>2, <1>4, <2>1, <2>3, DeliverFresh
<1> QED
  BY <1>5, <1>6, <1>7, <1>8 DEF LibraryStep, Library

(* The steps of the application thread.  A callback is taken: what is left *)
(* of the queue says the same of the circuit and the value of client d.    *)
LEMMA TakeFresh ==
  ASSUME IInv, PolicyInv, NEW d \in Clients, Fresh(d), NEW cb, Take(cb),
         NEW on \in BOOLEAN, NEW s,
         cb = Up(d) => on,
         cb = Down(d) => ~on,
         cb \notin {Up(d), Down(d)} => on = online[d],
         Reports(d, cb) => s = Matches(d, cb.value),
         ~Reports(d, cb) => s = Status(d)
  PROVE  /\ Settled(d, queue', link[d] = "up", on)
         /\ cb # Down(d) => (Leaving(d) => Leaving(d)')
         /\ event_id[d] /\ Enough(d) /\ due[d] = 0
              => Shown(d, queue', s, Matches(d, pv[d]))
<1>1. pc = "drain" /\ queue # <<>> /\ cb = Head(queue) /\ queue' = Tail(queue)
  BY DEF Take
<1>2. queue \in Seq(Callbacks)
  BY FreshTypes
<1>3. Settled(d, Tail(queue), link[d] = "up", on)
  BY <1>1, <1>2, SettledTail DEF Fresh
<1>4. cb # Down(d) => (Leaving(d) => FollowedBy(Tail(queue), Down(d), 0))
  BY <1>1, <1>2, FollowedHead DEF Leaving
<1>5. Shown(d, queue, Status(d), Matches(d, pv[d]))
        => Shown(d, Tail(queue), s, Matches(d, pv[d]))
  BY <1>1, <1>2, ShownTail
<1> QED
  BY <1>1, <1>3, <1>4, <1>5 DEF Fresh, Leaving

LEMMA HandleUpFresh ==
  ASSUME IInv, PolicyInv, FreshInv, NEW c \in Clients, HandleUp(c)
  PROVE  FreshInv'
<1>1. /\ Take(Up(c))
      /\ UNCHANGED <<link, pv, nelm, due, event_id, last_update_matched, command>>
      /\ online' = [online EXCEPT ![c] = TRUE]
      /\ pc = "drain"
      /\ EnoughElements(c) => pc' = "get" /\ cur' = c
  BY DEF HandleUp, Take, ConnectionUp, serverVars, filterVars
<1> SUFFICES ASSUME NEW d \in Clients PROVE Fresh(d)'
  BY DEF FreshInv
<1>2. Fresh(d)
  BY <1>1 DEF FreshInv
<1>3. ~Reports(d, Up(c)) /\ Up(c) # Down(d)
  BY UpIsNotDown DEF Reports, Usable, Up
<1>4. online'[d] = (IF d = c THEN TRUE ELSE online[d]) /\ online[d] \in BOOLEAN
  BY <1>1, FreshTypes
<1>5. /\ Settled(d, queue', link[d] = "up", online'[d])
      /\ Leaving(d) => Leaving(d)'
      /\ event_id[d] /\ Enough(d) /\ due[d] = 0
           => Shown(d, queue', Status(d), Matches(d, pv[d]))
  <2> DEFINE on == online'[d]
  <2>1. on \in BOOLEAN /\ (d = c => on = TRUE) /\ (d # c => on = online[d])
    BY <1>4
  <2> HIDE DEF on
  <2>2. Settled(d, queue', link[d] = "up", on) /\ (Leaving(d) => Leaving(d)')
        /\ (event_id[d] /\ Enough(d) /\ due[d] = 0
              => Shown(d, queue', Status(d), Matches(d, pv[d])))
    BY <1>1, <1>2, <1>3, <2>1, UpIsNotDown, TakeFresh
  <2> QED
    BY <2>2 DEF on
<1>6. Enough(d)' = Enough(d) /\ Status(d)' = Status(d)
  BY <1>1 DEF Enough, Status
<1>7. online'[d] /\ Enough(d)' /\ ~Leaving(d)' /\ ~Subscribing(d)' => event_id'[d]
  <2>1. CASE d = c
    <3>1. Enough(c) => EnoughElements(c)
      BY FreshTypes DEF Enough, EnoughElements, ElementCount
    <3> QED
      BY <1>1, <1>6, <2>1, <3>1 DEF Subscribing
  <2>2. CASE d # c
    <3>1. online'[d] = online[d] /\ ~Subscribing(d)
      BY <1>1, <1>4, <2>2 DEF Subscribing
    <3> QED
      BY <1>1, <1>2, <1>5, <1>6, <3>1 DEF Fresh
  <2> QED
    BY <2>1, <2>2
<1> QED
  BY <1>1, <1>2, <1>5, <1>6, <1>7 DEF Fresh

LEMMA HandleDownFresh ==
  ASSUME IInv, PolicyInv, FreshInv, NEW c \in Clients, HandleDown(c)
  PROVE  FreshInv'
<1>1. /\ Take(Down(c))
      /\ UNCHANGED <<link, pv, nelm, last_update_matched>>
      /\ Unsubscribe_Channel(c)
      /\ call_command(c, "disconnect")
      /\ online' = [online EXCEPT ![c] = FALSE]
      /\ pc = "drain"
  BY DEF HandleDown, Take, ConnectionDown, Process_PV_Disconnect, serverVars
<1> SUFFICES ASSUME NEW d \in Clients PROVE Fresh(d)'
  BY DEF FreshInv
<1>2. Fresh(d)
  BY <1>1 DEF FreshInv
<1>3. ~Reports(d, Down(c)) /\ Down(c) # Up(d) /\ (Down(c) = Down(d) => c = d)
  BY UpIsNotDown DEF Reports, Usable, Down
<1>4. online'[d] = (IF d = c THEN FALSE ELSE online[d]) /\ online[d] \in BOOLEAN
  BY <1>1, FreshTypes
<1>5. /\ Settled(d, queue', link[d] = "up", online'[d])
      /\ d # c => (Leaving(d) => Leaving(d)')
      /\ event_id[d] /\ Enough(d) /\ due[d] = 0
           => Shown(d, queue', Status(d), Matches(d, pv[d]))
  <2> DEFINE on == online'[d]
  <2>1. on \in BOOLEAN /\ (d = c => on = FALSE) /\ (d # c => on = online[d])
    BY <1>4
  <2> HIDE DEF on
  <2>2. Settled(d, queue', link[d] = "up", on) /\ (d # c => (Leaving(d) => Leaving(d)'))
        /\ (event_id[d] /\ Enough(d) /\ due[d] = 0
              => Shown(d, queue', Status(d), Matches(d, pv[d])))
    BY <1>1, <1>2, <1>3, <2>1, TakeFresh
  <2> QED
    BY <2>2 DEF on
<1>6. Enough(d)' = Enough(d)
  BY <1>1 DEF Enough
<1>7. Status(d)' = Status(d)
  <2>1. command = NoCommand
    BY <1>1, IInvParts DEF CommandInv
  <2>2. command' = command \/ command' = [client |-> c, state |-> "disconnect"]
    BY <1>1 DEF call_command
  <2> QED
    BY <1>1, <2>1, <2>2 DEF Status
<1>8. CASE d = c
  <2>1. ~online'[d] /\ ~event_id'[d]
    BY <1>1, <1>8, FreshTypes DEF Unsubscribe_Channel
  <2> QED
    BY <1>1, <1>5, <2>1 DEF Fresh
<1>9. CASE d # c
  <2>1. online'[d] = online[d] /\ event_id'[d] = event_id[d] /\ due'[d] = due[d]
    BY <1>1, <1>9, FreshTypes DEF Unsubscribe_Channel, ClearSubscription
  <2>2. ~Subscribing(d)
    BY <1>1 DEF Subscribing
  <2> QED
    BY <1>1, <1>2, <1>5, <1>6, <1>7, <1>9, <2>1, <2>2 DEF Fresh
<1> QED
  BY <1>8, <1>9

(* A value is processed: the status becomes that of the value.             *)
LEMMA UpdateStatus ==
  ASSUME IInv, command = NoCommand, NEW c \in Clients, NEW v, NEW d \in Clients,
         Process_PV_Update(c, v)
  PROVE  Status(d)' = IF d = c THEN Matches(c, v) ELSE Status(d)
<1>1. Matches(c, v) \in BOOLEAN /\ last_update_matched \in [Clients -> BOOLEAN]
  BY MatchesType, IInvParts DEF FilterTypeOK
<1>2. CASE UNCHANGED filterVars /\ ~Changed(c, v)
  BY <1>1, <1>2 DEF Status, filterVars, Changed
<1>3. CASE Changed(c, v)
  <2>1. /\ call_command(c, IF Matches(c, v) THEN "match" ELSE "reject")
        /\ last_update_matched' =
             IF c \in Quits THEN [last_update_matched EXCEPT ![c] = Matches(c, v)]
                            ELSE last_update_matched
    BY <1>3 DEF Process_PV_Update
  <2>2. CASE c \in Quits
    <3>1. command' = NoCommand
      BY <2>1, <2>2 DEF call_command
    <3> QED
      BY <1>1, <2>1, <2>2, <3>1 DEF Status
  <2>3. CASE c \notin Quits
    <3>1. command' = [client |-> c, state |-> IF Matches(c, v) THEN "match" ELSE "reject"]
      BY <2>1, <2>3 DEF call_command
    <3>2. command' # NoCommand
      <4>1. command' \in Commands
        BY <2>3, <3>1 DEF Commands
      <4> QED
        BY <4>1, CommandAssumption
    <3>3. last_update_matched' = last_update_matched
      BY <2>1, <2>3
    <3>4. /\ command'.client = c /\ command'.state # "disconnect"
          /\ (command'.state = "match") = Matches(c, v)
      BY <1>1, <3>1
    <3> QED
      BY <3>2, <3>3, <3>4 DEF Status
  <2> QED
    BY <2>2, <2>3
<1> QED
  BY <1>2, <1>3 DEF Process_PV_Update

LEMMA HandleEventFresh ==
  ASSUME IInv, PolicyInv, FreshInv, HandleEvent
  PROVE  FreshInv'
<1> DEFINE cb == Head(queue)
<1>1. /\ Take(cb)
      /\ cb.op \in {"EVENT", "FAILED"}
      /\ UNCHANGED <<link, pv, nelm, due, event_id, online>>
      /\ \/ Usable(cb) /\ Process_PV_Update(cb.client, cb.value)
         \/ ~Usable(cb) /\ UNCHANGED filterVars
      /\ pc = "drain" /\ queue # <<>>
      /\ pc' \notin {"get", "subscribe"}
  BY AfterIs DEF HandleEvent, Take, EventHandled, serverVars, clientVars
<1>2. cb.client \in Clients
  BY <1>1, HeadIsValid DEF Callbacks
<1> HIDE DEF cb
<1> SUFFICES ASSUME NEW d \in Clients PROVE Fresh(d)'
  BY DEF FreshInv
<1>3. Fresh(d) /\ command = NoCommand /\ online[d] \in BOOLEAN
  BY <1>1, FreshTypes, IInvParts DEF FreshInv, CommandInv
<1>4. cb # Up(d) /\ cb # Down(d)
  BY <1>1 DEF Up, Down
<1>5. /\ Reports(d, cb) => Status(d)' = Matches(d, cb.value)
      /\ ~Reports(d, cb) => Status(d)' = Status(d)
  <2>1. CASE Usable(cb)
    BY <1>1, <1>2, <1>3, <2>1, UpdateStatus DEF Reports
  <2>2. CASE ~Usable(cb)
    BY <1>1, <2>2 DEF Reports, Status, filterVars
  <2> QED
    BY <2>1, <2>2
<1>6. /\ Settled(d, queue', link[d] = "up", online[d])
      /\ Leaving(d) => Leaving(d)'
      /\ event_id[d] /\ Enough(d) /\ due[d] = 0
           => Shown(d, queue', Status(d)', Matches(d, pv[d]))
  BY <1>1, <1>3, <1>4, <1>5, TakeFresh
<1>7. Enough(d)' = Enough(d) /\ ~Subscribing(d)
  BY <1>1 DEF Enough, Subscribing
<1> QED
  BY <1>1, <1>3, <1>6, <1>7 DEF Fresh

LEMMA GetFresh ==
  ASSUME IInv, PolicyInv, FreshInv, MaxFaults = 0, Get
  PROVE  FreshInv'
<1>1. /\ pc = "get"
      /\ UNCHANGED <<link, pv, nelm, due, queue, online, event_id, last_update_matched, command>>
      /\ \/ pc' = "subscribe" /\ cur' = cur
         \/ ~Available(cur)
  BY NothingLost
  DEF Get, GetAccepted, GetRefused, ArrayGet, serverVars, clientVars, filterVars, historyVars
<1> SUFFICES ASSUME NEW d \in Clients PROVE Fresh(d)'
  BY DEF FreshInv
<1>2. Fresh(d)
  BY <1>1 DEF FreshInv
<1>3. Enough(d)' = Enough(d) /\ Status(d)' = Status(d) /\ Leaving(d)' = Leaving(d)
  BY <1>1 DEF Enough, Status, Leaving
<1>4. Enough(d) /\ Subscribing(d) => Subscribing(d)'
  BY <1>1 DEF Enough, Subscribing, Available
<1> QED
  BY <1>1, <1>2, <1>3, <1>4 DEF Fresh

LEMMA SubscribeFresh ==
  ASSUME IInv, PolicyInv, FreshInv, MaxFaults = 0, Subscribe
  PROVE  FreshInv'
<1>1. /\ pc = "subscribe"
      /\ UNCHANGED <<link, pv, nelm, queue, online, last_update_matched, command>>
      /\ \/ /\ link[cur] = "up" => Available(cur)
            /\ due' = [due EXCEPT ![cur] = IF link[cur] = "up" THEN due[cur] + 1 ELSE 0]
            /\ event_id' = [event_id EXCEPT ![cur] = TRUE]
         \/ ~Available(cur) /\ UNCHANGED <<due, event_id>>
  BY NothingLost
  DEF Subscribe, SubscribeAccepted, SubscribeRefused, GetRefused, CreateSubscription,
      serverVars, clientVars, filterVars, historyVars
<1> SUFFICES ASSUME NEW d \in Clients PROVE Fresh(d)'
  BY DEF FreshInv
<1>2. Fresh(d)
  BY <1>1 DEF FreshInv
<1>3. Enough(d)' = Enough(d) /\ Status(d)' = Status(d) /\ Leaving(d)' = Leaving(d)
  BY <1>1 DEF Enough, Status, Leaving
<1>4. CASE d # cur
  <2>1. event_id'[d] = event_id[d] /\ due'[d] = due[d] /\ ~Subscribing(d)
    BY <1>1, <1>4, FreshTypes DEF Subscribing
  <2> QED
    BY <1>1, <1>2, <1>3, <2>1 DEF Fresh
<1>5. CASE d = cur /\ ~Available(cur) /\ UNCHANGED <<due, event_id>>
  <2>1. ~Enough(d)
    BY <1>5 DEF Enough, Available
  <2> QED
    BY <1>1, <1>2, <1>3, <1>5, <2>1 DEF Fresh
<1>6. CASE /\ d = cur
           /\ link[cur] = "up" => Available(cur)
           /\ due' = [due EXCEPT ![cur] = IF link[cur] = "up" THEN due[cur] + 1 ELSE 0]
           /\ event_id' = [event_id EXCEPT ![cur] = TRUE]
  <2>1. event_id'[d] = TRUE /\ (link[d] = "up" => due'[d] = due[d] + 1)
    BY <1>6, FreshTypes
  <2>2. link[d] = "up" => Enough(d)
    BY <1>6 DEF Enough, Available
  <2>3. Enough(d) => due'[d] # 0
    BY <2>1, FreshTypes DEF Enough
  <2> QED
    BY <1>1, <1>2, <1>3, <2>1, <2>2, <2>3 DEF Fresh
<1> QED
  BY <1>1, <1>4, <1>5, <1>6

LEMMA OtherFresh ==
  ASSUME IInv, PolicyInv, FreshInv, OtherStep
  PROVE  FreshInv'
<1>1. /\ UNCHANGED <<link, queue, online, event_id, cur>>
      /\ pc' = pc \/ (pc \notin {"get", "subscribe"} /\ pc' \notin {"get", "subscribe"})
      /\ pc' \notin {"clear", "exit"} => pc \notin {"clear", "exit"}
  BY OtherStepIs
<1>2. UNCHANGED <<pv, nelm, due>>
  BY DEF OtherStep, Create_All_Channels, Create_Channel, CreateChannel, SystemReturns,
         QuietStep, ContextCreate, ContextCreateFails, Continue, ShutDown, EndDrain,
         Timeouts, Exit, SigInt, SigTerm, Signalled, vars, caVars, serverVars
<1> SUFFICES ASSUME pc \notin {"clear", "exit"}, NEW d \in Clients PROVE Fresh(d)'
  BY <1>1 DEF FreshInv
<1>3. Fresh(d)
  BY DEF FreshInv
<1>4. Status(d)' = Status(d)
  <2>1. CASE SystemReturns
    <3>1. /\ command # NoCommand /\ command' = NoCommand
          /\ last_update_matched' =
               IF command.state = "disconnect" THEN last_update_matched
               ELSE [last_update_matched EXCEPT ![command.client] = (command.state = "match")]
      BY <2>1, IInvParts DEF SystemReturns, FinishCommand, CommandInv
    <3>2. last_update_matched \in [Clients -> BOOLEAN]
      BY IInvParts DEF FilterTypeOK
    <3> QED
      BY <3>1, <3>2 DEF Status
  <2>2. CASE ~SystemReturns
    <3>1. UNCHANGED <<last_update_matched, command>>
      BY <2>2
      DEF OtherStep, Create_All_Channels, Create_Channel, QuietStep, ContextCreate,
          ContextCreateFails, Continue, ShutDown, EndDrain, Timeouts, Exit, SigInt, SigTerm,
          Signalled, vars, filterVars
    <3> QED
      BY <3>1 DEF Status
  <2> QED
    BY <2>1, <2>2
<1>5. /\ Enough(d)' = Enough(d) /\ Leaving(d)' = Leaving(d)
      /\ Subscribing(d)' = Subscribing(d)
  BY <1>1, <1>2 DEF Enough, Leaving, Subscribing
<1> QED
  BY <1>1, <1>2, <1>3, <1>4, <1>5 DEF Fresh

LEMMA FreshStep ==
  ASSUME IInv, PolicyInv, FreshInv, MaxFaults = 0, [Next]_vars
  PROVE  FreshInv'
<1>1. ASSUME Clear_All_Channels PROVE FreshInv'
  <2>1. pc' = "clear"
    BY <1>1 DEF Clear_All_Channels
  <2> QED
    BY <2>1 DEF FreshInv
<1> QED
  BY <1>1, StepKinds, HandleUpFresh, HandleDownFresh, HandleEventFresh, GetFresh,
     SubscribeFresh, LibraryFresh, OtherFresh DEF OtherStep

-----------------------------------------------------------------------------
(* Nothing is queued of a client at rest: its circuit and its status are   *)
(* those that have been handled.                                           *)
LEMMA NothingQueued ==
  ASSUME NEW c, queue \in Seq(Callbacks), Queued(c) = 0
  PROVE  \A k \in 1..Len(queue) : queue[k].client # c
<1> DEFINE own == {k \in DOMAIN queue : queue[k].client = c}
<1>1. Len(queue) \in Nat /\ DOMAIN queue = 1..Len(queue)
  BY LenProperties
<1>2. IsFiniteSet(1..Len(queue))
  BY <1>1, FS_Interval
<1>3. IsFiniteSet(own)
  <2>1. own \subseteq 1..Len(queue)
    BY <1>1
  <2> QED
    BY <1>2, <2>1, FS_Subset
<1>4. own = {}
  BY <1>3, FS_EmptySet DEF Queued
<1> QED
  BY <1>1, <1>4

LEMMA RestIsFresh ==
  ASSUME IInv, PolicyInv, FreshInv, NEW c \in Clients, AtRest(c)
  PROVE  /\ element_index[c] <= nelm[c] => event_id[c]
         /\ event_id[c] /\ due[c] = 0 => last_update_matched[c] = Matches(c, pv[c])
<1>1. /\ pc \in {"test", "timeouts"} /\ link[c] = "up"
      /\ queue \in Seq(Callbacks)
      /\ Fresh(c) /\ command = NoCommand
  BY FreshTypes, IInvParts DEF AtRest, FreshInv, CommandInv
<1>2. \A k \in 1..Len(queue) : queue[k].client # c
  BY <1>1, NothingQueued DEF AtRest
<1>3. ~FollowedBy(queue, Up(c), 0) /\ ~FollowedBy(queue, Down(c), 0)
  BY <1>2 DEF FollowedBy, Up, Down
<1>4. online[c]
  BY <1>1, <1>3 DEF Fresh, Settled
<1>5. Enough(c) => event_id[c]
  BY <1>1, <1>3, <1>4 DEF Fresh, Leaving, Subscribing
<1>6. event_id[c] /\ due[c] = 0 => Shown(c, queue, Status(c), Matches(c, pv[c]))
  BY <1>1, <1>3 DEF Fresh, Leaving
<1>7. Shown(c, queue, Status(c), Matches(c, pv[c])) => Status(c) = Matches(c, pv[c])
  BY <1>2 DEF Shown, Reports
<1>8. Status(c) = last_update_matched[c]
  BY <1>1 DEF Status
<1> QED
  BY <1>1, <1>5, <1>6, <1>7, <1>8 DEF Enough

(* When nothing is lost: a channel that is up with the element asked for   *)
(* is subscribed as soon as its callbacks have been handled, whatever      *)
(* connections, disconnections and restarts of the server there have been. *)
THEOREM RestIsSubscribed == ASSUME MaxFaults = 0 PROVE Spec => []SubscribedAtRest
<1> DEFINE J == IInv /\ PolicyInv /\ FreshInv
<1>1. Init => J
  BY IInvInit, PolicyInvInit, FreshInit
<1>2. J /\ [Next]_vars => J'
  BY IInvStep, PolicyInvStep, FreshStep
<1>3. J => SubscribedAtRest
  BY RestIsFresh DEF SubscribedAtRest
<1> QED
  BY <1>1, <1>2, <1>3, PTL DEF Spec

(* When nothing is lost: kryten's status of a subscribed PV is that of the *)
(* PV's value as soon as its callbacks have been handled and the library   *)
(* has no update to report.                                                *)
THEOREM RestIsCurrent == ASSUME MaxFaults = 0 PROVE Spec => []NeverStale
<1> DEFINE J == IInv /\ PolicyInv /\ FreshInv
<1>1. Init => J
  BY IInvInit, PolicyInvInit, FreshInit
<1>2. J /\ [Next]_vars => J'
  BY IInvStep, PolicyInvStep, FreshStep
<1>3. J => NeverStale
  BY RestIsFresh DEF NeverStale
<1> QED
  BY <1>1, <1>2, <1>3, PTL DEF Spec
=============================================================================
