---------------------- MODULE BufferedCallbacks_proofs ----------------------
(***************************************************************************)
(* For any number of library threads, any burst limit and any bounds: the  *)
(* mutex makes each thread's use of the list indivisible, and the module   *)
(* implements the queue of CallbackFifo.                                   *)
(***************************************************************************)
EXTENDS BufferedCallbacks, SequenceTheorems, TLAPS

(* Where a thread can be, and what it holds there.                         *)
ThreadsInPlace ==
  /\ \A t \in Threads : pc[t] \in {"idle", "count", "lock", "add"}
  /\ \A t \in Threads : pc[t] \in {"lock", "add"} => item[t] \in Item
  /\ closing => \A t \in Threads : pc[t] = "idle"

ApplicationInPlace ==
  /\ pc[Main] \in {"idle", "reset", "lock", "get", "handle", "free"}
  /\ pc[Main] \in {"handle", "free"} => item[Main] \in Item
  /\ closing => pc[Main] # "handle"

(* The mutex is held by the thread inside the critical section, whose      *)
(* working copy is the list.                                               *)
MutexIsHeld ==
  /\ \A p \in Processes : InMutex(p) <=> linked_list_mutex = p
  /\ \A p \in Processes : InMutex(p) => copy[p] = linked_list

IInv == TypeOK /\ ThreadsInPlace /\ ApplicationInPlace /\ MutexIsHeld

-----------------------------------------------------------------------------
LEMMA NewItem ==
  ASSUME NEW t \in Threads, NEW k \in 1..MaxCallbacks[t], NEW c \in Kinds, NEW d \in BOOLEAN
  PROVE  [from |-> t, no |-> k, kind |-> c, data |-> d] \in Item
<1>1. [from |-> t, no |-> k, kind |-> c, data |-> d] \in
        [from : {t}, no : 1..MaxCallbacks[t], kind : Kinds, data : BOOLEAN]
  OBVIOUS
<1> QED
  BY <1>1 DEF Item

LEMMA ItemIs ==
  ASSUME NEW i \in Item
  PROVE  /\ i.from \in Threads /\ i.no \in Nat \ {0} /\ i.kind \in Kinds /\ i.data \in BOOLEAN
         /\ i = [from |-> i.from, no |-> i.no, kind |-> i.kind, data |-> i.data]
<1>1. PICK t \in Threads :
        i \in [from : {t}, no : 1..MaxCallbacks[t], kind : Kinds, data : BOOLEAN]
  BY DEF Item
<1>2. MaxCallbacks[t] \in Nat
  BY BoundAssumption
<1> QED
  BY <1>1, <1>2

LEMMA TypeInit == Init => TypeOK
<1> SUFFICES ASSUME Init PROVE TypeOK
  OBVIOUS
<1>1. linked_list \in Seq(Item) /\ delivered \in Seq(Item)
      /\ copy \in [Processes -> Seq(Item)]
  BY EmptySeq DEF Init
<1>2. linked_list_mutex \in Processes \cup {NoThread}
  BY DEF Init
<1>3. allocate_fail_count \in Nat /\ n \in Nat /\ failures \in Nat
      /\ seen \in [Threads -> Nat] /\ made \in [Threads -> Nat]
  BY BoundAssumption DEF Init
<1>4. heap \subseteq ({"node", "data"} \X Threads \X (Nat \ {0}))
  BY DEF Init
<1>5. pc \in [Processes -> {"idle", "count", "lock", "add", "reset", "get",
                           "handle", "free"}]
      /\ item \in [Processes -> Item \cup {NoItem}]
  BY DEF Init
<1>6. closing \in BOOLEAN /\ crashed \in BOOLEAN
  BY DEF Init
<1> QED
  BY <1>1, <1>2, <1>3, <1>4, <1>5, <1>6 DEF TypeOK

LEMMA TypeStep == ASSUME IInv, [Next]_vars PROVE TypeOK'
<1> USE MainAssumption, NoThreadAssumption, BoundAssumption
        DEF IInv, TypeOK, listVars, countVars, Processes
<1>1. ASSUME NEW t \in Threads, NEW call \in Calls, Handler(t, call)
      PROVE  TypeOK'
  <2> DEFINE new == [from |-> t, no |-> made[t] + 1, kind |-> call.kind,
                     data |-> call.data]
  <2>1. call.kind \in Kinds /\ call.data \in BOOLEAN
    BY DEF Calls, Kinds
  <2>2. made[t] + 1 \in 1..MaxCallbacks[t] /\ made[t] + 1 \in Nat \ {0}
    BY <1>1 DEF Handler, Calling
  <2>3. new \in Item
    BY <2>1, <2>2, NewItem
  <2>4. Blocks(new) \subseteq ({"node", "data"} \X Threads \X (Nat \ {0}))
    BY <2>2 DEF Blocks, Node, Data
  <2>5. item' \in [Processes -> Item \cup {NoItem}]
    BY <1>1, <2>3 DEF Handler
  <2>6. heap' \subseteq ({"node", "data"} \X Threads \X (Nat \ {0}))
    BY <1>1, <2>4 DEF Handler
  <2>7. made' \in [Threads -> Nat]
    BY <1>1, <2>2 DEF Handler
  <2> QED
    BY <1>1, <2>5, <2>6, <2>7 DEF Handler
<1>2. ASSUME NEW t \in Threads, NEW call \in Calls, PayloadFails(t, call)
      PROVE  TypeOK'
  BY <1>2 DEF PayloadFails
<1>3. ASSUME NEW t \in Threads, AllocateFails(t) PROVE TypeOK'
  BY <1>3 DEF AllocateFails
<1>4. ASSUME NEW t \in Threads, CountFailure(t) PROVE TypeOK'
  BY <1>4 DEF CountFailure
<1>5. ASSUME NEW t \in Threads, LoadBegin(t) PROVE TypeOK'
  BY <1>5 DEF LoadBegin, Lock
<1>6. ASSUME NEW t \in Threads, LoadEnd(t) PROVE TypeOK'
  <2>1. item[t] \in Item
    BY <1>6 DEF LoadEnd, ThreadsInPlace
  <2>2. Append(copy[t], item[t]) \in Seq(Item)
    BY <2>1, AppendProperties
  <2> QED
    BY <1>6, <2>2 DEF LoadEnd, WriteBack, Added
<1>7. ASSUME Process PROVE TypeOK'
  BY <1>7 DEF Process
<1>8. ASSUME ResetCount PROVE TypeOK'
  BY <1>8 DEF ResetCount
<1>9. ASSUME UnloadBegin PROVE TypeOK'
  BY <1>9 DEF UnloadBegin, Lock
<1>10. ASSUME UnloadEmpty PROVE TypeOK'
  BY <1>10 DEF UnloadEmpty, WriteBack
<1>11. ASSUME UnloadFirst PROVE TypeOK'
  <2>1. Head(copy[Main]) \in Item /\ Tail(copy[Main]) \in Seq(Item)
    BY <1>11, HeadTailProperties DEF UnloadFirst
  <2> QED
    BY <1>11, <2>1 DEF UnloadFirst, WriteBack
<1>12. ASSUME Handle PROVE TypeOK'
  <2>1. Append(delivered, item[Main]) \in Seq(Item)
    BY <1>12, AppendProperties DEF Handle, ApplicationInPlace
  <2> QED
    BY <1>12, <2>1 DEF Handle
<1>13. ASSUME Free PROVE TypeOK'
  BY <1>13 DEF Free
<1>14. ASSUME ClearAll PROVE TypeOK'
  BY <1>14 DEF ClearAll
<1>15. ASSUME UNCHANGED vars PROVE TypeOK'
  BY <1>15 DEF vars
<1> QED
  BY <1>1, <1>2, <1>3, <1>4, <1>5, <1>6, <1>7, <1>8, <1>9, <1>10, <1>11,
     <1>12, <1>13, <1>14, <1>15
  DEF Next, LibraryStep, LibraryCall, ApplicationStep
-----------------------------------------------------------------------------
(* The rest of the invariant is inductive too: only the thread that steps  *)
(* changes its place, and it takes the mutex only when it is free.         *)
LEMMA PlaceInit == Init => ThreadsInPlace /\ ApplicationInPlace /\ MutexIsHeld
  BY MainAssumption, NoThreadAssumption
  DEF Init, ThreadsInPlace, ApplicationInPlace, MutexIsHeld, InMutex, Processes

LEMMA ThreadsStep == ASSUME IInv, [Next]_vars PROVE ThreadsInPlace'
<1> USE MainAssumption DEF IInv, TypeOK, ThreadsInPlace, listVars, countVars,
                           Processes
<1>1. ASSUME NEW t \in Threads, NEW call \in Calls, Handler(t, call)
      PROVE  ThreadsInPlace'
  <2> DEFINE new == [from |-> t, no |-> made[t] + 1, kind |-> call.kind,
                     data |-> call.data]
  <2>1. call.kind \in Kinds /\ call.data \in BOOLEAN
    BY DEF Calls, Kinds
  <2>2. made[t] + 1 \in 1..MaxCallbacks[t]
    <3>1. made[t] \in Nat /\ MaxCallbacks[t] \in Nat /\ made[t] < MaxCallbacks[t]
      BY <1>1, BoundAssumption DEF Handler, Calling
    <3> QED BY ONLY <3>1
  <2>3. new \in Item
    BY <2>1, <2>2, NewItem
  <2> HIDE DEF new
  <2>4. item' = [item EXCEPT ![t] = new] /\ pc' = [pc EXCEPT ![t] = "lock"]
        /\ closing' = closing /\ ~closing
    BY <1>1 DEF Handler, Calling, new
  <2> QED
    BY <2>3, <2>4
<1>2. ASSUME NEW t \in Threads, NEW call \in Calls, PayloadFails(t, call)
      PROVE  ThreadsInPlace'
  BY <1>2 DEF PayloadFails
<1>3. ASSUME NEW t \in Threads, AllocateFails(t) PROVE ThreadsInPlace'
  BY <1>3 DEF AllocateFails, Calling
<1>4. ASSUME NEW t \in Threads, CountFailure(t) PROVE ThreadsInPlace'
  BY <1>4 DEF CountFailure
<1>5. ASSUME NEW t \in Threads, LoadBegin(t) PROVE ThreadsInPlace'
  BY <1>5 DEF LoadBegin, Lock
<1>6. ASSUME NEW t \in Threads, LoadEnd(t) PROVE ThreadsInPlace'
  BY <1>6 DEF LoadEnd, WriteBack
<1>7. ASSUME ApplicationStep PROVE ThreadsInPlace'
  <2>1. /\ \A t \in Threads : pc'[t] = pc[t] /\ item'[t] = item[t]
        /\ closing' = closing
    BY <1>7 DEF ApplicationStep, Process, ResetCount, UnloadBegin, UnloadEmpty,
                UnloadFirst, Handle, Free, Lock, WriteBack
  <2> QED
    BY <2>1
<1>8. ASSUME ClearAll PROVE ThreadsInPlace'
  BY <1>8 DEF ClearAll
<1>9. ASSUME UNCHANGED vars PROVE ThreadsInPlace'
  BY <1>9 DEF vars
<1> QED
  BY <1>1, <1>2, <1>3, <1>4, <1>5, <1>6, <1>7, <1>8, <1>9
  DEF Next, LibraryStep, LibraryCall

LEMMA ApplicationStepInPlace ==
  ASSUME IInv, [Next]_vars PROVE ApplicationInPlace'
<1> USE MainAssumption DEF IInv, TypeOK, ApplicationInPlace, listVars,
                           countVars, Processes
<1>1. ASSUME NEW t \in Threads, LibraryStep(t) \/ LibraryCall(t)
      PROVE  ApplicationInPlace'
  <2>1. pc'[Main] = pc[Main] /\ item'[Main] = item[Main] /\ closing' = closing
    BY <1>1 DEF LibraryStep, LibraryCall, CountFailure, LoadBegin, LoadEnd,
                AllocateFails, Handler, PayloadFails, Lock, WriteBack
  <2> QED
    BY <2>1
<1>2. ASSUME Process PROVE ApplicationInPlace'
  BY <1>2 DEF Process
<1>3. ASSUME ResetCount PROVE ApplicationInPlace'
  BY <1>3 DEF ResetCount
<1>4. ASSUME UnloadBegin PROVE ApplicationInPlace'
  BY <1>4 DEF UnloadBegin, Lock
<1>5. ASSUME UnloadEmpty PROVE ApplicationInPlace'
  BY <1>5 DEF UnloadEmpty, WriteBack
<1>6. ASSUME UnloadFirst PROVE ApplicationInPlace'
  <2>1. Head(copy[Main]) \in Item
    BY <1>6, HeadTailProperties DEF UnloadFirst
  <2> QED
    BY <1>6, <2>1 DEF UnloadFirst, WriteBack
<1>7. ASSUME Handle PROVE ApplicationInPlace'
  BY <1>7 DEF Handle
<1>8. ASSUME Free PROVE ApplicationInPlace'
  BY <1>8 DEF Free
<1>9. ASSUME ClearAll PROVE ApplicationInPlace'
  BY <1>9 DEF ClearAll
<1>10. ASSUME UNCHANGED vars PROVE ApplicationInPlace'
  BY <1>10 DEF vars
<1> QED
  BY <1>1, <1>2, <1>3, <1>4, <1>5, <1>6, <1>7, <1>8, <1>9, <1>10
  DEF Next, ApplicationStep

(* A thread outside the critical section that takes no mutex leaves it to  *)
(* whoever has it.                                                         *)
LEMMA MutexStep == ASSUME IInv, [Next]_vars PROVE MutexIsHeld'
<1> USE MainAssumption, NoThreadAssumption
        DEF IInv, TypeOK, MutexIsHeld, InMutex, listVars, countVars, Processes
<1>1. ASSUME NEW t \in Threads, LibraryCall(t) PROVE MutexIsHeld'
  BY <1>1 DEF LibraryCall, AllocateFails, Handler, PayloadFails, Calling
<1>2. ASSUME NEW t \in Threads, CountFailure(t) PROVE MutexIsHeld'
  BY <1>2 DEF CountFailure
<1>3. ASSUME NEW t \in Threads, LoadBegin(t) PROVE MutexIsHeld'
  BY <1>3 DEF LoadBegin, Lock, MutexFree
<1>4. ASSUME NEW t \in Threads, LoadEnd(t) PROVE MutexIsHeld'
  BY <1>4 DEF LoadEnd, WriteBack
<1>5. ASSUME UnloadBegin PROVE MutexIsHeld'
  BY <1>5 DEF UnloadBegin, Lock, MutexFree
<1>6. ASSUME UnloadEmpty PROVE MutexIsHeld'
  BY <1>6 DEF UnloadEmpty, WriteBack
<1>7. ASSUME UnloadFirst PROVE MutexIsHeld'
  BY <1>7 DEF UnloadFirst, WriteBack
<1>8. ASSUME Process \/ ResetCount \/ Handle \/ Free PROVE MutexIsHeld'
  BY <1>8 DEF Process, ResetCount, Handle, Free
<1>9. ASSUME ClearAll PROVE MutexIsHeld'
  BY <1>9 DEF ClearAll
<1>10. ASSUME UNCHANGED vars PROVE MutexIsHeld'
  BY <1>10 DEF vars
<1> QED
  BY <1>1, <1>2, <1>3, <1>4, <1>5, <1>6, <1>7, <1>8, <1>9, <1>10
  DEF Next, LibraryStep, ApplicationStep

-----------------------------------------------------------------------------
(* The invariant holds: every variable has its type, every thread is where *)
(* the code can put it, and the mutex is held by the thread in the         *)
(* critical section.                                                       *)
THEOREM Invariance == Spec => []IInv
<1>1. Init => IInv
  BY TypeInit, PlaceInit DEF IInv
<1>2. IInv /\ [Next]_vars => IInv'
  BY TypeStep, ThreadsStep, ApplicationStepInPlace, MutexStep DEF IInv
<1> QED
  BY <1>1, <1>2, PTL DEF Spec

(* Type correctness of the module's state, for any number of threads.      *)
THEOREM TypeCorrect == Spec => []TypeOK
<1>1. IInv => TypeOK
  BY DEF IInv
<1> QED
  BY <1>1, Invariance, PTL

(* The mutex of buffered_callbacks.c makes load_element and unload_element *)
(* exclusive, and the list cannot change between their read and their      *)
(* write, for any number of library threads.                               *)
THEOREM ListStable == Spec => []ListIsStable
<1>1. IInv => ListIsStable
  BY DEF IInv, MutexIsHeld, ListIsStable
<1> QED
  BY <1>1, Invariance, PTL
-----------------------------------------------------------------------------
(* Appending to the right of a concatenation appends to the whole.         *)
LEMMA ConcatAppend ==
  ASSUME NEW S, NEW h \in Seq(S), NEW l \in Seq(S), NEW x \in S
  PROVE  h \o Append(l, x) = Append(h \o l, x)
<1>1. <<x>> \in Seq(S)
  OBVIOUS
<1>2. Append(l, x) = l \o <<x>> /\ Append(h \o l, x) = (h \o l) \o <<x>>
  BY AppendIsConcat, ConcatProperties
<1>3. h \o (l \o <<x>>) = (h \o l) \o <<x>>
  BY <1>1, ConcatAssociative
<1> QED
  BY <1>2, <1>3

(* A sequence that is not empty is its head followed by its tail.          *)
LEMMA HeadThenTail ==
  ASSUME NEW S, NEW l \in Seq(S), l # <<>>
  PROVE  <<Head(l)>> \o Tail(l) = l
<1>1. Head(l) \in S /\ Tail(l) \in Seq(S) /\ <<Head(l)>> \in Seq(S)
  BY HeadTailProperties
<1>2. Len(<<Head(l)>> \o Tail(l)) = Len(l)
  BY <1>1, HeadTailProperties, ConcatProperties, LenProperties
<1>3. \A i \in 1..Len(l) : (<<Head(l)>> \o Tail(l))[i] = l[i]
  BY <1>1, HeadTailProperties, ConcatProperties, LenProperties
<1>4. <<Head(l)>> \o Tail(l) \in Seq(S)
  BY <1>1, ConcatProperties
<1> QED
  BY <1>2, <1>3, <1>4, SeqEqual

(* The head and the tail of a sequence that begins with one element.       *)
LEMMA HeadAndTailOfCons ==
  ASSUME NEW S, NEW x \in S, NEW l \in Seq(S)
  PROVE  /\ <<x>> \o l # <<>>
         /\ Head(<<x>> \o l) = x
         /\ Tail(<<x>> \o l) = l
<1> DEFINE s == <<x>> \o l
<1>1. <<x>> \in Seq(S) /\ Len(<<x>>) = 1
  OBVIOUS
<1>2. s \in Seq(S) /\ Len(s) = 1 + Len(l)
      /\ \A i \in 1..(1 + Len(l)) : s[i] = IF i <= 1 THEN <<x>>[i] ELSE l[i - 1]
  BY <1>1, ConcatProperties
<1>3. Len(l) \in Nat
  BY LenProperties
<1>4. s # <<>>
  BY <1>2, <1>3
<1>5. Head(s) = x
  BY <1>2, <1>3
<1>6. Tail(s) \in Seq(S) /\ Len(Tail(s)) = Len(l)
      /\ \A i \in 1..Len(l) : Tail(s)[i] = s[i + 1]
  BY <1>2, <1>3, <1>4, HeadTailProperties
<1>7. \A i \in 1..Len(l) : Tail(s)[i] = l[i]
  BY <1>2, <1>3, <1>6
<1>8. Tail(s) = l
  BY <1>6, <1>7, SeqEqual
<1> QED
  BY <1>4, <1>5, <1>8
-----------------------------------------------------------------------------
LEMMA FifoInitially == Init => Fifo!FifoInit
<1> SUFFICES ASSUME Init PROVE Fifo!FifoInit
  OBVIOUS
<1>1. Hand = <<>> /\ linked_list = <<>>
  BY DEF Init, Hand, Processes
<1>2. <<>> \o <<>> = <<>>
  BY ConcatEmptySeq, EmptySeq
<1> QED
  BY <1>1, <1>2 DEF Fifo!FifoInit, Init

(* Linking an element is Store, whatever the application is doing.         *)
LEMMA LoadEndStores ==
  ASSUME IInv, NEW t \in Threads, LoadEnd(t) PROVE Fifo!Store
<1> USE MainAssumption DEF IInv, TypeOK, Processes
<1>1. item[t] \in Item /\ ~closing
  BY DEF LoadEnd, ThreadsInPlace
<1>2. linked_list' = Append(linked_list, item[t])
  BY DEF LoadEnd, WriteBack, Added, MutexIsHeld, InMutex
<1>3. Hand' = Hand
  BY DEF LoadEnd, Hand
<1>4. Hand \in Seq(Item)
  BY EmptySeq DEF Hand, ApplicationInPlace
<1>5. (Hand \o linked_list)' = Append(Hand \o linked_list, item[t])
  BY <1>1, <1>2, <1>3, <1>4, ConcatAppend
<1>6. UNCHANGED <<delivered, closing>>
  BY DEF LoadEnd
<1> QED
  BY <1>1, <1>5, <1>6 DEF Fifo!Store

(* Unlinking one moves it from the list to the application's hand, which   *)
(* the queue does not notice, or discards it.                              *)
LEMMA UnloadFirstStuttersOrDiscards ==
  ASSUME IInv, UnloadFirst
  PROVE  UNCHANGED Fifo!fifoVars \/ Fifo!Discard
<1> USE MainAssumption DEF IInv, TypeOK, Processes
<1>1. copy[Main] = linked_list /\ linked_list # <<>>
  BY DEF UnloadFirst, MutexIsHeld, InMutex
<1>2. Hand = <<>> /\ Hand \o linked_list = linked_list
  BY ConcatEmptySeq DEF UnloadFirst, Hand
<1>3. linked_list' = Tail(linked_list) /\ linked_list' \in Seq(Item)
  BY <1>1, HeadTailProperties DEF UnloadFirst, WriteBack
<1>4. UNCHANGED <<delivered, closing>>
  BY DEF UnloadFirst
<1>5. CASE closing
  <2>1. Hand' = <<>>
    BY <1>5 DEF UnloadFirst, Hand
  <2>2. (Hand \o linked_list)' = Tail(linked_list)
    BY <2>1, <1>3, ConcatEmptySeq
  <2> QED
    BY <1>1, <1>2, <1>4, <1>5, <2>2 DEF Fifo!Discard
<1>6. CASE ~closing
  <2>1. Hand' = <<Head(linked_list)>>
    BY <1>1, <1>6 DEF UnloadFirst, Hand
  <2>2. (Hand \o linked_list)' = linked_list
    BY <2>1, <1>1, <1>3, HeadThenTail
  <2> QED
    BY <1>2, <1>4, <2>2 DEF Fifo!fifoVars
<1> QED
  BY <1>5, <1>6

(* Handling the element is Deliver.                                        *)
LEMMA HandleDelivers == ASSUME IInv, Handle PROVE Fifo!Deliver
<1> USE MainAssumption DEF IInv, TypeOK, Processes
<1>1. item[Main] \in Item /\ ~closing
  BY DEF Handle, ApplicationInPlace
<1>2. Hand = <<item[Main]>> /\ Hand' = <<>>
  BY DEF Handle, Hand
<1>3. /\ Hand \o linked_list # <<>>
      /\ Head(Hand \o linked_list) = item[Main]
      /\ Tail(Hand \o linked_list) = linked_list
  BY <1>1, <1>2, HeadAndTailOfCons
<1>4. (Hand \o linked_list)' = linked_list
  BY <1>2, ConcatEmptySeq DEF Handle, listVars
<1>5. delivered' = Append(delivered, item[Main]) /\ closing' = closing
  BY DEF Handle
<1> QED
  BY <1>1, <1>3, <1>4, <1>5 DEF Fifo!Deliver

LEMMA FifoStep ==
  ASSUME IInv, [Next]_vars PROVE [Fifo!FifoNext]_(Fifo!fifoVars)
<1> USE MainAssumption DEF IInv, TypeOK, Processes, listVars, countVars
<1>1. ASSUME NEW t \in Threads,
             LibraryCall(t) \/ CountFailure(t) \/ LoadBegin(t)
      PROVE  UNCHANGED Fifo!fifoVars
  <2>1. pc'[Main] = pc[Main] /\ item'[Main] = item[Main]
        /\ UNCHANGED <<linked_list, delivered, closing>>
    BY <1>1 DEF LibraryCall, AllocateFails, Handler, PayloadFails,
                CountFailure, LoadBegin, Lock
  <2> QED
    BY <2>1 DEF Fifo!fifoVars, Hand
<1>2. ASSUME NEW t \in Threads, LoadEnd(t) PROVE Fifo!Store
  BY <1>2, LoadEndStores DEF IInv
<1>3. ASSUME Process \/ ResetCount \/ UnloadBegin \/ Free
      PROVE  UNCHANGED Fifo!fifoVars
  <2>1. pc[Main] # "handle" /\ pc'[Main] # "handle"
        /\ UNCHANGED <<linked_list, delivered, closing>>
    BY <1>3 DEF Process, ResetCount, UnloadBegin, Free, Lock
  <2> QED
    BY <2>1 DEF Fifo!fifoVars, Hand
<1>4. ASSUME UnloadEmpty PROVE UNCHANGED Fifo!fifoVars
  <2>1. linked_list = <<>>
    BY <1>4 DEF UnloadEmpty, MutexIsHeld, InMutex
  <2>2. pc[Main] # "handle" /\ pc'[Main] # "handle" /\ linked_list' = <<>>
        /\ UNCHANGED <<delivered, closing>>
    BY <1>4 DEF UnloadEmpty, WriteBack
  <2> QED
    BY <2>1, <2>2 DEF Fifo!fifoVars, Hand
<1>5. ASSUME UnloadFirst PROVE UNCHANGED Fifo!fifoVars \/ Fifo!Discard
  BY <1>5, UnloadFirstStuttersOrDiscards DEF IInv
<1>6. ASSUME Handle PROVE Fifo!Deliver
  BY <1>6, HandleDelivers DEF IInv
<1>7. ASSUME ClearAll PROVE Fifo!BeginDiscarding
  <2>1. closing' = TRUE /\ pc[Main] # "handle" /\ pc'[Main] # "handle"
        /\ UNCHANGED <<linked_list, delivered>>
    BY <1>7 DEF ClearAll
  <2> QED
    BY <2>1 DEF Fifo!BeginDiscarding, Hand
<1>8. ASSUME UNCHANGED vars PROVE UNCHANGED Fifo!fifoVars
  BY <1>8 DEF vars, Fifo!fifoVars, Hand
<1> QED
  BY <1>1, <1>2, <1>3, <1>4, <1>5, <1>6, <1>7, <1>8
  DEF Next, LibraryStep, ApplicationStep, Fifo!FifoNext

(* buffered_callbacks.c implements the queue its header promises, for any  *)
(* number of library threads: one store per handler, one delivery per      *)
(* application_*_handler, in order.                                        *)
THEOREM Refinement == Spec => ImplementsFifo
<1>1. Init => Fifo!FifoInit
  BY FifoInitially
<1>2. IInv /\ [Next]_vars => [Fifo!FifoNext]_(Fifo!fifoVars)
  BY FifoStep
<1> QED
  BY <1>1, <1>2, Invariance, PTL DEF Spec, ImplementsFifo, Fifo!FifoSpec

-----------------------------------------------------------------------------
(* Each element is in one place, in order, and the heap is exactly the     *)
(* elements in use.  Sent(t) elements of thread t have been linked; those  *)
(* the application has unlinked or is to unlink are InUse.                 *)
Sent(t) == IF item[t] = NoItem THEN made[t] ELSE made[t] - 1
InUse   == Held(Main) \o linked_list

(* Only the payload of an event or a text is a block of its own.           *)
Proper(i) == i.kind = "CONNECTION" => ~i.data

HandInv ==
  /\ \A t \in Threads : /\ pc[t] \in {"lock", "add"} <=> item[t] # NoItem
                        /\ item[t] # NoItem => item[t].from = t /\ item[t].no = made[t]
  /\ pc[Main] \in {"handle", "free"} <=> item[Main] # NoItem

KindInv == \A i \in Needed : Proper(i)

OrderInv ==
  /\ \A t \in Threads : Ordered(InUse, t, Sent(t))
  /\ ~closing => \A t \in Threads : Ordered(Way, t, Sent(t)) /\ Complete(Way, t, Sent(t))

JourneyInv == HandInv /\ KindInv /\ OrderInv /\ HeapIsExact

-----------------------------------------------------------------------------
LEMMA OrderedAppends ==
  ASSUME NEW s \in Seq(Item), NEW x \in Item, NEW t, NEW m \in Nat,
         Ordered(s, t, m), x.from = t => x.no = m + 1
  PROVE  Ordered(Append(s, x), t, IF x.from = t THEN m + 1 ELSE m)
<1> DEFINE q == Append(s, x)
           l == Len(s)
<1>1. /\ l \in Nat /\ DOMAIN s = 1..l /\ DOMAIN q = 1..(l + 1)
      /\ q[l + 1] = x /\ \A k \in 1..l : q[k] = s[k]
  BY AppendProperties, LenProperties
<1> HIDE DEF q, l
<1>2. ASSUME NEW k \in DOMAIN q PROVE (k \in DOMAIN s /\ q[k] = s[k]) \/ (k = l + 1 /\ q[k] = x)
  BY <1>1
<1>3. \A k \in DOMAIN s : s[k].from = t => s[k].no \in 1..m
  BY DEF Ordered
<1>4. ASSUME NEW k \in DOMAIN q, q[k].from = t
      PROVE  q[k].no \in 1..(IF x.from = t THEN m + 1 ELSE m)
  BY <1>2, <1>3, <1>4
<1>5. ASSUME NEW j \in DOMAIN q, NEW k \in DOMAIN q, j < k, q[j].from = t, q[k].from = t
      PROVE  q[j].no < q[k].no
  <2>1. j \in DOMAIN s /\ q[j] = s[j]
    BY <1>1, <1>5
  <2>2. CASE k \in DOMAIN s /\ q[k] = s[k]
    BY <1>5, <2>1, <2>2 DEF Ordered
  <2>3. CASE q[k] = x
    BY <1>3, <1>5, <2>1, <2>3
  <2> QED
    BY <1>2, <2>2, <2>3
<1>6. Ordered(q, t, IF x.from = t THEN m + 1 ELSE m)
  BY <1>4, <1>5 DEF Ordered
<1> QED
  BY <1>6 DEF q

LEMMA CompleteAppends ==
  ASSUME NEW s \in Seq(Item), NEW x \in Item, NEW t, NEW m \in Nat,
         Complete(s, t, m), x.from = t => x.no = m + 1
  PROVE  Complete(Append(s, x), t, IF x.from = t THEN m + 1 ELSE m)
<1> DEFINE q == Append(s, x)
           l == Len(s)
<1>1. /\ l \in Nat /\ DOMAIN s = 1..l /\ DOMAIN q = 1..(l + 1)
      /\ q[l + 1] = x /\ \A k \in 1..l : q[k] = s[k]
  BY AppendProperties, LenProperties
<1> HIDE DEF q, l
<1>2. ASSUME NEW k \in 1..m PROVE \E j \in DOMAIN q : q[j].from = t /\ q[j].no = k
  <2>1. PICK j \in DOMAIN s : s[j].from = t /\ s[j].no = k
    BY <1>2 DEF Complete
  <2>2. j \in DOMAIN q /\ q[j] = s[j]
    BY <1>1, <2>1
  <2> QED
    BY <2>1, <2>2
<1>3. x.from = t => \E j \in DOMAIN q : q[j].from = t /\ q[j].no = m + 1
  BY <1>1
<1>4. Complete(q, t, IF x.from = t THEN m + 1 ELSE m)
  BY <1>2, <1>3 DEF Complete
<1> QED
  BY <1>4 DEF q

LEMMA OrderedTail ==
  ASSUME NEW s \in Seq(Item), s # <<>>, NEW t, NEW m, Ordered(s, t, m)
  PROVE  Ordered(Tail(s), t, m)
<1> DEFINE q == Tail(s)
           l == Len(s)
<1>1. /\ l \in Nat /\ DOMAIN s = 1..l /\ DOMAIN q = 1..(l - 1)
      /\ \A k \in 1..(l - 1) : q[k] = s[k + 1]
  BY HeadTailProperties, LenProperties, EmptySeq
<1> HIDE DEF q, l
<1>2. ASSUME NEW k \in DOMAIN q PROVE k + 1 \in DOMAIN s /\ q[k] = s[k + 1]
  BY <1>1
<1>3. ASSUME NEW k \in DOMAIN q, q[k].from = t PROVE q[k].no \in 1..m
  BY <1>2, <1>3 DEF Ordered
<1>4. ASSUME NEW j \in DOMAIN q, NEW k \in DOMAIN q, j < k, q[j].from = t, q[k].from = t
      PROVE  q[j].no < q[k].no
  <2>1. j + 1 < k + 1
    BY <1>1, <1>4
  <2> QED
    BY <1>2, <1>4, <2>1 DEF Ordered
<1>5. Ordered(q, t, m)
  BY <1>3, <1>4 DEF Ordered
<1> QED
  BY <1>5 DEF q

-----------------------------------------------------------------------------
(* What the threads hold and the sequences made of it.                     *)
LEMMA JourneyTypes ==
  ASSUME IInv, HandInv
  PROVE  /\ linked_list \in Seq(Item) /\ delivered \in Seq(Item)
         /\ Hand \in Seq(Item) /\ Way \in Seq(Item)
         /\ InUse \in Seq(Item)
         /\ \A p \in Processes : Held(p) \in Seq(Item)
         /\ \A t \in Threads : Sent(t) \in Nat /\ made[t] \in Nat
         /\ \A i \in Needed : i \in Item
<1> USE MainAssumption DEF IInv, TypeOK, Processes
<1>1. linked_list \in Seq(Item) /\ delivered \in Seq(Item)
  OBVIOUS
<1>2. \A p \in Processes : Held(p) \in Seq(Item)
  BY EmptySeq DEF Held
<1>3. Hand \in Seq(Item)
  BY EmptySeq DEF Hand, ApplicationInPlace
<1>4. Way \in Seq(Item) /\ InUse \in Seq(Item)
  BY <1>1, <1>2, <1>3, ConcatProperties DEF Way, InUse
<1>5. ASSUME NEW t \in Threads PROVE Sent(t) \in Nat /\ made[t] \in Nat
  <2>1. made[t] \in Nat /\ item[t] \in Item \cup {NoItem}
    BY BoundAssumption
  <2>2. item[t] # NoItem => made[t] \in Nat \ {0}
    BY <2>1, ItemIs DEF HandInv
  <2> QED
    BY <2>1, <2>2 DEF Sent
<1>6. ASSUME NEW i \in Needed PROVE i \in Item
  <2>1. CASE i \in Range1(linked_list)
    BY <1>1, <2>1, LenProperties DEF Range1
  <2>2. CASE i \in {item[p] : p \in Processes} \ {NoItem}
    BY <2>2
  <2> QED
    BY <1>6, <2>1, <2>2 DEF Needed
<1> QED
  BY <1>1, <1>2, <1>3, <1>4, <1>5, <1>6

LEMMA JourneyInit == Init => JourneyInv
<1> SUFFICES ASSUME Init PROVE JourneyInv
  OBVIOUS
<1> USE MainAssumption
<1>1. /\ linked_list = <<>> /\ delivered = <<>> /\ heap = {}
      /\ \A p \in Processes : item[p] = NoItem /\ pc[p] = "idle"
      /\ \A t \in Threads : made[t] = 0
  BY DEF Init
<1>2. Needed = {}
  <2>1. Range1(linked_list) = {}
    BY <1>1 DEF Range1
  <2> QED
    BY <1>1, <2>1 DEF Needed
<1>3. HeapIsExact /\ KindInv
  BY <1>1, <1>2 DEF HeapIsExact, KindInv
<1>4. HandInv
  BY <1>1 DEF HandInv, Processes
<1>5. Way = <<>> /\ InUse = <<>>
  <2>1. Hand = <<>> /\ Held(Main) = <<>>
    BY <1>1 DEF Hand, Held, Processes
  <2> QED
    BY <1>1, <2>1 DEF Way, InUse
<1>6. ASSUME NEW t \in Threads
      PROVE  Ordered(<<>>, t, Sent(t)) /\ Complete(<<>>, t, Sent(t))
  <2>1. Sent(t) = 0
    BY <1>1 DEF Sent, Processes
  <2> QED
    BY <2>1 DEF Ordered, Complete
<1>7. OrderInv
  BY <1>5, <1>6 DEF OrderInv
<1> QED
  BY <1>3, <1>4, <1>7 DEF JourneyInv

-----------------------------------------------------------------------------
(* The steps.  Those that move no element:                                 *)
Unmoved == UNCHANGED <<item, linked_list, made, delivered, heap>>

LEMMA UnmovedKeeps ==
  ASSUME IInv, JourneyInv, Unmoved, HandInv', Hand' = Hand, ~closing' => ~closing
  PROVE  JourneyInv'
<1>1. InUse' = InUse /\ Way' = Way /\ Needed' = Needed
  BY DEF Unmoved, InUse, Held, Way, Needed
<1>2. \A t \in Threads : Sent(t)' = Sent(t)
  BY DEF Unmoved, Sent
<1>3. OrderInv'
  BY <1>1, <1>2 DEF JourneyInv, OrderInv
<1>4. HeapIsExact' /\ KindInv'
  BY <1>1 DEF JourneyInv, HeapIsExact, KindInv, Unmoved
<1> QED
  BY <1>3, <1>4 DEF JourneyInv

LEMMA QuietJourney ==
  ASSUME IInv, JourneyInv,
         \/ \E t \in Threads : \/ CountFailure(t) \/ LoadBegin(t) \/ AllocateFails(t)
                               \/ \E call \in Calls : PayloadFails(t, call)
         \/ Process \/ ResetCount \/ UnloadBegin \/ UnloadEmpty \/ ClearAll
         \/ UNCHANGED vars
  PROVE  JourneyInv'
<1> USE MainAssumption DEF IInv, TypeOK, JourneyInv, HandInv, Processes, listVars, countVars
<1>1. ASSUME NEW t \in Threads, \/ CountFailure(t) \/ LoadBegin(t) \/ AllocateFails(t)
                                \/ \E call \in Calls : PayloadFails(t, call)
      PROVE  JourneyInv'
  <2>1. Unmoved /\ closing' = closing /\ pc'[Main] = pc[Main]
    BY <1>1 DEF CountFailure, LoadBegin, AllocateFails, PayloadFails, Lock, Unmoved
  <2>2. Hand' = Hand
    BY <2>1 DEF Hand, Unmoved
  <2>3. HandInv'
    BY <1>1, <2>1 DEF CountFailure, LoadBegin, AllocateFails, PayloadFails, Lock, Unmoved,
                      Calling
  <2> QED
    BY <2>1, <2>2, <2>3, UnmovedKeeps
<1>2. ASSUME Process \/ ResetCount \/ UnloadBegin \/ UnloadEmpty \/ ClearAll
      PROVE  JourneyInv'
  <2>1. UnloadEmpty => linked_list = <<>>
    BY DEF UnloadEmpty, MutexIsHeld, InMutex
  <2>2. /\ Unmoved /\ (~closing' => ~closing)
        /\ pc[Main] \notin {"handle", "free"} /\ pc'[Main] \notin {"handle", "free"}
        /\ \A t \in Threads : pc'[t] = pc[t]
    BY <1>2, <2>1
    DEF Process, ResetCount, UnloadBegin, UnloadEmpty, ClearAll, Lock, WriteBack, Unmoved
  <2>3. Hand' = Hand
    BY <2>2 DEF Hand
  <2>4. HandInv'
    BY <2>2 DEF Unmoved
  <2> QED
    BY <2>2, <2>3, <2>4, UnmovedKeeps
<1>3. ASSUME UNCHANGED vars PROVE JourneyInv'
  <2>1. Unmoved /\ closing' = closing /\ pc' = pc
    BY <1>3 DEF vars, Unmoved
  <2>2. Hand' = Hand
    BY <2>1 DEF Hand, Unmoved
  <2>3. HandInv'
    BY <2>1 DEF Unmoved
  <2> QED
    BY <2>1, <2>2, <2>3, UnmovedKeeps
<1> QED
  BY <1>1, <1>2, <1>3

(* A handler makes an element, which no place has yet.                     *)
LEMMA HandlerJourney ==
  ASSUME IInv, JourneyInv, NEW t \in Threads, NEW call \in Calls, Handler(t, call)
  PROVE  JourneyInv'
<1> USE MainAssumption DEF IInv, TypeOK, Processes
<1> DEFINE new == [from |-> t, no |-> made[t] + 1, kind |-> call.kind, data |-> call.data]
<1>1. /\ item' = [item EXCEPT ![t] = new] /\ heap' = heap \cup Blocks(new)
      /\ made' = [made EXCEPT ![t] = made[t] + 1]
      /\ pc' = [pc EXCEPT ![t] = "lock"]
      /\ UNCHANGED <<linked_list, delivered, closing>>
      /\ pc[t] = "idle" /\ made[t] < MaxCallbacks[t]
  BY DEF Handler, Calling, listVars
<1>2. new \in Item /\ new.from = t /\ new.no = made[t] + 1 /\ Proper(new)
  <2>1. call.kind \in Kinds /\ call.data \in BOOLEAN /\ Proper(call)
    BY DEF Calls, Kinds, Proper
  <2>2. made[t] + 1 \in 1..MaxCallbacks[t]
    <3>1. made[t] \in Nat /\ MaxCallbacks[t] \in Nat /\ made[t] < MaxCallbacks[t]
      BY <1>1, BoundAssumption
    <3> QED BY ONLY <3>1
  <2>3. new \in Item
    BY <2>1, <2>2, NewItem
  <2> QED
    BY <2>1, <2>3 DEF Proper
<1> HIDE DEF new
<1>3. new # NoItem /\ item[t] = NoItem /\ made[t] \in Nat
  <2>1. item[t] = NoItem
    BY <1>1 DEF JourneyInv, HandInv
  <2>2. made[t] \in Nat
    OBVIOUS
  <2> QED
    BY <1>2, <2>1, <2>2, NoItemAssumption, BoundAssumption
<1>4. \A p \in Processes : item'[p] = IF p = t THEN new ELSE item[p]
  BY <1>1
<1>5. HandInv'
  BY <1>1, <1>2, <1>3, <1>4 DEF JourneyInv, HandInv
<1>6. Needed' = Needed \cup {new}
  BY <1>1, <1>3, <1>4 DEF Needed
<1>7. HeapIsExact' /\ KindInv'
  BY <1>1, <1>2, <1>6 DEF JourneyInv, HeapIsExact, KindInv
<1>8. Way' = Way /\ InUse' = InUse
  BY <1>1, <1>4 DEF Way, InUse, Held, Hand
<1>9. \A u \in Threads : Sent(u)' = Sent(u)
  BY <1>1, <1>3, <1>4 DEF Sent
<1>10. OrderInv'
  BY <1>1, <1>8, <1>9 DEF JourneyInv, OrderInv
<1> QED
  BY <1>5, <1>7, <1>10 DEF JourneyInv

(* A thread links its element: the next one of its own.                    *)
LEMMA LoadEndJourney ==
  ASSUME IInv, JourneyInv, NEW t \in Threads, LoadEnd(t)
  PROVE  JourneyInv'
<1> USE MainAssumption DEF IInv, TypeOK, Processes
<1> DEFINE x == item[t]
<1>1. /\ item' = [item EXCEPT ![t] = NoItem]
      /\ pc' = [pc EXCEPT ![t] = "idle"] /\ pc[t] = "add"
      /\ UNCHANGED <<heap, made, delivered, closing>>
  BY DEF LoadEnd
<1>2. linked_list' = Append(linked_list, x)
  BY DEF LoadEnd, WriteBack, Added, MutexIsHeld, InMutex
<1>3. x \in Item /\ x # NoItem /\ x.from = t /\ x.no = made[t] /\ Sent(t) = made[t] - 1
  BY <1>1 DEF JourneyInv, HandInv, Sent, ThreadsInPlace
<1>4. \A p \in Processes : item'[p] = IF p = t THEN NoItem ELSE item[p]
  BY <1>1
<1>5. HandInv'
  BY <1>1, <1>4 DEF JourneyInv, HandInv
<1>6. Needed' = Needed
  <2>1. Range1(linked_list') = Range1(linked_list) \cup {x}
    <3>1. /\ Len(linked_list) \in Nat /\ DOMAIN linked_list = 1..Len(linked_list)
          /\ DOMAIN linked_list' = 1..(Len(linked_list) + 1)
          /\ linked_list'[Len(linked_list) + 1] = x
          /\ \A k \in 1..Len(linked_list) : linked_list'[k] = linked_list[k]
      BY <1>2, <1>3, AppendProperties, LenProperties
    <3>2. \A k \in DOMAIN linked_list' : k \in DOMAIN linked_list \/ k = Len(linked_list) + 1
      BY <3>1
    <3> HIDE DEF x
    <3>3. \A k \in DOMAIN linked_list : k \in DOMAIN linked_list'
      BY <3>1
    <3>4. Len(linked_list) + 1 \in DOMAIN linked_list'
      BY <3>1
    <3> QED
      BY <3>1, <3>2, <3>3, <3>4 DEF Range1
  <2>2. {item'[p] : p \in Processes} \ {NoItem} = ({item[p] : p \in Processes} \ {NoItem}) \ {x}
    <3>1. \A p \in Processes : p # t => item[p] # x
      <4>1. ASSUME NEW p \in Threads, p # t PROVE item[p] # x
        BY <1>3, <4>1 DEF JourneyInv, HandInv
      <4>2. item[Main] # x
        <5>1. SUFFICES ASSUME item[Main] = x PROVE FALSE
          OBVIOUS
        <5>2. Ordered(InUse, t, made[t] - 1)
          BY <1>3 DEF JourneyInv, OrderInv
        <5>3. InUse = <<x>> \o linked_list
          BY <1>3, <5>1 DEF InUse, Held
        <5>4. 1 \in DOMAIN InUse /\ InUse[1] = x
          BY <1>3, <5>3, HeadAndTailOfCons
        <5>5. x.no \in 1..(made[t] - 1) /\ made[t] \in Nat
          BY <1>3, <5>2, <5>4, BoundAssumption DEF Ordered
        <5> QED
          BY <1>3, <5>5
      <4> QED
        BY <4>1, <4>2
    <3> HIDE DEF x
    <3>2. \A p \in Processes : item'[p] # NoItem => p # t /\ item'[p] = item[p] /\ item[p] # x
      BY <1>4, <3>1
    <3>3. \A p \in Processes : item[p] # x => p # t /\ item'[p] = item[p]
      BY <1>4 DEF x
    <3> DEFINE was == ({item[p] : p \in Processes} \ {NoItem}) \ {x}
               is  == {item'[p] : p \in Processes} \ {NoItem}
    <3>4. ASSUME NEW p \in Processes, item'[p] # NoItem PROVE item'[p] \in was
      <4>1. p # t /\ item'[p] = item[p] /\ item[p] # x
        BY <3>2, <3>4
      <4> QED
        BY <3>4, <4>1
    <3>5. ASSUME NEW p \in Processes, item[p] # NoItem, item[p] # x PROVE item[p] \in is
      <4>1. p # t /\ item'[p] = item[p]
        BY <3>3, <3>5
      <4>2. item'[p] \in is
        BY <3>5, <4>1
      <4> QED
        BY <4>1, <4>2
    <3>6. is \subseteq was
      BY <3>4
    <3>7. was \subseteq is
      <4>1. SUFFICES ASSUME NEW i \in was PROVE i \in is
        OBVIOUS
      <4>2. PICK p \in Processes : i = item[p] /\ item[p] # NoItem /\ item[p] # x
        OBVIOUS
      <4> HIDE DEF is
      <4> QED
        BY <3>5, <4>2
    <3> HIDE DEF is, was
    <3>8. is = was
      BY <3>6, <3>7
    <3> QED
      BY <3>8 DEF is, was
  <2>3. x \in {item[p] : p \in Processes} \ {NoItem}
    BY <1>3
  <2> QED
    BY <2>1, <2>2, <2>3 DEF Needed
<1>7. HeapIsExact' /\ KindInv'
  BY <1>1, <1>6 DEF JourneyInv, HeapIsExact, KindInv
<1>8. Way' = Append(Way, x) /\ InUse' = Append(InUse, x)
  <2>1. Hand' = Hand /\ Held(Main)' = Held(Main)
    BY <1>1, <1>4 DEF Hand, Held
  <2>2. Hand \in Seq(Item) /\ Held(Main) \in Seq(Item) /\ delivered \o Hand \in Seq(Item)
    BY JourneyTypes, ConcatProperties DEF JourneyInv
  <2> DEFINE h == delivered \o Hand
             m == Held(Main)
  <2>3. x \in Item /\ h \in Seq(Item) /\ m \in Seq(Item) /\ linked_list \in Seq(Item)
    BY <1>3, <2>2
  <2> HIDE DEF x, h, m
  <2>4. h \o Append(linked_list, x) = Append(h \o linked_list, x)
    BY <2>3, ConcatAppend, SMTT(30)
  <2>5. m \o Append(linked_list, x) = Append(m \o linked_list, x)
    BY <2>3, ConcatAppend, SMTT(30)
  <2>6. Way' = Append(Way, x)
    <3>1. Way = h \o linked_list /\ Way' = h \o linked_list'
      BY <1>1, <2>1 DEF Way, h
    <3> QED
      BY <1>2, <2>4, <3>1
  <2>7. InUse' = Append(InUse, x)
    <3>1. InUse = m \o linked_list /\ InUse' = m \o linked_list'
      BY <2>1 DEF InUse, m
    <3> QED
      BY <1>2, <2>5, <3>1
  <2> QED
    BY <2>6, <2>7
<1>9. ASSUME NEW u \in Threads
      PROVE  /\ Sent(u) \in Nat
             /\ x.from = u => x.no = Sent(u) + 1
             /\ Sent(u)' = IF x.from = u THEN Sent(u) + 1 ELSE Sent(u)
  <2>1. Sent(u) \in Nat /\ made[u] \in Nat
    BY JourneyTypes DEF JourneyInv
  <2> QED
    BY <1>1, <1>3, <1>4, <2>1 DEF Sent
<1>10. Way \in Seq(Item) /\ InUse \in Seq(Item)
  BY JourneyTypes DEF JourneyInv
<1> HIDE DEF x
<1>11. ASSUME NEW u \in Threads PROVE Ordered(InUse', u, Sent(u)')
  <2>1. Ordered(InUse, u, Sent(u))
    BY DEF JourneyInv, OrderInv
  <2>2. Ordered(Append(InUse, x), u, IF x.from = u THEN Sent(u) + 1 ELSE Sent(u))
    BY <1>3, <1>9, <1>10, <2>1, OrderedAppends
  <2> QED
    BY <1>8, <1>9, <2>2
<1>12. ASSUME NEW u \in Threads, ~closing
       PROVE  Ordered(Way', u, Sent(u)') /\ Complete(Way', u, Sent(u)')
  <2>1. Ordered(Way, u, Sent(u)) /\ Complete(Way, u, Sent(u))
    BY <1>12 DEF JourneyInv, OrderInv
  <2>2. Ordered(Append(Way, x), u, IF x.from = u THEN Sent(u) + 1 ELSE Sent(u))
    BY <1>3, <1>9, <1>10, <2>1, OrderedAppends
  <2>3. Complete(Append(Way, x), u, IF x.from = u THEN Sent(u) + 1 ELSE Sent(u))
    BY <1>3, <1>9, <1>10, <2>1, CompleteAppends
  <2> QED
    BY <1>8, <1>9, <2>2, <2>3
<1>13. OrderInv'
  BY <1>1, <1>11, <1>12 DEF OrderInv
<1> QED
  BY <1>5, <1>7, <1>13 DEF JourneyInv

(* The application unlinks the first element: it stays in use.             *)
LEMMA UnloadFirstJourney ==
  ASSUME IInv, JourneyInv, UnloadFirst PROVE JourneyInv'
<1> USE MainAssumption DEF IInv, TypeOK, Processes
<1> DEFINE x == Head(linked_list)
           l == Tail(linked_list)
<1>1. /\ linked_list # <<>> /\ pc[Main] = "get"
      /\ item' = [item EXCEPT ![Main] = x] /\ linked_list' = l
      /\ pc' = [pc EXCEPT ![Main] = IF closing THEN "free" ELSE "handle"]
      /\ UNCHANGED <<heap, made, delivered, closing>>
  BY DEF UnloadFirst, WriteBack, MutexIsHeld, InMutex
<1>2. x \in Item /\ l \in Seq(Item) /\ <<x>> \o l = linked_list
  BY <1>1, HeadTailProperties, HeadThenTail
<1>3. x # NoItem
  BY <1>2, NoItemAssumption
<1>4. item[Main] = NoItem
  BY <1>1 DEF JourneyInv, HandInv
<1> HIDE DEF x, l
<1>5. \A p \in Processes : item'[p] = IF p = Main THEN x ELSE item[p]
  BY <1>1
<1>6. HandInv'
  BY <1>1, <1>3, <1>5 DEF JourneyInv, HandInv
<1>7. \A t \in Threads : Sent(t)' = Sent(t)
  BY <1>1, <1>5 DEF Sent
<1>8. Held(Main) = <<>> /\ Held(Main)' = <<x>>
  BY <1>3, <1>4, <1>5 DEF Held
<1>9. InUse' = InUse
  BY <1>1, <1>2, <1>8, ConcatEmptySeq DEF InUse
<1>10. ~closing => Way' = Way
  <2>1. SUFFICES ASSUME ~closing PROVE Way' = Way
    OBVIOUS
  <2>2. Hand = <<>> /\ Hand' = <<x>>
    BY <1>1, <1>5, <2>1 DEF Hand
  <2>3. delivered \in Seq(Item) /\ <<x>> \in Seq(Item)
    BY <1>2
  <2>4. (delivered \o <<x>>) \o l = delivered \o (<<x>> \o l)
    BY <1>2, <2>3, ConcatAssociative, SMTT(30)
  <2>5. delivered \o <<>> = delivered
    BY <2>3, ConcatEmptySeq
  <2> QED
    BY <1>1, <1>2, <2>2, <2>4, <2>5 DEF Way
<1>11. OrderInv'
  BY <1>1, <1>7, <1>9, <1>10 DEF JourneyInv, OrderInv
<1>12. Needed' = Needed
  <2>1. Range1(linked_list) = {x} \cup Range1(l)
    <3>1. Len(l) \in Nat /\ DOMAIN l = 1..Len(l) /\ linked_list \in Seq(Item)
          /\ DOMAIN linked_list = 1..(Len(l) + 1) /\ linked_list[1] = x
          /\ \A k \in 1..Len(l) : l[k] = linked_list[k + 1]
      BY <1>1, <1>2, HeadTailProperties, LenProperties DEF x, l
    <3>2. \A k \in DOMAIN linked_list : k = 1 \/ (k - 1 \in DOMAIN l /\ l[k - 1] = linked_list[k])
      BY <3>1
    <3>3. 1 \in DOMAIN linked_list
      BY <3>1
    <3>4. \A k \in DOMAIN l : k + 1 \in DOMAIN linked_list /\ linked_list[k + 1] = l[k]
      BY <3>1
    <3>5. ASSUME NEW i \in Range1(linked_list) PROVE i \in {x} \cup Range1(l)
      <4>1. PICK k \in DOMAIN linked_list : i = linked_list[k]
        BY DEF Range1
      <4>2. CASE k = 1
        BY <3>1, <4>1, <4>2
      <4>3. CASE k - 1 \in DOMAIN l /\ l[k - 1] = linked_list[k]
        BY <4>1, <4>3 DEF Range1
      <4> QED
        BY <3>2, <4>2, <4>3
    <3>6. ASSUME NEW i \in Range1(l) PROVE i \in Range1(linked_list)
      <4>1. PICK k \in DOMAIN l : i = l[k]
        BY DEF Range1
      <4>2. k + 1 \in DOMAIN linked_list /\ linked_list[k + 1] = i
        BY <3>4, <4>1
      <4> QED
        BY <4>2 DEF Range1
    <3>7. x \in Range1(linked_list)
      BY <3>1, <3>3 DEF Range1
    <3> QED
      BY <3>5, <3>6, <3>7
  <2>2. {item'[p] : p \in Processes} \ {NoItem} = ({item[p] : p \in Processes} \ {NoItem}) \cup {x}
    <3>1. \A p \in Processes : item'[p] # NoItem => item'[p] = x \/ (item'[p] = item[p] /\ item[p] # NoItem)
      BY <1>5
    <3>2. \A p \in Processes : item[p] # NoItem => item'[p] = item[p]
      BY <1>4, <1>5
    <3>3. item'[Main] = x
      BY <1>5
    <3> DEFINE was == ({item[p] : p \in Processes} \ {NoItem}) \cup {x}
               is  == {item'[p] : p \in Processes} \ {NoItem}
    <3>4. ASSUME NEW p \in Processes, item'[p] # NoItem PROVE item'[p] \in was
      BY <3>1, <3>4
    <3>5. ASSUME NEW p \in Processes, item[p] # NoItem PROVE item[p] \in is
      <4>1. item'[p] = item[p]
        BY <3>2, <3>5
      <4>2. item'[p] \in is
        BY <3>5, <4>1
      <4> QED
        BY <4>1, <4>2
    <3>6. x \in is
      <4>1. item'[Main] \in is
        BY <1>3, <3>3
      <4> QED
        BY <3>3, <4>1
    <3>7. is \subseteq was
      BY <3>4
    <3>8. was \subseteq is
      BY <3>5, <3>6
    <3> HIDE DEF is, was
    <3>9. is = was
      BY <3>7, <3>8
    <3> QED
      BY <3>9 DEF is, was
  <2> QED
    BY <1>1, <2>1, <2>2 DEF Needed
<1>13. HeapIsExact' /\ KindInv'
  BY <1>1, <1>12 DEF JourneyInv, HeapIsExact, KindInv
<1> QED
  BY <1>6, <1>11, <1>13 DEF JourneyInv

(* Handling it only moves it along its way.                                *)
LEMMA HandleJourney ==
  ASSUME IInv, JourneyInv, Handle PROVE JourneyInv'
<1> USE MainAssumption DEF IInv, TypeOK, Processes
<1>1. /\ pc[Main] = "handle" /\ pc' = [pc EXCEPT ![Main] = "free"]
      /\ delivered' = Append(delivered, item[Main])
      /\ UNCHANGED <<heap, made, item, closing, linked_list>>
  BY DEF Handle, listVars
<1>2. item[Main] \in Item
  BY <1>1 DEF ApplicationInPlace
<1>3. HandInv'
  BY <1>1 DEF JourneyInv, HandInv
<1>4. \A t \in Threads : Sent(t)' = Sent(t)
  BY <1>1 DEF Sent
<1>5. InUse' = InUse /\ Needed' = Needed
  BY <1>1 DEF InUse, Held, Needed
<1>6. Way' = Way
  <2>1. Hand = <<item[Main]>> /\ Hand' = <<>>
    BY <1>1 DEF Hand
  <2>2. delivered' = delivered \o <<item[Main]>> /\ delivered' \in Seq(Item)
    BY <1>1, <1>2, AppendIsConcat, AppendProperties
  <2>3. delivered' \o <<>> = delivered'
    BY <2>2, ConcatEmptySeq
  <2> QED
    BY <1>1, <2>1, <2>2, <2>3 DEF Way
<1>7. OrderInv'
  BY <1>1, <1>4, <1>5, <1>6 DEF JourneyInv, OrderInv
<1>8. HeapIsExact' /\ KindInv'
  BY <1>1, <1>5 DEF JourneyInv, HeapIsExact, KindInv
<1> QED
  BY <1>3, <1>7, <1>8 DEF JourneyInv

(* Freeing it frees its blocks and no others: every other element in use   *)
(* is another thread's or a later one of the same thread.                  *)
LEMMA FreeJourney ==
  ASSUME IInv, JourneyInv, Free PROVE JourneyInv'
<1> USE MainAssumption DEF IInv, TypeOK, Processes
<1> DEFINE x == item[Main]
<1>1. /\ pc[Main] = "free" /\ \A t \in Threads : pc'[t] = pc[t]
      /\ pc'[Main] \in {"idle", "lock"}
      /\ heap' = heap \ Freed(x)
      /\ item' = [item EXCEPT ![Main] = NoItem]
      /\ UNCHANGED <<made, delivered, closing, linked_list>>
  BY DEF Free, listVars
<1>2. x \in Item /\ x # NoItem
  BY <1>1, NoItemAssumption DEF ApplicationInPlace
<1> HIDE DEF x
<1>3. \A p \in Processes : item'[p] = IF p = Main THEN NoItem ELSE item[p]
  BY <1>1
<1>4. HandInv'
  BY <1>1, <1>3 DEF JourneyInv, HandInv
<1>5. \A t \in Threads : Sent(t)' = Sent(t)
  BY <1>1, <1>3 DEF Sent
<1>6. Way' = Way
  <2>1. Hand = <<>> /\ Hand' = <<>>
    BY <1>1 DEF Hand
  <2> QED
    BY <1>1, <2>1 DEF Way
<1>7. InUse = <<x>> \o linked_list /\ InUse' = linked_list
  <2>1. Held(Main) = <<x>> /\ Held(Main)' = <<>>
    BY <1>2, <1>3 DEF Held, x
  <2> QED
    BY <1>1, <2>1, ConcatEmptySeq DEF InUse
<1>8. \A t \in Threads : Ordered(InUse', t, Sent(t)')
  <2> TAKE t \in Threads
  <2>1. Ordered(InUse, t, Sent(t)) /\ InUse \in Seq(Item)
    BY JourneyTypes DEF JourneyInv, OrderInv
  <2>2. InUse # <<>> /\ Tail(InUse) = linked_list
    BY <1>2, <1>7, HeadAndTailOfCons
  <2>3. Ordered(Tail(InUse), t, Sent(t))
    BY <2>1, <2>2, OrderedTail
  <2> QED
    BY <1>5, <1>7, <2>2, <2>3
<1>9. OrderInv'
  BY <1>1, <1>5, <1>6, <1>8 DEF JourneyInv, OrderInv
<1>10. ASSUME NEW i \in Range1(linked_list) PROVE i.from # x.from \/ i.no # x.no
  <2>1. SUFFICES ASSUME i.from = x.from PROVE i.no # x.no
    OBVIOUS
  <2>2. PICK k \in DOMAIN linked_list : i = linked_list[k]
    BY DEF Range1
  <2>3. /\ 1 \in DOMAIN InUse /\ InUse[1] = x
        /\ k + 1 \in DOMAIN InUse /\ InUse[k + 1] = i /\ 1 < k + 1
    <3>1. <<x>> \in Seq(Item) /\ Len(<<x>>) = 1 /\ <<x>>[1] = x
      BY <1>2
    <3>2. Len(linked_list) \in Nat /\ DOMAIN linked_list = 1..Len(linked_list)
      BY LenProperties
    <3>3. /\ InUse \in Seq(Item) /\ Len(InUse) = 1 + Len(linked_list)
          /\ \A j \in 1..(1 + Len(linked_list)) :
               InUse[j] = IF j <= 1 THEN <<x>>[j] ELSE linked_list[j - 1]
      BY <1>7, <3>1, <3>2, ConcatProperties
    <3>4. DOMAIN InUse = 1..(1 + Len(linked_list))
      BY <3>3, LenProperties
    <3>5. k + 1 \in 1..(1 + Len(linked_list)) /\ ~(k + 1 <= 1) /\ (k + 1) - 1 = k
          /\ 1 < k + 1 /\ 1 \in 1..(1 + Len(linked_list))
      BY <2>2, <3>2
    <3>6. InUse[k + 1] = linked_list[k]
      BY <3>3, <3>5
    <3> QED
      BY <2>2, <3>1, <3>3, <3>4, <3>5, <3>6
  <2>4. x.from \in Threads /\ x.no \in Nat /\ i.no \in Nat
    <3>1. i \in Item
      BY JourneyTypes DEF JourneyInv, Needed
    <3>2. i.no \in Nat \ {0} /\ x.no \in Nat \ {0} /\ x.from \in Threads
      BY <1>2, <3>1, ItemIs
    <3> QED
      BY <3>2, BoundAssumption
  <2>5. Ordered(InUse, x.from, Sent(x.from))
    BY <2>4 DEF JourneyInv, OrderInv
  <2>6. x.no < i.no
    BY <2>1, <2>3, <2>5 DEF Ordered
  <2> QED
    BY <2>4, <2>6
<1>11. ASSUME NEW t \in Threads, item[t] # NoItem PROVE item[t].from # x.from \/ item[t].no # x.no
  <2>1. SUFFICES ASSUME item[t].from = x.from PROVE item[t].no # x.no
    OBVIOUS
  <2>2. item[t].from = t /\ item[t].no = made[t] /\ Sent(t) = made[t] - 1 /\ x.from = t
    BY <1>11, <2>1 DEF JourneyInv, HandInv, Sent
  <2>3. 1 \in DOMAIN InUse /\ InUse[1] = x
    <3>1. InUse \in Seq(Item) /\ InUse # <<>> /\ Head(InUse) = x
      BY <1>2, <1>7, HeadAndTailOfCons, JourneyTypes DEF JourneyInv
    <3> QED
      BY <3>1, EmptySeq, LenProperties
  <2>4. Ordered(InUse, t, made[t] - 1)
    BY <2>2 DEF JourneyInv, OrderInv
  <2>5. x.no \in 1..(made[t] - 1) /\ made[t] \in Nat
    <3>1. made[t] \in Nat
      BY JourneyTypes DEF JourneyInv
    <3> QED
      BY <2>2, <2>3, <2>4, <3>1 DEF Ordered
  <2> QED
    BY <2>2, <2>5
<1>12. Needed' = Range1(linked_list) \cup ({item[t] : t \in Threads} \ {NoItem})
       /\ Needed = Needed' \cup {x}
  <2>1. Range1(linked_list') = Range1(linked_list)
    BY <1>1 DEF Range1
  <2>2. {item'[p] : p \in Processes} \ {NoItem} = {item[t] : t \in Threads} \ {NoItem}
    <3>1. \A p \in Processes : item'[p] # NoItem => p \in Threads /\ item'[p] = item[p]
      BY <1>3
    <3>2. \A t \in Threads : item'[t] = item[t]
      BY <1>3
    <3> DEFINE rest == {item[t] : t \in Threads} \ {NoItem}
               is   == {item'[p] : p \in Processes} \ {NoItem}
    <3>3. ASSUME NEW p \in Processes, item'[p] # NoItem PROVE item'[p] \in rest
      <4>1. p \in Threads /\ item'[p] = item[p]
        BY <3>1, <3>3
      <4> QED
        BY <3>3, <4>1
    <3>4. ASSUME NEW t \in Threads, item[t] # NoItem PROVE item[t] \in is
      <4>1. t \in Processes /\ item'[t] = item[t]
        BY <3>2
      <4>2. item'[t] \in is
        BY <3>4, <4>1
      <4> QED
        BY <4>1, <4>2
    <3>5. is \subseteq rest
      BY <3>3
    <3>6. rest \subseteq is
      BY <3>4
    <3> HIDE DEF is, rest
    <3>7. is = rest
      BY <3>5, <3>6
    <3> QED
      BY <3>7 DEF is, rest
  <2>3. {item[p] : p \in Processes} \ {NoItem} = ({item[t] : t \in Threads} \ {NoItem}) \cup {x}
    BY <1>2 DEF x
  <2> QED
    BY <2>1, <2>2, <2>3 DEF Needed
<1>13. \A i \in Needed' : i.from # x.from \/ i.no # x.no
  BY <1>10, <1>11, <1>12
<1>14. \A i \in Needed' : Blocks(i) \cap Blocks(x) = {}
  <2> TAKE i \in Needed'
  <2>1. Node(i) # Node(x) /\ Data(i) # Data(x)
    BY <1>13 DEF Node, Data
  <2>2. Node(i) # Data(x) /\ Data(i) # Node(x)
    BY DEF Node, Data
  <2> QED
    BY <2>1, <2>2 DEF Blocks
<1>15. x \in Needed /\ Freed(x) = Blocks(x)
  <2>1. x \in Needed /\ Proper(x)
    BY <1>12 DEF JourneyInv, KindInv
  <2>2. x.kind \in Kinds
    BY <1>2, ItemIs
  <2> QED
    BY <2>1, <2>2 DEF Freed, Blocks, Proper, Kinds
<1>16. UNION {Blocks(i) : i \in Needed} = (UNION {Blocks(i) : i \in Needed'}) \cup Blocks(x)
  BY <1>12
<1>17. heap' = UNION {Blocks(i) : i \in Needed'}
  <2>1. heap = UNION {Blocks(i) : i \in Needed}
    BY DEF JourneyInv, HeapIsExact
  <2>2. (UNION {Blocks(i) : i \in Needed'}) \cap Blocks(x) = {}
    BY <1>14
  <2> DEFINE kept == UNION {Blocks(i) : i \in Needed'}
             mine == Blocks(x)
  <2>3. heap = kept \cup mine /\ heap' = heap \ mine
    BY <1>1, <1>15, <1>16, <2>1
  <2> HIDE DEF kept, mine
  <2>4. kept \cap mine = {}
    BY <2>2 DEF kept, mine
  <2>5. heap' = kept
    BY <2>3, <2>4
  <2> QED
    BY <2>5 DEF kept
<1>18. HeapIsExact' /\ KindInv'
  BY <1>12, <1>17 DEF JourneyInv, KindInv, HeapIsExact
<1> QED
  BY <1>4, <1>9, <1>18 DEF JourneyInv

-----------------------------------------------------------------------------
LEMMA JourneyStep ==
  ASSUME IInv, JourneyInv, [Next]_vars PROVE JourneyInv'
<1>1. ASSUME NEW t \in Threads, NEW call \in Calls, Handler(t, call) PROVE JourneyInv'
  BY <1>1, HandlerJourney
<1>2. ASSUME NEW t \in Threads, LoadEnd(t) PROVE JourneyInv'
  BY <1>2, LoadEndJourney
<1>3. ASSUME UnloadFirst PROVE JourneyInv'
  BY <1>3, UnloadFirstJourney
<1>4. ASSUME Handle PROVE JourneyInv'
  BY <1>4, HandleJourney
<1>5. ASSUME Free PROVE JourneyInv'
  BY <1>5, FreeJourney
<1> QED
  BY <1>1, <1>2, <1>3, <1>4, <1>5, QuietJourney
  DEF Next, LibraryStep, LibraryCall, ApplicationStep

(* The invariant and the journey invariant hold always.                    *)
THEOREM JourneyInvariance == Spec => [](IInv /\ JourneyInv)
<1>1. Init => JourneyInv
  BY JourneyInit
<1>2. IInv /\ JourneyInv /\ [Next]_vars => JourneyInv'
  BY JourneyStep
<1> QED
  BY <1>1, <1>2, Invariance, PTL DEF Spec

(* Every callback that was allocated is in one place and is handled once,  *)
(* in its thread's order, for any number of library threads.               *)
THEOREM ElementsInOrder == Spec => []ExactlyOnceInOrder
<1>1. ASSUME IInv, JourneyInv, ~closing, NEW t \in Threads
      PROVE  Ordered(Journey(t), t, made[t]) /\ Complete(Journey(t), t, made[t])
  <2>1. Ordered(Way, t, Sent(t)) /\ Complete(Way, t, Sent(t))
    BY <1>1 DEF JourneyInv, OrderInv
  <2>2. Way \in Seq(Item) /\ Sent(t) \in Nat /\ made[t] \in Nat
    BY <1>1, JourneyTypes DEF JourneyInv
  <2>3. CASE item[t] = NoItem
    BY <2>1, <2>2, <2>3, ConcatEmptySeq DEF Journey, Held, Sent
  <2>4. CASE item[t] # NoItem
    <3>1. item[t] \in Item /\ item[t].from = t /\ item[t].no = made[t] /\ Sent(t) = made[t] - 1
      BY <1>1, <2>4 DEF IInv, TypeOK, Processes, JourneyInv, HandInv, Sent
    <3>2. item[t].no = Sent(t) + 1
      BY <2>2, <3>1
    <3>3. Ordered(Append(Way, item[t]), t, Sent(t) + 1)
          /\ Complete(Append(Way, item[t]), t, Sent(t) + 1)
      BY <2>1, <2>2, <3>1, <3>2, OrderedAppends, CompleteAppends
    <3>4. Journey(t) = Append(Way, item[t])
      BY <2>2, <2>4, <3>1, AppendIsConcat DEF Journey, Held
    <3> QED
      BY <3>1, <3>2, <3>3, <3>4
  <2> QED
    BY <2>3, <2>4
<1>2. IInv /\ JourneyInv => ExactlyOnceInOrder
  BY <1>1 DEF ExactlyOnceInOrder
<1> QED
  BY <1>2, JourneyInvariance, PTL

(* Nothing leaks and nothing is freed too early, whatever the kinds of the *)
(* elements and whichever thread frees while another fills.                *)
THEOREM HeapStaysExact == Spec => []HeapIsExact
<1>1. IInv /\ JourneyInv => HeapIsExact
  BY DEF JourneyInv
<1> QED
  BY <1>1, JourneyInvariance, PTL
=============================================================================
