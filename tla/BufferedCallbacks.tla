-------------------------- MODULE BufferedCallbacks -------------------------
(***************************************************************************)
(* src/krytenApp/buffered_callbacks.c.  Channel Access library threads run *)
(* the three buffered_*_handler functions: each copies its arguments into  *)
(* a heap element and links it to the end of a list under a mutex.  The    *)
(* application thread unlinks the elements, hands each one to the          *)
(* application and frees it.                                               *)
(*                                                                         *)
(* A thread's use of the list is two steps, ellAdd or ellGet reading the   *)
(* list into the thread's working copy and then writing it back, so that   *)
(* the list is as good as the mutex around it.  allocate_fail_count has no *)
(* mutex: its ++ is a read step and a write step too.                      *)
(***************************************************************************)
EXTENDS Naturals, Sequences, FiniteSets

CONSTANTS Threads,        \* the threads of the Channel Access library
          Main,           \* the application thread
          NoThread,       \* the mutex is free
          NoItem,         \* a thread holds no element (a NULL Callback_Items *)
          Maximum,        \* the argument max of process_buffered_callbacks
          MaxCallbacks,   \* bound: elements each library thread allocates, by thread
          MaxFailures     \* bound: mallocs that fail

Kinds == {"CONNECTION", "EVENT", "PRINTF"}

(* An element: who made it, which of its elements it is, its kind, and     *)
(* whether it owns a payload block (a copy of the dbr, an expanded text).  *)
Item == UNION {[from : {t}, no : 1..MaxCallbacks[t], kind : Kinds, data : BOOLEAN] :
                 t \in Threads}

Processes == Threads \cup {Main}

ASSUME MainAssumption     == Main \notin Threads
ASSUME NoThreadAssumption == NoThread \notin Processes
ASSUME NoItemAssumption   == NoItem \notin Item
ASSUME BoundAssumption    == /\ Maximum \in Nat
                             /\ MaxCallbacks \in [Threads -> Nat]
                             /\ MaxFailures \in Nat

VARIABLES
  linked_list,            \* the elements waiting for the application
  linked_list_mutex,      \* the thread in the mutex, or NoThread
  allocate_fail_count,    \* malloc failures since the last report
  heap,                   \* the malloc blocks in use
  pc,                     \* where each thread is
  item,                   \* pci: the element each thread holds
  copy,                   \* the list as the thread in the mutex read it
  seen,                   \* allocate_fail_count as a thread in ++ read it
  n,                      \* elements processed by this call
  closing,                \* clear_all_buffered_callbacks has been called
  made,                   \* history: elements each thread has allocated
  delivered,              \* history: elements given to the application
  failures,               \* history: mallocs that failed
  crashed                 \* a copy to the NULL of a failed malloc

vars == <<linked_list, linked_list_mutex, allocate_fail_count, heap, pc, item,
          copy, seen, n, closing, made, delivered, failures, crashed>>

listVars  == <<linked_list, linked_list_mutex, copy>>
countVars == <<allocate_fail_count, seen, failures>>

-----------------------------------------------------------------------------
Node(i) == <<"node", i.from, i.no>>
Data(i) == <<"data", i.from, i.no>>

(* The blocks the handler of element i has malloced for it.                *)
Blocks(i) == {Node(i)} \cup (IF i.data THEN {Data(i)} ELSE {})

(* free_element: the payload of an EVENT or PRINTF if there is one, and    *)
(* the element itself.                                                     *)
FreedLeakingText(i) == {Node(i)} \cup (IF i.data /\ i.kind = "EVENT" THEN {Data(i)} ELSE {})
Freed(i) == {Node(i)} \cup
            (IF i.data /\ i.kind \in {"EVENT", "PRINTF"} THEN {Data(i)} ELSE {})

(* The callbacks the library makes: the handler called and whether it has  *)
(* a payload to copy.  args.dbr may be NULL, a text is always copied.      *)
Calls == [kind : {"CONNECTION"}, data : {FALSE}] \cup
         [kind : {"EVENT"}, data : BOOLEAN] \cup
         [kind : {"PRINTF"}, data : {TRUE}]

-----------------------------------------------------------------------------
(* initialise_buffered_callbacks, before the library has any thread.       *)
Init ==
  /\ linked_list = <<>>
  /\ linked_list_mutex = NoThread
  /\ allocate_fail_count = 0
  /\ heap = {}
  /\ pc = [p \in Processes |-> "idle"]
  /\ item = [p \in Processes |-> NoItem]
  /\ copy = [p \in Processes |-> <<>>]
  /\ seen = [t \in Threads |-> 0]
  /\ n = 0
  /\ closing = FALSE
  /\ made = [t \in Threads |-> 0]
  /\ delivered = <<>>
  /\ failures = 0
  /\ crashed = FALSE

(* Channel Access is in use: clear_all_buffered_callbacks is for when it   *)
(* is no longer required (buffered_callbacks.h:136-140).                   *)
Calling(t) == /\ ~closing
              /\ pc[t] = "idle"
              /\ made[t] < MaxCallbacks[t]

(* A buffered_*_handler as far as load_element: the element is allocated   *)
(* and its fields and payload are copied.                                  *)
Handler(t, call) ==
  /\ Calling(t)
  /\ LET new == [from |-> t, no |-> made[t] + 1, kind |-> call.kind, data |-> call.data]
     IN  /\ item' = [item EXCEPT ![t] = new]
         /\ heap' = heap \cup Blocks(new)
  /\ made' = [made EXCEPT ![t] = @ + 1]
  /\ pc' = [pc EXCEPT ![t] = "lock"]
  /\ UNCHANGED <<listVars, countVars, n, closing, delivered, crashed>>

(* The malloc of the payload fails and memcpy writes to NULL.              *)
PayloadFails(t, call) ==
  /\ Calling(t)
  /\ call.data
  /\ failures < MaxFailures
  /\ failures' = failures + 1
  /\ crashed' = TRUE
  /\ UNCHANGED <<listVars, allocate_fail_count, seen, heap, pc, item, n,
                 closing, made, delivered>>

(* As AllocateFails, had the handler not tested pci.                       *)
AllocateFailsUntested(t) ==
  /\ Calling(t)
  /\ failures < MaxFailures
  /\ failures' = failures + 1
  /\ pc' = [pc EXCEPT ![t] = "lock"]
  /\ UNCHANGED <<listVars, allocate_fail_count, seen, heap, item, n, closing,
                 made, delivered, crashed>>

(* The malloc of the element fails: allocate_fail_count++ reads ...        *)
AllocateFails(t) ==
  /\ Calling(t)
  /\ failures < MaxFailures
  /\ failures' = failures + 1
  /\ seen' = [seen EXCEPT ![t] = allocate_fail_count]
  /\ pc' = [pc EXCEPT ![t] = "count"]
  /\ UNCHANGED <<listVars, allocate_fail_count, heap, item, n, closing, made,
                 delivered, crashed>>

(* ... and writes; the callback is dropped.                                *)
CountFailure(t) ==
  /\ pc[t] = "count"
  /\ allocate_fail_count' = seen[t] + 1
  /\ pc' = [pc EXCEPT ![t] = "idle"]
  /\ UNCHANGED <<listVars, seen, failures, heap, item, n, closing, made,
                 delivered, crashed>>

-----------------------------------------------------------------------------
(* epicsMutexLock, and the read of the list that ellAdd or ellGet begins   *)
(* with.                                                                   *)
Unlocked(p) == TRUE
MutexFree(p) == linked_list_mutex = NoThread

Lock(p, from, to) ==
  /\ pc[p] = from
  /\ MutexFree(p)
  /\ linked_list_mutex' = p
  /\ copy' = [copy EXCEPT ![p] = linked_list]
  /\ pc' = [pc EXCEPT ![p] = to]

(* The write that ellAdd or ellGet ends with, and epicsMutexUnlock.        *)
WriteBack(p, list) ==
  /\ linked_list' = list
  /\ linked_list_mutex' = NoThread
  /\ copy' = [copy EXCEPT ![p] = <<>>]

LoadBegin(t) ==
  /\ Lock(t, "lock", "add")
  /\ UNCHANGED <<linked_list, countVars, heap, item, n, closing, made,
                 delivered, crashed>>

AddedAtFront(list, i) == <<i>> \o list
Added(list, i) == Append(list, i)

LoadEnd(t) ==
  /\ pc[t] = "add"
  /\ WriteBack(t, Added(copy[t], item[t]))
  /\ item' = [item EXCEPT ![t] = NoItem]
  /\ pc' = [pc EXCEPT ![t] = "idle"]
  /\ UNCHANGED <<countVars, heap, n, closing, made, delivered, crashed>>

-----------------------------------------------------------------------------
ManyFailures == allocate_fail_count > 1
AnyFailures == allocate_fail_count > 0

(* process_buffered_callbacks is called: is there a failure to report?     *)
Process ==
  /\ pc[Main] = "idle"
  /\ ~closing
  /\ n' = 0
  /\ pc' = [pc EXCEPT ![Main] = IF AnyFailures THEN "reset" ELSE "lock"]
  /\ UNCHANGED <<listVars, allocate_fail_count, seen, failures, heap, item,
                 closing, made, delivered, crashed>>

ResetCount ==
  /\ pc[Main] = "reset"
  /\ allocate_fail_count' = 0
  /\ pc' = [pc EXCEPT ![Main] = "lock"]
  /\ UNCHANGED <<listVars, seen, failures, heap, item, n, closing, made,
                 delivered, crashed>>

UnloadBegin ==
  /\ Lock(Main, "lock", "get")
  /\ UNCHANGED <<linked_list, countVars, heap, item, n, closing, made,
                 delivered, crashed>>

(* ellGet found nothing: unload_element returns NULL and the call is over. *)
UnloadEmptyKeepingMutex ==
  /\ pc[Main] = "get"
  /\ copy[Main] = <<>>
  /\ pc' = [pc EXCEPT ![Main] = "idle"]
  /\ UNCHANGED <<listVars, countVars, heap, item, n, closing, made, delivered,
                 crashed>>

UnloadEmpty ==
  /\ pc[Main] = "get"
  /\ copy[Main] = <<>>
  /\ WriteBack(Main, <<>>)
  /\ pc' = [pc EXCEPT ![Main] = "idle"]
  /\ UNCHANGED <<countVars, heap, item, n, closing, made, delivered, crashed>>

(* ellGet removed the first element: it is handled, or only freed when the *)
(* outstanding callbacks are being discarded.                              *)
UnloadFirst ==
  /\ pc[Main] = "get"
  /\ copy[Main] # <<>>
  /\ item' = [item EXCEPT ![Main] = Head(copy[Main])]
  /\ WriteBack(Main, Tail(copy[Main]))
  /\ pc' = [pc EXCEPT ![Main] = IF closing THEN "free" ELSE "handle"]
  /\ UNCHANGED <<countVars, heap, n, closing, made, delivered, crashed>>

(* The switch on the kind: the application_*_handler runs.                 *)
Handle ==
  /\ pc[Main] = "handle"
  /\ delivered' = Append(delivered, item[Main])
  /\ pc' = [pc EXCEPT ![Main] = "free"]
  /\ UNCHANGED <<listVars, countVars, heap, item, n, closing, made, crashed>>

Free ==
  /\ pc[Main] = "free"
  /\ heap' = heap \ Freed(item[Main])
  /\ item' = [item EXCEPT ![Main] = NoItem]
  /\ n' = IF closing THEN n ELSE n + 1
  /\ pc' = [pc EXCEPT ![Main] = IF ~closing /\ n' >= Maximum THEN "idle" ELSE "lock"]
  /\ UNCHANGED <<listVars, countVars, closing, made, delivered, crashed>>

(* clear_all_buffered_callbacks is called, once the library has no thread  *)
(* in a handler.                                                           *)
ClearAll ==
  /\ ~closing
  /\ \A p \in Processes : pc[p] = "idle"
  /\ closing' = TRUE
  /\ pc' = [pc EXCEPT ![Main] = "lock"]
  /\ UNCHANGED <<listVars, countVars, heap, item, n, made, delivered, crashed>>

-----------------------------------------------------------------------------
LibraryStep(t) == CountFailure(t) \/ LoadBegin(t) \/ LoadEnd(t)

LibraryCall(t) == \/ AllocateFails(t)
                  \/ \E call \in Calls : Handler(t, call) \/ PayloadFails(t, call)

ApplicationStep == \/ Process \/ ResetCount \/ UnloadBegin \/ UnloadEmpty
                   \/ UnloadFirst \/ Handle \/ Free

Next == /\ ~crashed
        /\ \/ \E t \in Threads : LibraryStep(t) \/ LibraryCall(t)
           \/ ApplicationStep
           \/ ClearAll

Spec == Init /\ [][Next]_vars

(* A library thread inside a handler goes on, and the application keeps    *)
(* calling process_buffered_callbacks (the loop of Process_Clients).  The  *)
(* lock of load_element is strongly fair: the application lets go of the   *)
(* mutex for every element and then sleeps for 50 ms (pv_client.c:939), so *)
(* a thread that waits for it again and again gets it.  That the library   *)
(* makes a callback, or that anybody clears, is not assumed.               *)
FairSpec == /\ Spec
            /\ \A t \in Threads : /\ WF_vars(~crashed /\ LibraryStep(t))
                                  /\ SF_vars(~crashed /\ LoadBegin(t))
            /\ WF_vars(~crashed /\ ApplicationStep)

-----------------------------------------------------------------------------
TypeOK ==
  /\ linked_list \in Seq(Item)
  /\ linked_list_mutex \in Processes \cup {NoThread}
  /\ allocate_fail_count \in Nat
  /\ heap \subseteq ({"node", "data"} \X Threads \X (Nat \ {0}))
  /\ pc \in [Processes -> {"idle", "count", "lock", "add", "reset", "get",
                           "handle", "free"}]
  /\ item \in [Processes -> Item \cup {NoItem}]
  /\ copy \in [Processes -> Seq(Item)]
  /\ seen \in [Threads -> Nat]
  /\ n \in Nat
  /\ made \in [Threads -> Nat]
  /\ delivered \in Seq(Item)
  /\ failures \in Nat
  /\ closing \in BOOLEAN
  /\ crashed \in BOOLEAN

(* The element the application thread holds and has not yet handled.       *)
Hand == IF pc[Main] = "handle" THEN <<item[Main]>> ELSE <<>>

(* A thread is between epicsMutexLock and epicsMutexUnlock.                *)
InMutex(p) == pc[p] \in {"add", "get"}

(* At most one thread is in the critical section of load_element or        *)
(* unload_element, and what it read of the list is still the list when it  *)
(* writes: no element is linked or unlinked behind its back.               *)
ListIsStable ==
  /\ \A p, q \in Processes : InMutex(p) /\ InMutex(q) => p = q
  /\ \A p \in Processes : InMutex(p) => copy[p] = linked_list

(* The elements on their way, oldest first: handled, in the application's  *)
(* hand, in the list; and then what thread t has in its own hand.          *)
Way == delivered \o Hand \o linked_list
Held(p) == IF item[p] = NoItem THEN <<>> ELSE <<item[p]>>
Journey(t) == Way \o Held(t)

(* The elements of thread t in s are among the first m it made, each once, *)
(* in order; and all m of them.                                            *)
Ordered(s, t, m) ==
  /\ \A k \in DOMAIN s : s[k].from = t => s[k].no \in 1..m
  /\ \A j, k \in DOMAIN s : j < k /\ s[j].from = t /\ s[k].from = t => s[j].no < s[k].no
Complete(s, t, m) == \A k \in 1..m : \E j \in DOMAIN s : s[j].from = t /\ s[j].no = k

(* Every callback a library thread managed to allocate is in exactly one   *)
(* place and is handled once, in the order the thread made them: the       *)
(* application sees a channel's connections, events and disconnections in  *)
(* the library's order.                                                    *)
ExactlyOnceInOrder ==
  ~closing => \A t \in Threads : /\ Ordered(Journey(t), t, made[t])
                                /\ Complete(Journey(t), t, made[t])

Range1(s) == {s[k] : k \in DOMAIN s}

(* The heap holds the blocks of the elements that are still needed and     *)
(* nothing else: no payload leaks, whatever the kind of the element, and   *)
(* none is freed while a thread holds its element.                         *)
Needed == Range1(linked_list) \cup ({item[p] : p \in Processes} \ {NoItem})
HeapIsExact == heap = UNION {Blocks(i) : i \in Needed}

(* The queue of buffered_callbacks.h is what the threads, the mutex and    *)
(* the working copies implement.                                           *)
Fifo == INSTANCE CallbackFifo WITH Callback <- Item, pending <- Hand \o linked_list
ImplementsFifo == Fifo!FifoSpec

(* A callback that was allocated is given to the application in the end,   *)
(* unless the queue is cleared or a payload cannot be allocated: no thread *)
(* waits for ever for the mutex, and max only defers to the next call.     *)
EventuallyDelivered ==
  \A t \in Threads : \A k \in 1..MaxCallbacks[t] :
    (made[t] >= k) ~> \/ closing \/ crashed
                      \/ \E j \in DOMAIN delivered :
                           delivered[j].from = t /\ delivered[j].no = k

(* A dropped callback does not go unnoticed: a thread that has failed to   *)
(* allocate while no report is under way is followed by a new report,      *)
(* although the two steps of its ++, those of another thread and the       *)
(* test, print and reset of process_buffered_callbacks fall between        *)
(* one another without a mutex.  A failure between a test and its reset is *)
(* left out: the reset takes its count away and nothing else reports it,   *)
(* which the comment at buffered_callbacks.c:117-119 accepts.              *)
Reporting == pc[Main] = "reset"

FailuresReported ==
  \A t \in Threads :
    (pc[t] = "count" /\ ~Reporting) ~> (Reporting \/ closing \/ crashed)
=============================================================================
