--------------------------- MODULE StreamSinkProofs ---------------------------
(* Theorems about StreamSink for every number of items, clock calls and faults. *)
EXTENDS StreamSink, FiniteSetTheorems, TLAPS

(* What the pipeline's methods and the work queue's thread do to each variable *)
(* is expanded by these definitions.                                           *)

\* A worker that has taken an operation is a worker.
LEMMA BusyType ==
  ASSUME NEW w \in Work PROVE Busy(w) \in Worker /\ Busy(w).pc = "drain"
  BY DEF Busy, IdleWorker, FlushWork, NoItem, Worker, Work, Item, SampleKinds,
         MarkerKinds, DataOps, ClockOps

\* So is one that has none.
LEMMA IdleWorkerType == IdleWorker \in Worker /\ IdleWorker.pc = "idle"
  BY DEF IdleWorker, FlushWork, NoItem, Worker, Work, Item, SampleKinds,
         MarkerKinds, DataOps, ClockOps

\* The events that the sink queues are events.
LEMMA EventType ==
  ASSUME NEW type \in {"Started", "Stopped", "Marker"}, NEW n \in Nat, TypeOK
  PROVE  Append(events, [type |-> type, id |-> n]) \in Seq(Event)
<1>1. [type |-> type, id |-> n] \in Event
  BY DEF Event
<1> QED BY <1>1 DEF TypeOK

\* The stream as constructed has its types.
LEMMA InitTypeOK == Init => TypeOK
<1> SUFFICES ASSUME Init PROVE TypeOK
  OBVIOUS
<1>1. worker \in Worker /\ worker.pc = "idle"
  BY IdleWorkerType DEF Init
<1>2. sampleQueue \in Seq(Item) /\ workQueue \in Seq(Work) /\ events \in Seq(Event)
  BY DEF Init
<1>3. calls \in Seq({"Started", "Stopped"}) /\ delivered \in Seq(Nat)
  BY DEF Init
<1>4. state \in States /\ currentType \in MediaTypes \cup {NoType}
  BY DEF Init, States
<1> QED BY <1>1, <1>2, <1>3, <1>4 DEF Init, TypeOK

\* Every action keeps them.
LEMMA StepTypeOK == TypeOK /\ [Next]_vars => TypeOK'
<1> SUFFICES ASSUME TypeOK, [Next]_vars PROVE TypeOK'
  OBVIOUS
<1> USE DEF TypeOK
<1>1. ASSUME NEW t \in MediaTypes, SetFirstMediaType(t) PROVE TypeOK'
  BY <1>1 DEF SetFirstMediaType, States
<1>2. ASSUME NEW t \in MediaTypes, ReplaceMediaType(t) PROVE TypeOK'
  BY <1>2 DEF ReplaceMediaType
<1>3. ASSUME NEW t \in MediaTypes, ProcessFormatChange(t) PROVE TypeOK'
  BY <1>3 DEF ProcessFormatChange, Accept, Enqueue, QueueAsyncOperation, Item,
              Work, DataOps
<1>4. ASSUME KeepFirstSample PROVE TypeOK'
  <2>1. firstSample' \in Nat /\ lastItem' \in Nat
    BY <1>4 DEF KeepFirstSample, Accept
  <2>2. waitingFirst' \in BOOLEAN
    BY <1>4 DEF KeepFirstSample
  <2> QED BY <1>4, <2>1, <2>2 DEF KeepFirstSample
<1>5. ASSUME NEW kind \in SampleKinds, ProcessSample(kind) PROVE TypeOK'
  BY <1>5 DEF ProcessSample, Accept, Requested, Enqueue, QueueAsyncOperation,
              Item, Work, DataOps
<1>6. ASSUME NEW kind \in MarkerKinds, PlaceMarker(kind) PROVE TypeOK'
  BY <1>6 DEF PlaceMarker, Accept, Enqueue, QueueAsyncOperation, Item, Work,
              DataOps
<1>7. ASSUME Flush PROVE TypeOK'
  <2>1. FlushWork \in Work
    BY DEF FlushWork, Work
  <2> QED BY <1>7, <2>1, BusyType DEF Flush
<1>8. ASSUME OnClockStart PROVE TypeOK'
  BY <1>8 DEF OnClockStart, Start, QueueAsyncOperation, States, Work, ClockOps
<1>9. ASSUME OnClockStop PROVE TypeOK'
  BY <1>9 DEF OnClockStop, Stop, QueueAsyncOperation, States, Work, ClockOps
<1>10. ASSUME Shutdown PROVE TypeOK'
  BY <1>10 DEF Shutdown
<1>11. ASSUME Dispatch PROVE TypeOK'
  <2>1. Head(workQueue) \in Work /\ Tail(workQueue) \in Seq(Work)
    BY <1>11 DEF Dispatch
  <2>2. events' \in Seq(Event)
    BY <1>11, <2>1, EventType DEF Dispatch, Work
  <2> QED BY <1>11, <2>1, <2>2, BusyType DEF Dispatch
<1>12. ASSUME DispatchAfterShutdown PROVE TypeOK'
  BY <1>12 DEF DispatchAfterShutdown
<1>13. ASSUME DrainItem PROVE TypeOK'
  <2>1. Head(sampleQueue) \in Item /\ Tail(sampleQueue) \in Seq(Item)
    BY <1>13 DEF DrainItem
  <2>2. events' \in Seq(Event)
    BY <1>13, <2>1, EventType DEF DrainItem, Item
  <2>3. /\ worker' \in Worker
        /\ worker'.pc \in {"prepare", "call"} => worker'.item.kind = "sample"
    <3>1. CASE Head(sampleQueue).kind = "sample" /\ ~Flushing
      BY <1>13, <2>1, <3>1 DEF DrainItem, Worker
    <3>2. CASE ~(Head(sampleQueue).kind = "sample" /\ ~Flushing)
      BY <1>13, <2>1, <3>2 DEF DrainItem, Worker
    <3> QED BY <3>1, <3>2
  <2> QED BY <1>13, <2>1, <2>2, <2>3 DEF DrainItem
<1>14. ASSUME NEW b \in BOOLEAN, EndDrain(b)
       PROVE /\ worker' \in Worker /\ worker'.pc = "idle"
             /\ eosTasks' \in Nat
             /\ requests' \in Nat
             /\ events' \in Seq(Event)
  <2>1. worker.work.id \in Nat
    BY DEF Worker, Work
  <2> QED BY <1>14, <2>1, IdleWorkerType, EventType DEF EndDrain
<1>15. ASSUME QueueDrained PROVE TypeOK'
  BY <1>14, <1>15 DEF QueueDrained
<1>16. ASSUME BufferFails
       PROVE /\ worker' \in Worker /\ worker'.pc = "idle"
             /\ eosTasks' \in Nat
             /\ requests' \in Nat
             /\ events' \in Seq(Event)
             /\ faults' \in Nat
  <2>1. EndDrain(FALSE) /\ faults' = faults + 1
    BY <1>16 DEF BufferFails
  <2>2. faults' \in Nat
    BY <2>1
  <2> QED BY <1>14, <2>1, <2>2
<1>17. ASSUME LockFails PROVE TypeOK'
  BY <1>16, <1>17 DEF LockFails
<1>18. ASSUME PrepareSample PROVE TypeOK'
  <2>1. delivered' \in Seq(Nat)
    BY <1>18 DEF PrepareSample, Worker, Item
  <2>2. CASE BufferFails
    BY <1>16, <1>18, <2>1, <2>2 DEF PrepareSample
  <2>3. CASE /\ worker' = [worker EXCEPT !.pc = "drain", !.item = NoItem]
             /\ UNCHANGED <<eosTasks, requests, events, faults>>
    <3>1. worker' \in Worker /\ worker'.pc = "drain"
      BY <2>3 DEF Worker, NoItem, Item
    <3> QED BY <1>18, <2>1, <2>3, <3>1 DEF PrepareSample
  <2> QED BY <1>18, <2>2, <2>3 DEF PrepareSample, FrameDone
<1>19. ASSUME RunEOSTask PROVE TypeOK'
  BY <1>19 DEF RunEOSTask
<1>20. ASSUME UNCHANGED vars PROVE TypeOK'
  BY <1>20 DEF vars
<1> QED
  BY <1>1, <1>2, <1>3, <1>4, <1>5, <1>6, <1>7, <1>8, <1>9, <1>10, <1>11, <1>12,
     <1>13, <1>15, <1>17, <1>18, <1>19, <1>20
     DEF Next, Pipeline, WorkQueueThread, Drain, Finished

(* Every variable of the stream always has its type. *)
THEOREM TypeCorrect == Spec => []TypeOK
  BY InitTypeOK, StepTypeOK, PTL DEF Spec

-----------------------------------------------------------------------------
(* The inductive invariant. *)

\* The lock is free and the queue empty once the stream is shut down.
ShutdownInv == isShutdown => worker.pc = "idle" /\ sampleQueue = <<>>

InHand == worker.pc \in {"prepare", "call"}

\* Everything accepted is numbered, and numbers grow from what has left the
\* stream, over the sample in hand, to the queue's last item.
OrderInv ==
  /\ \A i \in DOMAIN sampleQueue : sampleQueue[i].id \in 1..lastItem
  /\ \A i, j \in DOMAIN sampleQueue : i < j => sampleQueue[i].id < sampleQueue[j].id
  /\ InHand => /\ worker.item.id \in 1..lastItem
               /\ \A i \in DOMAIN sampleQueue : worker.item.id < sampleQueue[i].id

DeliveredInv ==
  /\ DeliveredInOrder
  /\ \A d \in DOMAIN delivered :
       /\ delivered[d] <= lastItem
       /\ \A i \in DOMAIN sampleQueue : delivered[d] < sampleQueue[i].id
       /\ InHand => delivered[d] < worker.item.id

MarkerInv ==
  \A e \in DOMAIN events : events[e].type = "Marker" =>
    /\ events[e].id <= lastItem
    /\ \A i \in DOMAIN sampleQueue : events[e].id < sampleQueue[i].id
    /\ InHand => events[e].id < worker.item.id

\* Data operations are queued in the order of their items, and the one that
\* runs belongs to no item behind the head of the queue.
WorkInv ==
  /\ \A w \in DOMAIN workQueue :
       workQueue[w].op \in DataOps => workQueue[w].id \in 1..lastItem
  /\ \A v, w \in DOMAIN workQueue :
       v < w /\ workQueue[v].op \in DataOps /\ workQueue[w].op \in DataOps
         => workQueue[v].id < workQueue[w].id
  /\ worker.pc # "idle" /\ worker.work.op \in DataOps =>
       \A i \in DOMAIN sampleQueue : worker.work.id <= sampleQueue[i].id
  /\ EveryItemHasWork

\* An operation of the clock announces the call that it is numbered after.
Announces(work) ==
  /\ work.id \in DOMAIN calls
  /\ calls[work.id] = IF work.op = "Start" THEN "Started" ELSE "Stopped"

\* Numbers of clock calls grow from the events over the operation that runs to
\* the operations that wait.
ClockInv ==
  /\ \A w \in DOMAIN workQueue :
       workQueue[w].op \in ClockOps => Announces(workQueue[w])
  /\ \A v, w \in DOMAIN workQueue :
       v < w /\ workQueue[v].op \in ClockOps /\ workQueue[w].op \in ClockOps
         => workQueue[v].id < workQueue[w].id
  /\ worker.pc # "idle" /\ worker.work.op \in ClockOps =>
       /\ Announces(worker.work)
       /\ \A w \in DOMAIN workQueue :
            workQueue[w].op \in ClockOps => worker.work.id < workQueue[w].id
  /\ worker.pc # "idle" /\ worker.work.op = "Start" => Announced(worker.work.id)
  /\ \A e \in DOMAIN events : events[e].type # "Marker" =>
       /\ events[e].id <= Len(calls)
       /\ \A w \in DOMAIN workQueue :
            workQueue[w].op \in ClockOps => events[e].id < workQueue[w].id
       /\ worker.pc # "idle" /\ worker.work.op = "Stop" => events[e].id < worker.work.id
  /\ ClockEventsFollowCalls

IInv ==
  /\ TypeOK
  /\ ShutdownInv
  /\ OrderInv
  /\ DeliveredInv
  /\ MarkerInv
  /\ WorkInv
  /\ NoStarvation
  /\ OneSamplePerStart
  /\ ClockInv

-----------------------------------------------------------------------------
(* Sequences. *)

(* Positions of a sequence with one more element at the end. *)
LEMMA AppendFacts ==
  ASSUME NEW S, NEW s \in Seq(S), NEW e \in S
  PROVE  /\ \A i \in DOMAIN s : /\ i \in DOMAIN Append(s, e)
                                /\ Append(s, e)[i] = s[i]
         /\ \A i \in DOMAIN Append(s, e) :
              \/ i \in DOMAIN s /\ Append(s, e)[i] = s[i]
              \/ i \notin DOMAIN s /\ Append(s, e)[i] = e
         /\ \A i, j \in DOMAIN Append(s, e) : i < j => i \in DOMAIN s
         /\ \E i \in DOMAIN Append(s, e) : Append(s, e)[i] = e
<1> DEFINE t == Append(s, e)
<1>1. /\ DOMAIN s = 1..Len(s)
      /\ DOMAIN t = 1..(Len(s) + 1)
      /\ \A i \in 1..Len(s) : t[i] = s[i]
      /\ t[Len(s) + 1] = e
      /\ Len(s) \in Nat
  OBVIOUS
<1> HIDE DEF t
<1>2. \A i \in 1..(Len(s) + 1) : i \in 1..Len(s) \/ i = Len(s) + 1
  BY <1>1
<1>3. Len(s) + 1 \notin 1..Len(s)
  BY <1>1
<1>4. \A i, j \in DOMAIN t : i < j => i \in DOMAIN s
  BY <1>1
<1>5. Len(s) + 1 \in DOMAIN t
  BY <1>1
<1>6. \A i \in DOMAIN s : i \in DOMAIN t
  BY <1>1
<1> QED BY <1>1, <1>2, <1>3, <1>4, <1>5, <1>6 DEF t

(* Positions of a sequence without its first element. *)
LEMMA TailFacts ==
  ASSUME NEW S, NEW s \in Seq(S), s # <<>>
  PROVE  /\ \A i \in DOMAIN Tail(s) : /\ i + 1 \in DOMAIN s
                                      /\ Tail(s)[i] = s[i + 1]
                                      /\ 1 < i + 1
         /\ \A i, j \in DOMAIN Tail(s) : i < j => i + 1 < j + 1
         /\ \A i \in DOMAIN s : \/ s[i] = Head(s)
                                \/ \E k \in DOMAIN Tail(s) : Tail(s)[k] = s[i]
         /\ 1 \in DOMAIN s
         /\ Head(s) = s[1]
<1> DEFINE t == Tail(s)
<1>1. /\ DOMAIN s = 1..Len(s)
      /\ DOMAIN t = 1..(Len(s) - 1)
      /\ \A i \in 1..(Len(s) - 1) : t[i] = s[i + 1]
      /\ Head(s) = s[1]
      /\ Len(s) \in Nat \ {0}
  OBVIOUS
<1> HIDE DEF t
<1>2. \A i \in DOMAIN t : i + 1 \in DOMAIN s /\ 1 < i + 1
  BY <1>1
<1>3. \A i, j \in DOMAIN t : i < j => i + 1 < j + 1
  BY <1>1
<1>4. ASSUME NEW i \in DOMAIN s, i # 1
      PROVE  i - 1 \in DOMAIN t /\ t[i - 1] = s[i]
  <2>1. i - 1 \in 1..(Len(s) - 1) /\ (i - 1) + 1 = i
    BY <1>1, <1>4
  <2> QED BY <1>1, <2>1
<1>5. 1 \in DOMAIN s
  BY <1>1
<1>6. \A i \in DOMAIN s : s[i] = Head(s) \/ \E k \in DOMAIN t : t[k] = s[i]
  BY <1>1, <1>4
<1> QED BY <1>1, <1>2, <1>3, <1>5, <1>6 DEF t

\* An empty sequence holds nothing.
LEMMA CountEmpty == \A A : Count(<<>>, A) = 0
<1> TAKE A
<1>1. {i \in DOMAIN <<>> : <<>>[i] \in A} = {}
  OBVIOUS
<1> QED BY <1>1, FS_EmptySet DEF Count

\* Positions of a sequence are finitely many.
LEMMA CountFinite ==
  ASSUME NEW S, NEW s \in Seq(S), NEW A
  PROVE  /\ IsFiniteSet({i \in DOMAIN s : s[i] \in A})
         /\ Count(s, A) \in Nat
<1>1. DOMAIN s = 1..Len(s) /\ Len(s) \in Int /\ 1 \in Int
  OBVIOUS
<1>2. IsFiniteSet(DOMAIN s)
  BY <1>1, FS_Interval
<1>3. {i \in DOMAIN s : s[i] \in A} \in SUBSET DOMAIN s
  OBVIOUS
<1>4. IsFiniteSet({i \in DOMAIN s : s[i] \in A})
  BY <1>2, <1>3, FS_Subset
<1> QED BY <1>4, FS_CardinalityType DEF Count

(* One more element counts for itself. *)
LEMMA CountAppended ==
  ASSUME NEW S, NEW s \in Seq(S), NEW e \in S, NEW A
  PROVE  Count(Append(s, e), A) = IF e \in A THEN Count(s, A) + 1 ELSE Count(s, A)
<1> DEFINE old == {i \in DOMAIN s : s[i] \in A}
           new == {i \in DOMAIN Append(s, e) : Append(s, e)[i] \in A}
<1>1. /\ DOMAIN s = 1..Len(s)
      /\ DOMAIN Append(s, e) = 1..(Len(s) + 1)
      /\ \A i \in 1..Len(s) : Append(s, e)[i] = s[i]
      /\ Append(s, e)[Len(s) + 1] = e
      /\ Len(s) \in Nat
  OBVIOUS
<1>2. IsFiniteSet(old)
  BY CountFinite
<1>3. Len(s) + 1 \notin old
  BY <1>1
<1>4. CASE e \in A
  <2>1. new = old \cup {Len(s) + 1}
    <3>1. \A i : i \in 1..(Len(s) + 1) <=> i \in 1..Len(s) \/ i = Len(s) + 1
      BY <1>1
    <3> QED BY <1>1, <1>4, <3>1
  <2>2. Cardinality(old \cup {Len(s) + 1}) = Cardinality(old) + 1
    BY <1>2, <1>3, FS_AddElement
  <2> QED BY <1>4, <2>1, <2>2 DEF Count
<1>5. CASE e \notin A
  <2>1. new = old
    <3>1. \A i : i \in 1..(Len(s) + 1) <=> i \in 1..Len(s) \/ i = Len(s) + 1
      BY <1>1
    <3> QED BY <1>1, <1>5, <3>1
  <2> QED BY <1>5, <2>1 DEF Count
<1> QED BY <1>4, <1>5

(* The first element counted for itself. *)
LEMMA CountTail ==
  ASSUME NEW S, NEW s \in Seq(S), s # <<>>, NEW A
  PROVE  Count(s, A) = Count(Tail(s), A) + (IF Head(s) \in A THEN 1 ELSE 0)
<1> DEFINE all == {i \in DOMAIN s : s[i] \in A}
           rest == {i \in DOMAIN Tail(s) : Tail(s)[i] \in A}
           shift == [i \in rest |-> i + 1]
<1>1. /\ DOMAIN s = 1..Len(s)
      /\ DOMAIN Tail(s) = 1..(Len(s) - 1)
      /\ \A i \in 1..(Len(s) - 1) : Tail(s)[i] = s[i + 1]
      /\ Head(s) = s[1]
      /\ Len(s) \in Nat \ {0}
      /\ Tail(s) \in Seq(S)
  OBVIOUS
<1>2. IsFiniteSet(all) /\ IsFiniteSet(rest)
  BY <1>1, CountFinite
<1>3. ExistsBijection(rest, all \ {1})
  <2>1. shift \in [rest -> all \ {1}]
    BY <1>1
  <2>2. \A i, j \in rest : shift[i] = shift[j] => i = j
    BY <1>1
  <2>3. \A k \in all \ {1} : \E i \in rest : shift[i] = k
    <3> TAKE k \in all \ {1}
    <3>1. k - 1 \in 1..(Len(s) - 1) /\ (k - 1) + 1 = k
      BY <1>1
    <3>2. k - 1 \in rest
      BY <1>1, <3>1
    <3> QED BY <3>1, <3>2
  <2> HIDE DEF shift
  <2> HIDE DEF all, rest
  <2>4. shift \in Bijection(rest, all \ {1})
    BY <2>1, <2>2, <2>3 DEF Bijection, Injection, Surjection, IsInjective
  <2> QED BY <2>4 DEF ExistsBijection
<1>4. Cardinality(all \ {1}) = Cardinality(rest)
  <2> DEFINE others == all \ {1}
  <2> HIDE DEF all, rest, others
  <2>1. ExistsBijection(rest, others)
    BY <1>3 DEF others
  <2>2. Cardinality(others) = Cardinality(rest)
    BY <1>2, <2>1, FS_Bijection
  <2> QED BY <2>2 DEF others
<1>5. 1 \in all <=> Head(s) \in A
  BY <1>1
<1>6. /\ Cardinality(all) \in Nat
      /\ Cardinality(all \ {1})
           = IF 1 \in all THEN Cardinality(all) - 1 ELSE Cardinality(all)
  BY <1>2, FS_CardinalityType, FS_RemoveElement
<1> HIDE DEF all, rest
<1>7. Cardinality(all) = Cardinality(rest) + (IF Head(s) \in A THEN 1 ELSE 0)
  BY <1>4, <1>5, <1>6
<1> QED BY <1>7 DEF Count, all, rest

\* What an idle worker and a busy one are doing.
LEMMA IdleFacts ==
  /\ IdleWorker.pc = "idle"
  /\ \A w : Busy(w).pc = "drain" /\ Busy(w).work = w
  BY DEF IdleWorker, Busy

(* What a step does to the variables that carry numbers: positions of the new   *)
(* queue, events and frames in terms of the old.                                *)

\* QueueAsyncOperation adds one operation behind the others.
LEMMA WorkAppended ==
  ASSUME TypeOK, NEW op \in DataOps \cup ClockOps, NEW n \in Nat,
         QueueAsyncOperation(op, n)
  PROVE  /\ \A w \in DOMAIN workQueue : /\ w \in DOMAIN workQueue'
                                        /\ workQueue'[w] = workQueue[w]
         /\ \A w \in DOMAIN workQueue' :
              \/ w \in DOMAIN workQueue /\ workQueue'[w] = workQueue[w]
              \/ /\ w \notin DOMAIN workQueue
                 /\ workQueue'[w].op = op /\ workQueue'[w].id = n
         /\ \A v, w \in DOMAIN workQueue' : v < w => v \in DOMAIN workQueue
         /\ \E w \in DOMAIN workQueue' : workQueue'[w].op = op /\ workQueue'[w].id = n
<1> DEFINE work == [op |-> op, id |-> n]
<1>1. work \in Work /\ work.op = op /\ work.id = n
  BY DEF Work
<1>2. workQueue \in Seq(Work) /\ workQueue' = Append(workQueue, work)
  BY DEF TypeOK, QueueAsyncOperation
<1> HIDE DEF work
<1> QED BY <1>1, <1>2, AppendFacts

\* A method that accepts an item adds it behind the others, with the next number.
LEMMA ItemEnqueued ==
  ASSUME TypeOK, NEW kind \in SampleKinds \cup MarkerKinds \cup {"type"},
         NEW op \in DataOps, Accept, Enqueue(kind, op)
  PROVE  /\ ~isShutdown /\ worker.pc = "idle"
         /\ lastItem' = lastItem + 1
         /\ QueueAsyncOperation(op, lastItem + 1)
         /\ \A i \in DOMAIN sampleQueue' :
              \/ i \in DOMAIN sampleQueue /\ sampleQueue'[i] = sampleQueue[i]
              \/ i \notin DOMAIN sampleQueue /\ sampleQueue'[i].id = lastItem + 1
         /\ \A i, j \in DOMAIN sampleQueue' : i < j => i \in DOMAIN sampleQueue
<1> DEFINE item == [kind |-> kind, id |-> lastItem + 1]
<1>1. item \in Item /\ item.id = lastItem + 1
  BY DEF Item, TypeOK
<1>2. sampleQueue \in Seq(Item) /\ sampleQueue' = Append(sampleQueue, item)
  BY DEF TypeOK, Enqueue
<1>3. /\ ~isShutdown /\ worker.pc = "idle" /\ lastItem' = lastItem + 1
      /\ QueueAsyncOperation(op, lastItem + 1)
  BY DEF Accept, StreamLockFree, Enqueue
<1> HIDE DEF item
<1> QED BY <1>1, <1>2, <1>3, AppendFacts

\* QueueEvent adds one event behind the others.
LEMMA EventAppended ==
  ASSUME TypeOK, NEW type \in {"Started", "Stopped", "Marker"}, NEW n \in Nat,
         events' = Append(events, [type |-> type, id |-> n])
  PROVE  /\ \A e \in DOMAIN events : e \in DOMAIN events' /\ events'[e] = events[e]
         /\ \A e \in DOMAIN events' :
              \/ e \in DOMAIN events /\ events'[e] = events[e]
              \/ e \notin DOMAIN events /\ events'[e] = [type |-> type, id |-> n]
         /\ \A d, e \in DOMAIN events' : d < e => d \in DOMAIN events
         /\ \E e \in DOMAIN events' : events'[e] = [type |-> type, id |-> n]
<1> DEFINE event == [type |-> type, id |-> n]
<1>1. event \in Event /\ events \in Seq(Event) /\ events' = Append(events, event)
  BY DEF Event, TypeOK
<1> HIDE DEF event
<1>2. /\ \A e \in DOMAIN events : e \in DOMAIN events' /\ events'[e] = events[e]
      /\ \A e \in DOMAIN events' :
           \/ e \in DOMAIN events /\ events'[e] = events[e]
           \/ e \notin DOMAIN events /\ events'[e] = event
      /\ \A d, e \in DOMAIN events' : d < e => d \in DOMAIN events
      /\ \E e \in DOMAIN events' : events'[e] = event
  BY <1>1, AppendFacts
<1> QED BY <1>2 DEF event

\* The work queue's thread takes the operation at the head.
LEMMA WorkTaken ==
  ASSUME TypeOK, workQueue # <<>>, workQueue' = Tail(workQueue)
  PROVE  /\ \A w \in DOMAIN workQueue' : /\ w + 1 \in DOMAIN workQueue
                                         /\ workQueue'[w] = workQueue[w + 1]
                                         /\ 1 < w + 1
         /\ \A v, w \in DOMAIN workQueue' : v < w => v + 1 < w + 1
         /\ \A w \in DOMAIN workQueue :
              \/ workQueue[w] = Head(workQueue)
              \/ \E k \in DOMAIN workQueue' : workQueue'[k] = workQueue[w]
         /\ 1 \in DOMAIN workQueue
         /\ Head(workQueue) = workQueue[1]
         /\ Head(workQueue) \in Work
<1> DEFINE tail == Tail(workQueue)
<1>1. workQueue \in Seq(Work)
  BY DEF TypeOK
<1>2. /\ \A w \in DOMAIN tail : /\ w + 1 \in DOMAIN workQueue
                                /\ tail[w] = workQueue[w + 1]
                                /\ 1 < w + 1
      /\ \A v, w \in DOMAIN tail : v < w => v + 1 < w + 1
      /\ \A w \in DOMAIN workQueue :
           workQueue[w] = Head(workQueue) \/ \E k \in DOMAIN tail : tail[k] = workQueue[w]
      /\ 1 \in DOMAIN workQueue
      /\ Head(workQueue) = workQueue[1]
  BY <1>1, TailFacts
<1>3. Head(workQueue) \in Work
  BY <1>1
<1> HIDE DEF tail
<1>4. workQueue' = tail
  BY DEF tail
<1> QED BY <1>2, <1>3, <1>4

\* The drain takes the item at the head.
LEMMA ItemTaken ==
  ASSUME TypeOK, DrainItem
  PROVE  /\ worker.pc = "drain"
         /\ worker'.work = worker.work
         /\ \/ worker'.pc = "prepare" /\ worker'.item = sampleQueue[1] /\ events' = events
            \/ worker'.pc = "drain" /\ events' = events
            \/ /\ worker'.pc = "drain"
               /\ events' = Append(events, [type |-> "Marker", id |-> sampleQueue[1].id])
         /\ UNCHANGED <<isShutdown, workQueue, calls, lastItem, delivered>>
         /\ \A i \in DOMAIN sampleQueue' : /\ i + 1 \in DOMAIN sampleQueue
                                           /\ sampleQueue'[i] = sampleQueue[i + 1]
                                           /\ 1 < i + 1
         /\ \A i, j \in DOMAIN sampleQueue' : i < j => i + 1 < j + 1
         /\ 1 \in DOMAIN sampleQueue
         /\ sampleQueue[1] \in Item
<1> DEFINE tail == Tail(sampleQueue)
<1>1. sampleQueue \in Seq(Item) /\ sampleQueue # <<>> /\ worker \in Worker
  BY DEF TypeOK, DrainItem
<1>2. /\ \A i \in DOMAIN tail : /\ i + 1 \in DOMAIN sampleQueue
                                /\ tail[i] = sampleQueue[i + 1]
                                /\ 1 < i + 1
      /\ \A i, j \in DOMAIN tail : i < j => i + 1 < j + 1
      /\ 1 \in DOMAIN sampleQueue
      /\ Head(sampleQueue) = sampleQueue[1]
  BY <1>1, TailFacts
<1>3. sampleQueue[1] \in Item
  BY <1>1
<1>4. /\ worker.pc = "drain"
      /\ worker'.work = worker.work
      /\ \/ worker'.pc = "prepare" /\ worker'.item = Head(sampleQueue) /\ events' = events
         \/ worker'.pc = "drain" /\ events' = events
         \/ /\ worker'.pc = "drain"
            /\ events' = Append(events, [type |-> "Marker", id |-> Head(sampleQueue).id])
      /\ UNCHANGED <<isShutdown, workQueue, calls, lastItem, delivered>>
  <2>1. CASE Head(sampleQueue).kind = "sample" /\ ~Flushing
    BY <1>1, <2>1 DEF DrainItem, Worker, MarkerKinds
  <2>2. CASE ~(Head(sampleQueue).kind = "sample" /\ ~Flushing)
    BY <1>1, <2>2 DEF DrainItem, Worker
  <2> QED BY <2>1, <2>2
<1>5. sampleQueue' = tail
  BY DEF DrainItem
<1> HIDE DEF tail
<1> QED BY <1>2, <1>3, <1>4, <1>5

\* A drain that ends leaves the worker idle, and announces its Stop.
LEMMA DrainEnded ==
  ASSUME TypeOK, NEW b \in BOOLEAN, EndDrain(b)
  PROVE  /\ worker' = IdleWorker
         /\ worker'.pc = "idle"
         /\ IF worker.work.op = "Stop"
              THEN events' = Append(events, [type |-> "Stopped", id |-> worker.work.id])
              ELSE events' = events
  BY IdleFacts DEF EndDrain

(* A frame was handed on: the thread is back in the loop, or out of it. *)
LEMMA FrameFacts ==
  ASSUME TypeOK, FrameDone
  PROVE  \/ /\ worker'.pc = "drain"
            /\ worker'.work = worker.work
            /\ UNCHANGED <<requests, events, faults>>
         \/ EndDrain(FALSE) /\ faults' = faults + 1
<1>1. worker \in Worker
  BY DEF TypeOK
<1> QED BY <1>1 DEF FrameDone, BufferFails, Worker

-----------------------------------------------------------------------------
\* Items are numbered in the order of their acceptance and stay in it.
LEMMA OrderStep == TypeOK /\ OrderInv /\ [Next]_vars => OrderInv'
<1> SUFFICES ASSUME TypeOK, OrderInv, [Next]_vars PROVE OrderInv'
  OBVIOUS
<1>1. ASSUME UNCHANGED <<sampleQueue, worker, lastItem>> PROVE OrderInv'
  BY <1>1 DEF OrderInv, InHand
<1>2. ASSUME KeepFirstSample PROVE OrderInv'
  <2>1. /\ sampleQueue' = sampleQueue /\ worker' = worker /\ lastItem' = lastItem + 1
    BY <1>2 DEF KeepFirstSample, Accept
  <2> QED BY <2>1 DEF OrderInv, InHand, TypeOK, Worker, Item
<1>3. ASSUME NEW kind \in SampleKinds \cup MarkerKinds \cup {"type"},
             NEW op \in DataOps, Accept, Enqueue(kind, op), worker' = worker
      PROVE  OrderInv'
  <2>1. lastItem \in Nat
    BY DEF TypeOK
  <2> QED BY <1>3, <2>1, ItemEnqueued DEF OrderInv, InHand
<1>4. ASSUME Shutdown PROVE OrderInv'
  BY <1>4 DEF Shutdown, StreamLockFree, OrderInv, InHand
<1>5. ASSUME NEW w, worker' = Busy(w), UNCHANGED <<sampleQueue, lastItem>>
      PROVE  OrderInv'
  BY <1>5, IdleFacts DEF OrderInv, InHand
<1>6. ASSUME DrainItem PROVE OrderInv'
  BY <1>6, ItemTaken DEF OrderInv, InHand
<1>7. ASSUME worker'.pc \in {"idle", "drain"}, UNCHANGED <<sampleQueue, lastItem>>
      PROVE  OrderInv'
  BY <1>7 DEF OrderInv, InHand
<1>8. ASSUME QueueDrained \/ LockFails \/ PrepareSample PROVE OrderInv'
  BY <1>7, <1>8, DrainEnded, FrameFacts
     DEF QueueDrained, LockFails, BufferFails, PrepareSample
<1> QED
  BY <1>1, <1>2, <1>3, <1>4, <1>5, <1>6, <1>8
     DEF Next, Pipeline, WorkQueueThread, Drain, Finished, vars, SetFirstMediaType,
         ReplaceMediaType, ProcessFormatChange, ProcessSample, PlaceMarker, Flush,
         OnClockStart, Start, OnClockStop, Stop, Dispatch, DispatchAfterShutdown,
         RunEOSTask, DataOps

\* Only the sample in hand is delivered, and it is newer than those before.
LEMMA DeliveredStep ==
  TypeOK /\ OrderInv /\ DeliveredInv /\ [Next]_vars => DeliveredInv'
<1> SUFFICES ASSUME TypeOK, OrderInv, DeliveredInv, [Next]_vars PROVE DeliveredInv'
  OBVIOUS
<1> lastItem \in Nat /\ \A d \in DOMAIN delivered : delivered[d] \in Nat
  BY DEF TypeOK
<1>1. ASSUME UNCHANGED <<sampleQueue, worker, lastItem, delivered>> PROVE DeliveredInv'
  BY <1>1 DEF DeliveredInv, DeliveredInOrder, InHand
<1>2. ASSUME KeepFirstSample PROVE DeliveredInv'
  BY <1>2 DEF KeepFirstSample, Accept, DeliveredInv, DeliveredInOrder, InHand
<1>3. ASSUME NEW kind \in SampleKinds \cup MarkerKinds \cup {"type"},
             NEW op \in DataOps, Accept, Enqueue(kind, op),
             UNCHANGED <<worker, delivered>>
      PROVE  DeliveredInv'
  <2>1. DeliveredInOrder'
    BY <1>3 DEF DeliveredInv, DeliveredInOrder
  <2>2. \A d \in DOMAIN delivered : delivered[d] < lastItem + 1
    BY DEF DeliveredInv
  <2> QED BY <1>3, <2>1, <2>2, ItemEnqueued DEF DeliveredInv, InHand
<1>4. ASSUME Shutdown PROVE DeliveredInv'
  BY <1>4 DEF Shutdown, DeliveredInv, DeliveredInOrder, InHand
<1>5. ASSUME worker'.pc \in {"idle", "drain"},
             UNCHANGED <<sampleQueue, lastItem, delivered>>
      PROVE  DeliveredInv'
  BY <1>5 DEF DeliveredInv, DeliveredInOrder, InHand
<1>6. ASSUME Flush \/ Dispatch PROVE DeliveredInv'
  BY <1>5, <1>6, IdleFacts DEF Flush, Dispatch
<1>7. ASSUME DrainItem PROVE DeliveredInv'
  BY <1>7, ItemTaken DEF DeliveredInv, DeliveredInOrder, InHand
<1>8. ASSUME QueueDrained \/ LockFails PROVE DeliveredInv'
  BY <1>5, <1>8, DrainEnded DEF QueueDrained, LockFails, BufferFails
<1>9. ASSUME PrepareSample PROVE DeliveredInv'
  <2> DEFINE n == worker.item.id
  <2>1. /\ n \in 1..lastItem
        /\ \A i \in DOMAIN sampleQueue : n < sampleQueue[i].id
        /\ \A d \in DOMAIN delivered : delivered[d] < n
    BY <1>9 DEF PrepareSample, OrderInv, DeliveredInv, InHand
  <2>2. delivered \in Seq(Nat) /\ n \in Nat /\ n <= lastItem
    BY <2>1 DEF TypeOK
  <2>3. /\ delivered' = Append(delivered, n)
        /\ worker'.pc \in {"idle", "drain"}
        /\ UNCHANGED <<sampleQueue, lastItem>>
    BY <1>9, FrameFacts, DrainEnded DEF PrepareSample
  <2> HIDE DEF n
  <2>4. /\ \A d \in DOMAIN delivered' :
             \/ d \in DOMAIN delivered /\ delivered'[d] = delivered[d]
             \/ d \notin DOMAIN delivered /\ delivered'[d] = n
        /\ \A d, e \in DOMAIN delivered' : d < e => d \in DOMAIN delivered
    BY <2>2, <2>3, AppendFacts
  <2>5. DeliveredInOrder'
    BY <2>1, <2>2, <2>4 DEF DeliveredInv, DeliveredInOrder
  <2>6. \A d \in DOMAIN delivered' :
          /\ delivered'[d] <= lastItem
          /\ \A i \in DOMAIN sampleQueue : delivered'[d] < sampleQueue[i].id
    BY <2>1, <2>2, <2>4 DEF DeliveredInv
  <2> QED BY <2>3, <2>5, <2>6 DEF DeliveredInv, InHand
<1> QED
  BY <1>1, <1>2, <1>3, <1>4, <1>6, <1>7, <1>8, <1>9
     DEF Next, Pipeline, WorkQueueThread, Drain, Finished, vars, SetFirstMediaType,
         ReplaceMediaType, ProcessFormatChange, ProcessSample, PlaceMarker,
         OnClockStart, Start, OnClockStop, Stop, DispatchAfterShutdown,
         RunEOSTask, DataOps

\* A marker is announced when the drain reaches it.
LEMMA MarkerStep ==
  TypeOK /\ OrderInv /\ MarkerInv /\ [Next]_vars => MarkerInv'
<1> SUFFICES ASSUME TypeOK, OrderInv, MarkerInv, [Next]_vars PROVE MarkerInv'
  OBVIOUS
<1>t. events \in Seq(Event) /\ lastItem \in Nat
  BY DEF TypeOK
<1>u. \A e \in DOMAIN events : events[e] \in Event
  BY <1>t
<1> lastItem \in Nat /\ \A e \in DOMAIN events : events[e].id \in Nat
  BY <1>t, <1>u DEF Event
<1>1. ASSUME UNCHANGED <<sampleQueue, worker, lastItem, events>> PROVE MarkerInv'
  BY <1>1 DEF MarkerInv, InHand
<1>2. ASSUME KeepFirstSample PROVE MarkerInv'
  BY <1>2 DEF KeepFirstSample, Accept, MarkerInv, InHand
<1>3. ASSUME NEW kind \in SampleKinds \cup MarkerKinds \cup {"type"},
             NEW op \in DataOps, Accept, Enqueue(kind, op),
             UNCHANGED <<worker, events>>
      PROVE  MarkerInv'
  <2>1. \A e \in DOMAIN events :
          events[e].type = "Marker" => events[e].id < lastItem + 1
    BY DEF MarkerInv
  <2> QED BY <1>3, <2>1, ItemEnqueued DEF MarkerInv, InHand
<1>4. ASSUME Shutdown PROVE MarkerInv'
  BY <1>4 DEF Shutdown, MarkerInv, InHand
<1>5. ASSUME worker'.pc \in {"idle", "drain"},
             UNCHANGED <<sampleQueue, lastItem, events>>
      PROVE  MarkerInv'
  BY <1>5 DEF MarkerInv, InHand
<1>6. ASSUME NEW type \in {"Started", "Stopped"}, NEW n \in Nat,
             events' = Append(events, [type |-> type, id |-> n]),
             worker'.pc \in {"idle", "drain"},
             UNCHANGED <<sampleQueue, lastItem>>
      PROVE  MarkerInv'
  <2>1. \A e \in DOMAIN events' : events'[e].type = "Marker" =>
          e \in DOMAIN events /\ events'[e] = events[e]
    BY <1>6, EventAppended
  <2> QED BY <1>6, <2>1 DEF MarkerInv, InHand
<1>7. ASSUME Flush \/ Dispatch PROVE MarkerInv'
  <2>1. CASE Flush
    BY <1>5, <2>1, IdleFacts DEF Flush
  <2>2. CASE Dispatch
    <3>1. workQueue # <<>> /\ workQueue' = Tail(workQueue)
      BY <2>2 DEF Dispatch
    <3>2. Head(workQueue).id \in Nat
      BY <3>1, WorkTaken DEF Work
    <3> QED BY <1>5, <1>6, <2>2, <3>2, IdleFacts DEF Dispatch
  <2> QED BY <1>7, <2>1, <2>2
<1>8. ASSUME DrainItem PROVE MarkerInv'
  <2>1. sampleQueue[1].id \in Nat /\ sampleQueue[1].id <= lastItem
    BY <1>8, ItemTaken DEF OrderInv
  <2>2. /\ lastItem' = lastItem
        /\ \A i \in DOMAIN sampleQueue' : sampleQueue[1].id < sampleQueue'[i].id
    BY <1>8, ItemTaken DEF OrderInv
  <2>3. \A e \in DOMAIN events : events[e].type = "Marker" =>
          /\ events[e].id <= lastItem'
          /\ events[e].id < sampleQueue[1].id
          /\ \A i \in DOMAIN sampleQueue' : events[e].id < sampleQueue'[i].id
    BY <1>8, ItemTaken DEF MarkerInv
  <2>4. CASE events' = events
    BY <1>8, <2>3, <2>4, ItemTaken DEF MarkerInv, InHand
  <2>5. CASE /\ worker'.pc = "drain"
             /\ events' = Append(events, [type |-> "Marker", id |-> sampleQueue[1].id])
    <3>1. \A e \in DOMAIN events' :
            \/ e \in DOMAIN events /\ events'[e] = events[e]
            \/ events'[e].id = sampleQueue[1].id
      BY <2>1, <2>5, EventAppended
    <3> QED BY <2>1, <2>2, <2>3, <2>5, <3>1 DEF MarkerInv, InHand
  <2> QED BY <1>8, <2>4, <2>5, ItemTaken
<1>9. ASSUME NEW b \in BOOLEAN, EndDrain(b), UNCHANGED <<sampleQueue, lastItem>>
      PROVE  MarkerInv'
  <2>1. worker.work.id \in Nat
    BY DEF TypeOK, Worker, Work
  <2> QED BY <1>5, <1>6, <1>9, <2>1, DrainEnded
<1>10. ASSUME QueueDrained \/ LockFails \/ PrepareSample PROVE MarkerInv'
  BY <1>5, <1>9, <1>10, FrameFacts
     DEF QueueDrained, LockFails, BufferFails, PrepareSample
<1> QED
  BY <1>1, <1>2, <1>3, <1>4, <1>7, <1>8, <1>10
     DEF Next, Pipeline, WorkQueueThread, Drain, Finished, vars, SetFirstMediaType,
         ReplaceMediaType, ProcessFormatChange, ProcessSample, PlaceMarker,
         OnClockStart, Start, OnClockStop, Stop, DispatchAfterShutdown,
         RunEOSTask, DataOps

\* Shutdown leaves nothing behind, and nothing is added after it.
LEMMA ShutdownStep == ShutdownInv /\ [Next]_vars => ShutdownInv'
<1> SUFFICES ASSUME ShutdownInv, [Next]_vars PROVE ShutdownInv'
  OBVIOUS
<1> USE DEF ShutdownInv
<1>1. ASSUME Pipeline PROVE ShutdownInv'
  BY <1>1 DEF Pipeline, SetFirstMediaType, ReplaceMediaType, ProcessFormatChange,
              KeepFirstSample, ProcessSample, PlaceMarker, Accept, Flush,
              OnClockStart, Start, OnClockStop, Stop, Shutdown, StreamLockFree
<1>2. ASSUME WorkQueueThread PROVE ShutdownInv'
  BY <1>2 DEF WorkQueueThread, Dispatch, DispatchAfterShutdown, Drain, DrainItem,
              QueueDrained, LockFails, PrepareSample
<1> QED
  BY <1>1, <1>2 DEF Next, RunEOSTask, Finished, vars

\* Taking items and operations, in whatever order, strands no item.
LEMMA WorkStep ==
  TypeOK /\ ShutdownInv /\ OrderInv /\ WorkInv /\ [Next]_vars => WorkInv'
<1> SUFFICES ASSUME TypeOK, ShutdownInv, OrderInv, WorkInv, [Next]_vars
             PROVE  WorkInv'
  OBVIOUS
<1>t. lastItem \in Nat /\ workQueue \in Seq(Work) /\ sampleQueue \in Seq(Item)
  BY DEF TypeOK
<1>u. /\ \A w \in DOMAIN workQueue : workQueue[w] \in Work
      /\ \A i \in DOMAIN sampleQueue : sampleQueue[i] \in Item
  BY <1>t
<1> /\ lastItem \in Nat
    /\ \A w \in DOMAIN workQueue : workQueue[w].id \in Nat
    /\ \A i \in DOMAIN sampleQueue : sampleQueue[i].id \in Nat
    /\ worker.work.id \in Nat
  BY <1>t, <1>u DEF Work, Item, TypeOK, Worker
<1>1. ASSUME UNCHANGED <<sampleQueue, workQueue, worker, lastItem>> PROVE WorkInv'
  BY <1>1 DEF WorkInv, EveryItemHasWork, WorkFor
<1>2. ASSUME KeepFirstSample PROVE WorkInv'
  <2>1. 1..lastItem \subseteq 1..lastItem'
    BY <1>2 DEF KeepFirstSample, Accept
  <2> QED BY <1>2, <2>1 DEF KeepFirstSample, WorkInv, EveryItemHasWork, WorkFor
<1>3. ASSUME NEW kind \in SampleKinds \cup MarkerKinds \cup {"type"},
             NEW op \in DataOps, Accept, Enqueue(kind, op), worker' = worker
      PROVE  WorkInv'
  <2> DEFINE n == lastItem + 1
  <2>1. /\ worker.pc = "idle" /\ lastItem' = n /\ n \in Nat
        /\ QueueAsyncOperation(op, n)
        /\ \A i \in DOMAIN sampleQueue' :
             \/ i \in DOMAIN sampleQueue /\ sampleQueue'[i] = sampleQueue[i]
             \/ sampleQueue'[i].id = n
    BY <1>3, ItemEnqueued
  <2>2. /\ \A w \in DOMAIN workQueue : /\ w \in DOMAIN workQueue'
                                       /\ workQueue'[w] = workQueue[w]
        /\ \A w \in DOMAIN workQueue' :
             \/ w \in DOMAIN workQueue /\ workQueue'[w] = workQueue[w]
             \/ workQueue'[w].op = op /\ workQueue'[w].id = n
        /\ \A v, w \in DOMAIN workQueue' : v < w => v \in DOMAIN workQueue
        /\ \E w \in DOMAIN workQueue' : workQueue'[w].op = op /\ workQueue'[w].id = n
    BY <2>1, WorkAppended
  <2>3. n \in 1..n /\ \A k \in 1..lastItem : k \in 1..n /\ k < n
    OBVIOUS
  <2> HIDE DEF n
  <2>4. \A w \in DOMAIN workQueue' :
          workQueue'[w].op \in DataOps => workQueue'[w].id \in 1..lastItem'
    BY <2>1, <2>2, <2>3 DEF WorkInv
  <2>5. \A v, w \in DOMAIN workQueue' :
          v < w /\ workQueue'[v].op \in DataOps /\ workQueue'[w].op \in DataOps
            => workQueue'[v].id < workQueue'[w].id
    BY <2>2, <2>3 DEF WorkInv
  <2>6. EveryItemHasWork'
    <3>1. ASSUME NEW i \in DOMAIN sampleQueue'
          PROVE  \E w \in DOMAIN workQueue' : WorkFor(workQueue'[w], sampleQueue'[i])
      <4>1. CASE sampleQueue'[i].id = n
        BY <1>3, <2>2, <4>1 DEF WorkFor
      <4>2. CASE i \in DOMAIN sampleQueue /\ sampleQueue'[i] = sampleQueue[i]
        <5>1. PICK w \in DOMAIN workQueue : WorkFor(workQueue[w], sampleQueue[i])
          BY <2>1, <4>2 DEF WorkInv, EveryItemHasWork
        <5> QED BY <2>2, <4>2, <5>1
      <4> QED BY <2>1, <4>1, <4>2
    <3> QED BY <3>1 DEF EveryItemHasWork
  <2> QED BY <1>3, <2>1, <2>4, <2>5, <2>6 DEF WorkInv
<1>4. ASSUME Shutdown PROVE WorkInv'
  BY <1>4 DEF Shutdown, WorkInv, EveryItemHasWork
<1>5. ASSUME NEW op \in ClockOps, NEW n \in Nat, QueueAsyncOperation(op, n),
             UNCHANGED <<sampleQueue, worker, lastItem>>
      PROVE  WorkInv'
  <2>1. op \notin DataOps
    BY DEF ClockOps, DataOps
  <2>2. /\ \A w \in DOMAIN workQueue : /\ w \in DOMAIN workQueue'
                                       /\ workQueue'[w] = workQueue[w]
        /\ \A w \in DOMAIN workQueue' :
             \/ w \in DOMAIN workQueue /\ workQueue'[w] = workQueue[w]
             \/ workQueue'[w].op = op
        /\ \A v, w \in DOMAIN workQueue' : v < w => v \in DOMAIN workQueue
    BY <1>5, WorkAppended
  <2>3. EveryItemHasWork'
    BY <1>5, <2>2 DEF WorkInv, EveryItemHasWork, WorkFor
  <2> QED BY <1>5, <2>1, <2>2, <2>3 DEF WorkInv
<1>6. ASSUME OnClockStart \/ OnClockStop PROVE WorkInv'
  <2>1. Len(calls) + 1 \in Nat
    BY DEF TypeOK
  <2> QED BY <1>5, <1>6, <2>1 DEF OnClockStart, Start, OnClockStop, Stop, ClockOps
<1>7. ASSUME Flush PROVE WorkInv'
  <2>1. worker'.pc = "drain" /\ worker'.work.op \notin DataOps
    BY <1>7, IdleFacts DEF Flush, FlushWork, DataOps
  <2>2. worker.pc = "idle"
    BY <1>7 DEF Flush, StreamLockFree
  <2> QED BY <1>7, <2>1, <2>2 DEF Flush, WorkInv, EveryItemHasWork, WorkFor
<1>8. ASSUME workQueue # <<>>, workQueue' = Tail(workQueue), lastItem' = lastItem
      PROVE  /\ \A w \in DOMAIN workQueue' :
                  workQueue'[w].op \in DataOps => workQueue'[w].id \in 1..lastItem'
             /\ \A v, w \in DOMAIN workQueue' :
                  v < w /\ workQueue'[v].op \in DataOps /\ workQueue'[w].op \in DataOps
                    => workQueue'[v].id < workQueue'[w].id
  BY <1>8, WorkTaken DEF WorkInv
<1>9. ASSUME Dispatch PROVE WorkInv'
  <2>1. /\ workQueue # <<>> /\ workQueue' = Tail(workQueue)
        /\ worker.pc = "idle" /\ worker'.pc = "drain"
        /\ worker'.work = Head(workQueue)
        /\ UNCHANGED <<sampleQueue, lastItem>>
    BY <1>9, IdleFacts DEF Dispatch, StreamLockFree
  <2>2. \A i \in DOMAIN sampleQueue :
          \E w \in DOMAIN workQueue : WorkFor(workQueue[w], sampleQueue[i])
    BY <2>1 DEF WorkInv, EveryItemHasWork
  <2>3. 1 \in DOMAIN workQueue /\ Head(workQueue) = workQueue[1]
    BY <2>1, WorkTaken
  <2>4. \A w \in DOMAIN workQueue : w = 1 \/ 1 < w
    BY <1>t
  <2>5. worker'.work.op \in DataOps =>
          \A i \in DOMAIN sampleQueue : worker'.work.id <= sampleQueue[i].id
    BY <2>1, <2>2, <2>3, <2>4 DEF WorkInv, WorkFor
  <2>6. EveryItemHasWork'
    <3>1. \A w \in DOMAIN workQueue :
            \/ workQueue[w] = worker'.work
            \/ \E k \in DOMAIN workQueue' : workQueue'[k] = workQueue[w]
      BY <2>1, WorkTaken
    <3> QED BY <2>1, <2>2, <3>1 DEF EveryItemHasWork
  <2> QED BY <1>8, <2>1, <2>5, <2>6 DEF WorkInv
<1>10. ASSUME DispatchAfterShutdown PROVE WorkInv'
  <2>1. /\ workQueue # <<>> /\ workQueue' = Tail(workQueue)
        /\ worker.pc = "idle" /\ sampleQueue = <<>>
        /\ UNCHANGED <<sampleQueue, worker, lastItem>>
    BY <1>10 DEF DispatchAfterShutdown, StreamLockFree, ShutdownInv
  <2>2. EveryItemHasWork'
    BY <2>1 DEF EveryItemHasWork
  <2> QED BY <1>8, <2>1, <2>2 DEF WorkInv
<1>11. ASSUME DrainItem PROVE WorkInv'
  <2>1. /\ worker.pc = "drain" /\ worker'.work = worker.work
        /\ UNCHANGED <<workQueue, lastItem>>
        /\ 1 \in DOMAIN sampleQueue
        /\ \A i \in DOMAIN sampleQueue' : /\ i + 1 \in DOMAIN sampleQueue
                                          /\ sampleQueue'[i] = sampleQueue[i + 1]
                                          /\ 1 < i + 1
    BY <1>11, ItemTaken
  <2>2. worker.work.op \in DataOps =>
          \A i \in DOMAIN sampleQueue' : worker.work.id < sampleQueue'[i].id
    BY <2>1 DEF WorkInv, OrderInv
  <2>3. EveryItemHasWork'
    BY <2>1, <2>2 DEF WorkInv, EveryItemHasWork, WorkFor
  <2> QED BY <2>1, <2>2, <2>3 DEF WorkInv
<1>12. ASSUME QueueDrained PROVE WorkInv'
  BY <1>12, DrainEnded DEF QueueDrained, WorkInv, EveryItemHasWork
<1>13. ASSUME LockFails \/ PrepareSample PROVE WorkInv'
  <2>1. /\ worker.pc = "prepare"
        /\ worker'.pc = "idle" \/ (worker'.pc = "drain" /\ worker'.work = worker.work)
        /\ UNCHANGED <<sampleQueue, workQueue, lastItem>>
    BY <1>13, FrameFacts, DrainEnded DEF LockFails, BufferFails, PrepareSample
  <2>2. EveryItemHasWork'
    BY <2>1 DEF WorkInv, EveryItemHasWork
  <2> QED BY <2>1, <2>2 DEF WorkInv
<1> QED
  BY <1>1, <1>2, <1>3, <1>4, <1>6, <1>7, <1>9, <1>10, <1>11, <1>12, <1>13
     DEF Next, Pipeline, WorkQueueThread, Drain, Finished, vars, SetFirstMediaType,
         ReplaceMediaType, ProcessFormatChange, ProcessSample, PlaceMarker,
         RunEOSTask, DataOps

(* The pull loop: only the pipeline takes a request away, and it queues an       *)
(* operation that asks again.                                                   *)
LEMMA StarvationStep == TypeOK /\ NoStarvation /\ [Next]_vars => NoStarvation'
<1> SUFFICES ASSUME TypeOK, NoStarvation, [Next]_vars PROVE NoStarvation'
  OBVIOUS
<1>t. requests \in Nat /\ faults \in Nat
  BY DEF TypeOK
<1>1. ASSUME UNCHANGED <<state, isShutdown, requests, worker, workQueue, faults>>
      PROVE  NoStarvation'
  BY <1>1 DEF NoStarvation
<1>2. ASSUME NEW t \in MediaTypes, SetFirstMediaType(t) PROVE NoStarvation'
  BY <1>2 DEF SetFirstMediaType, NoStarvation
<1>3. ASSUME Shutdown PROVE NoStarvation'
  BY <1>3 DEF Shutdown, NoStarvation
<1>4. ASSUME NEW op \in DataOps \cup ClockOps, NEW n \in Nat,
             QueueAsyncOperation(op, n),
             \/ op \in {"Start", "ProcessSample"}
             \/ state' # "Started"
             \/ UNCHANGED <<state, requests>>,
             UNCHANGED <<isShutdown, worker, faults>>
      PROVE  NoStarvation'
  <2>1. /\ \A w \in DOMAIN workQueue : /\ w \in DOMAIN workQueue'
                                       /\ workQueue'[w] = workQueue[w]
        /\ \E w \in DOMAIN workQueue' : workQueue'[w].op = op
    BY <1>4, WorkAppended
  <2>2. CASE op \in {"Start", "ProcessSample"}
    BY <2>1, <2>2 DEF NoStarvation, AsksForMore
  <2>3. CASE UNCHANGED <<state, requests>>
    BY <1>4, <2>1, <2>3 DEF NoStarvation, AsksForMore
  <2>4. CASE state' # "Started"
    BY <2>4 DEF NoStarvation
  <2> QED BY <1>4, <2>2, <2>3, <2>4
<1>5. ASSUME NEW t \in MediaTypes, ProcessFormatChange(t) PROVE NoStarvation'
  <2>1. lastItem + 1 \in Nat /\ "SetMediaType" \in DataOps
    BY DEF TypeOK, DataOps
  <2> QED BY <1>4, <1>5, <2>1 DEF ProcessFormatChange, Enqueue
<1>6. ASSUME NEW kind \in SampleKinds, ProcessSample(kind) PROVE NoStarvation'
  <2>1. lastItem + 1 \in Nat /\ "ProcessSample" \in DataOps
    BY DEF TypeOK, DataOps
  <2> QED BY <1>4, <1>6, <2>1 DEF ProcessSample, Enqueue
<1>7. ASSUME NEW kind \in MarkerKinds, PlaceMarker(kind) PROVE NoStarvation'
  <2>1. lastItem + 1 \in Nat /\ "PlaceMarker" \in DataOps
    BY DEF TypeOK, DataOps
  <2> QED BY <1>4, <1>7, <2>1 DEF PlaceMarker, Enqueue
<1>8. ASSUME OnClockStart \/ OnClockStop PROVE NoStarvation'
  <2>1. Len(calls) + 1 \in Nat
    BY DEF TypeOK
  <2> QED BY <1>4, <1>8, <2>1 DEF OnClockStart, Start, OnClockStop, Stop, ClockOps
<1>9. ASSUME Flush PROVE NoStarvation'
  BY <1>9, IdleFacts DEF Flush, StreamLockFree, NoStarvation
<1>10. ASSUME Dispatch PROVE NoStarvation'
  <2>1. /\ workQueue # <<>> /\ workQueue' = Tail(workQueue)
        /\ worker.pc = "idle" /\ worker'.pc = "drain"
        /\ worker'.work = Head(workQueue)
        /\ UNCHANGED <<state, isShutdown, requests, faults>>
    BY <1>10, IdleFacts DEF Dispatch, StreamLockFree
  <2>2. \A w \in DOMAIN workQueue :
          \/ workQueue[w] = worker'.work
          \/ \E k \in DOMAIN workQueue' : workQueue'[k] = workQueue[w]
    BY <2>1, WorkTaken
  <2> QED BY <2>1, <2>2 DEF NoStarvation
<1>11. ASSUME DispatchAfterShutdown PROVE NoStarvation'
  BY <1>11 DEF DispatchAfterShutdown, NoStarvation
<1>12. ASSUME DrainItem PROVE NoStarvation'
  <2>1. /\ worker.pc = "drain" /\ worker'.pc # "idle" /\ worker'.work = worker.work
        /\ UNCHANGED <<isShutdown, workQueue>>
    BY <1>12, ItemTaken
  <2> QED BY <1>12, <2>1 DEF DrainItem, NoStarvation
<1>13. ASSUME QueueDrained PROVE NoStarvation'
  <2>1. /\ requests' = IF AsksForMore(worker.work) THEN requests + 1 ELSE requests
        /\ UNCHANGED <<state, isShutdown, workQueue, faults>>
    BY <1>13 DEF QueueDrained, EndDrain
  <2>2. AsksForMore(worker.work) => requests' > 0
    BY <1>t, <2>1
  <2> QED BY <2>1, <2>2 DEF NoStarvation
<1>14. ASSUME BufferFails PROVE NoStarvation'
  <2>1. faults' # 0
    BY <1>t, <1>14 DEF BufferFails
  <2> QED BY <2>1 DEF NoStarvation
<1>15. ASSUME PrepareSample PROVE NoStarvation'
  <2>1. CASE BufferFails
    BY <1>14, <2>1
  <2>2. CASE ~BufferFails
    <3>1. /\ worker'.pc = "drain" /\ worker'.work = worker.work
          /\ UNCHANGED <<requests, faults>>
      <4>1. worker \in Worker
        BY DEF TypeOK
      <4> QED BY <1>15, <2>2, <4>1 DEF PrepareSample, FrameDone, Worker
    <3> QED BY <1>15, <3>1 DEF PrepareSample, NoStarvation
  <2> QED BY <2>1, <2>2
<1> QED
  BY <1>1, <1>2, <1>3, <1>5, <1>6, <1>7, <1>8, <1>9, <1>10, <1>11, <1>12, <1>13,
     <1>14, <1>15
     DEF Next, Pipeline, WorkQueueThread, Drain, Finished, vars, ReplaceMediaType,
         KeepFirstSample, LockFails, RunEOSTask

(* What is in flight: a start adds one and is one more start; the operation that *)
(* ends a request's sample asks again, and no other does.                       *)

\* Operations and starts are counted by naturals.
LEMMA CountTypes ==
  ASSUME TypeOK
  PROVE  Count(workQueue, Asking) \in Nat /\ Starts \in Nat /\ Begun \in Nat
  BY CountFinite DEF TypeOK, Starts, Begun

\* An operation counts if it asks for a sample.
LEMMA WorkCounted ==
  ASSUME TypeOK, NEW op \in DataOps \cup ClockOps, NEW n \in Nat,
         QueueAsyncOperation(op, n)
  PROVE  Count(workQueue', Asking) =
           IF op \in {"Start", "ProcessSample"}
             THEN Count(workQueue, Asking) + 1
             ELSE Count(workQueue, Asking)
<1> DEFINE work == [op |-> op, id |-> n]
<1>1. work \in Work /\ work.op = op
  BY DEF Work
<1>2. work \in Asking <=> op \in {"Start", "ProcessSample"}
  BY <1>1 DEF Asking, AsksForMore
<1>3. workQueue \in Seq(Work) /\ workQueue' = Append(workQueue, work)
  BY DEF TypeOK, QueueAsyncOperation
<1> HIDE DEF work
<1> QED BY <1>1, <1>2, <1>3, CountAppended

\* A clock call counts if it is a start.
LEMMA CallCounted ==
  ASSUME TypeOK, NEW type \in {"Started", "Stopped"}, calls' = Append(calls, type)
  PROVE  Starts' = IF type = "Started" THEN Starts + 1 ELSE Starts
<1>1. calls \in Seq({"Started", "Stopped"})
  BY DEF TypeOK
<1> QED BY <1>1, CountAppended DEF Starts

LEMMA PerStartStep == TypeOK /\ OneSamplePerStart /\ [Next]_vars => OneSamplePerStart'
<1> SUFFICES ASSUME TypeOK, OneSamplePerStart, [Next]_vars PROVE OneSamplePerStart'
  OBVIOUS
<1>t. /\ requests \in Nat
      /\ Count(workQueue, Asking) \in Nat /\ Starts \in Nat /\ Begun \in Nat
  BY CountTypes DEF TypeOK
<1>i. requests + Count(workQueue, Asking) + Begun <= Starts
  BY DEF OneSamplePerStart
<1>q. ASSUME requests' + Count(workQueue', Asking) + Begun' <= Starts'
      PROVE  OneSamplePerStart'
  BY <1>q DEF OneSamplePerStart
<1>1. ASSUME UNCHANGED <<requests, worker, workQueue, calls>>
      PROVE  OneSamplePerStart'
  BY <1>1 DEF OneSamplePerStart, Starts, Begun
<1>2. ASSUME NEW op \in {"SetMediaType", "PlaceMarker"}, NEW n \in Nat,
             QueueAsyncOperation(op, n), UNCHANGED <<requests, worker, calls>>
      PROVE  OneSamplePerStart'
  <2>1. Count(workQueue', Asking) = Count(workQueue, Asking)
    BY <1>2, WorkCounted DEF DataOps
  <2>2. Starts' = Starts /\ Begun' = Begun
    BY <1>2 DEF Starts, Begun
  <2> QED BY <1>2, <1>i, <1>q, <2>1, <2>2
<1>3. lastItem + 1 \in Nat /\ Len(calls) + 1 \in Nat
  BY DEF TypeOK
<1>4. ASSUME NEW t \in MediaTypes, ProcessFormatChange(t) PROVE OneSamplePerStart'
  BY <1>2, <1>3, <1>4 DEF ProcessFormatChange, Enqueue
<1>5. ASSUME NEW kind \in MarkerKinds, PlaceMarker(kind) PROVE OneSamplePerStart'
  BY <1>2, <1>3, <1>5 DEF PlaceMarker, Enqueue
<1>6. ASSUME NEW kind \in SampleKinds, ProcessSample(kind) PROVE OneSamplePerStart'
  <2>1. /\ QueueAsyncOperation("ProcessSample", lastItem + 1)
        /\ requests > 0 /\ requests' = requests - 1
        /\ UNCHANGED <<worker, calls>>
    BY <1>6 DEF ProcessSample, Requested, Enqueue
  <2>2. Count(workQueue', Asking) = Count(workQueue, Asking) + 1
    BY <1>3, <2>1, WorkCounted DEF DataOps
  <2>3. Starts' = Starts /\ Begun' = Begun
    BY <2>1 DEF Starts, Begun
  <2> QED BY <1>t, <1>i, <1>q, <2>1, <2>2, <2>3
<1>7. ASSUME OnClockStart PROVE OneSamplePerStart'
  <2>1. /\ QueueAsyncOperation("Start", Len(calls) + 1)
        /\ calls' = Append(calls, "Started")
        /\ UNCHANGED <<requests, worker>>
    BY <1>7 DEF OnClockStart, Start
  <2>2. Count(workQueue', Asking) = Count(workQueue, Asking) + 1
    BY <1>3, <2>1, WorkCounted DEF ClockOps
  <2>3. Starts' = Starts + 1
    BY <2>1, CallCounted
  <2>4. Begun' = Begun
    BY <2>1 DEF Begun
  <2> QED BY <1>t, <1>i, <1>q, <2>1, <2>2, <2>3, <2>4
<1>8. ASSUME OnClockStop PROVE OneSamplePerStart'
  <2>1. /\ QueueAsyncOperation("Stop", Len(calls) + 1)
        /\ calls' = Append(calls, "Stopped")
        /\ UNCHANGED <<requests, worker>>
    BY <1>8 DEF OnClockStop, Stop
  <2>2. Count(workQueue', Asking) = Count(workQueue, Asking)
    <3>1. "Stop" \in DataOps \cup ClockOps /\ "Stop" \notin {"Start", "ProcessSample"}
      BY DEF ClockOps
    <3> QED BY <1>3, <2>1, <3>1, WorkCounted
  <2>3. Starts' = Starts
    BY <2>1, CallCounted
  <2>4. Begun' = Begun
    BY <2>1 DEF Begun
  <2> QED BY <1>t, <1>i, <1>q, <2>1, <2>2, <2>3, <2>4
<1>9. ASSUME Flush PROVE OneSamplePerStart'
  <2>1. /\ worker'.work.op = "Flush"
        /\ UNCHANGED <<requests, workQueue, calls>>
    BY <1>9, IdleFacts DEF Flush, FlushWork
  <2>2. Starts' = Starts /\ Begun' = 0
    BY <2>1 DEF Starts, Begun, AsksForMore
  <2> QED BY <1>t, <1>i, <1>q, <2>1, <2>2
<1>10. ASSUME Dispatch \/ DispatchAfterShutdown PROVE OneSamplePerStart'
  <2>1. /\ workQueue # <<>> /\ workQueue' = Tail(workQueue)
        /\ worker.pc = "idle"
        /\ \/ worker' = worker
           \/ worker'.pc = "drain" /\ worker'.work = Head(workQueue)
        /\ UNCHANGED <<requests, calls>>
    BY <1>10, IdleFacts DEF Dispatch, DispatchAfterShutdown, StreamLockFree
  <2>2. workQueue \in Seq(Work) /\ Head(workQueue) \in Work
    BY <2>1 DEF TypeOK
  <2>3. Head(workQueue) \in Asking <=> AsksForMore(Head(workQueue))
    BY <2>2 DEF Asking
  <2>4. /\ Count(workQueue, Asking)
             = Count(workQueue', Asking)
                + (IF Head(workQueue) \in Asking THEN 1 ELSE 0)
        /\ Count(workQueue', Asking) \in Nat
    <3>1. Tail(workQueue) \in Seq(Work)
      BY <2>1, <2>2
    <3> QED BY <2>1, <2>2, <3>1, CountTail, CountFinite
  <2>5. Begun = 0 /\ Begun' \in {0, IF Head(workQueue) \in Asking THEN 1 ELSE 0}
    BY <2>1, <2>3 DEF Begun
  <2>6. Starts' = Starts
    BY <2>1 DEF Starts
  <2> QED BY <1>t, <1>i, <1>q, <2>1, <2>4, <2>5, <2>6
<1>11. ASSUME DrainItem PROVE OneSamplePerStart'
  <2>1. /\ worker.pc = "drain" /\ worker'.pc # "idle" /\ worker'.work = worker.work
        /\ UNCHANGED <<requests, workQueue, calls>>
    BY <1>11, ItemTaken DEF DrainItem
  <2>2. Starts' = Starts /\ Begun' = Begun
    BY <2>1 DEF Starts, Begun
  <2> QED BY <1>i, <1>q, <2>1, <2>2
<1>12. ASSUME NEW b \in BOOLEAN, EndDrain(b), worker.pc # "idle",
              UNCHANGED <<workQueue, calls>>
       PROVE  OneSamplePerStart'
  <2>1. Begun' = 0 /\ Starts' = Starts
    BY <1>12, DrainEnded DEF Starts, Begun
  <2>2. requests' <= requests + Begun
    BY <1>t, <1>12 DEF EndDrain, Begun
  <2>3. requests' \in Nat
    BY <1>t, <1>12 DEF EndDrain
  <2> QED BY <1>t, <1>i, <1>q, <1>12, <2>1, <2>2, <2>3
<1>13. ASSUME QueueDrained \/ LockFails PROVE OneSamplePerStart'
  BY <1>12, <1>13 DEF QueueDrained, LockFails, BufferFails
<1>14. ASSUME PrepareSample PROVE OneSamplePerStart'
  <2>1. worker.pc # "idle" /\ UNCHANGED <<workQueue, calls>>
    BY <1>14 DEF PrepareSample
  <2>2. CASE EndDrain(FALSE)
    BY <1>12, <2>1, <2>2
  <2>3. CASE ~EndDrain(FALSE)
    <3>1. worker'.pc = "drain" /\ worker'.work = worker.work /\ requests' = requests
      BY <1>14, <2>3, FrameFacts DEF PrepareSample
    <3>2. Begun' = Begun /\ Starts' = Starts
      BY <2>1, <3>1 DEF Starts, Begun
    <3> QED BY <1>i, <1>q, <2>1, <3>1, <3>2
  <2> QED BY <2>2, <2>3
<1> QED
  BY <1>1, <1>4, <1>5, <1>6, <1>7, <1>8, <1>9, <1>10, <1>11, <1>13, <1>14
     DEF Next, Pipeline, WorkQueueThread, Drain, Finished, vars, SetFirstMediaType,
         ReplaceMediaType, KeepFirstSample, Shutdown, RunEOSTask

\* A clock call is recorded behind the others.
LEMMA CallAppended ==
  ASSUME TypeOK, NEW type \in {"Started", "Stopped"}, calls' = Append(calls, type)
  PROVE  /\ Len(calls') = Len(calls) + 1
         /\ \A n \in DOMAIN calls : n \in DOMAIN calls' /\ calls'[n] = calls[n]
         /\ \A n \in DOMAIN calls' : n \in DOMAIN calls \/ n = Len(calls) + 1
         /\ Len(calls) + 1 \in DOMAIN calls' /\ calls'[Len(calls) + 1] = type
         /\ \A n \in DOMAIN calls : n \in Nat /\ n < Len(calls) + 1
         /\ Len(calls) \in Nat
<1>1. calls \in Seq({"Started", "Stopped"})
  BY DEF TypeOK
<1> QED BY <1>1

(* The new operation announces the new call. *)
LEMMA ClockCallStep ==
  ASSUME TypeOK, ClockInv, worker.pc = "idle",
         NEW op \in ClockOps, QueueAsyncOperation(op, Len(calls) + 1),
         calls' = Append(calls, IF op = "Start" THEN "Started" ELSE "Stopped"),
         UNCHANGED <<isShutdown, worker, events>>
  PROVE  ClockInv'
<1> DEFINE n == Len(calls) + 1
<1>1. /\ Len(calls') = n
      /\ \A m \in DOMAIN calls : m \in DOMAIN calls' /\ calls'[m] = calls[m]
      /\ \A m \in DOMAIN calls' : m \in DOMAIN calls \/ m = n
      /\ n \in DOMAIN calls'
      /\ calls'[n] = IF op = "Start" THEN "Started" ELSE "Stopped"
      /\ \A m \in DOMAIN calls : m \in Nat /\ m < n
      /\ Len(calls) \in Nat /\ n \in Nat /\ Len(calls) < n
  BY CallAppended
<1>2. /\ \A w \in DOMAIN workQueue : /\ w \in DOMAIN workQueue'
                                     /\ workQueue'[w] = workQueue[w]
      /\ \A w \in DOMAIN workQueue' :
           \/ w \in DOMAIN workQueue /\ workQueue'[w] = workQueue[w]
           \/ workQueue'[w].op = op /\ workQueue'[w].id = n
      /\ \A v, w \in DOMAIN workQueue' : v < w => v \in DOMAIN workQueue
      /\ \E w \in DOMAIN workQueue' : workQueue'[w].op = op /\ workQueue'[w].id = n
  BY <1>1, WorkAppended
<1>3. \A e \in DOMAIN events : events[e].id \in Nat
  <2>1. events \in Seq(Event)
    BY DEF TypeOK
  <2>2. \A e \in DOMAIN events : events[e] \in Event
    BY <2>1
  <2> QED BY <2>2 DEF Event
<1> HIDE DEF n
<1>5. \A w \in DOMAIN workQueue' :
        workQueue'[w].op \in ClockOps => Announces(workQueue[w])'
  BY <1>1, <1>2 DEF ClockInv, Announces
<1>6. \A v, w \in DOMAIN workQueue' :
        v < w /\ workQueue'[v].op \in ClockOps /\ workQueue'[w].op \in ClockOps
          => workQueue'[v].id < workQueue'[w].id
  BY <1>1, <1>2 DEF ClockInv, Announces
<1>7. \A e \in DOMAIN events : events[e].type # "Marker" =>
        /\ events[e].id <= n
        /\ \A w \in DOMAIN workQueue' :
             workQueue'[w].op \in ClockOps => events[e].id < workQueue'[w].id
  <2>1. \A e \in DOMAIN events : events[e].type # "Marker" => events[e].id <= Len(calls)
    BY DEF ClockInv
  <2>2. \A e \in DOMAIN events : events[e].type # "Marker" => events[e].id < n
    BY <1>1, <1>3, <2>1
  <2>3. \A e \in DOMAIN events : events[e].type # "Marker" => events[e].id <= n
    BY <1>1, <1>3, <2>2
  <2> QED BY <1>2, <2>2, <2>3 DEF ClockInv
<1>8. ~isShutdown =>
        \A m \in DOMAIN calls' :
          \/ Announced(m)'
          \/ \E w \in DOMAIN workQueue' : ClockWork(workQueue'[w], m)
  <2>1. \A m \in DOMAIN calls : Announced(m) => Announced(m)'
    BY <1>1 DEF Announced
  <2>2. \A m : (\E w \in DOMAIN workQueue : ClockWork(workQueue[w], m))
                 => \E w \in DOMAIN workQueue' : ClockWork(workQueue'[w], m)
    BY <1>2
  <2>3. \E w \in DOMAIN workQueue' : ClockWork(workQueue'[w], n)
    BY <1>2 DEF ClockWork
  <2> QED BY <1>1, <2>1, <2>2, <2>3 DEF ClockInv, ClockEventsFollowCalls
<1>9. ClockEventsFollowCalls'
  BY <1>8 DEF ClockInv, ClockEventsFollowCalls
<1> QED BY <1>1, <1>5, <1>6, <1>7, <1>9 DEF ClockInv

\* An operation that begins leaves the clock calls in order.
LEMMA DispatchClockStep ==
  ASSUME TypeOK, ClockInv, Dispatch PROVE ClockInv'
<1> DEFINE head == Head(workQueue)
<1>1. /\ workQueue # <<>> /\ workQueue' = Tail(workQueue)
      /\ worker.pc = "idle" /\ worker'.pc = "drain" /\ worker'.work = head
      /\ UNCHANGED <<isShutdown, calls>>
  BY IdleFacts DEF Dispatch, StreamLockFree
<1>2. /\ \A w \in DOMAIN workQueue' : /\ w + 1 \in DOMAIN workQueue
                                      /\ workQueue'[w] = workQueue[w + 1]
                                      /\ 1 < w + 1
      /\ \A v, w \in DOMAIN workQueue' : v < w => v + 1 < w + 1
      /\ \A w \in DOMAIN workQueue :
           \/ workQueue[w] = head
           \/ \E k \in DOMAIN workQueue' : workQueue'[k] = workQueue[w]
      /\ 1 \in DOMAIN workQueue /\ head = workQueue[1] /\ head \in Work
  BY <1>1, WorkTaken
<1>3. events' = IF head.op = "Start"
                  THEN Append(events, [type |-> "Started", id |-> head.id])
                  ELSE events
  BY DEF Dispatch
<1>4. head.id \in Nat
  BY <1>2 DEF Work
<1> HIDE DEF head
<1>5. /\ \A w \in DOMAIN workQueue' :
           workQueue'[w].op \in ClockOps => Announces(workQueue[w])'
      /\ \A v, w \in DOMAIN workQueue' :
           v < w /\ workQueue'[v].op \in ClockOps /\ workQueue'[w].op \in ClockOps
             => workQueue'[v].id < workQueue'[w].id
  BY <1>1, <1>2 DEF ClockInv, Announces
<1>6. head.op \in ClockOps =>
        /\ Announces(worker.work)'
        /\ \A w \in DOMAIN workQueue' :
             workQueue'[w].op \in ClockOps => head.id < workQueue'[w].id
  BY <1>1, <1>2 DEF ClockInv, Announces
<1>7. /\ \A e \in DOMAIN events : events[e].type # "Marker" =>
           /\ events[e].id <= Len(calls)
           /\ \A w \in DOMAIN workQueue' :
                workQueue'[w].op \in ClockOps => events[e].id < workQueue'[w].id
           /\ head.op \in ClockOps => events[e].id < head.id
      /\ \A d, e \in DOMAIN events :
           d < e /\ events[d].type # "Marker" /\ events[e].type # "Marker"
             => events[d].id < events[e].id
  BY <1>2 DEF ClockInv, ClockEventsFollowCalls
<1>8. ~isShutdown =>
        \A n \in DOMAIN calls :
          \/ Announced(n)
          \/ \E w \in DOMAIN workQueue' : ClockWork(workQueue'[w], n)
          \/ ClockWork(head, n)
  BY <1>1, <1>2 DEF ClockInv, ClockEventsFollowCalls
<1>9. CASE head.op # "Start"
  <2>1. events' = events /\ \A n : Announced(n)' <=> Announced(n)
    BY <1>1, <1>3, <1>9 DEF Announced
  <2>2. ClockEventsFollowCalls'
    BY <1>1, <1>7, <1>8, <2>1 DEF ClockEventsFollowCalls
  <2>3. \A e \in DOMAIN events' : events'[e].type # "Marker" =>
          /\ events'[e].id <= Len(calls')
          /\ \A w \in DOMAIN workQueue' :
               workQueue'[w].op \in ClockOps => events'[e].id < workQueue'[w].id
          /\ worker'.work.op = "Stop" => events'[e].id < worker'.work.id
    BY <1>1, <1>7, <2>1 DEF ClockOps
  <2> QED BY <1>1, <1>5, <1>6, <1>9, <2>2, <2>3 DEF ClockInv
<1>10. CASE head.op = "Start"
  <2>1. head.op \in ClockOps
    BY <1>10 DEF ClockOps
  <2>2. /\ \A e \in DOMAIN events : e \in DOMAIN events' /\ events'[e] = events[e]
        /\ \A e \in DOMAIN events' :
             \/ e \in DOMAIN events /\ events'[e] = events[e]
             \/ events'[e] = [type |-> "Started", id |-> head.id]
        /\ \A d, e \in DOMAIN events' : d < e => d \in DOMAIN events
        /\ \E e \in DOMAIN events' : events'[e] = [type |-> "Started", id |-> head.id]
    BY <1>3, <1>4, <1>10, EventAppended
  <2>3. \A n : Announced(n) => Announced(n)'
    BY <1>1, <2>2 DEF Announced
  <2>4. Announced(worker.work.id)'
    BY <1>1, <1>6, <1>10, <2>1, <2>2 DEF Announced, Announces
  <2>5. head.id <= Len(calls)
    <3>1. head.id \in DOMAIN calls /\ calls \in Seq({"Started", "Stopped"})
      BY <1>1, <1>6, <2>1 DEF Announces, TypeOK
    <3> QED BY <3>1
  <2>6. \A e \in DOMAIN events' :
          \/ e \in DOMAIN events /\ events'[e] = events[e]
          \/ events'[e].id = head.id
    BY <2>2
  <2>7. \A e \in DOMAIN events' : events'[e].type # "Marker" =>
          /\ events'[e].id <= Len(calls')
          /\ \A w \in DOMAIN workQueue' :
               workQueue'[w].op \in ClockOps => events'[e].id < workQueue'[w].id
    BY <1>1, <1>6, <1>7, <2>1, <2>5, <2>6
  <2>8. \A d, e \in DOMAIN events' :
          d < e /\ events'[d].type # "Marker" /\ events'[e].type # "Marker"
            => events'[d].id < events'[e].id
    <3> SUFFICES ASSUME NEW d \in DOMAIN events', NEW e \in DOMAIN events', d < e,
                        events'[d].type # "Marker", events'[e].type # "Marker"
                 PROVE  events'[d].id < events'[e].id
      OBVIOUS
    <3>1. d \in DOMAIN events /\ events'[d] = events[d]
      BY <2>2
    <3>2. events[d].id < head.id
      BY <1>7, <2>1, <3>1
    <3>3. CASE e \in DOMAIN events /\ events'[e] = events[e]
      BY <1>7, <3>1, <3>3
    <3>4. CASE events'[e].id = head.id
      BY <3>1, <3>2, <3>4
    <3> QED BY <2>6, <3>3, <3>4
  <2>9. ClockEventsFollowCalls'
    <3>1. \A n : ClockWork(head, n) => Announced(n)'
      BY <1>1, <2>4 DEF ClockWork
    <3> QED BY <1>1, <1>8, <2>3, <2>8, <3>1 DEF ClockEventsFollowCalls
  <2> QED BY <1>1, <1>5, <1>6, <1>10, <2>4, <2>7, <2>9 DEF ClockInv
<1> QED BY <1>9, <1>10

(* The end of a drain: a stop is announced now, a start was when it began. *)
LEMMA EndDrainClockStep ==
  ASSUME TypeOK, ClockInv, worker.pc # "idle", NEW b \in BOOLEAN, EndDrain(b),
         UNCHANGED <<isShutdown, workQueue, calls>>
  PROVE  ClockInv'
<1> DEFINE n == worker.work.id
<1>1. /\ worker'.pc = "idle" /\ n \in Nat
      /\ IF worker.work.op = "Stop"
           THEN events' = Append(events, [type |-> "Stopped", id |-> n])
           ELSE events' = events
  BY DrainEnded DEF TypeOK, Worker, Work
<1>2. calls \in Seq({"Started", "Stopped"})
  BY DEF TypeOK
<1> HIDE DEF n
<1>3. /\ \A w \in DOMAIN workQueue' :
           workQueue'[w].op \in ClockOps => Announces(workQueue[w])'
      /\ \A v, w \in DOMAIN workQueue' :
           v < w /\ workQueue'[v].op \in ClockOps /\ workQueue'[w].op \in ClockOps
             => workQueue'[v].id < workQueue'[w].id
  BY DEF ClockInv, Announces
<1>4. CASE worker.work.op # "Stop"
  <2>1. events' = events /\ \A m : Announced(m)' <=> Announced(m)
    BY <1>1, <1>4 DEF Announced
  <2>2. \A m : ClockWork(worker.work, m) => Announced(m)
    BY <1>4 DEF ClockWork, ClockOps, ClockInv
  <2>3. ClockEventsFollowCalls'
    BY <2>1, <2>2 DEF ClockInv, ClockEventsFollowCalls
  <2> QED BY <1>1, <1>3, <2>1, <2>3 DEF ClockInv
<1>5. CASE worker.work.op = "Stop"
  <2>1. /\ n \in DOMAIN calls /\ calls[n] = "Stopped"
        /\ \A w \in DOMAIN workQueue :
             workQueue[w].op \in ClockOps => n < workQueue[w].id
        /\ \A e \in DOMAIN events : events[e].type # "Marker" => events[e].id < n
    BY <1>5 DEF ClockInv, ClockOps, Announces, n
  <2>2. n <= Len(calls)
    BY <1>2, <2>1
  <2>3. /\ \A e \in DOMAIN events : e \in DOMAIN events' /\ events'[e] = events[e]
        /\ \A e \in DOMAIN events' :
             \/ e \in DOMAIN events /\ events'[e] = events[e]
             \/ events'[e] = [type |-> "Stopped", id |-> n]
        /\ \A d, e \in DOMAIN events' : d < e => d \in DOMAIN events
        /\ \E e \in DOMAIN events' : events'[e] = [type |-> "Stopped", id |-> n]
    BY <1>1, <1>5, EventAppended
  <2>4. \A e \in DOMAIN events' :
          \/ e \in DOMAIN events /\ events'[e] = events[e]
          \/ events'[e].id = n
    BY <2>3
  <2>5. \A m : Announced(m) => Announced(m)'
    BY <2>3 DEF Announced
  <2>6. \A m : ClockWork(worker.work, m) => Announced(m)'
    BY <2>1, <2>3 DEF ClockWork, Announced, n
  <2>7. \A e \in DOMAIN events' : events'[e].type # "Marker" =>
          /\ events'[e].id <= Len(calls')
          /\ \A w \in DOMAIN workQueue' :
               workQueue'[w].op \in ClockOps => events'[e].id < workQueue'[w].id
    BY <2>1, <2>2, <2>4 DEF ClockInv
  <2>8. \A d, e \in DOMAIN events' :
          d < e /\ events'[d].type # "Marker" /\ events'[e].type # "Marker"
            => events'[d].id < events'[e].id
    <3> SUFFICES ASSUME NEW d \in DOMAIN events', NEW e \in DOMAIN events', d < e,
                        events'[d].type # "Marker", events'[e].type # "Marker"
                 PROVE  events'[d].id < events'[e].id
      OBVIOUS
    <3>1. d \in DOMAIN events /\ events'[d] = events[d]
      BY <2>3
    <3>2. CASE e \in DOMAIN events /\ events'[e] = events[e]
      BY <3>1, <3>2 DEF ClockInv, ClockEventsFollowCalls
    <3>3. CASE events'[e].id = n
      BY <2>1, <3>1, <3>3
    <3> QED BY <2>4, <3>2, <3>3
  <2>9. ClockEventsFollowCalls'
    BY <2>5, <2>6, <2>8 DEF ClockInv, ClockEventsFollowCalls
  <2> QED BY <1>1, <1>3, <2>7, <2>9 DEF ClockInv
<1> QED BY <1>4, <1>5

\* An item that is taken announces no clock call.
LEMMA DrainItemClockStep ==
  ASSUME TypeOK, ClockInv, DrainItem PROVE ClockInv'
<1>1. /\ worker.pc = "drain" /\ worker'.pc # "idle" /\ worker'.work = worker.work
      /\ UNCHANGED <<isShutdown, workQueue, calls>>
      /\ \/ events' = events
         \/ events' = Append(events, [type |-> "Marker", id |-> sampleQueue[1].id])
  BY ItemTaken
<1>2. /\ \A e \in DOMAIN events : e \in DOMAIN events' /\ events'[e] = events[e]
      /\ \A e \in DOMAIN events' : events'[e].type # "Marker" =>
           e \in DOMAIN events /\ events'[e] = events[e]
  <2>1. CASE events' = events
    BY <2>1
  <2>2. CASE events' = Append(events, [type |-> "Marker", id |-> sampleQueue[1].id])
    <3>1. sampleQueue[1].id \in Nat
      BY ItemTaken DEF Item
    <3> QED BY <2>2, <3>1, EventAppended
  <2> QED BY <1>1, <2>1, <2>2
<1>3. \A n : Announced(n) => Announced(n)'
  BY <1>1, <1>2 DEF Announced
<1>4. ClockEventsFollowCalls'
  BY <1>1, <1>2, <1>3 DEF ClockInv, ClockEventsFollowCalls
<1>5. /\ Announced(worker.work.id) => Announced(worker.work.id)'
      /\ Announces(worker.work) => Announces(worker.work)'
      /\ \A w \in DOMAIN workQueue : Announces(workQueue[w]) => Announces(workQueue[w])'
  BY <1>1, <1>3 DEF Announces
<1> QED BY <1>1, <1>2, <1>4, <1>5 DEF ClockInv

\* Each clock call is announced by the operation queued for it.
LEMMA ClockStep == TypeOK /\ ClockInv /\ [Next]_vars => ClockInv'
<1> SUFFICES ASSUME TypeOK, ClockInv, [Next]_vars PROVE ClockInv'
  OBVIOUS
<1>1. ASSUME UNCHANGED <<isShutdown, workQueue, worker, events, calls>>
      PROVE  ClockInv'
  BY <1>1 DEF ClockInv, ClockEventsFollowCalls, Announces, Announced
<1>2. ASSUME NEW op \in DataOps, NEW n \in Nat, QueueAsyncOperation(op, n),
             UNCHANGED <<isShutdown, worker, events, calls>>
      PROVE  ClockInv'
  <2>1. /\ \A w \in DOMAIN workQueue : /\ w \in DOMAIN workQueue'
                                       /\ workQueue'[w] = workQueue[w]
        /\ \A w \in DOMAIN workQueue' : workQueue'[w].op \in ClockOps =>
             w \in DOMAIN workQueue /\ workQueue'[w] = workQueue[w]
    BY <1>2, WorkAppended DEF DataOps, ClockOps
  <2>2. \A m : Announced(m)' <=> Announced(m)
    BY <1>2 DEF Announced
  <2>3. ClockEventsFollowCalls'
    BY <1>2, <2>1, <2>2 DEF ClockInv, ClockEventsFollowCalls, ClockWork
  <2>4. /\ Announced(worker.work.id) => Announced(worker.work.id)'
        /\ Announces(worker.work) => Announces(worker.work)'
        /\ \A w \in DOMAIN workQueue' :
             workQueue'[w].op \in ClockOps => Announces(workQueue[w])'
    BY <1>2, <2>1, <2>2 DEF Announces, ClockInv
  <2> QED BY <1>2, <2>1, <2>3, <2>4 DEF ClockInv
<1>3. ASSUME NEW kind \in SampleKinds \cup MarkerKinds \cup {"type"},
             NEW op \in DataOps, Accept, Enqueue(kind, op),
             UNCHANGED <<isShutdown, worker, events, calls>>
      PROVE  ClockInv'
  <2>1. lastItem + 1 \in Nat
    BY DEF TypeOK
  <2> QED BY <1>2, <1>3, <2>1 DEF Enqueue
<1>4. ASSUME OnClockStart PROVE ClockInv'
  <2>1. "Start" \in ClockOps /\ worker.pc = "idle"
    BY <1>4 DEF ClockOps, OnClockStart, Start, StreamLockFree
  <2> QED BY <1>4, <2>1, ClockCallStep DEF OnClockStart, Start
<1>5. ASSUME OnClockStop PROVE ClockInv'
  <2>1. "Stop" \in ClockOps /\ worker.pc = "idle"
    BY <1>5 DEF ClockOps, OnClockStop, Stop, StreamLockFree
  <2> QED BY <1>5, <2>1, ClockCallStep DEF OnClockStop, Stop
<1>6. ASSUME Shutdown PROVE ClockInv'
  BY <1>6 DEF Shutdown, ClockInv, ClockEventsFollowCalls, Announces, Announced
<1>7. ASSUME Flush PROVE ClockInv'
  <2>1. /\ worker.pc = "idle" /\ worker'.pc = "drain"
        /\ worker'.work.op \notin ClockOps \cup {"Start", "Stop"}
        /\ UNCHANGED <<isShutdown, workQueue, events, calls>>
    BY <1>7, IdleFacts DEF Flush, StreamLockFree, FlushWork, ClockOps
  <2> QED BY <2>1 DEF ClockInv, ClockEventsFollowCalls, Announces, Announced
<1>8. ASSUME DispatchAfterShutdown PROVE ClockInv'
  <2>1. /\ workQueue # <<>> /\ workQueue' = Tail(workQueue)
        /\ worker.pc = "idle" /\ isShutdown
        /\ UNCHANGED <<isShutdown, worker, events, calls>>
    BY <1>8 DEF DispatchAfterShutdown, StreamLockFree
  <2>2. /\ \A w \in DOMAIN workQueue' : /\ w + 1 \in DOMAIN workQueue
                                        /\ workQueue'[w] = workQueue[w + 1]
        /\ \A v, w \in DOMAIN workQueue' : v < w => v + 1 < w + 1
    BY <2>1, WorkTaken
  <2>3. ClockEventsFollowCalls'
    BY <2>1 DEF ClockInv, ClockEventsFollowCalls
  <2> QED BY <2>1, <2>2, <2>3 DEF ClockInv, Announces
<1>9. ASSUME QueueDrained \/ LockFails PROVE ClockInv'
  BY <1>9, EndDrainClockStep DEF QueueDrained, LockFails, BufferFails
<1>10. ASSUME PrepareSample PROVE ClockInv'
  <2>1. worker.pc = "prepare" /\ UNCHANGED <<isShutdown, workQueue, calls>>
    BY <1>10 DEF PrepareSample
  <2>2. CASE EndDrain(FALSE)
    BY <2>1, <2>2, EndDrainClockStep
  <2>3. CASE /\ worker'.pc = "drain" /\ worker'.work = worker.work
             /\ events' = events
    BY <2>1, <2>3 DEF ClockInv, ClockEventsFollowCalls, Announces, Announced
  <2> QED BY <1>10, <2>2, <2>3, FrameFacts DEF PrepareSample
<1> QED
  BY <1>1, <1>3, <1>4, <1>5, <1>6, <1>7, <1>8, <1>9, <1>10, DispatchClockStep,
     DrainItemClockStep
     DEF Next, Pipeline, WorkQueueThread, Drain, Finished, vars, SetFirstMediaType,
         ReplaceMediaType, ProcessFormatChange, KeepFirstSample, ProcessSample,
         PlaceMarker, RunEOSTask, DataOps

-----------------------------------------------------------------------------
\* The stream as constructed satisfies the invariant.
LEMMA InitIInv == Init => IInv
<1> SUFFICES ASSUME Init PROVE IInv
  OBVIOUS
<1>1. /\ worker.pc = "idle" /\ state = "TypeNotSet" /\ currentType = NoType
      /\ isShutdown = FALSE
      /\ sampleQueue = <<>> /\ workQueue = <<>> /\ events = <<>> /\ calls = <<>>
      /\ delivered = <<>>
  BY IdleFacts DEF Init
<1>2. TypeOK
  BY InitTypeOK
<1>3. ShutdownInv /\ NoStarvation
  BY <1>1 DEF ShutdownInv, NoStarvation
<1>4. OrderInv /\ DeliveredInv /\ MarkerInv
  BY <1>1 DEF OrderInv, DeliveredInv, DeliveredInOrder, MarkerInv, InHand
<1>5. WorkInv
  BY <1>1 DEF WorkInv, EveryItemHasWork
<1>6. ClockInv
  BY <1>1 DEF ClockInv, ClockEventsFollowCalls
<1>7. OneSamplePerStart
  <2>1. Count(workQueue, Asking) = 0 /\ Starts = 0 /\ requests = 0
    BY <1>1, CountEmpty DEF Init, Starts
  <2> QED BY <1>1, <2>1 DEF OneSamplePerStart, Begun
<1> QED BY <1>2, <1>3, <1>4, <1>5, <1>6, <1>7 DEF IInv

(* The strengthening of the safety invariants is inductive: it holds in every  *)
(* state of every behaviour of the stream.                                      *)
THEOREM Invariance == Spec => []IInv
<1>1. IInv /\ [Next]_vars => IInv'
  BY StepTypeOK, ShutdownStep, OrderStep, DeliveredStep, MarkerStep, WorkStep,
     StarvationStep, PerStartStep, ClockStep DEF IInv
<1> QED BY <1>1, InitIInv, PTL DEF Spec

(* Frames reach the media sink in the order in which the pipeline delivered     *)
(* them and none twice, for any number of samples, flushes, stops and faults.   *)
THEOREM FramesInOrder == Spec => []DeliveredInOrder
<1>1. IInv => DeliveredInOrder
  BY DEF IInv, DeliveredInv
<1> QED BY <1>1, Invariance, PTL

(* PlaceMarker's contract: when a marker's event is out, every sample queued    *)
(* before the marker has left the queue and the hands of the thread.            *)
THEOREM MarkersFollowSamples == Spec => []MarkerAfterSamples
<1>1. IInv => MarkerAfterSamples
  <2> SUFFICES ASSUME IInv, NEW e \in DOMAIN events, events[e].type = "Marker"
               PROVE  /\ \A i \in DOMAIN sampleQueue : sampleQueue[i].id > events[e].id
                      /\ worker.pc \in {"prepare", "call"} =>
                           worker.item.id > events[e].id
    BY DEF MarkerAfterSamples
  <2>1. events \in Seq(Event) /\ sampleQueue \in Seq(Item) /\ worker \in Worker
    BY DEF IInv, TypeOK
  <2>2. /\ events[e] \in Event
        /\ \A i \in DOMAIN sampleQueue : sampleQueue[i] \in Item
    BY <2>1
  <2>3. /\ events[e].id \in Nat /\ worker.item.id \in Nat
        /\ \A i \in DOMAIN sampleQueue : sampleQueue[i].id \in Nat
    BY <2>1, <2>2 DEF Event, Item, Worker
  <2>4. /\ \A i \in DOMAIN sampleQueue : events[e].id < sampleQueue[i].id
        /\ worker.pc \in {"prepare", "call"} => events[e].id < worker.item.id
    BY DEF IInv, MarkerInv, InHand
  <2> QED BY <2>3, <2>4
<1> QED BY <1>1, Invariance, PTL

(* No sample, marker or format change is ever left in the queue without an      *)
(* operation that will take it out.                                             *)
THEOREM NothingStranded == Spec => []EveryItemHasWork
<1>1. IInv => EveryItemHasWork
  BY DEF IInv, WorkInv
<1> QED BY <1>1, Invariance, PTL

(* While the stream is started and no buffer has failed, a sample has been      *)
(* requested or an operation that will request one is on its way.               *)
THEOREM PullLoopAlive == Spec => []NoStarvation
<1>1. IInv => NoStarvation
  BY DEF IInv
<1> QED BY <1>1, Invariance, PTL

(* Each start brings one sample into flight and nothing adds another, so that    *)
(* the queue of samples, which has no limit of its own, stays as short.          *)
THEOREM QueueStaysShort == Spec => []OneSamplePerStart
<1>1. IInv => OneSamplePerStart
  BY DEF IInv
<1> QED BY <1>1, Invariance, PTL

(* Start and stop events come in the order of the clock's calls, once each, and *)
(* none is forgotten before a shutdown.                                         *)
THEOREM ClockAnswered == Spec => []ClockEventsFollowCalls
<1>1. IInv => ClockEventsFollowCalls
  BY DEF IInv, ClockInv
<1> QED BY <1>1, Invariance, PTL

(* Once shut down, the stream queues no event, asks for no sample and hands no  *)
(* frame to the media sink, whatever its work queue still holds.                *)
THEOREM ShutdownIsQuiet == Spec => QuietAfterShutdown
<1>1. IInv /\ [Next]_vars =>
        [isShutdown => UNCHANGED <<events, requests, delivered, sampleQueue>>]_vars
  <2> SUFFICES ASSUME ShutdownInv, Next, isShutdown
               PROVE  UNCHANGED <<events, requests, delivered, sampleQueue>>
    BY DEF IInv
  <2>1. worker.pc = "idle"
    BY DEF ShutdownInv
  <2>2. ~Drain /\ ~Dispatch
    BY <2>1 DEF Drain, DrainItem, QueueDrained, LockFails, PrepareSample, Dispatch
  <2>3. ASSUME Pipeline PROVE UNCHANGED <<events, requests, delivered, sampleQueue>>
    BY <2>3 DEF Pipeline, SetFirstMediaType, ReplaceMediaType, ProcessFormatChange,
                KeepFirstSample, ProcessSample, PlaceMarker, Accept, Flush,
                OnClockStart, OnClockStop, Shutdown
  <2> QED
    BY <2>2, <2>3 DEF Next, WorkQueueThread, DispatchAfterShutdown, RunEOSTask,
                      Finished, vars
<1> QED BY <1>1, Invariance, PTL DEF Spec, QuietAfterShutdown
=============================================================================
