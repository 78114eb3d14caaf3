-------------------------- MODULE HandlerPoolProofs --------------------------
(***************************************************************************)
(* Theorems about HandlerPool, for every size of the pool, every set of    *)
(* sessions and kinds of packets and every bound.                          *)
(***************************************************************************)
EXTENDS HandlerPool, SequenceTheorems, FiniteSetTheorems, TLAPS

(* A thread that runs a handler.                                           *)
BusyLabels == {"acquire", "hold", "reply"}
Busy(i) == pc[i] \in BusyLabels

(* A connection is in use when a thread holds it.                          *)
Holding == {i \in Threads : pc[i] = "hold"}
ConnInv == inUse = Cardinality(Holding)

(* A thread has a manager to call while it acquires or holds a connection. *)
LeftInv == \A i \in Threads : pc[i] \in {"acquire", "hold"} => left[i] > 0

(* While the network is up, all the threads of the pool run.               *)
PhaseInv ==
  /\ phase = "boot" => poolSize = 0 /\ \A i \in Threads : pc[i] = "off"
  /\ phase \in {"ready", "up"} /\ poolSize > 0 => \A i \in Threads : pc[i] # "off"

(* Ids are given once, in the order of the packets.                        *)
IdInv ==
  /\ \A t \in posted : t.id <= received
  /\ \A t, q \in posted : t.id = q.id => t = q
  /\ \A n \in done : n <= received

(* What a thread has in its hands is pending.                              *)
TaskInv ==
  \A i \in Threads :
    /\ Busy(i) => task[i] \in Pending
    /\ ~ Busy(i) => task[i] = NoTask
    /\ \A k \in DOMAIN queue[i] : queue[i][k] \in Pending

(* No task is in two places.                                               *)
PlaceInv ==
  /\ \A i, j \in Threads : Busy(i) /\ Busy(j) /\ task[i] = task[j] => i = j
  /\ \A i, j \in Threads : \A k \in DOMAIN queue[j] : Busy(i) => task[i] # queue[j][k]
  /\ \A i, j \in Threads : \A k \in DOMAIN queue[i], l \in DOMAIN queue[j] :
       queue[i][k] = queue[j][l] => i = j /\ k = l

(* A task came on a session that was connected, and a handler runs only    *)
(* for a task that it was found for.                                       *)
ServedInv ==
  /\ \A t \in posted : t.session \in accepted
  /\ \A i \in Threads : Busy(i) => Dispatched(task[i])

IInv ==
  /\ TypeOK /\ ConnInv /\ LeftInv /\ PhaseInv
  /\ IdInv /\ TaskInv /\ PlaceInv /\ TaskOwned

-----------------------------------------------------------------------------
(* Facts about the operators of HandlerPool.                               *)

(* The threads are a finite set of max_conn_count elements.                *)
LEMMA ThreadsFinite ==
  IsFiniteSet(Threads) /\ Cardinality(Threads) = max_conn_count
  BY PoolAssumption, FS_Interval, 0 \in Int, max_conn_count - 1 \in Int DEF Threads

(* NoTask is not a task.                                                   *)
LEMMA NoTaskIsNone == NoTask \notin Tasks
  <1> SUFFICES ASSUME NoTask \in Tasks PROVE FALSE
    OBVIOUS
  <1>1. NoTask.id \in 1 .. MaxPackets
    BY DEF Tasks
  <1> QED BY <1>1, PoolBoundsAssumption DEF NoTask

(* GetNextThread picks a thread of the pool.                               *)
LEMMA NextThreadInPool ==
  ASSUME TypeOK, poolSize > 0
  PROVE  NextThread \in Threads
  <1>1. poolSize = max_conn_count /\ poolSize \in Nat /\ nextSeq \in Nat
    BY PoolAssumption, SeqAssumption DEF TypeOK
  <1>2. nextSeq % poolSize \in 0 .. poolSize - 1
    BY <1>1, Z3
  <1> QED BY <1>1, <1>2 DEF NextThread, Threads

(* A handler makes a natural number of calls.                              *)
LEMMA ScopesNat ==
  ASSUME NEW kind, NEW n \in Scopes(kind)
  PROVE  n \in Nat
  BY DEF Scopes

-----------------------------------------------------------------------------
(* Type correctness is preserved.                                          *)

(* PostDataToDbHandler keeps the types.                                    *)
LEMMA TypeOfPost ==
  ASSUME TypeOK, NEW t \in Tasks, poolSize > 0, PostDataToDbHandler(t),
         received' \in 0 .. MaxPackets, UNCHANGED <<open, accepted>>
  PROVE  TypeOK'
  <1>1. NextThread \in Threads
    BY NextThreadInPool
  <1> DEFINE n == NextThread
  <1>2. queue[n] \in Seq(Tasks) /\ dealt[n] \in Nat
    BY <1>1 DEF TypeOK
  <1> HIDE DEF n
  <1>3. Append(queue[n], t) \in Seq(Tasks)
    BY <1>2, AppendProperties
  <1>4. queue' \in [Threads -> Seq(Tasks)]
    <2>1. queue' = [queue EXCEPT ![n] = Append(queue[n], t)]
      BY DEF PostDataToDbHandler, n
    <2> QED BY <2>1, <1>3 DEF TypeOK
  <1>6. dealt' \in [Threads -> Nat]
    <2>1. dealt' = [dealt EXCEPT ![n] = dealt[n] + 1] /\ dealt[n] + 1 \in Nat
      BY <1>2 DEF PostDataToDbHandler, n
    <2> QED BY <2>1 DEF TypeOK
  <1>5. NextSeq \in 0 .. SEQ - 1
    <2>1. nextSeq + 1 \in Nat /\ SEQ \in Nat /\ SEQ > 0
      BY SeqAssumption DEF TypeOK
    <2>2. (nextSeq + 1) % SEQ \in 0 .. SEQ - 1
      BY <2>1, Z3
    <2> QED BY <2>2 DEF NextSeq, TypeOK
  <1> QED BY <1>4, <1>5, <1>6 DEF TypeOK, PostDataToDbHandler

(* OnDataReceived keeps the types, whichever way it treats the packet.     *)
LEMMA TypeOfReceive ==
  ASSUME TypeOK, NEW s \in Sessions, OnDataReceived(s)
  PROVE  TypeOK'
  <1> DEFINE echo(k) ==
        /\ k = "HEARTBEAT"
        /\ sent' = [sent EXCEPT ![s] = Append(@, [id |-> received', by |-> Reactor])]
        /\ UNCHANGED <<server, workers, posted, done, dealt>>
  <1>0. received' \in 1 .. MaxPackets /\ UNCHANGED <<open, accepted>>
    BY PoolBoundsAssumption DEF OnDataReceived, TypeOK
  <1>1. received' \in 0 .. MaxPackets /\ UNCHANGED <<open, accepted>>
    BY <1>0
  <1>2. PICK kind \in Kinds, valid \in BOOLEAN :
         \/ echo(kind)
         \/ UNCHANGED <<server, workers, history>>
         \/ /\ poolSize > 0
            /\ PostDataToDbHandler([id |-> received', session |-> s, kind |-> kind,
                                    valid |-> valid])
         \/ /\ phase' = "crashed"
            /\ UNCHANGED <<poolSize, nextSeq, workers, history>>
    BY DEF OnDataReceived
  <1>3. CASE echo(kind)
    <2>1. sent[s] \in Seq([id : 1 .. MaxPackets, by : Threads \cup {Reactor}])
      BY DEF TypeOK
    <2> DEFINE x == [id |-> received', by |-> Reactor]
    <2>2. x \in [id : 1 .. MaxPackets, by : Threads \cup {Reactor}]
      BY <1>0
    <2> HIDE DEF x
    <2>3. Append(sent[s], x) \in Seq([id : 1 .. MaxPackets, by : Threads \cup {Reactor}])
      BY <2>1, <2>2, AppendProperties
    <2>4. sent' \in [Sessions -> Seq([id : 1 .. MaxPackets, by : Threads \cup {Reactor}])]
      BY <1>3, <2>3 DEF TypeOK, x
    <2> QED BY <1>1, <1>3, <2>4 DEF TypeOK, server, workers
  <1>4. CASE UNCHANGED <<server, workers, history>>
    BY <1>1, <1>4 DEF TypeOK, server, workers, history
  <1>5. CASE /\ poolSize > 0
             /\ PostDataToDbHandler([id |-> received', session |-> s, kind |-> kind,
                                     valid |-> valid])
    <2>1. [id |-> received', session |-> s, kind |-> kind, valid |-> valid] \in Tasks
      BY <1>0 DEF Tasks
    <2> QED BY <1>1, <1>5, <2>1, TypeOfPost
  <1>6. CASE /\ phase' = "crashed"
             /\ UNCHANGED <<poolSize, nextSeq, workers, history>>
    BY <1>1, <1>6 DEF TypeOK, workers, history, Phases
  <1> QED BY <1>2, <1>3, <1>4, <1>5, <1>6

(* A handler thread's steps keep the types, given that no connection is    *)
(* returned that was not taken.                                            *)
LEMMA TypeOfWork ==
  ASSUME TypeOK, LeftInv, TaskInv, inUse' \in Nat, NEW i \in Threads, Work(i)
  PROVE  TypeOK'
  <1>1. /\ queue[i] \in Seq(Tasks) /\ task[i] \in Tasks \cup {NoTask}
        /\ left[i] \in Nat /\ pc \in [Threads -> Labels] /\ inUse \in Nat
    BY DEF TypeOK
  <1>2. CASE OnMessageDataHandler(i)
    <2>1. Head(queue[i]) \in Tasks /\ Tail(queue[i]) \in Seq(Tasks)
      BY <1>1, <1>2, HeadTailProperties DEF OnMessageDataHandler
    <2>2. queue' \in [Threads -> Seq(Tasks)]
      BY <1>2, <2>1 DEF OnMessageDataHandler, TypeOK
    <2>3. CASE Dispatched(Head(queue[i]))
      <3>1. PICK n \in Scopes(Head(queue[i]).kind) :
              /\ task' = [task EXCEPT ![i] = Head(queue[i])]
              /\ left' = [left EXCEPT ![i] = n]
              /\ pc' = [pc EXCEPT ![i] = IF n = 0 THEN "reply" ELSE "acquire"]
              /\ UNCHANGED done
        BY <1>2, <2>3 DEF OnMessageDataHandler
      <3>2. n \in Nat
        BY ScopesNat
      <3>3. /\ task' \in [Threads -> Tasks \cup {NoTask}]
            /\ left' \in [Threads -> Nat]
            /\ pc' \in [Threads -> Labels]
        BY <2>1, <3>1, <3>2 DEF TypeOK, Labels
      <3> QED BY <1>2, <2>2, <3>1, <3>3 DEF OnMessageDataHandler, TypeOK, server
    <2>4. CASE ~ Dispatched(Head(queue[i]))
      <3>1. Head(queue[i]).id \in 1 .. MaxPackets
        BY <2>1 DEF Tasks
      <3> QED BY <1>2, <2>2, <2>4, <3>1 DEF OnMessageDataHandler, TypeOK, server
    <2> QED BY <2>3, <2>4
  <1>3. CASE Acquire(i)
    BY <1>3 DEF Acquire, TypeOK, server, history, Labels
  <1>4. CASE Release(i)
    <2>1. left[i] - 1 \in Nat
      BY <1>1, <1>4 DEF Release, LeftInv
    <2>2. left' \in [Threads -> Nat]
      BY <1>4, <2>1 DEF Release, TypeOK
    <2>3. pc' \in [Threads -> Labels]
      BY <1>4 DEF Release, TypeOK, Labels
    <2> QED BY <1>4, <2>2, <2>3 DEF Release, TypeOK, server, history
  <1>5. CASE SendSessionData(i)
    <2>1. task[i] \in Tasks
      BY <1>5 DEF SendSessionData, TaskInv, Busy, BusyLabels, Pending, TypeOK
    <2>2. task[i].id \in 1 .. MaxPackets /\ task[i].session \in Sessions
      BY <2>1 DEF Tasks
    <2> DEFINE x == [id |-> task[i].id, by |-> i]
               R == [id : 1 .. MaxPackets, by : Threads \cup {Reactor}]
    <2>3. x \in R
      BY <2>2
    <2>4. sent[task[i].session] \in Seq(R)
      BY <2>2 DEF TypeOK
    <2>5. Append(sent[task[i].session], x) \in Seq(R)
      <3> HIDE DEF x, R
      <3> QED BY <2>3, <2>4, AppendProperties
    <2>6. sent' \in [Sessions -> Seq(R)]
      <3> HIDE DEF R
      <3>1. sent \in [Sessions -> Seq(R)]
        BY DEF TypeOK, R
      <3> QED BY <1>5, <2>5, <3>1 DEF SendSessionData
    <2>7. task' \in [Threads -> Tasks \cup {NoTask}] /\ pc' \in [Threads -> Labels]
      BY <1>5 DEF SendSessionData, TypeOK, Labels
    <2> QED BY <1>5, <2>2, <2>6, <2>7 DEF SendSessionData, TypeOK, server
  <1> QED BY <1>2, <1>3, <1>4, <1>5 DEF Work

-----------------------------------------------------------------------------
(* The connections in use are counted.                                     *)

(* The threads that hold a connection are finitely many.                   *)
LEMMA HoldingFinite ==
  IsFiniteSet(Holding) /\ Cardinality(Holding) \in Nat
  <1>1. Holding \in SUBSET Threads
    BY DEF Holding
  <1> QED BY <1>1, ThreadsFinite, FS_Subset, FS_CardinalityType

(* Acquire and Release count the connections the threads hold; other steps *)
(* of a thread leave both alone.                                           *)
LEMMA ConnOfWork ==
  ASSUME TypeOK, ConnInv, NEW i \in Threads, Work(i)
  PROVE  ConnInv' /\ inUse' \in Nat
  <1>0. IsFiniteSet(Holding) /\ Cardinality(Holding) \in Nat /\ pc \in [Threads -> Labels]
    BY HoldingFinite DEF TypeOK
  <1>1. ASSUME pc[i] # "hold", pc'[i] # "hold", UNCHANGED inUse,
               \A j \in Threads \ {i} : pc'[j] = pc[j]
        PROVE  ConnInv' /\ inUse' \in Nat
    <2>1. Holding' = Holding
      BY <1>1 DEF Holding
    <2> QED BY <1>0, <1>1, <2>1 DEF ConnInv
  <1>2. CASE OnMessageDataHandler(i)
    <2>1. pc[i] = "idle" /\ UNCHANGED inUse
      BY <1>2 DEF OnMessageDataHandler
    <2>2. \/ UNCHANGED pc
          \/ pc' = [pc EXCEPT ![i] = "reply"]
          \/ pc' = [pc EXCEPT ![i] = "acquire"]
      BY <1>2 DEF OnMessageDataHandler
    <2>3. pc'[i] # "hold" /\ \A j \in Threads \ {i} : pc'[j] = pc[j]
      BY <1>0, <2>1, <2>2
    <2> QED BY <1>1, <2>1, <2>3
  <1>3. CASE Acquire(i)
    <2>1. Holding' = Holding \cup {i} /\ i \notin Holding /\ inUse' = inUse + 1
      BY <1>0, <1>3 DEF Acquire, Holding
    <2>2. Cardinality(Holding') = Cardinality(Holding) + 1
      BY <1>0, <2>1, FS_AddElement
    <2> QED BY <1>0, <2>1, <2>2 DEF ConnInv
  <1>4. CASE Release(i)
    <2>1. Holding' = Holding \ {i} /\ i \in Holding /\ inUse' = inUse - 1
      BY <1>0, <1>4 DEF Release, Holding
    <2>2. Cardinality(Holding') = Cardinality(Holding) - 1 /\ IsFiniteSet(Holding')
      BY <1>0, <2>1, FS_RemoveElement
    <2>3. Cardinality(Holding') \in Nat
      BY <2>2, FS_CardinalityType
    <2> QED BY <1>0, <2>1, <2>2, <2>3 DEF ConnInv
  <1>5. CASE SendSessionData(i)
    <2>1. /\ pc[i] # "hold" /\ pc'[i] # "hold" /\ UNCHANGED inUse
          /\ \A j \in Threads \ {i} : pc'[j] = pc[j]
      BY <1>0, <1>5 DEF SendSessionData
    <2> QED BY <1>1, <2>1
  <1> QED BY <1>2, <1>3, <1>4, <1>5 DEF Work

(* There is a thread for each connection, so one that acquires finds one.  *)
LEMMA FreeConnection ==
  ASSUME TypeOK, ConnInv
  PROVE  ConnAvailable
  <1> SUFFICES ASSUME NEW i \in Threads, pc[i] = "acquire"
               PROVE  inUse < max_conn_count
    BY DEF ConnAvailable
  <1>1. i \notin Holding /\ Holding \cup {i} \in SUBSET Threads
    BY DEF Holding
  <1>2. Cardinality(Holding \cup {i}) = Cardinality(Holding) + 1
    BY <1>1, HoldingFinite, FS_AddElement
  <1>3. Cardinality(Holding \cup {i}) <= max_conn_count
    BY <1>1, ThreadsFinite, FS_Subset
  <1> QED BY <1>2, <1>3, HoldingFinite, PoolAssumption DEF ConnInv

-----------------------------------------------------------------------------
(* Tasks: each is in one place until it is done.                           *)

TasksInv == IdInv /\ TaskInv /\ PlaceInv /\ TaskOwned

(* Steps that touch neither tasks nor threads.                             *)
LEMMA QuietTasks ==
  ASSUME TypeOK, TasksInv, UNCHANGED <<queue, task, posted, done, pc>>,
         received' \in Nat, received <= received'
  PROVE  TasksInv'
  <1>1. IdInv'
    <2>1. received \in Nat /\ \A t \in posted : t.id \in Nat
      BY PoolBoundsAssumption DEF TypeOK, Tasks
    <2>2. \A n \in done : n \in Nat
      BY DEF TypeOK
    <2>3. \A n \in Nat : n <= received => n <= received'
      BY <2>1
    <2> QED BY <2>1, <2>2, <2>3 DEF TasksInv, IdInv
  <1>2. TaskInv' /\ PlaceInv' /\ TaskOwned'
    BY DEF TasksInv, TaskInv, PlaceInv, TaskOwned, Busy, Pending, Holds
  <1> QED BY <1>1, <1>2 DEF TasksInv

(* Finishing a task takes that one from the pending ones.                  *)
LEMMA FinishOne ==
  ASSUME IdInv, NEW t \in posted, UNCHANGED posted, done' = done \cup {t.id}
  PROVE  Pending' = Pending \ {t}
  BY DEF IdInv, Pending

(* A posted task has a fresh id, is pending, and is in the queue of one    *)
(* thread.                                                                 *)
LEMMA PostTasks ==
  ASSUME TypeOK, PhaseInv, TasksInv, phase = "up", poolSize > 0,
         NEW t \in Tasks, t.id = received + 1, received' = received + 1,
         PostDataToDbHandler(t)
  PROVE  TasksInv'
  <1> DEFINE n == NextThread
             q == queue[n]
  <1>1. n \in Threads /\ pc[n] # "off"
    BY NextThreadInPool DEF PhaseInv
  <1>2. /\ queue \in [Threads -> Seq(Tasks)]
        /\ queue' = [queue EXCEPT ![n] = Append(q, t)]
        /\ posted' = posted \cup {t}
        /\ UNCHANGED <<pc, task, done>>
    BY DEF PostDataToDbHandler, TypeOK
  <1> HIDE DEF n
  <1>3. q \in Seq(Tasks) /\ Len(q) \in Nat /\ DOMAIN q = 1 .. Len(q)
    BY <1>1, <1>2, LenProperties
  <1>4. /\ DOMAIN Append(q, t) = 1 .. Len(q) + 1
        /\ \A k \in 1 .. Len(q) : Append(q, t)[k] = q[k]
        /\ Append(q, t)[Len(q) + 1] = t
    <2> HIDE DEF q
    <2>1. Append(q, t) \in Seq(Tasks) /\ Len(Append(q, t)) = Len(q) + 1
      BY <1>3, AppendProperties
    <2> QED BY <1>3, <2>1, AppendProperties, LenProperties
  <1>5. ASSUME NEW j \in Threads, NEW k \in DOMAIN queue'[j]
        PROVE  \/ k \in DOMAIN queue[j] /\ queue'[j][k] = queue[j][k]
               \/ j = n /\ k = Len(q) + 1 /\ queue'[j][k] = t
    BY <1>2, <1>3, <1>4
  <1>6. ASSUME NEW j \in Threads, NEW k \in DOMAIN queue[j]
        PROVE  k \in DOMAIN queue'[j] /\ queue'[j][k] = queue[j][k]
    BY <1>2, <1>3, <1>4
  <1>7. Len(q) + 1 \in DOMAIN queue'[n] /\ queue'[n][Len(q) + 1] = t
    BY <1>1, <1>2, <1>3, <1>4
  <1> HIDE DEF q
  <1>8. received \in Nat /\ (\A p \in posted : p.id \in Nat) /\ (\A m \in done : m \in Nat)
    BY PoolBoundsAssumption DEF TypeOK, Tasks
  <1>9. t \notin posted /\ t.id \notin done /\ \A p \in posted : p.id # t.id
    BY <1>8 DEF TasksInv, IdInv
  <1>10. IdInv'
    <2>1. \A m \in Nat : m <= received => m <= received'
      BY <1>8
    <2>2. t.id <= received'
      BY <1>8
    <2> QED BY <1>2, <1>8, <1>9, <2>1, <2>2 DEF TasksInv, IdInv
  <1>11. Pending' = Pending \cup {t} /\ t \notin Pending
    BY <1>2, <1>9 DEF Pending
  <1>12. TaskInv'
    BY <1>2, <1>5, <1>11 DEF TasksInv, TaskInv, Busy
  <1>13. PlaceInv'
    <2>1. \A i, j \in Threads : Busy(i)' /\ Busy(j)' /\ task'[i] = task'[j] => i = j
      BY <1>2 DEF TasksInv, PlaceInv, Busy
    <2>2. \A i, j \in Threads : \A k \in DOMAIN queue'[j] : Busy(i)' => task'[i] # queue'[j][k]
      BY <1>2, <1>5, <1>11 DEF TasksInv, PlaceInv, TaskInv, Busy
    <2>3. ASSUME NEW i \in Threads, NEW j \in Threads,
                 NEW k \in DOMAIN queue'[i], NEW l \in DOMAIN queue'[j],
                 queue'[i][k] = queue'[j][l]
          PROVE  i = j /\ k = l
      <3>1. CASE k \in DOMAIN queue[i] /\ queue'[i][k] = queue[i][k]
        <4>1. queue[i][k] # t
          BY <1>11, <3>1 DEF TasksInv, TaskInv
        <4>2. l \in DOMAIN queue[j] /\ queue'[j][l] = queue[j][l]
          BY <1>5, <2>3, <3>1, <4>1
        <4>3. queue[i][k] = queue[j][l] /\ k \in DOMAIN queue[i] /\ l \in DOMAIN queue[j]
          BY <2>3, <3>1, <4>2
        <4> QED BY <4>3 DEF TasksInv, PlaceInv
      <3>2. CASE i = n /\ k = Len(q) + 1 /\ queue'[i][k] = t
        <4>1. l \in DOMAIN queue[j] => queue[j][l] # t
          BY <1>11 DEF TasksInv, TaskInv
        <4>2. queue'[j][l] = t
          BY <2>3, <3>2
        <4>3. j = n /\ l = Len(q) + 1
          BY <1>5, <4>1, <4>2
        <4> QED BY <3>2, <4>3
      <3> QED BY <1>5, <3>1, <3>2
    <2> QED BY <2>1, <2>2, <2>3 DEF PlaceInv
  <1>14. TaskOwned'
    <2> SUFFICES ASSUME NEW p \in posted', p.id \notin done'
                 PROVE  \E i \in Threads : pc'[i] # "off" /\ Holds(i, p)'
      BY DEF TaskOwned
    <2>1. CASE p = t
      BY <1>1, <1>2, <1>7, <2>1 DEF Holds
    <2>2. CASE p # t
      <3>1. PICK i \in Threads : pc[i] # "off" /\ Holds(i, p)
        BY <1>2, <2>2 DEF TasksInv, TaskOwned
      <3> QED BY <1>2, <1>6, <3>1 DEF Holds
    <2> QED BY <2>1, <2>2
  <1> QED BY <1>10, <1>12, <1>13, <1>14 DEF TasksInv

(* A thread takes the first task of its queue, or finishes it at once.     *)
LEMMA TakeTasks ==
  ASSUME TypeOK, TasksInv, NEW i \in Threads, OnMessageDataHandler(i)
  PROVE  TasksInv'
  <1> DEFINE q == queue[i]
             t == q[1]
  <1>1. /\ queue \in [Threads -> Seq(Tasks)] /\ pc \in [Threads -> Labels]
        /\ task \in [Threads -> Tasks \cup {NoTask}] /\ q # <<>> /\ q \in Seq(Tasks)
        /\ pc[i] = "idle" /\ queue' = [queue EXCEPT ![i] = Tail(q)]
        /\ UNCHANGED <<posted, received>>
    BY DEF OnMessageDataHandler, TypeOK
  <1>2. /\ Head(q) = t /\ Len(q) \in Nat /\ DOMAIN q = 1 .. Len(q) /\ 1 \in DOMAIN q
        /\ DOMAIN Tail(q) = 1 .. Len(q) - 1
        /\ \A k \in 1 .. Len(q) - 1 : Tail(q)[k] = q[k + 1]
    <2> HIDE DEF q
    <2>1. q \in Seq(Tasks) /\ q # <<>>
      BY <1>1
    <2>2. Len(q) \in Nat /\ DOMAIN q = 1 .. Len(q) /\ Len(q) # 0
      BY <2>1, LenProperties, EmptySeq
    <2>3. Tail(q) \in Seq(Tasks) /\ Len(Tail(q)) = Len(q) - 1
          /\ \A k \in 1 .. Len(Tail(q)) : Tail(q)[k] = q[k + 1]
      BY <2>1, HeadTailProperties
    <2>4. Head(q) = q[1]
      BY <2>1
    <2> QED BY <2>2, <2>3, <2>4, LenProperties
  <1>3. ASSUME NEW k \in DOMAIN queue'[i]
        PROVE  k \in Int /\ k + 1 \in DOMAIN q /\ k + 1 # 1 /\ queue'[i][k] = q[k + 1]
    <2>1. queue'[i] = Tail(q)
      BY <1>1
    <2>2. k \in 1 .. Len(q) - 1
      BY <1>2, <1>3, <2>1
    <2> QED BY <1>2, <2>1, <2>2
  <1>4. \A j \in Threads \ {i} : queue'[j] = queue[j]
    BY <1>1
  <1>5. t \in Pending /\ t \in Tasks /\ task[i] = NoTask
    BY <1>1, <1>2 DEF TasksInv, TaskInv, Busy, BusyLabels, Pending, TypeOK
  <1>6. \A k \in DOMAIN queue'[i] : queue'[i][k] \in Pending \ {t}
    <2> SUFFICES ASSUME NEW k \in DOMAIN queue'[i]
                 PROVE  queue'[i][k] \in Pending \ {t}
      OBVIOUS
    <2>1. q[k + 1] \in Pending /\ q[k + 1] # t
      BY <1>2, <1>3 DEF TasksInv, TaskInv, PlaceInv
    <2> QED BY <1>3, <2>1
  <1>7. \A j \in Threads \ {i} : \A k \in DOMAIN queue'[j] : queue'[j][k] \in Pending \ {t}
    BY <1>2, <1>4 DEF TasksInv, TaskInv, PlaceInv
  <1>8. \A j, h \in Threads : \A k \in DOMAIN queue'[j], l \in DOMAIN queue'[h] :
          queue'[j][k] = queue'[h][l] => j = h /\ k = l
    <2> SUFFICES ASSUME NEW j \in Threads, NEW h \in Threads,
                        NEW k \in DOMAIN queue'[j], NEW l \in DOMAIN queue'[h],
                        queue'[j][k] = queue'[h][l]
                 PROVE  j = h /\ k = l
      OBVIOUS
    <2> DEFINE shift(m, x) == IF m = i THEN x + 1 ELSE x
    <2>1. shift(j, k) \in DOMAIN queue[j] /\ queue'[j][k] = queue[j][shift(j, k)]
      BY <1>3, <1>4
    <2>2. shift(h, l) \in DOMAIN queue[h] /\ queue'[h][l] = queue[h][shift(h, l)]
      BY <1>3, <1>4
    <2>3. j = h /\ shift(j, k) = shift(h, l)
      <3> HIDE DEF shift
      <3>1. queue[j][shift(j, k)] = queue[h][shift(h, l)]
        BY <2>1, <2>2
      <3> QED BY <2>1, <2>2, <3>1 DEF TasksInv, PlaceInv
    <2> QED BY <1>3, <2>3
  <1>9. \A p \in Pending : p # t /\ Holds(i, p) => \E k \in DOMAIN queue'[i] : p = queue'[i][k]
    <2> SUFFICES ASSUME NEW p \in Pending, p # t, Holds(i, p)
                 PROVE  \E k \in DOMAIN queue'[i] : p = queue'[i][k]
      OBVIOUS
    <2>1. p # NoTask
      BY NoTaskIsNone DEF Pending, TypeOK
    <2>2. PICK m \in DOMAIN q : p = q[m]
      BY <1>5, <2>1 DEF Holds
    <2>3. m - 1 \in 1 .. Len(q) - 1 /\ (m - 1) + 1 = m
      BY <1>2, <2>2
    <2>4. m - 1 \in DOMAIN queue'[i] /\ queue'[i][m - 1] = q[m]
      BY <1>1, <1>2, <2>3
    <2> QED BY <2>2, <2>4
  <1>10. CASE Dispatched(t)
    <2>1. PICK n \in Scopes(t.kind) :
            /\ task' = [task EXCEPT ![i] = t]
            /\ pc' = [pc EXCEPT ![i] = IF n = 0 THEN "reply" ELSE "acquire"]
            /\ UNCHANGED done
      BY <1>2, <1>10 DEF OnMessageDataHandler
    <2>2. /\ Pending' = Pending /\ Busy(i)' /\ task'[i] = t
          /\ \A j \in Threads \ {i} : (Busy(j)' <=> Busy(j)) /\ task'[j] = task[j]
      BY <1>1, <2>1 DEF Pending, Busy, BusyLabels
    <2>3. \A j \in Threads \ {i} : Busy(j) => task[j] # t
      BY <1>2 DEF TasksInv, PlaceInv
    <2>4. TaskInv'
      BY <1>5, <1>6, <1>7, <2>2 DEF TasksInv, TaskInv
    <2>5. \A j, h \in Threads : Busy(j)' /\ Busy(h)' /\ task'[j] = task'[h] => j = h
      BY <2>2, <2>3 DEF TasksInv, PlaceInv
    <2>6. \A j, h \in Threads : \A k \in DOMAIN queue'[h] : Busy(j)' => task'[j] # queue'[h][k]
      <3>1. \A h \in Threads : \A k \in DOMAIN queue'[h] : queue'[h][k] # t
        BY <1>6, <1>7
      <3>2. ASSUME NEW j \in Threads \ {i}, NEW h \in Threads, NEW k \in DOMAIN queue'[h], Busy(j)
            PROVE  task[j] # queue'[h][k]
        BY <1>3, <1>4, <3>2 DEF TasksInv, PlaceInv
      <3> QED BY <2>2, <3>1, <3>2
    <2>7. TaskOwned'
      <3> SUFFICES ASSUME NEW p \in posted, p.id \notin done
                   PROVE  \E j \in Threads : pc'[j] # "off" /\ Holds(j, p)'
        BY <1>1, <2>1 DEF TaskOwned
      <3>1. pc'[i] # "off" /\ \A j \in Threads \ {i} : pc'[j] = pc[j]
        BY <1>1, <2>1
      <3>2. CASE p = t
        BY <2>2, <3>1, <3>2 DEF Holds
      <3>3. CASE p # t
        <4>1. PICK j \in Threads : pc[j] # "off" /\ Holds(j, p)
          BY DEF TasksInv, TaskOwned
        <4>2. CASE j = i
          BY <1>9, <3>1, <3>3, <4>1, <4>2 DEF Holds, Pending
        <4>3. CASE j # i
          BY <1>4, <2>2, <3>1, <4>1, <4>3 DEF Holds
        <4> QED BY <4>2, <4>3
      <3> QED BY <3>2, <3>3
    <2>8. IdInv' /\ PlaceInv'
      BY <1>1, <1>8, <2>1, <2>5, <2>6 DEF TasksInv, IdInv, PlaceInv
    <2> QED BY <2>4, <2>7, <2>8 DEF TasksInv
  <1>11. CASE ~ Dispatched(t)
    <2>1. done' = done \cup {t.id} /\ UNCHANGED <<task, pc>>
      BY <1>2, <1>11 DEF OnMessageDataHandler
    <2>2. Pending' = Pending \ {t} /\ t \in posted
      BY <1>1, <1>5, <2>1, FinishOne DEF TasksInv, Pending
    <2>3. \A j \in Threads : Busy(j)' <=> Busy(j)
      BY <2>1 DEF Busy
    <2>4. \A j \in Threads : Busy(j) => task[j] # t
      BY <1>2 DEF TasksInv, PlaceInv
    <2>5. TaskInv'
      BY <1>6, <1>7, <2>1, <2>2, <2>3, <2>4 DEF TasksInv, TaskInv
    <2>6. \A j, h \in Threads : \A k \in DOMAIN queue'[h] : Busy(j) => task[j] # queue'[h][k]
      BY <1>3, <1>4 DEF TasksInv, PlaceInv
    <2>7. TaskOwned'
      <3> SUFFICES ASSUME NEW p \in Pending, p # t
                   PROVE  \E j \in Threads : pc[j] # "off" /\ Holds(j, p)'
        BY <1>1, <2>1, <2>2 DEF TaskOwned, Pending
      <3>1. PICK j \in Threads : pc[j] # "off" /\ Holds(j, p)
        BY DEF TasksInv, TaskOwned, Pending
      <3>2. CASE j = i
        BY <1>9, <3>1, <3>2 DEF Holds
      <3>3. CASE j # i
        BY <1>4, <2>1, <3>1, <3>3 DEF Holds
      <3> QED BY <3>2, <3>3
    <2>8. PlaceInv'
      BY <1>8, <2>1, <2>3, <2>6 DEF TasksInv, PlaceInv
    <2>9. IdInv'
      BY <1>1, <2>1, <2>2 DEF TasksInv, IdInv
    <2> QED BY <2>5, <2>7, <2>8, <2>9 DEF TasksInv
  <1> QED BY <1>10, <1>11

(* A thread answers its task and is idle again.                            *)
LEMMA SendTasks ==
  ASSUME TypeOK, TasksInv, NEW i \in Threads, SendSessionData(i)
  PROVE  TasksInv' /\ Pending' = Pending \ {task[i]} /\ task[i] \in Pending
  <1>1. /\ pc \in [Threads -> Labels] /\ task \in [Threads -> Tasks \cup {NoTask}]
        /\ pc' = [pc EXCEPT ![i] = "idle"] /\ task' = [task EXCEPT ![i] = NoTask]
        /\ done' = done \cup {task[i].id} /\ UNCHANGED <<queue, posted, received>>
    BY DEF SendSessionData, TypeOK
  <1>2. Busy(i) /\ task[i] \in Pending
    BY DEF SendSessionData, Busy, BusyLabels, TasksInv, TaskInv
  <1>3. Pending' = Pending \ {task[i]} /\ task[i] \in posted
    BY <1>1, <1>2, FinishOne DEF TasksInv, Pending
  <1>4. /\ ~ Busy(i)' /\ task'[i] = NoTask /\ pc'[i] # "off"
        /\ \A j \in Threads \ {i} : (Busy(j)' <=> Busy(j)) /\ task'[j] = task[j] /\ pc'[j] = pc[j]
    BY <1>1 DEF Busy, BusyLabels
  <1>5. IdInv'
    BY <1>1, <1>3 DEF TasksInv, IdInv
  <1>6. TaskInv'
    <2>1. \A j \in Threads \ {i} : Busy(j) => task[j] \in Pending'
      BY <1>2, <1>3 DEF TasksInv, TaskInv, PlaceInv
    <2>2. \A j \in Threads : \A k \in DOMAIN queue[j] : queue[j][k] \in Pending'
      BY <1>2, <1>3 DEF TasksInv, TaskInv, PlaceInv
    <2> QED BY <1>1, <1>4, <2>1, <2>2 DEF TasksInv, TaskInv
  <1>7. PlaceInv'
    BY <1>1, <1>4 DEF TasksInv, PlaceInv
  <1>8. TaskOwned'
    <2> SUFFICES ASSUME NEW p \in Pending, p # task[i]
                 PROVE  \E j \in Threads : pc'[j] # "off" /\ Holds(j, p)'
      BY <1>1, <1>3 DEF TaskOwned, Pending
    <2>1. PICK j \in Threads : pc[j] # "off" /\ Holds(j, p)
      BY DEF TasksInv, TaskOwned, Pending
    <2>2. CASE j = i
      BY <1>1, <1>4, <2>1, <2>2 DEF Holds
    <2>3. CASE j # i
      BY <1>1, <1>4, <2>1, <2>3 DEF Holds
    <2> QED BY <2>2, <2>3
  <1> QED BY <1>2, <1>3, <1>5, <1>6, <1>7, <1>8 DEF TasksInv

(* Taking or giving back a connection moves no task.                       *)
LEMMA ConnTasks ==
  ASSUME TypeOK, TasksInv, NEW i \in Threads, Acquire(i) \/ Release(i)
  PROVE  TasksInv'
  <1>1. UNCHANGED <<queue, task, posted, done, received>>
    BY DEF Acquire, Release, history
  <1>2. \A j \in Threads : (Busy(j)' <=> Busy(j)) /\ (pc'[j] # "off" <=> pc[j] # "off")
    <2>1. pc \in [Threads -> Labels] /\ pc[i] \in {"acquire", "hold"}
      BY DEF Acquire, Release, TypeOK
    <2>2. \E l \in BusyLabels : pc' = [pc EXCEPT ![i] = l]
      BY DEF Acquire, Release, BusyLabels
    <2> QED BY <2>1, <2>2 DEF Busy, BusyLabels
  <1>3. IdInv' /\ TaskInv'
    BY <1>1, <1>2 DEF TasksInv, IdInv, TaskInv, Pending
  <1>4. PlaceInv' /\ TaskOwned'
    BY <1>1, <1>2 DEF TasksInv, PlaceInv, TaskOwned, Holds
  <1> QED BY <1>3, <1>4 DEF TasksInv

(* A thread that stops has nothing left.                                   *)
LEMMA StopTasks ==
  ASSUME TypeOK, TasksInv, NEW i \in Threads, StopThread(i)
  PROVE  TasksInv'
  <1>1. /\ UNCHANGED <<queue, task, posted, done, received>>
        /\ pc[i] = "idle" /\ queue[i] = <<>> /\ pc' = [pc EXCEPT ![i] = "off"]
        /\ pc \in [Threads -> Labels]
    BY DEF StopThread, history, TypeOK
  <1>2. \A j \in Threads : (Busy(j)' <=> Busy(j)) /\ (j # i => pc'[j] = pc[j])
    BY <1>1 DEF Busy, BusyLabels
  <1>3. IdInv' /\ TaskInv'
    BY <1>1, <1>2 DEF TasksInv, IdInv, TaskInv, Pending
  <1>4. PlaceInv'
    BY <1>1, <1>2 DEF TasksInv, PlaceInv
  <1>5. TaskOwned'
    <2> SUFFICES ASSUME NEW p \in posted, p.id \notin done
                 PROVE  \E j \in Threads : pc'[j] # "off" /\ Holds(j, p)
      BY <1>1 DEF TaskOwned, Holds
    <2>1. PICK j \in Threads : pc[j] # "off" /\ Holds(j, p)
      BY DEF TasksInv, TaskOwned
    <2>2. ~ Holds(i, p)
      <3>1. task[i] = NoTask /\ p # NoTask
        BY <1>1, NoTaskIsNone DEF TasksInv, TaskInv, Busy, BusyLabels, TypeOK
      <3>2. DOMAIN queue[i] = {}
        BY <1>1
      <3> QED BY <3>1, <3>2 DEF Holds
    <2> QED BY <1>2, <2>1, <2>2
  <1> QED BY <1>3, <1>4, <1>5 DEF TasksInv

(* The threads start with nothing to do.                                   *)
LEMMA StartTasks ==
  ASSUME TypeOK, TasksInv, PhaseInv, RunThreads
  PROVE  TasksInv'
  <1>1. UNCHANGED <<queue, task, posted, done, received>>
    BY DEF RunThreads, history
  <1>2. CASE UNCHANGED pc
    <2>1. received' \in Nat /\ received <= received'
      BY <1>1, PoolBoundsAssumption DEF TypeOK
    <2> QED BY <1>1, <1>2, <2>1, QuietTasks
  <1>3. CASE pc' = [i \in Threads |-> "idle"] /\ \A i \in Threads : pc[i] = "off"
    <2>1. \A j \in Threads : (Busy(j)' <=> Busy(j)) /\ pc'[j] # "off"
      BY <1>3 DEF Busy, BusyLabels
    <2>2. IdInv' /\ TaskInv'
      BY <1>1, <2>1 DEF TasksInv, IdInv, TaskInv, Pending
    <2>3. PlaceInv' /\ TaskOwned'
      BY <1>1, <2>1 DEF TasksInv, PlaceInv, TaskOwned, Holds
    <2> QED BY <2>2, <2>3 DEF TasksInv
  <1> QED BY <1>2, <1>3 DEF RunThreads, PhaseInv

-----------------------------------------------------------------------------
(* The invariant holds initially and every step preserves it.              *)

(* The invariant holds before Initialize.                                  *)
LEMMA InitInv == Init => IInv
  <1> SUFFICES ASSUME Init PROVE IInv
    OBVIOUS
  <1> USE DEF Init
  <1>1. TypeOK
    <2>1. <<>> \in Seq(Tasks) /\ <<>> \in Seq([id : 1 .. MaxPackets, by : Threads \cup {Reactor}])
      BY EmptySeq
    <2>2. 0 \in 0 .. SEQ - 1 /\ 0 \in 0 .. MaxPackets
      BY SeqAssumption, PoolBoundsAssumption
    <2> QED BY <2>1, <2>2 DEF TypeOK, Phases, Labels
  <1>2. ConnInv
    <2>1. Holding = {}
      BY DEF Holding
    <2> QED BY <2>1, FS_EmptySet DEF ConnInv
  <1>3. LeftInv /\ PhaseInv
    BY DEF LeftInv, PhaseInv
  <1>4. IdInv /\ TaskOwned
    BY DEF IdInv, TaskOwned
  <1>5. TaskInv /\ PlaceInv
    <2>1. \A i \in Threads : DOMAIN queue[i] = {} /\ ~ Busy(i)
      BY DEF Busy, BusyLabels
    <2> QED BY <2>1 DEF TaskInv, PlaceInv
  <1> QED BY <1>1, <1>2, <1>3, <1>4, <1>5 DEF IInv

(* A step of the server's start or stop, or of a client: tasks apart, the  *)
(* threads are left alone.                                                 *)
LEMMA ServerStep ==
  ASSUME IInv, \/ Listen \/ ShutdownNet \/ Shutdown
               \/ \E s \in Sessions : OnNewConnection(s) \/ OnConnectionClosed(s)
  PROVE  IInv'
  <1>1. UNCHANGED <<nextSeq, workers, received, history>>
    BY DEF Listen, ShutdownNet, Shutdown, OnNewConnection, OnConnectionClosed, server
  <1>2. UNCHANGED <<nextSeq, queue, pc, task, left, inUse, received, posted, done, sent, dealt>>
    BY <1>1 DEF workers, history
  <1>3. /\ phase' \in Phases /\ poolSize' \in {0, max_conn_count}
        /\ open' \subseteq accepted' /\ accepted' \subseteq Sessions
    BY DEF IInv, TypeOK, Phases, Listen, ShutdownNet, Shutdown, OnNewConnection,
           OnConnectionClosed, server
  <1>4. TypeOK'
    BY <1>2, <1>3 DEF IInv, TypeOK
  <1>5. ConnInv' /\ LeftInv'
    BY <1>2 DEF IInv, ConnInv, LeftInv, Holding
  <1>6. PhaseInv'
    BY <1>2 DEF IInv, PhaseInv, Listen, ShutdownNet, Shutdown, OnNewConnection,
           OnConnectionClosed, server
  <1>7. TasksInv'
    <2>1. received' \in Nat /\ received <= received'
      BY <1>2, PoolBoundsAssumption DEF IInv, TypeOK
    <2> QED BY <1>2, <2>1, QuietTasks DEF IInv, TasksInv
  <1> QED BY <1>4, <1>5, <1>6, <1>7 DEF IInv, TasksInv

(* OnDataReceived keeps the invariant.                                     *)
LEMMA ReceiveStep ==
  ASSUME IInv, NEW s \in Sessions, OnDataReceived(s)
  PROVE  IInv'
  <1>1. TypeOK'
    BY TypeOfReceive DEF IInv
  <1>2. UNCHANGED <<pc, left, inUse, task>>
    BY DEF OnDataReceived, PostDataToDbHandler, workers
  <1>3. ConnInv' /\ LeftInv'
    BY <1>2 DEF IInv, ConnInv, LeftInv, Holding
  <1>4. PhaseInv'
    BY <1>2 DEF IInv, PhaseInv, OnDataReceived, PostDataToDbHandler, server
  <1>5. phase = "up" /\ received' = received + 1 /\ received \in Nat
    BY PoolBoundsAssumption DEF OnDataReceived, IInv, TypeOK
  <1>6. CASE UNCHANGED <<queue, posted, done>>
    <2>1. received' \in Nat /\ received <= received'
      BY <1>5
    <2>2. TasksInv'
      BY <1>2, <1>6, <2>1, QuietTasks DEF IInv, TasksInv
    <2> QED BY <1>1, <1>3, <1>4, <2>2 DEF IInv, TasksInv
  <1>7. CASE poolSize > 0 /\ \E kind \in Kinds, valid \in BOOLEAN :
               PostDataToDbHandler([id |-> received', session |-> s, kind |-> kind,
                                    valid |-> valid])
    <2>1. PICK kind \in Kinds, valid \in BOOLEAN :
            PostDataToDbHandler([id |-> received', session |-> s, kind |-> kind,
                                 valid |-> valid])
      BY <1>7
    <2> DEFINE t == [id |-> received', session |-> s, kind |-> kind, valid |-> valid]
    <2>2. received' \in 1 .. MaxPackets
      BY <1>5, PoolBoundsAssumption DEF OnDataReceived
    <2>3. t \in Tasks /\ t.id = received + 1
      BY <1>5, <2>2 DEF Tasks
    <2>4. PostDataToDbHandler(t)
      BY <2>1
    <2> HIDE DEF t
    <2>5. TasksInv'
      BY <1>5, <1>7, <2>3, <2>4, PostTasks DEF IInv, TasksInv
    <2> QED BY <1>1, <1>3, <1>4, <2>5 DEF IInv, TasksInv
  <1> QED BY <1>6, <1>7 DEF OnDataReceived, workers, history

(* The steps of a handler thread keep the invariant.                       *)
LEMMA WorkStep ==
  ASSUME IInv, NEW i \in Threads, Work(i)
  PROVE  IInv'
  <1>1. ConnInv' /\ inUse' \in Nat
    BY ConnOfWork DEF IInv
  <1>2. TypeOK'
    BY <1>1, TypeOfWork DEF IInv
  <1>3. UNCHANGED server
    BY DEF Work, OnMessageDataHandler, Acquire, Release, SendSessionData
  <1>4. pc \in [Threads -> Labels] /\ left \in [Threads -> Nat]
    BY DEF IInv, TypeOK
  <1>5. CASE OnMessageDataHandler(i)
    <2>1. \/ UNCHANGED <<pc, left>>
          \/ \E n \in Nat : /\ left' = [left EXCEPT ![i] = n]
                            /\ pc' = [pc EXCEPT ![i] = IF n = 0 THEN "reply" ELSE "acquire"]
      BY <1>5, ScopesNat DEF OnMessageDataHandler
    <2>2. LeftInv'
      BY <1>4, <2>1 DEF IInv, LeftInv
    <2>3. PhaseInv'
      <3>1. \A j \in Threads : pc'[j] = "off" <=> pc[j] = "off"
        BY <1>4, <1>5, <2>1 DEF OnMessageDataHandler
      <3> QED BY <1>3, <3>1 DEF IInv, PhaseInv, server
    <2> QED BY <1>1, <1>2, <1>5, <2>2, <2>3, TakeTasks DEF IInv, TasksInv
  <1>6. CASE Acquire(i) \/ Release(i)
    <2>1. LeftInv'
      <3>1. CASE Acquire(i)
        BY <1>4, <3>1 DEF Acquire, IInv, LeftInv
      <3>2. CASE Release(i)
        <4>1. left'[i] = left[i] - 1 /\ \A j \in Threads \ {i} : left'[j] = left[j] /\ pc'[j] = pc[j]
          BY <1>4, <3>2 DEF Release
        <4>2. pc'[i] = IF left[i] > 1 THEN "acquire" ELSE "reply"
          BY <1>4, <3>2 DEF Release
        <4>3. pc'[i] \in {"acquire", "hold"} => left'[i] > 0
          BY <1>4, <4>1, <4>2
        <4> QED BY <4>1, <4>3 DEF IInv, LeftInv
      <3> QED BY <1>6, <3>1, <3>2
    <2>2. PhaseInv'
      <3>1. \A j \in Threads : pc'[j] = "off" <=> pc[j] = "off"
        BY <1>4, <1>6 DEF Acquire, Release
      <3> QED BY <1>3, <3>1 DEF IInv, PhaseInv, server
    <2> QED BY <1>1, <1>2, <1>6, <2>1, <2>2, ConnTasks DEF IInv, TasksInv
  <1>7. CASE SendSessionData(i)
    <2>1. LeftInv'
      BY <1>4, <1>7 DEF SendSessionData, IInv, LeftInv
    <2>2. PhaseInv'
      <3>1. \A j \in Threads : pc'[j] = "off" <=> pc[j] = "off"
        BY <1>4, <1>7 DEF SendSessionData
      <3> QED BY <1>3, <3>1 DEF IInv, PhaseInv, server
    <2> QED BY <1>1, <1>2, <1>7, <2>1, <2>2, SendTasks DEF IInv, TasksInv
  <1> QED BY <1>5, <1>6, <1>7 DEF Work

(* A thread that stops keeps the invariant.                                *)
LEMMA StopStep ==
  ASSUME IInv, NEW i \in Threads, StopThread(i)
  PROVE  IInv'
  <1>1. /\ UNCHANGED <<server, queue, task, left, inUse, open, accepted, received, history>>
        /\ pc[i] = "idle" /\ pc' = [pc EXCEPT ![i] = "off"] /\ phase \in {"netdown", "failed"}
        /\ pc \in [Threads -> Labels]
    BY DEF StopThread, IInv, TypeOK
  <1>2. TypeOK'
    BY <1>1 DEF IInv, TypeOK, server, history, Labels
  <1>3. ConnInv' /\ LeftInv'
    <2>1. Holding' = Holding
      BY <1>1 DEF Holding
    <2> QED BY <1>1, <2>1 DEF IInv, ConnInv, LeftInv
  <1>4. PhaseInv'
    BY <1>1 DEF IInv, PhaseInv, server
  <1> QED BY <1>2, <1>3, <1>4, StopTasks DEF IInv, TasksInv

(* RunThreads keeps the invariant, whether the threads start or not.       *)
LEMMA StartStep ==
  ASSUME IInv, RunThreads
  PROVE  IInv'
  <1>1. TypeOK'
    BY DEF RunThreads, IInv, TypeOK, history, Labels, Phases
  <1>2. ConnInv' /\ LeftInv'
    <2>1. Holding' = Holding /\ UNCHANGED <<inUse, left>>
      BY DEF RunThreads, Holding, IInv, PhaseInv
    <2> QED BY <2>1 DEF IInv, ConnInv, LeftInv, RunThreads
  <1>3. PhaseInv'
    BY DEF RunThreads, IInv, PhaseInv
  <1> QED BY <1>1, <1>2, <1>3, StartTasks DEF IInv, TasksInv

(* Every step keeps the invariant.                                         *)
LEMMA NextInv == IInv /\ [Next]_vars => IInv'
  <1> SUFFICES ASSUME IInv, [Next]_vars PROVE IInv'
    OBVIOUS
  <1>1. CASE RunThreads
    BY <1>1, StartStep
  <1>2. CASE \/ Listen \/ ShutdownNet \/ Shutdown
             \/ \E s \in Sessions : OnNewConnection(s) \/ OnConnectionClosed(s)
    BY <1>2, ServerStep
  <1>3. CASE \E s \in Sessions : OnDataReceived(s)
    BY <1>3, ReceiveStep
  <1>4. CASE \E i \in Threads : Work(i)
    BY <1>4, WorkStep
  <1>5. CASE \E i \in Threads : StopThread(i)
    BY <1>5, StopStep
  <1>6. CASE UNCHANGED vars
    <2>1. UNCHANGED <<phase, poolSize, nextSeq, queue, pc, task, left, inUse, open, accepted,
                      received, posted, done, sent, dealt>>
      BY <1>6 DEF vars, server, workers, history
    <2>2. TypeOK'
      BY <2>1 DEF IInv, TypeOK
    <2>3. ConnInv' /\ LeftInv' /\ PhaseInv'
      BY <2>1 DEF IInv, ConnInv, LeftInv, PhaseInv, Holding
    <2>4. TasksInv'
      <3>1. received' \in Nat /\ received <= received'
        BY <2>1, PoolBoundsAssumption DEF IInv, TypeOK
      <3> QED BY <2>1, <3>1, QuietTasks DEF IInv, TasksInv
    <2> QED BY <2>2, <2>3, <2>4 DEF IInv, TasksInv
  <1> QED BY <1>1, <1>2, <1>3, <1>4, <1>5, <1>6 DEF Next, Client

-----------------------------------------------------------------------------
(* The theorems.                                                           *)

(* The invariant above is one of the specification.                        *)
THEOREM Inductive == Spec => []IInv
  BY InitInv, NextInv, PTL DEF Spec

(* Every variable of the server, the reactor and the threads keeps its     *)
(* type.                                                                   *)
THEOREM TypeCorrect == Spec => []TypeOK
  <1>1. IInv => TypeOK
    BY DEF IInv
  <1> QED BY <1>1, Inductive, PTL

(* With as many threads as connections and one connection to a manager's   *)
(* method, no handler ever waits for a connection, for any max_conn_count. *)
THEOREM ConnAlwaysAvailable == Spec => []ConnAvailable
  <1>1. IInv => ConnAvailable
    BY FreeConnection DEF IInv
  <1> QED BY <1>1, Inductive, PTL

(* A posted task is finished or in the hands of a running thread, while    *)
(* the server starts, runs and stops.                                      *)
THEOREM TasksAlwaysOwned == Spec => []TaskOwned
  <1>1. IInv => TaskOwned
    BY DEF IInv
  <1> QED BY <1>1, Inductive, PTL

-----------------------------------------------------------------------------
(* The server implements the service.                                      *)

(* A function on 1 .. n is a sequence of length n.                         *)
LEMMA FunctionIsSeq ==
  ASSUME NEW S, NEW n \in Nat, NEW f \in [1 .. n -> S]
  PROVE  f \in Seq(S) /\ Len(f) = n
  <1>1. f \in Seq(S)
    BY SeqDef
  <1>2. Len(f) \in Nat /\ 1 .. Len(f) = 1 .. n
    BY <1>1, LenProperties
  <1> QED BY <1>1, <1>2

(* AnsweredOn lists the ids of the replies.                                *)
LEMMA AnsweredSeq ==
  ASSUME TypeOK, NEW s \in Sessions
  PROVE  AnsweredOn(s) \in Seq(1 .. MaxPackets) /\ Len(AnsweredOn(s)) = Len(sent[s])
  <1> DEFINE R == [id : 1 .. MaxPackets, by : Threads \cup {Reactor}]
  <1>1. sent[s] \in Seq(R)
    BY DEF TypeOK
  <1>2. Len(sent[s]) \in Nat /\ \A k \in 1 .. Len(sent[s]) : sent[s][k] \in R
    <2> HIDE DEF R
    <2> QED BY <1>1, LenProperties, ElementOfSeq
  <1>3. AnsweredOn(s) \in [1 .. Len(sent[s]) -> 1 .. MaxPackets]
    BY <1>2 DEF AnsweredOn
  <1> QED BY <1>2, <1>3, FunctionIsSeq

(* A reply appended to sent is an answer appended to AnsweredOn.           *)
LEMMA AnswerAppended ==
  ASSUME TypeOK, TypeOK', NEW s \in Sessions, NEW n \in 1 .. MaxPackets,
         NEW b \in Threads \cup {Reactor},
         sent' = [sent EXCEPT ![s] = Append(@, [id |-> n, by |-> b])]
  PROVE  [r \in Sessions |-> AnsweredOn(r)]'
           = [[r \in Sessions |-> AnsweredOn(r)] EXCEPT ![s] = Append(@, n)]
  <1> DEFINE R == [id : 1 .. MaxPackets, by : Threads \cup {Reactor}]
             x == [id |-> n, by |-> b]
             A == AnsweredOn(s)
             B == AnsweredOn(s)'
             m == Len(sent[s])
  <1>1. sent \in [Sessions -> Seq(R)] /\ sent[s] \in Seq(R) /\ x \in R
    BY DEF TypeOK
  <1>2. sent'[s] = Append(sent[s], x) /\ \A r \in Sessions \ {s} : sent'[r] = sent[r]
    BY <1>1
  <1>3. /\ m \in Nat /\ Len(sent'[s]) = m + 1
        /\ \A k \in 1 .. m : sent'[s][k] = sent[s][k]
        /\ sent'[s][m + 1] = x
    <2> HIDE DEF R, x
    <2> QED BY <1>1, <1>2, AppendProperties, LenProperties
  <1>4. A \in Seq(1 .. MaxPackets) /\ Len(A) = m
    BY AnsweredSeq
  <1>5. /\ Append(A, n) \in Seq(1 .. MaxPackets) /\ Len(Append(A, n)) = m + 1
        /\ \A k \in 1 .. m : Append(A, n)[k] = A[k]
        /\ Append(A, n)[m + 1] = n
    <2> HIDE DEF A, m
    <2> QED BY <1>4, AppendProperties
  <1>6. B = [k \in 1 .. m + 1 |-> sent'[s][k].id]
    BY <1>3 DEF AnsweredOn
  <1>7. B = Append(A, n)
    <2>1. \A k \in 1 .. m : A[k] = sent[s][k].id
      BY DEF AnsweredOn
    <2>2. \A k \in 1 .. m + 1 : B[k] = Append(A, n)[k]
      <3> HIDE DEF A, B, m
      <3> SUFFICES ASSUME NEW k \in 1 .. m + 1 PROVE B[k] = Append(A, n)[k]
        OBVIOUS
      <3>1. CASE k \in 1 .. m
        BY <1>3, <1>5, <1>6, <2>1, <3>1
      <3>2. CASE k = m + 1
        BY <1>3, <1>5, <1>6, <3>2
      <3>3. k \in 1 .. m \/ k = m + 1
        <4>1. m \in Nat
          BY <1>3
        <4> QED BY <4>1
      <3> QED BY <3>1, <3>2, <3>3
    <2>3. Append(A, n) = [k \in 1 .. m + 1 |-> Append(A, n)[k]]
      <3> HIDE DEF A, m
      <3> QED BY <1>5, LenProperties
    <2> HIDE DEF A, B, m
    <2> QED BY <1>6, <2>2, <2>3
  <1>8. \A r \in Sessions \ {s} : AnsweredOn(r)' = AnsweredOn(r)
    BY <1>2 DEF AnsweredOn
  <1> QED BY <1>7, <1>8

(* An initial state of the server maps to one of the service.              *)
LEMMA ServiceInit == Init => RS!Init
  <1> SUFFICES ASSUME Init PROVE RS!Init
    OBVIOUS
  <1>1. posted = {} /\ Pending = {} /\ accepted \ open = {}
    BY DEF Init, Pending
  <1>2. ASSUME NEW s \in Sessions PROVE AnsweredOn(s) = <<>>
    <2>1. sent[s] = <<>> /\ Len(sent[s]) = 0
      BY DEF Init
    <2>2. TypeOK
      BY InitInv DEF IInv
    <2>3. AnsweredOn(s) \in Seq(1 .. MaxPackets) /\ Len(AnsweredOn(s)) = 0
      BY <2>1, <2>2, AnsweredSeq
    <2> QED BY <2>3, EmptySeq
  <1> QED BY <1>1, <1>2 DEF RS!Init

(* Sessions stay accepted, tasks come on open ones, and a thread starts a  *)
(* handler only when it has found one.                                     *)
LEMMA ServedNext == IInv /\ ServedInv /\ [Next]_vars => ServedInv'
  <1> SUFFICES ASSUME IInv, ServedInv, [Next]_vars PROVE ServedInv'
    OBVIOUS
  <1>0. TypeOK /\ pc \in [Threads -> Labels] /\ open \subseteq accepted
    BY DEF IInv, TypeOK
  <1>1. ASSUME UNCHANGED posted, accepted \subseteq accepted',
               \A i \in Threads : Busy(i)' => Busy(i) /\ task'[i] = task[i]
        PROVE  ServedInv'
    BY <1>1 DEF ServedInv, Dispatched
  <1>2. CASE RunThreads
    <2>1. \A i \in Threads : Busy(i)' => Busy(i)
      BY <1>2 DEF RunThreads, Busy, BusyLabels
    <2> QED BY <1>1, <1>2, <2>1 DEF RunThreads, history
  <1>3. CASE \/ Listen \/ ShutdownNet \/ Shutdown \/ UNCHANGED vars
             \/ \E s \in Sessions : OnNewConnection(s) \/ OnConnectionClosed(s)
    <2>1. UNCHANGED <<pc, task, posted>> /\ accepted \subseteq accepted'
      BY <1>3 DEF Listen, ShutdownNet, Shutdown, OnNewConnection, OnConnectionClosed, vars,
                  workers, history
    <2> QED BY <1>1, <2>1 DEF Busy
  <1>4. ASSUME NEW s \in Sessions, OnDataReceived(s) PROVE ServedInv'
    <2>1. UNCHANGED <<pc, task, accepted>> /\ s \in accepted
      BY <1>0, <1>4 DEF OnDataReceived, PostDataToDbHandler, workers
    <2>2. \A t \in posted' : t \in posted \/ t.session = s
      BY <1>4 DEF OnDataReceived, PostDataToDbHandler, history
    <2> QED BY <2>1, <2>2 DEF ServedInv, Busy, Dispatched
  <1>5. ASSUME NEW i \in Threads, OnMessageDataHandler(i) PROVE ServedInv'
    <2>1. UNCHANGED <<posted, accepted>>
      BY <1>5 DEF OnMessageDataHandler
    <2>2. CASE UNCHANGED <<pc, task>>
      BY <1>1, <2>1, <2>2 DEF Busy
    <2>3. CASE Dispatched(Head(queue[i])) /\ task' = [task EXCEPT ![i] = Head(queue[i])]
               /\ \E l \in Labels : pc' = [pc EXCEPT ![i] = l]
      <3>1. /\ task'[i] = Head(queue[i])
            /\ \A j \in Threads \ {i} : task'[j] = task[j] /\ pc'[j] = pc[j]
        BY <1>0, <2>3 DEF TypeOK
      <3> DEFINE h == Head(queue[i])
      <3>2. task'[i] = h /\ Dispatched(h)
        BY <2>3, <3>1
      <3> HIDE DEF h
      <3> QED BY <2>1, <3>1, <3>2 DEF ServedInv, Busy, Dispatched
    <2> QED BY <1>5, <2>2, <2>3 DEF OnMessageDataHandler, Labels
  <1>6. ASSUME NEW i \in Threads, Acquire(i) \/ Release(i) \/ SendSessionData(i) \/ StopThread(i)
        PROVE  ServedInv'
    <2>1. UNCHANGED <<posted, accepted>>
      BY <1>6 DEF Acquire, Release, SendSessionData, StopThread, history
    <2>2. ASSUME NEW j \in Threads, Busy(j)' PROVE Busy(j) /\ task'[j] = task[j]
      <3>1. CASE Acquire(i) \/ Release(i)
        BY <1>0, <2>2, <3>1 DEF Acquire, Release, Busy, BusyLabels
      <3>2. CASE SendSessionData(i) \/ StopThread(i)
        <4>1. j # i
          BY <1>0, <2>2, <3>2 DEF SendSessionData, StopThread, Busy, BusyLabels
        <4> QED BY <1>0, <2>2, <3>2, <4>1 DEF SendSessionData, StopThread, Busy, TypeOK
      <3> QED BY <1>6, <3>1, <3>2
    <2> QED BY <1>1, <2>1, <2>2
  <1> QED BY <1>2, <1>3, <1>4, <1>5, <1>6 DEF Next, Client, Work

(* A step that posts, finishes and sends nothing and closes no session is  *)
(* invisible.                                                              *)
LEMMA ServiceStutters ==
  ASSUME UNCHANGED <<posted, done, sent>>, UNCHANGED (accepted \ open)
  PROVE  UNCHANGED RS!vars
  <1>1. UNCHANGED Pending /\ \A s \in Sessions : UNCHANGED AnsweredOn(s)
    BY DEF Pending, AnsweredOn
  <1> QED BY <1>1 DEF RS!vars

(* A step of the server is a step of the service, or invisible to it.      *)
LEMMA ServiceNext ==
  IInv /\ IInv' /\ ServedInv /\ [Next]_vars => [RS!Next]_(RS!vars)
  <1> SUFFICES ASSUME IInv, IInv', ServedInv, [Next]_vars PROVE RS!Next \/ UNCHANGED RS!vars
    OBVIOUS
  <1>0. TypeOK /\ TypeOK' /\ TasksInv
    BY DEF IInv, TasksInv
  <1>1. CASE UNCHANGED <<posted, done, sent, accepted, open>>
    BY <1>1, ServiceStutters
  <1>2. ASSUME NEW s \in Sessions, OnDataReceived(s) PROVE RS!Next \/ UNCHANGED RS!vars
    <2>1. /\ received' = received + 1 /\ received \in Nat /\ received' \in 1 .. MaxPackets
          /\ s \notin accepted \ open /\ UNCHANGED (accepted \ open)
      BY <1>0, <1>2, PoolBoundsAssumption DEF OnDataReceived, TypeOK
    <2>2. \A p \in posted : p.id # received'
      <3>1. \A p \in posted : p.id \in Nat /\ p.id <= received
        BY <1>0 DEF TypeOK, Tasks, TasksInv, IdInv
      <3> QED BY <2>1, <3>1
    <2>3. CASE /\ sent' = [sent EXCEPT ![s] = Append(@, [id |-> received', by |-> Reactor])]
               /\ UNCHANGED <<posted, done>>
      <3>1. [r \in Sessions |-> AnsweredOn(r)]'
              = [[r \in Sessions |-> AnsweredOn(r)] EXCEPT ![s] = Append(@, received')]
        BY <1>0, <2>1, <2>3, AnswerAppended
      <3>2. UNCHANGED Pending
        BY <2>3 DEF Pending
      <3>3. RS!Echo(s, received')
        BY <2>1, <2>2, <2>3, <3>1, <3>2 DEF RS!Echo
      <3> QED BY <2>1, <3>3 DEF RS!Next
    <2>4. CASE UNCHANGED <<posted, done, sent>>
      BY <2>1, <2>4, ServiceStutters
    <2>5. CASE \E kind \in Kinds, valid \in BOOLEAN :
                 PostDataToDbHandler([id |-> received', session |-> s, kind |-> kind,
                                      valid |-> valid])
      <3>1. PICK kind \in Kinds, valid \in BOOLEAN :
              PostDataToDbHandler([id |-> received', session |-> s, kind |-> kind,
                                   valid |-> valid])
        BY <2>5
      <3> DEFINE t == [id |-> received', session |-> s, kind |-> kind, valid |-> valid]
      <3>2. t \in Tasks /\ t.id = received' /\ t.session = s
        BY <2>1 DEF Tasks
      <3>3. posted' = posted \cup {t} /\ UNCHANGED <<done, sent>>
        BY <3>1 DEF PostDataToDbHandler
      <3> HIDE DEF t
      <3>4. t.id \notin done
        <4>1. \A n \in done : n \in Nat /\ n <= received
          BY <1>0 DEF TypeOK, TasksInv, IdInv
        <4> QED BY <2>1, <3>2, <4>1
      <3>5. Pending' = Pending \cup {t}
        BY <3>3, <3>4 DEF Pending
      <3>6. UNCHANGED [r \in Sessions |-> AnsweredOn(r)]
        BY <3>3 DEF AnsweredOn
      <3>7. RS!Take(t)
        BY <2>1, <2>2, <3>2, <3>3, <3>5, <3>6 DEF RS!Take
      <3> QED BY <3>2, <3>7 DEF RS!Next
    <2> QED BY <1>2, <2>3, <2>4, <2>5 DEF OnDataReceived, history
  <1>3. ASSUME NEW i \in Threads, OnMessageDataHandler(i) PROVE RS!Next \/ UNCHANGED RS!vars
    <2>1. UNCHANGED <<posted, sent, accepted, open>>
      BY <1>3 DEF OnMessageDataHandler
    <2>2. CASE UNCHANGED done
      BY <2>1, <2>2, ServiceStutters
    <2>3. CASE ~ Dispatched(Head(queue[i])) /\ done' = done \cup {Head(queue[i]).id}
      <3> DEFINE t == Head(queue[i])
      <3>1. t \in Pending
        <4>1. queue[i] \in Seq(Tasks) /\ queue[i] # <<>>
          BY <1>0, <1>3 DEF TypeOK, OnMessageDataHandler
        <4>2. 1 \in DOMAIN queue[i] /\ t = queue[i][1]
          BY <4>1, EmptySeq, LenProperties
        <4> QED BY <1>0, <4>2 DEF TasksInv, TaskInv
      <3>0. t \in Unanswered
        <4>1. t \in Tasks /\ ~ Dispatched(t)
          BY <1>0, <2>3, <3>1 DEF Pending, TypeOK
        <4> HIDE DEF t
        <4> QED BY <4>1 DEF Dispatched, Unanswered, Tasks
      <3> HIDE DEF t
      <3>2. Pending' = Pending \ {t}
        BY <1>0, <2>1, <2>3, <3>1, FinishOne DEF TasksInv, Pending, t
      <3>3. UNCHANGED [r \in Sessions |-> AnsweredOn(r)]
        BY <2>1 DEF AnsweredOn
      <3>4. RS!Drop(t)
        BY <2>1, <3>0, <3>1, <3>2, <3>3 DEF RS!Drop
      <3> QED BY <3>1, <3>4 DEF RS!Next
    <2> QED BY <1>3, <2>2, <2>3 DEF OnMessageDataHandler
  <1>4. ASSUME NEW i \in Threads, SendSessionData(i) PROVE RS!Next \/ UNCHANGED RS!vars
    <2>1. /\ Pending' = Pending \ {task[i]} /\ task[i] \in Pending
          /\ UNCHANGED <<posted, accepted, open>>
      BY <1>0, <1>4, SendTasks DEF SendSessionData
    <2>2. /\ task[i].id \in 1 .. MaxPackets /\ task[i].session \in Sessions
          /\ task[i].session \in accepted
      BY <1>0, <2>1 DEF Pending, TypeOK, Tasks, ServedInv
    <2>3. CASE task[i].session \notin open /\ UNCHANGED sent
      <3>1. UNCHANGED [r \in Sessions |-> AnsweredOn(r)]
        BY <2>3 DEF AnsweredOn
      <3>2. RS!Drop(task[i])
        BY <2>1, <2>2, <2>3, <3>1 DEF RS!Drop
      <3> QED BY <2>1, <3>2 DEF RS!Next
    <2>4. CASE /\ task[i].session \in open
               /\ sent' = [sent EXCEPT ![task[i].session] = Append(@, [id |-> task[i].id, by |-> i])]
      <3>1. [r \in Sessions |-> AnsweredOn(r)]'
              = [[r \in Sessions |-> AnsweredOn(r)] EXCEPT
                    ![task[i].session] = Append(@, task[i].id)]
        BY <1>0, <2>2, <2>4, AnswerAppended
      <3>2. RS!Answer(task[i])
        <4>1. Dispatched(task[i])
          BY <1>4 DEF ServedInv, SendSessionData, Busy, BusyLabels
        <4>2. task[i] \notin Unanswered
          BY <4>1 DEF Dispatched, Unanswered
        <4> QED BY <2>1, <2>4, <3>1, <4>2 DEF RS!Answer
      <3> QED BY <2>1, <3>2 DEF RS!Next
    <2> QED BY <1>4, <2>3, <2>4 DEF SendSessionData
  <1>5. ASSUME NEW ss \in SUBSET open, open' = open \ ss, UNCHANGED <<posted, done, sent, accepted>>
        PROVE  RS!Next
    <2>1. ss \in SUBSET Sessions /\ (accepted \ open)' = (accepted \ open) \cup ss
      BY <1>0, <1>5 DEF TypeOK
    <2>2. UNCHANGED Pending /\ \A s \in Sessions : UNCHANGED AnsweredOn(s)
      BY <1>5 DEF Pending, AnsweredOn
    <2>3. RS!Disconnect(ss)
      BY <1>5, <2>1, <2>2 DEF RS!Disconnect
    <2> QED BY <2>1, <2>3 DEF RS!Next
  <1>6. ASSUME NEW s \in Sessions, OnNewConnection(s) PROVE UNCHANGED RS!vars
    <2>1. UNCHANGED (accepted \ open)
      BY <1>0, <1>6 DEF OnNewConnection, TypeOK
    <2> QED BY <1>6, <2>1, ServiceStutters DEF OnNewConnection, history
  <1>7. CASE ShutdownNet
    BY <1>5, <1>7 DEF ShutdownNet, history
  <1>8. ASSUME NEW s \in Sessions, OnConnectionClosed(s) PROVE RS!Next
    BY <1>5, <1>8 DEF OnConnectionClosed, history
  <1>9. \/ UNCHANGED <<posted, done, sent, accepted, open>>
        \/ ShutdownNet
        \/ \E s \in Sessions : OnDataReceived(s) \/ OnNewConnection(s) \/ OnConnectionClosed(s)
        \/ \E i \in Threads : OnMessageDataHandler(i) \/ SendSessionData(i)
    BY DEF Next, Client, Work, RunThreads, Listen, Shutdown, Acquire, Release, StopThread,
           vars, history
  <1> QED BY <1>1, <1>2, <1>3, <1>4, <1>6, <1>7, <1>8, <1>9

(* The server implements RequestService: however the threads interleave,   *)
(* and whenever it stops, each request is taken once and answered once on  *)
(* its session; only one that cannot be dispatched, or whose session was   *)
(* closed before its reply, is dropped.                                    *)
THEOREM Refines == Spec => ImplementsService
  <1>1. Init => ServedInv
    BY DEF Init, ServedInv, Busy, BusyLabels
  <1> QED BY <1>1, ServedNext, ServiceInit, ServiceNext, Inductive, PTL
            DEF Spec, ImplementsService, RS!Spec

-----------------------------------------------------------------------------
(* The order of the replies of each thread, and how evenly GetNextThread   *)
(* deals out the packets.                                                  *)

(* Whatever a thread has in its hands came after packet n.                 *)
Ahead(i, n) ==
  /\ Busy(i) => n < task[i].id
  /\ \A k \in DOMAIN queue[i] : n < queue[i][k].id

(* A queue is in the order of the packets, a thread's task came before its *)
(* queue, and what it has answered before both.                            *)
QueueOrder ==
  \A i \in Threads : \A k, l \in DOMAIN queue[i] : k < l => queue[i][k].id < queue[i][l].id
TaskFirst ==
  \A i \in Threads : Busy(i) => \A k \in DOMAIN queue[i] : task[i].id < queue[i][k].id
SentBefore ==
  \A s \in Sessions : \A j \in DOMAIN sent[s] :
    /\ sent[s][j].id <= received
    /\ \A i \in Threads : sent[s][j].by = i => Ahead(i, sent[s][j].id)

OrderInv == QueueOrder /\ TaskFirst /\ SentBefore /\ RepliesInOrder

(* How often the sequence number has wrapped, and whether a thread had its *)
(* turn in the round that is under way.                                    *)
Rounds  == Cardinality(posted) \div SEQ
Turn(i) == IF i < nextSeq % max_conn_count THEN 1 ELSE 0

(* The sequence number counts the tasks, and a thread is ahead of another  *)
(* by its turn and one for each wrap.  Of a single thread GetNextThread    *)
(* counts nothing.                                                         *)
BalanceInv ==
  /\ IsFiniteSet(posted)
  /\ max_conn_count > 1 =>
       /\ nextSeq = Cardinality(posted) % SEQ
       /\ \A i, j \in Threads : dealt[i] - dealt[j] <= Rounds + Turn(i) - Turn(j)

-----------------------------------------------------------------------------
(* The order of replies.                                                   *)

(* What is in the hands of threads, or sent, has the number of a packet    *)
(* that was received.                                                      *)
LEMMA InHand ==
  ASSUME IInv
  PROVE  /\ received \in Nat
         /\ \A i \in Threads : Busy(i) => task[i].id \in Nat /\ task[i].id <= received
         /\ \A i \in Threads : \A k \in DOMAIN queue[i] :
              queue[i][k].id \in Nat /\ queue[i][k].id <= received
         /\ \A s \in Sessions : \A j \in DOMAIN sent[s] :
              sent[s][j].id \in Nat /\ sent[s][j].by \in Threads \cup {Reactor}
  <1>1. received \in Nat
    BY PoolBoundsAssumption DEF IInv, TypeOK
  <1>2. \A t \in Pending : t.id \in Nat /\ t.id <= received
    BY DEF IInv, TypeOK, Tasks, Pending, IdInv
  <1>3. ASSUME NEW s \in Sessions, NEW j \in DOMAIN sent[s]
        PROVE  sent[s][j].id \in Nat /\ sent[s][j].by \in Threads \cup {Reactor}
    <2> DEFINE R == [id : 1 .. MaxPackets, by : Threads \cup {Reactor}]
    <2>1. sent[s] \in Seq(R)
      BY DEF IInv, TypeOK
    <2>2. sent[s][j] \in R
      <3> HIDE DEF R
      <3> QED BY <2>1, LenProperties, ElementOfSeq
    <2> QED BY <2>2
  <1> QED BY <1>1, <1>2, <1>3 DEF IInv, TaskInv

(* The answer to packet n by b becomes the m-th reply on session s.        *)
Replied(s, n, b, m) ==
  /\ \A j \in DOMAIN sent[s] : j \in Nat /\ j < m
  /\ \A r \in Sessions : \A j \in DOMAIN sent'[r] :
       \/ j \in DOMAIN sent[r] /\ sent'[r][j] = sent[r][j]
       \/ r = s /\ j = m /\ sent'[r][j].id = n /\ sent'[r][j].by = b

(* A reply is put after those that were sent on its session.               *)
LEMMA SentAppend ==
  ASSUME TypeOK, NEW s \in Sessions, NEW n \in 1 .. MaxPackets,
         NEW b \in Threads \cup {Reactor},
         sent' = [sent EXCEPT ![s] = Append(@, [id |-> n, by |-> b])]
  PROVE  \E m \in Nat : Replied(s, n, b, m)
  <1> DEFINE R == [id : 1 .. MaxPackets, by : Threads \cup {Reactor}]
             x == [id |-> n, by |-> b]
             q == sent[s]
             m == Len(q) + 1
  <1>1. sent \in [Sessions -> Seq(R)] /\ q \in Seq(R) /\ x \in R
    BY DEF TypeOK
  <1>2. sent'[s] = Append(q, x) /\ \A r \in Sessions \ {s} : sent'[r] = sent[r]
    BY <1>1
  <1>3. x.id = n /\ x.by = b
    OBVIOUS
  <1> HIDE DEF R, x, q
  <1>4. /\ Len(q) \in Nat /\ DOMAIN q = 1 .. Len(q)
        /\ Append(q, x) \in Seq(R) /\ Len(Append(q, x)) = m
        /\ \A j \in 1 .. Len(q) : Append(q, x)[j] = q[j]
        /\ Append(q, x)[m] = x
    BY <1>1, AppendProperties, LenProperties
  <1>5. DOMAIN Append(q, x) = 1 .. m
    BY <1>4, LenProperties
  <1>6. m \in Nat /\ \A j \in DOMAIN q : j \in Nat /\ j < m
    BY <1>4
  <1>7. \A j \in 1 .. m : j \in 1 .. Len(q) \/ j = m
    BY <1>4
  <1>8. ASSUME NEW r \in Sessions, NEW j \in DOMAIN sent'[r]
        PROVE  \/ j \in DOMAIN sent[r] /\ sent'[r][j] = sent[r][j]
               \/ r = s /\ j = m /\ sent'[r][j].id = n /\ sent'[r][j].by = b
    <2>1. CASE r # s
      BY <1>2, <2>1
    <2>2. CASE r = s
      <3> HIDE DEF m
      <3> QED BY <1>2, <1>3, <1>4, <1>5, <1>7, <2>2 DEF q
    <2> QED BY <2>1, <2>2
  <1> QED BY <1>6, <1>8 DEF q, Replied

(* Steps that neither post nor take a task, nor send.                      *)
LEMMA QuietOrder ==
  ASSUME IInv, OrderInv, UNCHANGED <<queue, task, sent>>,
         \A i \in Threads : Busy(i)' => Busy(i),
         received' \in Nat, received <= received'
  PROVE  OrderInv'
  <1>1. \A s \in Sessions : \A j \in DOMAIN sent[s] : sent[s][j].id <= received'
    <2>1. \A n \in Nat : n <= received => n <= received'
      BY InHand
    <2> QED BY <2>1, InHand DEF OrderInv, SentBefore
  <1>2. SentBefore'
    BY <1>1 DEF OrderInv, SentBefore, Ahead
  <1>3. QueueOrder' /\ TaskFirst' /\ RepliesInOrder'
    BY DEF OrderInv, QueueOrder, TaskFirst, RepliesInOrder
  <1> QED BY <1>2, <1>3 DEF OrderInv

(* The heartbeat that is echoed is the newest packet.                      *)
LEMMA EchoOrder ==
  ASSUME IInv, OrderInv, NEW s \in Sessions, received' = received + 1,
         received' \in 1 .. MaxPackets,
         sent' = [sent EXCEPT ![s] = Append(@, [id |-> received', by |-> Reactor])],
         UNCHANGED <<queue, task, pc>>
  PROVE  OrderInv'
  <1>n. PICK n \in 1 .. MaxPackets : n = received'
    OBVIOUS
  <1>0. TypeOK /\ received \in Nat /\ n = received + 1 /\ Reactor \notin Threads
    BY <1>n, InHand, PoolAssumption DEF IInv, Reactor, Threads
  <1>1. PICK m \in Nat : Replied(s, n, Reactor, m)
    <2>1. sent' = [sent EXCEPT ![s] = Append(@, [id |-> n, by |-> Reactor])]
      BY <1>n
    <2> QED BY <1>0, <2>1, SentAppend
  <1>2. \A i \in Threads : Busy(i)' <=> Busy(i)
    BY DEF Busy
  <1>3. \A r \in Sessions : \A j \in DOMAIN sent[r] :
          sent[r][j].id \in Nat /\ sent[r][j].id <= received /\ sent[r][j].id < n
    BY <1>0, InHand DEF OrderInv, SentBefore
  <1>4. \A k \in Nat : k <= received => k <= n
    BY <1>0
  <1>5. SentBefore'
    <2>1. ASSUME NEW r \in Sessions, NEW j \in DOMAIN sent'[r]
          PROVE  /\ sent'[r][j].id <= n
                 /\ \A i \in Threads : sent'[r][j].by = i => Ahead(i, sent[r][j].id)'
      <3>1. CASE j \in DOMAIN sent[r] /\ sent'[r][j] = sent[r][j]
        BY <1>2, <1>3, <1>4, <3>1 DEF OrderInv, SentBefore, Ahead
      <3>2. CASE sent'[r][j].id = n /\ sent'[r][j].by = Reactor
        BY <1>0, <3>2
      <3> QED BY <1>1, <3>1, <3>2 DEF Replied
    <2> QED BY <1>n, <2>1 DEF SentBefore
  <1>6. RepliesInOrder'
    <2>1. ASSUME NEW r \in Sessions, NEW j \in DOMAIN sent'[r], NEW k \in DOMAIN sent'[r],
                 j < k, sent'[r][j].by = sent'[r][k].by
          PROVE  sent'[r][j].id < sent'[r][k].id
      <3>1. CASE j \in DOMAIN sent[r] /\ sent'[r][j] = sent[r][j]
        <4>1. CASE k \in DOMAIN sent[r] /\ sent'[r][k] = sent[r][k]
          BY <2>1, <3>1, <4>1 DEF OrderInv, RepliesInOrder
        <4>2. CASE sent'[r][k].id = n
          BY <1>3, <3>1, <4>2
        <4> QED BY <1>1, <4>1, <4>2 DEF Replied
      <3>2. CASE r = s /\ j = m
        <4>1. k # m /\ ~ (k \in DOMAIN sent[r])
          BY <1>1, <2>1, <3>2 DEF Replied
        <4> QED BY <1>1, <4>1 DEF Replied
      <3> QED BY <1>1, <3>1, <3>2 DEF Replied
    <2> QED BY <2>1 DEF RepliesInOrder
  <1>7. QueueOrder' /\ TaskFirst'
    BY <1>2 DEF OrderInv, QueueOrder, TaskFirst
  <1> QED BY <1>5, <1>6, <1>7 DEF OrderInv

(* The task t becomes the m-th of the queue of thread n.                   *)
Queued(n, t, m) ==
  /\ \A k \in DOMAIN queue[n] : k \in Nat /\ k < m
  /\ \A i \in Threads : \A k \in DOMAIN queue'[i] :
       \/ k \in DOMAIN queue[i] /\ queue'[i][k] = queue[i][k]
       \/ i = n /\ k = m /\ queue'[i][k] = t

(* PostDataToDbHandler puts a task at the end of a thread's queue.         *)
LEMMA QueueAppend ==
  ASSUME TypeOK, NEW n \in Threads, NEW t \in Tasks,
         queue' = [queue EXCEPT ![n] = Append(@, t)]
  PROVE  \E m \in Nat : Queued(n, t, m)
  <1> DEFINE q == queue[n]
             m == Len(q) + 1
  <1>1. queue \in [Threads -> Seq(Tasks)] /\ q \in Seq(Tasks)
    BY DEF TypeOK
  <1>2. queue'[n] = Append(q, t) /\ \A i \in Threads \ {n} : queue'[i] = queue[i]
    BY <1>1
  <1> HIDE DEF q
  <1>3. /\ Len(q) \in Nat /\ DOMAIN q = 1 .. Len(q)
        /\ Append(q, t) \in Seq(Tasks) /\ Len(Append(q, t)) = m
        /\ \A k \in 1 .. Len(q) : Append(q, t)[k] = q[k]
        /\ Append(q, t)[m] = t
    BY <1>1, AppendProperties, LenProperties
  <1>4. DOMAIN Append(q, t) = 1 .. m
    BY <1>3, LenProperties
  <1>5. m \in Nat /\ \A k \in DOMAIN q : k \in Nat /\ k < m
    BY <1>3
  <1>6. \A k \in 1 .. m : k \in 1 .. Len(q) \/ k = m
    BY <1>3
  <1>7. ASSUME NEW i \in Threads, NEW k \in DOMAIN queue'[i]
        PROVE  \/ k \in DOMAIN queue[i] /\ queue'[i][k] = queue[i][k]
               \/ i = n /\ k = m /\ queue'[i][k] = t
    <2>1. CASE i # n
      BY <1>2, <2>1
    <2>2. CASE i = n
      <3> HIDE DEF m
      <3> QED BY <1>2, <1>3, <1>4, <1>6, <2>2 DEF q
    <2> QED BY <2>1, <2>2
  <1> QED BY <1>5, <1>7 DEF q, Queued

(* The task that is posted is the newest packet.                           *)
LEMMA PostOrder ==
  ASSUME IInv, OrderInv, poolSize > 0, NEW t \in Tasks, t.id = received + 1,
         received' = received + 1, PostDataToDbHandler(t)
  PROVE  OrderInv'
  <1>0. TypeOK /\ received \in Nat /\ received' \in Nat
    BY InHand DEF IInv
  <1>n. PICK n \in Threads : n = NextThread
    BY <1>0, NextThreadInPool
  <1>1. PICK m \in Nat : Queued(n, t, m)
    <2>1. queue' = [queue EXCEPT ![n] = Append(@, t)]
      BY <1>n DEF PostDataToDbHandler
    <2> QED BY <1>0, <2>1, QueueAppend
  <1>2. UNCHANGED <<pc, task, sent>> /\ \A i \in Threads : Busy(i)' <=> Busy(i)
    BY DEF PostDataToDbHandler, Busy
  <1>3. \A k \in Nat : k <= received => k < t.id /\ k <= received'
    BY <1>0
  <1>4. QueueOrder'
    <2>1. ASSUME NEW i \in Threads, NEW k \in DOMAIN queue'[i], NEW l \in DOMAIN queue'[i], k < l
          PROVE  queue'[i][k].id < queue'[i][l].id
      <3>1. CASE k \in DOMAIN queue[i] /\ queue'[i][k] = queue[i][k]
        <4>1. CASE l \in DOMAIN queue[i] /\ queue'[i][l] = queue[i][l]
          BY <2>1, <3>1, <4>1 DEF OrderInv, QueueOrder
        <4>2. CASE queue'[i][l] = t
          BY <1>3, <3>1, <4>2, InHand
        <4> QED BY <1>1, <4>1, <4>2 DEF Queued
      <3>2. CASE i = n /\ k = m
        <4>1. l # m /\ ~ (l \in DOMAIN queue[i])
          BY <1>1, <2>1, <3>2 DEF Queued
        <4> QED BY <1>1, <4>1 DEF Queued
      <3> QED BY <1>1, <3>1, <3>2 DEF Queued
    <2> QED BY <2>1 DEF QueueOrder
  <1>5. TaskFirst'
    <2>1. ASSUME NEW i \in Threads, Busy(i), NEW k \in DOMAIN queue'[i]
          PROVE  task[i].id < queue'[i][k].id
      <3>1. CASE k \in DOMAIN queue[i] /\ queue'[i][k] = queue[i][k]
        BY <2>1, <3>1 DEF OrderInv, TaskFirst
      <3>2. CASE queue'[i][k] = t
        BY <1>3, <2>1, <3>2, InHand
      <3> QED BY <1>1, <3>1, <3>2 DEF Queued
    <2> QED BY <1>2, <2>1 DEF TaskFirst
  <1>6. SentBefore'
    <2>1. ASSUME NEW s \in Sessions, NEW j \in DOMAIN sent[s], NEW i \in Threads,
                 sent[s][j].by = i
          PROVE  /\ Busy(i) => sent[s][j].id < task[i].id
                 /\ \A k \in DOMAIN queue'[i] : sent[s][j].id < queue'[i][k].id
      <3>1. Ahead(i, sent[s][j].id) /\ sent[s][j].id \in Nat /\ sent[s][j].id <= received
        BY <2>1, InHand DEF OrderInv, SentBefore
      <3>2. ASSUME NEW k \in DOMAIN queue'[i] PROVE sent[s][j].id < queue'[i][k].id
        BY <1>1, <1>3, <3>1 DEF Queued, Ahead
      <3> QED BY <3>1, <3>2 DEF Ahead
    <2>2. \A s \in Sessions : \A j \in DOMAIN sent[s] : sent[s][j].id <= received'
      BY <1>3, InHand DEF OrderInv, SentBefore
    <2> QED BY <1>2, <2>1, <2>2 DEF SentBefore, Ahead
  <1>7. RepliesInOrder'
    BY <1>2 DEF OrderInv, RepliesInOrder
  <1> QED BY <1>4, <1>5, <1>6, <1>7 DEF OrderInv

(* A thread takes the oldest of its tasks.                                 *)
LEMMA TakeOrder ==
  ASSUME IInv, OrderInv, NEW i \in Threads, OnMessageDataHandler(i)
  PROVE  OrderInv'
  <1> DEFINE q == queue[i]
  <1>0. /\ queue \in [Threads -> Seq(Tasks)] /\ pc \in [Threads -> Labels]
        /\ task \in [Threads -> Tasks \cup {NoTask}] /\ q \in Seq(Tasks) /\ q # <<>>
        /\ queue' = [queue EXCEPT ![i] = Tail(q)] /\ pc[i] = "idle"
        /\ UNCHANGED <<received, sent>>
    BY DEF OnMessageDataHandler, IInv, TypeOK
  <1>1. /\ queue'[i] = Tail(q) /\ \A o \in Threads \ {i} : queue'[o] = queue[o]
    BY <1>0
  <1>2. \/ UNCHANGED <<pc, task>>
        \/ /\ task' = [task EXCEPT ![i] = Head(q)]
           /\ \E l \in {"reply", "acquire"} : pc' = [pc EXCEPT ![i] = l]
    BY DEF OnMessageDataHandler
  <1>3. /\ \A o \in Threads \ {i} : (Busy(o)' <=> Busy(o)) /\ task'[o] = task[o]
        /\ Busy(i)' => task'[i] = Head(q)
    BY <1>0, <1>2 DEF Busy, BusyLabels
  <1>4. /\ 1 \in DOMAIN q /\ Head(q) = q[1]
        /\ \A k \in DOMAIN Tail(q) : /\ k \in Nat /\ k + 1 \in DOMAIN q /\ 1 < k + 1
                                     /\ Tail(q)[k] = q[k + 1]
    <2> HIDE DEF q
    <2>1. Len(q) \in Nat /\ DOMAIN q = 1 .. Len(q) /\ Len(q) # 0
      BY <1>0, LenProperties, EmptySeq
    <2>2. /\ Tail(q) \in Seq(Tasks) /\ Len(Tail(q)) = Len(q) - 1
          /\ \A k \in 1 .. Len(Tail(q)) : Tail(q)[k] = q[k + 1]
      BY <1>0, HeadTailProperties
    <2>3. DOMAIN Tail(q) = 1 .. Len(q) - 1
      BY <2>2, LenProperties
    <2> QED BY <2>1, <2>2, <2>3
  <1> HIDE DEF q
  <1>5. \A k, l \in DOMAIN q : k < l => q[k].id < q[l].id
    BY DEF OrderInv, QueueOrder, q
  <1>6. QueueOrder'
    <2>1. ASSUME NEW k \in DOMAIN Tail(q), NEW l \in DOMAIN Tail(q), k < l
          PROVE  Tail(q)[k].id < Tail(q)[l].id
      <3>1. k + 1 < l + 1
        BY <1>4, <2>1
      <3> QED BY <1>4, <1>5, <3>1
    <2> QED BY <1>1, <2>1 DEF OrderInv, QueueOrder
  <1>7. TaskFirst'
    <2>1. ASSUME NEW k \in DOMAIN Tail(q) PROVE Head(q).id < Tail(q)[k].id
      BY <1>4, <1>5
    <2> QED BY <1>1, <1>3, <2>1 DEF OrderInv, TaskFirst
  <1>8. ASSUME NEW s \in Sessions, NEW j \in DOMAIN sent[s], NEW o \in Threads,
               sent[s][j].by = o
        PROVE  /\ Busy(o)' => sent[s][j].id < task'[o].id
               /\ \A k \in DOMAIN queue'[o] : sent[s][j].id < queue'[o][k].id
    <2>1. Ahead(o, sent[s][j].id)
      BY <1>8 DEF OrderInv, SentBefore
    <2>2. CASE o = i
      <3>1. \A k \in DOMAIN q : sent[s][j].id < q[k].id
        BY <2>1, <2>2 DEF Ahead, q
      <3>2. sent[s][j].id < Head(q).id
        BY <1>4, <3>1
      <3>3. \A k \in DOMAIN Tail(q) : sent[s][j].id < Tail(q)[k].id
        BY <1>4, <3>1
      <3> QED BY <1>1, <1>3, <2>2, <3>2, <3>3
    <2>3. CASE o # i
      BY <1>1, <1>3, <2>1, <2>3 DEF Ahead
    <2> QED BY <2>2, <2>3
  <1>9. SentBefore'
    <2>1. \A s \in Sessions : \A j \in DOMAIN sent[s] : sent[s][j].id <= received
      BY DEF OrderInv, SentBefore
    <2> QED BY <1>0, <1>8, <2>1 DEF SentBefore, Ahead
  <1>10. RepliesInOrder'
    BY <1>0 DEF OrderInv, RepliesInOrder
  <1> QED BY <1>6, <1>7, <1>9, <1>10 DEF OrderInv

(* A thread's answer is to a packet older than all it still has to do, and *)
(* newer than all it has answered.                                         *)
LEMMA SendOrder ==
  ASSUME IInv, OrderInv, NEW i \in Threads, SendSessionData(i)
  PROVE  OrderInv'
  <1>0. /\ TypeOK /\ Busy(i) /\ UNCHANGED <<queue, received>>
        /\ task' = [task EXCEPT ![i] = NoTask] /\ pc' = [pc EXCEPT ![i] = "idle"]
    BY DEF SendSessionData, IInv, Busy, BusyLabels
  <1>1. /\ ~ Busy(i)'
        /\ \A o \in Threads \ {i} : (Busy(o)' <=> Busy(o)) /\ task'[o] = task[o]
    BY <1>0 DEF TypeOK, Busy, BusyLabels
  <1>2. task[i] \in Tasks
    BY <1>0 DEF IInv, TaskInv, Pending, TypeOK
  <1>3. PICK n \in 1 .. MaxPackets, s \in Sessions : n = task[i].id /\ s = task[i].session
    BY <1>2 DEF Tasks
  <1>4. n \in Nat /\ n <= received /\ \A k \in DOMAIN queue[i] : n < queue[i][k].id
    BY <1>0, <1>3, InHand DEF OrderInv, TaskFirst
  <1>5. ASSUME NEW r \in Sessions, NEW j \in DOMAIN sent[r]
        PROVE  /\ sent[r][j].id \in Nat
               /\ sent[r][j].by = i => sent[r][j].id < n
    BY <1>0, <1>3, InHand DEF OrderInv, SentBefore, Ahead
  <1>6. QueueOrder' /\ TaskFirst'
    BY <1>0, <1>1 DEF OrderInv, QueueOrder, TaskFirst
  <1>7. ASSUME NEW o \in Threads, NEW x, Ahead(o, x)
        PROVE  /\ Busy(o)' => x < task'[o].id
               /\ \A k \in DOMAIN queue'[o] : x < queue'[o][k].id
    BY <1>0, <1>1, <1>7 DEF Ahead
  <1>8. CASE UNCHANGED sent
    <2>1. SentBefore'
      BY <1>0, <1>7, <1>8 DEF OrderInv, SentBefore, Ahead
    <2> QED BY <1>6, <1>8, <2>1 DEF OrderInv, RepliesInOrder
  <1>9. CASE sent' = [sent EXCEPT ![s] = Append(@, [id |-> n, by |-> i])]
    <2>1. PICK m \in Nat : Replied(s, n, i, m)
      BY <1>0, <1>9, SentAppend
    <2>2. ASSUME NEW r \in Sessions, NEW j \in DOMAIN sent'[r]
          PROVE  /\ sent'[r][j].id <= received'
                 /\ \A o \in Threads : sent'[r][j].by = o =>
                      /\ Busy(o)' => sent'[r][j].id < task'[o].id
                      /\ \A k \in DOMAIN queue'[o] : sent'[r][j].id < queue'[o][k].id
      <3>1. CASE j \in DOMAIN sent[r] /\ sent'[r][j] = sent[r][j]
        BY <1>0, <1>7, <3>1 DEF OrderInv, SentBefore
      <3>2. CASE sent'[r][j].id = n /\ sent'[r][j].by = i
        BY <1>0, <1>1, <1>4, <3>2
      <3> QED BY <2>1, <3>1, <3>2 DEF Replied
    <2>3. SentBefore'
      BY <2>2 DEF SentBefore, Ahead
    <2>4. RepliesInOrder'
      <3>1. ASSUME NEW r \in Sessions, NEW j \in DOMAIN sent'[r], NEW k \in DOMAIN sent'[r],
                   j < k, sent'[r][j].by = sent'[r][k].by
            PROVE  sent'[r][j].id < sent'[r][k].id
        <4>1. CASE j \in DOMAIN sent[r] /\ sent'[r][j] = sent[r][j]
          <5>1. CASE k \in DOMAIN sent[r] /\ sent'[r][k] = sent[r][k]
            BY <3>1, <4>1, <5>1 DEF OrderInv, RepliesInOrder
          <5>2. CASE sent'[r][k].id = n /\ sent'[r][k].by = i
            BY <1>5, <3>1, <4>1, <5>2
          <5> QED BY <2>1, <5>1, <5>2 DEF Replied
        <4>2. CASE r = s /\ j = m
          <5>1. k # m /\ ~ (k \in DOMAIN sent[r])
            BY <2>1, <3>1, <4>2 DEF Replied
          <5> QED BY <2>1, <5>1 DEF Replied
        <4> QED BY <2>1, <4>1, <4>2 DEF Replied
      <3> QED BY <3>1 DEF RepliesInOrder
    <2> QED BY <1>6, <2>3, <2>4 DEF OrderInv
  <1> QED BY <1>3, <1>8, <1>9 DEF SendSessionData

(* Every step keeps the order.                                             *)
LEMMA OrderNext ==
  ASSUME IInv, OrderInv, [Next]_vars
  PROVE  OrderInv'
  <1>0. TypeOK /\ received \in Nat /\ received <= received
    BY InHand DEF IInv
  <1>1. ASSUME NEW s \in Sessions, OnDataReceived(s) PROVE OrderInv'
    <2>1. received' = received + 1 /\ received' \in 1 .. MaxPackets
      BY <1>0, <1>1, PoolBoundsAssumption DEF OnDataReceived
    <2>2. CASE sent' = [sent EXCEPT ![s] = Append(@, [id |-> received', by |-> Reactor])]
               /\ UNCHANGED <<queue, task, pc>>
      BY <2>1, <2>2, EchoOrder
    <2>3. CASE UNCHANGED <<queue, task, pc, sent>>
      <3>1. received' \in Nat /\ received <= received'
        BY <1>0, <2>1
      <3> QED BY <2>3, <3>1, QuietOrder DEF Busy
    <2>4. CASE poolSize > 0 /\ \E kind \in Kinds, valid \in BOOLEAN :
                 PostDataToDbHandler([id |-> received', session |-> s, kind |-> kind,
                                      valid |-> valid])
      <3>1. PICK kind \in Kinds, valid \in BOOLEAN :
              PostDataToDbHandler([id |-> received', session |-> s, kind |-> kind,
                                   valid |-> valid])
        BY <2>4
      <3>2. PICK t \in Tasks : t.id = received' /\ PostDataToDbHandler(t)
        BY <2>1, <3>1 DEF Tasks
      <3> QED BY <2>1, <2>4, <3>2, PostOrder
    <2> QED BY <1>1, <2>2, <2>3, <2>4 DEF OnDataReceived, workers, history
  <1>2. ASSUME NEW i \in Threads, Work(i) PROVE OrderInv'
    <2>1. CASE Acquire(i) \/ Release(i)
      <3>1. UNCHANGED <<queue, task, sent, received>>
        BY <2>1 DEF Acquire, Release, history
      <3>2. \A o \in Threads : Busy(o)' => Busy(o)
        BY <1>0, <2>1 DEF TypeOK, Acquire, Release, Busy, BusyLabels
      <3> QED BY <1>0, <3>1, <3>2, QuietOrder
    <2> QED BY <1>2, <2>1, TakeOrder, SendOrder DEF Work
  <1>3. CASE \/ Listen \/ ShutdownNet \/ Shutdown \/ UNCHANGED vars
             \/ \E s \in Sessions : OnNewConnection(s) \/ OnConnectionClosed(s)
    <2>1. UNCHANGED <<queue, task, sent, received, pc>>
      BY <1>3 DEF Listen, ShutdownNet, Shutdown, OnNewConnection, OnConnectionClosed, vars,
                  workers, history
    <2> QED BY <1>0, <2>1, QuietOrder DEF Busy
  <1>4. ASSUME RunThreads \/ \E i \in Threads : StopThread(i) PROVE OrderInv'
    <2>1. UNCHANGED <<queue, task, sent, received>>
      BY <1>4 DEF RunThreads, StopThread, history
    <2>2. \A o \in Threads : Busy(o)' => Busy(o)
      BY <1>0, <1>4 DEF TypeOK, RunThreads, StopThread, Busy, BusyLabels
    <2> QED BY <1>0, <2>1, <2>2, QuietOrder
  <1> QED BY <1>1, <1>2, <1>3, <1>4 DEF Next, Client

(* The replies of a thread on a session come in the order of the packets,  *)
(* and none twice: PostDataToDbHandler queues in the order packets come,   *)
(* and a thread takes its oldest task and answers it before the next.      *)
THEOREM OrderKept == Spec => []RepliesInOrder
  <1>1. Init => OrderInv
    <2> SUFFICES ASSUME Init PROVE OrderInv
      OBVIOUS
    <2>1. /\ \A i \in Threads : DOMAIN queue[i] = {} /\ ~ Busy(i)
          /\ \A s \in Sessions : DOMAIN sent[s] = {}
      BY DEF Init, Busy, BusyLabels
    <2> QED BY <2>1 DEF OrderInv, QueueOrder, TaskFirst, SentBefore, RepliesInOrder
  <1>2. IInv /\ OrderInv /\ [Next]_vars => OrderInv'
    BY OrderNext
  <1>3. OrderInv => RepliesInOrder
    BY DEF OrderInv
  <1> QED BY <1>1, <1>2, <1>3, Inductive, PTL DEF Spec

-----------------------------------------------------------------------------
(* How packets are dealt out.                                              *)

(* Division leaves one quotient and one remainder.                         *)
LEMMA DivisionUnique ==
  ASSUME NEW n \in Nat \ {0}, NEW p \in Int, NEW q \in Int,
         NEW r \in 0 .. n - 1, NEW s \in 0 .. n - 1, n * p + r = n * q + s
  PROVE  p = q /\ r = s
  <1> DEFINE np == n * p
             nq == n * q
  <1>1. \A a, b \in Int : a < b => n * a + n <= n * b
    BY Z3
  <1>2. /\ r < n /\ s < n /\ r \in Nat /\ s \in Nat /\ n \in Nat
        /\ np \in Int /\ nq \in Int /\ np + r = nq + s
    BY Z3
  <1>3. /\ p < q => np + n <= nq
        /\ q < p => nq + n <= np
        /\ p = q => np = nq
    BY <1>1
  <1> HIDE DEF np, nq
  <1>4. ~ (p < q) /\ ~ (q < p)
    BY <1>2, <1>3, Z3
  <1>5. p = q
    BY <1>4, Z3
  <1>6. r = s
    BY <1>2, <1>3, <1>5, Z3
  <1> QED BY <1>5, <1>6

(* The remainder and the quotient of the next number: one more, or a wrap. *)
LEMMA NextRemainder ==
  ASSUME NEW n \in Nat \ {0}, NEW x \in Nat
  PROVE  /\ x % n \in 0 .. n - 1 /\ x \div n \in Nat
         /\ x % n = n - 1 => (x + 1) % n = 0 /\ (x + 1) \div n = (x \div n) + 1
         /\ x % n # n - 1 => (x + 1) % n = (x % n) + 1 /\ (x + 1) \div n = x \div n
  <1> DEFINE Q(y) == y \div n
             R(y) == y % n
  <1>1. ASSUME NEW y \in Nat
        PROVE  Q(y) \in Nat /\ R(y) \in 0 .. n - 1 /\ y = n * Q(y) + R(y)
    BY Z3
  <1> HIDE DEF Q, R
  <1>2. /\ Q(x) \in Nat /\ R(x) \in 0 .. n - 1 /\ x = n * Q(x) + R(x)
        /\ Q(x + 1) \in Nat /\ R(x + 1) \in 0 .. n - 1 /\ x + 1 = n * Q(x + 1) + R(x + 1)
    <2>1. x + 1 \in Nat
      OBVIOUS
    <2> QED BY <1>1, <2>1
  <1>3. CASE R(x) = n - 1
    <2>1. n * (Q(x) + 1) = n * Q(x) + n
      BY <1>2, Z3
    <2>2. n * (Q(x) + 1) + 0 = n * Q(x + 1) + R(x + 1) /\ 0 \in 0 .. n - 1 /\ Q(x) + 1 \in Int
      BY <1>2, <1>3, <2>1, Z3
    <2>3. Q(x + 1) = Q(x) + 1 /\ R(x + 1) = 0
      BY <1>2, <2>2, DivisionUnique
    <2> QED BY <1>2, <1>3, <2>3 DEF Q, R
  <1>4. CASE R(x) # n - 1
    <2>1. n * Q(x) + (R(x) + 1) = n * Q(x + 1) + R(x + 1) /\ R(x) + 1 \in 0 .. n - 1
      BY <1>2, <1>4, Z3
    <2>2. Q(x + 1) = Q(x) /\ R(x + 1) = R(x) + 1
      BY <1>2, <2>1, DivisionUnique
    <2> QED BY <1>2, <1>4, <2>2 DEF Q, R
  <1> QED BY <1>3, <1>4

(* Thread i has had its turn when the round has come to thread r, and the  *)
(* shares d when it gets one task more.                                    *)
Had(i, r)      == IF i < r THEN 1 ELSE 0
OneMore(d, r)  == [d EXCEPT ![r] = @ + 1]
Share(a, i, r) == IF i = r THEN a + 1 ELSE a

(* Of N threads with the shares d, one is ahead of another by its turn in  *)
(* the round, which has come to thread r, and one for each of w wraps.     *)
Shares(d, N, w, r) ==
  \A i, j \in 0 .. N - 1 : d[i] - d[j] <= w + Had(i, r) - Had(j, r)

(* The round that has come to r wraps, ends, or goes on.                   *)
Passed(N, r, r1, w, w1) ==
  \/ r1 = 0 /\ w1 = w + 1
  \/ r = N - 1 /\ r1 = 0 /\ w1 = w
  \/ r1 = r + 1 /\ w1 = w

(* The arithmetic of one more task for thread r when i and j have had a    *)
(* and b.                                                                  *)
LEMMA TurnTaken ==
  ASSUME NEW N \in Nat, NEW i \in 0 .. N - 1, NEW j \in 0 .. N - 1, NEW r \in 0 .. N - 1,
         NEW r1 \in Nat, NEW w \in Nat, NEW w1 \in Nat, NEW a \in Nat, NEW b \in Nat,
         i = j => a = b, a - b <= w + Had(i, r) - Had(j, r), Passed(N, r, r1, w, w1)
  PROVE  Share(a, i, r) - Share(b, j, r) <= w1 + Had(i, r1) - Had(j, r1)
  <1> USE DEF Had, Share, Passed
  <1>1. CASE i < r /\ j < r BY <1>1
  <1>2. CASE i < r /\ j = r BY <1>2
  <1>3. CASE i < r /\ j > r BY <1>3
  <1>4. CASE i = r /\ j < r BY <1>4
  <1>5. CASE i = r /\ j = r BY <1>5
  <1>6. CASE i = r /\ j > r BY <1>6
  <1>7. CASE i > r /\ j < r BY <1>7
  <1>8. CASE i > r /\ j = r BY <1>8
  <1>9. CASE i > r /\ j > r BY <1>9
  <1>10. /\ i < r \/ i = r \/ i > r
         /\ j < r \/ j = r \/ j > r
    OBVIOUS
  <1> QED BY <1>1, <1>2, <1>3, <1>4, <1>5, <1>6, <1>7, <1>8, <1>9, <1>10

(* One more task goes to the thread whose turn it is, which from then on   *)
(* is ahead of those that are still to come in this round.                 *)
LEMMA DealtStep ==
  ASSUME NEW N \in Nat, NEW r \in 0 .. N - 1, NEW r1 \in Nat, NEW w \in Nat, NEW w1 \in Nat,
         NEW d \in [0 .. N - 1 -> Nat], Shares(d, N, w, r), Passed(N, r, r1, w, w1)
  PROVE  Shares(OneMore(d, r), N, w1, r1)
  <1> DEFINE e == OneMore(d, r)
  <1> SUFFICES ASSUME NEW i \in 0 .. N - 1, NEW j \in 0 .. N - 1
               PROVE  e[i] - e[j] <= w1 + Had(i, r1) - Had(j, r1)
    BY DEF Shares
  <1>1. PICK a \in Nat, b \in Nat : a = d[i] /\ b = d[j]
    OBVIOUS
  <1>2. e[i] = Share(a, i, r) /\ e[j] = Share(b, j, r)
    BY <1>1 DEF OneMore, Share
  <1>3. (i = j => a = b) /\ a - b <= w + Had(i, r) - Had(j, r)
    BY <1>1 DEF Shares
  <1>4. Share(a, i, r) - Share(b, j, r) <= w1 + Had(i, r1) - Had(j, r1)
    BY <1>3, TurnTaken
  <1> QED BY <1>2, <1>4

(* The thread whose turn it is, and the rounds, after one more task.       *)
LEMMA NextTurn ==
  ASSUME NEW N \in Nat \ {0}, NEW S \in Nat \ {0}, NEW c \in Nat
  PROVE  /\ (c % S) % N \in 0 .. N - 1 /\ ((c + 1) % S) % N \in Nat
         /\ c \div S \in Nat /\ (c + 1) \div S \in Nat
         /\ Passed(N, (c % S) % N, ((c + 1) % S) % N, c \div S, (c + 1) \div S)
  <1> DEFINE x  == c % S
             x1 == (c + 1) % S
             w  == c \div S
             w1 == (c + 1) \div S
  <1>1. /\ x \in 0 .. S - 1 /\ w \in Nat
        /\ x = S - 1 => x1 = 0 /\ w1 = w + 1
        /\ x # S - 1 => x1 = x + 1 /\ w1 = w
    BY NextRemainder
  <1>2. x1 \in 0 .. S - 1 /\ w1 \in Nat
    <2>1. c + 1 \in Nat
      OBVIOUS
    <2> QED BY <2>1, NextRemainder
  <1>3. x \in Nat /\ x1 \in Nat
    BY <1>1, <1>2
  <1> HIDE DEF x, x1, w, w1
  <1>4. /\ x % N \in 0 .. N - 1 /\ x1 % N \in 0 .. N - 1
        /\ x % N = N - 1 => (x + 1) % N = 0
        /\ x % N # N - 1 => (x + 1) % N = (x % N) + 1
    BY <1>3, NextRemainder
  <1>5. x1 % N \in Nat
    BY <1>4
  <1>6. 0 % N = 0
    BY Z3
  <1>7. CASE x = S - 1
    BY <1>1, <1>2, <1>4, <1>5, <1>6, <1>7, Zenon DEF x, x1, w, w1, Passed
  <1>8. CASE x # S - 1
    BY <1>1, <1>2, <1>4, <1>5, <1>8, Zenon DEF x, x1, w, w1, Passed
  <1> QED BY <1>7, <1>8

(* A task that is posted keeps the balance.                                *)
LEMMA BalancePost ==
  ASSUME IInv, BalanceInv, poolSize > 0, NEW t \in Tasks, t.id = received + 1,
         PostDataToDbHandler(t)
  PROVE  BalanceInv'
  <1> DEFINE c == Cardinality(posted)
             N == max_conn_count
  <1>1. /\ posted' = posted \cup {t} /\ nextSeq' = NextSeq
        /\ dealt' = [dealt EXCEPT ![NextThread] = @ + 1]
    BY DEF PostDataToDbHandler
  <1>2. t \notin posted
    <2>1. received \in Nat /\ \A p \in posted : p.id \in Nat /\ p.id <= received
      BY InHand DEF IInv, IdInv, TypeOK, Tasks
    <2> QED BY <2>1
  <1>3. c \in Nat /\ IsFiniteSet(posted') /\ Cardinality(posted') = c + 1
    BY <1>1, <1>2, FS_AddElement, FS_CardinalityType DEF BalanceInv
  <1>4. ASSUME N > 1
        PROVE  /\ nextSeq' = Cardinality(posted') % SEQ
               /\ \A i, j \in Threads : dealt'[i] - dealt'[j] <= Rounds' + Turn(i)' - Turn(j)'
    <2>1. /\ poolSize = N /\ poolSize # 1 /\ N \in Nat /\ SEQ \in Nat \ {0}
          /\ nextSeq = c % SEQ /\ nextSeq \in 0 .. SEQ - 1 /\ dealt \in [0 .. N - 1 -> Nat]
      <3>1. N \in Nat /\ SEQ \in Nat \ {0} /\ poolSize \in {0, N}
        BY PoolAssumption, SeqAssumption DEF IInv, TypeOK
      <3>2. nextSeq = c % SEQ
        BY <1>4 DEF BalanceInv
      <3>3. nextSeq \in 0 .. SEQ - 1 /\ dealt \in [0 .. N - 1 -> Nat]
        BY DEF IInv, TypeOK, Threads
      <3>4. poolSize = N /\ poolSize # 1
        BY <1>4, <3>1
      <3> QED BY <3>1, <3>2, <3>3, <3>4
    <2>2. nextSeq' = (nextSeq + 1) % SEQ /\ NextThread = (c % SEQ) % N
      BY <1>1, <2>1 DEF NextSeq, NextThread
    <2> HIDE DEF c, N
    <2>3. nextSeq' = (c + 1) % SEQ
      <3>1. /\ nextSeq = SEQ - 1 => (c + 1) % SEQ = 0
            /\ nextSeq # SEQ - 1 => (c + 1) % SEQ = nextSeq + 1
        BY <1>3, <2>1, NextRemainder
      <3>2. nextSeq % SEQ = nextSeq /\ nextSeq \in Nat
        BY <2>1, Z3
      <3>3. /\ nextSeq = SEQ - 1 => (nextSeq + 1) % SEQ = 0
            /\ nextSeq # SEQ - 1 => (nextSeq + 1) % SEQ = nextSeq + 1
        BY <2>1, <3>2, NextRemainder
      <3> QED BY <2>2, <3>1, <3>3
    <2> DEFINE r  == (c % SEQ) % N
               r1 == ((c + 1) % SEQ) % N
               w  == c \div SEQ
               w1 == (c + 1) \div SEQ
    <2>4. /\ r \in 0 .. N - 1 /\ r1 \in Nat /\ w \in Nat /\ w1 \in Nat
          /\ Passed(N, r, r1, w, w1)
      <3>1. N \in Nat \ {0}
        BY <1>4, <2>1
      <3> QED BY <1>3, <2>1, <3>1, NextTurn
    <2>5. PICK e : e = dealt'
      OBVIOUS
    <2>6. e = OneMore(dealt, r)
      BY <1>1, <2>2, <2>5 DEF OneMore
    <2>7. Shares(dealt, N, w, r)
      BY <1>4, <2>1 DEF BalanceInv, Rounds, Turn, Threads, Shares, Had, c, N
    <2>8. Rounds' = w1 /\ \A i \in Threads : Turn(i)' = IF i < r1 THEN 1 ELSE 0
      BY <1>3, <2>3 DEF Rounds, Turn, N
    <2> HIDE DEF r, r1, w, w1
    <2>9. Shares(e, N, w1, r1)
      BY <2>1, <2>4, <2>6, <2>7, DealtStep
    <2> QED BY <1>3, <2>3, <2>5, <2>8, <2>9 DEF Threads, N, Shares, Had
  <1> QED BY <1>3, <1>4 DEF BalanceInv

(* Other steps count nothing.                                              *)
LEMMA BalanceNext ==
  ASSUME IInv, BalanceInv, [Next]_vars
  PROVE  BalanceInv'
  <1>1. CASE UNCHANGED <<nextSeq, posted, dealt>>
    BY <1>1 DEF BalanceInv, Rounds, Turn
  <1>2. ASSUME NEW s \in Sessions, OnDataReceived(s), ~ UNCHANGED <<nextSeq, posted, dealt>>
        PROVE  BalanceInv'
    <2>1. received' = received + 1 /\ received' \in 1 .. MaxPackets
      BY <1>2, PoolBoundsAssumption DEF OnDataReceived, IInv, TypeOK
    <2>2. poolSize > 0 /\ \E kind \in Kinds, valid \in BOOLEAN :
            PostDataToDbHandler([id |-> received', session |-> s, kind |-> kind, valid |-> valid])
      BY <1>2 DEF OnDataReceived, server, history
    <2>3. PICK t \in Tasks : t.id = received' /\ PostDataToDbHandler(t)
      BY <2>1, <2>2 DEF Tasks
    <2> QED BY <2>1, <2>2, <2>3, BalancePost
  <1>3. \/ UNCHANGED <<nextSeq, posted, dealt>>
        \/ \E s \in Sessions : OnDataReceived(s)
    BY DEF Next, Client, Work, RunThreads, Listen, ShutdownNet, Shutdown, OnNewConnection,
           OnConnectionClosed, OnMessageDataHandler, Acquire, Release, SendSessionData,
           StopThread, vars, server, history
  <1> QED BY <1>1, <1>2, <1>3

(* GetNextThread deals packets out evenly for every number of threads and  *)
(* every width of the sequence number: two threads' shares differ by one,  *)
(* and by one more for each time the number has wrapped.                   *)
THEOREM DealtEvenly == Spec => []Balanced
  <1>1. Init => BalanceInv
    <2> SUFFICES ASSUME Init PROVE BalanceInv
      OBVIOUS
    <2>1. /\ IsFiniteSet(posted) /\ Cardinality(posted) = 0 /\ nextSeq = 0
          /\ \A i \in Threads : dealt[i] = 0
      BY FS_EmptySet DEF Init
    <2>2. SEQ \in Nat \ {0} /\ 0 % SEQ = 0 /\ 0 \div SEQ = 0
      BY SeqAssumption, Z3
    <2>3. ASSUME NEW i \in Threads PROVE max_conn_count > 1 => Turn(i) = 0
      <3>1. max_conn_count > 1 => 0 % max_conn_count = 0
        BY PoolAssumption, Z3
      <3> QED BY <2>1, <3>1, PoolAssumption DEF Turn, Threads
    <2> QED BY <2>1, <2>2, <2>3 DEF BalanceInv, Rounds
  <1>2. IInv /\ BalanceInv /\ [Next]_vars => BalanceInv'
    BY BalanceNext
  <1>3. ASSUME IInv, BalanceInv PROVE Balanced
    <2> SUFFICES ASSUME NEW i \in Threads, NEW j \in Threads
                 PROVE  dealt[i] - dealt[j] <= 1 + Rounds
      BY DEF Balanced, Rounds
    <2>1. Cardinality(posted) \in Nat /\ SEQ \in Nat \ {0}
      BY <1>3, SeqAssumption, FS_CardinalityType DEF BalanceInv
    <2>2. Rounds \in Nat
      BY <2>1, NextRemainder DEF Rounds
    <2>3. dealt[i] \in Nat /\ dealt[j] \in Nat
      BY <1>3 DEF IInv, TypeOK
    <2>4. CASE max_conn_count > 1
      <3>1. dealt[i] - dealt[j] <= Rounds + Turn(i) - Turn(j)
        BY <1>3, <2>4 DEF BalanceInv
      <3>2. Turn(i) \in {0, 1} /\ Turn(j) \in {0, 1}
        BY DEF Turn
      <3> QED BY <2>2, <2>3, <3>1, <3>2
    <2>5. CASE ~ (max_conn_count > 1)
      <3>1. i = j
        BY <2>5, PoolAssumption DEF Threads
      <3> QED BY <2>2, <2>3, <3>1
    <2> QED BY <2>4, <2>5
  <1> QED BY <1>1, <1>2, <1>3, Inductive, PTL DEF Spec
=============================================================================
