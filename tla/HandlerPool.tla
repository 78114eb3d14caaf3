----------------------------- MODULE HandlerPool -----------------------------
(***************************************************************************)
(* The process around the handlers: ZAresdServer starts and stops it, one  *)
(* reactor thread receives packets (ClientCommHandler), the thread manager *)
(* deals them out to the handler threads in turn, and each handler thread  *)
(* runs the handlers of its queue one by one, taking a database connection *)
(* from the pool for every call of a manager.                              *)
(*                                                                         *)
(* The message loops, the network engine and the connection pool belong to *)
(* a library outside the repository and are modelled from their use.       *)
(***************************************************************************)
EXTENDS Integers, Sequences, FiniteSets

CONSTANTS
  max_conn_count,  \* size of the connection pool and of the thread pool
  Sessions,        \* the client connections
  Kinds,           \* the kinds of packets clients send
  SEQ,             \* number of values of the thread sequence counter (2^32)
  MaxPackets       \* bound: packets received in a behaviour

ASSUME PoolAssumption == max_conn_count \in Nat
ASSUME SeqAssumption  == SEQ \in Nat \ {0}
ASSUME PoolBoundsAssumption == MaxPackets \in Nat

Threads == 0 .. max_conn_count - 1
Reactor == -1      \* in the place of a thread's number

(* How many calls of a manager that take a connection a handler may make,  *)
(* one after the other: no manager calls another one while it has one.     *)
NoScope  == {"UNREAD_MSG_COUNT", "MSG_READ_ACK", "GROUP_UNREAD_MSG", "GROUP_MSG_READ_ACK"}
OneScope == {"FRIEND_LIST", "REMOVE_SESSION", "DEPARTMENT", "USERS_INFO", "ALL_USER",
             "GROUP_UNREAD_MSG_COUNT", "FILE_HAS_OFFLINE", "FILE_ADD_OFFLINE"}
TwoScopes == {"VALIDATE", "UNREAD_MSG", "GROUP_LIST", "GROUP_USER_LIST",
              "GROUP_CREATE_TMP_GROUP", "GROUP_CHANGE_MEMBER", "GROUP_DIALOG_LIST",
              "FILE_DEL_OFFLINE"}

(* The kinds InitMessageHandlerTable registers a handler for.              *)
Registered == NoScope \cup OneScope \cup TwoScopes \cup {"MSG_DATA", "GROUP_HISTORY_MSG"}
CheckMessageHandler(kind) == kind \in Registered

Scopes(kind) ==
  IF kind \in NoScope THEN {0}
  ELSE IF kind \in OneScope THEN {0, 1}
  ELSE IF kind \in TwoScopes THEN {0, 1, 2}
  ELSE {0, 3, 4, 5}

VARIABLES
  phase,     \* how far ZAresdServer::Initialize or Destroy has come
  poolSize,  \* thread_pool_size_
  nextSeq,   \* next_thread_, the next number GetNext returns
  queue,     \* the tasks posted to each thread's message loop
  pc,        \* what each thread is doing
  task,      \* the task each thread works on
  left,      \* the manager calls its handler still has to make
  inUse,     \* connections handed out by the pool
  open,      \* the sessions that are connected
  accepted,  \* the sessions that were ever connected: ids are not reused
  received,  \* number of packets received
  posted,    \* the tasks posted so far (history)
  done,      \* ids of the tasks that are finished (history)
  sent,      \* the replies sent on each session, and by whom (history)
  dealt      \* number of tasks posted to each thread (history)

server  == <<phase, poolSize, nextSeq>>
workers == <<queue, pc, task, left, inUse>>
history == <<posted, done, sent, dealt>>
vars    == <<server, workers, open, accepted, received, history>>

Tasks  == [id : 1 .. MaxPackets, session : Sessions, kind : Kinds, valid : BOOLEAN]
NoTask == [id |-> 0]
Labels == {"off", "idle", "acquire", "hold", "reply"}
Phases == {"boot", "ready", "up", "failed", "netdown", "stopped", "crashed"}

Init ==
  /\ phase = "boot"
  /\ poolSize = 0
  /\ nextSeq = 0
  /\ queue = [i \in Threads |-> <<>>]
  /\ pc = [i \in Threads |-> "off"]
  /\ task = [i \in Threads |-> NoTask]
  /\ left = [i \in Threads |-> 0]
  /\ inUse = 0
  /\ open = {}
  /\ accepted = {}
  /\ received = 0
  /\ posted = {}
  /\ done = {}
  /\ sent = [s \in Sessions |-> <<>>]
  /\ dealt = [i \in Threads |-> 0]

-----------------------------------------------------------------------------
(* ZAresdServer::Initialize: ZAresHandlerThreadManager::Initialize and     *)
(* Run.  If a thread does not start, Run shuts all of them down and        *)
(* returns false, which Initialize ignores.                                *)
RunThreads ==
  /\ phase = "boot"
  /\ phase' = "ready"
  /\ \/ poolSize' = max_conn_count /\ pc' = [i \in Threads |-> "idle"]
     \/ UNCHANGED <<poolSize, pc>>
  /\ UNCHANGED <<nextSeq, queue, task, left, inUse, open, accepted, received, history>>

(* The network engine runs, the handlers are registered and the acceptor   *)
(* is created, last of all; Initialize fails if it cannot be.              *)
Listen ==
  /\ phase = "ready"
  /\ phase' \in {"up", "failed"}
  /\ UNCHANGED <<poolSize, nextSeq, workers, open, accepted, received, history>>

OnNewConnection(s) ==
  /\ phase = "up" /\ s \notin accepted
  /\ accepted' = accepted \cup {s}
  /\ open' = open \cup {s}
  /\ UNCHANGED <<server, workers, received, history>>

OnConnectionClosed(s) ==
  /\ phase = "up" /\ s \in open
  /\ open' = open \ {s}
  /\ UNCHANGED <<server, workers, accepted, received, history>>

-----------------------------------------------------------------------------
(* ClientCommHandler::OnDataReceived, on the reactor thread.               *)

(* GetNextThread for a pool that is not empty.                             *)
NextThread == IF poolSize = 1 THEN 0 ELSE nextSeq % poolSize

(* Mutant: the sequence number is read and not incremented.                *)
NextSeqStuck == nextSeq

NextSeq == IF poolSize = 1 THEN nextSeq ELSE (nextSeq + 1) % SEQ

PostDataToDbHandler(t) ==
  /\ queue' = [queue EXCEPT ![NextThread] = Append(@, t)]
  /\ dealt' = [dealt EXCEPT ![NextThread] = @ + 1]
  /\ nextSeq' = NextSeq
  /\ posted' = posted \cup {t}
  /\ UNCHANGED <<phase, poolSize, pc, task, left, inUse, done, sent>>

OnDataReceived(s) ==
  /\ phase = "up" /\ s \in open
  /\ received < MaxPackets
  /\ received' = received + 1
  /\ \E kind \in Kinds, valid \in BOOLEAN :
       \/ /\ kind = "HEARTBEAT"         \* echoed by the reactor itself
          /\ sent' = [sent EXCEPT ![s] = Append(@, [id |-> received', by |-> Reactor])]
          /\ UNCHANGED <<server, workers, posted, done, dealt>>
       \/ /\ kind # "HEARTBEAT" /\ ~ CheckMessageHandler(kind)
          /\ UNCHANGED <<server, workers, history>>
       \/ /\ CheckMessageHandler(kind) /\ poolSize > 0
          /\ PostDataToDbHandler([id |-> received', session |-> s, kind |-> kind,
                                  valid |-> valid])
       \/ /\ CheckMessageHandler(kind) /\ poolSize = 0   \* division by zero
          /\ phase' = "crashed"
          /\ UNCHANGED <<poolSize, nextSeq, workers, history>>
  /\ UNCHANGED <<open, accepted>>

-----------------------------------------------------------------------------
(* ZAresHandlerThread.                                                     *)

(* Mutant: the message loop takes its newest task first.                   *)
OnMessageDataHandlerNewest(i) ==
  /\ pc[i] = "idle" /\ queue[i] # <<>>
  /\ queue' = [queue EXCEPT ![i] = SubSeq(@, 1, Len(@) - 1)]
  /\ task' = [task EXCEPT ![i] = queue[i][Len(queue[i])]]
  /\ pc' = [pc EXCEPT ![i] = "reply"]
  /\ UNCHANGED <<server, left, inUse, open, accepted, received, history>>

(* DispatchMessageHandler looks the handler up under the type the parsed   *)
(* object gives itself, and GroupHistoryMsgRequest gives itself that of    *)
(* another request (HISTORY_MSG), which has no handler.                    *)
Dispatched(t) == t.valid /\ t.kind # "GROUP_HISTORY_MSG"

(* OnMessageDataHandler: a packet that cannot be parsed, or finds no       *)
(* handler, is dropped.                                                    *)
OnMessageDataHandler(i) ==
  /\ pc[i] = "idle" /\ queue[i] # <<>>
  /\ queue' = [queue EXCEPT ![i] = Tail(@)]
  /\ IF Dispatched(Head(queue[i]))
     THEN \E n \in Scopes(Head(queue[i]).kind) :
            /\ task' = [task EXCEPT ![i] = Head(queue[i])]
            /\ left' = [left EXCEPT ![i] = n]
            /\ pc' = [pc EXCEPT ![i] = IF n = 0 THEN "reply" ELSE "acquire"]
            /\ UNCHANGED done
     ELSE /\ done' = done \cup {Head(queue[i]).id}
          /\ UNCHANGED <<task, left, pc>>
  /\ UNCHANGED <<server, inUse, open, accepted, received, posted, sent, dealt>>

(* ScopedPtr_DatabaseConnection's constructor: wait for a free connection. *)
Acquire(i) ==
  /\ pc[i] = "acquire"
  /\ inUse < max_conn_count
  /\ inUse' = inUse + 1
  /\ pc' = [pc EXCEPT ![i] = "hold"]
  /\ UNCHANGED <<server, queue, task, left, open, accepted, received, history>>

(* Mutant: a manager calls the next one while it holds its connection.     *)
ReleaseNested(i) ==
  /\ pc[i] = "hold"
  /\ inUse' = IF left[i] > 1 THEN inUse ELSE inUse - 1
  /\ left' = [left EXCEPT ![i] = @ - 1]
  /\ pc' = [pc EXCEPT ![i] = IF left[i] > 1 THEN "acquire" ELSE "reply"]
  /\ UNCHANGED <<server, queue, task, open, accepted, received, history>>

(* Mutant: one call more than the handler has to make.                     *)
ReleaseOneMore(i) ==
  /\ pc[i] = "hold"
  /\ inUse' = inUse - 1
  /\ left' = [left EXCEPT ![i] = @ - 1]
  /\ pc' = [pc EXCEPT ![i] = IF left[i] >= 1 THEN "acquire" ELSE "reply"]
  /\ UNCHANGED <<server, queue, task, open, accepted, received, history>>

(* Its destructor, at the end of the manager's method.                     *)
Release(i) ==
  /\ pc[i] = "hold"
  /\ inUse' = inUse - 1
  /\ left' = [left EXCEPT ![i] = @ - 1]
  /\ pc' = [pc EXCEPT ![i] = IF left[i] > 1 THEN "acquire" ELSE "reply"]
  /\ UNCHANGED <<server, queue, task, open, accepted, received, history>>

(* Mutant: a handler may return on a path that sends no reply.             *)
SendSessionDataSkipped(i) ==
  /\ pc[i] = "reply"
  /\ pc' = [pc EXCEPT ![i] = "idle"]
  /\ task' = [task EXCEPT ![i] = NoTask]
  /\ done' = done \cup {task[i].id}
  /\ \/ /\ task[i].session \in open
        /\ sent' = [sent EXCEPT ![task[i].session] = Append(@, [id |-> task[i].id, by |-> i])]
     \/ UNCHANGED sent
  /\ UNCHANGED <<server, queue, left, inUse, open, accepted, received, posted, dealt>>

(* SendSessionData: the network engine drops what it gets for a session    *)
(* that is closed.                                                         *)
SendSessionData(i) ==
  /\ pc[i] = "reply"
  /\ pc' = [pc EXCEPT ![i] = "idle"]
  /\ task' = [task EXCEPT ![i] = NoTask]
  /\ done' = done \cup {task[i].id}
  /\ sent' = IF task[i].session \in open
             THEN [sent EXCEPT ![task[i].session] = Append(@, [id |-> task[i].id, by |-> i])]
             ELSE sent
  /\ UNCHANGED <<server, queue, left, inUse, open, accepted, received, posted, dealt>>

-----------------------------------------------------------------------------
(* ZAresdServer::Destroy: the network engine is shut down, then the thread *)
(* manager stops and deletes its threads.  base::Thread::Stop posts a quit *)
(* task and joins: a thread finishes its queue first.  After an Initialize  *)
(* that failed the thread manager's destructor does the same.              *)
ShutdownNet ==
  /\ phase = "up"
  /\ phase' = "netdown"
  /\ open' = {}
  /\ UNCHANGED <<poolSize, nextSeq, workers, accepted, received, history>>

(* Mutant: a thread stops without finishing its queue.                     *)
StopThreadAtOnce(i) ==
  /\ phase \in {"netdown", "failed"}
  /\ pc[i] = "idle"
  /\ pc' = [pc EXCEPT ![i] = "off"]
  /\ UNCHANGED <<server, queue, task, left, inUse, open, accepted, received, history>>

StopThread(i) ==
  /\ phase \in {"netdown", "failed"}
  /\ pc[i] = "idle" /\ queue[i] = <<>>
  /\ \A j \in Threads : j < i => pc[j] = "off"
  /\ pc' = [pc EXCEPT ![i] = "off"]
  /\ UNCHANGED <<server, queue, task, left, inUse, open, accepted, received, history>>

Shutdown ==
  /\ phase \in {"netdown", "failed"}
  /\ \A i \in Threads : pc[i] = "off"
  /\ phase' = "stopped"
  /\ poolSize' = 0
  /\ UNCHANGED <<nextSeq, workers, open, accepted, received, history>>

-----------------------------------------------------------------------------

Client(s) == OnNewConnection(s) \/ OnConnectionClosed(s) \/ OnDataReceived(s)

Work(i) ==
  \/ OnMessageDataHandler(i) \/ Acquire(i) \/ Release(i) \/ SendSessionData(i)

Next ==
  \/ RunThreads \/ Listen \/ ShutdownNet \/ Shutdown
  \/ \E s \in Sessions : Client(s)
  \/ \E i \in Threads : phase # "crashed" /\ (Work(i) \/ StopThread(i))

Spec == Init /\ [][Next]_vars

(* A started thread runs its message loop, and Destroy, once called, goes  *)
(* on; nobody is obliged to connect, to send, to start or to stop.         *)
FairSpec ==
  /\ Spec
  /\ \A i \in Threads : WF_vars(phase # "crashed" /\ (Work(i) \/ StopThread(i)))
  /\ WF_vars(Shutdown)

-----------------------------------------------------------------------------
(* Properties.                                                             *)

(* Every variable holds values of its type.                                *)
TypeOK ==
  /\ phase \in Phases
  /\ poolSize \in {0, max_conn_count}
  /\ nextSeq \in 0 .. SEQ - 1
  /\ queue \in [Threads -> Seq(Tasks)]
  /\ pc \in [Threads -> Labels]
  /\ task \in [Threads -> Tasks \cup {NoTask}]
  /\ left \in [Threads -> Nat]
  /\ inUse \in Nat
  /\ open \subseteq accepted /\ accepted \subseteq Sessions
  /\ received \in 0 .. MaxPackets
  /\ posted \subseteq Tasks
  /\ done \subseteq 1 .. MaxPackets
  /\ sent \in [Sessions -> Seq([id : 1 .. MaxPackets, by : Threads \cup {Reactor}])]
  /\ dealt \in [Threads -> Nat]

(* ZAresHandlerThreadManager has one thread for each connection of the     *)
(* pool, and a manager that holds a connection calls nothing that needs    *)
(* another: a handler never has to wait for a connection.                  *)
ConnAvailable == \A i \in Threads : pc[i] = "acquire" => inUse < max_conn_count

Holds(i, t) == t = task[i] \/ \E k \in DOMAIN queue[i] : t = queue[i][k]

(* A task PostDataToDbHandler has posted is finished or in the hands of a  *)
(* thread that runs, in every phase of Initialize and Destroy: none is     *)
(* given to a thread that has stopped, or left behind by one that stops.   *)
TaskOwned ==
  \A t \in posted :
    t.id \in done \/ \E i \in Threads : pc[i] # "off" /\ Holds(i, t)

(* The replies that one thread (or the reactor, for heartbeats) sends on a *)
(* session come in the order of the packets, and none is sent twice.       *)
RepliesInOrder ==
  \A s \in Sessions : \A j, k \in DOMAIN sent[s] :
    j < k /\ sent[s][j].by = sent[s][k].by => sent[s][j].id < sent[s][k].id

(* GetNextThread deals the packets out evenly; each time the sequence      *)
(* number wraps, one thread may get one more than another.                 *)
Balanced ==
  \A i, j \in Threads : dealt[i] - dealt[j] <= 1 + Cardinality(posted) \div SEQ

Pending       == {t \in posted : t.id \notin done}
AnsweredOn(s) == [k \in 1 .. Len(sent[s]) |-> sent[s][k].id]

(* The requests no handler is found for: what cannot be parsed, and, for   *)
(* the type its class gives itself, a group history request.               *)
Unanswered == {t \in Tasks : ~ t.valid \/ t.kind = "GROUP_HISTORY_MSG"}

RS == INSTANCE RequestService WITH
        Ids      <- 1 .. MaxPackets,
        Requests <- Tasks,
        NoAnswer <- Unanswered,
        taken    <- posted,
        pending  <- Pending,
        answered <- [s \in Sessions |-> AnsweredOn(s)],
        gone     <- accepted \ open

(* The reactor, the threads and their queues together take each request    *)
(* once and answer it on its session, once.  A reply is lost only if its   *)
(* session is closed, by the client or by Destroy, before it is sent; an   *)
(* Unanswered request is the only one that no reply is made for.           *)
ImplementsService == RS!Spec

(* A request that was taken is treated in the end, also when the server is *)
(* stopped meanwhile or other threads hold connections.                    *)
RequestsTreated == RS!AllTreated
=============================================================================
