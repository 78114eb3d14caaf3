----------------------------- MODULE FileManager -----------------------------
(***************************************************************************)
(* The file manager of zaresd (table IMTransmitFile) with the handlers of  *)
(* FILE_ADD_OFFLINE, FILE_DEL_OFFLINE and FILE_HAS_OFFLINE requests, on    *)
(* several handler threads.                                                *)
(*                                                                         *)
(* A step of a thread is one SQL statement; a delete runs two.  A handler  *)
(* reads the clock before its first statement, which may run much later.   *)
(* Times are milliseconds and seconds in 32 bits, mixed as the code mixes  *)
(* them.                                                                   *)
(***************************************************************************)
EXTENDS Integers, Sequences, FiniteSets

CONSTANTS
  Threads,      \* the handler threads
  Users,        \* the user ids clients may name; 0 is never one
  TaskIds,      \* the task ids clients may name
  Inputs,       \* the requests clients may send
  Stored,       \* what the table may hold when the process starts first
  Accepts,      \* whether the database takes the INSERT of SaveFileRecord
  MS,           \* milliseconds in a second (1000)
  WEEK,         \* seconds in seven days (604800)
  WORD,         \* number of values of a uint32 (2^32)
  FILES_LIMIT,  \* most files listed by one request (50)
  Times,        \* bound: the moments, in milliseconds, at which things happen
  MaxReq,       \* bound: requests accepted in a behaviour
  MaxFault,     \* bound: failed SQL statements in a behaviour
  MaxBoot       \* bound: restarts of the process in a behaviour

NoTask == ""           \* a task id that is not set

ASSUME FileUsersAssumption == Users \subseteq Nat \ {0}
ASSUME FileTasksAssumption == NoTask \notin TaskIds
ASSUME AcceptsAssumption == Accepts \subseteq BOOLEAN
ASSUME FileTimeAssumption ==
  /\ MS \in Nat \ {0} /\ WEEK \in Nat /\ WORD \in Nat /\ FILES_LIMIT \in Nat
  /\ 2 * WEEK < WORD
  /\ Times \subseteq Nat /\ \A n \in Times : WEEK * MS <= n
ASSUME FileBoundsAssumption == MaxReq \in Nat /\ MaxFault \in Nat /\ MaxBoot \in Nat

VARIABLES
  files,    \* table IMTransmitFile; a row's id is its index
  accepts,  \* the member of Accepts that is so
  clock,    \* NowMSTime()
  pc,       \* the statement a thread is about to run
  req,      \* the request a thread works on
  loc,      \* when its handler read the clock, and histories
  reply,    \* the response a thread is about to send
  nextReq,  \* number of the next request
  answers,  \* the answers to adds and deletes that were sent (history)
  lists,    \* the lists that were sent (history)
  failed,   \* the requests of which an SQL statement failed, one of each
  boot      \* number of restarts

vars == <<files, accepts, clock, pc, req, loc, reply, nextReq, answers, lists, failed, boot>>

Ids   == Users \cup {0}
Kinds == {"Add", "Del", "Has"}

(* "named" is FALSE for a file without a path.                             *)
ASSUME FileInputsAssumption ==
  Inputs \subseteq [kind : Kinds, from : Ids, to : Ids, task : TaskIds \cup {NoTask},
                    named : BOOLEAN]

(* made is the time that created, a uint32, was taken from, and req the    *)
(* request that stored the row (history).                                  *)
FileRows == [userId : Users, toUserId : Users, taskId : TaskIds \cup {NoTask}, status : {0, 1},
             created : 0 .. WORD - 1, made : Nat, req : Nat]

ASSUME StoredAssumption ==
  /\ Stored \subseteq Seq(FileRows)
  /\ \A s \in Stored : \A i \in DOMAIN s :
       /\ s[i].created = s[i].made % WORD /\ s[i].req = 0
       /\ \A n \in Times : s[i].made <= n

Requests == [id : Nat, kind : Kinds, from : Ids, to : Ids, task : TaskIds \cup {NoTask}]
Replies  == [result : {0, 2}, list : SUBSET Nat]

(* For a list, before and gone are how many files were stored, and which   *)
(* ones clients had been told were received, when the request came.        *)
Locals   == [now : Nat, before : Nat, gone : SUBSET TaskIds]

NoRequest == [id |-> 0, kind |-> "Has", from |-> 0, to |-> 0, task |-> NoTask]
NoLocals  == [now |-> 0, before |-> 0, gone |-> {}]
NoReply   == [result |-> 0, list |-> {}]
Labels    == {"idle", "save_insert", "get_record", "delete_update", "list_select", "reply"}

Init ==
  /\ files \in Stored
  /\ accepts \in Accepts
  /\ clock \in Times /\ \A n \in Times : clock <= n
  /\ pc = [t \in Threads |-> "idle"]
  /\ req = [t \in Threads |-> NoRequest]
  /\ loc = [t \in Threads |-> NoLocals]
  /\ reply = [t \in Threads |-> NoReply]
  /\ nextReq = 1
  /\ answers = {}
  /\ lists = {}
  /\ failed = {}
  /\ boot = 0

-----------------------------------------------------------------------------
Goto(t, label) == pc' = [pc EXCEPT ![t] = label]

Finish(t, result, list) ==
  /\ Goto(t, "reply")
  /\ reply' = [reply EXCEPT ![t] = [result |-> result, list |-> list]]

(* A statement fails: Query returns NULL, Execute at most 0, and no row    *)
(* changes.  No handler runs another statement after one that failed.      *)
Fault(t) == Cardinality(failed) < MaxFault /\ failed' = failed \cup {req[t].id}
Sound == failed' = failed

RowsOf(task) == {i \in DOMAIN files : files[i].taskId = task}

(* What the answers sent so far have told clients, those apart that were   *)
(* sent although the UPDATE had failed.                                    *)
ToldReceived ==
  {a.task : a \in {b \in answers : b.kind = "Del" /\ b.result = 0 /\ b.id \notin failed}}

-----------------------------------------------------------------------------
(* FileAddOfflineReqHandler and SaveFileRecord, which returns true whether *)
(* its INSERT worked or not.  The statement lacks a comma and has one      *)
(* placeholder more than parameters; whether the database takes what       *)
(* MakeQueryString, which is external, makes of it is left open: it always *)
(* does or it never does.                                                  *)

(* Mutant: the ids are not checked.                                        *)
AddAcceptAnyone(t, r) ==
  IF ~ r.named THEN Finish(t, 2, {}) ELSE Goto(t, "save_insert") /\ UNCHANGED reply

AddAccept(t, r) ==
  IF r.from = 0 \/ r.to = 0 \/ ~ r.named
  THEN Finish(t, 2, {})
  ELSE Goto(t, "save_insert") /\ UNCHANGED reply

SaveFileRecord(t) ==
  /\ pc[t] = "save_insert"
  /\ \/ /\ Sound /\ accepts
        /\ files' = Append(files,
             [userId |-> req[t].from, toUserId |-> req[t].to, taskId |-> req[t].task,
              status |-> 1, created |-> loc[t].now % WORD, made |-> loc[t].now, req |-> req[t].id])
     \/ Sound /\ ~ accepts /\ UNCHANGED files
     \/ Fault(t) /\ UNCHANGED files
  /\ Finish(t, 0, {})
  /\ UNCHANGED <<accepts, clock, req, loc, nextReq, answers, lists, boot>>

-----------------------------------------------------------------------------
(* FileDelOfflineReqHandler: GetFileRecord, then DeleteFileRecord.         *)

DelAccept(t, r) ==
  IF r.task = NoTask THEN Finish(t, 2, {}) ELSE Goto(t, "get_record") /\ UNCHANGED reply

(* A row's milliseconds are compared with seconds.                         *)
Deletable(t, row) ==
  row.status = 1 /\ row.created > (((loc[t].now \div MS) % WORD) - WEEK) % WORD

(* Mutant: the handler goes on whatever GetFileRecord returns.             *)
GetFileRecordUnchecked(t) ==
  /\ pc[t] = "get_record"
  /\ Sound
  /\ Goto(t, "delete_update")
  /\ UNCHANGED <<files, accepts, clock, req, loc, reply, nextReq, answers, lists, boot>>

(* The first row of the task: any one, for the SELECT does not order them. *)
GetFileRecord(t) ==
  /\ pc[t] = "get_record"
  /\ \/ /\ Sound
        /\ \E i \in RowsOf(req[t].task) :
             IF Deletable(t, files[i])
             THEN Goto(t, "delete_update") /\ UNCHANGED reply
             ELSE Finish(t, 2, {})
     \/ /\ \/ Sound /\ RowsOf(req[t].task) = {}
           \/ Fault(t)
        /\ Finish(t, 2, {})
  /\ UNCHANGED <<files, accepts, clock, req, loc, nextReq, answers, lists, boot>>

(* UPDATE ... LIMIT 1: one row of the task, received already or not; true  *)
(* is returned whether it worked or not.                                   *)
DeleteFileRecord(t) ==
  /\ pc[t] = "delete_update"
  /\ \/ /\ Sound
        /\ \/ \E i \in RowsOf(req[t].task) : files' = [files EXCEPT ![i].status = 0]
           \/ RowsOf(req[t].task) = {} /\ UNCHANGED files
     \/ Fault(t) /\ UNCHANGED files
  /\ Finish(t, 0, {})
  /\ UNCHANGED <<accepts, clock, req, loc, nextReq, answers, lists, boot>>

-----------------------------------------------------------------------------
(* FileHasOfflineReqHandler and GetUserFiles.                              *)

HasAccept(t, r) ==
  IF r.to = 0 THEN Finish(t, 0, {}) ELSE Goto(t, "list_select") /\ UNCHANGED reply

(* Mutant: the bound is printed with %u.                                   *)
PrintedUnsigned(word) == word

(* A uint32 printed with %d.                                               *)
Printed(word) == IF 2 * word >= WORD THEN word - WORD ELSE word

(* Seconds are subtracted from milliseconds.                               *)
Window(t) == Printed((loc[t].now - WEEK) % WORD)

(* Mutant: received files are listed too.                                  *)
WantedAny(t) ==
  {i \in DOMAIN files : files[i].toUserId = req[t].to /\ files[i].created > Window(t)}

Wanted(t) ==
  {i \in DOMAIN files : /\ files[i].toUserId = req[t].to
                        /\ files[i].created > Window(t)
                        /\ files[i].status = 1}

(* ORDER BY created DESC LIMIT: rows of the same time come in any order.   *)
GetUserFiles(t) ==
  /\ pc[t] = "list_select"
  /\ \/ /\ Sound
        /\ \E list \in SUBSET Wanted(t) :
             /\ Cardinality(list) <= FILES_LIMIT
             /\ Cardinality(list) < FILES_LIMIT => list = Wanted(t)
             /\ \A i \in list, j \in Wanted(t) \ list : files[j].created <= files[i].created
             /\ Finish(t, 0, list)
     \/ Fault(t) /\ Finish(t, 0, {})
  /\ UNCHANGED <<files, accepts, clock, req, loc, nextReq, answers, lists, boot>>

-----------------------------------------------------------------------------
(* A thread takes a request, and reads the clock; it sends its reply; the  *)
(* process dies and starts again with the table it left; time passes.      *)

Accept(t) ==
  /\ pc[t] = "idle"
  /\ nextReq <= MaxReq
  /\ \E r \in Inputs :
       /\ req' = [req EXCEPT ![t] =
            [id |-> nextReq, kind |-> r.kind, from |-> r.from, to |-> r.to, task |-> r.task]]
       /\ loc' = [loc EXCEPT ![t] =
            IF r.kind = "Has"
            THEN [now |-> clock, before |-> Len(files), gone |-> ToldReceived]
            ELSE [NoLocals EXCEPT !.now = clock]]
       /\ \/ r.kind = "Add" /\ AddAccept(t, r)
          \/ r.kind = "Del" /\ DelAccept(t, r)
          \/ r.kind = "Has" /\ HasAccept(t, r)
  /\ nextReq' = nextReq + 1
  /\ UNCHANGED <<files, accepts, clock, answers, lists, failed, boot>>

SendSessionData(t) ==
  /\ pc[t] = "reply"
  /\ IF req[t].kind = "Has"
     THEN /\ lists' = lists \cup {[id |-> req[t].id, to |-> req[t].to, at |-> loc[t].now,
                                  before |-> loc[t].before, gone |-> loc[t].gone,
                                  list |-> reply[t].list]}
          /\ UNCHANGED answers
     ELSE /\ answers' = answers \cup {[id |-> req[t].id, kind |-> req[t].kind,
                                      task |-> req[t].task, result |-> reply[t].result]}
          /\ UNCHANGED lists
  /\ Goto(t, "idle")
  /\ req' = [req EXCEPT ![t] = NoRequest]
  /\ loc' = [loc EXCEPT ![t] = NoLocals]
  /\ reply' = [reply EXCEPT ![t] = NoReply]
  /\ UNCHANGED <<files, accepts, clock, nextReq, failed, boot>>

Restart ==
  /\ boot < MaxBoot
  /\ boot' = boot + 1
  /\ pc' = [t \in Threads |-> "idle"]
  /\ req' = [t \in Threads |-> NoRequest]
  /\ loc' = [t \in Threads |-> NoLocals]
  /\ reply' = [t \in Threads |-> NoReply]
  /\ UNCHANGED <<files, accepts, clock, nextReq, answers, lists, failed>>

Tick ==
  /\ \E n \in Times : n > clock /\ clock' = n
  /\ UNCHANGED <<files, accepts, pc, req, loc, reply, nextReq, answers, lists, failed, boot>>

Work(t) ==
  \/ SaveFileRecord(t) \/ GetFileRecord(t) \/ DeleteFileRecord(t) \/ GetUserFiles(t)
  \/ SendSessionData(t)

Next == Restart \/ Tick \/ \E t \in Threads : Accept(t) \/ Work(t)

Spec == Init /\ [][Next]_vars

-----------------------------------------------------------------------------
(* Properties.                                                             *)

(* The table and the threads' variables hold values of their types; in     *)
(* particular SaveFileRecord stores no record of the user id 0.            *)
TypeOK ==
  /\ files \in Seq(FileRows)
  /\ accepts \in Accepts
  /\ clock \in Times
  /\ pc \in [Threads -> Labels]
  /\ req \in [Threads -> Requests]
  /\ loc \in [Threads -> Locals]
  /\ reply \in [Threads -> Replies]
  /\ nextReq \in Nat
  /\ answers \subseteq
       [id : Nat, kind : Kinds, task : TaskIds \cup {NoTask}, result : {0, 2}]
  /\ lists \subseteq
       [id : Nat, to : Ids, at : Nat, before : Nat, gone : SUBSET TaskIds, list : SUBSET Nat]
  /\ failed \subseteq Nat
  /\ boot \in Nat

(* FileAddOfflineReqHandler, FileDelOfflineReqHandler: 0 means that the    *)
(* file is stored once, or received, for ever after; 2 to an add means     *)
(* that it is not stored.  Only the failure of a statement of the request  *)
(* itself, which SaveFileRecord and DeleteFileRecord ignore, or an INSERT  *)
(* the database does not take, makes 0 untrue: whatever adds and deletes   *)
(* of the same task interleave or fail, and whatever the process dies in.  *)
AnswersTellTruth ==
  \A a \in answers :
    /\ a.kind = "Add" =>
         LET stored == Cardinality({i \in DOMAIN files : files[i].req = a.id})
         IN  stored <= 1 /\ (a.result = 2 => stored = 0)
                         /\ (a.result = 0 => stored = 1 \/ a.id \in failed \/ ~ accepts)
    /\ a.kind = "Del" /\ a.result = 0 =>
         a.id \in failed \/ \E i \in RowsOf(a.task) : files[i].status = 0

(* DeleteFileRecord, GetUserFiles: once a client was told that a task is   *)
(* received, by a delete whose statements worked, no list asked for later  *)
(* shows all of its files: one of them is received and missing, and so the *)
(* only one if there is no other, whatever other statements fail.  The     *)
(* UPDATE need not hit the row that GetFileRecord looked at, and other     *)
(* deletes and adds of the task run in between.                            *)
ReceivedNotListed ==
  \A a \in lists : \A task \in a.gone :
    \E i \in RowsOf(task) : files[i].status = 0 /\ i \notin a.list

(* GetUserFiles: a pending file that was stored before the request came,   *)
(* and less than WEEK milliseconds before, is listed (unless the list is   *)
(* full or its own SELECT failed), also when the 32-bit clock has wrapped  *)
(* since: the bound is then printed as a negative number.                  *)
FreshFilesListed ==
  \A a \in lists :
    a.id \notin failed /\ Cardinality(a.list) < FILES_LIMIT =>
      \A i \in 1 .. a.before :
        /\ files[i].toUserId = a.to /\ files[i].status = 1
        /\ files[i].made > a.at - WEEK
        => i \in a.list

-----------------------------------------------------------------------------
(* A statement of the repository's comments that the code does not meet.   *)

(* file_manager.h: GetUserFiles gets the list of all the files that a user *)
(* has not received; seven days is how long the code means to keep them.   *)
UnreceivedListed ==
  \A a \in lists :
    a.id \notin failed /\ Cardinality(a.list) < FILES_LIMIT =>
      \A i \in 1 .. a.before :
        /\ files[i].toUserId = a.to /\ files[i].status = 1
        /\ files[i].made > a.at - WEEK * MS
        => i \in a.list
=============================================================================
