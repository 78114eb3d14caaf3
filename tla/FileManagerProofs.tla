-------------------------- MODULE FileManagerProofs --------------------------
(***************************************************************************)
(* Theorems about FileManager, for every set of users, tasks, threads,     *)
(* requests and times, every word size and every bound.                    *)
(***************************************************************************)
EXTENDS FileManager, SequenceTheorems, FiniteSetTheorems, TLAPS

(* A handler past its checks has a request of its kind: a file has two     *)
(* users, and a delete names a task.                                       *)
ReqOK(t) ==
  /\ pc[t] = "save_insert" =>
       req[t].kind = "Add" /\ req[t].from \in Users /\ req[t].to \in Users
  /\ pc[t] \in {"get_record", "delete_update"} =>
       req[t].kind = "Del" /\ req[t].task \in TaskIds
  /\ pc[t] = "list_select" => req[t].kind = "Has"
  /\ pc[t] = "reply" /\ req[t].kind = "Del" /\ reply[t].result = 0 =>
       req[t].task \in TaskIds

(* A handler read the clock once, and counted only files that were stored  *)
(* by then.                                                                *)
TimeOK(t) ==
  pc[t] # "idle" =>
    /\ loc[t].now \in Times /\ loc[t].now <= clock
    /\ loc[t].before <= Len(files)
    /\ \A i \in 1 .. loc[t].before : files[i].made <= loc[t].now

(* A row's created is a wrapped time, not later than the clock.            *)
RowsOK ==
  \A i \in DOMAIN files :
    files[i].created = files[i].made % WORD /\ files[i].made <= clock

(* The rows stored for a request, and the tasks with a received file.      *)
RowsFor(id)    == {i \in DOMAIN files : files[i].req = id}
Received(task) == \E i \in RowsOf(task) : files[i].status = 0

(* Requests at work, stored and answered are numbered, no number twice.    *)
RequestIds ==
  /\ \A t \in Threads : pc[t] # "idle" => req[t].id < nextReq
  /\ \A t, o \in Threads :
       t # o /\ pc[t] # "idle" /\ pc[o] # "idle" => req[t].id # req[o].id
  /\ \A i \in DOMAIN files : files[i].req < nextReq
  /\ \A a \in answers :
       /\ a.id < nextReq
       /\ \A t \in Threads : pc[t] # "idle" => req[t].id # a.id

(* What an answer to a request of a kind says of the table.                *)
Truth(id, kind, task, result) ==
  /\ kind = "Add" =>
       LET stored == Cardinality(RowsFor(id))
       IN  stored <= 1 /\ (result = 2 => stored = 0)
                       /\ (result = 0 => stored = 1 \/ id \in failed \/ ~ accepts)
  /\ kind = "Del" /\ result = 0 => id \in failed \/ Received(task)

(* What a handler has done so far, and that its answer will be true.       *)
AnswerOK(t) ==
  /\ pc[t] = "save_insert" => Cardinality(RowsFor(req[t].id)) = 0
  /\ pc[t] = "delete_update" => RowsOf(req[t].task) # {}
  /\ pc[t] = "reply" => Truth(req[t].id, req[t].kind, req[t].task, reply[t].result)

(* The two things the list of request id promises.                         *)
OneHidden(list, gone) ==
  \A task \in gone : \E i \in RowsOf(task) : files[i].status = 0 /\ i \notin list
AllFresh(id, list, to, before, at) ==
  /\ before <= Len(files)
  /\ id \notin failed /\ Cardinality(list) < FILES_LIMIT =>
       \A i \in 1 .. before :
         /\ files[i].toUserId = to /\ files[i].status = 1
         /\ files[i].made > at - WEEK
         => i \in list

ListOK(t) ==
  /\ \A task \in loc[t].gone : Received(task)
  /\ pc[t] = "reply" /\ req[t].kind = "Has" =>
       /\ OneHidden(reply[t].list, loc[t].gone)
       /\ AllFresh(req[t].id, reply[t].list, req[t].to, loc[t].before, loc[t].now)

(* What was sent stays true.                                               *)
SentOK ==
  /\ \A a \in answers : /\ Truth(a.id, a.kind, a.task, a.result)
                        /\ a.kind = "Del" /\ a.result = 0 => a.task \in TaskIds
  /\ \A a \in lists : /\ OneHidden(a.list, a.gone)
                      /\ AllFresh(a.id, a.list, a.to, a.before, a.at)

IInv ==
  /\ TypeOK /\ RowsOK /\ RequestIds /\ SentOK
  /\ \A t \in Threads : ReqOK(t) /\ TimeOK(t) /\ AnswerOK(t) /\ ListOK(t)

(* A row of the table is never deleted, changes nothing but its status,    *)
(* and is received for good.                                               *)
FilesKept ==
  /\ Len(files) <= Len(files')
  /\ \A i \in DOMAIN files :
       /\ files'[i].toUserId = files[i].toUserId /\ files'[i].taskId = files[i].taskId
       /\ files'[i].made = files[i].made /\ files'[i].created = files[i].created
       /\ files'[i].req = files[i].req
       /\ files[i].status = 0 => files'[i].status = 0

-----------------------------------------------------------------------------
(* Arithmetic of the 32-bit clock.                                         *)

(* A time as a word.                                                       *)
LEMMA WordRange ==
  ASSUME NEW n \in Int
  PROVE  n % WORD \in 0 .. WORD - 1
  <1>1. WORD \in Nat /\ WORD > 0
    BY FileTimeAssumption
  <1> QED BY <1>1, Z3

(* Adding less than what is left of the word does not wrap.                *)
LEMMA NoWrap ==
  ASSUME NEW d \in Nat, NEW k \in Nat, NEW w \in Nat \ {0}, (d % w) + k < w
  PROVE  (d + k) % w = (d % w) + k
  <1> DEFINE q == d \div w
             r == d % w
  <1>1. q \in Int /\ r \in 0 .. w - 1 /\ d = w * q + r
    BY Z3
  <1>2. d + k = w * q + (r + k)
    BY <1>1
  <1> HIDE DEF q, r
  <1>3. (w * q + (r + k)) % w = r + k
    BY <1>1, Z3
  <1> QED BY <1>2, <1>3 DEF r

(* GetUserFiles' bound: a file stored less than WEEK before the request is *)
(* above it, whether the clock has wrapped between the two or not.         *)
LEMMA FreshAboveWindow ==
  ASSUME NEW now \in Nat, NEW made \in Nat, WEEK <= now, made <= now, made > now - WEEK
  PROVE  made % WORD > Printed((now - WEEK) % WORD)
  <1> DEFINE d == now - WEEK
             w == d % WORD
             k == made - d
  <1>1. /\ WEEK \in Nat /\ WORD \in Nat \ {0} /\ 2 * WEEK < WORD
        /\ d \in Nat /\ k \in Nat /\ k >= 1 /\ k <= WEEK /\ made = d + k
    BY FileTimeAssumption
  <1>2. w \in 0 .. WORD - 1 /\ made % WORD \in 0 .. WORD - 1
    BY <1>1, WordRange
  <1>3. CASE 2 * w >= WORD
    BY <1>1, <1>2, <1>3 DEF Printed
  <1>4. CASE 2 * w < WORD
    <2>1. w + k < WORD
      <3> HIDE DEF w, k, d
      <3> QED BY <1>1, <1>2, <1>4
    <2>2. made % WORD = w + k
      <3> HIDE DEF k, d
      <3> QED BY <1>1, <2>1, NoWrap
    <2>3. Printed(w) = w
      BY <1>4, <1>1, <1>2 DEF Printed
    <2> QED BY <1>1, <1>2, <2>2, <2>3
  <1> QED BY <1>1, <1>2, <1>3, <1>4

-----------------------------------------------------------------------------
(* What the statements do to the table.                                    *)

(* The row that SaveFileRecord inserts.                                    *)
NewRow(t) ==
  [userId |-> req[t].from, toUserId |-> req[t].to, taskId |-> req[t].task, status |-> 1,
   created |-> loc[t].now % WORD, made |-> loc[t].now, req |-> req[t].id]

(* The new row has its column types, and the table gains it at its end.    *)
LEMMA InsertShape ==
  ASSUME TypeOK, NEW t \in Threads, ReqOK(t), SaveFileRecord(t)
  PROVE  /\ files' \in Seq(FileRows)
         /\ pc[t] = "save_insert" /\ pc' = [pc EXCEPT ![t] = "reply"]
         /\ reply' = [reply EXCEPT ![t] = [result |-> 0, list |-> {}]]
         /\ UNCHANGED <<accepts, clock, req, loc, nextReq, answers, lists, boot>>
         /\ \/ /\ failed' = failed /\ accepts
               /\ Len(files') = Len(files) + 1 /\ files'[Len(files) + 1] = NewRow(t)
               /\ \A i \in DOMAIN files : files'[i] = files[i]
            \/ failed' = failed /\ ~ accepts /\ files' = files
            \/ failed' = failed \cup {req[t].id} /\ files' = files
  <1>1. /\ pc[t] = "save_insert" /\ pc' = [pc EXCEPT ![t] = "reply"]
        /\ reply' = [reply EXCEPT ![t] = [result |-> 0, list |-> {}]]
        /\ UNCHANGED <<accepts, clock, req, loc, nextReq, answers, lists, boot>>
    BY DEF SaveFileRecord, Finish, Goto
  <1>2. NewRow(t) \in FileRows
    <2>1. loc[t].now \in Nat /\ req[t].id \in Nat /\ req[t].task \in TaskIds \cup {NoTask}
      BY DEF TypeOK, Locals, Requests
    <2>2. loc[t].now % WORD \in 0 .. WORD - 1
      BY <2>1, WordRange
    <2> QED BY <1>1, <2>1, <2>2 DEF NewRow, FileRows, ReqOK
  <1>3. CASE files' = files
    BY <1>1, <1>3, LenProperties DEF SaveFileRecord, Sound, Fault, TypeOK
  <1>4. CASE failed' = failed /\ accepts /\ files' = Append(files, NewRow(t))
    BY <1>1, <1>2, <1>4, AppendProperties, LenProperties DEF TypeOK
  <1>5. \/ failed' = failed /\ accepts /\ files' = Append(files, NewRow(t))
        \/ files' = files
    BY DEF SaveFileRecord, Sound, NewRow
  <1> QED BY <1>3, <1>4, <1>5

(* A row's status set to 0: the table keeps its rows.                      *)
LEMMA DeleteShape ==
  ASSUME TypeOK, NEW t \in Threads, DeleteFileRecord(t)
  PROVE  /\ files' \in Seq(FileRows)
         /\ Len(files') = Len(files)
         /\ pc[t] = "delete_update" /\ pc' = [pc EXCEPT ![t] = "reply"]
         /\ reply' = [reply EXCEPT ![t] = [result |-> 0, list |-> {}]]
         /\ UNCHANGED <<accepts, clock, req, loc, nextReq, answers, lists, boot>>
         /\ \/ /\ failed' = failed
               /\ \E i \in RowsOf(req[t].task) : files' = [files EXCEPT ![i].status = 0]
            \/ failed' = failed /\ RowsOf(req[t].task) = {} /\ files' = files
            \/ failed' = failed \cup {req[t].id} /\ files' = files
  <1>1. /\ pc[t] = "delete_update" /\ pc' = [pc EXCEPT ![t] = "reply"]
        /\ reply' = [reply EXCEPT ![t] = [result |-> 0, list |-> {}]]
        /\ UNCHANGED <<accepts, clock, req, loc, nextReq, answers, lists, boot>>
        /\ \/ /\ failed' = failed
              /\ \E i \in RowsOf(req[t].task) : files' = [files EXCEPT ![i].status = 0]
           \/ failed' = failed /\ RowsOf(req[t].task) = {} /\ files' = files
           \/ failed' = failed \cup {req[t].id} /\ files' = files
    BY DEF DeleteFileRecord, Finish, Goto, Sound, Fault
  <1>2. CASE files' = files
    BY <1>1, <1>2 DEF TypeOK
  <1>3. ASSUME NEW i \in RowsOf(req[t].task), files' = [files EXCEPT ![i].status = 0]
        PROVE  files' \in Seq(FileRows) /\ Len(files') = Len(files)
    <2>1. files[i] \in FileRows /\ i \in DOMAIN files
      BY LenProperties, ElementOfSeq DEF TypeOK, RowsOf
    <2>2. [files[i] EXCEPT !.status = 0] \in FileRows
      BY <2>1 DEF FileRows
    <2>3. files' = [files EXCEPT ![i] = [files[i] EXCEPT !.status = 0]]
      BY <1>3
    <2> QED BY <2>1, <2>2, <2>3, ExceptSeq DEF TypeOK
  <1> QED BY <1>1, <1>2, <1>3

(* A step of one thread leaves the other threads alone, never sets the     *)
(* clock, and forgets no failed request.                                   *)
LEMMA Frame ==
  ASSUME TypeOK, NEW t \in Threads, Accept(t) \/ Work(t)
  PROVE  /\ files' = files \/ SaveFileRecord(t) \/ DeleteFileRecord(t)
         /\ \A o \in Threads \ {t} : /\ pc'[o] = pc[o] /\ req'[o] = req[o]
                                    /\ loc'[o] = loc[o] /\ reply'[o] = reply[o]
         /\ UNCHANGED <<accepts, clock>>
         /\ failed' \subseteq Nat /\ failed \subseteq failed'
  <1>0. req[t].id \in Nat
    BY DEF TypeOK, Requests
  <1> USE <1>0 DEF TypeOK, Finish, Goto, Sound, Fault
  <1>1. CASE Accept(t) BY <1>1 DEF Accept, AddAccept, DelAccept, HasAccept
  <1>2. CASE SaveFileRecord(t) BY <1>2 DEF SaveFileRecord
  <1>3. CASE GetFileRecord(t) BY <1>3 DEF GetFileRecord
  <1>4. CASE DeleteFileRecord(t) BY <1>4 DEF DeleteFileRecord
  <1>5. CASE GetUserFiles(t) BY <1>5 DEF GetUserFiles
  <1>6. CASE SendSessionData(t) BY <1>6 DEF SendSessionData
  <1> QED BY <1>1, <1>2, <1>3, <1>4, <1>5, <1>6 DEF Work

(* No step deletes a file, changes what it is or makes it pending again.   *)
LEMMA KeptStep ==
  ASSUME IInv, [Next]_vars
  PROVE  /\ FilesKept
         /\ accepts' = accepts /\ failed \subseteq failed' /\ clock <= clock'
  <1>0. TypeOK /\ \A t \in Threads : ReqOK(t)
    BY DEF IInv
  <1>1. ASSUME files' = files PROVE FilesKept
    <2>1. Len(files) \in Nat
      BY <1>0, LenProperties DEF TypeOK
    <2> QED BY <1>1, <2>1 DEF FilesKept
  <1>2. ASSUME NEW t \in Threads, SaveFileRecord(t) PROVE FilesKept
    BY <1>0, <1>1, <1>2, InsertShape, LenProperties DEF FilesKept, TypeOK
  <1>3. ASSUME NEW t \in Threads, DeleteFileRecord(t) PROVE FilesKept
    <2>1. CASE files' # files
      <3>1. PICK i \in RowsOf(req[t].task) : files' = [files EXCEPT ![i].status = 0]
        BY <1>0, <1>3, <2>1, DeleteShape
      <3>2. Len(files') = Len(files)
        BY <1>0, <1>3, DeleteShape
      <3>3. /\ Len(files) \in Nat /\ i \in DOMAIN files
            /\ \A j \in DOMAIN files : files[j] \in FileRows
        BY <1>0, LenProperties, ElementOfSeq DEF TypeOK, RowsOf
      <3>4. ASSUME NEW j \in DOMAIN files
            PROVE  files'[j] = IF j = i THEN [files[j] EXCEPT !.status = 0] ELSE files[j]
        BY <3>1, <3>3
      <3> DEFINE row == [files[i] EXCEPT !.status = 0]
      <3>5. /\ row.toUserId = files[i].toUserId /\ row.taskId = files[i].taskId
            /\ row.made = files[i].made /\ row.created = files[i].created
            /\ row.req = files[i].req /\ row.status = 0
        BY <3>3 DEF FileRows
      <3> HIDE DEF row
      <3>6. \A j \in DOMAIN files : files'[j] = IF j = i THEN row ELSE files[j]
        BY <3>4 DEF row
      <3> QED BY <3>2, <3>3, <3>5, <3>6 DEF FilesKept
    <2> QED BY <1>1, <2>1
  <1>4. CASE Restart \/ UNCHANGED vars
    BY <1>0, <1>1, <1>4, FileTimeAssumption DEF Restart, vars, TypeOK
  <1>5. CASE Tick
    BY <1>0, <1>1, <1>5, FileTimeAssumption DEF Tick, TypeOK
  <1>6. ASSUME NEW t \in Threads, Accept(t) \/ Work(t)
        PROVE  accepts' = accepts /\ failed \subseteq failed' /\ clock <= clock'
    BY <1>0, <1>6, Frame, FileTimeAssumption DEF TypeOK
  <1>7. ASSUME NEW t \in Threads, Accept(t) \/ Work(t) PROVE FilesKept
    BY <1>0, <1>1, <1>2, <1>3, <1>7, Frame
  <1> QED BY <1>4, <1>5, <1>6, <1>7 DEF Next

-----------------------------------------------------------------------------
(* Type correctness.                                                       *)

(* The initial values of a thread's variables have their types.            *)
LEMMA InitialValues ==
  NoRequest \in Requests /\ NoLocals \in Locals /\ NoReply \in Replies
  BY DEF NoRequest, Requests, Kinds, Ids, NoLocals, Locals, NoReply, Replies

(* A thread that has its result keeps its types.                           *)
LEMMA FinishTypes ==
  ASSUME TypeOK, NEW t \in Threads, NEW r \in {0, 2}, NEW l \in SUBSET Nat,
         Finish(t, r, l)
  PROVE  pc' \in [Threads -> Labels] /\ reply' \in [Threads -> Replies]
  BY DEF Finish, Goto, TypeOK, Labels, Replies

(* Accept sets a thread going on a request with a new number.              *)
LEMMA AcceptShape ==
  ASSUME IInv, NEW t \in Threads, Accept(t)
  PROVE  /\ pc[t] = "idle" /\ nextReq' = nextReq + 1
         /\ UNCHANGED <<files, accepts, clock, answers, lists, failed, boot>>
         /\ req' \in [Threads -> Requests] /\ req'[t].id = nextReq
         /\ loc' \in [Threads -> Locals] /\ loc'[t].now = clock
         /\ loc'[t].before \in {0, Len(files)} /\ loc'[t].gone \in {{}, ToldReceived}
         /\ reply' \in [Threads -> Replies]
         /\ \/ /\ pc' = [pc EXCEPT ![t] = "save_insert"] /\ req'[t].kind = "Add"
               /\ req'[t].from \in Users /\ req'[t].to \in Users
            \/ /\ pc' = [pc EXCEPT ![t] = "get_record"] /\ req'[t].kind = "Del"
               /\ req'[t].task \in TaskIds
            \/ pc' = [pc EXCEPT ![t] = "list_select"] /\ req'[t].kind = "Has"
            \/ /\ pc' = [pc EXCEPT ![t] = "reply"]
               /\ req'[t].kind \in {"Add", "Del"} /\ reply'[t].result = 2
            \/ /\ pc' = [pc EXCEPT ![t] = "reply"] /\ req'[t].kind = "Has"
               /\ req'[t].to = 0 /\ reply'[t].list = {}
  <1>0. TypeOK /\ SentOK
    BY DEF IInv
  <1>1. PICK r \in Inputs :
          /\ req' = [req EXCEPT ![t] =
               [id |-> nextReq, kind |-> r.kind, from |-> r.from, to |-> r.to, task |-> r.task]]
          /\ loc' = [loc EXCEPT ![t] =
               IF r.kind = "Has"
               THEN [now |-> clock, before |-> Len(files), gone |-> ToldReceived]
               ELSE [NoLocals EXCEPT !.now = clock]]
          /\ \/ r.kind = "Add" /\ AddAccept(t, r)
             \/ r.kind = "Del" /\ DelAccept(t, r)
             \/ r.kind = "Has" /\ HasAccept(t, r)
    BY DEF Accept
  <1>2. /\ pc[t] = "idle" /\ nextReq' = nextReq + 1
        /\ UNCHANGED <<files, accepts, clock, answers, lists, failed, boot>>
    BY DEF Accept
  <1>3. r \in [kind : Kinds, from : Ids, to : Ids, task : TaskIds \cup {NoTask},
               named : BOOLEAN]
    BY FileInputsAssumption
  <1>4. /\ req' \in [Threads -> Requests] /\ req'[t].id = nextReq
        /\ req'[t].kind = r.kind /\ req'[t].from = r.from /\ req'[t].to = r.to
        /\ req'[t].task = r.task
    BY <1>0, <1>1, <1>3 DEF TypeOK, Requests
  <1>5. /\ loc' \in [Threads -> Locals] /\ loc'[t].now = clock
        /\ loc'[t].before \in {0, Len(files)} /\ loc'[t].gone \in {{}, ToldReceived}
    <2> DEFINE l == IF r.kind = "Has"
                    THEN [now |-> clock, before |-> Len(files), gone |-> ToldReceived]
                    ELSE [NoLocals EXCEPT !.now = clock]
    <2>1. clock \in Nat /\ Len(files) \in Nat
      BY <1>0, FileTimeAssumption, LenProperties DEF TypeOK
    <2>2. ToldReceived \in SUBSET TaskIds
      BY <1>0 DEF ToldReceived, SentOK
    <2>3. /\ l \in Locals /\ l.now = clock
          /\ l.before \in {0, Len(files)} /\ l.gone \in {{}, ToldReceived}
      BY <2>1, <2>2 DEF Locals, NoLocals
    <2>4. loc' = [loc EXCEPT ![t] = l]
      BY <1>1
    <2> HIDE DEF l
    <2> QED BY <1>0, <2>3, <2>4 DEF TypeOK
  <1> USE DEF Finish, Goto
  <1>6. reply' \in [Threads -> Replies]
    BY <1>0, <1>1 DEF AddAccept, DelAccept, HasAccept, TypeOK, Replies
  <1>7. CASE r.kind = "Add" /\ AddAccept(t, r)
    <2>1. CASE Finish(t, 2, {})
      BY <1>0, <1>2, <1>4, <1>5, <1>6, <1>7, <2>1 DEF TypeOK
    <2>2. CASE r.from # 0 /\ r.to # 0 /\ Goto(t, "save_insert")
      BY <1>2, <1>3, <1>4, <1>5, <1>6, <1>7, <2>2 DEF Ids
    <2> QED BY <1>7, <2>1, <2>2 DEF AddAccept
  <1>8. CASE r.kind = "Del" /\ DelAccept(t, r)
    <2>1. CASE Finish(t, 2, {})
      BY <1>0, <1>2, <1>4, <1>5, <1>6, <1>8, <2>1 DEF TypeOK
    <2>2. CASE r.task # NoTask /\ Goto(t, "get_record")
      BY <1>2, <1>3, <1>4, <1>5, <1>6, <1>8, <2>2
    <2> QED BY <1>8, <2>1, <2>2 DEF DelAccept
  <1>9. CASE r.kind = "Has" /\ HasAccept(t, r)
    <2>1. CASE r.to = 0 /\ Finish(t, 0, {})
      BY <1>0, <1>2, <1>4, <1>5, <1>6, <1>9, <2>1 DEF TypeOK
    <2>2. CASE Goto(t, "list_select")
      BY <1>2, <1>4, <1>5, <1>6, <1>9, <2>2
    <2> QED BY <1>9, <2>1, <2>2 DEF HasAccept
  <1> QED BY <1>1, <1>7, <1>8, <1>9

(* Every step keeps the types.                                             *)
LEMMA TypeStep ==
  ASSUME IInv, [Next]_vars
  PROVE  TypeOK'
  <1>0. TypeOK /\ \A t \in Threads : ReqOK(t)
    BY DEF IInv
  <1>1. CASE UNCHANGED vars
    BY <1>0, <1>1 DEF vars, TypeOK
  <1>2. CASE Restart
    BY <1>0, <1>2, InitialValues DEF Restart, TypeOK, Labels
  <1>3. CASE Tick
    BY <1>0, <1>3 DEF Tick, TypeOK
  <1>4. ASSUME NEW t \in Threads, Accept(t) PROVE TypeOK'
    <2>1. pc' \in [Threads -> Labels]
      BY <1>0, <1>4, AcceptShape DEF TypeOK, Labels
    <2>2. /\ nextReq' = nextReq + 1
          /\ UNCHANGED <<files, accepts, clock, answers, lists, failed, boot>>
          /\ req' \in [Threads -> Requests] /\ loc' \in [Threads -> Locals]
          /\ reply' \in [Threads -> Replies]
      BY <1>4, AcceptShape
    <2> QED BY <1>0, <2>1, <2>2 DEF TypeOK
  <1>5. ASSUME NEW t \in Threads, SaveFileRecord(t) PROVE TypeOK'
    <2>1. pc' \in [Threads -> Labels] /\ reply' \in [Threads -> Replies]
      BY <1>0, <1>5, FinishTypes DEF SaveFileRecord
    <2>2. failed' \subseteq Nat
      BY <1>0, <1>5, Frame DEF Work
    <2> QED BY <1>0, <1>5, <2>1, <2>2, InsertShape DEF TypeOK
  <1>6. ASSUME NEW t \in Threads, DeleteFileRecord(t) PROVE TypeOK'
    <2>1. pc' \in [Threads -> Labels] /\ reply' \in [Threads -> Replies]
      BY <1>0, <1>6, FinishTypes DEF DeleteFileRecord
    <2>2. files' \in Seq(FileRows) /\ failed' \subseteq Nat
      BY <1>0, <1>6, DeleteShape, Frame DEF Work
    <2> QED BY <1>0, <1>6, <2>1, <2>2 DEF TypeOK, DeleteFileRecord
  <1>7. ASSUME NEW t \in Threads, GetFileRecord(t) PROVE TypeOK'
    <2>1. pc' \in [Threads -> Labels] /\ reply' \in [Threads -> Replies]
      <3>1. CASE Finish(t, 2, {})
        BY <1>0, <3>1, FinishTypes
      <3>2. CASE Goto(t, "delete_update") /\ UNCHANGED reply
        BY <1>0, <3>2 DEF Goto, TypeOK, Labels
      <3> QED BY <1>7, <3>1, <3>2 DEF GetFileRecord
    <2>2. failed' \subseteq Nat
      BY <1>0, <1>7, Frame DEF Work
    <2> QED BY <1>0, <1>7, <2>1, <2>2 DEF TypeOK, GetFileRecord
  <1>8. ASSUME NEW t \in Threads, GetUserFiles(t) PROVE TypeOK'
    <2>1. Wanted(t) \in SUBSET Nat
      BY <1>0, LenProperties DEF Wanted, TypeOK
    <2>2. PICK list \in SUBSET Nat : Finish(t, 0, list)
      BY <1>8, <2>1 DEF GetUserFiles
    <2>3. pc' \in [Threads -> Labels] /\ reply' \in [Threads -> Replies]
      BY <1>0, <2>2, FinishTypes
    <2>4. failed' \subseteq Nat
      BY <1>0, <1>8, Frame DEF Work
    <2> QED BY <1>0, <1>8, <2>3, <2>4 DEF TypeOK, GetUserFiles
  <1>9. ASSUME NEW t \in Threads, SendSessionData(t) PROVE TypeOK'
    <2>1. req[t] \in Requests /\ loc[t] \in Locals /\ reply[t] \in Replies
      BY <1>0 DEF TypeOK
    <2>2. lists' \subseteq
            [id : Nat, to : Ids, at : Nat, before : Nat, gone : SUBSET TaskIds, list : SUBSET Nat]
      BY <1>0, <1>9, <2>1 DEF SendSessionData, TypeOK, Requests, Locals, Replies
    <2>3. answers' \subseteq
            [id : Nat, kind : Kinds, task : TaskIds \cup {NoTask}, result : {0, 2}]
      BY <1>0, <1>9, <2>1 DEF SendSessionData, TypeOK, Requests, Replies
    <2>4. pc' \in [Threads -> Labels]
      BY <1>0, <1>9 DEF SendSessionData, Goto, TypeOK, Labels
    <2> QED BY <1>0, <1>9, <2>2, <2>3, <2>4, InitialValues DEF SendSessionData, TypeOK
  <1> QED BY <1>1, <1>2, <1>3, <1>4, <1>5, <1>6, <1>7, <1>8, <1>9 DEF Next, Work

-----------------------------------------------------------------------------
(* What is true of the table stays true while its rows are kept.           *)

(* An answer that was true stays true: files are added and marked, never   *)
(* removed.                                                                *)
LEMMA StaysTrue ==
  ASSUME IInv, [Next]_vars
  PROVE  /\ \A task : RowsOf(task) \subseteq RowsOf(task)'
         /\ \A task : Received(task) => Received(task)'
         /\ \A list, gone : OneHidden(list, gone) => OneHidden(list, gone)'
         /\ \A id, list, to, at : \A before \in Nat :
              AllFresh(id, list, to, before, at) => AllFresh(id, list, to, before, at)'
  <1>1. /\ FilesKept /\ failed \subseteq failed'
        /\ \A i \in DOMAIN files : i \in DOMAIN files'
        /\ Len(files) \in Nat /\ Len(files') \in Nat /\ Len(files) <= Len(files')
        /\ DOMAIN files = 1 .. Len(files)
        /\ \A i \in DOMAIN files : files[i].status \in {0, 1}
    <2>1. TypeOK /\ TypeOK' /\ FilesKept /\ failed \subseteq failed'
      BY KeptStep, TypeStep DEF IInv
    <2>2. /\ DOMAIN files = 1 .. Len(files) /\ Len(files) \in Nat
          /\ DOMAIN files' = 1 .. Len(files') /\ Len(files') \in Nat
          /\ Len(files) <= Len(files')
      BY <2>1, LenProperties DEF TypeOK, FilesKept
    <2>3. \A i \in DOMAIN files : files[i] \in FileRows
      BY <2>1, <2>2, ElementOfSeq DEF TypeOK
    <2> QED BY <2>1, <2>2, <2>3 DEF TypeOK, FileRows
  <1>2. ASSUME NEW task PROVE RowsOf(task) \subseteq RowsOf(task)'
    BY <1>1 DEF FilesKept, RowsOf
  <1>3. ASSUME NEW task, NEW i \in RowsOf(task), files[i].status = 0
        PROVE  i \in RowsOf(task)' /\ files'[i].status = 0
    BY <1>1, <1>2, <1>3 DEF FilesKept, RowsOf
  <1>4. ASSUME NEW task, Received(task) PROVE Received(task)'
    BY <1>3, <1>4 DEF Received
  <1>5. ASSUME NEW list, NEW gone, OneHidden(list, gone) PROVE OneHidden(list, gone)'
    BY <1>3, <1>5 DEF OneHidden
  <1>6. ASSUME NEW id, NEW list, NEW to, NEW at, NEW before \in Nat,
               AllFresh(id, list, to, before, at)
        PROVE  AllFresh(id, list, to, before, at)'
    <2>1. before <= Len(files')
      BY <1>1, <1>6 DEF AllFresh
    <2>2. ASSUME id \notin failed', Cardinality(list) < FILES_LIMIT, NEW i \in 1 .. before,
                 files'[i].toUserId = to, files'[i].status = 1, files'[i].made > at - WEEK
          PROVE  i \in list
      <3>1. i \in DOMAIN files /\ id \notin failed
        BY <1>1, <1>6, <2>2 DEF AllFresh
      <3>2. /\ files[i].toUserId = to /\ files[i].made = files'[i].made
            /\ files[i].status = 1
        BY <1>1, <2>2, <3>1 DEF FilesKept
      <3> QED BY <1>6, <2>2, <3>1, <3>2 DEF AllFresh
    <2> QED BY <2>1, <2>2 DEF AllFresh
  <1> QED BY <1>2, <1>4, <1>5, <1>6

(* The rows of a request change only when its thread stores its file.      *)
LEMMA RowsForStep ==
  ASSUME IInv, NEW t \in Threads, Accept(t) \/ Work(t), NEW id
  PROVE  \/ RowsFor(id)' = RowsFor(id)
         \/ /\ SaveFileRecord(t) /\ req[t].id = id /\ failed' = failed /\ accepts
            /\ Cardinality(RowsFor(id)') = Cardinality(RowsFor(id)) + 1
  <1>0. TypeOK /\ ReqOK(t) /\ Len(files) \in Nat /\ DOMAIN files = 1 .. Len(files)
    BY LenProperties DEF IInv, TypeOK
  <1>1. CASE files' = files
    BY <1>1 DEF RowsFor
  <1>2. CASE DeleteFileRecord(t)
    <2>1. FilesKept /\ Len(files') = Len(files) /\ files' \in Seq(FileRows)
      BY <1>0, <1>2, KeptStep, DeleteShape DEF Next
    <2>2. DOMAIN files' = DOMAIN files
      BY <1>0, <2>1, LenProperties
    <2> QED BY <2>1, <2>2 DEF FilesKept, RowsFor
  <1>3. CASE SaveFileRecord(t) /\ files' # files
    <2> DEFINE n == Len(files) + 1
    <2>1. /\ files' \in Seq(FileRows) /\ failed' = failed /\ accepts
          /\ Len(files') = n /\ files'[n] = NewRow(t)
          /\ \A i \in DOMAIN files : files'[i] = files[i]
      BY <1>0, <1>3, InsertShape
    <2>2. DOMAIN files' = DOMAIN files \cup {n} /\ n \notin DOMAIN files
      BY <1>0, <2>1, LenProperties
    <2>3. NewRow(t).req = req[t].id
      BY DEF NewRow
    <2> HIDE DEF n
    <2>4. CASE req[t].id = id
      <3>1. RowsFor(id)' = RowsFor(id) \cup {n} /\ n \notin RowsFor(id)
        BY <2>1, <2>2, <2>3, <2>4 DEF RowsFor
      <3>2. IsFiniteSet(RowsFor(id))
        <4>1. IsFiniteSet(1 .. Len(files))
          BY <1>0, FS_Interval
        <4> QED BY <1>0, <4>1, FS_Subset DEF RowsFor
      <3>3. Cardinality(RowsFor(id)') = Cardinality(RowsFor(id)) + 1
        BY <3>1, <3>2, FS_AddElement
      <3> QED BY <1>3, <2>1, <2>4, <3>3
    <2>5. CASE req[t].id # id
      <3>1. RowsFor(id)' = RowsFor(id)
        BY <2>1, <2>2, <2>3, <2>5 DEF RowsFor
      <3> QED BY <3>1
    <2> QED BY <2>4, <2>5
  <1> QED BY <1>0, <1>1, <1>2, <1>3, Frame

(* An answer that is true stays true: no later step stores a file for its  *)
(* request or makes a received file pending.                               *)
LEMMA TruthStays ==
  ASSUME IInv, NEW t \in Threads, Accept(t) \/ Work(t), NEW id, NEW kind, NEW task,
         NEW result, Truth(id, kind, task, result),
         SaveFileRecord(t) => req[t].id # id
  PROVE  Truth(id, kind, task, result)'
  <1>1. RowsFor(id)' = RowsFor(id)
    BY RowsForStep
  <1>2. Received(task) => Received(task)'
    BY StaysTrue DEF Next
  <1>3. accepts' = accepts /\ failed \subseteq failed'
    <2>1. TypeOK
      BY DEF IInv
    <2> QED BY <2>1, Frame DEF TypeOK
  <1> QED BY <1>1, <1>2, <1>3 DEF Truth

-----------------------------------------------------------------------------
(* The parts of IInv, one by one.                                          *)

(* A row's times: stored once, as the handler read them.                   *)
LEMMA RowsStep ==
  ASSUME IInv, [Next]_vars
  PROVE  RowsOK'
  <1>0. /\ TypeOK /\ TypeOK' /\ RowsOK /\ FilesKept
        /\ clock \in Nat /\ clock' \in Nat /\ clock <= clock'
        /\ \A t \in Threads : ReqOK(t) /\ TimeOK(t)
    BY TypeStep, KeptStep, FileTimeAssumption DEF IInv, TypeOK
  <1>1. ASSUME NEW i \in DOMAIN files
        PROVE  files'[i].created = files'[i].made % WORD /\ files'[i].made <= clock'
    <2>1. files[i].made \in Nat
      <3>1. files[i] \in FileRows
        BY <1>0, LenProperties, ElementOfSeq DEF TypeOK
      <3> QED BY <3>1 DEF FileRows
    <2> QED BY <1>0, <2>1 DEF RowsOK, FilesKept
  <1>2. CASE Len(files') = Len(files)
    <2>1. DOMAIN files' = DOMAIN files
      BY <1>0, <1>2, LenProperties DEF TypeOK
    <2> QED BY <1>1, <2>1 DEF RowsOK
  <1>3. ASSUME NEW t \in Threads, SaveFileRecord(t) PROVE RowsOK'
    <2>1. CASE files' = files
      BY <1>2, <2>1
    <2>2. CASE files' # files
      <3>1. /\ Len(files') = Len(files) + 1 /\ files'[Len(files) + 1] = NewRow(t)
            /\ clock' = clock /\ pc[t] = "save_insert"
        BY <1>0, <1>3, <2>2, InsertShape
      <3>2. NewRow(t).made = loc[t].now /\ NewRow(t).created = loc[t].now % WORD
        BY DEF NewRow
      <3>3. loc[t].now <= clock
        BY <1>0, <3>1 DEF TimeOK
      <3>4. \A i \in DOMAIN files' : i \in DOMAIN files \/ i = Len(files) + 1
        BY <1>0, <3>1, LenProperties DEF TypeOK
      <3> QED BY <1>1, <3>1, <3>2, <3>3, <3>4 DEF RowsOK
    <2> QED BY <2>1, <2>2
  <1>4. ASSUME NEW t \in Threads, DeleteFileRecord(t) PROVE RowsOK'
    BY <1>0, <1>2, <1>4, DeleteShape
  <1>5. CASE Restart \/ Tick \/ UNCHANGED vars
    BY <1>2, <1>5 DEF Restart, Tick, vars
  <1> QED BY <1>0, <1>2, <1>3, <1>4, <1>5, Frame DEF Next

(* Between Accept and SendSessionData a thread keeps its request.          *)
LEMMA BusyStep ==
  ASSUME TypeOK, NEW t \in Threads, Work(t), ~ SendSessionData(t)
  PROVE  /\ pc[t] # "idle" /\ pc'[t] # "idle"
         /\ UNCHANGED <<clock, req, loc, nextReq, answers, lists>>
  <1> USE DEF TypeOK, Finish, Goto
  <1>1. CASE SaveFileRecord(t) BY <1>1 DEF SaveFileRecord
  <1>2. CASE GetFileRecord(t) BY <1>2 DEF GetFileRecord
  <1>3. CASE DeleteFileRecord(t) BY <1>3 DEF DeleteFileRecord
  <1>4. CASE GetUserFiles(t) BY <1>4 DEF GetUserFiles
  <1> QED BY <1>1, <1>2, <1>3, <1>4 DEF Work

(* Every request has a number of its own, which its row and its answer     *)
(* carry; a restart forgets the requests at work, not their numbers.       *)
LEMMA RequestIdsStep ==
  ASSUME IInv, [Next]_vars
  PROVE  RequestIds'
  <1>0. /\ TypeOK /\ TypeOK' /\ RequestIds /\ \A t \in Threads : ReqOK(t)
        /\ nextReq \in Nat
        /\ \A o \in Threads : req[o].id \in Nat
        /\ \A a \in answers : a.id \in Nat
        /\ \A i \in DOMAIN files : files[i].req \in Nat
    <2>1. TypeOK /\ TypeOK' /\ RequestIds /\ \A t \in Threads : ReqOK(t)
      BY TypeStep DEF IInv
    <2>2. \A i \in DOMAIN files : files[i] \in FileRows
      BY <2>1, LenProperties, ElementOfSeq DEF TypeOK
    <2> QED BY <2>1, <2>2 DEF TypeOK, Requests, FileRows
  <1>1. CASE UNCHANGED vars
    BY <1>0, <1>1 DEF vars, RequestIds
  <1>2. CASE Restart
    BY <1>0, <1>2 DEF Restart, RequestIds
  <1>3. CASE Tick
    BY <1>0, <1>3 DEF Tick, RequestIds
  <1>4. ASSUME NEW t \in Threads, Accept(t) \/ Work(t) PROVE RequestIds'
    <2>1. \A o \in Threads \ {t} : pc'[o] = pc[o] /\ req'[o] = req[o]
      BY <1>0, <1>4, Frame
    <2>2. CASE Accept(t)
      <3>1. /\ req'[t].id = nextReq /\ nextReq' = nextReq + 1
            /\ UNCHANGED <<files, answers>>
        BY <2>2, AcceptShape
      <3>2. /\ \A o \in Threads : pc'[o] # "idle" => req'[o].id < nextReq'
            /\ \A o \in Threads \ {t} : pc'[o] # "idle" => req'[o].id < nextReq
        BY <1>0, <2>1, <3>1 DEF RequestIds
      <3>3. \A o, p \in Threads :
              o # p /\ pc'[o] # "idle" /\ pc'[p] # "idle" => req'[o].id # req'[p].id
        BY <1>0, <2>1, <3>1, <3>2 DEF RequestIds
      <3>4. \A i \in DOMAIN files' : files'[i].req < nextReq'
        BY <1>0, <3>1 DEF RequestIds
      <3>5. \A a \in answers' :
              /\ a.id < nextReq'
              /\ \A o \in Threads : pc'[o] # "idle" => req'[o].id # a.id
        BY <1>0, <2>1, <3>1 DEF RequestIds
      <3> QED BY <3>2, <3>3, <3>4, <3>5 DEF RequestIds
    <2>3. CASE SendSessionData(t)
      <3>1. pc[t] = "reply" /\ pc'[t] = "idle" /\ UNCHANGED <<files, nextReq>>
        BY <1>0, <2>3 DEF SendSessionData, Goto, TypeOK
      <3>2. \A a \in answers' : a \in answers \/ a.id = req[t].id
        BY <2>3 DEF SendSessionData
      <3> QED BY <1>0, <2>1, <3>1, <3>2 DEF RequestIds
    <2>4. CASE Work(t) /\ ~ SendSessionData(t)
      <3>1. /\ pc[t] # "idle" /\ pc'[t] # "idle" /\ UNCHANGED <<req, nextReq, answers>>
        BY <1>0, <2>4, BusyStep
      <3>2. \A i \in DOMAIN files' : files'[i].req < nextReq
        <4>1. CASE files' = files
          BY <1>0, <4>1 DEF RequestIds
        <4>2. CASE SaveFileRecord(t) /\ files' # files
          <5>1. /\ files' \in Seq(FileRows)
                /\ Len(files') = Len(files) + 1 /\ files'[Len(files) + 1] = NewRow(t)
                /\ \A i \in DOMAIN files : files'[i] = files[i]
            BY <1>0, <4>2, InsertShape
          <5>2. NewRow(t).req = req[t].id
            BY DEF NewRow
          <5>3. \A i \in DOMAIN files' : i \in DOMAIN files \/ i = Len(files) + 1
            BY <1>0, <5>1, LenProperties DEF TypeOK
          <5> QED BY <1>0, <3>1, <5>1, <5>2, <5>3 DEF RequestIds
        <4>3. CASE DeleteFileRecord(t)
          <5>1. FilesKept /\ Len(files') = Len(files)
            BY <1>0, <1>4, <4>3, DeleteShape, KeptStep DEF Next
          <5>2. DOMAIN files' = DOMAIN files
            BY <1>0, <5>1, LenProperties DEF TypeOK
          <5> QED BY <1>0, <5>1, <5>2 DEF FilesKept, RequestIds
        <4> QED BY <1>0, <1>4, <4>1, <4>2, <4>3, Frame
      <3> QED BY <1>0, <2>1, <3>1, <3>2 DEF RequestIds
    <2> QED BY <1>4, <2>2, <2>3, <2>4
  <1> QED BY <1>1, <1>2, <1>3, <1>4 DEF Next

(* What a handler has checked and when it read the clock.                  *)
LEMMA HandlerStep ==
  ASSUME IInv, [Next]_vars, NEW o \in Threads
  PROVE  ReqOK(o)' /\ TimeOK(o)'
  <1>0. /\ TypeOK /\ TypeOK' /\ ReqOK(o) /\ TimeOK(o) /\ RowsOK /\ FilesKept
        /\ clock \in Times /\ clock' \in Times /\ clock <= clock'
        /\ Len(files) \in Nat /\ Len(files') \in Nat /\ DOMAIN files = 1 .. Len(files)
        /\ Times \subseteq Nat
    BY TypeStep, KeptStep, LenProperties, FileTimeAssumption DEF IInv, TypeOK
  <1>1. ASSUME pc'[o] # "idle" => pc[o] # "idle", loc'[o] = loc[o] PROVE TimeOK(o)'
    <2>1. loc[o].before \in Nat /\ loc[o].now \in Nat
      BY <1>0 DEF TypeOK, Locals
    <2> QED BY <1>0, <1>1, <2>1 DEF TimeOK, FilesKept
  <1>2. ASSUME pc'[o] = pc[o], req'[o] = req[o], loc'[o] = loc[o], reply'[o] = reply[o]
        PROVE  ReqOK(o)' /\ TimeOK(o)'
    BY <1>0, <1>1, <1>2 DEF ReqOK
  <1>3. CASE UNCHANGED vars \/ Tick
    BY <1>2, <1>3 DEF vars, Tick
  <1>4. CASE Restart
    BY <1>4 DEF Restart, ReqOK, TimeOK
  <1>5. ASSUME NEW t \in Threads, Accept(t) \/ Work(t), t # o PROVE ReqOK(o)' /\ TimeOK(o)'
    BY <1>0, <1>2, <1>5, Frame
  <1>6. CASE Accept(o)
    <2>1. /\ UNCHANGED <<files, clock>> /\ loc'[o].now = clock
          /\ loc'[o].before \in {0, Len(files)}
      BY <1>6, AcceptShape
    <2>2. TimeOK(o)'
      BY <1>0, <2>1 DEF TimeOK, RowsOK
    <2>3. ReqOK(o)'
      <3>1. o \in DOMAIN pc
        BY <1>0 DEF TypeOK
      <3> QED BY <1>6, <3>1, AcceptShape DEF ReqOK
    <2> QED BY <2>2, <2>3
  <1>7. CASE SendSessionData(o)
    <2>1. pc'[o] = "idle"
      BY <1>0, <1>7 DEF SendSessionData, Goto, TypeOK
    <2> QED BY <2>1 DEF ReqOK, TimeOK
  <1>8. CASE Work(o) /\ ~ SendSessionData(o)
    <2>1. TimeOK(o)'
      BY <1>0, <1>1, <1>8, BusyStep
    <2>2. req' = req
      BY <1>0, <1>8, BusyStep
    <2>3. CASE SaveFileRecord(o) \/ DeleteFileRecord(o) \/ GetUserFiles(o)
      <3>1. pc'[o] = "reply" /\ pc[o] \in {"save_insert", "delete_update", "list_select"}
        BY <1>0, <2>3 DEF SaveFileRecord, DeleteFileRecord, GetUserFiles, Finish, Goto, TypeOK
      <3> QED BY <1>0, <2>1, <2>2, <3>1 DEF ReqOK
    <2>4. CASE GetFileRecord(o)
      <3>1. pc[o] = "get_record" /\ pc'[o] \in {"delete_update", "reply"}
        BY <1>0, <2>4 DEF GetFileRecord, Finish, Goto, TypeOK
      <3> QED BY <1>0, <2>1, <2>2, <3>1 DEF ReqOK
    <2> QED BY <1>8, <2>3, <2>4 DEF Work
  <1> QED BY <1>3, <1>4, <1>5, <1>6, <1>7, <1>8 DEF Next

(* A handler's answer is true when it has it, and stays true.              *)
LEMMA AnswerStep ==
  ASSUME IInv, [Next]_vars, NEW o \in Threads
  PROVE  AnswerOK(o)'
  <1>0. /\ TypeOK /\ TypeOK' /\ ReqOK(o) /\ AnswerOK(o) /\ RequestIds
        /\ pc \in [Threads -> Labels] /\ reply \in [Threads -> Replies]
    BY TypeStep DEF IInv, TypeOK
  <1>1. CASE UNCHANGED vars \/ Tick
    <2>1. UNCHANGED <<files, accepts, pc, req, reply, failed>>
      BY <1>1 DEF vars, Tick
    <2> QED BY <1>0, <2>1 DEF AnswerOK, Truth, RowsFor, RowsOf, Received
  <1>2. CASE Restart
    BY <1>2 DEF Restart, AnswerOK
  <1>3. ASSUME NEW t \in Threads, Accept(t) \/ Work(t), t # o PROVE AnswerOK(o)'
    <2>1. pc'[o] = pc[o] /\ req'[o] = req[o] /\ reply'[o] = reply[o]
      BY <1>0, <1>3, Frame
    <2>2. SUFFICES ASSUME pc[o] # "idle" PROVE AnswerOK(o)'
      BY <2>1 DEF AnswerOK
    <2>3. SaveFileRecord(t) => req[t].id # req[o].id
      BY <1>0, <1>3, <2>2 DEF SaveFileRecord, RequestIds
    <2>4. pc[o] = "save_insert" => RowsFor(req[o].id)' = RowsFor(req[o].id)
      BY <1>3, <2>1, <2>3, RowsForStep
    <2>5. RowsOf(req[o].task) \subseteq RowsOf(req[o].task)'
      BY <2>1, StaysTrue
    <2>6. ASSUME pc[o] = "reply"
          PROVE  Truth(req[o].id, req[o].kind, req[o].task, reply[o].result)'
      <3> DEFINE id == req[o].id  kind == req[o].kind  task == req[o].task
                 result == reply[o].result
      <3>1. Truth(id, kind, task, result)
        BY <1>0, <2>6 DEF AnswerOK
      <3>2. id' = id /\ kind' = kind /\ task' = task /\ result' = result
        BY <2>1
      <3>3. RowsFor(id)' = RowsFor(id)
        BY <1>3, <2>1, <2>3, RowsForStep
      <3>4. Received(task) => Received(task)'
        BY <2>1, StaysTrue
      <3>5. accepts' = accepts /\ failed \subseteq failed'
        BY <1>0, <1>3, Frame
      <3> HIDE DEF id, kind, task, result
      <3>6. Truth(id, kind, task, result)'
        BY <3>1, <3>2, <3>3, <3>4, <3>5 DEF Truth
      <3> QED BY <3>6 DEF id, kind, task, result
    <2> QED BY <1>0, <2>1, <2>4, <2>5, <2>6 DEF AnswerOK
  <1>4. CASE Accept(o)
    <2>1. req'[o].id = nextReq /\ files' = files
      BY <1>4, AcceptShape
    <2>2. RowsFor(req[o].id)' = {}
      <3>1. ASSUME NEW i \in DOMAIN files PROVE files[i].req # nextReq
        <4>1. files[i] \in FileRows
          BY <1>0, LenProperties, ElementOfSeq DEF TypeOK
        <4>2. files[i].req \in Nat /\ files[i].req < nextReq
          BY <1>0, <4>1 DEF FileRows, RequestIds
        <4> QED BY <1>0, <4>2 DEF TypeOK
      <3> QED BY <2>1, <3>1 DEF RowsFor
    <2>3. Cardinality(RowsFor(req[o].id)') = 0
      BY <2>2, FS_EmptySet
    <2>4. pc'[o] # "delete_update"
      BY <1>0, <1>4, AcceptShape
    <2>5. pc'[o] = "reply" =>
            \/ req'[o].kind \in {"Add", "Del"} /\ reply'[o].result = 2
            \/ req'[o].kind = "Has"
      BY <1>0, <1>4, AcceptShape
    <2> QED BY <2>3, <2>4, <2>5 DEF AnswerOK, Truth
  <1>5. CASE SaveFileRecord(o)
    <2>1. /\ pc[o] = "save_insert" /\ pc'[o] = "reply" /\ reply'[o].result = 0
          /\ req' = req /\ accepts' = accepts
      BY <1>0, <1>5, InsertShape
    <2>2. Cardinality(RowsFor(req[o].id)) = 0 /\ req[o].kind = "Add"
      BY <1>0, <2>1 DEF AnswerOK, ReqOK
    <2>3. CASE files' = files
      <3>1. RowsFor(req[o].id)' = RowsFor(req[o].id)
        BY <2>1, <2>3 DEF RowsFor
      <3>2. req[o].id \in failed' \/ ~ accepts
        <4>1. Len(files) # Len(files) + 1
          BY <1>0, LenProperties DEF TypeOK
        <4> QED BY <1>0, <1>5, <2>3, <4>1, InsertShape
      <3> QED BY <2>1, <2>2, <3>1, <3>2 DEF AnswerOK, Truth
    <2>4. CASE files' # files
      <3>1. Cardinality(RowsFor(req[o].id)') = 1
        <4> DEFINE n == Len(files) + 1
        <4>1. /\ files' \in Seq(FileRows) /\ Len(files') = n /\ files'[n] = NewRow(o)
              /\ \A i \in DOMAIN files : files'[i] = files[i]
          BY <1>0, <1>5, <2>4, InsertShape
        <4>2. n \in DOMAIN files' /\ NewRow(o).req = req[o].id /\ n \notin DOMAIN files
          BY <1>0, <4>1, LenProperties DEF TypeOK, NewRow
        <4>3. RowsFor(req[o].id)' # RowsFor(req[o].id)
          <5> HIDE DEF n
          <5> QED BY <2>1, <4>1, <4>2 DEF RowsFor
        <4>4. RowsFor(req[o].id)' = RowsFor(req[o].id)
              \/ Cardinality(RowsFor(req[o].id)') = Cardinality(RowsFor(req[o].id)) + 1
          BY <1>5, <2>1, RowsForStep DEF Work
        <4> QED BY <2>2, <4>3, <4>4
      <3> QED BY <2>1, <2>2, <3>1 DEF AnswerOK, Truth
    <2> QED BY <2>3, <2>4
  <1>6. CASE GetFileRecord(o)
    <2>1. /\ pc[o] = "get_record" /\ UNCHANGED <<files, req>>
          /\ \/ pc'[o] = "reply" /\ reply'[o].result = 2
             \/ pc'[o] = "delete_update" /\ RowsOf(req[o].task) # {}
      BY <1>0, <1>6 DEF GetFileRecord, Finish, Goto
    <2>2. req[o].kind = "Del"
      BY <1>0, <2>1 DEF ReqOK
    <2> QED BY <2>1, <2>2 DEF AnswerOK, Truth, RowsOf
  <1>7. CASE DeleteFileRecord(o)
    <2>1. /\ pc[o] = "delete_update" /\ pc'[o] = "reply" /\ req' = req
      BY <1>0, <1>7, DeleteShape
    <2>2. RowsOf(req[o].task) # {} /\ req[o].kind = "Del"
      BY <1>0, <2>1 DEF AnswerOK, ReqOK
    <2>3. req[o].id \in failed' \/ Received(req[o].task)'
      <3>1. ASSUME NEW i \in RowsOf(req[o].task), files' = [files EXCEPT ![i].status = 0]
            PROVE  Received(req[o].task)'
        <4>1. i \in DOMAIN files /\ files[i] \in FileRows /\ files[i].taskId = req[o].task
          BY <1>0, LenProperties, ElementOfSeq DEF TypeOK, RowsOf
        <4>2. files'[i] = [files[i] EXCEPT !.status = 0] /\ i \in DOMAIN files'
          BY <3>1, <4>1
        <4>3. files'[i].status = 0 /\ files'[i].taskId = req[o].task
          BY <4>1, <4>2 DEF FileRows
        <4> QED BY <2>1, <4>2, <4>3 DEF Received, RowsOf
      <3> QED BY <1>0, <1>7, <2>2, <3>1, DeleteShape
    <2> QED BY <2>1, <2>2, <2>3 DEF AnswerOK, Truth
  <1>8. CASE GetUserFiles(o)
    <2>1. pc[o] = "list_select" /\ pc'[o] = "reply" /\ req' = req
      BY <1>0, <1>8 DEF GetUserFiles, Finish, Goto
    <2>2. req[o].kind = "Has"
      BY <1>0, <2>1 DEF ReqOK
    <2> QED BY <2>1, <2>2 DEF AnswerOK, Truth
  <1>9. CASE SendSessionData(o)
    BY <1>0, <1>9 DEF SendSessionData, Goto, AnswerOK
  <1> QED BY <1>1, <1>2, <1>3, <1>4, <1>5, <1>6, <1>7, <1>8, <1>9 DEF Next, Work

(* The SELECT finds every fresh file, and of every task told received it   *)
(* leaves out a file.                                                      *)
LEMMA SelectTrue ==
  ASSUME IInv, NEW t \in Threads, GetUserFiles(t)
  PROVE  /\ OneHidden(reply[t].list, loc[t].gone)'
         /\ AllFresh(req[t].id, reply[t].list, req[t].to, loc[t].before, loc[t].now)'
  <1>0. /\ TypeOK /\ RowsOK /\ TimeOK(t) /\ ListOK(t)
        /\ Len(files) \in Nat /\ DOMAIN files = 1 .. Len(files)
        /\ reply \in [Threads -> Replies]
    BY LenProperties DEF IInv, TypeOK
  <1>1. pc[t] = "list_select" /\ UNCHANGED <<files, req, loc>>
    BY DEF GetUserFiles
  <1>2. /\ loc[t].now \in Nat /\ WEEK <= loc[t].now
        /\ loc[t].before \in Nat /\ loc[t].before <= Len(files)
        /\ \A i \in 1 .. loc[t].before : files[i].made <= loc[t].now
    <2> DEFINE week == WEEK * MS
    <2>1. /\ loc[t].now \in Nat /\ week <= loc[t].now
          /\ MS \in Nat \ {0} /\ WEEK \in Nat
      BY <1>0, <1>1, FileTimeAssumption DEF TimeOK
    <2>2. week \in Nat /\ WEEK <= week
      BY <2>1, Z3
    <2> HIDE DEF week
    <2>3. loc[t].now \in Nat /\ WEEK <= loc[t].now
      BY <2>1, <2>2
    <2> QED BY <1>0, <1>1, <2>3 DEF TimeOK, TypeOK, Locals
  <1>3. CASE failed' = failed \cup {req[t].id} /\ Finish(t, 0, {})
    <2>1. reply'[t].list = {}
      BY <1>0, <1>3 DEF Finish
    <2> QED BY <1>0, <1>1, <1>2, <1>3, <2>1 DEF ListOK, Received, OneHidden, AllFresh, RowsOf
  <1>4. ASSUME NEW list \in SUBSET Wanted(t), failed' = failed,
               Cardinality(list) < FILES_LIMIT => list = Wanted(t), Finish(t, 0, list)
        PROVE  /\ OneHidden(reply[t].list, loc[t].gone)'
               /\ AllFresh(req[t].id, reply[t].list, req[t].to, loc[t].before, loc[t].now)'
    <2>1. reply'[t].list = list
      BY <1>0, <1>4 DEF Finish
    <2>2. OneHidden(list, loc[t].gone)
      <3>1. \A i \in list : files[i].status = 1
        BY <1>4 DEF Wanted
      <3> QED BY <1>0, <3>1 DEF ListOK, Received, OneHidden
    <2>3. AllFresh(req[t].id, list, req[t].to, loc[t].before, loc[t].now)
      <3>1. ASSUME Cardinality(list) < FILES_LIMIT, NEW i \in 1 .. loc[t].before,
                   files[i].toUserId = req[t].to, files[i].status = 1,
                   files[i].made > loc[t].now - WEEK
            PROVE  i \in list
        <4>1. i \in DOMAIN files
          BY <1>0, <1>2
        <4>2. files[i].made \in Nat
          <5>1. files[i] \in FileRows
            BY <1>0, <4>1, ElementOfSeq DEF TypeOK
          <5> QED BY <5>1 DEF FileRows
        <4>3. files[i].made % WORD > Window(t)
          BY <1>2, <3>1, <4>2, FreshAboveWindow DEF Window
        <4>4. i \in Wanted(t)
          BY <1>0, <3>1, <4>1, <4>3 DEF Wanted, RowsOK
        <4> QED BY <1>4, <3>1, <4>4
      <3> QED BY <1>2, <3>1 DEF AllFresh
    <2> QED BY <1>1, <1>4, <2>1, <2>2, <2>3 DEF OneHidden, AllFresh, RowsOf
  <1>5. \/ failed' = failed \cup {req[t].id} /\ Finish(t, 0, {})
        \/ \E list \in SUBSET Wanted(t) :
             /\ failed' = failed /\ Finish(t, 0, list)
             /\ Cardinality(list) < FILES_LIMIT => list = Wanted(t)
    BY DEF GetUserFiles, Fault, Sound
  <1> QED BY <1>3, <1>4, <1>5

(* A handler's list is right when it has it, and stays right.              *)
LEMMA ListStep ==
  ASSUME IInv, [Next]_vars, NEW o \in Threads
  PROVE  ListOK(o)'
  <1>0. /\ TypeOK /\ TypeOK' /\ ReqOK(o) /\ ListOK(o) /\ SentOK
        /\ pc \in [Threads -> Labels] /\ loc[o].before \in Nat
        /\ Len(files) \in Nat
    BY TypeStep, LenProperties DEF IInv, TypeOK, Locals
  <1>1. ASSUME loc'[o] = loc[o]
        PROVE  \A task \in loc'[o].gone : Received(task)'
    BY <1>0, <1>1, StaysTrue DEF ListOK
  <1>2. ASSUME pc'[o] = pc[o], req'[o] = req[o], loc'[o] = loc[o], reply'[o] = reply[o]
        PROVE  ListOK(o)'
    <2> DEFINE list == reply[o].list  gone == loc[o].gone  to == req[o].to
               before == loc[o].before  now == loc[o].now  id == req[o].id
    <2>1. /\ list' = list /\ gone' = gone /\ to' = to /\ before' = before /\ now' = now
          /\ id' = id
          /\ before \in Nat
      BY <1>0, <1>2
    <2>2. pc[o] = "reply" /\ req[o].kind = "Has" =>
            OneHidden(list, gone) /\ AllFresh(id, list, to, before, now)
      BY <1>0 DEF ListOK
    <2> HIDE DEF list, gone, to, before, now, id
    <2>3. OneHidden(list, gone) => OneHidden(list, gone)'
      <3>1. ASSUME OneHidden(list, gone) PROVE OneHidden(list, gone)'
        BY <2>1, <3>1, StaysTrue DEF OneHidden
      <3> QED BY <3>1
    <2>4. AllFresh(id, list, to, before, now) => AllFresh(id, list, to, before, now)'
      BY <2>1, StaysTrue DEF AllFresh
    <2>5. pc'[o] = "reply" /\ req'[o].kind = "Has" =>
            OneHidden(list, gone)' /\ AllFresh(id, list, to, before, now)'
      BY <1>2, <2>2, <2>3, <2>4
    <2> QED BY <1>1, <1>2, <2>5 DEF ListOK, list, gone, to, before, now, id
  <1>3. CASE UNCHANGED vars \/ Tick
    BY <1>2, <1>3 DEF vars, Tick
  <1>4. CASE Restart
    BY <1>4 DEF Restart, ListOK, NoLocals
  <1>5. ASSUME NEW t \in Threads, Accept(t) \/ Work(t), t # o PROVE ListOK(o)'
    BY <1>0, <1>2, <1>5, Frame
  <1>6. CASE Accept(o)
    <2>1. /\ UNCHANGED <<files, failed>> /\ loc'[o].gone \in {{}, ToldReceived}
          /\ loc'[o].before \in {0, Len(files)}
      BY <1>6, AcceptShape
    <2>2. \A task \in loc'[o].gone : Received(task)'
      <3>1. \A task \in ToldReceived : Received(task)
        BY <1>0 DEF SentOK, Truth, ToldReceived
      <3> QED BY <2>1, <3>1 DEF Received, RowsOf
    <2>3. pc'[o] = "reply" /\ req'[o].kind = "Has" => req'[o].to = 0 /\ reply'[o].list = {}
      BY <1>0, <1>6, AcceptShape
    <2>4. \A i \in DOMAIN files : files[i].toUserId # 0
      <3>1. \A i \in DOMAIN files : files[i] \in FileRows
        BY <1>0, LenProperties, ElementOfSeq DEF TypeOK
      <3> QED BY <3>1, FileUsersAssumption DEF FileRows
    <2>5. \A i \in 1 .. loc'[o].before : i \in DOMAIN files
      BY <1>0, <2>1, LenProperties DEF TypeOK
    <2>6. OneHidden({}, loc[o].gone)'
      BY <2>2 DEF OneHidden, Received
    <2>7. pc'[o] = "reply" /\ req'[o].kind = "Has" =>
            AllFresh(req[o].id, {}, req[o].to, loc[o].before, loc[o].now)'
      BY <1>0, <2>1, <2>3, <2>4, <2>5 DEF AllFresh
    <2> QED BY <2>2, <2>3, <2>6, <2>7 DEF ListOK
  <1>7. CASE SendSessionData(o)
    <2>1. pc'[o] = "idle" /\ loc'[o].gone = {}
      BY <1>0, <1>7 DEF SendSessionData, Goto, TypeOK, NoLocals
    <2> QED BY <2>1 DEF ListOK
  <1>8. CASE GetUserFiles(o)
    <2>1. loc'[o] = loc[o]
      BY <1>8 DEF GetUserFiles
    <2> QED BY <1>1, <1>8, <2>1, SelectTrue DEF ListOK
  <1>9. CASE SaveFileRecord(o) \/ GetFileRecord(o) \/ DeleteFileRecord(o)
    <2>1. /\ loc' = loc /\ req' = req
          /\ pc[o] \in {"save_insert", "get_record", "delete_update"}
      BY <1>9 DEF SaveFileRecord, GetFileRecord, DeleteFileRecord
    <2>2. req[o].kind # "Has"
      BY <1>0, <2>1 DEF ReqOK
    <2> QED BY <1>1, <2>1, <2>2 DEF ListOK
  <1> QED BY <1>3, <1>4, <1>5, <1>6, <1>7, <1>8, <1>9 DEF Next, Work

(* What was sent was true, and stays true.                                 *)
LEMMA SentStep ==
  ASSUME IInv, [Next]_vars
  PROVE  SentOK'
  <1>0. /\ TypeOK /\ TypeOK' /\ SentOK /\ RequestIds
        /\ \A t \in Threads : ReqOK(t) /\ AnswerOK(t) /\ ListOK(t)
    BY TypeStep DEF IInv, TypeOK
  <1>1. ASSUME NEW a \in lists PROVE OneHidden(a.list, a.gone)'
                                     /\ AllFresh(a.id, a.list, a.to, a.before, a.at)'
    <2>1. a.before \in Nat
      BY <1>0 DEF TypeOK
    <2> QED BY <1>0, <2>1, StaysTrue DEF SentOK
  <1>2. CASE Restart \/ Tick \/ UNCHANGED vars
    <2>1. UNCHANGED <<files, accepts, answers, lists, failed>>
      BY <1>2 DEF Restart, Tick, vars
    <2>2. \A a \in answers : Truth(a.id, a.kind, a.task, a.result)'
      BY <1>0, <2>1 DEF SentOK, Truth, RowsFor, RowsOf, Received
    <2> QED BY <1>0, <1>1, <2>1, <2>2 DEF SentOK
  <1>3. ASSUME NEW t \in Threads, Accept(t) \/ Work(t) PROVE SentOK'
    <2>1. ASSUME NEW a \in answers PROVE Truth(a.id, a.kind, a.task, a.result)'
      <3>1. SaveFileRecord(t) => req[t].id # a.id
        BY <1>0 DEF SaveFileRecord, RequestIds
      <3>2. Truth(a.id, a.kind, a.task, a.result)
        BY <1>0 DEF SentOK
      <3> QED BY <1>3, <3>1, <3>2, TruthStays
    <2>2. CASE UNCHANGED <<answers, lists>>
      BY <1>0, <1>1, <2>1, <2>2 DEF SentOK
    <2>3. CASE SendSessionData(t)
      <3>1. /\ pc[t] = "reply" /\ UNCHANGED <<files, accepts, failed>>
        BY <2>3 DEF SendSessionData
      <3>2. ASSUME NEW a \in answers', a \notin answers
            PROVE  /\ Truth(a.id, a.kind, a.task, a.result)'
                   /\ a.kind = "Del" /\ a.result = 0 => a.task \in TaskIds
        <4>1. a = [id |-> req[t].id, kind |-> req[t].kind, task |-> req[t].task,
                   result |-> reply[t].result]
          BY <2>3, <3>2 DEF SendSessionData
        <4>2. Truth(a.id, a.kind, a.task, a.result)
          BY <1>0, <3>1, <4>1 DEF AnswerOK
        <4>3. a.kind = "Del" /\ a.result = 0 => a.task \in TaskIds
          BY <1>0, <3>1, <4>1 DEF ReqOK
        <4> QED BY <3>1, <4>2, <4>3 DEF Truth, RowsFor, RowsOf, Received
      <3>3. ASSUME NEW a \in lists', a \notin lists
            PROVE  OneHidden(a.list, a.gone)' /\ AllFresh(a.id, a.list, a.to, a.before, a.at)'
        <4>1. /\ req[t].kind = "Has"
              /\ a = [id |-> req[t].id, to |-> req[t].to, at |-> loc[t].now, before |-> loc[t].before,
                      gone |-> loc[t].gone, list |-> reply[t].list]
          BY <2>3, <3>3 DEF SendSessionData
        <4>2. OneHidden(a.list, a.gone) /\ AllFresh(a.id, a.list, a.to, a.before, a.at)
          BY <1>0, <3>1, <4>1 DEF ListOK
        <4> QED BY <3>1, <4>2 DEF OneHidden, AllFresh, RowsOf
      <3> QED BY <1>0, <1>1, <2>1, <3>2, <3>3 DEF SentOK
    <2>4. CASE Accept(t)
      BY <2>2, <2>4, AcceptShape
    <2>5. CASE Work(t) /\ ~ SendSessionData(t)
      BY <1>0, <2>2, <2>5, BusyStep
    <2> QED BY <1>3, <2>3, <2>4, <2>5
  <1> QED BY <1>2, <1>3 DEF Next

-----------------------------------------------------------------------------
(* IInv is inductive.                                                      *)
THEOREM Inductive == Spec => []IInv
  <1>1. Init => IInv
    <2> SUFFICES ASSUME Init PROVE IInv
      OBVIOUS
    <2>1. /\ files \in Seq(FileRows) /\ clock \in Nat
          /\ \A i \in DOMAIN files : /\ files[i].created = files[i].made % WORD
                                     /\ files[i].req = 0 /\ files[i].made <= clock
      BY StoredAssumption, FileTimeAssumption DEF Init
    <2>2. TypeOK
      BY <2>1, InitialValues DEF Init, TypeOK, Labels
    <2>3. RowsOK /\ RequestIds /\ SentOK
      BY <2>1 DEF Init, RowsOK, RequestIds, SentOK
    <2>4. \A t \in Threads : ReqOK(t) /\ TimeOK(t) /\ AnswerOK(t) /\ ListOK(t)
      BY DEF Init, ReqOK, TimeOK, AnswerOK, ListOK, NoLocals
    <2> QED BY <2>2, <2>3, <2>4 DEF IInv
  <1>2. IInv /\ [Next]_vars => IInv'
    <2> SUFFICES ASSUME IInv, [Next]_vars PROVE IInv'
      OBVIOUS
    <2>1. TypeOK' /\ RowsOK' /\ RequestIds' /\ SentOK'
      BY TypeStep, RowsStep, RequestIdsStep, SentStep
    <2>2. \A t \in Threads : ReqOK(t)' /\ TimeOK(t)' /\ AnswerOK(t)' /\ ListOK(t)'
      BY HandlerStep, AnswerStep, ListStep
    <2> QED BY <2>1, <2>2 DEF IInv
  <1> QED BY <1>1, <1>2, PTL DEF Spec

(* The table and the threads' variables keep their types: no file of the   *)
(* user 0 is stored and no handler believes a task received that has no id.*)
THEOREM TypeCorrect == Spec => []TypeOK
  BY Inductive, PTL DEF IInv

(* SaveFileRecord, DeleteFileRecord: what the answers to adds and deletes  *)
(* say stays true for ever, unless a statement of the request itself       *)
(* failed or the database does not take the INSERT.                        *)
THEOREM AnswersTrue == Spec => []AnswersTellTruth
  <1>1. IInv => AnswersTellTruth
    BY DEF IInv, SentOK, AnswersTellTruth, Truth, RowsFor, Received
  <1> QED BY <1>1, Inductive, PTL

(* GetUserFiles: of a task that clients were told is received, no list     *)
(* asked for later shows every file, whatever failed in between.           *)
THEOREM ReceivedHidden == Spec => []ReceivedNotListed
  <1>1. IInv => ReceivedNotListed
    BY DEF IInv, SentOK, ReceivedNotListed, OneHidden
  <1> QED BY <1>1, Inductive, PTL

(* GetUserFiles: a pending file less than WEEK milliseconds old is listed, *)
(* whatever the word size and however the 32-bit clock wraps.              *)
THEOREM FreshListed == Spec => []FreshFilesListed
  <1>1. IInv => FreshFilesListed
    BY DEF IInv, SentOK, FreshFilesListed, AllFresh
  <1> QED BY <1>1, Inductive, PTL

(* No step deletes a file, changes its users, task or time, or makes a     *)
(* received file pending again.                                            *)
THEOREM FilesNeverLost == Spec => [][FilesKept]_vars
  <1>1. IInv /\ [Next]_vars => [FilesKept]_vars
    BY KeptStep
  <1> QED BY <1>1, Inductive, PTL DEF Spec
=============================================================================
