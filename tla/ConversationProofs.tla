------------------------- MODULE ConversationProofs -------------------------
(***************************************************************************)
(* MessageStore implements Conversations: each statement of a handler is   *)
(* one step of what users are promised, or invisible to them.  For every   *)
(* set of users, threads and requests and every bound.                     *)
(***************************************************************************)
EXTENDS MessageAccountProofs

(* The rows CheckAndUpdateRelation is about to show are of its request's   *)
(* contact, and there is one.                                              *)
StaleOK ==
  \A t \in Threads :
    pc[t] = "check_update" =>
      loc[t].stale # {} /\ loc[t].stale \subseteq RowsFor(req[t].from, req[t].to)

(* Only text messages come to SendIMMessage, and only removals to          *)
(* DeleteRecentContactByUserId.                                            *)
PathsOK ==
  \A t \in Threads :
    /\ pc[t] \in BeforeInsert \cup AfterInsert => req[t].type = "im"
    /\ pc[t] = "remove" => req[t].kind = "RemoveSession"

(* Requests are numbered from 1.                                           *)
NumbersOK == nextReq >= 1 /\ \A t \in Threads : pc[t] # "idle" => req[t].id >= 1

(* What a thread has stored it has stored since the last start.            *)
OwnBoot ==
  \A t \in Threads : \A i \in DOMAIN messages :
    pc[t] # "idle" /\ messages[i].req = req[t].id => messages[i].boot = boot

TalkInv == StaleOK /\ PathsOK /\ NumbersOK /\ OwnBoot

(* All that is known of a reachable state.                                 *)
Known == IInv /\ AccountInv /\ AnswerInv /\ TalkInv

-----------------------------------------------------------------------------
(* A thread comes to check_update and to remove from one place each.       *)
LEMMA CheckUpdateEntered ==
  ASSUME TypeOK, NEW t \in Threads, Accept(t) \/ Work(t)
  PROVE  /\ pc'[t] = "check_update" => CheckSelect(t)
         /\ pc'[t] = "remove" => Accept(t)
  <1> USE DEF TypeOK, Finish, Goto
  <1>1. Accept(t) => pc'[t] # "check_update"
    BY DEF Accept, MsgDataAccept, RemoveAccept, MsgReadAckAccept, UnreadMsgAccept,
       UnreadMsgCountAccept, FriendListAccept
  <1> DEFINE Elsewhere == pc'[t] \notin {"check_update", "remove"}
  <1>2. CheckSelect(t) => pc'[t] # "remove"
    BY DEF CheckSelect
  <1>3. CASE CheckUpdate(t) \/ MsgInsert(t) \/ IncrUserMsgCount(t)
    <2>1. Elsewhere
      BY <1>3 DEF CheckUpdate, MsgInsert, IncrUserMsgCount
    <2> QED BY <2>1
  <1>4. CASE IncreaseUserUnreadMsgCount(t) \/ Remove(t) \/ AckErase(t) \/ CountRead(t)
    <2>1. Elsewhere
      BY <1>4 DEF IncreaseUserUnreadMsgCount, Remove, AckErase, CountRead
    <2> QED BY <2>1
  <1>5. CASE AckFind(t) \/ CountFind(t) \/ UnreadFind(t)
    <2>1. Elsewhere
      BY <1>5 DEF AckFind, CountFind, UnreadFind, FindUnreadCount
    <2> QED BY <2>1
  <1>6. CASE GetRelate(t) \/ AddGetRelate(t) \/ UnreadRelate(t)
    <2>1. Elsewhere
      BY <1>6 DEF GetRelate, AddGetRelate, UnreadRelate, LookupRelate
    <2> QED BY <2>1
  <1>7. CASE AddInsert(t) \/ UnreadRead(t) \/ UnreadSelect(t) \/ Friends(t) \/ SendSessionData(t)
    <2>1. Elsewhere
      BY <1>7 DEF AddInsert, UnreadRead, UnreadSelect, Friends, SendSessionData
    <2> QED BY <2>1
  <1> QED BY <1>1, <1>2, <1>3, <1>4, <1>5, <1>6, <1>7 DEF Work

(* What the handlers' checks let through to a first statement.             *)
LEMMA AcceptPaths ==
  ASSUME TypeOK, NEW t \in Threads, Accept(t)
  PROVE  /\ pc'[t] = "check_select" => req'[t].type = "im"
         /\ pc'[t] = "remove" => req'[t].kind = "RemoveSession"
  <1>1. PICK r \in Inputs :
          /\ req' = [req EXCEPT ![t] =
               [id |-> nextReq, kind |-> r.kind, from |-> r.from, to |-> r.to,
                type |-> r.type, client_type |-> r.client_type]]
          /\ \/ r.kind = "MsgData" /\ MsgDataAccept(t, r)
             \/ r.kind = "RemoveSession" /\ RemoveAccept(t, r)
             \/ r.kind = "MsgReadAck" /\ MsgReadAckAccept(t, r)
             \/ r.kind = "UnreadMsg" /\ UnreadMsgAccept(t, r)
             \/ r.kind = "UnreadMsgCount" /\ UnreadMsgCountAccept(t, r)
             \/ r.kind = "FriendList" /\ FriendListAccept(t, r)
    BY DEF Accept
  <1>2. /\ req'[t].kind = r.kind /\ req'[t].type = r.type
        /\ r.type \in MsgTypes
    BY <1>1, InputsAssumption DEF TypeOK
  <1> USE DEF Finish, Goto, TypeOK
  <1>3. CASE r.kind = "MsgData" /\ MsgDataAccept(t, r)
    BY <1>2, <1>3 DEF MsgDataAccept, MsgTypes
  <1>4. CASE r.kind = "RemoveSession" /\ RemoveAccept(t, r)
    BY <1>2, <1>4 DEF RemoveAccept
  <1>5. CASE r.kind = "MsgReadAck" /\ MsgReadAckAccept(t, r)
    BY <1>5 DEF MsgReadAckAccept
  <1>6. CASE r.kind = "UnreadMsg" /\ UnreadMsgAccept(t, r)
    BY <1>6 DEF UnreadMsgAccept
  <1>7. CASE r.kind = "UnreadMsgCount" /\ UnreadMsgCountAccept(t, r)
    BY <1>7 DEF UnreadMsgCountAccept
  <1>8. CASE r.kind = "FriendList" /\ FriendListAccept(t, r)
    BY <1>8 DEF FriendListAccept
  <1> QED BY <1>1, <1>3, <1>4, <1>5, <1>6, <1>7, <1>8

(* Rows a thread has found stale stay rows of its contact until it shows   *)
(* them.                                                                   *)
LEMMA StaleStep ==
  ASSUME TypeOK, TypeOK', ReqOK, StaleOK, [Next]_vars
  PROVE  StaleOK'
  <1>1. ContactsKept
    BY ContactsKeptStep
  <1>2. CASE UNCHANGED vars
    BY <1>2 DEF vars, StaleOK, RowsFor
  <1>3. CASE Restart
    BY <1>3 DEF Restart, StaleOK
  <1>4. ASSUME NEW t \in Threads, Accept(t) \/ Work(t), NEW o \in Threads,
               pc'[o] = "check_update"
        PROVE  /\ loc'[o].stale # {}
               /\ loc'[o].stale \subseteq RowsFor(req[o].from, req[o].to)'
    <2>1. CASE o # t
      <3>1. pc[o] = "check_update" /\ req'[o] = req[o] /\ loc'[o] = loc[o]
        BY <1>4, <2>1, Frame
      <3>2. RowsFor(req[o].from, req[o].to) \subseteq RowsFor(req[o].from, req[o].to)'
        <4>1. RowsFor(req[o].from, req[o].to)' =
                {i \in DOMAIN contacts' : contacts'[i].userId = req[o].from
                                          /\ contacts'[i].friendUserId = req[o].to}
          BY <3>1 DEF RowsFor
        <4> QED BY <1>1, <4>1, LenProperties DEF TypeOK, ContactsKept, RowsFor
      <3> QED BY <3>1, <3>2 DEF StaleOK
    <2>2. CASE o = t
      <3>1. CheckSelect(t)
        BY <1>4, <2>2, CheckUpdateEntered
      <3>2. UNCHANGED <<contacts, req>>
        BY <3>1 DEF CheckSelect, db
      <3>3. PICK ids \in SUBSET RowsFor(req[t].from, req[t].to) :
              /\ loc' = [loc EXCEPT ![t].stale = {i \in ids : contacts[i].status # 0}]
              /\ ~ \A i \in ids : contacts[i].status = 0
        BY <1>4, <2>2, <3>1 DEF CheckSelect, Goto, TypeOK
      <3>4. loc'[t].stale = {i \in ids : contacts[i].status # 0}
        BY <3>3 DEF TypeOK, Locals
      <3>5. RowsFor(req[t].from, req[t].to)' = RowsFor(req[t].from, req[t].to)
        BY <3>2 DEF RowsFor
      <3> QED BY <2>2, <3>3, <3>4, <3>5
    <2> QED BY <2>1, <2>2
  <1> QED BY <1>2, <1>3, <1>4 DEF Next, StaleOK

(* Requests stay on the paths their handlers put them on.                  *)
LEMMA PathsStep ==
  ASSUME TypeOK, TypeOK', PathsOK, [Next]_vars
  PROVE  PathsOK'
  <1>1. CASE UNCHANGED vars
    BY <1>1 DEF vars, PathsOK
  <1>2. CASE Restart
    BY <1>2 DEF Restart, PathsOK, BeforeInsert, AfterInsert
  <1>3. ASSUME NEW t \in Threads, Accept(t) \/ Work(t), NEW o \in Threads
        PROVE  /\ pc'[o] \in BeforeInsert \cup AfterInsert => req'[o].type = "im"
               /\ pc'[o] = "remove" => req'[o].kind = "RemoveSession"
    <2> USE DEF BeforeInsert, AfterInsert, OtherLabels, BusyLabels
    <2>1. CASE o # t
      BY <1>3, <2>1, Frame DEF PathsOK
    <2>2. CASE o = t /\ Accept(t)
      BY <2>2, AcceptShape, AcceptPaths
    <2>3. CASE o = t /\ SendSessionData(t)
      BY <2>3 DEF SendSessionData, Goto, TypeOK
    <2>4. CASE o = t /\ ~ Accept(t) /\ ~ SendSessionData(t)
      <3>1. req' = req /\ pc'[t] # "remove"
        BY <1>3, <2>4, BusyStep, CheckUpdateEntered
      <3>2. pc'[t] \in BeforeInsert \cup AfterInsert => pc[t] \in BeforeInsert \cup AfterInsert
        <4>1. CASE MsgInsert(t)
          BY <4>1, InsertShape
        <4>2. CASE IncrUserMsgCount(t)
          BY <4>2 DEF IncrUserMsgCount
        <4>3. CASE IncreaseUserUnreadMsgCount(t)
          BY <4>3 DEF IncreaseUserUnreadMsgCount
        <4>4. CASE PlainStep(t)
          BY <4>4 DEF PlainStep
        <4> QED BY <1>3, <2>4, <4>1, <4>2, <4>3, <4>4, StepKinds
      <3> QED BY <2>4, <3>1, <3>2 DEF PathsOK
    <2> QED BY <2>1, <2>2, <2>3, <2>4
  <1> QED BY <1>1, <1>2, <1>3 DEF Next, PathsOK

(* Numbers start at 1 and only grow.                                       *)
LEMMA NumbersStep ==
  ASSUME TypeOK, TypeOK', NumbersOK, [Next]_vars
  PROVE  NumbersOK'
  <1>1. CASE UNCHANGED vars
    BY <1>1 DEF vars, NumbersOK
  <1>2. CASE Restart
    BY <1>2 DEF Restart, NumbersOK
  <1>3. ASSUME NEW t \in Threads, Accept(t) \/ Work(t) PROVE NumbersOK'
    <2>0. nextReq \in Nat /\ \A o \in Threads \ {t} : pc'[o] = pc[o] /\ req'[o] = req[o]
      BY <1>3, Frame DEF TypeOK
    <2>1. CASE Accept(t)
      <3>1. req'[t].id = nextReq /\ nextReq' = nextReq + 1
        BY <2>1, AcceptShape
      <3>2. nextReq' >= 1 /\ req'[t].id >= 1
        BY <2>0, <3>1 DEF NumbersOK
      <3> QED BY <2>0, <3>2 DEF NumbersOK
    <2>2. CASE SendSessionData(t)
      BY <2>0, <2>2 DEF SendSessionData, Goto, TypeOK, NumbersOK
    <2>3. CASE ~ Accept(t) /\ ~ SendSessionData(t)
      BY <1>3, <2>0, <2>3, BusyStep DEF NumbersOK
    <2> QED BY <2>1, <2>2, <2>3
  <1> QED BY <1>1, <1>2, <1>3 DEF Next

(* The INSERT of a message writes the present boot, and only its thread's  *)
(* request.                                                                *)
LEMMA OwnBootStep ==
  ASSUME TypeOK, TypeOK', RequestIds, OwnBoot, [Next]_vars
  PROVE  OwnBoot'
  <1>1. CASE UNCHANGED vars
    BY <1>1 DEF vars, OwnBoot
  <1>2. CASE Restart
    BY <1>2 DEF Restart, OwnBoot
  <1>3. ASSUME NEW t \in Threads, Accept(t) \/ Work(t), NEW o \in Threads, pc'[o] # "idle",
               NEW i \in DOMAIN messages', messages'[i].req = req'[o].id
        PROVE  messages'[i].boot = boot'
    <2>1. /\ boot' = boot
          /\ \A p \in Threads \ {t} : pc'[p] = pc[p] /\ req'[p] = req[p]
      BY <1>3, StepKinds
    <2>2. CASE messages' = messages /\ ~ (o = t /\ Accept(t))
      <3>1. pc[o] # "idle" /\ req'[o] = req[o]
        BY <1>3, <2>1, <2>2, BusyStep DEF SendSessionData, Goto, TypeOK
      <3> QED BY <1>3, <2>1, <2>2, <3>1 DEF OwnBoot
    <2>3. CASE o = t /\ Accept(t)
      <3>1. req'[t].id = nextReq /\ messages' = messages
        BY <2>3, AcceptShape
      <3>2. messages[i] \in MessageRows
        BY <1>3, <3>1, LenProperties, ElementOfSeq DEF TypeOK
      <3>3. messages[i].req < nextReq /\ messages[i].req \in Nat /\ nextReq \in Nat
        BY <1>3, <3>1, <3>2 DEF RequestIds, MessageRows, TypeOK
      <3> QED BY <1>3, <2>3, <3>1, <3>3
    <2>4. CASE MsgInsert(t) /\ messages' # messages
      <3>1. PICK m : messages' = Append(messages, m) /\ m.req = req[t].id /\ m.boot = boot
        BY <2>4, InsertShape
      <3>2. messages'[i] = m \/ \E j \in DOMAIN messages : messages'[i] = messages[j]
        BY <2>1, <3>1, AppendedRow
      <3>3. pc[o] # "idle" /\ req'[o] = req[o]
        BY <1>3, <2>1, <2>4 DEF MsgInsert
      <3> QED BY <1>3, <2>1, <3>1, <3>2, <3>3 DEF OwnBoot
    <2> QED BY <1>3, <2>2, <2>3, <2>4, Frame
  <1> QED BY <1>1, <1>2, <1>3 DEF Next, OwnBoot

(* All of it is inductive.                                                 *)
THEOREM TalksInductive == Spec => []Known
  <1>1. Init => TalkInv
    BY DEF Init, TalkInv, StaleOK, PathsOK, NumbersOK, OwnBoot, BeforeInsert, AfterInsert
  <1>2. /\ IInv /\ IInv' /\ AccountInv /\ AnswerInv /\ TalkInv /\ [Next]_vars
        => TalkInv'
    BY StaleStep, PathsStep, NumbersStep, OwnBootStep DEF IInv, AnswerInv, TalkInv
  <1> QED BY <1>1, <1>2, Inductive, BooksInductive, PTL DEF Spec, Known

-----------------------------------------------------------------------------
(* What a step leaves alone as long as it does not write its table.        *)

LEMMA SameContacts ==
  ASSUME contacts' = contacts
  PROVE  Pairs' = Pairs /\ Hidden' = Hidden
  BY DEF Pairs, Hidden, ContactOf

LEMMA SameLog ==
  ASSUME messages' = messages
  PROVE  Log' = Log
  BY DEF Log

(* A thread in the middle of a handler stays at work for its request.      *)
LEMMA SamePending ==
  ASSUME NEW t \in Threads, pc[t] # "idle", pc'[t] # "idle", req' = req,
         \A o \in Threads \ {t} : pc'[o] = pc[o]
  PROVE  Pending' = Pending
  <1>1. {o \in Threads : pc'[o] # "idle" /\ IsPending(req'[o])}
          = {o \in Threads : pc[o] # "idle" /\ IsPending(req[o])}
    OBVIOUS
  <1>2. Pending' = {Asked(req'[o]) : o \in {p \in Threads : pc'[p] # "idle" /\ IsPending(req'[p])}}
    BY DEF Pending, IsPending, Asked
  <1> QED BY <1>1, <1>2 DEF Pending

(* A message is not counted before it is stored nor while its sender is at *)
(* incr_total.                                                             *)
LEMMA SameCounted ==
  ASSUME NEW t \in Threads, pc[t] # "incr_total", pc'[t] # "incr_total",
         \A o \in Threads \ {t} : pc'[o] = pc[o] /\ req'[o] = req[o],
         UNCHANGED <<messages, boot, nextReq>>
  PROVE  Counted' = Counted
  BY DEF Counted

(* Stored, in the terms of the tables.                                     *)
LEMMA StoredRows ==
  ASSUME TypeOK, NEW r
  PROVE  /\ CS!Stored(r) <=> \E i \in DOMAIN messages : messages[i].req = r.id
         /\ CS!Stored(r) <=> RowsOf(r.id) # {}
  <1>1. DOMAIN Log = DOMAIN messages /\ \A i \in DOMAIN messages : Log[i].id = messages[i].req
    BY DEF Log
  <1> QED BY <1>1 DEF CS!Stored, RowsOf

(* A set of rows is empty if it has no elements.                           *)
LEMMA NoRows ==
  ASSUME TypeOK, NEW id
  PROVE  Cardinality(RowsOf(id)) = 0 <=> RowsOf(id) = {}
  <1>1. RowsOf(id) \in SUBSET DOMAIN messages
    BY DEF RowsOf
  <1> QED BY <1>1, RowsFinite, FS_EmptySet

-----------------------------------------------------------------------------
(* The steps, one by one.                                                  *)

(* A request taken.                                                        *)
LEMMA AcceptTakes ==
  ASSUME Known, NEW t \in Threads, Accept(t)
  PROVE  CS!Next
  <1>0. TypeOK /\ RequestIds /\ NumbersOK
    BY DEF Known, IInv, AnswerInv, TalkInv
  <1>1. /\ pc[t] = "idle" /\ pc'[t] \notin {"idle", "incr_total"}
        /\ req'[t].id = nextReq /\ nextReq' = nextReq + 1
        /\ UNCHANGED <<messages, counter, answers>>
    BY <1>0, AcceptShape DEF OtherLabels, BusyLabels, AfterInsert
  <1>2. /\ nextReq \in 1 .. MaxReq /\ UNCHANGED <<contacts, boot>>
        /\ \A o \in Threads \ {t} : pc'[o] = pc[o] /\ req'[o] = req[o]
    <2>1. nextReq <= MaxReq /\ UNCHANGED <<contacts, boot>>
      BY DEF Accept, db
    <2>2. nextReq \in Nat /\ nextReq >= 1
      BY <1>0 DEF NumbersOK, TypeOK
    <2> QED BY <1>0, <2>1, <2>2, BoundsAssumption, Frame
  <1>3. PICK r \in Inputs :
          req' = [req EXCEPT ![t] =
            [id |-> nextReq, kind |-> r.kind, from |-> r.from, to |-> r.to,
             type |-> r.type, client_type |-> r.client_type]]
    BY DEF Accept
  <1>4. /\ req'[t].from \in Ids /\ req'[t].to \in Ids
    BY <1>0, <1>3, InputsAssumption DEF TypeOK
  <1>5. (1 .. nextReq - 1)' = (1 .. nextReq - 1) \cup {nextReq} /\ nextReq \notin 1 .. nextReq - 1
    BY <1>1, <1>2
  <1>6. Log' = Log /\ Pairs' = Pairs /\ Hidden' = Hidden /\ Answered' = Answered
    BY <1>1, <1>2, SameLog, SameContacts DEF Answered
  <1>7. Counted' = Counted
    <2>1. \A i \in DOMAIN messages : messages[i].req # nextReq
      <3>1. ASSUME NEW i \in DOMAIN messages PROVE messages[i].req # nextReq
        <4>1. messages[i] \in MessageRows
          BY <1>0, LenProperties, ElementOfSeq DEF TypeOK
        <4>2. messages[i].req \in Nat /\ messages[i].req < nextReq
          BY <1>0, <4>1 DEF MessageRows, RequestIds
        <4> QED BY <1>2, <4>2
      <3> QED BY <3>1
    <2>2. \A o \in Threads : pc'[o] = "incr_total" <=> pc[o] = "incr_total"
      BY <1>1, <1>2
    <2>3. \A o \in Threads : pc[o] = "incr_total" => req'[o] = req[o]
      BY <1>1, <1>2
    <2> QED BY <1>1, <1>2, <1>5, <2>1, <2>2, <2>3 DEF Counted
  <1>8. CASE IsPending(req'[t])
    <2> DEFINE q == Asked(req'[t])
    <2>1. q \in [id : 1 .. MaxReq, kind : {"MsgData", "RemoveSession"}, from : Ids, to : Ids]
      BY <1>1, <1>2, <1>4, <1>8 DEF Asked, IsPending
    <2>2. Pending' = Pending \cup {q}
      <3>1. Pending' = {Asked(req'[o]) : o \in {p \in Threads : pc'[p] # "idle" /\ IsPending(req'[p])}}
        BY DEF Pending, IsPending, Asked
      <3>2. {p \in Threads : pc'[p] # "idle" /\ IsPending(req'[p])}
              = {p \in Threads : pc[p] # "idle" /\ IsPending(req[p])} \cup {t}
        BY <1>1, <1>2, <1>8
      <3>3. \A p \in Threads : pc[p] # "idle" => req'[p] = req[p]
        BY <1>1, <1>2
      <3> QED BY <3>1, <3>2, <3>3 DEF Pending
    <2>3. q.id = nextReq
      BY <1>1 DEF Asked
    <2> HIDE DEF q
    <2>4. CS!Take(nextReq)
      BY <1>1, <1>5, <1>6, <1>7, <2>1, <2>2, <2>3 DEF CS!Take
    <2> QED BY <1>2, <2>4 DEF CS!Next
  <1>9. CASE ~ IsPending(req'[t])
    <2>1. Pending' = Pending
      BY <1>1, <1>2, <1>9 DEF Pending, Asked
    <2>2. CS!Take(nextReq)
      BY <1>1, <1>5, <1>6, <1>7, <2>1 DEF CS!Take
    <2> QED BY <1>2, <2>2 DEF CS!Next
  <1> QED BY <1>8, <1>9

(* A thread's request is pending while the thread is at work for it.       *)
LEMMA AtWork ==
  ASSUME TypeOK, NEW t \in Threads, pc[t] # "idle"
  PROVE  /\ req[t].kind = "MsgData" /\ req[t].type = "im" =>
              Asked(req[t]) \in CS!PendingMessages
         /\ req[t].kind = "RemoveSession" => Asked(req[t]) \in CS!PendingRemovals
         /\ /\ Asked(req[t]).id = req[t].id
            /\ Asked(req[t]).from = req[t].from /\ Asked(req[t]).to = req[t].to
  BY DEF Pending, IsPending, Asked, CS!PendingMessages, CS!PendingRemovals

(* An answer sent: a text message is confirmed or refused, a removal is    *)
(* done.                                                                   *)
LEMMA AnswerStep ==
  ASSUME Known, NEW t \in Threads, SendSessionData(t)
  PROVE  CS!Next \/ UNCHANGED CS!vars
  <1>0. TypeOK /\ RequestIds /\ NumbersOK /\ OwnRow(t) /\ OwnBoot
    BY DEF Known, IInv, AnswerInv, TalkInv, OwnRows
  <1> DEFINE q == Asked(req[t])
  <1>1. /\ pc[t] = "reply" /\ pc'[t] = "idle"
        /\ UNCHANGED <<contacts, messages, counter, nextReq, boot>>
        /\ \A o \in Threads \ {t} : pc'[o] = pc[o] /\ req'[o] = req[o]
    BY <1>0 DEF SendSessionData, Goto, TypeOK, db, cache
  <1>2. Log' = Log /\ Pairs' = Pairs /\ Hidden' = Hidden /\ Counted' = Counted
    BY <1>1, SameLog, SameContacts, SameCounted
  <1>3. IsPending(req[t]) => Pending' = Pending \ {q}
    <2>1. \A o \in Threads \ {t} : pc[o] # "idle" => Asked(req[o]) # q
      BY <1>0, <1>1 DEF RequestIds, Asked
    <2> QED BY <1>1, <2>1 DEF Pending
  <1>4. ~ IsPending(req[t]) => Pending' = Pending
    BY <1>1 DEF Pending
  <1>5. CASE req[t].kind = "MsgData" /\ req[t].type = "im"
    <2>1. answers' = answers \cup {[id |-> req[t].id, type |-> "im", result |-> reply[t].result]}
      BY <1>5 DEF SendSessionData
    <2>2. Answered' = Answered \cup {[id |-> q.id, result |-> reply[t].result]}
      <3> DEFINE a == [id |-> req[t].id, type |-> "im", result |-> reply[t].result]
      <3>1. a.type = "im" /\ a.id = q.id /\ a.result = reply[t].result
        BY DEF Asked
      <3>2. answers' = answers \cup {a}
        BY <2>1
      <3> HIDE DEF a, q
      <3>3. {b \in answers' : b.type = "im"} = {b \in answers : b.type = "im"} \cup {a}
        BY <3>1, <3>2
      <3> QED BY <3>1, <3>3 DEF Answered
    <2>3. Pending' = Pending \ {q} /\ q \in CS!PendingMessages /\ q.id = req[t].id
      BY <1>0, <1>1, <1>3, <1>5, AtWork DEF IsPending
    <2>4. reply[t].result \in {0, 1} /\ Cardinality(RowsOf(req[t].id)) = 1 - reply[t].result
      BY <1>0, <1>1, <1>5 DEF OwnRow, TypeOK, Replies
    <2> HIDE DEF q
    <2>5. CASE reply[t].result = 1
      <3>1. ~ CS!Stored(q)
        BY <1>0, <2>3, <2>4, <2>5, NoRows, StoredRows
      <3>2. CS!Refuse(q)
        BY <1>1, <1>2, <2>2, <2>3, <2>5, <3>1 DEF CS!Refuse, CS!Answer
      <3> QED BY <2>3, <3>2 DEF CS!Next
    <2>6. CASE reply[t].result = 0
      <3>1. RowsOf(req[t].id) # {}
        BY <1>0, <2>4, <2>6, NoRows
      <3>2. CS!Stored(q)
        BY <1>0, <2>3, <3>1, StoredRows
      <3>3. q.id \in Counted
        <4>1. req[t].id \in 1 .. nextReq - 1
          BY <1>0, <1>1 DEF RequestIds, NumbersOK, TypeOK, Requests
        <4>2. \E i \in DOMAIN messages : messages[i].req = req[t].id /\ messages[i].boot = boot
          BY <1>0, <1>1, <3>1 DEF RowsOf, OwnBoot
        <4>3. \A o \in Threads : pc[o] = "incr_total" => req[o].id # req[t].id
          BY <1>0, <1>1 DEF RequestIds
        <4> QED BY <2>3, <4>1, <4>2, <4>3 DEF Counted
      <3>4. CS!Confirm(q)
        BY <1>1, <1>2, <2>2, <2>3, <2>6, <3>2, <3>3 DEF CS!Confirm, CS!Answer
      <3> QED BY <2>3, <3>4 DEF CS!Next
    <2> QED BY <2>4, <2>5, <2>6
  <1>6. CASE ~ (req[t].kind = "MsgData" /\ req[t].type = "im")
    <2>1. Answered' = Answered
      <3>1. {b \in answers' : b.type = "im"} = {b \in answers : b.type = "im"}
        BY <1>6 DEF SendSessionData
      <3> QED BY <3>1 DEF Answered
    <2>2. CASE req[t].kind = "RemoveSession"
      <3>1. Pending' = Pending \ {q} /\ q \in CS!PendingRemovals
        BY <1>0, <1>1, <1>3, <2>2, AtWork DEF IsPending
      <3> HIDE DEF q
      <3>2. CS!Done(q)
        BY <1>1, <1>2, <2>1, <3>1 DEF CS!Done
      <3> QED BY <3>1, <3>2 DEF CS!Next
    <2>3. CASE req[t].kind # "RemoveSession"
      BY <1>1, <1>2, <1>4, <1>6, <2>1, <2>3 DEF IsPending, CS!vars
    <2> QED BY <2>2, <2>3
  <1> QED BY <1>5, <1>6

-----------------------------------------------------------------------------
(* The statements that write the contacts.                                 *)

(* Contacts are pairs of users.  A contact is hidden if it has rows and    *)
(* all of them are.                                                        *)
LEMMA HiddenPairs ==
  /\ \A p \in Pairs : p = <<p[1], p[2]>>
  /\ \A a, b : <<a, b>> \in Pairs <=> RowsFor(a, b) # {}
  /\ \A a, b : <<a, b>> \in Hidden <=>
       /\ <<a, b>> \in Pairs
       /\ \A i \in RowsFor(a, b) : contacts[i].status = 1
  /\ Hidden \subseteq Pairs
  <1>1. \A p \in Pairs : p = <<p[1], p[2]>>
    BY DEF Pairs, ContactOf
  <1>2. \A a, b : <<a, b>> \in Pairs <=> RowsFor(a, b) # {}
    <2>1. ASSUME NEW a, NEW b, <<a, b>> \in Pairs PROVE RowsFor(a, b) # {}
      <3>1. PICK i \in DOMAIN contacts : <<a, b>> = ContactOf(i)
        BY <2>1 DEF Pairs
      <3>2. i \in RowsFor(a, b)
        BY <3>1 DEF ContactOf, RowsFor
      <3> QED BY <3>2
    <2>2. ASSUME NEW a, NEW b, NEW i \in RowsFor(a, b) PROVE <<a, b>> \in Pairs
      BY DEF Pairs, ContactOf, RowsFor
    <2> QED BY <2>1, <2>2
  <1>3. \A a, b : <<a, b>> \in Hidden <=>
          <<a, b>> \in Pairs /\ \A i \in RowsFor(a, b) : contacts[i].status = 1
    <2> DEFINE Shown == {ContactOf(i) : i \in {j \in DOMAIN contacts : contacts[j].status # 1}}
    <2>1. ASSUME NEW a, NEW b, <<a, b>> \in Shown
          PROVE  \E i \in RowsFor(a, b) : contacts[i].status # 1
      <3>1. PICK i \in DOMAIN contacts : <<a, b>> = ContactOf(i) /\ contacts[i].status # 1
        BY <2>1
      <3>2. i \in RowsFor(a, b)
        BY <3>1 DEF ContactOf, RowsFor
      <3> QED BY <3>1, <3>2
    <2>2. ASSUME NEW a, NEW b, NEW i \in RowsFor(a, b), contacts[i].status # 1
          PROVE  <<a, b>> \in Shown
      BY <2>2 DEF ContactOf, RowsFor
    <2> HIDE DEF Shown
    <2>3. Hidden = Pairs \ Shown
      BY DEF Hidden, Shown
    <2> QED BY <2>1, <2>2, <2>3
  <1>4. Hidden \subseteq Pairs
    BY DEF Hidden
  <1> QED BY <1>1, <1>2, <1>3, <1>4

(* So it is in the next state.                                             *)
LEMMA HiddenPairsNext ==
  /\ \A p \in Pairs' : p = <<p[1], p[2]>>
  /\ \A a, b : <<a, b>> \in Pairs' <=> RowsFor(a, b)' # {}
  /\ \A a, b : <<a, b>> \in Hidden' <=>
       /\ <<a, b>> \in Pairs'
       /\ \A i \in RowsFor(a, b)' : contacts'[i].status = 1
  /\ Hidden' \subseteq Pairs'
  <1>1. (/\ \A p \in Pairs : p = <<p[1], p[2]>>
         /\ \A a, b : <<a, b>> \in Pairs <=> RowsFor(a, b) # {}
         /\ \A a, b : <<a, b>> \in Hidden <=>
              /\ <<a, b>> \in Pairs
              /\ \A i \in RowsFor(a, b) : contacts[i].status = 1
         /\ Hidden \subseteq Pairs)'
    BY HiddenPairs, PTL
  <1> QED BY <1>1

(* An UPDATE of a status leaves all rows to their pairs.                   *)
LEMMA StatusWritten ==
  ASSUME TypeOK, NEW ids, NEW s \in {0, 1}, contacts' = SetStatus(ids, s)
  PROVE  /\ \A a, b : RowsFor(a, b)' = RowsFor(a, b)
         /\ Pairs' = Pairs
         /\ \A i \in DOMAIN contacts :
              contacts'[i].status = IF i \in ids THEN s ELSE contacts[i].status
  <1>1. DOMAIN contacts' = DOMAIN contacts
    BY DEF SetStatus
  <1>2. \A i \in DOMAIN contacts : /\ contacts'[i].userId = contacts[i].userId
                                  /\ contacts'[i].friendUserId = contacts[i].friendUserId
    BY SetStatusTable DEF TypeOK
  <1>3. ASSUME NEW i \in DOMAIN contacts
        PROVE  contacts'[i].status = IF i \in ids THEN s ELSE contacts[i].status
    <2>1. contacts[i] \in ContactRows
      BY LenProperties, ElementOfSeq DEF TypeOK
    <2> QED BY <2>1 DEF SetStatus, ContactRows
  <1>4. \A a, b : RowsFor(a, b)' = RowsFor(a, b)
    BY <1>1, <1>2 DEF RowsFor
  <1>5. Pairs' = Pairs
    <2>1. \A i \in DOMAIN contacts : ContactOf(i)' = ContactOf(i)
      BY <1>2 DEF ContactOf
    <2> QED BY <1>1, <2>1 DEF Pairs
  <1> QED BY <1>3, <1>4, <1>5

(* A contact stays hidden or shown as long as its rows do.                 *)
LEMMA SameRows ==
  ASSUME NEW a, NEW b, Pairs' = Pairs, RowsFor(a, b)' = RowsFor(a, b),
         \A i \in RowsFor(a, b) : contacts'[i].status = contacts[i].status
  PROVE  <<a, b>> \in Hidden' <=> <<a, b>> \in Hidden
  <1>1. (\A i \in RowsFor(a, b) : contacts'[i].status = 1)
          <=> \A i \in RowsFor(a, b) : contacts[i].status = 1
    <2>1. ASSUME NEW i \in RowsFor(a, b)
          PROVE  contacts'[i].status = 1 <=> contacts[i].status = 1
      OBVIOUS
    <2> QED BY <2>1
  <1>2. <<a, b>> \in Hidden' <=>
          <<a, b>> \in Pairs /\ \A i \in RowsFor(a, b) : contacts'[i].status = 1
    BY HiddenPairsNext
  <1>3. <<a, b>> \in Hidden <=>
          <<a, b>> \in Pairs /\ \A i \in RowsFor(a, b) : contacts[i].status = 1
    BY HiddenPairs
  <1> QED BY <1>1, <1>2, <1>3

(* Contacts are compared pair by pair.                                     *)
LEMMA ByPairs ==
  ASSUME NEW S, NEW T, \A p \in S \cup T : p = <<p[1], p[2]>>,
         \A x, y : <<x, y>> \in S <=> <<x, y>> \in T
  PROVE  S = T
  <1>1. \A p : p \in S <=> p \in T
    <2>1. ASSUME NEW p \in S \cup T PROVE p \in S <=> p \in T
      BY <2>1
    <2> QED BY <2>1
  <1> QED BY <1>1

(* The contact whose stale rows are shown is hidden no longer, and no      *)
(* other contact is touched.                                               *)
LEMMA RowsShownAgain ==
  ASSUME TypeOK, NEW a \in Users, NEW b \in Users, NEW ids, ids # {},
         ids \subseteq RowsFor(a, b), contacts' = SetStatus(ids, 0)
  PROVE  Hidden' = Hidden \ {<<a, b>>}
  <1>1. /\ \A x, y : RowsFor(x, y)' = RowsFor(x, y)
        /\ Pairs' = Pairs
        /\ \A i \in DOMAIN contacts :
             contacts'[i].status = IF i \in ids THEN 0 ELSE contacts[i].status
    BY StatusWritten
  <1>2. \A x, y : RowsFor(x, y) \subseteq DOMAIN contacts
    BY DEF RowsFor
  <1>3. <<a, b>> \notin Hidden'
    <2>1. PICK i \in ids : TRUE
      OBVIOUS
    <2>2. i \in RowsFor(a, b)' /\ contacts'[i].status = 0
      BY <1>1, <1>2, <2>1
    <2> QED BY <2>2, HiddenPairsNext
  <1>4. ASSUME NEW x, NEW y, <<x, y>> # <<a, b>>
        PROVE  <<x, y>> \in Hidden' <=> <<x, y>> \in Hidden
    <2>1. \A i \in RowsFor(x, y) : i \notin ids
      BY <1>4 DEF RowsFor
    <2>2. \A i \in RowsFor(x, y) : contacts'[i].status = contacts[i].status
      BY <1>1, <1>2, <2>1
    <2> QED BY <1>1, <2>2, SameRows
  <1>5. \A x, y : <<x, y>> \in Hidden' <=> <<x, y>> \in Hidden \ {<<a, b>>}
    BY <1>3, <1>4
  <1>6. \A p \in Hidden' \cup (Hidden \ {<<a, b>>}) : p = <<p[1], p[2]>>
    BY HiddenPairs, HiddenPairsNext
  <1> QED BY <1>5, <1>6, ByPairs

(* The removal of a row hides its contact, unless another row shows it.    *)
LEMMA RowHidden ==
  ASSUME TypeOK, NEW a \in Users, NEW b \in Users, NEW i \in RowsFor(a, b),
         contacts' = SetStatus({i}, 1)
  PROVE  Hidden' = Hidden \/ Hidden' = Hidden \cup {<<a, b>>}
  <1>1. /\ \A x, y : RowsFor(x, y)' = RowsFor(x, y)
        /\ Pairs' = Pairs
        /\ \A j \in DOMAIN contacts :
             contacts'[j].status = IF j \in {i} THEN 1 ELSE contacts[j].status
    BY StatusWritten
  <1>2. \A x, y : RowsFor(x, y) \subseteq DOMAIN contacts
    BY DEF RowsFor
  <1>3. ASSUME NEW x, NEW y, <<x, y>> # <<a, b>>
        PROVE  <<x, y>> \in Hidden' <=> <<x, y>> \in Hidden
    <2>1. i \notin RowsFor(x, y)
      BY <1>3 DEF RowsFor
    <2>2. \A j \in RowsFor(x, y) : contacts'[j].status = contacts[j].status
      BY <1>1, <1>2, <2>1
    <2> QED BY <1>1, <2>2, SameRows
  <1>4. <<a, b>> \in Hidden => <<a, b>> \in Hidden'
    <2>1. \A j \in RowsFor(a, b) : contacts[j].status = 1 => contacts'[j].status = 1
      BY <1>1, <1>2
    <2>2. <<a, b>> \in Hidden =>
            <<a, b>> \in Pairs /\ \A j \in RowsFor(a, b) : contacts[j].status = 1
      BY HiddenPairs
    <2>3. <<a, b>> \in Pairs /\ (\A j \in RowsFor(a, b) : contacts'[j].status = 1)
            => <<a, b>> \in Hidden'
      BY <1>1, HiddenPairsNext
    <2> QED BY <2>1, <2>2, <2>3
  <1>5. /\ \A p \in Hidden' \cup (Hidden \cup {<<a, b>>}) : p = <<p[1], p[2]>>
        /\ \A p \in Hidden' \cup Hidden : p = <<p[1], p[2]>>
    BY HiddenPairs, HiddenPairsNext
  <1>6. CASE <<a, b>> \in Hidden'
    <2>1. \A x, y : <<x, y>> \in Hidden' <=> <<x, y>> \in Hidden \cup {<<a, b>>}
      BY <1>3, <1>6
    <2>2. Hidden' = Hidden \cup {<<a, b>>}
      BY <1>5, <2>1, ByPairs
    <2> QED BY <2>2
  <1>7. CASE <<a, b>> \notin Hidden'
    <2>1. \A x, y : <<x, y>> \in Hidden' <=> <<x, y>> \in Hidden
      BY <1>3, <1>4, <1>7
    <2>2. Hidden' = Hidden
      BY <1>5, <2>1, ByPairs
    <2> QED BY <2>2
  <1> QED BY <1>6, <1>7

(* AddFriendship's rows are of the two users, both ways, and are shown.    *)
LEMMA NewContactsPairs ==
  ASSUME NEW a \in Users, NEW b \in Users
  PROVE  LET new == NewContacts(a, b) IN
         /\ \A k \in 1 .. Len(new) :
              /\ new[k].status = 0
              /\ <<new[k].userId, new[k].friendUserId>> \in {<<a, b>>, <<b, a>>}
         /\ \A p \in {<<a, b>>, <<b, a>>} :
              \E k \in 1 .. Len(new) : p = <<new[k].userId, new[k].friendUserId>>
  <1> DEFINE row(x, y) == [userId |-> x, friendUserId |-> y, status |-> 0]
  <1>1. CASE a = b
    <2>1. NewContacts(a, b) = <<row(a, a)>>
      BY <1>1 DEF NewContacts
    <2> QED BY <1>1, <2>1
  <1>2. CASE a # b
    <2>1. a \in Nat /\ b \in Nat
      BY UsersAssumption
    <2>2. \/ NewContacts(a, b) = <<row(a, b), row(b, a)>>
          \/ NewContacts(a, b) = <<row(b, a), row(a, b)>>
      BY <1>2, <2>1 DEF NewContacts, Small, Big
    <2>3. CASE NewContacts(a, b) = <<row(a, b), row(b, a)>>
      BY <2>3
    <2>4. CASE NewContacts(a, b) = <<row(b, a), row(a, b)>>
      BY <2>4
    <2> QED BY <2>2, <2>3, <2>4
  <1> QED BY <1>1, <1>2

(* The relation inserted makes the two users contacts of each other, whom  *)
(* they see, and changes no other contact.                                 *)
LEMMA RelationInserted ==
  ASSUME TypeOK, NEW a \in Users, NEW b \in Users,
         contacts' = contacts \o NewContacts(a, b)
  PROVE  /\ Pairs' = Pairs \cup {<<a, b>>, <<b, a>>}
         /\ Hidden' = Hidden \ {<<a, b>>, <<b, a>>}
  <1> DEFINE new == NewContacts(a, b)
             n   == Len(contacts)
             of(k) == <<new[k].userId, new[k].friendUserId>>
             both == {<<a, b>>, <<b, a>>}
  <1>1. /\ \A k \in 1 .. Len(new) : new[k].status = 0 /\ of(k) \in both
        /\ \A p \in both : \E k \in 1 .. Len(new) : p = of(k)
    BY NewContactsPairs
  <1>2. new \in Seq(ContactRows)
    BY NewContactsRows
  <1>3. contacts' = contacts \o new
    OBVIOUS
  <1> HIDE DEF new
  <1>4. /\ DOMAIN contacts = 1 .. n /\ n \in Nat
        /\ DOMAIN contacts' = 1 .. (n + Len(new)) /\ Len(new) \in Nat
        /\ \A i \in 1 .. n : contacts'[i] = contacts[i]
        /\ \A k \in 1 .. Len(new) : contacts'[n + k] = new[k]
    BY <1>2, <1>3, ConcatProperties, LenProperties DEF TypeOK
  <1> HIDE DEF n
  <1> DEFINE Now(x, y) == {i \in DOMAIN contacts' : /\ contacts'[i].userId = x
                                                    /\ contacts'[i].friendUserId = y}
  <1>5. \A x, y : /\ RowsFor(x, y) \subseteq Now(x, y)
                  /\ \A i \in RowsFor(x, y) : contacts'[i] = contacts[i]
    BY <1>4 DEF RowsFor
  <1>6. ASSUME NEW x, NEW y, NEW i \in Now(x, y), i \notin RowsFor(x, y)
        PROVE  <<x, y>> \in both
    <2>1. i \in 1 .. (n + Len(new)) /\ i \notin 1 .. n
      BY <1>4, <1>6 DEF RowsFor
    <2>2. PICK k \in 1 .. Len(new) : i = n + k
      <3>1. i - n \in 1 .. Len(new)
        BY <1>4, <2>1
      <3> QED BY <1>4, <2>1, <3>1
    <2>3. contacts'[i] = new[k] /\ new[k].userId = x /\ new[k].friendUserId = y
      BY <1>4, <1>6, <2>2
    <2> QED BY <1>1, <2>3
  <1>7. ASSUME NEW x, NEW y, <<x, y>> \in both
        PROVE  \E i \in Now(x, y) : contacts'[i].status # 1
    <2>1. PICK k \in 1 .. Len(new) : <<x, y>> = of(k)
      BY <1>1, <1>7
    <2>2. n + k \in DOMAIN contacts' /\ contacts'[n + k] = new[k]
      BY <1>4
    <2>3. new[k].userId = x /\ new[k].friendUserId = y /\ new[k].status = 0
      BY <1>1, <2>1
    <2> QED BY <2>2, <2>3
  <1>8. ASSUME NEW x, NEW y
        PROVE  /\ <<x, y>> \in Pairs' <=> <<x, y>> \in Pairs \cup both
               /\ <<x, y>> \in Hidden' <=> <<x, y>> \in Hidden \ both
    <2>1. <<x, y>> \in Pairs' <=> Now(x, y) # {}
      BY HiddenPairsNext DEF RowsFor
    <2>2. <<x, y>> \in Hidden' <=> /\ <<x, y>> \in Pairs'
                                   /\ \A i \in Now(x, y) : contacts'[i].status = 1
      BY HiddenPairsNext DEF RowsFor
    <2> HIDE DEF both, Now
    <2>3. CASE <<x, y>> \in both
      BY <1>7, <2>1, <2>2, <2>3
    <2>4. CASE <<x, y>> \notin both
      <3>1. Now(x, y) = RowsFor(x, y)
        BY <1>5, <1>6, <2>4
      <3>2. <<x, y>> \in Pairs' <=> <<x, y>> \in Pairs
        BY <2>1, <3>1, HiddenPairs
      <3>3. \A i \in Now(x, y) : contacts'[i].status = contacts[i].status
        BY <1>5, <3>1
      <3>4. <<x, y>> \in Hidden <=> /\ <<x, y>> \in Pairs
                                    /\ \A i \in Now(x, y) : contacts[i].status = 1
        BY <3>1, HiddenPairs
      <3>5. <<x, y>> \in Hidden' <=> <<x, y>> \in Hidden
        <4>1. (\A i \in Now(x, y) : contacts'[i].status = 1)
                <=> \A i \in Now(x, y) : contacts[i].status = 1
          <5>1. ASSUME NEW i \in Now(x, y)
                PROVE  contacts'[i].status = 1 <=> contacts[i].status = 1
            BY <3>3
          <5> QED BY <5>1
        <4> QED BY <2>2, <3>2, <3>4, <4>1
      <3> QED BY <2>4, <3>2, <3>5
    <2> QED BY <2>3, <2>4
  <1>9. /\ \A p \in Pairs' \cup (Pairs \cup both) : p = <<p[1], p[2]>>
        /\ \A p \in Hidden' \cup (Hidden \ both) : p = <<p[1], p[2]>>
    BY HiddenPairs, HiddenPairsNext
  <1> HIDE DEF both
  <1>10. Pairs' = Pairs \cup both
    BY <1>8, <1>9, ByPairs
  <1>11. Hidden' = Hidden \ both
    BY <1>8, <1>9, ByPairs
  <1> QED BY <1>10, <1>11 DEF both

(* CheckAndUpdateRelation shows the sender its contact.                    *)
LEMMA UpdateShows ==
  ASSUME Known, NEW t \in Threads, CheckUpdate(t)
  PROVE  CS!Next \/ UNCHANGED CS!vars
  <1> DEFINE q == Asked(req[t])
  <1>0. /\ TypeOK /\ pc[t] = "check_update"
        /\ req[t].from \in Users /\ req[t].to \in Users
        /\ loc[t].stale # {} /\ loc[t].stale \subseteq RowsFor(req[t].from, req[t].to)
        /\ req[t].kind = "MsgData" /\ req[t].type = "im"
    BY DEF Known, IInv, ReqOK, AnswerInv, OwnRows, OwnRow, TalkInv, StaleOK, PathsOK,
       CheckUpdate, PairLabels, BusyLabels, Labels, BeforeInsert
  <1>1. /\ pc'[t] = "get_relate"
        /\ UNCHANGED <<messages, counter, req, nextReq, answers, boot>>
        /\ \A o \in Threads \ {t} : pc'[o] = pc[o] /\ req'[o] = req[o]
    BY <1>0 DEF CheckUpdate, Goto, TypeOK, cache
  <1>2. Pending' = Pending /\ Counted' = Counted /\ Log' = Log /\ Answered' = Answered
    BY <1>0, <1>1, SamePending, SameCounted, SameLog DEF Answered
  <1>3. q \in CS!PendingMessages /\ q.from = req[t].from /\ q.to = req[t].to
    BY <1>0, AtWork
  <1>4. CASE contacts' = SetStatus(loc[t].stale, 0)
    <2>1. Pairs' = Pairs /\ Hidden' = Hidden \ {<<req[t].from, req[t].to>>}
      BY <1>0, <1>4, StatusWritten, RowsShownAgain
    <2> HIDE DEF q
    <2>2. CS!Show(q)
      BY <1>1, <1>2, <1>3, <2>1 DEF CS!Show
    <2> QED BY <1>3, <2>2 DEF CS!Next
  <1>5. CASE contacts' = contacts
    BY <1>1, <1>2, <1>5, SameContacts DEF CS!vars
  <1> QED BY <1>4, <1>5 DEF CheckUpdate

(* AddFriendship makes the two users contacts.                             *)
LEMMA InsertRelates ==
  ASSUME Known, NEW t \in Threads, AddInsert(t)
  PROVE  CS!Next \/ UNCHANGED CS!vars
  <1> DEFINE q == Asked(req[t])
  <1>0. /\ TypeOK /\ pc[t] = "add_insert"
        /\ req[t].from \in Users /\ req[t].to \in Users
        /\ req[t].kind = "MsgData" /\ req[t].type = "im"
    BY DEF Known, IInv, ReqOK, AnswerInv, OwnRows, OwnRow, TalkInv, PathsOK,
       AddInsert, PairLabels, BusyLabels, Labels, BeforeInsert
  <1>1. /\ pc'[t] = "msg_insert"
        /\ UNCHANGED <<messages, counter, req, nextReq, answers, boot>>
        /\ \A o \in Threads \ {t} : pc'[o] = pc[o] /\ req'[o] = req[o]
    BY <1>0 DEF AddInsert, Goto, TypeOK, cache
  <1>2. Pending' = Pending /\ Counted' = Counted /\ Log' = Log /\ Answered' = Answered
    BY <1>0, <1>1, SamePending, SameCounted, SameLog DEF Answered
  <1>3. q \in CS!PendingMessages /\ q.from = req[t].from /\ q.to = req[t].to
    BY <1>0, AtWork
  <1>4. CASE contacts' = contacts \o NewContacts(req[t].from, req[t].to)
    <2>1. /\ Pairs' = Pairs \cup {<<req[t].from, req[t].to>>, <<req[t].to, req[t].from>>}
          /\ Hidden' = Hidden \ {<<req[t].from, req[t].to>>, <<req[t].to, req[t].from>>}
      BY <1>0, <1>4, RelationInserted
    <2> HIDE DEF q
    <2>2. CS!Relate(q)
      BY <1>1, <1>2, <1>3, <2>1 DEF CS!Relate
    <2> QED BY <1>3, <2>2 DEF CS!Next
  <1>5. CASE contacts' = contacts
    BY <1>1, <1>2, <1>5, SameContacts DEF CS!vars
  <1> QED BY <1>4, <1>5 DEF AddInsert

(* DeleteRecentContactByUserId hides a contact of its user.                *)
LEMMA RemoveHides ==
  ASSUME Known, NEW t \in Threads, Remove(t)
  PROVE  CS!Next \/ UNCHANGED CS!vars
  <1> DEFINE q == Asked(req[t])
  <1>0. /\ TypeOK /\ pc[t] = "remove"
        /\ req[t].from \in Users /\ req[t].to \in Users
        /\ req[t].kind = "RemoveSession"
    BY DEF Known, IInv, ReqOK, TalkInv, PathsOK, Remove, PairLabels, BusyLabels, Labels
  <1>1. /\ pc'[t] = "reply"
        /\ UNCHANGED <<messages, counter, req, nextReq, answers, boot>>
        /\ \A o \in Threads \ {t} : pc'[o] = pc[o] /\ req'[o] = req[o]
    BY <1>0 DEF Remove, Finish, Goto, TypeOK, cache
  <1>2. Pending' = Pending /\ Counted' = Counted /\ Log' = Log /\ Answered' = Answered
    BY <1>0, <1>1, SamePending, SameCounted, SameLog DEF Answered
  <1>3. q \in CS!PendingRemovals /\ q.from = req[t].from /\ q.to = req[t].to
    BY <1>0, AtWork
  <1>4. ASSUME NEW i \in RowsFor(req[t].from, req[t].to), contacts' = SetStatus({i}, 1)
        PROVE  CS!Next \/ UNCHANGED CS!vars
    <2>1. /\ Pairs' = Pairs
          /\ Hidden' = Hidden \/ Hidden' = Hidden \cup {<<req[t].from, req[t].to>>}
      BY <1>0, <1>4, StatusWritten, RowHidden
    <2>2. <<req[t].from, req[t].to>> \in Pairs
      BY <1>0, HiddenPairs
    <2> HIDE DEF q
    <2>3. CASE Hidden' = Hidden
      BY <1>1, <1>2, <2>1, <2>3 DEF CS!vars
    <2>4. CASE Hidden' = Hidden \cup {<<req[t].from, req[t].to>>}
      <3>1. CS!Hide(q)
        BY <1>1, <1>2, <1>3, <2>1, <2>2, <2>4 DEF CS!Hide
      <3> QED BY <1>3, <3>1 DEF CS!Next
    <2> QED BY <2>1, <2>3, <2>4
  <1>5. CASE contacts' = contacts
    BY <1>1, <1>2, <1>5, SameContacts DEF CS!vars
  <1> QED BY <1>4, <1>5 DEF Remove

-----------------------------------------------------------------------------
(* The statements that write the messages and the totals.                  *)

(* A row appended to the table of messages is one appended to the log.     *)
LEMMA LogAppended ==
  ASSUME TypeOK, NEW m \in MessageRows, messages' = Append(messages, m)
  PROVE  Log' = Append(Log, [id |-> m.req, from |-> m.from, to |-> m.to,
                             linked |-> m.relateId # 0])
  <1> DEFINE entry(x) == [id |-> x.req, from |-> x.from, to |-> x.to,
                          linked |-> x.relateId # 0]
             n == Len(messages)
             S == [id : Nat, from : Users, to : Users, linked : BOOLEAN]
  <1>1. /\ n \in Nat /\ DOMAIN messages = 1 .. n /\ DOMAIN messages' = 1 .. (n + 1)
        /\ messages'[n + 1] = m
        /\ \A i \in 1 .. n : messages[i] \in MessageRows /\ messages'[i] = messages[i]
    BY LenProperties, ElementOfSeq, AppendProperties DEF TypeOK
  <1>2. \A x \in MessageRows : entry(x) \in S
    BY DEF MessageRows
  <1>3. Log = [i \in 1 .. n |-> entry(messages[i])]
    BY <1>1 DEF Log
  <1>4. Log' = [i \in 1 .. (n + 1) |-> entry(messages'[i])]
    BY <1>1 DEF Log
  <1> HIDE DEF n, entry, S
  <1>5. Log \in [1 .. n -> S]
    BY <1>1, <1>2, <1>3
  <1>6. Log \in Seq(S) /\ Len(Log) = n
    BY <1>1, <1>5, TableIsSeq, LenProperties
  <1> DEFINE longer == Append(Log, entry(m))
  <1>7. /\ longer \in Seq(S) /\ Len(longer) = n + 1 /\ longer[n + 1] = entry(m)
        /\ \A i \in 1 .. n : longer[i] = Log[i]
    BY <1>2, <1>6, AppendProperties
  <1>8. longer = [i \in 1 .. (n + 1) |-> longer[i]]
    BY <1>7, LenProperties, SeqDef
  <1> HIDE DEF longer
  <1>9. \A i \in 1 .. (n + 1) : longer[i] = entry(messages'[i])
    BY <1>1, <1>3, <1>7
  <1>10. Log' = longer
    BY <1>4, <1>8, <1>9
  <1> QED BY <1>10 DEF longer, entry

(* SendIMMessage stores a message that is not stored yet; if it links it,  *)
(* then to a relation of the two users, who are each other's contacts.     *)
LEMMA InsertStores ==
  ASSUME Known, NEW t \in Threads, MsgInsert(t)
  PROVE  CS!Next \/ UNCHANGED CS!vars
  <1> DEFINE q == Asked(req[t])
             from == req[t].from
             to == req[t].to
  <1>0. /\ TypeOK /\ pc[t] = "msg_insert" /\ from \in Users /\ to \in Users
        /\ \/ loc[t].relate = 0
           \/ loc[t].relate \in RowsFor(Small(from, to), Big(from, to))
        /\ req[t].kind = "MsgData" /\ req[t].type = "im"
        /\ Cardinality(RowsOf(req[t].id)) = 0
        /\ ContactsMirrored /\ RequestIds /\ NumbersOK
    BY DEF Known, IInv, ReqOK, RelateOK, AnswerInv, OwnRows, OwnRow, TalkInv, PathsOK,
       MsgInsert, PairLabels, BusyLabels, Labels, BeforeInsert
  <1>1. /\ pc'[t] \in {"reply", "incr_total"}
        /\ UNCHANGED <<contacts, counter, req, nextReq, answers, boot>>
        /\ \A o \in Threads \ {t} : pc'[o] = pc[o] /\ req'[o] = req[o]
    BY <1>0 DEF MsgInsert, Finish, Goto, TypeOK, cache
  <1>2. Pending' = Pending /\ Pairs' = Pairs /\ Hidden' = Hidden /\ Answered' = Answered
    BY <1>0, <1>1, SamePending, SameContacts DEF Answered
  <1>3. /\ q \in CS!PendingMessages
        /\ q.id = req[t].id /\ q.from = from /\ q.to = to
    BY <1>0, AtWork
  <1>4. CASE messages' = messages /\ pc'[t] = "reply"
    <2>1. Log' = Log /\ Counted' = Counted
      BY <1>0, <1>1, <1>4, SameLog, SameCounted
    <2> QED BY <1>1, <1>2, <2>1 DEF CS!vars
  <1>5. CASE messages' # messages \/ pc'[t] # "reply"
    <2> DEFINE m == [relateId |-> loc[t].relate, from |-> from, to |-> to,
                     req |-> req[t].id, boot |-> boot]
               linked == loc[t].relate # 0
    <2>1. messages' = Append(messages, m) /\ pc'[t] = "incr_total"
      BY <1>0, <1>5 DEF MsgInsert, Finish, Goto, TypeOK
    <2>2. m \in MessageRows
      <3>1. loc[t].relate \in Nat
        BY <1>0, LenProperties DEF TypeOK, RowsFor
      <3>2. req[t].id \in Nat /\ boot \in Nat
        BY <1>0 DEF TypeOK, Requests
      <3> QED BY <1>0, <3>1, <3>2 DEF MessageRows
    <2>3. Log' = Append(Log, [id |-> q.id, from |-> q.from, to |-> q.to, linked |-> linked])
      <3>1. /\ m.req = q.id /\ m.from = q.from /\ m.to = q.to
            /\ (m.relateId # 0) = linked
        BY <1>3
      <3> HIDE DEF m, q, linked
      <3> QED BY <1>0, <2>1, <2>2, <3>1, LogAppended
    <2>4. ~ CS!Stored(q)
      BY <1>0, <1>3, NoRows, StoredRows
    <2>5. linked => <<from, to>> \in Pairs
      <3> SUFFICES ASSUME linked PROVE RowsFor(from, to) # {}
        BY <1>0, HiddenPairs
      <3> DEFINE i == loc[t].relate
      <3>1. i \in RowsFor(Small(from, to), Big(from, to))
        BY <1>0
      <3>2. RowsFor(Big(from, to), Small(from, to)) # {}
        BY <1>0, <3>1 DEF ContactsMirrored, RowsFor
      <3>3. \/ Small(from, to) = from /\ Big(from, to) = to
            \/ Small(from, to) = to /\ Big(from, to) = from
        BY <1>0, UsersAssumption DEF Small, Big
      <3> QED BY <3>1, <3>2, <3>3
    <2>6. Counted' = Counted
      <3>1. \A j \in DOMAIN messages : messages[j].req # req[t].id
        BY <1>0, NoRows DEF RowsOf
      <3>2. /\ DOMAIN messages \subseteq DOMAIN messages'
            /\ \A j \in DOMAIN messages : messages'[j] = messages[j]
        BY <1>0, <2>1, <2>2, AppendProperties, LenProperties DEF TypeOK
      <3>3. \A j \in DOMAIN messages' : \/ j \in DOMAIN messages
                                       \/ messages'[j].req = req[t].id
        BY <1>0, <2>1, <2>2, AppendProperties, LenProperties DEF TypeOK
      <3>4. ASSUME NEW k \in 1 .. nextReq - 1
            PROVE  k \in Counted' <=> k \in Counted
        <4>1. CASE k = req[t].id
          BY <1>1, <2>1, <3>1, <4>1 DEF Counted
        <4>2. CASE k # req[t].id
          BY <1>0, <1>1, <2>1, <3>2, <3>3, <4>2 DEF Counted
        <4> QED BY <4>1, <4>2
      <3> QED BY <1>1, <3>4 DEF Counted
    <2>7. linked \in BOOLEAN
      OBVIOUS
    <2> HIDE DEF q, linked
    <2>8. CS!Store(q, linked)
      BY <1>1, <1>2, <1>3, <2>3, <2>4, <2>5, <2>6 DEF CS!Store
    <2> QED BY <1>3, <2>7, <2>8 DEF CS!Next
  <1> QED BY <1>4, <1>5

(* IncrUserMsgCount counts a message that is stored and not counted yet.   *)
LEMMA IncrCounts ==
  ASSUME Known, NEW t \in Threads, IncrUserMsgCount(t)
  PROVE  CS!Next
  <1> DEFINE q == Asked(req[t])
  <1>0. /\ TypeOK /\ pc[t] = "incr_total"
        /\ req[t].kind = "MsgData" /\ req[t].type = "im"
        /\ Cardinality(RowsOf(req[t].id)) = 1
        /\ RequestIds /\ NumbersOK /\ OwnBoot
    BY DEF Known, IInv, AnswerInv, OwnRows, OwnRow, TalkInv, PathsOK,
       IncrUserMsgCount, AfterInsert
  <1>1. /\ pc'[t] = "incr_unread"
        /\ UNCHANGED <<contacts, messages, req, nextReq, answers, boot>>
        /\ counter' = [counter EXCEPT ![req[t].from][req[t].to] = @ + 1]
        /\ \A o \in Threads \ {t} : pc'[o] = pc[o] /\ req'[o] = req[o]
    BY <1>0 DEF IncrUserMsgCount, Goto, TypeOK, db
  <1>2. /\ Pending' = Pending /\ Pairs' = Pairs /\ Hidden' = Hidden
        /\ Log' = Log /\ Answered' = Answered
    BY <1>0, <1>1, SamePending, SameContacts, SameLog DEF Answered
  <1>3. /\ q \in CS!PendingMessages /\ q.id = req[t].id
        /\ q.from = req[t].from /\ q.to = req[t].to
    BY <1>0, AtWork
  <1>4. RowsOf(req[t].id) # {}
    BY <1>0, NoRows
  <1>5. CS!Stored(q)
    BY <1>0, <1>3, <1>4, StoredRows
  <1>6. req[t].id \notin Counted
    BY <1>0 DEF Counted
  <1>7. Counted' = Counted \cup {req[t].id}
    <2>1. req[t].id \in 1 .. nextReq - 1
      BY <1>0 DEF RequestIds, NumbersOK, TypeOK, Requests
    <2>2. \E i \in DOMAIN messages : messages[i].req = req[t].id /\ messages[i].boot = boot
      BY <1>0, <1>4 DEF RowsOf, OwnBoot
    <2>3. \A o \in Threads \ {t} : pc[o] = "incr_total" => req[o].id # req[t].id
      BY <1>0 DEF RequestIds
    <2>4. ASSUME NEW n \in 1 .. nextReq - 1
          PROVE  n \in Counted' <=> n \in Counted \cup {req[t].id}
      <3>1. CASE n = req[t].id
        BY <1>1, <2>2, <2>3, <3>1 DEF Counted
      <3>2. CASE n # req[t].id
        BY <1>0, <1>1, <3>2 DEF Counted
      <3> QED BY <3>1, <3>2
    <2> QED BY <1>1, <2>1, <2>4 DEF Counted
  <1> HIDE DEF q
  <1>8. CS!Count(q)
    BY <1>1, <1>2, <1>3, <1>5, <1>6, <1>7 DEF CS!Count
  <1> QED BY <1>3, <1>8 DEF CS!Next

-----------------------------------------------------------------------------
(* The steps users do not see, and the whole.                              *)

(* A step that writes no table, no total and no answer and that stays away *)
(* from incr_total.                                                        *)
LEMMA UnseenStep ==
  ASSUME Known, NEW t \in Threads, contacts' = contacts,
         IncreaseUserUnreadMsgCount(t) \/ PlainStep(t),
         \A o \in Threads \ {t} : pc'[o] = pc[o] /\ req'[o] = req[o]
  PROVE  UNCHANGED CS!vars
  <1>0. TypeOK
    BY DEF Known, IInv
  <1>1. /\ pc[t] \notin {"idle", "incr_total"} /\ pc'[t] \notin {"idle", "incr_total"}
        /\ UNCHANGED <<messages, counter, req, nextReq, answers, boot>>
    <2>1. CASE IncreaseUserUnreadMsgCount(t)
      BY <1>0, <2>1 DEF IncreaseUserUnreadMsgCount, Finish, Goto, TypeOK, db
    <2>2. CASE PlainStep(t)
      BY <2>2 DEF PlainStep, BeforeInsert, AfterInsert, OtherLabels, BusyLabels
    <2> QED BY <2>1, <2>2
  <1>2. /\ Pending' = Pending /\ Counted' = Counted /\ Pairs' = Pairs
        /\ Hidden' = Hidden /\ Log' = Log /\ Answered' = Answered
    BY <1>1, SamePending, SameCounted, SameContacts, SameLog DEF Answered
  <1> QED BY <1>1, <1>2 DEF CS!vars

(* The death of the process and its start.                                 *)
LEMMA RestartForgets ==
  ASSUME Known, Restart
  PROVE  CS!Restart
  <1>1. /\ \A t \in Threads : pc'[t] = "idle"
        /\ UNCHANGED <<contacts, messages, nextReq, answers>>
        /\ boot' = boot + 1 /\ counter' = EmptyCache
    BY DEF Restart, db
  <1>2. Pairs' = Pairs /\ Hidden' = Hidden /\ Log' = Log /\ Answered' = Answered
    BY <1>1, SameContacts, SameLog DEF Answered
  <1>3. Pending' = {}
    BY <1>1 DEF Pending
  <1>4. Counted' = {}
    <2>1. ASSUME NEW i \in DOMAIN messages PROVE messages[i].boot # boot + 1
      <3>1. messages[i] \in MessageRows /\ boot \in Nat
        BY LenProperties, ElementOfSeq DEF Known, IInv, TypeOK
      <3>2. messages[i].boot \in Nat /\ messages[i].boot <= boot
        BY <3>1 DEF Known, AccountInv, BootsPast, MessageRows
      <3> QED BY <3>1, <3>2
    <2> QED BY <1>1, <2>1 DEF Counted
  <1> QED BY <1>1, <1>2, <1>3, <1>4 DEF CS!Restart, EmptyCache

(* The empty tables hold no promise to keep yet.                           *)
LEMMA ConversationsInit ==
  ASSUME Init
  PROVE  CS!Init
  <1>1. Pending = {} /\ Pairs = {} /\ Hidden = {} /\ Answered = {}
    BY DEF Init, Pending, Pairs, Hidden, Answered
  <1>2. 1 .. nextReq - 1 = {} /\ Counted = {}
    BY DEF Init, Counted
  <1>3. Log = <<>>
    BY DEF Init, Log
  <1> QED BY <1>1, <1>2, <1>3 DEF Init, CS!Init, EmptyCache

(* Every step is one of what users are promised, or invisible to them.     *)
LEMMA ConversationsNext ==
  ASSUME Known, [Next]_vars
  PROVE  CS!Next \/ UNCHANGED CS!vars
  <1>0. TypeOK
    BY DEF Known, IInv
  <1>1. CASE UNCHANGED vars
    <2>1. /\ Pending' = Pending /\ Counted' = Counted /\ Answered' = Answered
          /\ Pairs' = Pairs /\ Hidden' = Hidden /\ Log' = Log
      BY <1>1, SameContacts, SameLog DEF vars, Pending, IsPending, Asked, Counted, Answered
    <2> QED BY <1>1, <2>1 DEF vars, CS!vars
  <1>2. CASE Restart
    BY <1>2, RestartForgets DEF CS!Next
  <1>3. ASSUME NEW t \in Threads, Accept(t) \/ Work(t)
        PROVE  CS!Next \/ UNCHANGED CS!vars
    <2>1. CASE Accept(t)
      BY <2>1, AcceptTakes
    <2>2. CASE SendSessionData(t)
      BY <2>2, AnswerStep
    <2>3. CASE MsgInsert(t)
      BY <2>3, InsertStores
    <2>4. CASE IncrUserMsgCount(t)
      BY <2>4, IncrCounts
    <2>5. CASE CheckUpdate(t)
      BY <2>5, UpdateShows
    <2>6. CASE AddInsert(t)
      BY <2>6, InsertRelates
    <2>7. CASE Remove(t)
      BY <2>7, RemoveHides
    <2>8. CASE contacts' = contacts /\ (IncreaseUserUnreadMsgCount(t) \/ PlainStep(t))
      <3>1. \A o \in Threads \ {t} : pc'[o] = pc[o] /\ req'[o] = req[o]
        BY <1>0, <1>3, StepKinds
      <3> QED BY <2>8, <3>1, UnseenStep
    <2>9. /\ contacts' = contacts \/ CheckUpdate(t) \/ Remove(t) \/ AddInsert(t)
          /\ \/ Accept(t) \/ SendSessionData(t) \/ MsgInsert(t) \/ IncrUserMsgCount(t)
             \/ IncreaseUserUnreadMsgCount(t) \/ PlainStep(t)
      BY <1>0, <1>3, Frame, StepKinds
    <2> QED BY <2>1, <2>2, <2>3, <2>4, <2>5, <2>6, <2>7, <2>8, <2>9
  <1> QED BY <1>1, <1>2, <1>3 DEF Next

(* The handlers, the tables and the cache keep the promises of             *)
(* Conversations, for any number of racing threads, whatever statements    *)
(* fail and whenever the process dies.                                     *)
THEOREM ConversationsKept == Spec => ImplementsConversations
  <1>1. Init => CS!Init
    BY ConversationsInit
  <1>2. Known /\ [Next]_vars => [CS!Next]_(CS!vars)
    BY ConversationsNext
  <1> QED BY <1>1, <1>2, TalksInductive, PTL DEF Spec, ImplementsConversations, CS!Spec
=============================================================================
