---------------------------- MODULE MessageStore ----------------------------
(***************************************************************************)
(* The one-to-one message path of zaresd: the relationship manager (table  *)
(* IMRecentContact), the message manager (table IMMessage) and the counter *)
(* manager (an in-memory cache), driven by the handlers of MSG_DATA,       *)
(* REMOVE_SESSION, MSG_READ_ACK, UNREAD_MSG, UNREAD_MSG_COUNT and          *)
(* FRIEND_LIST requests on several handler threads.                        *)
(*                                                                         *)
(* A step of a thread is one SQL statement (the code opens no transaction, *)
(* so statements of different threads interleave) or one critical section  *)
(* of the cache's lock.  The database and its connection library are not   *)
(* part of the repository; they are modelled from how the code uses them.  *)
(***************************************************************************)
EXTENDS Integers, Sequences, FiniteSets

CONSTANTS
  Threads,             \* the handler threads
  Users,               \* the user ids clients may name; 0 is never one
  ClientTypes,         \* the client types a request may carry
  SYS_SERVER_USER_ID,  \* the service account, whose session cannot be removed
  UNREAD_MAX_COUNTER,  \* most unread messages fetched by one request
  UNREAD_LIST_LIMIT,   \* most friends listed by one unread-count request
  RECENT_LIMIT,        \* most contacts listed by one friend-list request
  Inputs,              \* the requests clients may send
  MaxReq,              \* bound: requests accepted in a behaviour
  MaxFault,            \* bound: failed SQL statements in a behaviour
  MaxBoot              \* bound: restarts of the process in a behaviour

ASSUME UsersAssumption == Users \subseteq Nat \ {0}
ASSUME LimitsAssumption ==
  /\ UNREAD_MAX_COUNTER \in Nat \ {0}
  /\ UNREAD_LIST_LIMIT \in Nat \ {0}
  /\ RECENT_LIMIT \in Nat \ {0}
ASSUME BoundsAssumption == MaxReq \in Nat /\ MaxFault \in Nat /\ MaxBoot \in Nat
ASSUME ThreadsAssumption == IsFiniteSet(Threads)
ASSUME ClientTypesAssumption == ClientTypes \subseteq Nat /\ ClientTypes # {}

kInvalidID == -1       \* 0xFFFFFFFF as a uint32

VARIABLES
  contacts,    \* table IMRecentContact; a row's relateId is its index
  messages,    \* table IMMessage; a row's id is its index
  counter,     \* CacheManager::counter_instance
  unread,      \* CacheManager::unread_instance; 0 stands for no entry
  unreadKeys,  \* the users that have an entry in unread_instance
  pc,          \* the statement or critical section a thread is about to run
  req,         \* the request a thread works on
  loc,         \* a thread's local variables
  reply,       \* the response a thread is about to send
  nextReq,     \* number of the next request
  answers,     \* the answers to message requests (history)
  faults,      \* number of SQL statements that failed
  boot         \* number of restarts

db    == <<contacts, messages>>
cache == <<counter, unread, unreadKeys>>
vars  == <<contacts, messages, counter, unread, unreadKeys, pc, req, loc,
           reply, nextReq, answers, faults, boot>>

Ids == Users \cup {0}

(* user_unread_count_ios, _android and _other: one map per client type.    *)
Slots == {"ios", "android", "other"}
GetUnreadCountByClientType(client_type) ==
  IF client_type = 17 THEN "ios" ELSE IF client_type = 18 THEN "android" ELSE "other"

(* The message types MsgDataHandler tells apart; "invalid" stands for a    *)
(* type that is not one of the four, an empty text or a text above the     *)
(* length limit.  RemoveSession uses "im", "group" and "invalid" (0) for   *)
(* its session type.                                                       *)
MsgTypes == {"im", "audio", "group", "invalid"}

Kinds == {"MsgData", "RemoveSession", "MsgReadAck", "UnreadMsg",
          "UnreadMsgCount", "FriendList"}

ASSUME InputsAssumption ==
  Inputs \subseteq [kind : Kinds, from : Ids, to : Ids, type : MsgTypes,
                    client_type : ClientTypes]

Requests == [id : Nat, kind : Kinds, from : Ids, to : Ids,
             type : MsgTypes, client_type : ClientTypes]
NoRequest == [id |-> 0, kind |-> "FriendList", from |-> 0, to |-> 0,
              type |-> "im", client_type |-> CHOOSE c \in ClientTypes : TRUE]

ContactRows == [userId : Users, friendUserId : Users, status : {0, 1}]
MessageRows == [relateId : Nat, from : Users, to : Users, req : Nat, boot : Nat]
Locals  == [relate : Int, stale : SUBSET Nat, count : Nat]
Replies == [result : {0, 1}, list : SUBSET Nat]

NoLocals == [relate |-> kInvalidID, stale |-> {}, count |-> 0]
NoReply  == [result |-> 0, list |-> {}]

Labels == {"idle", "check_select", "check_update", "get_relate",
           "add_get_relate", "add_insert", "msg_insert", "incr_total",
           "incr_unread", "remove", "ack_find", "ack_erase", "unread_find",
           "unread_read", "unread_relate", "unread_select", "count_find",
           "count_read", "friends", "reply"}

EmptyCache == [a \in Users |-> [b \in Users |-> 0]]
EmptyUnread == [u \in Users |-> [s \in Slots |-> [f \in Users |-> 0]]]

Init ==
  /\ contacts = <<>>
  /\ messages = <<>>
  /\ counter = EmptyCache
  /\ unread = EmptyUnread
  /\ unreadKeys = {}
  /\ pc = [t \in Threads |-> "idle"]
  /\ req = [t \in Threads |-> NoRequest]
  /\ loc = [t \in Threads |-> NoLocals]
  /\ reply = [t \in Threads |-> NoReply]
  /\ nextReq = 1
  /\ answers = {}
  /\ faults = 0
  /\ boot = 0

-----------------------------------------------------------------------------
(* Auxiliary definitions.                                                  *)

Goto(t, label) == pc' = [pc EXCEPT ![t] = label]

(* The thread has its result and goes on to send it.                       *)
Finish(t, result, list) ==
  /\ Goto(t, "reply")
  /\ reply' = [reply EXCEPT ![t] = [result |-> result, list |-> list]]

(* A statement fails: Query returns NULL, Execute returns one of           *)
(* ExecErrors, ExecuteInsertID returns 0, and no row changes.              *)
Fault == faults < MaxFault /\ faults' = faults + 1
Sound == faults' = faults
ExecErrors == {-1, 0}

Small(a, b) == IF a > b THEN b ELSE a
Big(a, b)   == IF a > b THEN a ELSE b

RowsFor(a, b) ==
  {i \in DOMAIN contacts : contacts[i].userId = a /\ contacts[i].friendUserId = b}

(* Mutant: the two ids are not put in order before the SELECT.             *)
GetRelateIdUnordered(a, b) ==
  IF a = 0 \/ b = 0 \/ RowsFor(a, b) = {} THEN {kInvalidID} ELSE RowsFor(a, b)

(* GetRelateId: the relateId of the row that has the smaller user id       *)
(* first.  The statement has LIMIT 1 and no ORDER BY: any row may come.    *)
GetRelateId(a, b) ==
  IF a = 0 \/ b = 0 \/ RowsFor(Small(a, b), Big(a, b)) = {}
  THEN {kInvalidID}
  ELSE RowsFor(Small(a, b), Big(a, b))

SetStatus(ids, s) ==
  [i \in DOMAIN contacts |->
     IF i \in ids THEN [contacts[i] EXCEPT !.status = s] ELSE contacts[i]]

Slot(t) == GetUnreadCountByClientType(req[t].client_type)

(* FindUnreadCount returns a pointer that is used after the lock is        *)
(* released, so a thread that reads or erases entries through it races     *)
(* with every thread that writes the same std::map.  The outcome of such a *)
(* race is undefined: the process dies (Restart) or entries get lost.      *)
Touches(t, u, s) ==
  /\ req[t].from = u
  /\ \/ pc[t] = "incr_unread"
     \/ pc[t] \in {"ack_erase", "count_read", "unread_read"} /\ Slot(t) = s

Racing(t, s) ==
  \E o \in Threads \ {t} :
    /\ Touches(o, req[t].from, s)
    /\ {pc[t], pc[o]} \cap {"incr_unread", "ack_erase"} # {}
    /\ {pc[t], pc[o]} # {"incr_unread"}

-----------------------------------------------------------------------------
(* MsgDataHandler::Execute and SendIMMessage.                              *)

MsgDataAccept(t, r) ==
  IF r.from = 0 \/ r.to = 0 \/ r.type \in {"invalid", "audio"}
  THEN Finish(t, 1, {})              \* SendAudioMessage stores nothing, fails
  ELSE IF r.type = "group"
       THEN Finish(t, 0, {})         \* SendIMGroupMessage is an empty success
       ELSE Goto(t, "check_select") /\ UNCHANGED reply

(* CheckAndUpdateRelation, first statement: both disjuncts of its WHERE    *)
(* clause are bound to (usera_id, userb_id); LIMIT 2.                      *)
CheckSelect(t) ==
  /\ pc[t] = "check_select"
  /\ \/ /\ Sound
        /\ \E ids \in SUBSET RowsFor(req[t].from, req[t].to) :
             /\ Cardinality(ids) <= 2
             /\ Cardinality(ids) < 2 => ids = RowsFor(req[t].from, req[t].to)
             /\ loc' = [loc EXCEPT ![t].stale = {i \in ids : contacts[i].status # 0}]
             /\ Goto(t, IF \A i \in ids : contacts[i].status = 0
                        THEN "get_relate" ELSE "check_update")
     \/ Fault /\ Goto(t, "get_relate") /\ UNCHANGED loc
  /\ UNCHANGED <<db, cache, req, reply, nextReq, answers, boot>>

(* CheckAndUpdateRelation, second statement: show the session again.       *)
CheckUpdate(t) ==
  /\ pc[t] = "check_update"
  /\ \/ Sound /\ contacts' = SetStatus(loc[t].stale, 0)
     \/ Fault /\ UNCHANGED contacts
  /\ Goto(t, "get_relate")
  /\ UNCHANGED <<messages, cache, req, loc, reply, nextReq, answers, boot>>

LookupRelate(t, here, found, missing) ==
  /\ pc[t] = here
  /\ \E id \in GetRelateId(req[t].from, req[t].to) \cup {kInvalidID} :
       /\ IF id \in GetRelateId(req[t].from, req[t].to) THEN Sound ELSE Fault
       /\ loc' = [loc EXCEPT ![t].relate = id]
       /\ Goto(t, IF id = kInvalidID THEN missing ELSE found)
  /\ UNCHANGED <<db, cache, req, reply, nextReq, answers, boot>>

(* Mutant: a missing relation is not added.                                *)
GetRelateOnly(t) == LookupRelate(t, "get_relate", "msg_insert", "msg_insert")

GetRelate(t) == LookupRelate(t, "get_relate", "msg_insert", "add_get_relate")

(* Mutant: wait for another thread to add the relation.                    *)
AddGetRelateWaits(t) ==
  LookupRelate(t, "add_get_relate", "msg_insert", "add_get_relate")

(* AddFriendship: look again, then insert the pair of rows, the one with   *)
(* the smaller user id first; the first row's id is returned.              *)
AddGetRelate(t) == LookupRelate(t, "add_get_relate", "msg_insert", "add_insert")

(* Mutant: only the first direction is inserted.                           *)
NewContactsOneWay(a, b) ==
  <<[userId |-> Small(a, b), friendUserId |-> Big(a, b), status |-> 0]>>

NewContacts(a, b) ==
  LET row(x, y) == [userId |-> x, friendUserId |-> y, status |-> 0]
  IN  IF a = b THEN <<row(a, b)>>
      ELSE <<row(Small(a, b), Big(a, b)), row(Big(a, b), Small(a, b))>>

AddInsert(t) ==
  /\ pc[t] = "add_insert"
  /\ \/ /\ Sound
        /\ contacts' = contacts \o NewContacts(req[t].from, req[t].to)
        /\ loc' = [loc EXCEPT ![t].relate = Len(contacts) + 1]
     \/ /\ Fault
        /\ loc' = [loc EXCEPT ![t].relate = 0]
        /\ UNCHANGED contacts
  /\ Goto(t, "msg_insert")
  /\ UNCHANGED <<messages, cache, req, reply, nextReq, answers, boot>>

(* Mutant: the result of the INSERT is not looked at.                      *)
MsgInsertUnchecked(t) ==
  /\ pc[t] = "msg_insert"
  /\ \/ /\ Sound
        /\ messages' = Append(messages,
             [relateId |-> loc[t].relate, from |-> req[t].from,
              to |-> req[t].to, req |-> req[t].id, boot |-> boot])
     \/ Fault /\ UNCHANGED messages
  /\ Goto(t, "incr_total")
  /\ UNCHANGED <<contacts, cache, req, loc, reply, nextReq, answers, boot>>

MsgInsert(t) ==
  /\ pc[t] = "msg_insert"
  /\ \/ /\ Sound
        /\ messages' = Append(messages,
             [relateId |-> loc[t].relate, from |-> req[t].from,
              to |-> req[t].to, req |-> req[t].id, boot |-> boot])
        /\ Goto(t, "incr_total")
        /\ UNCHANGED reply
     \/ Fault /\ Finish(t, 1, {}) /\ UNCHANGED messages
  /\ UNCHANGED <<contacts, cache, req, loc, nextReq, answers, boot>>

(* Mutant: the total is counted for the opposite direction.                *)
IncrUserMsgCountSwapped(t) ==
  /\ pc[t] = "incr_total"
  /\ counter' = [counter EXCEPT ![req[t].to][req[t].from] = @ + 1]
  /\ Goto(t, "incr_unread")
  /\ UNCHANGED <<db, unread, unreadKeys, req, loc, reply, nextReq, answers, faults, boot>>

(* IncrCounterForNewMessage: two critical sections of the cache's lock.    *)
IncrUserMsgCount(t) ==
  /\ pc[t] = "incr_total"
  /\ counter' = [counter EXCEPT ![req[t].from][req[t].to] = @ + 1]
  /\ Goto(t, "incr_unread")
  /\ UNCHANGED <<db, unread, unreadKeys, req, loc, reply, nextReq, answers, faults, boot>>

IncreaseUserUnreadMsgCount(t) ==
  /\ pc[t] = "incr_unread"
  /\ \E left \in [Slots -> SUBSET Users] :
       /\ \A s \in Slots : left[s] = Users \/ Racing(t, s)
       /\ unread' = [unread EXCEPT ![req[t].from] =
            [s \in Slots |->
               [f \in Users |-> IF f \notin left[s] THEN 0
                                ELSE IF f = req[t].to THEN @[s][f] + 1
                                ELSE @[s][f]]]]
  /\ unreadKeys' = unreadKeys \cup {req[t].from}
  /\ Finish(t, 0, {})
  /\ UNCHANGED <<db, counter, req, loc, nextReq, answers, faults, boot>>

-----------------------------------------------------------------------------
(* RemoveSessionRequestHandler::Execute for a session with a user, and     *)
(* DeleteRecentContactByUserId: hide one row (LIMIT 1).  Execute returns   *)
(* the number of rows it changed; the code takes 0 for success.            *)

RemoveAccept(t, r) ==
  IF r.from = 0 \/ r.to \in {0, SYS_SERVER_USER_ID} \/ r.type = "invalid"
  THEN Finish(t, 0, {})
  ELSE IF r.type = "group"           \* the group is looked up, nothing is done
       THEN \E result \in {0, 1} : Finish(t, result, {})
       ELSE Goto(t, "remove") /\ UNCHANGED reply

RemoveResult(executed) == IF 0 = executed THEN 0 ELSE 1

(* Mutant: a row of either direction is hidden.                            *)
RemoveEitherWay(t) ==
  /\ pc[t] = "remove"
  /\ LET rows == RowsFor(req[t].from, req[t].to) \cup RowsFor(req[t].to, req[t].from) IN
     \/ /\ Sound /\ rows = {}
        /\ Finish(t, RemoveResult(0), {}) /\ UNCHANGED contacts
     \/ /\ Sound
        /\ \E i \in rows :
             /\ contacts' = SetStatus({i}, 1)
             /\ Finish(t, RemoveResult(1 - contacts[i].status), {})
  /\ UNCHANGED <<messages, cache, req, loc, nextReq, answers, boot>>

Remove(t) ==
  /\ pc[t] = "remove"
  /\ LET rows == RowsFor(req[t].from, req[t].to) IN
     \/ /\ Sound /\ rows = {}
        /\ Finish(t, RemoveResult(0), {}) /\ UNCHANGED contacts
     \/ /\ Sound
        /\ \E i \in rows :
             /\ contacts' = SetStatus({i}, 1)
             /\ Finish(t, RemoveResult(1 - contacts[i].status), {})
     \/ /\ Fault
        /\ \E e \in ExecErrors : Finish(t, RemoveResult(e), {})
        /\ UNCHANGED contacts
  /\ UNCHANGED <<messages, cache, req, loc, nextReq, answers, boot>>

-----------------------------------------------------------------------------
(* The cache's readers.  FindUnreadCount looks the user up under the lock  *)
(* and returns a pointer to the user's map, which is read or changed after *)
(* the lock is released: two steps.  NULL is answered at once.             *)

FindUnreadCount(t, here, found, ifNull) ==
  /\ pc[t] = here
  /\ IF req[t].from \in unreadKeys
     THEN Goto(t, found) /\ UNCHANGED reply
     ELSE Finish(t, ifNull, {})
  /\ UNCHANGED <<db, cache, req, loc, nextReq, answers, faults, boot>>

(* MsgReadAckHandler: ClearUserUnreadItemCount erases the friend's entry.  *)
MsgReadAckAccept(t, r) ==
  IF r.from = 0 \/ r.to = 0
  THEN Finish(t, 1, {})
  ELSE Goto(t, "ack_find") /\ UNCHANGED reply

AckFind(t) == FindUnreadCount(t, "ack_find", "ack_erase", 1)

AckErase(t) ==
  /\ pc[t] = "ack_erase"
  /\ \E left \in SUBSET Users :
       /\ left = Users \/ Racing(t, Slot(t))
       /\ unread' = [unread EXCEPT ![req[t].from][Slot(t)] =
            [f \in Users |-> IF f \in left \ {req[t].to} THEN @[f] ELSE 0]]
  /\ Finish(t, 0, {})
  /\ UNCHANGED <<db, counter, unreadKeys, req, loc, nextReq, answers, faults, boot>>

(* UnreadMsgCountRequestHandler: the friends with an entry, in the order   *)
(* of their ids, at most UNREAD_LIST_LIMIT of them.                        *)
UnreadMsgCountAccept(t, r) ==
  IF r.from = 0 THEN Finish(t, 0, {}) ELSE Goto(t, "count_find") /\ UNCHANGED reply

CountFind(t) == FindUnreadCount(t, "count_find", "count_read", 0)

GetUnreadMsgCount(u, s, seen) ==
  LET entries == {f \in seen : unread[u][s][f] > 0}
  IN  {f \in entries : Cardinality({g \in entries : g < f}) < UNREAD_LIST_LIMIT}

CountRead(t) ==
  /\ pc[t] = "count_read"
  /\ \E seen \in SUBSET Users :
       /\ seen = Users \/ Racing(t, Slot(t))
       /\ Finish(t, 0, GetUnreadMsgCount(req[t].from, Slot(t), seen))
  /\ UNCHANGED <<db, cache, req, loc, nextReq, answers, faults, boot>>

(* UnreadMsgRequestHandler: GetUserFriendUnreadCount, then GetMessages,    *)
(* which builds a ServerMsg for every row and adds none to its result.     *)
UnreadMsgAccept(t, r) ==
  IF r.from = 0 \/ r.to = 0
  THEN Finish(t, 0, {})
  ELSE Goto(t, "unread_find") /\ UNCHANGED reply

UnreadFind(t) == FindUnreadCount(t, "unread_find", "unread_read", 0)

Capped(count) == IF count > UNREAD_MAX_COUNTER THEN UNREAD_MAX_COUNTER ELSE count

UnreadRead(t) ==
  LET entry == unread[req[t].from][Slot(t)][req[t].to] IN
  /\ pc[t] = "unread_read"
  /\ \E count \in {Capped(entry), 0} :
       /\ count = Capped(entry) \/ Racing(t, Slot(t))
       /\ loc' = [loc EXCEPT ![t].count = count]
       /\ IF count > 0
          THEN Goto(t, "unread_relate") /\ UNCHANGED reply
          ELSE Finish(t, 0, {})
  /\ UNCHANGED <<db, cache, req, nextReq, answers, faults, boot>>

UnreadRelate(t) == LookupRelate(t, "unread_relate", "unread_select", "reply")

GetMessages(rows) == {}

UnreadSelect(t) ==
  /\ pc[t] = "unread_select"
  /\ LET rows == {i \in DOMAIN messages :
                    /\ messages[i].relateId = loc[t].relate
                    /\ messages[i].from = req[t].from
                    /\ messages[i].to = req[t].to}
         newest == {i \in rows : Cardinality({j \in rows : j > i}) < loc[t].count}
     IN  \/ Sound /\ Finish(t, 0, GetMessages(newest))
         \/ Fault /\ Finish(t, 0, {})
  /\ UNCHANGED <<db, cache, req, loc, nextReq, answers, boot>>

(* FriendListRequestHandler and GetRecentContactByUserId.                  *)
FriendListAccept(t, r) ==
  IF r.from = 0 THEN Finish(t, 0, {}) ELSE Goto(t, "friends") /\ UNCHANGED reply

Friends(t) ==
  /\ pc[t] = "friends"
  /\ LET rows == {i \in DOMAIN contacts : /\ contacts[i].userId = req[t].from
                                          /\ contacts[i].status = 0}
         newest == {i \in rows : Cardinality({j \in rows : j > i}) < RECENT_LIMIT}
     IN  \/ Sound /\ Finish(t, 0, {contacts[i].friendUserId : i \in newest})
         \/ Fault /\ Finish(t, 0, {})
  /\ UNCHANGED <<db, cache, req, loc, nextReq, answers, boot>>

-----------------------------------------------------------------------------
(* A thread takes the next task of its queue and runs the handler's checks *)
(* up to its first statement; SendSessionData ends the handler; the        *)
(* process dies and starts again with the tables it left and empty caches. *)

Accept(t) ==
  /\ pc[t] = "idle"
  /\ nextReq <= MaxReq
  /\ \E r \in Inputs :
       /\ req' = [req EXCEPT ![t] =
            [id |-> nextReq, kind |-> r.kind, from |-> r.from, to |-> r.to,
             type |-> r.type, client_type |-> r.client_type]]
       /\ \/ r.kind = "MsgData" /\ MsgDataAccept(t, r)
          \/ r.kind = "RemoveSession" /\ RemoveAccept(t, r)
          \/ r.kind = "MsgReadAck" /\ MsgReadAckAccept(t, r)
          \/ r.kind = "UnreadMsg" /\ UnreadMsgAccept(t, r)
          \/ r.kind = "UnreadMsgCount" /\ UnreadMsgCountAccept(t, r)
          \/ r.kind = "FriendList" /\ FriendListAccept(t, r)
  /\ loc' = [loc EXCEPT ![t] = NoLocals]
  /\ nextReq' = nextReq + 1
  /\ UNCHANGED <<db, cache, answers, faults, boot>>

SendSessionData(t) ==
  /\ pc[t] = "reply"
  /\ answers' = IF req[t].kind = "MsgData"
                THEN answers \cup {[id |-> req[t].id, type |-> req[t].type,
                                    result |-> reply[t].result]}
                ELSE answers
  /\ Goto(t, "idle")
  /\ req' = [req EXCEPT ![t] = NoRequest]
  /\ loc' = [loc EXCEPT ![t] = NoLocals]
  /\ reply' = [reply EXCEPT ![t] = NoReply]
  /\ UNCHANGED <<db, cache, nextReq, faults, boot>>

Restart ==
  /\ boot < MaxBoot
  /\ boot' = boot + 1
  /\ counter' = EmptyCache
  /\ unread' = EmptyUnread
  /\ unreadKeys' = {}
  /\ pc' = [t \in Threads |-> "idle"]
  /\ req' = [t \in Threads |-> NoRequest]
  /\ loc' = [t \in Threads |-> NoLocals]
  /\ reply' = [t \in Threads |-> NoReply]
  /\ UNCHANGED <<db, nextReq, answers, faults>>

Work(t) ==
  \/ CheckSelect(t) \/ CheckUpdate(t) \/ GetRelate(t) \/ AddGetRelate(t)
  \/ AddInsert(t) \/ MsgInsert(t) \/ IncrUserMsgCount(t)
  \/ IncreaseUserUnreadMsgCount(t) \/ Remove(t) \/ AckFind(t) \/ AckErase(t)
  \/ CountFind(t) \/ CountRead(t) \/ UnreadFind(t) \/ UnreadRead(t)
  \/ UnreadRelate(t) \/ UnreadSelect(t) \/ Friends(t) \/ SendSessionData(t)

Next == Restart \/ \E t \in Threads : Accept(t) \/ Work(t)

Spec == Init /\ [][Next]_vars

(* A handler thread runs its message loop: it never stops in the middle of *)
(* a handler.  Clients need not send anything and the process need not die. *)
FairSpec == Spec /\ \A t \in Threads : WF_vars(Work(t))

-----------------------------------------------------------------------------
(* Properties.                                                             *)

(* The tables, the cache and the threads' variables hold values of their   *)
(* column and C++ types; in particular kInvalidID, which GetRelateId       *)
(* returns for a missing relation, is never stored as a relateId.          *)
TypeOK ==
  /\ contacts \in Seq(ContactRows)
  /\ messages \in Seq(MessageRows)
  /\ counter \in [Users -> [Users -> Nat]]
  /\ unread \in [Users -> [Slots -> [Users -> Nat]]]
  /\ unreadKeys \subseteq Users
  /\ pc \in [Threads -> Labels]
  /\ req \in [Threads -> Requests]
  /\ loc \in [Threads -> Locals]
  /\ reply \in [Threads -> Replies]
  /\ nextReq \in Nat
  /\ answers \subseteq [id : Nat, type : MsgTypes, result : {0, 1}]
  /\ faults \in Nat
  /\ boot \in Nat

(* SendIMMessage: a stored message's relateId is that of a row of its two  *)
(* users, the one with the smaller id first, whatever threads race in      *)
(* AddFriendship and whatever sessions are removed later; 0 is stored when *)
(* the INSERT of the relation failed.                                      *)
MessagesLinkToPair ==
  \A i \in DOMAIN messages :
    \/ messages[i].relateId = 0
    \/ messages[i].relateId \in RowsFor(Small(messages[i].from, messages[i].to),
                                        Big(messages[i].from, messages[i].to))

(* AddFriendship inserts both directions of a relation in one statement:   *)
(* no failure, crash or interleaving leaves a contact on one side only.    *)
ContactsMirrored ==
  \A i \in DOMAIN contacts :
    RowsFor(contacts[i].friendUserId, contacts[i].userId) # {}

(* IncrCounterForNewMessage: the cached total of a pair is the number of   *)
(* messages stored since the process started, less those whose sender is   *)
(* still between its INSERT and its first critical section.                *)
CounterMatchesStore ==
  \A f, u \in Users :
    counter[f][u] +
      Cardinality({t \in Threads : pc[t] = "incr_total" /\ req[t].from = f
                                                       /\ req[t].to = u})
    = Cardinality({i \in DOMAIN messages : /\ messages[i].from = f
                                           /\ messages[i].to = u
                                           /\ messages[i].boot = boot})

(* No client is told of more unread messages than were counted for the     *)
(* pair: the unread entries are increased after the total, once each, and  *)
(* read acknowledgements, lost entries and restarts only lower them.       *)
UnreadWithinCounter ==
  \A f, u \in Users, s \in Slots :
    unread[f][s][u] +
      Cardinality({t \in Threads : pc[t] = "incr_unread" /\ req[t].from = f
                                                        /\ req[t].to = u})
    <= counter[f][u]

(* MsgDataHandler: result 0 to a text message means that exactly one row   *)
(* is stored for the request, result 1 that none is; restarts included.    *)
AnswersTellTruth ==
  \A a \in answers :
    a.type = "im" =>
      Cardinality({i \in DOMAIN messages : messages[i].req = a.id}) = 1 - a.result

(* The tables as Conversations has them: whose contact is whose, which     *)
(* contacts no row shows, and whether a message has a relation.            *)
ContactOf(i) == <<contacts[i].userId, contacts[i].friendUserId>>

Pairs  == {ContactOf(i) : i \in DOMAIN contacts}
Hidden == Pairs \ {ContactOf(i) : i \in {j \in DOMAIN contacts : contacts[j].status # 1}}
Log    == [i \in DOMAIN messages |->
             [id |-> messages[i].req, from |-> messages[i].from, to |-> messages[i].to,
              linked |-> messages[i].relateId # 0]]

(* The text messages and the removals that a thread works on.              *)
IsPending(r) == r.kind = "RemoveSession" \/ (r.kind = "MsgData" /\ r.type = "im")
Asked(r)     == [id |-> r.id, kind |-> r.kind, from |-> r.from, to |-> r.to]
Pending      == {Asked(req[t]) : t \in {o \in Threads : pc[o] # "idle" /\ IsPending(req[o])}}

(* A message of this boot is counted once its sender has left incr_total.  *)
Counted ==
  {n \in 1 .. nextReq - 1 :
     /\ \E i \in DOMAIN messages : messages[i].req = n /\ messages[i].boot = boot
     /\ \A t \in Threads : pc[t] = "incr_total" => req[t].id # n}

Answered == {[id |-> a.id, result |-> a.result] : a \in {b \in answers : b.type = "im"}}

CS == INSTANCE Conversations WITH
        Ids      <- 1 .. MaxReq,
        Requests <- [id : 1 .. MaxReq, kind : {"MsgData", "RemoveSession"}, from : Ids, to : Ids],
        taken    <- 1 .. nextReq - 1,
        pending  <- Pending,
        log      <- Log,
        counted  <- Counted,
        totals   <- counter,
        related  <- Pairs,
        hidden   <- Hidden,
        answers  <- Answered

(* MsgDataHandler, RemoveSessionRequestHandler, the tables and the cache   *)
(* together keep the promises of Conversations, however their statements   *)
(* interleave, fail or are cut off: a hidden contact comes back only by a  *)
(* message of its owner or by a new relation, contacts come in pairs and   *)
(* only by a message, and result 0 is sent after the message is counted.   *)
ImplementsConversations == CS!Spec

(* Every request a thread takes is answered, or dies with the process: no  *)
(* handler waits for another one.                                          *)
RequestAnswered == \A t \in Threads : pc[t] # "idle" ~> pc[t] = "idle"

-----------------------------------------------------------------------------
(* Statements of the repository's comments that the code does not meet.    *)

(* relationship_manager.h: a friendship has two rows, one each way, and    *)
(* the relateId of the one with the smaller id first is the relation's id. *)
RelationUnique ==
  \A a, b \in Users : Cardinality(RowsFor(a, b)) <= 1

(* counter_manager.h: GetUserFriendUnreadCount returns the user's unread   *)
(* messages from a friend, so an entry stands for a message to the user.   *)
UnreadIsForReceiver ==
  \A u, f \in Users, s \in Slots :
    unread[u][s][f] > 0 =>
      \E i \in DOMAIN messages : messages[i].from = f /\ messages[i].to = u
=============================================================================
