------------------------- MODULE MessageStoreProofs -------------------------
(***************************************************************************)
(* Theorems about MessageStore, for every set of users, threads, client    *)
(* types and requests and every bound.                                     *)
(***************************************************************************)
EXTENDS MessageStore, SequenceTheorems, TLAPS

(* The labels of a handler that has checked its request's two ids.         *)
BusyLabels == Labels \ {"idle", "reply"}
PairLabels == BusyLabels \ {"count_find", "count_read", "friends"}

(* A handler past its checks works for a user, and for a friend of it if   *)
(* it uses one.                                                            *)
ReqOK ==
  \A t \in Threads :
    /\ pc[t] \in BusyLabels => req[t].from \in Users
    /\ pc[t] \in PairLabels => req[t].to \in Users

(* What SendIMMessage is about to store as the relateId of its message.    *)
RelateOK ==
  \A t \in Threads :
    pc[t] = "msg_insert" =>
      \/ loc[t].relate = 0
      \/ loc[t].relate \in RowsFor(Small(req[t].from, req[t].to),
                                   Big(req[t].from, req[t].to))

IInv == TypeOK /\ ReqOK /\ RelateOK /\ MessagesLinkToPair /\ ContactsMirrored

(* A row of the contacts table keeps its id and its two users for ever.    *)
ContactsKept ==
  /\ Len(contacts) <= Len(contacts')
  /\ \A i \in DOMAIN contacts : /\ contacts'[i].userId = contacts[i].userId
                                /\ contacts'[i].friendUserId = contacts[i].friendUserId

-----------------------------------------------------------------------------
(* A finite table whose rows have a type is a sequence of that type.       *)
LEMMA TableIsSeq ==
  ASSUME NEW S, NEW n \in Nat, NEW f \in [1 .. n -> S]
  PROVE  f \in Seq(S)
  BY SeqDef

(* SetStatus changes no row's users and keeps the table a table.           *)
LEMMA SetStatusTable ==
  ASSUME NEW ids, NEW s \in {0, 1}, contacts \in Seq(ContactRows)
  PROVE  /\ SetStatus(ids, s) \in Seq(ContactRows)
         /\ Len(SetStatus(ids, s)) = Len(contacts)
         /\ \A i \in DOMAIN contacts :
              /\ SetStatus(ids, s)[i].userId = contacts[i].userId
              /\ SetStatus(ids, s)[i].friendUserId = contacts[i].friendUserId
  <1> DEFINE n == Len(contacts)
  <1>1. n \in Nat /\ DOMAIN contacts = 1 .. n /\ \A i \in 1 .. n : contacts[i] \in ContactRows
    BY LenProperties, ElementOfSeq
  <1>2. SetStatus(ids, s) \in [1 .. n -> ContactRows]
    <2>1. ASSUME NEW i \in 1 .. n
          PROVE  (IF i \in ids THEN [contacts[i] EXCEPT !.status = s] ELSE contacts[i])
                   \in ContactRows
      BY <1>1 DEF ContactRows
    <2> QED BY <1>1, <2>1 DEF SetStatus
  <1>3. SetStatus(ids, s) \in Seq(ContactRows)
    BY <1>1, <1>2, TableIsSeq
  <1>4. Len(SetStatus(ids, s)) = n
    BY <1>1, <1>2, <1>3, LenProperties DEF SetStatus
  <1>5. ASSUME NEW i \in DOMAIN contacts
        PROVE  /\ SetStatus(ids, s)[i].userId = contacts[i].userId
               /\ SetStatus(ids, s)[i].friendUserId = contacts[i].friendUserId
    BY <1>1 DEF SetStatus, ContactRows
  <1> QED BY <1>3, <1>4, <1>5

(* The smaller and the bigger of two users are users.                      *)
LEMMA SmallBig ==
  ASSUME NEW a \in Users, NEW b \in Users
  PROVE  /\ Small(a, b) \in Users /\ Big(a, b) \in Users
         /\ {Small(a, b), Big(a, b)} = {a, b}
  BY UsersAssumption DEF Small, Big

(* AddFriendship's rows are rows, and each one's mirror is among them.     *)
LEMMA NewContactsRows ==
  ASSUME NEW a \in Users, NEW b \in Users
  PROVE  /\ NewContacts(a, b) \in Seq(ContactRows)
         /\ Len(NewContacts(a, b)) \in {1, 2}
         /\ NewContacts(a, b)[1].userId = Small(a, b)
         /\ NewContacts(a, b)[1].friendUserId = Big(a, b)
         /\ \A i \in 1 .. Len(NewContacts(a, b)) :
              \E j \in 1 .. Len(NewContacts(a, b)) :
                /\ NewContacts(a, b)[j].userId = NewContacts(a, b)[i].friendUserId
                /\ NewContacts(a, b)[j].friendUserId = NewContacts(a, b)[i].userId
  <1> DEFINE row(x, y) == [userId |-> x, friendUserId |-> y, status |-> 0]
  <1>1. Small(a, b) \in Users /\ Big(a, b) \in Users
    BY SmallBig
  <1>2. /\ row(Small(a, b), Big(a, b)) \in ContactRows
        /\ row(Big(a, b), Small(a, b)) \in ContactRows
    BY <1>1 DEF ContactRows
  <1>3. CASE a = b
    <2>1. Small(a, b) = a /\ Big(a, b) = a
      BY <1>3 DEF Small, Big
    <2>2. NewContacts(a, b) = <<row(a, a)>>
      BY <1>3 DEF NewContacts
    <2> QED BY <1>2, <2>1, <2>2
  <1>4. CASE a # b
    <2>1. NewContacts(a, b) = <<row(Small(a, b), Big(a, b)), row(Big(a, b), Small(a, b))>>
      BY <1>4 DEF NewContacts
    <2> QED BY <1>2, <2>1
  <1> QED BY <1>3, <1>4

-----------------------------------------------------------------------------
(* Type correctness.                                                       *)

(* The initial values of a thread's variables have their types.            *)
LEMMA InitialValues ==
  /\ NoRequest \in Requests
  /\ NoLocals \in Locals
  /\ NoReply \in Replies
  BY ClientTypesAssumption DEF NoRequest, Requests, NoLocals, Locals, NoReply,
     Replies, Kinds, Ids, MsgTypes, kInvalidID

(* The types hold when the process starts first.                           *)
LEMMA TypeInit == Init => TypeOK
  <1> SUFFICES ASSUME Init PROVE TypeOK
    OBVIOUS
  <1>1. contacts \in Seq(ContactRows) /\ messages \in Seq(MessageRows)
    BY DEF Init
  <1> QED BY <1>1, InitialValues DEF Init, TypeOK, EmptyCache, EmptyUnread, Labels

(* A thread that has its result keeps its types.                           *)
LEMMA FinishTypes ==
  ASSUME TypeOK, NEW t \in Threads, NEW r \in {0, 1}, NEW l \in SUBSET Nat,
         Finish(t, r, l)
  PROVE  /\ pc' \in [Threads -> Labels]
         /\ reply' \in [Threads -> Replies]
         /\ pc' = [pc EXCEPT ![t] = "reply"]
  BY DEF Finish, Goto, TypeOK, Labels, Replies

(* GetRelateId returns a row of the ordered pair or kInvalidID.            *)
LEMMA GetRelateIdRange ==
  ASSUME TypeOK, NEW a, NEW b, NEW id \in GetRelateId(a, b)
  PROVE  /\ id \in Int
         /\ id # kInvalidID => id \in RowsFor(Small(a, b), Big(a, b))
  <1>1. DOMAIN contacts \subseteq Nat
    BY LenProperties DEF TypeOK
  <1> QED BY <1>1 DEF GetRelateId, RowsFor, kInvalidID

(* The three lookups of a relation keep the types.                         *)
LEMMA LookupTypes ==
  ASSUME TypeOK, ReqOK, NEW t \in Threads, NEW here \in PairLabels,
         NEW found \in PairLabels, NEW missing \in PairLabels \cup {"reply"},
         LookupRelate(t, here, found, missing)
  PROVE  TypeOK' /\ ReqOK'
  <1>1. PICK id \in GetRelateId(req[t].from, req[t].to) \cup {kInvalidID} :
           /\ IF id \in GetRelateId(req[t].from, req[t].to) THEN Sound ELSE Fault
           /\ loc' = [loc EXCEPT ![t].relate = id]
           /\ Goto(t, IF id = kInvalidID THEN missing ELSE found)
    BY DEF LookupRelate
  <1>2. id \in Int
    BY GetRelateIdRange DEF kInvalidID
  <1>3. loc' \in [Threads -> Locals]
    BY <1>1, <1>2 DEF TypeOK, Locals
  <1>4. pc' \in [Threads -> Labels]
    BY <1>1 DEF Goto, TypeOK, PairLabels, BusyLabels, Labels
  <1>5. faults' \in Nat
    BY <1>1 DEF Sound, Fault, TypeOK
  <1>6. UNCHANGED <<db, cache, req, reply, nextReq, answers, boot>>
    BY DEF LookupRelate
  <1>7. TypeOK'
    BY <1>3, <1>4, <1>5, <1>6 DEF TypeOK, db, cache
  <1>8. ReqOK'
    BY <1>1, <1>6 DEF LookupRelate, ReqOK, Goto, TypeOK, PairLabels, BusyLabels
  <1> QED BY <1>7, <1>8

(* A thread that reads and then answers keeps the types.                   *)
LEMMA AnswerTypes ==
  ASSUME TypeOK, ReqOK, NEW t \in Threads, NEW r \in {0, 1}, NEW l \in SUBSET Nat,
         Finish(t, r, l), faults' \in Nat,
         UNCHANGED <<db, cache, req, loc, nextReq, answers, boot>>
  PROVE  TypeOK' /\ ReqOK'
  <1>1. /\ pc' = [pc EXCEPT ![t] = "reply"]
        /\ pc' \in [Threads -> Labels]
        /\ reply' \in [Threads -> Replies]
    BY FinishTypes
  <1>2. TypeOK'
    BY <1>1 DEF TypeOK, db, cache
  <1>3. ReqOK'
    BY <1>1 DEF ReqOK, TypeOK, PairLabels, BusyLabels
  <1> QED BY <1>2, <1>3

(* The three lookups of a user's unread counts keep the types.             *)
LEMMA FindTypes ==
  ASSUME TypeOK, ReqOK, NEW t \in Threads, NEW here \in BusyLabels,
         NEW found \in BusyLabels, found \in PairLabels => here \in PairLabels,
         NEW ifNull \in {0, 1}, FindUnreadCount(t, here, found, ifNull)
  PROVE  TypeOK' /\ ReqOK'
  <1>1. CASE Finish(t, ifNull, {})
    BY <1>1, AnswerTypes DEF FindUnreadCount, TypeOK
  <1>2. CASE Goto(t, found) /\ UNCHANGED reply
    <2>1. TypeOK'
      BY <1>2 DEF FindUnreadCount, Goto, TypeOK, BusyLabels, db, cache
    <2>2. ReqOK'
      BY <1>2 DEF FindUnreadCount, Goto, TypeOK, ReqOK
    <2> QED BY <2>1, <2>2
  <1> QED BY <1>1, <1>2 DEF FindUnreadCount

(* Every action of a thread at work, the process's restart and the         *)
(* acceptance of a request keep the types.                                 *)
LEMMA TypeStep ==
  ASSUME TypeOK, ReqOK, RelateOK, [Next]_vars
  PROVE  TypeOK' /\ ReqOK'
  <1>1. CASE UNCHANGED vars
    BY <1>1 DEF vars, TypeOK, ReqOK
  <1>2. CASE Restart
    <2>1. TypeOK'
      BY <1>2, InitialValues DEF Restart, TypeOK, EmptyCache, EmptyUnread, Labels, db
    <2> QED BY <1>2, <2>1 DEF Restart, ReqOK, PairLabels, BusyLabels
  <1>3. ASSUME NEW t \in Threads, Accept(t) PROVE TypeOK' /\ ReqOK'
    <2>1. PICK r \in Inputs :
            /\ req' = [req EXCEPT ![t] =
                 [id |-> nextReq, kind |-> r.kind, from |-> r.from, to |-> r.to,
                  type |-> r.type, client_type |-> r.client_type]]
            /\ \/ r.kind = "MsgData" /\ MsgDataAccept(t, r)
               \/ r.kind = "RemoveSession" /\ RemoveAccept(t, r)
               \/ r.kind = "MsgReadAck" /\ MsgReadAckAccept(t, r)
               \/ r.kind = "UnreadMsg" /\ UnreadMsgAccept(t, r)
               \/ r.kind = "UnreadMsgCount" /\ UnreadMsgCountAccept(t, r)
               \/ r.kind = "FriendList" /\ FriendListAccept(t, r)
      BY <1>3 DEF Accept
    <2>2. r \in [kind : Kinds, from : Ids, to : Ids, type : MsgTypes,
                 client_type : ClientTypes]
      BY InputsAssumption
    <2>3. req' \in [Threads -> Requests] /\ req'[t].from = r.from /\ req'[t].to = r.to
      BY <2>1, <2>2 DEF TypeOK, Requests
    <2> DEFINE L == {"reply", "check_select", "remove", "ack_find", "unread_find",
                     "count_find", "friends"}
    <2>4. /\ \E l \in L : /\ pc' = [pc EXCEPT ![t] = l]
                          /\ l # "reply" => r.from # 0
                          /\ l \in PairLabels => r.to # 0
          /\ reply' \in [Threads -> Replies]
      <3>1. CASE \E z \in {0, 1} : Finish(t, z, {})
        BY <3>1, FinishTypes DEF PairLabels, BusyLabels
      <3>2. CASE /\ reply' = reply
                 /\ \E l \in L : /\ Goto(t, l)
                                 /\ r.from # 0
                                 /\ l \in PairLabels => r.to # 0
        <4>1. PICK l \in L : /\ Goto(t, l)
                             /\ r.from # 0
                             /\ l \in PairLabels => r.to # 0
          BY <3>2
        <4>2. reply' \in [Threads -> Replies]
          BY <3>2 DEF TypeOK
        <4> QED BY <4>1, <4>2 DEF Goto
      <3> QED BY <2>1, <3>1, <3>2 DEF MsgDataAccept, RemoveAccept, MsgReadAckAccept,
               UnreadMsgAccept, UnreadMsgCountAccept, FriendListAccept, PairLabels,
               BusyLabels
    <2>5. pc' \in [Threads -> Labels]
      BY <2>4 DEF TypeOK, Labels
    <2>6. TypeOK'
      BY <1>3, <2>3, <2>4, <2>5, InitialValues DEF Accept, TypeOK, db, cache
    <2>7. ReqOK'
      <3>1. ASSUME NEW o \in Threads, o # t
            PROVE  pc'[o] = pc[o] /\ req'[o] = req[o]
        BY <2>1, <2>4, <3>1 DEF TypeOK
      <3>2. /\ pc'[t] \in BusyLabels => r.from \in Users
            /\ pc'[t] \in PairLabels => r.to \in Users
        BY <2>2, <2>4 DEF TypeOK, Ids, BusyLabels
      <3> QED BY <2>3, <3>1, <3>2 DEF ReqOK
    <2> QED BY <2>6, <2>7
  <1>4. ASSUME NEW t \in Threads, Work(t) PROVE TypeOK' /\ ReqOK'
    <2> USE DEF db, cache
    <2>1. CASE CheckSelect(t)
      <3>1. loc' \in [Threads -> Locals]
        <4>1. DOMAIN contacts \subseteq Nat
          BY LenProperties DEF TypeOK
        <4>2. CASE UNCHANGED loc
          BY <4>2 DEF TypeOK
        <4>3. CASE \E ids \in SUBSET RowsFor(req[t].from, req[t].to) :
                    loc' = [loc EXCEPT ![t].stale = {i \in ids : contacts[i].status # 0}]
          <5>1. PICK ids \in SUBSET RowsFor(req[t].from, req[t].to) :
                  loc' = [loc EXCEPT ![t].stale = {i \in ids : contacts[i].status # 0}]
            BY <4>3
          <5>2. {i \in ids : contacts[i].status # 0} \in SUBSET Nat
            BY <4>1 DEF RowsFor
          <5> QED BY <5>1, <5>2 DEF TypeOK, Locals
        <4> QED BY <2>1, <4>2, <4>3 DEF CheckSelect
      <3>2. /\ \E l \in {"get_relate", "check_update"} : pc' = [pc EXCEPT ![t] = l]
            /\ faults' \in Nat
        BY <2>1 DEF CheckSelect, Goto, Sound, Fault, TypeOK
      <3>3. pc' \in [Threads -> Labels]
        BY <3>2 DEF TypeOK, Labels
      <3>4. TypeOK'
        BY <2>1, <3>1, <3>2, <3>3 DEF CheckSelect, TypeOK
      <3>5. ReqOK'
        BY <2>1, <3>2 DEF CheckSelect, ReqOK, TypeOK, PairLabels, BusyLabels, Labels
      <3> QED BY <3>4, <3>5
    <2>2. CASE CheckUpdate(t)
      <3>1. contacts' \in Seq(ContactRows)
        BY <2>2, SetStatusTable DEF CheckUpdate, TypeOK
      <3>2. TypeOK'
        BY <2>2, <3>1 DEF CheckUpdate, Goto, Sound, Fault, TypeOK, Labels
      <3>3. ReqOK'
        BY <2>2 DEF CheckUpdate, Goto, ReqOK, TypeOK, PairLabels, BusyLabels, Labels
      <3> QED BY <3>2, <3>3
    <2>3. CASE GetRelate(t)
      BY <2>3, LookupTypes DEF GetRelate, PairLabels, BusyLabels, Labels
    <2>4. CASE AddGetRelate(t)
      BY <2>4, LookupTypes DEF AddGetRelate, PairLabels, BusyLabels, Labels
    <2>5. CASE AddInsert(t)
      <3>1. req[t].from \in Users /\ req[t].to \in Users
        BY <2>5 DEF AddInsert, ReqOK, PairLabels, BusyLabels, Labels
      <3>2. contacts' \in Seq(ContactRows)
        <4>1. contacts \o NewContacts(req[t].from, req[t].to) \in Seq(ContactRows)
          BY <3>1, NewContactsRows, ConcatProperties DEF TypeOK
        <4> QED BY <2>5, <4>1 DEF AddInsert, TypeOK
      <3>3. loc' \in [Threads -> Locals]
        <4>1. Len(contacts) + 1 \in Int
          BY LenProperties DEF TypeOK
        <4>2. \/ loc' = [loc EXCEPT ![t].relate = Len(contacts) + 1]
              \/ loc' = [loc EXCEPT ![t].relate = 0]
          BY <2>5 DEF AddInsert
        <4>3. CASE loc' = [loc EXCEPT ![t].relate = Len(contacts) + 1]
          BY <4>1, <4>3 DEF TypeOK, Locals
        <4>4. CASE loc' = [loc EXCEPT ![t].relate = 0]
          <5>1. PICK id \in Int : loc' = [loc EXCEPT ![t].relate = id]
            BY <4>4, 0 \in Int, Zenon
          <5> QED BY <5>1 DEF TypeOK, Locals
        <4> QED BY <4>2, <4>3, <4>4
      <3>4. TypeOK'
        BY <2>5, <3>2, <3>3 DEF AddInsert, Goto, Sound, Fault, TypeOK, Labels
      <3>5. ReqOK'
        BY <2>5 DEF AddInsert, Goto, ReqOK, TypeOK, PairLabels, BusyLabels, Labels
      <3> QED BY <3>4, <3>5
    <2>6. CASE MsgInsert(t)
      <3>1. req[t].from \in Users /\ req[t].to \in Users
        BY <2>6 DEF MsgInsert, ReqOK, PairLabels, BusyLabels, Labels
      <3>2. loc[t].relate \in Nat
        <4>1. DOMAIN contacts \subseteq Nat
          BY LenProperties DEF TypeOK
        <4> QED BY <2>6, <4>1 DEF MsgInsert, RelateOK, RowsFor
      <3>3. messages' \in Seq(MessageRows)
        <4> DEFINE m == [relateId |-> loc[t].relate, from |-> req[t].from,
                         to |-> req[t].to, req |-> req[t].id, boot |-> boot]
        <4>1. m \in MessageRows
          BY <3>1, <3>2 DEF TypeOK, Requests, MessageRows
        <4>2. messages' \in {messages, Append(messages, m)}
          BY <2>6 DEF MsgInsert
        <4> HIDE DEF m
        <4>3. Append(messages, m) \in Seq(MessageRows)
          BY <4>1, AppendProperties DEF TypeOK
        <4> QED BY <4>2, <4>3 DEF TypeOK
      <3>4. /\ \E l \in {"incr_total", "reply"} : pc' = [pc EXCEPT ![t] = l]
            /\ reply' \in [Threads -> Replies]
        BY <2>6, FinishTypes DEF MsgInsert, Goto, TypeOK
      <3>5. TypeOK'
        <4>1. pc' \in [Threads -> Labels]
          BY <3>4 DEF TypeOK, Labels
        <4>2. faults' \in Nat
          BY <2>6 DEF MsgInsert, Sound, Fault, TypeOK
        <4> QED BY <2>6, <3>3, <3>4, <4>1, <4>2 DEF MsgInsert, TypeOK
      <3>6. ReqOK'
        BY <2>6, <3>1, <3>4 DEF MsgInsert, ReqOK, TypeOK, PairLabels, BusyLabels, Labels
      <3> QED BY <3>5, <3>6
    <2>7. CASE IncrUserMsgCount(t)
      <3>1. req[t].from \in Users /\ req[t].to \in Users
        BY <2>7 DEF IncrUserMsgCount, ReqOK, PairLabels, BusyLabels, Labels
      <3>2. counter' \in [Users -> [Users -> Nat]]
        <4> DEFINE row == [counter[req[t].from] EXCEPT ![req[t].to] = @ + 1]
        <4>1. row \in [Users -> Nat]
          BY <3>1 DEF TypeOK
        <4>2. counter' = [counter EXCEPT ![req[t].from] = row]
          BY <2>7 DEF IncrUserMsgCount
        <4> HIDE DEF row
        <4> QED BY <4>1, <4>2 DEF TypeOK
      <3>3. TypeOK'
        BY <2>7, <3>2 DEF IncrUserMsgCount, Goto, TypeOK, Labels
      <3>4. ReqOK'
        BY <2>7 DEF IncrUserMsgCount, Goto, ReqOK, TypeOK, PairLabels, BusyLabels, Labels
      <3> QED BY <3>3, <3>4
    <2>8. CASE IncreaseUserUnreadMsgCount(t)
      <3>1. req[t].from \in Users /\ req[t].to \in Users
        BY <2>8 DEF IncreaseUserUnreadMsgCount, ReqOK, PairLabels, BusyLabels, Labels
      <3>2. unread' \in [Users -> [Slots -> [Users -> Nat]]]
        <4>1. PICK left \in [Slots -> SUBSET Users] :
                unread' = [unread EXCEPT ![req[t].from] =
                  [s \in Slots |->
                     [f \in Users |-> IF f \notin left[s] THEN 0
                                      ELSE IF f = req[t].to THEN @[s][f] + 1
                                      ELSE @[s][f]]]]
          BY <2>8 DEF IncreaseUserUnreadMsgCount
        <4> DEFINE m == unread[req[t].from]
                   new == [s \in Slots |->
                            [f \in Users |-> IF f \notin left[s] THEN 0
                                             ELSE IF f = req[t].to THEN m[s][f] + 1
                                             ELSE m[s][f]]]
        <4>2. m \in [Slots -> [Users -> Nat]]
          BY <3>1 DEF TypeOK
        <4>3. new \in [Slots -> [Users -> Nat]]
          BY <4>2
        <4>4. unread' = [unread EXCEPT ![req[t].from] = new]
          BY <4>1
        <4> HIDE DEF m, new
        <4> QED BY <4>3, <4>4 DEF TypeOK
      <3>3. pc' = [pc EXCEPT ![t] = "reply"] /\ pc' \in [Threads -> Labels]
            /\ reply' \in [Threads -> Replies]
        BY <2>8, FinishTypes DEF IncreaseUserUnreadMsgCount
      <3>4. TypeOK'
        BY <2>8, <3>1, <3>2, <3>3 DEF IncreaseUserUnreadMsgCount, TypeOK
      <3>5. ReqOK'
        BY <2>8, <3>3 DEF IncreaseUserUnreadMsgCount, ReqOK, TypeOK, PairLabels, BusyLabels
      <3> QED BY <3>4, <3>5
    <2>9. CASE Remove(t)
      <3>1. contacts' \in Seq(ContactRows)
        BY <2>9, SetStatusTable DEF Remove, TypeOK
      <3>2. \E z \in {0, 1} : Finish(t, z, {})
        BY <2>9 DEF Remove, RemoveResult
      <3>3. pc' = [pc EXCEPT ![t] = "reply"] /\ pc' \in [Threads -> Labels]
            /\ reply' \in [Threads -> Replies]
        BY <3>2, FinishTypes
      <3>4. TypeOK'
        BY <2>9, <3>1, <3>3 DEF Remove, Sound, Fault, TypeOK
      <3>5. ReqOK'
        BY <2>9, <3>3 DEF Remove, ReqOK, TypeOK, PairLabels, BusyLabels
      <3> QED BY <3>4, <3>5
    <2>10. CASE AckErase(t)
      <3>1. req[t].from \in Users /\ Slot(t) \in Slots
        BY <2>10 DEF AckErase, ReqOK, PairLabels, BusyLabels, Labels, Slot, Slots,
           GetUnreadCountByClientType
      <3>2. unread' \in [Users -> [Slots -> [Users -> Nat]]]
        BY <2>10, <3>1 DEF AckErase, TypeOK
      <3>3. pc' = [pc EXCEPT ![t] = "reply"] /\ pc' \in [Threads -> Labels]
            /\ reply' \in [Threads -> Replies]
        BY <2>10, FinishTypes DEF AckErase
      <3>4. TypeOK'
        BY <2>10, <3>2, <3>3 DEF AckErase, TypeOK
      <3>5. ReqOK'
        BY <2>10, <3>3 DEF AckErase, ReqOK, TypeOK, PairLabels, BusyLabels
      <3> QED BY <3>4, <3>5
    <2>11. CASE AckFind(t)
      BY <2>11, FindTypes DEF AckFind, PairLabels, BusyLabels, Labels
    <2>12. CASE CountFind(t)
      BY <2>12, FindTypes DEF CountFind, PairLabels, BusyLabels, Labels
    <2>13. CASE UnreadFind(t)
      BY <2>13, FindTypes DEF UnreadFind, PairLabels, BusyLabels, Labels
    <2>14. CASE CountRead(t)
      <3>1. \E l \in SUBSET Users : Finish(t, 0, l)
        BY <2>14 DEF CountRead, GetUnreadMsgCount
      <3>2. faults' \in Nat
        BY <2>14 DEF CountRead, TypeOK
      <3> QED BY <2>14, <3>1, <3>2, UsersAssumption, AnswerTypes DEF CountRead
    <2>15. CASE UnreadRead(t)
      <3>1. req[t].from \in Users /\ req[t].to \in Users /\ Slot(t) \in Slots
        BY <2>15 DEF UnreadRead, ReqOK, PairLabels, BusyLabels, Labels, Slot, Slots,
           GetUnreadCountByClientType
      <3>2. unread[req[t].from][Slot(t)][req[t].to] \in Nat
        BY <3>1 DEF TypeOK
      <3>3. PICK count \in Nat :
              /\ loc' = [loc EXCEPT ![t].count = count]
              /\ IF count > 0
                 THEN Goto(t, "unread_relate") /\ UNCHANGED reply
                 ELSE Finish(t, 0, {})
        BY <2>15, <3>2, LimitsAssumption DEF UnreadRead, Capped
      <3>4. loc' \in [Threads -> Locals]
        BY <3>3 DEF TypeOK, Locals
      <3>5. /\ \E l \in {"unread_relate", "reply"} : pc' = [pc EXCEPT ![t] = l]
            /\ reply' \in [Threads -> Replies]
        BY <3>3, FinishTypes DEF Goto, TypeOK
      <3>6. TypeOK'
        BY <2>15, <3>4, <3>5 DEF UnreadRead, TypeOK, Labels
      <3>7. ReqOK'
        BY <2>15, <3>1, <3>5 DEF UnreadRead, ReqOK, TypeOK, PairLabels, BusyLabels, Labels
      <3> QED BY <3>6, <3>7
    <2>16. CASE UnreadRelate(t)
      BY <2>16, LookupTypes DEF UnreadRelate, PairLabels, BusyLabels, Labels
    <2>17. CASE UnreadSelect(t)
      <3>1. Finish(t, 0, {}) /\ faults' \in Nat
        BY <2>17 DEF UnreadSelect, GetMessages, Sound, Fault, TypeOK
      <3> QED BY <2>17, <3>1, AnswerTypes DEF UnreadSelect
    <2>18. CASE Friends(t)
      <3>1. \A i \in DOMAIN contacts : contacts[i].friendUserId \in Users
        <4>1. DOMAIN contacts = 1 .. Len(contacts)
          BY LenProperties DEF TypeOK
        <4>2. \A i \in 1 .. Len(contacts) : contacts[i] \in ContactRows
          BY ElementOfSeq DEF TypeOK
        <4> QED BY <4>1, <4>2 DEF ContactRows
      <3>2. faults' \in Nat
        BY <2>18 DEF Friends, Sound, Fault, TypeOK
      <3>3. \A J \in SUBSET DOMAIN contacts :
              {contacts[i].friendUserId : i \in J} \in SUBSET Users
        BY <3>1
      <3>4. \E J \in SUBSET DOMAIN contacts :
              Finish(t, 0, {contacts[i].friendUserId : i \in J}) \/ Finish(t, 0, {})
        BY <2>18 DEF Friends
      <3>5. \E l \in SUBSET Users : Finish(t, 0, l)
        BY <3>3, <3>4
      <3> QED BY <2>18, <3>2, <3>5, UsersAssumption, AnswerTypes DEF Friends
    <2>19. CASE SendSessionData(t)
      <3>1. answers' \subseteq [id : Nat, type : MsgTypes, result : {0, 1}]
        BY <2>19 DEF SendSessionData, TypeOK, Requests, Replies
      <3>2. TypeOK'
        BY <2>19, <3>1, InitialValues DEF SendSessionData, Goto, TypeOK, Labels
      <3>3. ReqOK'
        BY <2>19 DEF SendSessionData, Goto, ReqOK, TypeOK, PairLabels, BusyLabels
      <3> QED BY <3>2, <3>3
    <2> QED BY <1>4, <2>1, <2>2, <2>3, <2>4, <2>5, <2>6, <2>7, <2>8, <2>9, <2>10, <2>11,
            <2>12, <2>13, <2>14, <2>15, <2>16, <2>17, <2>18, <2>19 DEF Work
  <1> QED BY <1>1, <1>2, <1>3, <1>4 DEF Next

-----------------------------------------------------------------------------
(* Stored messages keep denoting the relation of their two users.          *)

(* What each action leaves alone: the tables, except for the four          *)
(* statements that write them, and the other threads.                      *)
LEMMA Frame ==
  ASSUME TypeOK, NEW t \in Threads, Accept(t) \/ Work(t)
  PROVE  /\ \/ contacts' = contacts
            \/ CheckUpdate(t) \/ Remove(t) \/ AddInsert(t)
         /\ messages' = messages \/ MsgInsert(t)
         /\ \A o \in Threads \ {t} : /\ pc'[o] = pc[o]
                                    /\ req'[o] = req[o]
                                    /\ loc'[o] = loc[o]
  <1> USE DEF db, cache, TypeOK, Finish, Goto
  <1>1. CASE Accept(t)
    BY <1>1 DEF Accept, MsgDataAccept, RemoveAccept, MsgReadAckAccept, UnreadMsgAccept,
       UnreadMsgCountAccept, FriendListAccept
  <1>2. CASE CheckSelect(t) BY <1>2 DEF CheckSelect
  <1>3. CASE CheckUpdate(t) BY <1>3 DEF CheckUpdate
  <1>4. CASE GetRelate(t) BY <1>4 DEF GetRelate, LookupRelate
  <1>5. CASE AddGetRelate(t) BY <1>5 DEF AddGetRelate, LookupRelate
  <1>6. CASE AddInsert(t) BY <1>6 DEF AddInsert
  <1>7. CASE MsgInsert(t) BY <1>7 DEF MsgInsert
  <1>8. CASE IncrUserMsgCount(t) BY <1>8 DEF IncrUserMsgCount
  <1>9. CASE IncreaseUserUnreadMsgCount(t) BY <1>9 DEF IncreaseUserUnreadMsgCount
  <1>10. CASE Remove(t) BY <1>10 DEF Remove
  <1>11. CASE AckFind(t) BY <1>11 DEF AckFind, FindUnreadCount
  <1>12. CASE AckErase(t) BY <1>12 DEF AckErase
  <1>13. CASE CountFind(t) BY <1>13 DEF CountFind, FindUnreadCount
  <1>14. CASE CountRead(t) BY <1>14 DEF CountRead
  <1>15. CASE UnreadFind(t) BY <1>15 DEF UnreadFind, FindUnreadCount
  <1>16. CASE UnreadRead(t) BY <1>16 DEF UnreadRead
  <1>17. CASE UnreadRelate(t) BY <1>17 DEF UnreadRelate, LookupRelate
  <1>18. CASE UnreadSelect(t) BY <1>18 DEF UnreadSelect
  <1>19. CASE Friends(t) BY <1>19 DEF Friends
  <1>20. CASE SendSessionData(t) BY <1>20 DEF SendSessionData
  <1> QED BY <1>1, <1>2, <1>3, <1>4, <1>5, <1>6, <1>7, <1>8, <1>9, <1>10, <1>11, <1>12,
          <1>13, <1>14, <1>15, <1>16, <1>17, <1>18, <1>19, <1>20 DEF Work

(* No action deletes a contact or gives its id to another pair.            *)
LEMMA ContactsKeptStep ==
  ASSUME TypeOK, ReqOK, [Next]_vars
  PROVE  ContactsKept
  <1>1. CASE contacts' = contacts
    BY <1>1, LenProperties DEF ContactsKept, TypeOK
  <1>2. CASE \E t \in Threads : CheckUpdate(t) \/ Remove(t)
    <2>1. contacts' = contacts \/ \E ids : \E s \in {0, 1} : contacts' = SetStatus(ids, s)
      BY <1>2 DEF CheckUpdate, Remove
    <2> QED BY <1>1, <2>1, SetStatusTable, LenProperties DEF ContactsKept, TypeOK
  <1>3. ASSUME NEW t \in Threads, AddInsert(t) PROVE ContactsKept
    <2> DEFINE new == NewContacts(req[t].from, req[t].to)
    <2>1. new \in Seq(ContactRows)
      BY <1>3, NewContactsRows DEF AddInsert, ReqOK, PairLabels, BusyLabels, Labels
    <2>2. contacts' = contacts \/ contacts' = contacts \o new
      BY <1>3 DEF AddInsert
    <2> HIDE DEF new
    <2>3. CASE contacts' = contacts \o new
      BY <2>1, <2>3, ConcatProperties, LenProperties DEF ContactsKept, TypeOK
    <2> QED BY <1>1, <2>2, <2>3
  <1>4. CASE Restart \/ UNCHANGED vars
    BY <1>1, <1>4 DEF Restart, vars, db
  <1> QED BY <1>1, <1>2, <1>3, <1>4, Frame DEF Next

(* So a relateId, once a row of a pair, stays one.                         *)
LEMMA RowsKept ==
  ASSUME TypeOK, TypeOK', ContactsKept, NEW a, NEW b
  PROVE  RowsFor(a, b) \subseteq RowsFor(a, b)'
  BY LenProperties DEF TypeOK, ContactsKept, RowsFor

(* A thread comes to the INSERT of a message from three places.            *)
LEMMA MsgInsertEntered ==
  ASSUME TypeOK, NEW t \in Threads, Accept(t) \/ Work(t), pc'[t] = "msg_insert"
  PROVE  GetRelate(t) \/ AddGetRelate(t) \/ AddInsert(t)
  <1> USE DEF TypeOK, Finish, Goto
  <1>1. ~ Accept(t)
    BY DEF Accept, MsgDataAccept, RemoveAccept, MsgReadAckAccept, UnreadMsgAccept,
       UnreadMsgCountAccept, FriendListAccept
  <1>2. ~ CheckSelect(t) /\ ~ CheckUpdate(t) /\ ~ MsgInsert(t) /\ ~ IncrUserMsgCount(t)
    BY DEF CheckSelect, CheckUpdate, MsgInsert, IncrUserMsgCount
  <1>3. ~ IncreaseUserUnreadMsgCount(t) /\ ~ Remove(t) /\ ~ AckErase(t) /\ ~ CountRead(t)
    BY DEF IncreaseUserUnreadMsgCount, Remove, AckErase, CountRead
  <1>4. ~ AckFind(t) /\ ~ CountFind(t) /\ ~ UnreadFind(t)
    BY DEF AckFind, CountFind, UnreadFind, FindUnreadCount
  <1>5. ~ UnreadRead(t) /\ ~ UnreadRelate(t)
    BY DEF UnreadRead, UnreadRelate, LookupRelate
  <1>6. ~ UnreadSelect(t) /\ ~ Friends(t) /\ ~ SendSessionData(t)
    BY DEF UnreadSelect, Friends, SendSessionData
  <1> QED BY <1>1, <1>2, <1>3, <1>4, <1>5, <1>6 DEF Work

(* The lookups that lead to the INSERT of a message found the relation.    *)
LEMMA RelateStep ==
  ASSUME TypeOK, ReqOK, RelateOK, TypeOK', [Next]_vars
  PROVE  RelateOK'
  <1>1. ContactsKept
    BY ContactsKeptStep
  <1>2. CASE Restart
    BY <1>2 DEF Restart, RelateOK
  <1>3. CASE UNCHANGED vars
    BY <1>3 DEF vars, RelateOK, RowsFor
  <1>4. ASSUME NEW t \in Threads, Accept(t) \/ Work(t) PROVE RelateOK'
    <2> DEFINE Linked(o) == \/ loc[o].relate = 0
                            \/ loc[o].relate \in RowsFor(Small(req[o].from, req[o].to),
                                                         Big(req[o].from, req[o].to))
    <2>1. SUFFICES ASSUME NEW o \in Threads, pc'[o] = "msg_insert" PROVE Linked(o)'
      BY DEF RelateOK
    <2>2. CASE o # t
      <3>1. pc[o] = "msg_insert" /\ req'[o] = req[o] /\ loc'[o] = loc[o]
        BY <1>4, <2>1, <2>2, Frame
      <3>2. Linked(o)
        BY <3>1 DEF RelateOK
      <3>3. RowsFor(Small(req[o].from, req[o].to), Big(req[o].from, req[o].to))
              \subseteq RowsFor(Small(req[o].from, req[o].to), Big(req[o].from, req[o].to))'
        BY <1>1, <3>1, RowsKept
      <3> QED BY <3>1, <3>2, <3>3
    <2>3. CASE o = t
      <3>1. GetRelate(t) \/ AddGetRelate(t) \/ AddInsert(t)
        BY <1>4, <2>1, <2>3, MsgInsertEntered
      <3>2. CASE GetRelate(t) \/ AddGetRelate(t)
        <4>1. PICK id \in GetRelateId(req[t].from, req[t].to) :
                /\ loc' = [loc EXCEPT ![t].relate = id]
                /\ id # kInvalidID
                /\ UNCHANGED <<contacts, req>>
          BY <2>1, <2>3, <3>2 DEF GetRelate, AddGetRelate, LookupRelate, Goto, TypeOK, db
        <4>2. id \in RowsFor(Small(req[t].from, req[t].to), Big(req[t].from, req[t].to))
          BY <4>1, GetRelateIdRange
        <4>3. loc'[t].relate = id
          BY <4>1 DEF TypeOK, Locals
        <4> QED BY <2>3, <4>1, <4>2, <4>3 DEF RowsFor
      <3>3. CASE AddInsert(t)
        <4>1. req[t].from \in Users /\ req[t].to \in Users /\ req' = req
          BY <3>3 DEF AddInsert, ReqOK, PairLabels, BusyLabels, Labels
        <4>2. CASE loc' = [loc EXCEPT ![t].relate = 0]
          BY <2>3, <4>2 DEF TypeOK, Locals
        <4>3. CASE /\ contacts' = contacts \o NewContacts(req[t].from, req[t].to)
                   /\ loc' = [loc EXCEPT ![t].relate = Len(contacts) + 1]
          <5> DEFINE new == NewContacts(req[t].from, req[t].to)
          <5>1. /\ new \in Seq(ContactRows) /\ Len(new) \in {1, 2}
                /\ new[1].userId = Small(req[t].from, req[t].to)
                /\ new[1].friendUserId = Big(req[t].from, req[t].to)
            BY <4>1, NewContactsRows
          <5>2. loc'[t].relate = Len(contacts) + 1
            BY <4>3 DEF TypeOK, Locals
          <5>3. contacts' = contacts \o new
            BY <4>3
          <5> HIDE DEF new
          <5>4. /\ Len(contacts) + 1 \in DOMAIN contacts'
                /\ contacts'[Len(contacts) + 1] = new[1]
            BY <5>1, <5>3, ConcatProperties, LenProperties DEF TypeOK
          <5> QED BY <2>3, <4>1, <5>1, <5>2, <5>4 DEF RowsFor
        <4> QED BY <3>3, <4>2, <4>3 DEF AddInsert
      <3> QED BY <3>1, <3>2, <3>3
    <2> QED BY <2>2, <2>3
  <1> QED BY <1>2, <1>3, <1>4 DEF Next

(* The INSERT of a message keeps every message linked to its pair.         *)
LEMMA LinkStep ==
  ASSUME TypeOK, ReqOK, RelateOK, MessagesLinkToPair, TypeOK', [Next]_vars
  PROVE  MessagesLinkToPair'
  <1> DEFINE Linked(m) ==
        \/ m.relateId = 0
        \/ m.relateId \in RowsFor(Small(m.from, m.to), Big(m.from, m.to))
  <1>1. ContactsKept
    BY ContactsKeptStep
  <1>2. ASSUME NEW m, Linked(m) PROVE Linked(m)'
    BY <1>1, <1>2, RowsKept
  <1>3. ASSUME NEW i \in DOMAIN messages PROVE Linked(messages[i])
    BY DEF MessagesLinkToPair
  <1>4. CASE messages' = messages
    BY <1>2, <1>3, <1>4 DEF MessagesLinkToPair
  <1>5. ASSUME NEW t \in Threads, MsgInsert(t) PROVE MessagesLinkToPair'
    <2> DEFINE m == [relateId |-> loc[t].relate, from |-> req[t].from,
                     to |-> req[t].to, req |-> req[t].id, boot |-> boot]
    <2>1. Linked(m)
      BY <1>5 DEF MsgInsert, RelateOK
    <2>2. messages' = messages \/ messages' = Append(messages, m)
      BY <1>5 DEF MsgInsert
    <2>3. CASE messages' = Append(messages, m)
      <3> HIDE DEF m
      <3>1. ASSUME NEW i \in DOMAIN messages'
            PROVE  messages'[i] = m \/ \E j \in DOMAIN messages : messages'[i] = messages[j]
        BY <2>3, AppendProperties, LenProperties DEF TypeOK
      <3>2. ASSUME NEW i \in DOMAIN messages' PROVE Linked(messages[i])'
        <4>1. PICK n : messages'[i] = n /\ Linked(n)
          <5> HIDE DEF Linked
          <5> QED BY <1>3, <2>1, <3>1
        <4>2. Linked(n)'
          BY <1>2, <4>1
        <4> QED BY <4>1, <4>2
      <3> QED BY <3>2 DEF MessagesLinkToPair
    <2> QED BY <1>4, <2>2, <2>3
  <1>6. CASE Restart \/ UNCHANGED vars
    BY <1>4, <1>6 DEF Restart, vars, db
  <1> QED BY <1>4, <1>5, <1>6, Frame DEF Next

(* The INSERT of a relation adds both directions; no other statement       *)
(* changes a row's users.                                                  *)
LEMMA MirrorStep ==
  ASSUME TypeOK, ReqOK, ContactsMirrored, TypeOK', [Next]_vars
  PROVE  ContactsMirrored'
  <1>1. ContactsKept
    BY ContactsKeptStep
  <1>2. ASSUME NEW i \in DOMAIN contacts
        PROVE  (RowsFor(contacts[i].friendUserId, contacts[i].userId) # {})'
    <2>1. PICK j : j \in RowsFor(contacts[i].friendUserId, contacts[i].userId)
      BY DEF ContactsMirrored
    <2>2. /\ contacts'[i].userId = contacts[i].userId
          /\ contacts'[i].friendUserId = contacts[i].friendUserId
      BY <1>1 DEF ContactsKept
    <2>3. j \in DOMAIN contacts'
      BY <1>1, <2>1, LenProperties DEF ContactsKept, RowsFor, TypeOK
    <2>4. /\ contacts'[j].userId = contacts[i].friendUserId
          /\ contacts'[j].friendUserId = contacts[i].userId
      BY <1>1, <2>1 DEF ContactsKept, RowsFor
    <2> QED BY <2>2, <2>3, <2>4 DEF RowsFor
  <1>3. CASE Len(contacts') = Len(contacts)
    BY <1>2, <1>3, LenProperties DEF TypeOK, ContactsMirrored
  <1>4. ASSUME NEW t \in Threads, AddInsert(t) PROVE ContactsMirrored'
    <2> DEFINE new == NewContacts(req[t].from, req[t].to)
    <2>1. /\ new \in Seq(ContactRows)
          /\ \A i \in 1 .. Len(new) : \E j \in 1 .. Len(new) :
               /\ new[j].userId = new[i].friendUserId
               /\ new[j].friendUserId = new[i].userId
      BY <1>4, NewContactsRows DEF AddInsert, ReqOK, PairLabels, BusyLabels, Labels
    <2>2. contacts' = contacts \/ contacts' = contacts \o new
      BY <1>4 DEF AddInsert
    <2> HIDE DEF new
    <2>3. CASE contacts' = contacts \o new
      <3>1. /\ DOMAIN contacts = 1 .. Len(contacts) /\ Len(contacts) \in Nat
            /\ DOMAIN contacts' = 1 .. (Len(contacts) + Len(new)) /\ Len(new) \in Nat
            /\ \A k \in 1 .. Len(new) : contacts'[Len(contacts) + k] = new[k]
        BY <2>1, <2>3, ConcatProperties, LenProperties DEF TypeOK
      <3>2. ASSUME NEW i \in DOMAIN contacts', i \notin DOMAIN contacts
            PROVE  (RowsFor(contacts[i].friendUserId, contacts[i].userId) # {})'
        <4>1. PICK k \in 1 .. Len(new) : i = Len(contacts) + k
          <5>1. i - Len(contacts) \in 1 .. Len(new)
            BY <3>1, <3>2
          <5> QED BY <3>1, <3>2, <5>1
        <4>2. PICK j \in 1 .. Len(new) : /\ new[j].userId = new[k].friendUserId
                                        /\ new[j].friendUserId = new[k].userId
          BY <2>1
        <4>3. /\ contacts'[i] = new[k]
              /\ contacts'[Len(contacts) + j] = new[j]
              /\ Len(contacts) + j \in DOMAIN contacts'
          BY <3>1, <4>1
        <4> QED BY <4>2, <4>3 DEF RowsFor
      <3> QED BY <1>2, <3>2 DEF ContactsMirrored
    <2> QED BY <1>3, <2>2, <2>3
  <1>5. CASE \E t \in Threads : CheckUpdate(t) \/ Remove(t)
    <2>1. contacts' = contacts \/ \E ids : \E s \in {0, 1} : contacts' = SetStatus(ids, s)
      BY <1>5 DEF CheckUpdate, Remove
    <2> QED BY <1>3, <2>1, SetStatusTable DEF TypeOK
  <1>6. CASE Restart \/ UNCHANGED vars
    BY <1>3, <1>6 DEF Restart, vars, db
  <1> QED BY <1>3, <1>4, <1>5, <1>6, Frame DEF Next

-----------------------------------------------------------------------------
(* IInv is inductive: the types of the stored rows rest on what a handler  *)
(* has checked (ReqOK) and looked up (RelateOK), which rests on contacts   *)
(* being kept.                                                             *)
THEOREM Inductive == Spec => []IInv
  <1>1. Init => IInv
    <2> SUFFICES ASSUME Init PROVE IInv
      OBVIOUS
    <2>1. ReqOK /\ RelateOK
      BY DEF Init, ReqOK, RelateOK, PairLabels, BusyLabels
    <2>2. MessagesLinkToPair /\ ContactsMirrored
      BY DEF Init, MessagesLinkToPair, ContactsMirrored
    <2> QED BY <2>1, <2>2, TypeInit DEF IInv
  <1>2. IInv /\ [Next]_vars => IInv'
    BY TypeStep, RelateStep, LinkStep, MirrorStep DEF IInv
  <1> QED BY <1>1, <1>2, PTL DEF Spec

(* The tables and variables keep their types; no message is stored with    *)
(* kInvalidID as its relateId.                                             *)
THEOREM TypeCorrect == Spec => []TypeOK
  BY Inductive, PTL DEF IInv

(* SendIMMessage stores a message under a relation of its two users, the   *)
(* smaller id first, for any number of racing handler threads.             *)
THEOREM MessagesLinked == Spec => []MessagesLinkToPair
  BY Inductive, PTL DEF IInv

(* Every contact has its mirror row, whatever fails and whenever the       *)
(* process is restarted.                                                   *)
THEOREM ContactsAlwaysMirrored == Spec => []ContactsMirrored
  BY Inductive, PTL DEF IInv

(* No step deletes a contact or gives its relateId to another pair.        *)
THEOREM ContactsNeverRebound == Spec => [][ContactsKept]_vars
  <1>1. IInv /\ [Next]_vars => [ContactsKept]_vars
    BY ContactsKeptStep DEF IInv
  <1> QED BY <1>1, Inductive, PTL DEF Spec
=============================================================================
