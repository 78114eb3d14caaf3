------------------------ MODULE MessageAccountProofs ------------------------
(***************************************************************************)
(* MessageStore keeps its books: the cached totals agree with the stored   *)
(* messages, the unread entries never exceed the totals, and the answer to *)
(* a text message says whether it is stored.  For every set of users,      *)
(* threads and requests and every bound.                                   *)
(***************************************************************************)
EXTENDS MessageStoreProofs, FiniteSetTheorems

(* SendIMMessage before the INSERT of the message, and after it.           *)
BeforeInsert == {"check_select", "check_update", "get_relate", "add_get_relate",
                 "add_insert", "msg_insert"}
AfterInsert == {"incr_total", "incr_unread"}
OtherLabels == BusyLabels \ (BeforeInsert \cup AfterInsert)

(* The threads at a label with a message of f to u.                        *)
At(label, f, u) ==
  {t \in Threads : pc[t] = label /\ req[t].from = f /\ req[t].to = u}

(* The messages of f to u stored since the process started.                *)
StoredNow(f, u) ==
  {i \in DOMAIN messages : /\ messages[i].from = f
                           /\ messages[i].to = u
                           /\ messages[i].boot = boot}

(* The rows stored for a request.                                          *)
RowsOf(id) == {i \in DOMAIN messages : messages[i].req = id}

(* No message carries a later boot than the current one: a restart starts  *)
(* with no message of its own.                                             *)
BootsPast == \A i \in DOMAIN messages : messages[i].boot <= boot

(* Requests at work, stored and answered are numbered, no number twice.    *)
RequestIds ==
  /\ \A t \in Threads : pc[t] # "idle" => req[t].id < nextReq
  /\ \A t, o \in Threads :
       t # o /\ pc[t] # "idle" /\ pc[o] # "idle" => req[t].id # req[o].id
  /\ \A i \in DOMAIN messages : messages[i].req < nextReq
  /\ \A a \in answers :
       /\ a.id < nextReq
       /\ \A t \in Threads : pc[t] # "idle" => req[t].id # a.id

(* What a thread has stored for its request: nothing before the INSERT,    *)
(* one row after it, and what it is about to answer when it is done.       *)
OwnRow(t) ==
  /\ pc[t] \in BeforeInsert =>
       req[t].kind = "MsgData" /\ Cardinality(RowsOf(req[t].id)) = 0
  /\ pc[t] \in AfterInsert =>
       req[t].kind = "MsgData" /\ Cardinality(RowsOf(req[t].id)) = 1
  /\ pc[t] \in OtherLabels => req[t].kind # "MsgData"
  /\ pc[t] = "reply" /\ req[t].kind = "MsgData" /\ req[t].type = "im" =>
       Cardinality(RowsOf(req[t].id)) = 1 - reply[t].result

OwnRows == \A t \in Threads : OwnRow(t)

AccountInv == BootsPast /\ CounterMatchesStore /\ UnreadWithinCounter
AnswerInv  == RequestIds /\ OwnRows /\ AnswersTellTruth

-----------------------------------------------------------------------------
(* The steps that neither take nor answer a request nor touch a total: a   *)
(* thread stays on its side of the INSERT and keeps its request.           *)
PlainStep(t) ==
  /\ UNCHANGED <<messages, counter, boot, nextReq, answers, req>>
  /\ unread' = unread \/ AckErase(t)
  /\ \/ pc[t] \in BeforeInsert /\ pc'[t] \in BeforeInsert
     \/ pc[t] \in OtherLabels /\ pc'[t] \in OtherLabels \cup {"reply"}

(* Every step of a thread is one of the five that matter to the books, or  *)
(* a plain one; no step touches another thread's variables.                *)
LEMMA StepKinds ==
  ASSUME TypeOK, NEW t \in Threads, Accept(t) \/ Work(t)
  PROVE  /\ \/ Accept(t) \/ SendSessionData(t) \/ MsgInsert(t)
            \/ IncrUserMsgCount(t) \/ IncreaseUserUnreadMsgCount(t)
            \/ PlainStep(t)
         /\ boot' = boot
         /\ \A o \in Threads \ {t} : /\ pc'[o] = pc[o]
                                    /\ req'[o] = req[o]
                                    /\ reply'[o] = reply[o]
  <1> USE DEF db, cache, TypeOK, Finish, Goto
  <1> DEFINE Others == \A o \in Threads \ {t} : reply'[o] = reply[o]
  <1>0. \A o \in Threads \ {t} : pc'[o] = pc[o] /\ req'[o] = req[o]
    BY Frame
  <1>1. CASE Accept(t)
    <2>1. boot' = boot
      BY <1>1 DEF Accept
    <2>2. Others
      BY <1>1 DEF Accept, MsgDataAccept, RemoveAccept, MsgReadAckAccept,
         UnreadMsgAccept, UnreadMsgCountAccept, FriendListAccept
    <2> QED BY <1>0, <1>1, <2>1, <2>2
  <1>2. CASE SendSessionData(t)
    BY <1>0, <1>2 DEF SendSessionData
  <1>3. CASE MsgInsert(t)
    BY <1>0, <1>3 DEF MsgInsert
  <1>4. CASE IncrUserMsgCount(t)
    BY <1>0, <1>4 DEF IncrUserMsgCount
  <1>5. CASE IncreaseUserUnreadMsgCount(t)
    BY <1>0, <1>5 DEF IncreaseUserUnreadMsgCount
  <1>6. CASE ~ (SendSessionData(t) \/ MsgInsert(t) \/ IncrUserMsgCount(t)
                \/ IncreaseUserUnreadMsgCount(t)) /\ Work(t)
    <2> USE DEF PlainStep, BeforeInsert, AfterInsert, OtherLabels, BusyLabels, Labels
    <2>1. CASE CheckSelect(t) BY <2>1 DEF CheckSelect
    <2>2. CASE CheckUpdate(t) BY <2>2 DEF CheckUpdate
    <2>3. CASE GetRelate(t) BY <2>3 DEF GetRelate, LookupRelate
    <2>4. CASE AddGetRelate(t) BY <2>4 DEF AddGetRelate, LookupRelate
    <2>5. CASE AddInsert(t) BY <2>5 DEF AddInsert
    <2>6. CASE Remove(t) BY <2>6 DEF Remove
    <2>7. CASE AckFind(t) BY <2>7 DEF AckFind, FindUnreadCount
    <2>8. CASE AckErase(t)
      <3>1. pc[t] = "ack_erase" /\ pc' = [pc EXCEPT ![t] = "reply"] /\ Others
        BY <2>8 DEF AckErase
      <3>2. UNCHANGED <<messages, counter, boot, nextReq, answers, req>>
        BY <2>8 DEF AckErase
      <3> QED BY <1>0, <2>8, <3>1, <3>2
    <2>9. CASE CountFind(t) BY <2>9 DEF CountFind, FindUnreadCount
    <2>10. CASE CountRead(t) BY <2>10 DEF CountRead
    <2>11. CASE UnreadFind(t) BY <2>11 DEF UnreadFind, FindUnreadCount
    <2>12. CASE UnreadRead(t) BY <2>12 DEF UnreadRead
    <2>13. CASE UnreadRelate(t) BY <2>13 DEF UnreadRelate, LookupRelate
    <2>14. CASE UnreadSelect(t) BY <2>14 DEF UnreadSelect
    <2>15. CASE Friends(t) BY <2>15 DEF Friends
    <2> QED BY <1>6, <2>1, <2>2, <2>3, <2>4, <2>5, <2>6, <2>7, <2>8, <2>9, <2>10,
            <2>11, <2>12, <2>13, <2>14, <2>15 DEF Work
  <1> QED BY <1>1, <1>2, <1>3, <1>4, <1>5, <1>6

(* Where Accept and SendSessionData take a thread.                         *)
LEMMA AcceptShape ==
  ASSUME TypeOK, NEW t \in Threads, Accept(t)
  PROVE  /\ pc[t] = "idle"
         /\ pc'[t] \in OtherLabels \cup {"reply", "check_select"}
         /\ req'[t].id = nextReq /\ nextReq' = nextReq + 1
         /\ pc'[t] = "check_select" <=>
              req'[t].kind = "MsgData" /\ pc'[t] # "reply"
         /\ pc'[t] = "reply" /\ req'[t].kind = "MsgData" /\ req'[t].type = "im" =>
              reply'[t].result = 1
         /\ UNCHANGED <<messages, counter, unread, answers>>
  <1>1. PICK r \in Inputs :
          /\ req' = [req EXCEPT ![t] =
               [id |-> nextReq, kind |-> r.kind, from |-> r.from, to |-> r.to,
                type |-> r.type, client_type |-> r.client_type]]
          /\ \/ r.kind = "MsgData" /\ MsgDataAccept(t, r)
             \/ r.kind = "RemoveSession" /\ RemoveAccept(t, r)
             \/ r.kind = "MsgReadAck" /\ MsgReadAckAccept(t, r)
             \/ r.kind = "UnreadMsg" /\ UnreadMsgAccept(t, r)
             \/ r.kind = "UnreadMsgCount" /\ UnreadMsgCountAccept(t, r)
             \/ r.kind = "FriendList" /\ FriendListAccept(t, r)
    BY DEF Accept
  <1>2. /\ req'[t].id = nextReq /\ req'[t].kind = r.kind /\ req'[t].type = r.type
    BY <1>1 DEF TypeOK
  <1>3. /\ pc[t] = "idle" /\ nextReq' = nextReq + 1
        /\ UNCHANGED <<messages, counter, unread, answers>>
    BY DEF Accept, db, cache
  <1> USE DEF Finish, Goto, TypeOK, OtherLabels, BusyLabels, BeforeInsert, AfterInsert, Labels
  <1>4. CASE r.kind = "MsgData" /\ MsgDataAccept(t, r)
    BY <1>2, <1>3, <1>4 DEF MsgDataAccept
  <1>5. CASE r.kind = "RemoveSession" /\ RemoveAccept(t, r)
    BY <1>2, <1>3, <1>5 DEF RemoveAccept
  <1>6. CASE r.kind = "MsgReadAck" /\ MsgReadAckAccept(t, r)
    BY <1>2, <1>3, <1>6 DEF MsgReadAckAccept
  <1>7. CASE r.kind = "UnreadMsg" /\ UnreadMsgAccept(t, r)
    BY <1>2, <1>3, <1>7 DEF UnreadMsgAccept
  <1>8. CASE r.kind = "UnreadMsgCount" /\ UnreadMsgCountAccept(t, r)
    BY <1>2, <1>3, <1>8 DEF UnreadMsgCountAccept
  <1>9. CASE r.kind = "FriendList" /\ FriendListAccept(t, r)
    BY <1>2, <1>3, <1>9 DEF FriendListAccept
  <1> QED BY <1>1, <1>4, <1>5, <1>6, <1>7, <1>8, <1>9

(* Where MsgInsert leads, and what it appends.                             *)
LEMMA InsertShape ==
  ASSUME TypeOK, NEW t \in Threads, MsgInsert(t)
  PROVE  /\ pc[t] = "msg_insert"
         /\ UNCHANGED <<counter, unread, req, nextReq, answers, boot>>
         /\ \/ /\ pc'[t] = "reply" /\ reply'[t].result = 1
               /\ messages' = messages
            \/ /\ pc'[t] = "incr_total"
               /\ \E m : /\ messages' = Append(messages, m)
                         /\ m.from = req[t].from /\ m.to = req[t].to
                         /\ m.req = req[t].id /\ m.boot = boot
  <1>1. /\ pc[t] = "msg_insert"
        /\ UNCHANGED <<counter, unread, req, nextReq, answers, boot>>
    BY DEF MsgInsert, cache
  <1>2. CASE Fault /\ Finish(t, 1, {}) /\ UNCHANGED messages
    BY <1>1, <1>2 DEF Finish, Goto, TypeOK
  <1>3. CASE ~ (Fault /\ Finish(t, 1, {}) /\ UNCHANGED messages)
    <2> DEFINE m == [relateId |-> loc[t].relate, from |-> req[t].from,
                     to |-> req[t].to, req |-> req[t].id, boot |-> boot]
    <2>1. messages' = Append(messages, m) /\ pc'[t] = "incr_total"
      BY <1>3 DEF MsgInsert, Goto, TypeOK
    <2>2. /\ m.from = req[t].from /\ m.to = req[t].to
          /\ m.req = req[t].id /\ m.boot = boot
      OBVIOUS
    <2> HIDE DEF m
    <2> QED BY <1>1, <2>1, <2>2
  <1> QED BY <1>2, <1>3

-----------------------------------------------------------------------------
(* Counting: a set that gains or loses one element has one element more or *)
(* less.                                                                   *)

(* The threads at a label are finitely many, before and after a step.      *)
LEMMA AtFinite ==
  ASSUME NEW l, NEW f, NEW u
  PROVE  /\ IsFiniteSet(At(l, f, u)) /\ IsFiniteSet(At(l, f, u)')
         /\ Cardinality(At(l, f, u)) \in Nat /\ Cardinality(At(l, f, u)') \in Nat
  <1>1. At(l, f, u) \subseteq Threads /\ At(l, f, u)' \subseteq Threads
    BY DEF At
  <1> QED BY <1>1, ThreadsAssumption, FS_Subset, FS_CardinalityType

(* A set of stored rows is finite.                                         *)
LEMMA RowsFinite ==
  ASSUME TypeOK, NEW S \in SUBSET (DOMAIN messages)
  PROVE  IsFiniteSet(S) /\ Cardinality(S) \in Nat
  <1>1. DOMAIN messages = 1 .. Len(messages) /\ Len(messages) \in Nat
    BY LenProperties DEF TypeOK
  <1>2. IsFiniteSet(DOMAIN messages)
    BY <1>1, FS_Interval
  <1> QED BY <1>2, FS_Subset, FS_CardinalityType

(* A set of threads moves with its only moving member.                     *)
LEMMA AtMoves ==
  ASSUME NEW t \in Threads, NEW l, NEW f, NEW u,
         \A o \in Threads \ {t} : pc'[o] = pc[o] /\ req'[o] = req[o]
  PROVE  Cardinality(At(l, f, u)') =
           Cardinality(At(l, f, u)) + (IF t \in At(l, f, u)' THEN 1 ELSE 0)
                                    - (IF t \in At(l, f, u) THEN 1 ELSE 0)
  <1> DEFINE A == At(l, f, u)  B == At(l, f, u)'
  <1>1. A \ {t} = B \ {t}
    BY DEF At
  <1>2. IsFiniteSet(A) /\ IsFiniteSet(B) /\ Cardinality(A) \in Nat /\ Cardinality(B) \in Nat
    BY AtFinite
  <1> HIDE DEF A, B
  <1>3. CASE t \in A /\ t \in B
    <2>1. A = B
      BY <1>1, <1>3
    <2> QED BY <1>2, <1>3, <2>1 DEF A, B
  <1>4. CASE t \notin A /\ t \notin B
    <2>1. A = B
      BY <1>1, <1>4
    <2> QED BY <1>2, <1>4, <2>1 DEF A, B
  <1>5. CASE t \in A /\ t \notin B
    <2>1. B = A \ {t}
      BY <1>1, <1>5
    <2>2. Cardinality(B) = Cardinality(A) - 1
      BY <1>2, <1>5, <2>1, FS_RemoveElement
    <2> QED BY <1>2, <1>5, <2>2 DEF A, B
  <1>6. CASE t \notin A /\ t \in B
    <2>1. B = A \cup {t}
      BY <1>1, <1>6
    <2>2. Cardinality(B) = Cardinality(A) + 1
      BY <1>2, <1>6, <2>1, FS_AddElement
    <2> QED BY <1>2, <1>6, <2>2 DEF A, B
  <1> QED BY <1>3, <1>4, <1>5, <1>6

(* A message appended to the table is one more row of its pair, of this    *)
(* boot, and of its request, and of no other.                              *)
LEMMA AppendedRow ==
  ASSUME TypeOK, TypeOK', NEW m, messages' = Append(messages, m), boot' = boot,
         m.boot = boot
  PROVE  /\ \A f, u : Cardinality(StoredNow(f, u)') =
              Cardinality(StoredNow(f, u)) + (IF m.from = f /\ m.to = u THEN 1 ELSE 0)
         /\ \A id : Cardinality(RowsOf(id)') =
              Cardinality(RowsOf(id)) + (IF m.req = id THEN 1 ELSE 0)
         /\ \A i \in DOMAIN messages' :
              messages'[i] = m \/ \E j \in DOMAIN messages : messages'[i] = messages[j]
  <1> DEFINE n == Len(messages) + 1
  <1>1. /\ DOMAIN messages = 1 .. Len(messages) /\ Len(messages) \in Nat
        /\ DOMAIN messages' = DOMAIN messages \cup {n} /\ n \notin DOMAIN messages
        /\ messages'[n] = m
        /\ \A i \in DOMAIN messages : messages'[i] = messages[i]
    <2>1. DOMAIN messages = 1 .. Len(messages) /\ Len(messages) \in Nat
      BY LenProperties DEF TypeOK
    <2>2. DOMAIN messages' = 1 .. n
      BY LenProperties, AppendProperties DEF TypeOK
    <2>3. messages'[n] = m /\ \A i \in DOMAIN messages : messages'[i] = messages[i]
      BY <2>1, LenProperties, AppendProperties DEF TypeOK
    <2> QED BY <2>1, <2>2, <2>3
  <1> HIDE DEF n
  <1>2. ASSUME NEW S \in SUBSET DOMAIN messages
        PROVE  Cardinality(S \cup {n}) = Cardinality(S) + 1
    <2>1. n \notin S /\ IsFiniteSet(S)
      BY <1>1, RowsFinite
    <2> QED BY <2>1, FS_AddElement
  <1>3. ASSUME NEW S \in SUBSET DOMAIN messages PROVE Cardinality(S) \in Nat
    BY RowsFinite
  <1>4. ASSUME NEW f, NEW u
        PROVE  Cardinality(StoredNow(f, u)') =
                 Cardinality(StoredNow(f, u)) + (IF m.from = f /\ m.to = u THEN 1 ELSE 0)
    <2>1. StoredNow(f, u) \in SUBSET DOMAIN messages
      BY DEF StoredNow
    <2>2. CASE m.from = f /\ m.to = u
      <3>1. StoredNow(f, u)' = StoredNow(f, u) \cup {n}
        BY <1>1, <2>2 DEF StoredNow
      <3> QED BY <1>2, <2>1, <2>2, <3>1
    <2>3. CASE ~ (m.from = f /\ m.to = u)
      <3>1. StoredNow(f, u)' = StoredNow(f, u)
        BY <1>1, <2>3 DEF StoredNow
      <3> QED BY <1>3, <2>1, <2>3, <3>1
    <2> QED BY <2>2, <2>3
  <1>5. ASSUME NEW id
        PROVE  Cardinality(RowsOf(id)') =
                 Cardinality(RowsOf(id)) + (IF m.req = id THEN 1 ELSE 0)
    <2>1. RowsOf(id) \in SUBSET DOMAIN messages
      BY DEF RowsOf
    <2>2. CASE m.req = id
      <3>1. RowsOf(id)' = RowsOf(id) \cup {n}
        BY <1>1, <2>2 DEF RowsOf
      <3> QED BY <1>2, <2>1, <2>2, <3>1
    <2>3. CASE m.req # id
      <3>1. RowsOf(id)' = RowsOf(id)
        BY <1>1, <2>3 DEF RowsOf
      <3> QED BY <1>3, <2>1, <2>3, <3>1
    <2> QED BY <2>2, <2>3
  <1> QED BY <1>1, <1>4, <1>5

-----------------------------------------------------------------------------
(* The totals and the unread entries.                                      *)

(* No restart goes back to an earlier boot.                                *)
LEMMA BootStep ==
  ASSUME TypeOK, TypeOK', BootsPast, [Next]_vars
  PROVE  BootsPast'
  <1>1. CASE UNCHANGED vars
    BY <1>1 DEF vars, BootsPast
  <1>2. CASE Restart
    <2>1. ASSUME NEW i \in DOMAIN messages PROVE messages[i].boot \in Nat
      <3>1. messages[i] \in MessageRows
        BY LenProperties, ElementOfSeq DEF TypeOK
      <3> QED BY <3>1 DEF MessageRows
    <2> QED BY <1>2, <2>1 DEF Restart, BootsPast, db, TypeOK
  <1>3. ASSUME NEW t \in Threads, Accept(t) \/ Work(t) PROVE BootsPast'
    <2>1. boot' = boot
      BY <1>3, StepKinds
    <2>2. CASE messages' = messages
      BY <2>1, <2>2 DEF BootsPast
    <2>3. CASE MsgInsert(t)
      <3>1. SUFFICES ASSUME NEW m, messages' = Append(messages, m), m.boot = boot
                     PROVE  BootsPast'
        BY <2>2, <2>3, InsertShape
      <3>2. \A i \in DOMAIN messages' :
              messages'[i] = m \/ \E j \in DOMAIN messages : messages'[i] = messages[j]
        BY <2>1, <3>1, AppendedRow
      <3>3. boot \in Nat
        BY DEF TypeOK
      <3>4. ASSUME NEW i \in DOMAIN messages' PROVE messages'[i].boot <= boot
        <4>1. CASE messages'[i] = m
          BY <3>1, <3>3, <4>1
        <4>2. CASE \E j \in DOMAIN messages : messages'[i] = messages[j]
          BY <4>2 DEF BootsPast
        <4> QED BY <3>2, <4>1, <4>2
      <3> QED BY <2>1, <3>4 DEF BootsPast
    <2> QED BY <1>3, <2>2, <2>3, Frame
  <1> QED BY <1>1, <1>2, <1>3 DEF Next

(* IncrUserMsgCount increases the total of its pair and no other.          *)
LEMMA TotalIncreased ==
  ASSUME TypeOK, ReqOK, NEW t \in Threads, IncrUserMsgCount(t),
         NEW f \in Users, NEW u \in Users
  PROVE  counter'[f][u] =
           counter[f][u] + (IF req[t].from = f /\ req[t].to = u THEN 1 ELSE 0)
  <1> DEFINE a == req[t].from
             b == req[t].to
             row == [counter[a] EXCEPT ![b] = @ + 1]
  <1>1. counter \in [Users -> [Users -> Nat]] /\ a \in Users /\ b \in Users
    BY DEF TypeOK, IncrUserMsgCount, ReqOK, PairLabels, BusyLabels, Labels
  <1>2. counter' = [counter EXCEPT ![a] = row]
    BY DEF IncrUserMsgCount
  <1> HIDE DEF a, b
  <1>3. counter[a] \in [Users -> Nat] /\ counter[f][u] \in Nat
    BY <1>1
  <1>4. row[u] = IF b = u THEN counter[a][u] + 1 ELSE counter[a][u]
    BY <1>1, <1>3
  <1> HIDE DEF row
  <1>5. counter'[f] = IF a = f THEN row ELSE counter[f]
    BY <1>1, <1>2
  <1> QED BY <1>3, <1>4, <1>5 DEF a, b

(* The total of a pair and the messages stored for it stay equal but for   *)
(* the threads between the two.                                            *)
LEMMA CounterStep ==
  ASSUME TypeOK, ReqOK, TypeOK', BootsPast, CounterMatchesStore, [Next]_vars
  PROVE  CounterMatchesStore'
  <1> DEFINE Agree(f, u) == counter[f][u] + Cardinality(At("incr_total", f, u))
                            = Cardinality(StoredNow(f, u))
  <1>0. CounterMatchesStore <=> \A f, u \in Users : Agree(f, u)
    BY DEF CounterMatchesStore, At, StoredNow
  <1>1. CounterMatchesStore' <=> \A f, u \in Users : Agree(f, u)'
    BY DEF CounterMatchesStore, At, StoredNow
  <1>2. SUFFICES ASSUME NEW f \in Users, NEW u \in Users PROVE Agree(f, u)'
    BY <1>1
  <1>3. Agree(f, u)
    BY <1>0
  <1>4. /\ counter[f][u] \in Nat
        /\ Cardinality(At("incr_total", f, u)) \in Nat
        /\ Cardinality(StoredNow(f, u)) \in Nat
    BY AtFinite, RowsFinite DEF TypeOK, StoredNow
  <1>5. CASE UNCHANGED vars
    BY <1>3, <1>5 DEF vars, At, StoredNow
  <1>6. CASE Restart
    <2>1. counter'[f][u] = 0
      BY <1>6 DEF Restart, EmptyCache
    <2>2. At("incr_total", f, u)' = {}
      BY <1>6 DEF Restart, At
    <2>3. StoredNow(f, u)' = {}
      <3>1. messages' = messages /\ boot' = boot + 1
        BY <1>6 DEF Restart, db
      <3>2. ASSUME NEW i \in DOMAIN messages PROVE messages[i].boot # boot + 1
        <4>1. messages[i] \in MessageRows
          BY LenProperties, ElementOfSeq DEF TypeOK
        <4>2. messages[i].boot \in Nat /\ messages[i].boot <= boot
          BY <4>1 DEF MessageRows, BootsPast
        <4> QED BY <4>2 DEF TypeOK
      <3> QED BY <3>1, <3>2 DEF StoredNow
    <2> QED BY <2>1, <2>2, <2>3, FS_EmptySet
  <1>7. ASSUME NEW t \in Threads, Accept(t) \/ Work(t) PROVE Agree(f, u)'
    <2> DEFINE In == IF t \in At("incr_total", f, u) THEN 1 ELSE 0
               In1 == IF t \in At("incr_total", f, u)' THEN 1 ELSE 0
    <2>1. Cardinality(At("incr_total", f, u)') = Cardinality(At("incr_total", f, u)) + In1 - In
      BY <1>7, StepKinds, AtMoves
    <2>2. boot' = boot
      BY <1>7, StepKinds
    <2>3. CASE /\ messages' = messages /\ counter' = counter
               /\ t \notin At("incr_total", f, u) /\ t \notin At("incr_total", f, u)'
      <3>1. StoredNow(f, u)' = StoredNow(f, u)
        BY <2>2, <2>3 DEF StoredNow
      <3> QED BY <1>3, <1>4, <2>1, <2>3, <3>1
    <2>4. CASE Accept(t)
      BY <2>3, <2>4, AcceptShape DEF At, OtherLabels, BusyLabels, AfterInsert
    <2>5. CASE SendSessionData(t)
      <3>1. pc[t] = "reply" /\ pc'[t] = "idle" /\ messages' = messages /\ counter' = counter
        BY <2>5 DEF SendSessionData, Goto, TypeOK, db, cache
      <3> QED BY <2>3, <3>1 DEF At
    <2>6. CASE MsgInsert(t)
      <3>1. /\ pc[t] = "msg_insert" /\ counter' = counter /\ req' = req
        BY <2>6, InsertShape
      <3>2. CASE pc'[t] = "reply" /\ messages' = messages
        BY <2>3, <3>1, <3>2 DEF At
      <3>3. CASE pc'[t] # "reply"
        <4>1. PICK m : /\ messages' = Append(messages, m)
                       /\ m.from = req[t].from /\ m.to = req[t].to
                       /\ m.boot = boot
          BY <2>6, <3>3, InsertShape
        <4>2. pc'[t] = "incr_total"
          BY <2>6, <3>3, InsertShape
        <4>3. Cardinality(StoredNow(f, u)') = Cardinality(StoredNow(f, u)) +
                 (IF m.from = f /\ m.to = u THEN 1 ELSE 0)
          BY <2>2, <4>1, AppendedRow
        <4>4. In = 0 /\ In1 = IF m.from = f /\ m.to = u THEN 1 ELSE 0
          BY <3>1, <4>1, <4>2 DEF At
        <4> QED BY <1>3, <1>4, <2>1, <3>1, <4>3, <4>4
      <3> QED BY <2>6, <3>2, <3>3, InsertShape
    <2>7. CASE IncrUserMsgCount(t)
      <3>1. /\ pc[t] = "incr_total" /\ pc'[t] = "incr_unread"
            /\ messages' = messages /\ req' = req
            /\ counter' = [counter EXCEPT ![req[t].from][req[t].to] = @ + 1]
        BY <2>7 DEF IncrUserMsgCount, Goto, TypeOK, db
      <3>2. req[t].from \in Users /\ req[t].to \in Users
        BY <3>1 DEF ReqOK, PairLabels, BusyLabels, Labels
      <3>3. counter'[f][u] = counter[f][u] + In
        <4>1. In = IF req[t].from = f /\ req[t].to = u THEN 1 ELSE 0
          BY <3>1 DEF At
        <4>2. counter'[f][u] = counter[f][u] +
                (IF req[t].from = f /\ req[t].to = u THEN 1 ELSE 0)
          BY <2>7, TotalIncreased
        <4> QED BY <4>1, <4>2
      <3>4. In1 = 0 /\ StoredNow(f, u)' = StoredNow(f, u)
        BY <2>2, <3>1 DEF At, StoredNow
      <3> QED BY <1>3, <1>4, <2>1, <3>3, <3>4
    <2>8. CASE IncreaseUserUnreadMsgCount(t)
      <3>1. /\ pc[t] = "incr_unread" /\ pc'[t] = "reply"
            /\ messages' = messages /\ counter' = counter
        BY <2>8 DEF IncreaseUserUnreadMsgCount, Finish, Goto, TypeOK, db
      <3> QED BY <2>3, <3>1 DEF At
    <2>9. CASE PlainStep(t)
      BY <2>3, <2>9 DEF PlainStep, At, BeforeInsert, OtherLabels, AfterInsert
    <2> QED BY <1>7, <2>4, <2>5, <2>6, <2>7, <2>8, <2>9, StepKinds
  <1> QED BY <1>5, <1>6, <1>7 DEF Next

(* An unread entry is increased only for a message already counted.        *)
LEMMA UnreadStep ==
  ASSUME TypeOK, ReqOK, TypeOK', UnreadWithinCounter, [Next]_vars
  PROVE  UnreadWithinCounter'
  <1> DEFINE Within(f, u, s) ==
        unread[f][s][u] + Cardinality(At("incr_unread", f, u)) <= counter[f][u]
  <1>0. UnreadWithinCounter <=> \A f, u \in Users, s \in Slots : Within(f, u, s)
    BY DEF UnreadWithinCounter, At
  <1>1. UnreadWithinCounter' <=> \A f, u \in Users, s \in Slots : Within(f, u, s)'
    BY DEF UnreadWithinCounter, At
  <1>2. SUFFICES ASSUME NEW f \in Users, NEW u \in Users, NEW s \in Slots
                 PROVE  Within(f, u, s)'
    BY <1>1
  <1>3. Within(f, u, s)
    BY <1>0
  <1>4. /\ counter[f][u] \in Nat /\ unread[f][s][u] \in Nat /\ unread'[f][s][u] \in Nat
        /\ Cardinality(At("incr_unread", f, u)) \in Nat
    <2>1. counter[f][u] \in Nat /\ unread[f][s][u] \in Nat
      BY DEF TypeOK
    <2>2. unread'[f][s][u] \in Nat
      BY DEF TypeOK
    <2> QED BY <2>1, <2>2, AtFinite
  <1>5. CASE UNCHANGED vars
    BY <1>3, <1>5 DEF vars, At
  <1>6. CASE Restart
    <2>1. counter'[f][u] = 0 /\ unread'[f][s][u] = 0
      BY <1>6 DEF Restart, EmptyCache, EmptyUnread
    <2>2. At("incr_unread", f, u)' = {}
      BY <1>6 DEF Restart, At
    <2> QED BY <2>1, <2>2, FS_EmptySet
  <1>7. ASSUME NEW t \in Threads, Accept(t) \/ Work(t) PROVE Within(f, u, s)'
    <2> DEFINE In == IF t \in At("incr_unread", f, u) THEN 1 ELSE 0
               In1 == IF t \in At("incr_unread", f, u)' THEN 1 ELSE 0
    <2>1. Cardinality(At("incr_unread", f, u)') = Cardinality(At("incr_unread", f, u)) + In1 - In
      BY <1>7, StepKinds, AtMoves
    <2>2. CASE /\ counter' = counter /\ unread'[f][s][u] <= unread[f][s][u]
               /\ t \notin At("incr_unread", f, u) /\ t \notin At("incr_unread", f, u)'
      BY <1>3, <1>4, <2>1, <2>2
    <2>3. CASE Accept(t)
      BY <1>4, <2>2, <2>3, AcceptShape DEF At, OtherLabels, BusyLabels, AfterInsert
    <2>4. CASE SendSessionData(t)
      <3>1. pc[t] = "reply" /\ pc'[t] = "idle" /\ unread' = unread /\ counter' = counter
        BY <2>4 DEF SendSessionData, Goto, TypeOK, cache
      <3> QED BY <1>4, <2>2, <3>1 DEF At
    <2>5. CASE MsgInsert(t)
      BY <1>4, <2>2, <2>5, InsertShape DEF At
    <2>6. CASE IncrUserMsgCount(t)
      <3>1. /\ pc[t] = "incr_total" /\ pc'[t] = "incr_unread"
            /\ unread' = unread /\ req' = req
            /\ counter' = [counter EXCEPT ![req[t].from][req[t].to] = @ + 1]
        BY <2>6 DEF IncrUserMsgCount, Goto, TypeOK
      <3>2. req[t].from \in Users /\ req[t].to \in Users
        BY <3>1 DEF ReqOK, PairLabels, BusyLabels, Labels
      <3>3. In = 0 /\ counter'[f][u] = counter[f][u] + In1
        <4>1. In = 0 /\ In1 = IF req[t].from = f /\ req[t].to = u THEN 1 ELSE 0
          BY <3>1 DEF At
        <4>2. counter'[f][u] = counter[f][u] +
                (IF req[t].from = f /\ req[t].to = u THEN 1 ELSE 0)
          BY <2>6, TotalIncreased
        <4> QED BY <4>1, <4>2
      <3> QED BY <1>3, <1>4, <2>1, <3>1, <3>3
    <2>7. CASE IncreaseUserUnreadMsgCount(t)
      <3>1. /\ pc[t] = "incr_unread" /\ pc'[t] = "reply" /\ counter' = counter
            /\ req' = req
        BY <2>7 DEF IncreaseUserUnreadMsgCount, Finish, Goto, TypeOK
      <3>2. req[t].from \in Users /\ req[t].to \in Users
        BY <3>1 DEF ReqOK, PairLabels, BusyLabels, Labels
      <3>3. PICK left \in [Slots -> SUBSET Users] :
              unread' = [unread EXCEPT ![req[t].from] =
                [x \in Slots |->
                   [g \in Users |-> IF g \notin left[x] THEN 0
                                    ELSE IF g = req[t].to THEN @[x][g] + 1
                                    ELSE @[x][g]]]]
        BY <2>7 DEF IncreaseUserUnreadMsgCount
      <3>4. unread'[f][s][u] <= unread[f][s][u] + In
        <4> DEFINE m == unread[req[t].from]
                   new == [x \in Slots |->
                            [g \in Users |-> IF g \notin left[x] THEN 0
                                             ELSE IF g = req[t].to THEN m[x][g] + 1
                                             ELSE m[x][g]]]
        <4>0. m \in [Slots -> [Users -> Nat]]
          BY <3>2 DEF TypeOK
        <4>1. m[s][u] \in Nat /\ unread \in [Users -> [Slots -> [Users -> Nat]]]
          <5>1. unread \in [Users -> [Slots -> [Users -> Nat]]]
            BY DEF TypeOK
          <5> HIDE DEF m
          <5> QED BY <4>0, <5>1
        <4>2. new[s][u] <= m[s][u] + (IF u = req[t].to THEN 1 ELSE 0)
          <5>1. new[s][u] = IF u \notin left[s] THEN 0
                            ELSE IF u = req[t].to THEN m[s][u] + 1 ELSE m[s][u]
            OBVIOUS
          <5> HIDE DEF new, m
          <5> QED BY <4>1, <5>1
        <4>3. unread' = [unread EXCEPT ![req[t].from] = new]
          BY <3>3
        <4> HIDE DEF new
        <4>4. unread'[f] = IF f = req[t].from THEN new ELSE unread[f]
          BY <4>1, <4>3
        <4>5. CASE f = req[t].from
          BY <3>1, <4>1, <4>2, <4>4, <4>5 DEF At
        <4>6. CASE f # req[t].from
          BY <1>4, <3>1, <4>4, <4>6 DEF At
        <4> QED BY <4>5, <4>6
      <3>5. In1 = 0
        BY <3>1 DEF At
      <3> QED BY <1>3, <1>4, <2>1, <3>1, <3>4, <3>5
    <2>8. CASE PlainStep(t)
      <3>1. CASE unread' = unread
        BY <1>4, <2>2, <2>8, <3>1 DEF PlainStep, At, BeforeInsert, OtherLabels, AfterInsert
      <3>2. CASE AckErase(t)
        <4>1. PICK left \in SUBSET Users :
                unread' = [unread EXCEPT ![req[t].from][Slot(t)] =
                  [g \in Users |-> IF g \in left \ {req[t].to} THEN @[g] ELSE 0]]
          BY <3>2 DEF AckErase
        <4>2. unread'[f][s][u] <= unread[f][s][u]
          <5> DEFINE a == req[t].from
                     b == Slot(t)
                     new == [g \in Users |-> IF g \in left \ {req[t].to}
                                            THEN unread[a][b][g] ELSE 0]
          <5>1. unread \in [Users -> [Slots -> [Users -> Nat]]] /\ b \in Slots
            BY DEF TypeOK, Slot, Slots, GetUnreadCountByClientType
          <5>2. unread' = [unread EXCEPT ![a][b] = new]
            BY <4>1
          <5>3. new[u] \in {unread[a][b][u], 0}
            OBVIOUS
          <5> HIDE DEF new, b, a
          <5>4. unread'[f][s] = IF f = a /\ s = b THEN new ELSE unread[f][s]
            BY <5>1, <5>2
          <5> QED BY <1>4, <5>3, <5>4
        <4> QED BY <2>2, <2>8, <4>2 DEF PlainStep, At, BeforeInsert, OtherLabels, AfterInsert
      <3> QED BY <2>8, <3>1, <3>2 DEF PlainStep
    <2> QED BY <1>7, <2>3, <2>4, <2>5, <2>6, <2>7, <2>8, StepKinds
  <1> QED BY <1>5, <1>6, <1>7 DEF Next

-----------------------------------------------------------------------------
(* The answers.                                                            *)

(* Between Accept and SendSessionData a thread keeps its request.          *)
LEMMA BusyStep ==
  ASSUME TypeOK, NEW t \in Threads, Accept(t) \/ Work(t), ~ Accept(t), ~ SendSessionData(t)
  PROVE  /\ pc[t] # "idle" /\ pc'[t] # "idle"
         /\ UNCHANGED <<req, nextReq, answers>>
  <1>1. CASE MsgInsert(t)
    BY <1>1, InsertShape
  <1>2. CASE IncrUserMsgCount(t)
    BY <1>2 DEF IncrUserMsgCount, Goto, TypeOK
  <1>3. CASE IncreaseUserUnreadMsgCount(t)
    BY <1>3 DEF IncreaseUserUnreadMsgCount, Finish, Goto, TypeOK
  <1>4. CASE PlainStep(t)
    BY <1>4 DEF PlainStep, BeforeInsert, OtherLabels, BusyLabels
  <1> QED BY <1>1, <1>2, <1>3, <1>4, StepKinds

(* The rows of a request change only when its thread inserts its message.  *)
LEMMA RowsOfStep ==
  ASSUME TypeOK, TypeOK', NEW t \in Threads, Accept(t) \/ Work(t), NEW id
  PROVE  \/ RowsOf(id)' = RowsOf(id)
         \/ /\ MsgInsert(t) /\ pc'[t] = "incr_total" /\ req[t].id = id
            /\ Cardinality(RowsOf(id)') = Cardinality(RowsOf(id)) + 1
  <1>1. CASE messages' = messages
    BY <1>1 DEF RowsOf
  <1>2. CASE MsgInsert(t) /\ messages' # messages
    <2>1. /\ pc'[t] = "incr_total" /\ boot' = boot
          /\ \E m : /\ messages' = Append(messages, m)
                    /\ m.req = req[t].id /\ m.boot = boot
      BY <1>2, InsertShape
    <2>2. PICK m : messages' = Append(messages, m) /\ m.req = req[t].id /\ m.boot = boot
      BY <2>1
    <2>3. CASE req[t].id = id
      <3>1. Cardinality(RowsOf(id)') = Cardinality(RowsOf(id)) + 1
        BY <2>1, <2>2, <2>3, AppendedRow
      <3> QED BY <1>2, <2>1, <2>3, <3>1
    <2>4. CASE req[t].id # id
      <3>1. RowsOf(id)' = RowsOf(id)
        BY <2>2, <2>4, AppendProperties, LenProperties DEF RowsOf, TypeOK
      <3> QED BY <3>1
    <2> QED BY <2>3, <2>4
  <1> QED BY <1>1, <1>2, Frame

(* Every request gets a number of its own, which its row and its answer    *)
(* carry; a restart forgets the requests at work, not their numbers.       *)
LEMMA RequestIdsStep ==
  ASSUME TypeOK, TypeOK', RequestIds, [Next]_vars
  PROVE  RequestIds'
  <1>1. CASE UNCHANGED vars
    BY <1>1 DEF vars, RequestIds
  <1>2. CASE Restart
    <2>1. \A t \in Threads : pc'[t] = "idle"
      BY <1>2 DEF Restart
    <2>2. UNCHANGED <<messages, nextReq, answers>>
      BY <1>2 DEF Restart, db
    <2> QED BY <2>1, <2>2 DEF RequestIds
  <1>3. ASSUME NEW t \in Threads, Accept(t) \/ Work(t) PROVE RequestIds'
    <2>1. \A o \in Threads \ {t} : pc'[o] = pc[o] /\ req'[o] = req[o]
      BY <1>3, StepKinds
    <2>2. /\ nextReq \in Nat
          /\ \A o \in Threads : req[o].id \in Nat
          /\ \A a \in answers : a.id \in Nat
      BY DEF TypeOK, Requests
    <2>3. ASSUME NEW i \in DOMAIN messages PROVE messages[i].req \in Nat
      <3>1. messages[i] \in MessageRows
        BY LenProperties, ElementOfSeq DEF TypeOK
      <3> QED BY <3>1 DEF MessageRows
    <2>4. CASE Accept(t)
      <3>1. /\ req'[t].id = nextReq /\ nextReq' = nextReq + 1
            /\ UNCHANGED <<messages, answers>>
        BY <2>4, AcceptShape
      <3>2. /\ \A o \in Threads : pc'[o] # "idle" => req'[o].id < nextReq'
            /\ \A o \in Threads \ {t} : pc'[o] # "idle" => req'[o].id < nextReq
        BY <2>1, <2>2, <3>1 DEF RequestIds
      <3>3. \A o, p \in Threads :
              o # p /\ pc'[o] # "idle" /\ pc'[p] # "idle" => req'[o].id # req'[p].id
        BY <2>1, <2>2, <3>1, <3>2 DEF RequestIds
      <3>4. \A i \in DOMAIN messages' : messages'[i].req < nextReq'
        BY <2>2, <2>3, <3>1 DEF RequestIds
      <3>5. \A a \in answers' :
              /\ a.id < nextReq'
              /\ \A o \in Threads : pc'[o] # "idle" => req'[o].id # a.id
        BY <2>1, <2>2, <3>1 DEF RequestIds
      <3> QED BY <3>2, <3>3, <3>4, <3>5 DEF RequestIds
    <2>5. CASE SendSessionData(t)
      <3>1. /\ pc[t] = "reply" /\ pc'[t] = "idle" /\ UNCHANGED <<messages, nextReq>>
        BY <2>5 DEF SendSessionData, Goto, TypeOK, db
      <3>2. \A a \in answers' : a \in answers \/ a.id = req[t].id
        BY <2>5 DEF SendSessionData
      <3> QED BY <2>1, <3>1, <3>2 DEF RequestIds
    <2>6. CASE ~ Accept(t) /\ ~ SendSessionData(t)
      <3>1. /\ pc[t] # "idle" /\ pc'[t] # "idle"
            /\ UNCHANGED <<req, nextReq, answers>>
        BY <1>3, <2>6, BusyStep
      <3>2. \A i \in DOMAIN messages' : messages'[i].req < nextReq
        <4>1. CASE messages' = messages
          BY <4>1 DEF RequestIds
        <4>2. CASE MsgInsert(t) /\ messages' # messages
          <5>1. boot' = boot /\ \E m : /\ messages' = Append(messages, m)
                                       /\ m.req = req[t].id /\ m.boot = boot
            BY <4>2, InsertShape
          <5>2. PICK m : messages' = Append(messages, m) /\ m.req = req[t].id /\ m.boot = boot
            BY <5>1
          <5>3. \A i \in DOMAIN messages' :
                  messages'[i] = m \/ \E j \in DOMAIN messages : messages'[i] = messages[j]
            BY <5>1, <5>2, AppendedRow
          <5> QED BY <3>1, <5>2, <5>3 DEF RequestIds
        <4> QED BY <1>3, <4>1, <4>2, Frame
      <3> QED BY <2>1, <3>1, <3>2 DEF RequestIds
    <2> QED BY <2>4, <2>5, <2>6
  <1> QED BY <1>1, <1>2, <1>3 DEF Next

(* A thread's own rows follow its label, and no other thread's step adds   *)
(* to them.                                                                *)
LEMMA OwnRowsStep ==
  ASSUME TypeOK, TypeOK', RequestIds, OwnRows, [Next]_vars
  PROVE  OwnRows'
  <1>1. CASE UNCHANGED vars
    BY <1>1 DEF vars, OwnRows, OwnRow, RowsOf
  <1>2. CASE Restart
    BY <1>2 DEF Restart, OwnRows, OwnRow, BeforeInsert, AfterInsert, OtherLabels, BusyLabels
  <1>3. ASSUME NEW t \in Threads, Accept(t) \/ Work(t), NEW o \in Threads PROVE OwnRow(o)'
    <2>1. OwnRow(o) /\ OwnRow(t)
      BY DEF OwnRows
    <2>2. CASE o # t
      <3>1. pc'[o] = pc[o] /\ req'[o] = req[o] /\ reply'[o] = reply[o]
        BY <1>3, <2>2, StepKinds
      <3>2. CASE pc[o] = "idle"
        BY <3>1, <3>2 DEF OwnRow, BeforeInsert, AfterInsert, OtherLabels, BusyLabels
      <3>3. CASE pc[o] # "idle"
        <4>1. MsgInsert(t) => req[t].id # req[o].id
          BY <2>2, <3>3 DEF MsgInsert, RequestIds
        <4>2. RowsOf(req[o].id)' = RowsOf(req[o].id)
          BY <1>3, <3>1, <4>1, RowsOfStep
        <4> QED BY <2>1, <3>1, <4>2 DEF OwnRow
      <3> QED BY <3>2, <3>3
    <2>3. CASE o = t
      <3> USE DEF OwnRow, BeforeInsert, AfterInsert, OtherLabels, BusyLabels
      <3>1. CASE Accept(t)
        <4>1. /\ pc'[t] \in OtherLabels \cup {"reply", "check_select"}
              /\ req'[t].id = nextReq /\ messages' = messages
              /\ pc'[t] = "check_select" <=>
                   req'[t].kind = "MsgData" /\ pc'[t] # "reply"
              /\ pc'[t] = "reply" /\ req'[t].kind = "MsgData" /\ req'[t].type = "im" =>
                   reply'[t].result = 1
          BY <3>1, AcceptShape
        <4>2. RowsOf(req[t].id)' = {}
          <5>1. ASSUME NEW i \in DOMAIN messages PROVE messages[i].req # nextReq
            <6>1. messages[i] \in MessageRows
              BY LenProperties, ElementOfSeq DEF TypeOK
            <6>2. messages[i].req \in Nat /\ messages[i].req < nextReq
              BY <6>1 DEF MessageRows, RequestIds
            <6> QED BY <6>2 DEF TypeOK
          <5> QED BY <4>1, <5>1 DEF RowsOf
        <4>3. Cardinality(RowsOf(req[t].id)') = 0
          BY <4>2, FS_EmptySet
        <4> QED BY <2>3, <4>1, <4>3
      <3>2. CASE SendSessionData(t)
        BY <2>3, <3>2 DEF SendSessionData, Goto, TypeOK
      <3>3. CASE MsgInsert(t)
        <4>1. pc[t] = "msg_insert" /\ req' = req
          BY <3>3, InsertShape
        <4>2. req[t].kind = "MsgData" /\ Cardinality(RowsOf(req[t].id)) = 0
          BY <2>1, <4>1
        <4>3. CASE pc'[t] = "reply" /\ reply'[t].result = 1 /\ messages' = messages
          BY <2>3, <4>1, <4>2, <4>3 DEF RowsOf
        <4>4. CASE pc'[t] = "incr_total" /\ messages' # messages
          <5>1. boot' = boot /\ \E m : /\ messages' = Append(messages, m)
                                       /\ m.req = req[t].id /\ m.boot = boot
            BY <3>3, <4>4, InsertShape
          <5>2. Cardinality(RowsOf(req[t].id)') = 1
            BY <4>1, <4>2, <5>1, AppendedRow
          <5> QED BY <2>3, <4>1, <4>2, <4>4, <5>2
        <4>5. ASSUME NEW m, messages' = Append(messages, m) PROVE messages' # messages
          BY <4>5, AppendProperties, LenProperties DEF TypeOK
        <4> QED BY <3>3, <4>3, <4>4, <4>5, InsertShape
      <3>4. CASE IncrUserMsgCount(t)
        <4>1. pc[t] = "incr_total" /\ pc'[t] = "incr_unread" /\ UNCHANGED <<req, messages>>
          BY <3>4 DEF IncrUserMsgCount, Goto, TypeOK, db
        <4> QED BY <2>1, <2>3, <4>1 DEF RowsOf
      <3>5. CASE IncreaseUserUnreadMsgCount(t)
        <4>1. /\ pc[t] = "incr_unread" /\ pc'[t] = "reply" /\ UNCHANGED <<req, messages>>
              /\ reply'[t].result = 0
          BY <3>5 DEF IncreaseUserUnreadMsgCount, Finish, Goto, TypeOK, db
        <4> QED BY <2>1, <2>3, <4>1 DEF RowsOf
      <3>6. CASE PlainStep(t)
        <4>1. UNCHANGED <<req, messages>>
          BY <3>6 DEF PlainStep
        <4>2. RowsOf(req[t].id)' = RowsOf(req[t].id)
          BY <4>1 DEF RowsOf
        <4> QED BY <2>1, <2>3, <3>6, <4>1, <4>2 DEF PlainStep
      <3> QED BY <1>3, <3>1, <3>2, <3>3, <3>4, <3>5, <3>6, StepKinds
    <2> QED BY <2>2, <2>3
  <1> QED BY <1>1, <1>2, <1>3 DEF Next, OwnRows

(* An answer is true when it is sent, and no later step makes it false:    *)
(* the rows of a finished request are never touched.                       *)
LEMMA AnswersStep ==
  ASSUME TypeOK, TypeOK', RequestIds, OwnRows, AnswersTellTruth, [Next]_vars
  PROVE  AnswersTellTruth'
  <1> DEFINE Truth(a) == a.type = "im" => Cardinality(RowsOf(a.id)) = 1 - a.result
  <1>0. /\ AnswersTellTruth <=> \A a \in answers : Truth(a)
        /\ AnswersTellTruth' <=> \A a \in answers' : Truth(a)'
    BY DEF AnswersTellTruth, RowsOf
  <1>1. CASE UNCHANGED <<messages, answers>>
    BY <1>1 DEF AnswersTellTruth
  <1>2. ASSUME NEW t \in Threads, Accept(t) \/ Work(t), NEW a \in answers'
        PROVE  Truth(a)'
    <2>1. CASE a \in answers
      <3>1. MsgInsert(t) => req[t].id # a.id
        BY <2>1 DEF MsgInsert, RequestIds
      <3>2. RowsOf(a.id)' = RowsOf(a.id)
        BY <1>2, <3>1, RowsOfStep
      <3> QED BY <1>0, <2>1, <3>2
    <2>2. CASE a \notin answers
      <3>1. SendSessionData(t)
        BY <1>2, <2>2, BusyStep, AcceptShape
      <3>2. /\ pc[t] = "reply" /\ messages' = messages /\ req[t].kind = "MsgData"
            /\ a = [id |-> req[t].id, type |-> req[t].type, result |-> reply[t].result]
        BY <1>2, <2>2, <3>1 DEF SendSessionData, db
      <3>3. OwnRow(t)
        BY DEF OwnRows
      <3> QED BY <3>2, <3>3 DEF OwnRow, RowsOf
    <2> QED BY <2>1, <2>2
  <1>3. CASE Restart \/ UNCHANGED vars
    BY <1>1, <1>3 DEF Restart, vars, db
  <1> QED BY <1>0, <1>2, <1>3 DEF Next

-----------------------------------------------------------------------------
(* The books and the answers are inductive on top of IInv.                 *)
THEOREM BooksInductive == Spec => [](AccountInv /\ AnswerInv)
  <1>1. Init => AccountInv /\ AnswerInv
    <2> SUFFICES ASSUME Init PROVE AccountInv /\ AnswerInv
      OBVIOUS
    <2>1. DOMAIN messages = {}
      BY DEF Init
    <2>2. BootsPast /\ RequestIds /\ AnswersTellTruth
      BY <2>1 DEF Init, BootsPast, RequestIds, AnswersTellTruth
    <2>3. OwnRows
      BY DEF Init, OwnRows, OwnRow, BeforeInsert, AfterInsert, OtherLabels, BusyLabels
    <2>4. ASSUME NEW f \in Users, NEW u \in Users
          PROVE  /\ counter[f][u] = 0 /\ \A s \in Slots : unread[f][s][u] = 0
                 /\ Cardinality(At("incr_total", f, u)) = 0
                 /\ Cardinality(At("incr_unread", f, u)) = 0
                 /\ Cardinality(StoredNow(f, u)) = 0
      <3>1. /\ At("incr_total", f, u) = {} /\ At("incr_unread", f, u) = {}
            /\ StoredNow(f, u) = {}
        BY <2>1 DEF Init, At, StoredNow
      <3> QED BY <3>1, FS_EmptySet DEF Init, EmptyCache, EmptyUnread
    <2>5. CounterMatchesStore
      <3>1. \A f, u \in Users : counter[f][u] + Cardinality(At("incr_total", f, u))
                                = Cardinality(StoredNow(f, u))
        BY <2>4
      <3> QED BY <3>1 DEF CounterMatchesStore, At, StoredNow
    <2>6. UnreadWithinCounter
      <3>1. \A f, u \in Users, s \in Slots :
              unread[f][s][u] + Cardinality(At("incr_unread", f, u)) <= counter[f][u]
        BY <2>4
      <3> QED BY <3>1 DEF UnreadWithinCounter, At
    <2> QED BY <2>2, <2>3, <2>5, <2>6 DEF AccountInv, AnswerInv
  <1>2. IInv /\ IInv' /\ AccountInv /\ AnswerInv /\ [Next]_vars => AccountInv' /\ AnswerInv'
    <2> SUFFICES ASSUME IInv, IInv', AccountInv, AnswerInv, [Next]_vars
                 PROVE  AccountInv' /\ AnswerInv'
      OBVIOUS
    <2>1. TypeOK /\ ReqOK /\ TypeOK'
      BY DEF IInv
    <2>2. AccountInv'
      BY <2>1, BootStep, CounterStep, UnreadStep DEF AccountInv
    <2>3. AnswerInv'
      BY <2>1, RequestIdsStep, OwnRowsStep, AnswersStep DEF AnswerInv
    <2> QED BY <2>2, <2>3
  <1> QED BY <1>1, <1>2, Inductive, PTL DEF Spec

(* IncrCounterForNewMessage: at every moment the cached total of a pair is *)
(* the number of its messages stored since the process started, less the   *)
(* senders between their INSERT and their first critical section, for any  *)
(* number of threads, faults and restarts.                                 *)
THEOREM CountersMatch == Spec => []CounterMatchesStore
  BY BooksInductive, PTL DEF AccountInv

(* No client is told of more unread messages than were counted, whatever   *)
(* the races on the unread maps lose.                                      *)
THEOREM UnreadBounded == Spec => []UnreadWithinCounter
  BY BooksInductive, PTL DEF AccountInv

(* MsgDataHandler: result 0 to a text message means exactly one stored row *)
(* of the request, result 1 none, for ever, restarts included.             *)
THEOREM AnswersTrue == Spec => []AnswersTellTruth
  BY BooksInductive, PTL DEF AnswerInv
=============================================================================
