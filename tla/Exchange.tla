------------------------------ MODULE Exchange ------------------------------
(***************************************************************************)
(* One request and its reply as packets.  A peer fills in a request,       *)
(* serializes and sends it; zaresd finds the class for the packet's type,  *)
(* parses it and runs the handler, which fills in a reply and sends it     *)
(* back.  Units that no handler answers pass between other processes that  *)
(* share proto/.  The lists of users, departments, contacts, files and     *)
(* groups come from a row of the database; the other members of a reply    *)
(* that come from a manager have any value.                                *)
(***************************************************************************)
EXTENDS Rows

CONSTANTS
  Classes,    \* the classes of the units that peers send and parse
  Garbage     \* what uninitialised integers may hold

ASSUME ExchangeAssumption == Classes \subseteq PduClasses /\ Garbage \subseteq 0 .. 255

(* The type each constructor gives its object, named by the class that the *)
(* type is for.                                                            *)
MessageType(c) == IF c = "GroupHistoryMsgRequest" THEN "HistoryMsgRequest" ELSE c

(* The classes of RegisterPDUMessageFactory.                               *)
Registered ==
  {"ValidateRequest", "FriendListRequest", "RemoveSessionRequest", "DepartmentRequest",
   "UsersInfoRequest", "AllUserRequest", "MsgData", "UnreadMsgCountRequest",
   "UnreadMsgRequest", "MsgReadAck", "GroupListRequest", "GroupUserListRequest",
   "GroupUnreadMsgCountRequest", "GroupUnreadMsgRequest", "GroupHistoryMsgRequest",
   "GroupMsgReadAck", "GroupCreateTmpGroupRequest", "GroupChangeMemberRequest",
   "GroupDialogListRequest", "FileHasOfflineReq", "FileAddOfflineReq", "FileDelOfflineReq"}

(* Who a unit of class c goes to, and the classes he can parse.            *)
Receiver(c) == IF c \in Registered THEN "zaresd" ELSE "peer"
Factory(who) == IF who = "zaresd" THEN Registered ELSE PduClasses

-----------------------------------------------------------------------------
(* The members of both objects; those that both have are a's.              *)
Over(a, b) == [m \in DOMAIN a \cup DOMAIN b |-> IF m \in DOMAIN a THEN a[m] ELSE b[m]]

(* What a handler copies from the request q into its reply.                *)
DBWrite(id, from, to) == [request_id |-> id, from_id |-> from, to_id |-> to]

(* Mutant: the handlers do not call SetAttachData.                         *)
AttachForgotten(class, copied, q) == [class |-> class, copied |-> copied]

Reply(class, copied, q) ==
  [class |-> class, copied |-> Over(copied, [attach_data |-> q.attach_data])]

If(condition, list) == IF condition THEN list ELSE <<>>

AllUserRequestHandler(q, row) ==
  Reply("AllUserResponse",
        [from_user_id |-> q.req_user_id,
         user_info_list |-> If(q.req_user_id > 0, GetAllUserInfo(row, Blank(UserInfo)))], q)
DepartmentRequestHandler(q, row) ==
  Reply("DepartmentResponse",
        [req_user_id |-> q.req_user_id,
         depart_list |-> GetDepartmentInfos(row, Blank(DepartmentInfo))], q)
FileAddOfflineReqHandler(q) ==
  [class |-> "DBWriteResponse", copied |-> DBWrite(q.req_user_id, q.from_id, q.to_id)]
FileDelOfflineReqHandler(q) ==
  [class |-> "DBWriteResponse", copied |-> DBWrite(q.req_user_id, q.from_id, q.to_id)]
FileHasOfflineReqHandler(q, row) ==
  Reply("FileHasOfflineRes",
        [req_user_id |-> q.user_id,
         file_list |-> If(q.user_id # 0, GetUserFiles(q.user_id, row, Blank(OfflineFile)))], q)
FriendListRequestHandler(q, row) ==
  Reply("FriendListResponse",
        [from_user_id |-> q.user_id,
         friend_lists |-> If(q.user_id > 0,
                             GetRecentContactByUserId(q.user_id, row, Blank(FriendInfo)))], q)
GroupChangeMemberRequestHandler(q) ==
  Reply("GroupChangeMemberResponse",
        [req_user_id |-> q.req_user_id, user_list |-> q.user_list, group_id |-> q.group_id,
         result |-> 0, change_type |-> IF q.change_type = 0 THEN 0 ELSE 1], q)
GroupCreateTmpGroupRequestHandler(q) ==
  Reply("GroupCreateTmpGroupResponse",
        [req_user_id |-> q.req_user_id, group_name |-> <<>>, user_list |-> <<>>], q)
GroupDialogListRequestHandler(q, row) ==
  Reply("GroupDialogListResponse",
        [req_user_id |-> q.user_id,
         group_list |-> If(q.user_id > 0, GetGroups(q.user_id, FALSE, row, Blank(GroupDialog)))], q)
GroupListRequestHandler(q, row) ==
  Reply("GroupListResponse",
        [req_user_id |-> q.user_id,
         group_list |-> If(q.user_id # 0, GetGroups(q.user_id, TRUE, row, Blank(GroupInfo)))], q)
GroupMsgReadAckHandler(q) ==
  [class |-> "DBWriteResponse", copied |-> DBWrite(0, q.req_user_id, q.group_id)]
GroupUnreadMsgCountRequestHandler(q) ==
  Reply("GroupUnreadMsgCountResponse", [req_user_id |-> q.req_user_id], q)
(* The group's id goes into request_cmd_id, and group_id is never set.     *)
GroupUnreadMsgRequestHandler(q) ==
  Reply("GroupMsgListResponse",
        [req_user_id |-> q.req_user_id, request_cmd_id |-> q.group_id], q)
GroupUserListRequestHandler(q) ==
  Reply("GroupUserListResponse", [req_user_id |-> q.req_user_id, group_id |-> q.group_id], q)
MsgDataHandler(q) ==
  [class |-> "DBWriteResponse", copied |-> DBWrite(q.request_id, q.from_user_id, q.to_user_id)]
MsgReadAckHandler(q) ==
  [class |-> "DBWriteResponse", copied |-> DBWrite(q.request_id, q.from_user_id, q.to_user_id)]
RemoveSessionRequestHandler(q) ==
  Reply("RemoveSessionResponse",
        [req_user_id |-> q.req_user_id, session_id |-> q.session_id,
         session_type |-> q.session_type], q)
UnreadMsgCountRequestHandler(q) ==
  Reply("UnreadMsgCountResponse", [to_user_id |-> q.user_id], q)
UnreadMsgRequestHandler(q) ==
  Reply("MsgListResponse",
        [from_user_id |-> q.from_user_id, to_user_id |-> q.to_user_id], q)
UsersInfoRequestHandler(q, row) ==
  Reply("UsersInfoResponse",
        [from_user_id |-> q.from_user_id,
         user_info_list |-> If(q.from_user_id # 0 /\ q.user_id_list # <<>>,
                               GetUserInfoByIds(q.user_id_list, row, Blank(UserInfo)))], q)
ValidateRequestHandler(q, row) ==
  LET valid == q.user_name # <<>> /\ q.password # <<>> /\ Auth(q.user_name, q.password, row)
  IN  Reply("ValidateResponse",
            [user_name |-> q.user_name, result |-> IF valid THEN 0 ELSE 1,
             user |-> If(valid, <<GetUserInfoByName(q.user_name, row, Blank(UserInfoNoName))>>)], q)

(* The handler DispatchMessageHandler finds for the type of the object.    *)
Handler(c, q, row) ==
  CASE c = "AllUserRequest"             -> AllUserRequestHandler(q, row)
    [] c = "DepartmentRequest"          -> DepartmentRequestHandler(q, row)
    [] c = "FileAddOfflineReq"          -> FileAddOfflineReqHandler(q)
    [] c = "FileDelOfflineReq"          -> FileDelOfflineReqHandler(q)
    [] c = "FileHasOfflineReq"          -> FileHasOfflineReqHandler(q, row)
    [] c = "FriendListRequest"          -> FriendListRequestHandler(q, row)
    [] c = "GroupChangeMemberRequest"   -> GroupChangeMemberRequestHandler(q)
    [] c = "GroupCreateTmpGroupRequest" -> GroupCreateTmpGroupRequestHandler(q)
    [] c = "GroupDialogListRequest"     -> GroupDialogListRequestHandler(q, row)
    [] c = "GroupListRequest"           -> GroupListRequestHandler(q, row)
    [] c = "GroupMsgReadAck"            -> GroupMsgReadAckHandler(q)
    [] c = "GroupUnreadMsgCountRequest" -> GroupUnreadMsgCountRequestHandler(q)
    [] c = "GroupUnreadMsgRequest"      -> GroupUnreadMsgRequestHandler(q)
    [] c = "GroupUserListRequest"       -> GroupUserListRequestHandler(q)
    [] c = "MsgData"                    -> MsgDataHandler(q)
    [] c = "MsgReadAck"                 -> MsgReadAckHandler(q)
    [] c = "RemoveSessionRequest"       -> RemoveSessionRequestHandler(q)
    [] c = "UnreadMsgCountRequest"      -> UnreadMsgCountRequestHandler(q)
    [] c = "UnreadMsgRequest"           -> UnreadMsgRequestHandler(q)
    [] c = "UsersInfoRequest"           -> UsersInfoRequestHandler(q, row)
    [] c = "ValidateRequest"            -> ValidateRequestHandler(q, row)

-----------------------------------------------------------------------------
(* The objects that are sent: every member empty but one, in turn, so that *)
(* two members cannot be taken for each other unnoticed; containers with   *)
(* no, one and two elements.  Requests also with all members set.          *)
Values(f) ==
  CASE f.kind = "word"   -> {1}
    [] f.kind = "string" -> {<<1>>, <<2, 0>>}
    [] f.kind = "u32s"   -> {<<1>>, <<1, 2>>}

Structs(fields) ==
  UNION {{[Blank(fields) EXCEPT ![fields[i].name] = v] : v \in Values(fields[i])} :
           i \in DOMAIN fields}

MemberValues(f) ==
  CASE f.kind = "list"   -> {<<e>> : e \in Structs(f.of)}
                              \cup {<<Blank(f.of), e>> : e \in Structs(f.of)}
    [] f.kind = "option" -> {<<e>> : e \in Structs(f.of)}
    [] OTHER             -> Values(f)

(* ValidateRequestHandler makes a user exactly when it sets result to 0.   *)
WithUser(o) ==
  IF "user" \notin DOMAIN o THEN o
  ELSE IF o.result # 0 THEN [o EXCEPT !.user = <<>>]
  ELSE IF o.user = <<>> THEN [o EXCEPT !.user = <<Blank(UserInfoNoName)>>] ELSE o

Fields(c) == Layout[c].write \o IF Layout[c].attach THEN <<Str("attach_data")>> ELSE <<>>

Sample(f) == IF f.kind = "word" THEN 1 ELSE <<1>>
Full(c) ==
  IF c \in Registered
  THEN {FoldSeq(LAMBDA f, o : (f.name :> Sample(f)) @@ o, <<>>, Fields(c))}
  ELSE {}

Objects(c) ==
  {WithUser(o) : o \in {Blank(Fields(c))} \cup Full(c) \cup
     UNION {{[Blank(Fields(c)) EXCEPT ![Fields(c)[i].name] = v] : v \in MemberValues(Fields(c)[i])} :
              i \in DOMAIN Fields(c)}}

(* The rows: nothing set but the columns that requests look for, then one  *)
(* column more in turn, then all of them with none or one NULL; status has *)
(* a meaning of its own and is set alone.                                  *)
TableRows(keys, words, strings) ==
  LET base   == keys @@ [c \in words |-> 0] @@ [c \in strings |-> <<>>]
      set(c) == IF c \in words THEN 1 ELSE <<1>>
      rest   == (words \cup strings) \ {"status"}
      full   == [c \in rest |-> set(c)] @@ base
  IN  {[val |-> [base EXCEPT ![c] = set(c)], null |-> {}] : c \in words \cup strings}
        \cup {[val |-> full, null |-> n] : n \in {{}} \cup {{c} : c \in rest}}

Users == TableRows([id |-> 1, uname |-> <<1>>], {"status", "departid", "sex", "jobnumber"},
              {"title", "telphone", "mail", "position", "avatar", "nickname", "pwd"})
Departments == TableRows([id |-> 1], {"leader", "pid", "status"}, {"title", "desc"})
Contacts == TableRows([userId |-> 1], {"relateId", "friendUserId", "status", "created", "updated"}, {})
Files == TableRows([toUserId |-> 1, status |-> 1], {"id", "userId", "created", "updated", "fsize"},
              {"taskId", "filePath"})
Groups == TableRows([groupId |-> 1, groupType |-> 1, member |-> 1], {"createUserId", "updated"},
               {"groupName", "avatar"})

(* The rows that matter to the handler of a request.                       *)
RowsFor(c) ==
  CASE c \in {"AllUserRequest", "UsersInfoRequest", "ValidateRequest"} -> Users
    [] c = "DepartmentRequest" -> Departments
    [] c = "FriendListRequest" -> Contacts
    [] c = "FileHasOfflineReq" -> Files
    [] c \in {"GroupListRequest", "GroupDialogListRequest"} -> Groups
    [] OTHER -> {[val |-> <<>>, null |-> {}]}

(* The members of a reply that the handler does not set itself.            *)
Rest(c, request) ==
  IF RowsFor(request) = {[val |-> <<>>, null |-> {}]} THEN Objects(c) ELSE {Blank(Fields(c))}

-----------------------------------------------------------------------------
VARIABLES
  stage,     \* "new", "wire" (a packet is under way) or "received"
  unit,      \* the unit sent last, its class and its members
  packet,    \* the packet it became
  cut,       \* the sender's class wrote less than the receiver's reads
  got,       \* what the receiver made of the packet
  asked,     \* the request that the unit answers (history)
  stored     \* the row its handler found (history)

vars == <<stage, unit, packet, cut, got, asked, stored>>

None == [class |-> "none"]

Init ==
  /\ stage = "new"
  /\ unit = None /\ packet = None /\ got = None /\ asked = None /\ stored = None
  /\ cut = FALSE

Post(c, o) ==
  /\ unit' = [class |-> c, obj |-> o]
  /\ packet' = [type |-> MessageType(c), size |-> ByteSize(Layout[c], o),
                body |-> SerializeToArray(Layout[c], o)]
  /\ stage' = "wire"
  /\ cut' = FALSE
  /\ got' = None

Send(c) ==
  /\ stage = "new"
  /\ \E o \in Objects(c) : Post(c, o)
  /\ UNCHANGED <<asked, stored>>

(* The sender was built from a version of proto/ whose units are shorter.  *)
Cut ==
  /\ stage = "wire" /\ ~ cut /\ unit.class \in Classes
  /\ \E n \in 0 .. Len(packet.body) - 1 :
       packet' = [packet EXCEPT !.body = SubSeq(@, 1, n)]
  /\ cut' = TRUE
  /\ UNCHANGED <<stage, unit, got, asked, stored>>

(* ParseMessagePDUFromNetPacker: the factory of the packet's type makes an *)
(* object, which parses the packet.                                        *)
Receive ==
  /\ stage = "wire" /\ unit.class \in Classes
  /\ stage' = "received"
  /\ IF packet.type \in Factory(Receiver(unit.class))
     THEN \E g \in Garbage :
            LET L == Layout[packet.type]
                r == ParseFromArray(L, New(L, g), packet.body)
            IN got' = [class |-> packet.type, ok |-> r.ok, obj |-> IF r.ok THEN r.v ELSE <<>>]
     ELSE got' = [class |-> packet.type, ok |-> FALSE, obj |-> <<>>]
  /\ UNCHANGED <<unit, packet, cut, asked, stored>>

(* The handler fills in its reply and sends it.                            *)
Execute ==
  /\ stage = "received" /\ got.ok
  /\ Receiver(unit.class) = "zaresd"
  /\ \E row \in RowsFor(got.class) :
       LET reply == Handler(got.class, got.obj, row)
       IN  /\ \E o \in Rest(reply.class, got.class) : Post(reply.class, Over(reply.copied, o))
           /\ stored' = row
  /\ asked' = unit

Next ==
  \/ \E c \in Classes : Send(c)
  \/ Cut
  \/ Receive
  \/ Execute

Spec == Init /\ [][Next]_vars

-----------------------------------------------------------------------------
(* A unit arrives with the members it was sent with: what a class's        *)
(* SerializeToByteStream writes its ParseFromByteStream reads, nothing     *)
(* is left uninitialised, and the factory makes the class that was sent.   *)
DeliveredAsSent ==
  stage = "received" /\ ~ cut =>
    got = [class |-> unit.class, ok |-> TRUE, obj |-> unit.obj]

(* The buffer of ByteSize() bytes is filled to its last byte and not       *)
(* beyond it by SerializeToArray.                                          *)
BufferExact == stage = "wire" /\ ~ cut => Len(packet.body) = packet.size

(* ParseFromArray refuses a packet that ends before the last member, at    *)
(* whatever byte; no handler runs on a half-filled object.                 *)
ShortRefused == stage = "received" /\ cut => ~ got.ok

(* Replies of one session come in any order, from several threads.  A peer *)
(* finds the request a reply is for by the attach data it sent along or,   *)
(* in DBWriteResponse, which has none, by the request_id it chose.         *)
ReplyFound ==
  stage = "received" /\ got.ok /\ asked # None =>
    IF "attach_data" \in DOMAIN got.obj
    THEN got.obj.attach_data = asked.obj.attach_data
    ELSE "request_id" \in DOMAIN asked.obj => got.obj.request_id = asked.obj.request_id

(* What a member of a listed user, department, contact, file or group      *)
(* means, as a column of its table.                                        *)
Meaning(e) ==
  CASE "nick_name" \in DOMAIN e ->
         [user_id |-> "id", name |-> "uname", nick_name |-> "nickname", avatar_url |-> "avatar",
          title |-> "title", position |-> "position", role_status |-> "status", sex |-> "sex",
          depart_id |-> "departid", job_num |-> "jobnumber", telphone |-> "telphone",
          email |-> "mail"]
    [] "leader" \in DOMAIN e ->
         [depart_id |-> "id", title |-> "title", description |-> "desc",
          parent_depart_id |-> "pid", leader |-> "leader", status |-> "status"]
    [] "friend_user_id" \in DOMAIN e -> [friend_user_id |-> "friendUserId", updated |-> "updated"]
    [] "task_id" \in DOMAIN e ->
         [from_id |-> "userId", task_id |-> "taskId", file_name |-> "filePath",
          file_size |-> "fsize"]
    [] "group_id" \in DOMAIN e ->
         [group_id |-> "groupId", group_name |-> "groupName", group_avatar |-> "avatar",
          group_type |-> "groupType", group_creator_id |-> "createUserId",
          group_updated |-> "updated"]

FieldsOf(list) == {list[i] : i \in DOMAIN list}
Listed == UNION {FieldsOf(list) : list \in
            {UserInfo, DepartmentInfo, FriendInfo, OfflineFile, GroupInfo, GroupDialog}}

Unset(m) == Empty(CHOOSE f \in Listed : f.name = m)

Shown(o) ==
  UNION {{o[m][i] : i \in DOMAIN o[m]} :
           m \in {"user_info_list", "user", "depart_list", "friend_lists", "file_list",
                  "group_list"} \cap DOMAIN o}

(* Each member of what obj lists shows the column of row that it means.    *)
(* With a NULL in the row, or for a user that is not stored but valid to   *)
(* ValidateRequestHandler, a member shows its column or nothing.           *)
ShowsRow(class, obj, row) ==
  \A e \in Shown(obj) :
    \A m \in DOMAIN e \cap DOMAIN Meaning(e) :
      \/ e[m] = row.val[Meaning(e)[m]]
      \/ /\ row.null # {} \/ (class = "ValidateResponse" /\ e.user_id = 0)
         /\ e[m] = Unset(m)

(* ParseFromDatabase of the five managers: in the reply that is sent each  *)
(* member of what is listed shows the column it means and no other one.    *)
RowsShown ==
  stage = "wire" /\ asked # None /\ stored.val # <<>> =>
    ShowsRow(unit.class, unit.obj, stored)

(* validate_response.h: the user is there exactly if result is 0.          *)
UserIfValid ==
  stage = "received" /\ ~ cut /\ unit.class = "ValidateResponse" =>
    got.ok /\ (got.obj.result = 0) = (got.obj.user # <<>>)
=============================================================================
