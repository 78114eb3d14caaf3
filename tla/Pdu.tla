-------------------------------- MODULE Pdu --------------------------------
(***************************************************************************)
(* The protocol data units of proto/: for every class what ByteSize counts,*)
(* what SerializeToByteStream writes and what ParseFromByteStream reads,   *)
(* and the three base class methods over them.  Each class writes its code *)
(* by hand three times, and nothing but care keeps the three in step.      *)
(*                                                                         *)
(* An object is a function from the names of its members to their values:  *)
(* a number for an integer, a sequence of bytes for a string, a sequence   *)
(* for a container, a sequence of length at most 1 for a pointer.          *)
(***************************************************************************)
EXTENDS Integers, Sequences, SequencesExt

(* Members, by their types.                                                *)
Word(n, w)    == [name |-> n, kind |-> "word", width |-> w]
U8(n)         == Word(n, 1)
U16(n)        == Word(n, 2)
U32(n)        == Word(n, 4)
Str(n)        == [name |-> n, kind |-> "string"]
U32s(n)       == [name |-> n, kind |-> "u32s"]           \* vector<uint32>
List(n, of)   == [name |-> n, kind |-> "list", of |-> of] \* vector<struct*>
(* A pointer that is there, for the code, when result is 0, or is not 0.   *)
Option(n, of, zero) == [name |-> n, kind |-> "option", of |-> of, zero |-> zero]

(* A class: its members in the order of each of the three methods, and     *)
(* whether attach data follows (kAttachDataTypeDB).                        *)
DB(fields)   == [size |-> fields, write |-> fields, read |-> fields, attach |-> TRUE]
Bare(fields) == [DB(fields) EXCEPT !.attach = FALSE]

-----------------------------------------------------------------------------
(* What is in every list.                                                  *)
Profile == <<Str("nick_name"), Str("avatar_url"), Str("title"), Str("position"),
             U32("role_status"), U32("sex"), U32("depart_id"), U32("job_num"),
             Str("telphone"), Str("email")>>
UserInfo       == <<U32("user_id"), Str("name")>> \o Profile
UserInfoNoName == <<U32("user_id")>> \o Profile
DepartmentInfo == <<U32("depart_id"), Str("title"), Str("description"),
                    U32("parent_depart_id"), U32("leader"), U32("status")>>
OfflineFile    == <<U32("from_id"), Str("task_id"), Str("file_name"), U32("file_size")>>
FriendInfo     == <<U32("friend_user_id"), U32("updated")>>
GroupInfo      == <<U32("group_id"), Str("group_name"), Str("group_avatar"),
                    U32("group_type"), U32("group_creator_id"), U32s("group_memeber_list")>>
GroupDialog    == <<U32("group_id"), Str("group_name"), Str("group_avatar"),
                    U32("group_type"), U32("group_creator_id"), U32("group_updated"),
                    U32s("group_memeber_list")>>
GroupMsg       == <<U32("from_user_id"), U32("create_time"), Str("msg_content")>>
GroupUnreadMsgCount == <<U32("group_id"), U32("unread_msg_count")>>
UserUnreadMsgCount  == <<U32("from_user_id"), U32("unread_msg_count")>>
ServerMsg      == <<U32("from_user_id"), Str("from_name"), Str("from_nick_name"),
                    Str("from_avatar_url"), U32("create_time"), U8("msg_type"),
                    Str("msg_data")>>

-----------------------------------------------------------------------------
(* The classes.                                                            *)
AllUserRequest     == DB(<<U32("req_user_id")>>)
AllUserResponse    == DB(<<U32("from_user_id"), List("user_info_list", UserInfo)>>)
DBQueryRequest     == DB(<<U32("seq_no"), U32("user_id"), Str("query_data")>>)
DBQueryResponse    == DB(<<U32("seq_no"), U32("user_id"), Str("result_data")>>)
DBWriteResponse    == Bare(<<U32("request_id"), U32("result"), U16("request_pdu_type"),
                             U32("from_id"), U32("to_id")>>)
DepartmentRequest  == DB(<<U32("req_user_id")>>)
DepartmentResponse == DB(<<U32("req_user_id"), List("depart_list", DepartmentInfo)>>)
FileAddOfflineReq  == DB(<<U32("req_user_id"), U32("from_id"), U32("to_id"),
                           Str("task_id"), Str("file_name"), U32("file_size")>>)
FileDelOfflineReq  == DB(<<U32("req_user_id"), U32("from_id"), U32("to_id"), Str("task_id")>>)
FileHasOfflineReq  == DB(<<U32("user_id")>>)
FileHasOfflineRes  == DB(<<U32("req_user_id"), List("file_list", OfflineFile)>>)
FriendListRequest  == DB(<<U32("user_id")>>)
FriendListResponse == DB(<<U32("from_user_id"), List("friend_lists", FriendInfo)>>)
GroupChangeMemberNotify == Bare(<<U32("group_id"), U32s("user_list")>>)

(* ParseFromByteStream reads the change type into req_user_id_.            *)
GroupChangeMemberRequest ==
  [DB(<<U32("change_type"), U32("req_user_id"), U32("group_id"), U32s("user_list")>>)
     EXCEPT !.read = <<U32("req_user_id"), U32("req_user_id"), U32("group_id"),
                       U32s("user_list")>>]

GroupChangeMemberResponse == DB(<<U32("req_user_id"), U32("result"), U32("group_id"),
                                  U32("change_type"), U32s("user_list")>>)
GroupCreateNormalGroupNotify == Bare(<<U32("group_id"), Str("group_name"),
                                       Str("avatar_name"), U32s("user_list")>>)
GroupCreateTmpGroupRequest   == DB(<<U32("req_user_id"), Str("group_name"),
                                     Str("group_avatar"), U32s("user_list")>>)
GroupCreateTmpGroupResponse  == DB(<<U32("req_user_id"), U32("result"), U32("group_id"),
                                     Str("group_name"), U32s("user_list")>>)
GroupDialogListRequest  == DB(<<U32("user_id")>>)
GroupDialogListResponse == DB(<<U32("req_user_id"), List("group_list", GroupDialog)>>)
GroupHistoryMsgRequest  == DB(<<U32("req_user_id"), U32("group_id"), U32("msg_offset"),
                                U32("msg_count")>>)
GroupListRequest     == DB(<<U32("user_id")>>)
GroupListResponse    == DB(<<U32("req_user_id"), List("group_list", GroupInfo)>>)
GroupMsgListResponse == DB(<<U32("req_user_id"), U32("request_cmd_id"), U32("group_id"),
                             List("msg_list", GroupMsg)>>)
GroupMsgReadAck      == Bare(<<U32("req_user_id"), U32("group_id"), U32("client_type")>>)
GroupUnreadMsgCountRequest  == DB(<<U32("req_user_id"), U32("client_type")>>)
GroupUnreadMsgCountResponse == DB(<<U32("req_user_id"),
                                    List("group_unread_list", GroupUnreadMsgCount)>>)
GroupUnreadMsgRequest == DB(<<U32("req_user_id"), U32("group_id"), U32("client_type")>>)
GroupUserListRequest  == DB(<<U32("req_user_id"), U32("group_id")>>)

(* Mutant: the type and the creator are read in the order they are         *)
(* declared in, which is not the order they are written in.                *)
GroupUserListResponseSwapped ==
  LET before == <<U32("req_user_id"), U32("group_id"), U32("result"), Str("group_name"),
                  Str("group_avatar")>>
  IN [DB(before \o <<U32("group_type"), U32("group_creator_id"), U32s("user_list")>>)
        EXCEPT !.read = before \o <<U32("group_creator_id"), U32("group_type"),
                                    U32s("user_list")>>]

GroupUserListResponse == DB(<<U32("req_user_id"), U32("group_id"), U32("result"),
                              Str("group_name"), Str("group_avatar"), U32("group_type"),
                              U32("group_creator_id"), U32s("user_list")>>)
HistoryMsgRequest == DB(<<U32("from_user_id"), U32("to_user_id"), U32("msg_offset"),
                          U32("msg_count")>>)

(* Mutant: ByteSize counts the type of the message as a uint32.            *)
MsgDataOversized ==
  LET ids == <<U32("request_id"), U32("from_user_id"), U32("to_user_id"), U32("create_time")>>
  IN [DB(ids \o <<U8("msg_type"), Str("msg_data")>>)
        EXCEPT !.size = ids \o <<U32("msg_type"), Str("msg_data")>>]

MsgData           == DB(<<U32("request_id"), U32("from_user_id"), U32("to_user_id"),
                          U32("create_time"), U8("msg_type"), Str("msg_data")>>)
MsgListResponse   == DB(<<U32("request_cmd_id"), U32("from_user_id"), U32("to_user_id"),
                          List("msg_list", ServerMsg)>>)
MsgReadAck        == Bare(<<U32("request_id"), U32("from_user_id"), U32("to_user_id"),
                            U32("client_type")>>)
RemoveSessionRequest   == DB(<<U32("req_user_id"), U32("session_id"), U32("session_type")>>)
RemoveSessionResponse  == DB(<<U32("req_user_id"), U32("result"), U32("session_id"),
                               U32("session_type")>>)
StopReceivePacket      == Bare(<<U32("code")>>)
UnreadMsgCountRequest  == DB(<<U32("user_id"), U32("client_type")>>)
UnreadMsgCountResponse == DB(<<U32("to_user_id"),
                               List("user_unread_list", UserUnreadMsgCount)>>)
UnreadMsgRequest  == DB(<<U32("from_user_id"), U32("to_user_id"), U32("client_type")>>)
UserActionLog     == Bare(<<U32("source"), U32("protocol"), Str("ip"), U32("user_id"),
                            U32("action_type"), Str("os_type"), Str("user_agent"),
                            Str("flash_ver"), Str("client_ver")>>)
UsersInfoRequest  == DB(<<U32("from_user_id"), U32s("user_id_list")>>)
UsersInfoResponse == DB(<<U32("from_user_id"), List("user_info_list", UserInfo)>>)
ValidateRequest   == DB(<<Str("user_name"), Str("password")>>)

(* The user is written when result is 0 and read when it is not.           *)
ValidateResponse ==
  [DB(<<Str("user_name"), U32("result"), Option("user", UserInfoNoName, TRUE)>>)
     EXCEPT !.read = <<Str("user_name"), U32("result"),
                       Option("user", UserInfoNoName, FALSE)>>]

Layout ==
  [AllUserRequest |-> AllUserRequest, AllUserResponse |-> AllUserResponse,
   DBQueryRequest |-> DBQueryRequest, DBQueryResponse |-> DBQueryResponse,
   DBWriteResponse |-> DBWriteResponse, DepartmentRequest |-> DepartmentRequest,
   DepartmentResponse |-> DepartmentResponse, FileAddOfflineReq |-> FileAddOfflineReq,
   FileDelOfflineReq |-> FileDelOfflineReq, FileHasOfflineReq |-> FileHasOfflineReq,
   FileHasOfflineRes |-> FileHasOfflineRes, FriendListRequest |-> FriendListRequest,
   FriendListResponse |-> FriendListResponse,
   GroupChangeMemberNotify |-> GroupChangeMemberNotify,
   GroupChangeMemberRequest |-> GroupChangeMemberRequest,
   GroupChangeMemberResponse |-> GroupChangeMemberResponse,
   GroupCreateNormalGroupNotify |-> GroupCreateNormalGroupNotify,
   GroupCreateTmpGroupRequest |-> GroupCreateTmpGroupRequest,
   GroupCreateTmpGroupResponse |-> GroupCreateTmpGroupResponse,
   GroupDialogListRequest |-> GroupDialogListRequest,
   GroupDialogListResponse |-> GroupDialogListResponse,
   GroupHistoryMsgRequest |-> GroupHistoryMsgRequest, GroupListRequest |-> GroupListRequest,
   GroupListResponse |-> GroupListResponse, GroupMsgListResponse |-> GroupMsgListResponse,
   GroupMsgReadAck |-> GroupMsgReadAck,
   GroupUnreadMsgCountRequest |-> GroupUnreadMsgCountRequest,
   GroupUnreadMsgCountResponse |-> GroupUnreadMsgCountResponse,
   GroupUnreadMsgRequest |-> GroupUnreadMsgRequest,
   GroupUserListRequest |-> GroupUserListRequest,
   GroupUserListResponse |-> GroupUserListResponse, HistoryMsgRequest |-> HistoryMsgRequest,
   MsgData |-> MsgData, MsgListResponse |-> MsgListResponse, MsgReadAck |-> MsgReadAck,
   RemoveSessionRequest |-> RemoveSessionRequest,
   RemoveSessionResponse |-> RemoveSessionResponse, StopReceivePacket |-> StopReceivePacket,
   UnreadMsgCountRequest |-> UnreadMsgCountRequest,
   UnreadMsgCountResponse |-> UnreadMsgCountResponse, UnreadMsgRequest |-> UnreadMsgRequest,
   UserActionLog |-> UserActionLog, UsersInfoRequest |-> UsersInfoRequest,
   UsersInfoResponse |-> UsersInfoResponse, ValidateRequest |-> ValidateRequest,
   ValidateResponse |-> ValidateResponse]

PduClasses == DOMAIN Layout

-----------------------------------------------------------------------------
(* ByteSize, which sizes the buffer a packet is written into.              *)
Total(numbers) == FoldSeq(LAMBDA x, y : x + y, 0, numbers)

SizeOf(f, v) ==
  CASE f.kind = "word"   -> f.width
    [] f.kind = "string" -> 4 + Len(v)                 \* SIZEOF_STRING
    [] f.kind = "u32s"   -> 4 + 4 * Len(v)             \* CalculateContainerByteSize

SizeOfObject(fields, o) ==
  Total([i \in DOMAIN fields |-> SizeOf(fields[i], o[fields[i].name])])

SizeOfMember(f, o) ==
  LET v == o[f.name]
      sum == Total([i \in DOMAIN v |-> SizeOfObject(f.of, v[i])])
  IN CASE f.kind = "list"   -> 4 + sum                 \* CalculateContainerByteSize2
       [] f.kind = "option" -> sum
       [] OTHER             -> SizeOf(f, v)

ByteSize(L, o) ==
  Total([i \in DOMAIN L.size |-> SizeOfMember(L.size[i], o)])
    + IF L.attach THEN 4 + Len(o.attach_data) ELSE 0

-----------------------------------------------------------------------------
(* SerializeToArray.                                                       *)
WriteWord(v, w) == [i \in 1 .. w |-> (v \div 256 ^ (w - i)) % 256]
WriteString(s)  == WriteWord(Len(s), 4) \o s
WriteArray(seqs) == WriteWord(Len(seqs), 4) \o FlattenSeq(seqs)

Write(f, v) ==
  CASE f.kind = "word"   -> WriteWord(v, f.width)
    [] f.kind = "string" -> WriteString(v)
    [] f.kind = "u32s"   -> WriteArray([i \in DOMAIN v |-> WriteWord(v[i], 4)])

WriteObject(fields, o) ==
  FlattenSeq([i \in DOMAIN fields |-> Write(fields[i], o[fields[i].name])])

WriteMember(f, o) ==
  LET v == o[f.name]
  IN CASE f.kind = "list"   -> WriteArray([i \in DOMAIN v |-> WriteObject(f.of, v[i])])
       [] f.kind = "option" -> IF (o.result = 0) = f.zero THEN WriteObject(f.of, v[1]) ELSE <<>>
       [] OTHER             -> Write(f, v)

SerializeToArray(L, o) ==
  FlattenSeq([i \in DOMAIN L.write |-> WriteMember(L.write[i], o)])
    \o IF L.attach THEN WriteString(o.attach_data) ELSE <<>>

-----------------------------------------------------------------------------
(* ParseFromArray.  A stream is the bytes left and whether all reads so    *)
(* far succeeded (Fail); a read adds the value v that was read.            *)
Failed(is)  == [is EXCEPT !.ok = FALSE]
Read(is, n) == [in |-> SubSeq(is.in, n + 1, Len(is.in)), ok |-> TRUE, v |-> SubSeq(is.in, 1, n)]

ReadBytes(is, n) == IF is.ok /\ n <= Len(is.in) THEN Read(is, n) ELSE Failed(is)
ReadWord(is, w)  ==
  LET r == ReadBytes(is, w)
  IN IF r.ok THEN [r EXCEPT !.v = FoldLeft(LAMBDA n, byte : 256 * n + byte, 0, @)] ELSE r
ReadString(is)   == LET n == ReadWord(is, 4) IN IF n.ok THEN ReadBytes(n, n.v) ELSE n

(* As many elements as the size that comes first says; more than there are *)
(* bytes left make the stream fail before the last one.                    *)
ReadArray(is, ReadOne(_)) ==
  LET n    == ReadWord(is, 4)
      next(r, i) == LET e == ReadOne(r)
                    IN IF e.ok THEN [e EXCEPT !.v = Append(r.v, @)] ELSE Failed(r)
  IN IF ~ n.ok \/ n.v > Len(n.in) THEN Failed(is)
     ELSE FoldLeft(next, [n EXCEPT !.v = <<>>], [i \in 1 .. n.v |-> i])

ReadValue(f, is) ==
  CASE f.kind = "word"   -> ReadWord(is, f.width)
    [] f.kind = "string" -> ReadString(is)
    [] f.kind = "u32s"   -> ReadArray(is, LAMBDA r : ReadWord(r, 4))

(* A reader is a stream whose v is the object being filled.                *)
Into(r, name, e) == IF e.ok THEN [e EXCEPT !.v = (name :> e.v) @@ r.v] ELSE Failed(r)

ReadObject(fields, is) ==
  FoldLeft(LAMBDA r, f : Into(r, f.name, ReadValue(f, r)), [is EXCEPT !.v = <<>>], fields)

ReadMember(r, f) ==
  CASE f.kind = "list"   -> Into(r, f.name, ReadArray(r, LAMBDA is : ReadObject(f.of, is)))
    [] f.kind = "option" ->
         IF r.ok /\ (r.v.result = 0) = f.zero
         THEN LET e == ReadObject(f.of, r)
              IN Into(r, f.name, IF e.ok THEN [e EXCEPT !.v = <<@>>] ELSE e)
         ELSE r
    [] OTHER             -> Into(r, f.name, ReadValue(f, r))

Members(L) ==
  {L.write[i].name : i \in DOMAIN L.write} \cup (IF L.attach THEN {"attach_data"} ELSE {})

(* A new object: its integers are not initialised.                         *)
New(L, garbage) ==
  [name \in Members(L) |->
     IF \E i \in DOMAIN L.write : L.write[i].name = name /\ L.write[i].kind = "word"
     THEN garbage ELSE <<>>]

(* Mutant: nobody looks whether the attach data could be read.             *)
ParseFromArrayUnchecked(L, o, data) ==
  LET r == FoldLeft(ReadMember, [in |-> data, ok |-> TRUE, v |-> o], L.read)
  IN IF r.ok /\ L.attach /\ ReadString(r).ok THEN Into(r, "attach_data", ReadString(r)) ELSE r

(* The object o after the parse of data, and whether it succeeded.  Bytes  *)
(* that are left over are ignored.                                         *)
ParseFromArray(L, o, data) ==
  LET r == FoldLeft(ReadMember, [in |-> data, ok |-> TRUE, v |-> o], L.read)
  IN IF r.ok /\ L.attach THEN Into(r, "attach_data", ReadString(r)) ELSE r
=============================================================================
