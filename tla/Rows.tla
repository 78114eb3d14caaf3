-------------------------------- MODULE Rows --------------------------------
(***************************************************************************)
(* How rows of the database become members of replies: the user, login and *)
(* department managers, which do nothing else, and the lists of the group, *)
(* relationship and file managers.                                         *)
(*                                                                         *)
(* A SELECT names its columns by position, an enum gives the positions     *)
(* names, and ParseFromDatabase stores the columns in members; the three   *)
(* are written by hand, apart from each other.                             *)
(*                                                                         *)
(* A row gives its columns values; null is the set of those that have      *)
(* none.  A table has one row here: a loop treats every row alike.         *)
(***************************************************************************)
EXTENDS Pdu

(* The columns in the order of the SELECT, and the member each one is read *)
(* into, in the order of the enum; "none" is a column that nobody reads.   *)
UserSelect == <<"uname", "id", "status", "title", "departid", "sex", "jobnumber",
                "telphone", "mail", "position", "avatar", "nickname">>

(* Mutant: the enum has Mail before Telephone.                             *)
UserReadSwapped == <<"name", "user_id", "role_status", "title", "depart_id", "sex", "job_num",
                     "email", "telphone", "position", "avatar_url", "nick_name">>

UserRead == <<"name", "user_id", "role_status", "title", "depart_id", "sex", "job_num",
                "telphone", "email", "position", "avatar_url", "nick_name">>

DepartmentSelect == <<"id", "title", "leader", "pid", "status", "desc">>
DepartmentRead == <<"depart_id", "title", "leader", "parent_depart_id", "status",
                      "description">>

GroupSelect == <<"groupId", "groupName", "avatar", "createUserId", "groupType", "updated">>
GroupRead == <<"group_id", "group_name", "group_avatar", "group_creator_id", "group_type",
                 "group_updated">>

ContactSelect == <<"relateId", "friendUserId", "status", "created", "updated">>
ContactRead == <<"none", "friend_user_id", "none", "none", "updated">>

FileSelect == <<"id", "userId", "toUserId", "taskId", "filePath", "status", "created",
                "updated", "fsize">>
FileRead == <<"none", "from_id", "none", "task_id", "file_name", "none", "none", "none",
              "file_size">>

-----------------------------------------------------------------------------
(* new UserInfo() and the like: integers are 0, strings and lists empty.   *)
Empty(f) == IF f.kind = "word" THEN 0 ELSE <<>>

Blank(fields) ==
  [m \in {fields[i].name : i \in DOMAIN fields} |->
     Empty(fields[CHOOSE i \in DOMAIN fields : fields[i].name = m])]

(* Into the members of info, of which some units have fewer than others.   *)
ReadColumns(select, read, row, info, positions) ==
  [m \in DOMAIN info |->
     IF \E i \in positions : read[i] = m
     THEN row.val[select[CHOOSE i \in positions : read[i] = m]]
     ELSE info[m]]

(* DB_GET_RETURN_COLUMN leaves at the first column that cannot be read;    *)
(* the row is listed all the same.                                         *)
ParseFromDatabase(select, read, row, info) ==
  LET bad == {i \in DOMAIN read : read[i] # "none" /\ select[i] \in row.null}
  IN  ReadColumns(select, read, row, info, {i \in DOMAIN read : \A b \in bad : i < b})

(* GetUserFiles reads each column for itself.                              *)
GetColumns(select, read, row, info) ==
  ReadColumns(select, read, row, info, {i \in DOMAIN read : select[i] \notin row.null})

-----------------------------------------------------------------------------
(* The conditions of the SELECTs; NULL meets none.                         *)
Has(row, column, value) == column \notin row.null /\ row.val[column] = value

GetAllUserInfo(row, info) ==
  IF Has(row, "status", 0) THEN <<ParseFromDatabase(UserSelect, UserRead, row, info)>> ELSE <<>>

GetUserInfoByIds(ids, row, info) ==
  IF \E i \in DOMAIN ids : Has(row, "id", ids[i])
  THEN <<ParseFromDatabase(UserSelect, UserRead, row, info)>>
  ELSE <<>>

(* info stays as it was made if there is no such user.                     *)
GetUserInfoByName(name, row, info) ==
  IF Has(row, "uname", name) THEN ParseFromDatabase(UserSelect, UserRead, row, info) ELSE info

(* FALSE only for a user that is stored with another password.  A password *)
(* that is NULL leaves pwd empty.                                          *)
Auth(name, password, row) ==
  Has(row, "uname", name) => (IF "pwd" \in row.null THEN <<>> ELSE row.val.pwd) = password

GetDepartmentInfos(row, info) ==
  IF Has(row, "status", 0)
  THEN <<ParseFromDatabase(DepartmentSelect, DepartmentRead, row, info)>>
  ELSE <<>>

GetRecentContactByUserId(user, row, info) ==
  IF Has(row, "userId", user) /\ Has(row, "status", 0)
  THEN <<ParseFromDatabase(ContactSelect, ContactRead, row, info)>>
  ELSE <<>>

(* FileManager has the condition on the time.                              *)
GetUserFiles(user, row, info) ==
  IF Has(row, "toUserId", user) /\ Has(row, "status", 1)
  THEN <<GetColumns(FileSelect, FileRead, row, info)>>
  ELSE <<>>

(* member is the one user with a relation to the group; GroupManager has   *)
(* what several relations, and their changes, make of the lists.  The      *)
(* members are looked up by the group_id that was read.                    *)
GetGroups(user, fixed, row, info) ==
  IF Has(row, "member", user) /\ (fixed => Has(row, "groupType", 1))
  THEN LET group == ParseFromDatabase(GroupSelect, GroupRead, row, info)
       IN  <<[group EXCEPT !.group_memeber_list =
                IF Has(row, "groupId", group.group_id) THEN <<row.val.member>> ELSE <<>>]>>
  ELSE <<>>
=============================================================================
