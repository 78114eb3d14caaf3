--------------------------- MODULE ExchangeProofs ---------------------------
(***************************************************************************)
(* A theorem about Exchange: what the rows of the database become in the   *)
(* replies.  The lemmas hold for every row, whatever its columns hold and  *)
(* whichever of them are NULL, and for every request.                      *)
(***************************************************************************)
EXTENDS Exchange, SequenceTheorems, TLAPS

(* The members that are integers, in all that is listed.                   *)
WordNames ==
  {"user_id", "role_status", "sex", "depart_id", "job_num", "parent_depart_id", "leader",
   "status", "from_id", "file_size", "friend_user_id", "updated", "group_id", "group_type",
   "group_creator_id", "group_updated"}
Nothing(m) == IF m \in WordNames THEN 0 ELSE <<>>

(* What the members of users, departments, contacts, files and groups mean.*)
UserMeaning ==
  [user_id |-> "id", name |-> "uname", nick_name |-> "nickname", avatar_url |-> "avatar",
   title |-> "title", position |-> "position", role_status |-> "status", sex |-> "sex",
   depart_id |-> "departid", job_num |-> "jobnumber", telphone |-> "telphone",
   email |-> "mail"]
DepartmentMeaning ==
  [depart_id |-> "id", title |-> "title", description |-> "desc",
   parent_depart_id |-> "pid", leader |-> "leader", status |-> "status"]
ContactMeaning == [friend_user_id |-> "friendUserId", updated |-> "updated"]
FileMeaning ==
  [from_id |-> "userId", task_id |-> "taskId", file_name |-> "filePath", file_size |-> "fsize"]
GroupMeaning ==
  [group_id |-> "groupId", group_name |-> "groupName", group_avatar |-> "avatar",
   group_type |-> "groupType", group_creator_id |-> "createUserId",
   group_updated |-> "updated"]

-----------------------------------------------------------------------------
(* What is listed, member by member.                                       *)

LEMMA UserFields ==
  UserInfo = <<U32("user_id"), Str("name"), Str("nick_name"), Str("avatar_url"), Str("title"),
               Str("position"), U32("role_status"), U32("sex"), U32("depart_id"),
               U32("job_num"), Str("telphone"), Str("email")>>
  <1> DEFINE S == {Profile[i] : i \in 1 .. 10} \cup {U32("user_id"), Str("name")}
             head == <<U32("user_id"), Str("name")>>
  <1>1. Profile \in Seq(S) /\ Len(Profile) = 10 /\ head \in Seq(S) /\ Len(head) = 2
    BY DEF Profile
  <1>2. UserInfo = head \o Profile
    BY DEF UserInfo
  <1> HIDE DEF S, head
  <1>3. /\ UserInfo \in Seq(S) /\ Len(UserInfo) = 12
        /\ \A i \in 1 .. 12 : UserInfo[i] = IF i <= 2 THEN head[i] ELSE Profile[i - 2]
    <2> DEFINE all == head \o Profile
    <2>1. /\ all \in Seq(S) /\ Len(all) = Len(head) + Len(Profile)
          /\ \A i \in 1 .. Len(head) + Len(Profile) :
               all[i] = IF i <= Len(head) THEN head[i] ELSE Profile[i - Len(head)]
      BY <1>1, ConcatProperties, Zenon
    <2>2. UserInfo = all
      BY <1>2
    <2> HIDE DEF all
    <2>3. /\ all \in Seq(S) /\ Len(all) = 12
          /\ \A i \in 1 .. 12 : all[i] = IF i <= 2 THEN head[i] ELSE Profile[i - 2]
      BY <1>1, <2>1
    <2> QED BY <2>2, <2>3
  <1>4. DOMAIN UserInfo = 1 .. 12 /\ UserInfo = [i \in 1 .. 12 |-> UserInfo[i]]
    BY <1>3, LenProperties
  <1> QED BY <1>3, <1>4 DEF Profile, head

LEMMA UserNoNameFields ==
  UserInfoNoName =
    <<U32("user_id"), Str("nick_name"), Str("avatar_url"), Str("title"),
      Str("position"), U32("role_status"), U32("sex"), U32("depart_id"),
      U32("job_num"), Str("telphone"), Str("email")>>
  <1> DEFINE S == {Profile[i] : i \in 1 .. 10} \cup {U32("user_id")}
             head == <<U32("user_id")>>
  <1>1. Profile \in Seq(S) /\ Len(Profile) = 10 /\ head \in Seq(S) /\ Len(head) = 1
    BY DEF Profile
  <1>2. UserInfoNoName = head \o Profile
    BY DEF UserInfoNoName
  <1> HIDE DEF S, head
  <1>3. /\ UserInfoNoName \in Seq(S) /\ Len(UserInfoNoName) = 11
        /\ \A i \in 1 .. 11 : UserInfoNoName[i] = IF i <= 1 THEN head[i] ELSE Profile[i - 1]
    <2> DEFINE all == head \o Profile
    <2>1. /\ all \in Seq(S) /\ Len(all) = Len(head) + Len(Profile)
          /\ \A i \in 1 .. Len(head) + Len(Profile) :
               all[i] = IF i <= Len(head) THEN head[i] ELSE Profile[i - Len(head)]
      BY <1>1, ConcatProperties, Zenon
    <2>2. UserInfoNoName = all
      BY <1>2
    <2> HIDE DEF all
    <2>3. /\ all \in Seq(S) /\ Len(all) = 11
          /\ \A i \in 1 .. 11 : all[i] = IF i <= 1 THEN head[i] ELSE Profile[i - 1]
      BY <1>1, <2>1
    <2> QED BY <2>2, <2>3
  <1>4. /\ DOMAIN UserInfoNoName = 1 .. 11
        /\ UserInfoNoName = [i \in 1 .. 11 |-> UserInfoNoName[i]]
    BY <1>3, LenProperties
  <1> QED BY <1>3, <1>4 DEF Profile, head

(* A blank object has the members of its fields, with nothing in them.     *)
BlankOf(names) == [m \in names |-> Nothing(m)]

LEMMA BlankMade ==
  ASSUME NEW list, NEW names, {list[i].name : i \in DOMAIN list} = names,
         \A f \in FieldsOf(list) : Empty(f) = Nothing(f.name)
  PROVE  Blank(list) = BlankOf(names)
  BY DEF Blank, BlankOf, FieldsOf

GroupNames == (DOMAIN GroupMeaning \ {"group_updated"}) \cup {"group_memeber_list"}
DialogNames == DOMAIN GroupMeaning \cup {"group_memeber_list"}

(* Fields of one name have one type, in whatever list they are.            *)
LEMMA FieldsEmpty ==
  \A list \in {UserInfo, UserInfoNoName, DepartmentInfo, FriendInfo, OfflineFile, GroupInfo,
               GroupDialog} :
    \A f \in FieldsOf(list) : Empty(f) = Nothing(f.name)
  <1> USE DEF FieldsOf, Empty, Nothing, WordNames, U32, Word, Str, U32s
  <1>1. \A f \in FieldsOf(UserInfo) : Empty(f) = Nothing(f.name)
    BY UserFields
  <1>2. \A f \in FieldsOf(UserInfoNoName) : Empty(f) = Nothing(f.name)
    BY UserNoNameFields
  <1>3. \A f \in FieldsOf(DepartmentInfo) : Empty(f) = Nothing(f.name)
    BY DEF DepartmentInfo
  <1>4. \A f \in FieldsOf(FriendInfo) : Empty(f) = Nothing(f.name)
    BY DEF FriendInfo
  <1>5. \A f \in FieldsOf(OfflineFile) : Empty(f) = Nothing(f.name)
    BY DEF OfflineFile
  <1>6. \A f \in FieldsOf(GroupInfo) : Empty(f) = Nothing(f.name)
    BY DEF GroupInfo
  <1>7. \A f \in FieldsOf(GroupDialog) : Empty(f) = Nothing(f.name)
    BY DEF GroupDialog
  <1> HIDE DEF FieldsOf, Empty, Nothing, WordNames, U32, Word, Str, U32s
  <1> QED BY <1>1, <1>2, <1>3, <1>4, <1>5, <1>6, <1>7

LEMMA Blanks ==
  /\ Blank(UserInfo) = BlankOf(DOMAIN UserMeaning)
  /\ Blank(UserInfoNoName) = BlankOf(DOMAIN UserMeaning \ {"name"})
  /\ Blank(DepartmentInfo) = BlankOf(DOMAIN DepartmentMeaning)
  /\ Blank(FriendInfo) = BlankOf(DOMAIN ContactMeaning)
  /\ Blank(OfflineFile) = BlankOf(DOMAIN FileMeaning)
  /\ Blank(GroupInfo) = BlankOf(GroupNames)
  /\ Blank(GroupDialog) = BlankOf(DialogNames)
  <1> USE DEF U32, Word, Str, U32s
  <1>1. {UserInfo[i].name : i \in DOMAIN UserInfo} = DOMAIN UserMeaning
    BY UserFields DEF UserMeaning
  <1>2. {UserInfoNoName[i].name : i \in DOMAIN UserInfoNoName} = DOMAIN UserMeaning \ {"name"}
    BY UserNoNameFields DEF UserMeaning
  <1>3. {DepartmentInfo[i].name : i \in DOMAIN DepartmentInfo} = DOMAIN DepartmentMeaning
    BY DEF DepartmentInfo, DepartmentMeaning
  <1>4. {FriendInfo[i].name : i \in DOMAIN FriendInfo} = DOMAIN ContactMeaning
    BY DEF FriendInfo, ContactMeaning
  <1>5. {OfflineFile[i].name : i \in DOMAIN OfflineFile} = DOMAIN FileMeaning
    BY DEF OfflineFile, FileMeaning
  <1>6. {GroupInfo[i].name : i \in DOMAIN GroupInfo} = GroupNames
    BY DEF GroupInfo, GroupMeaning, GroupNames
  <1>7. {GroupDialog[i].name : i \in DOMAIN GroupDialog} = DialogNames
    BY DEF GroupDialog, GroupMeaning, DialogNames
  <1> HIDE DEF U32, Word, Str, U32s
  <1> QED BY <1>1, <1>2, <1>3, <1>4, <1>5, <1>6, <1>7, FieldsEmpty, BlankMade

(* What a member shows when it shows no column.                            *)
LEMMA UnsetIsNothing ==
  ASSUME NEW list \in {UserInfo, DepartmentInfo, FriendInfo, OfflineFile, GroupInfo, GroupDialog},
         NEW m \in {list[i].name : i \in DOMAIN list}
  PROVE  Unset(m) = Nothing(m)
  <1>1. \E f \in Listed : f.name = m
    BY DEF Listed, FieldsOf
  <1>2. \A f \in Listed : Empty(f) = Nothing(f.name)
    BY FieldsEmpty DEF Listed
  <1> QED BY <1>1, <1>2 DEF Unset

-----------------------------------------------------------------------------
(* Each column that means a member is read into it and no other one is.    *)
Matches(select, read, meaning) ==
  \A m \in DOMAIN meaning : \E k \in DOMAIN read :
    /\ read[k] = m /\ select[k] = meaning[m]
    /\ \A i \in DOMAIN read : read[i] = m => i = k

LEMMA AllMatch ==
  /\ Matches(UserSelect, UserRead, UserMeaning)
  /\ Matches(DepartmentSelect, DepartmentRead, DepartmentMeaning)
  /\ Matches(ContactSelect, ContactRead, ContactMeaning)
  /\ Matches(FileSelect, FileRead, FileMeaning)
  /\ Matches(GroupSelect, GroupRead, GroupMeaning)
  <1>1. Matches(UserSelect, UserRead, UserMeaning)
    <2>1. DOMAIN UserRead = 1 .. 12
      BY DEF UserRead
    <2>2. \A m \in DOMAIN UserMeaning : \E k \in 1 .. 12 :
            UserRead[k] = m /\ UserSelect[k] = UserMeaning[m]
      BY DEF UserMeaning, UserRead, UserSelect
    <2>3. \A i, k \in 1 .. 12 : UserRead[i] = UserRead[k] => i = k
      BY DEF UserRead
    <2> QED BY <2>1, <2>2, <2>3 DEF Matches
  <1>2. Matches(DepartmentSelect, DepartmentRead, DepartmentMeaning)
    BY DEF Matches, DepartmentSelect, DepartmentRead, DepartmentMeaning
  <1>3. Matches(ContactSelect, ContactRead, ContactMeaning)
    <2>1. DOMAIN ContactRead = 1 .. 5
      BY DEF ContactRead
    <2>2. \A m \in DOMAIN ContactMeaning : m # "none" /\ \E k \in 1 .. 5 :
            ContactRead[k] = m /\ ContactSelect[k] = ContactMeaning[m]
      BY DEF ContactMeaning, ContactRead, ContactSelect
    <2>3. \A i, k \in 1 .. 5 : ContactRead[i] = ContactRead[k] => i = k \/ ContactRead[k] = "none"
      BY DEF ContactRead
    <2> QED BY <2>1, <2>2, <2>3 DEF Matches
  <1>4. Matches(FileSelect, FileRead, FileMeaning)
    <2>1. DOMAIN FileRead = 1 .. 9
      BY DEF FileRead
    <2>2. \A m \in DOMAIN FileMeaning : m # "none" /\ \E k \in 1 .. 9 :
            FileRead[k] = m /\ FileSelect[k] = FileMeaning[m]
      BY DEF FileMeaning, FileRead, FileSelect
    <2>3. \A i, k \in 1 .. 9 : FileRead[i] = FileRead[k] => i = k \/ FileRead[k] = "none"
      BY DEF FileRead
    <2> QED BY <2>1, <2>2, <2>3 DEF Matches
  <1>5. Matches(GroupSelect, GroupRead, GroupMeaning)
    BY DEF Matches, GroupSelect, GroupRead, GroupMeaning
  <1> QED BY <1>1, <1>2, <1>3, <1>4, <1>5

(* A member shows its column or, with a NULL in the row, what it held.     *)
Parsed(e, info, row, meaning) ==
  /\ DOMAIN e = DOMAIN info
  /\ \A m \in DOMAIN e \cap DOMAIN meaning :
       e[m] = row.val[meaning[m]] \/ (row.null # {} /\ e[m] = info[m])

LEMMA ColumnsRead ==
  ASSUME NEW select, NEW read, NEW meaning, Matches(select, read, meaning),
         NEW row, NEW info, NEW positions \in SUBSET DOMAIN read,
         row.null = {} => positions = DOMAIN read
  PROVE  Parsed(ReadColumns(select, read, row, info, positions), info, row, meaning)
  <1> DEFINE e == ReadColumns(select, read, row, info, positions)
  <1>1. DOMAIN e = DOMAIN info
    BY DEF ReadColumns
  <1>2. ASSUME NEW m \in DOMAIN e \cap DOMAIN meaning
        PROVE  e[m] = row.val[meaning[m]] \/ (row.null # {} /\ e[m] = info[m])
    <2>1. PICK k \in DOMAIN read : /\ read[k] = m /\ select[k] = meaning[m]
                                   /\ \A i \in DOMAIN read : read[i] = m => i = k
      BY <1>2 DEF Matches
    <2>2. e[m] = IF \E i \in positions : read[i] = m
                 THEN row.val[select[CHOOSE i \in positions : read[i] = m]]
                 ELSE info[m]
      BY <1>1, <1>2 DEF ReadColumns
    <2> HIDE DEF e
    <2>3. CASE k \in positions
      <3>1. (CHOOSE i \in positions : read[i] = m) = k
        BY <2>1, <2>3
      <3> QED BY <2>1, <2>2, <2>3, <3>1
    <2>4. CASE k \notin positions
      <3>1. ~ \E i \in positions : read[i] = m
        BY <2>1, <2>4
      <3> QED BY <2>1, <2>2, <2>4, <3>1
    <2> QED BY <2>3, <2>4
  <1> QED BY <1>1, <1>2 DEF Parsed

LEMMA RowParsed ==
  ASSUME NEW select, NEW read, NEW meaning, Matches(select, read, meaning), NEW row, NEW info
  PROVE  /\ Parsed(ParseFromDatabase(select, read, row, info), info, row, meaning)
         /\ Parsed(GetColumns(select, read, row, info), info, row, meaning)
  <1>1. Parsed(ParseFromDatabase(select, read, row, info), info, row, meaning)
    <2> DEFINE bad == {i \in DOMAIN read : read[i] # "none" /\ select[i] \in row.null}
               before == {i \in DOMAIN read : \A b \in bad : i < b}
    <2>1. row.null = {} => before = DOMAIN read
      OBVIOUS
    <2>2. Parsed(ReadColumns(select, read, row, info, before), info, row, meaning)
      BY <2>1, ColumnsRead
    <2> QED BY <2>2 DEF ParseFromDatabase
  <1>2. Parsed(GetColumns(select, read, row, info), info, row, meaning)
    <2> DEFINE whole == {i \in DOMAIN read : select[i] \notin row.null}
    <2>1. row.null = {} => whole = DOMAIN read
      OBVIOUS
    <2>2. Parsed(ReadColumns(select, read, row, info, whole), info, row, meaning)
      BY <2>1, ColumnsRead
    <2> QED BY <2>2 DEF GetColumns
  <1> QED BY <1>1, <1>2

-----------------------------------------------------------------------------
(* What Meaning takes an object of each kind for.                          *)
LEMMA MeaningOf ==
  ASSUME NEW e
  PROVE  /\ DOMAIN e \in {DOMAIN UserMeaning, DOMAIN UserMeaning \ {"name"}}
              => Meaning(e) = UserMeaning
         /\ DOMAIN e = DOMAIN DepartmentMeaning => Meaning(e) = DepartmentMeaning
         /\ DOMAIN e = DOMAIN ContactMeaning => Meaning(e) = ContactMeaning
         /\ DOMAIN e = DOMAIN FileMeaning => Meaning(e) = FileMeaning
         /\ DOMAIN e \in {GroupNames, DialogNames} => Meaning(e) = GroupMeaning
  BY DEF Meaning, UserMeaning, DepartmentMeaning, ContactMeaning, FileMeaning, GroupMeaning,
         GroupNames, DialogNames

(* ShowsRow for one of the elements that are listed.                       *)
ElementShown(class, e, row) ==
  \A m \in DOMAIN e \cap DOMAIN Meaning(e) :
    \/ e[m] = row.val[Meaning(e)[m]]
    \/ /\ row.null # {} \/ (class = "ValidateResponse" /\ e.user_id = 0)
       /\ e[m] = Unset(m)

LEMMA ParsedShown ==
  ASSUME NEW class, NEW e, NEW info, NEW row, NEW meaning, Parsed(e, info, row, meaning),
         Meaning(e) = meaning,
         \A m \in DOMAIN info \cap DOMAIN meaning : info[m] = Unset(m)
  PROVE  ElementShown(class, e, row)
  BY DEF Parsed, ElementShown

(* What is blank is unset.                                                 *)
LEMMA BlankUnset ==
  \A list \in {UserInfo, UserInfoNoName, DepartmentInfo, FriendInfo, OfflineFile, GroupInfo,
               GroupDialog} :
    \A m \in DOMAIN Blank(list) : Blank(list)[m] = Unset(m)
  <1>1. \A list \in {UserInfo, DepartmentInfo, FriendInfo, OfflineFile, GroupInfo, GroupDialog} :
          \A m \in DOMAIN Blank(list) : Unset(m) = Nothing(m)
    BY UnsetIsNothing DEF Blank
  <1>2. DOMAIN Blank(UserInfoNoName) \subseteq DOMAIN Blank(UserInfo)
    BY Blanks DEF BlankOf
  <1>3. \A m \in DOMAIN Blank(UserInfoNoName) : Unset(m) = Nothing(m)
    BY <1>1, <1>2
  <1>4. \A list \in {UserInfo, UserInfoNoName, DepartmentInfo, FriendInfo, OfflineFile,
                     GroupInfo, GroupDialog} :
          \A m \in DOMAIN Blank(list) : Blank(list)[m] = Nothing(m)
    BY Blanks DEF BlankOf
  <1> QED BY <1>1, <1>3, <1>4

(* A user, a department, a contact, a file and a group of a row.           *)
LEMMA UserShown ==
  ASSUME NEW class, NEW row, NEW list \in {UserInfo, UserInfoNoName}
  PROVE  ElementShown(class, ParseFromDatabase(UserSelect, UserRead, row, Blank(list)), row)
  <1> DEFINE e == ParseFromDatabase(UserSelect, UserRead, row, Blank(list))
  <1>1. Parsed(e, Blank(list), row, UserMeaning)
    BY AllMatch, RowParsed
  <1>2. Meaning(e) = UserMeaning
    <2>1. DOMAIN e = DOMAIN Blank(list)
      BY <1>1 DEF Parsed
    <2> HIDE DEF e
    <2> QED BY <2>1, MeaningOf, Blanks DEF BlankOf
  <1> QED BY <1>1, <1>2, ParsedShown, BlankUnset

LEMMA DepartmentShown ==
  ASSUME NEW class, NEW row
  PROVE  ElementShown(class, ParseFromDatabase(DepartmentSelect, DepartmentRead, row,
                                               Blank(DepartmentInfo)), row)
  <1> DEFINE e == ParseFromDatabase(DepartmentSelect, DepartmentRead, row, Blank(DepartmentInfo))
  <1>1. Parsed(e, Blank(DepartmentInfo), row, DepartmentMeaning)
    BY AllMatch, RowParsed
  <1>2. Meaning(e) = DepartmentMeaning
    <2>1. DOMAIN e = DOMAIN Blank(DepartmentInfo)
      BY <1>1 DEF Parsed
    <2> HIDE DEF e
    <2> QED BY <2>1, MeaningOf, Blanks DEF BlankOf
  <1> QED BY <1>1, <1>2, ParsedShown, BlankUnset

LEMMA ContactShown ==
  ASSUME NEW class, NEW row
  PROVE  ElementShown(class, ParseFromDatabase(ContactSelect, ContactRead, row,
                                               Blank(FriendInfo)), row)
  <1> DEFINE e == ParseFromDatabase(ContactSelect, ContactRead, row, Blank(FriendInfo))
  <1>1. Parsed(e, Blank(FriendInfo), row, ContactMeaning)
    BY AllMatch, RowParsed
  <1>2. Meaning(e) = ContactMeaning
    <2>1. DOMAIN e = DOMAIN Blank(FriendInfo)
      BY <1>1 DEF Parsed
    <2> HIDE DEF e
    <2> QED BY <2>1, MeaningOf, Blanks DEF BlankOf
  <1> QED BY <1>1, <1>2, ParsedShown, BlankUnset

LEMMA FileShown ==
  ASSUME NEW class, NEW row
  PROVE  ElementShown(class, GetColumns(FileSelect, FileRead, row, Blank(OfflineFile)), row)
  <1> DEFINE e == GetColumns(FileSelect, FileRead, row, Blank(OfflineFile))
  <1>1. Parsed(e, Blank(OfflineFile), row, FileMeaning)
    BY AllMatch, RowParsed
  <1>2. Meaning(e) = FileMeaning
    <2>1. DOMAIN e = DOMAIN Blank(OfflineFile)
      BY <1>1 DEF Parsed
    <2> HIDE DEF e
    <2> QED BY <2>1, MeaningOf, Blanks DEF BlankOf
  <1> QED BY <1>1, <1>2, ParsedShown, BlankUnset

(* The members of the group are no column and have no meaning here.        *)
LEMMA GroupShown ==
  ASSUME NEW class, NEW row, NEW list \in {GroupInfo, GroupDialog}, NEW members
  PROVE  ElementShown(class, [ParseFromDatabase(GroupSelect, GroupRead, row, Blank(list))
                                EXCEPT !.group_memeber_list = members], row)
  <1> DEFINE g == ParseFromDatabase(GroupSelect, GroupRead, row, Blank(list))
             e == [g EXCEPT !.group_memeber_list = members]
  <1>1. Parsed(g, Blank(list), row, GroupMeaning)
    BY AllMatch, RowParsed
  <1> HIDE DEF g
  <1>2. DOMAIN e = DOMAIN g /\ \A m \in DOMAIN e : m # "group_memeber_list" => e[m] = g[m]
    OBVIOUS
  <1> HIDE DEF e
  <1>3. Parsed(e, Blank(list), row, GroupMeaning)
    BY <1>1, <1>2 DEF Parsed, GroupMeaning
  <1>4. Meaning(e) = GroupMeaning
    <2>1. DOMAIN e = DOMAIN Blank(list)
      BY <1>3 DEF Parsed
    <2> QED BY <2>1, MeaningOf, Blanks DEF BlankOf
  <1>5. ElementShown(class, e, row)
    BY <1>3, <1>4, ParsedShown, BlankUnset
  <1> QED BY <1>5 DEF e, g

LEMMA GroupsShown ==
  ASSUME NEW class, NEW row, NEW list \in {GroupInfo, GroupDialog}, NEW user,
         NEW fixed \in BOOLEAN, NEW i \in DOMAIN GetGroups(user, fixed, row, Blank(list))
  PROVE  ElementShown(class, GetGroups(user, fixed, row, Blank(list))[i], row)
  <1> DEFINE g == ParseFromDatabase(GroupSelect, GroupRead, row, Blank(list))
             members == IF Has(row, "groupId", g.group_id) THEN <<row.val.member>> ELSE <<>>
             e == [g EXCEPT !.group_memeber_list = members]
  <1>1. GetGroups(user, fixed, row, Blank(list)) \in {<<e>>, <<>>}
    BY DEF GetGroups
  <1>2. ElementShown(class, e, row)
    BY GroupShown
  <1> HIDE DEF e
  <1> QED BY <1>1, <1>2

-----------------------------------------------------------------------------
(* The replies that list something.                                        *)
ListMembers == {"user_info_list", "user", "depart_list", "friend_lists", "file_list",
                "group_list"}

LEMMA LayoutOf ==
  /\ Layout["AllUserResponse"] = AllUserResponse
  /\ Layout["UsersInfoResponse"] = UsersInfoResponse
  /\ Layout["ValidateResponse"] = ValidateResponse
  /\ Layout["DepartmentResponse"] = DepartmentResponse
  /\ Layout["FriendListResponse"] = FriendListResponse
  /\ Layout["FileHasOfflineRes"] = FileHasOfflineRes
  /\ Layout["GroupListResponse"] = GroupListResponse
  /\ Layout["GroupDialogListResponse"] = GroupDialogListResponse
  BY DEF Layout

(* The members of a unit with attach data.                                 *)
NamesOf(list) == {list[i].name : i \in DOMAIN list}

LEMMA FieldNames ==
  ASSUME NEW c, NEW S, Layout[c].write \in Seq(S), Layout[c].attach
  PROVE  DOMAIN Blank(Fields(c)) \subseteq NamesOf(Layout[c].write) \cup {"attach_data"}
  <1> DEFINE w == Layout[c].write
             T == S \cup {Str("attach_data")}
             last == <<Str("attach_data")>>
             all == w \o last
  <1>1. w \in Seq(T) /\ last \in Seq(T) /\ Len(last) = 1 /\ last[1] = Str("attach_data")
    OBVIOUS
  <1>2. Fields(c) = all
    BY DEF Fields
  <1> HIDE DEF last, w, T
  <1>3. /\ all \in Seq(T) /\ Len(all) = Len(w) + Len(last)
        /\ \A i \in 1 .. Len(w) + Len(last) :
             all[i] = IF i <= Len(w) THEN w[i] ELSE last[i - Len(w)]
    <2>1. w \in Seq(T) /\ last \in Seq(T)
      BY <1>1
    <2> QED BY <2>1, ConcatProperties, Zenon
  <1> HIDE DEF all
  <1>4. /\ DOMAIN all = 1 .. Len(w) + 1 /\ DOMAIN w = 1 .. Len(w) /\ Len(w) \in Nat
    BY <1>1, <1>3, LenProperties
  <1>5. ASSUME NEW i \in DOMAIN all PROVE all[i].name \in NamesOf(w) \cup {"attach_data"}
    <2>1. CASE i <= Len(w)
      BY <1>1, <1>3, <1>4, <2>1 DEF NamesOf
    <2>2. CASE i > Len(w)
      <3>1. i - Len(w) = 1
        BY <1>4, <2>2
      <3>2. all[i] = Str("attach_data")
        BY <1>1, <1>3, <1>4, <2>2, <3>1
      <3> QED BY <3>2 DEF Str
    <2> QED BY <1>4, <2>1, <2>2
  <1>6. DOMAIN Blank(Fields(c)) = {all[i].name : i \in DOMAIN all}
    BY <1>2 DEF Blank
  <1> QED BY <1>5, <1>6 DEF w

(* A reply has one list, which the handler sets.                           *)
LEMMA ReplyNames ==
  /\ ListMembers \cap DOMAIN Blank(Fields("AllUserResponse")) \subseteq {"user_info_list"}
  /\ ListMembers \cap DOMAIN Blank(Fields("UsersInfoResponse")) \subseteq {"user_info_list"}
  /\ ListMembers \cap DOMAIN Blank(Fields("ValidateResponse")) \subseteq {"user"}
  /\ ListMembers \cap DOMAIN Blank(Fields("DepartmentResponse")) \subseteq {"depart_list"}
  /\ ListMembers \cap DOMAIN Blank(Fields("FriendListResponse")) \subseteq {"friend_lists"}
  /\ ListMembers \cap DOMAIN Blank(Fields("FileHasOfflineRes")) \subseteq {"file_list"}
  /\ ListMembers \cap DOMAIN Blank(Fields("GroupListResponse")) \subseteq {"group_list"}
  /\ ListMembers \cap DOMAIN Blank(Fields("GroupDialogListResponse")) \subseteq {"group_list"}
  <1>1. ASSUME NEW c, NEW fields, NEW m,
               Layout[c].write = fields, Layout[c].attach,
               NEW S, fields \in Seq(S), ListMembers \cap NamesOf(fields) \subseteq {m}
        PROVE  ListMembers \cap DOMAIN Blank(Fields(c)) \subseteq {m}
    BY <1>1, FieldNames DEF ListMembers
  <1> USE DEF DB, U32, Word, Str, List, Option, NamesOf, ListMembers
  <1>2. ListMembers \cap DOMAIN Blank(Fields("AllUserResponse")) \subseteq {"user_info_list"}
    <2> DEFINE L == AllUserResponse
               S == {L.write[i] : i \in 1 .. 2}
    <2>1. L.write \in Seq(S) /\ L.attach /\ ListMembers \cap NamesOf(L.write) \subseteq {"user_info_list"}
      BY DEF AllUserResponse
    <2>2. Layout["AllUserResponse"] = L
      BY LayoutOf
    <2> HIDE DEF L, S
    <2> QED BY <1>1, <2>1, <2>2
  <1>3. ListMembers \cap DOMAIN Blank(Fields("UsersInfoResponse")) \subseteq {"user_info_list"}
    <2> DEFINE L == UsersInfoResponse
               S == {L.write[i] : i \in 1 .. 2}
    <2>1. L.write \in Seq(S) /\ L.attach /\ ListMembers \cap NamesOf(L.write) \subseteq {"user_info_list"}
      BY DEF UsersInfoResponse
    <2>2. Layout["UsersInfoResponse"] = L
      BY LayoutOf
    <2> HIDE DEF L, S
    <2> QED BY <1>1, <2>1, <2>2
  <1>4. ListMembers \cap DOMAIN Blank(Fields("ValidateResponse")) \subseteq {"user"}
    <2> DEFINE L == ValidateResponse
               S == {L.write[i] : i \in 1 .. 3}
    <2>1. L.write \in Seq(S) /\ L.attach /\ ListMembers \cap NamesOf(L.write) \subseteq {"user"}
      <3>1. /\ L.write = <<Str("user_name"), U32("result"), Option("user", UserInfoNoName, TRUE)>>
            /\ L.attach = TRUE
        BY DEF ValidateResponse
      <3> HIDE DEF L
      <3>2. L.write \in Seq(S)
        <4>1. ASSUME NEW a, NEW b, NEW d, L.write = <<a, b, d>> PROVE L.write \in Seq(S)
          BY <4>1
        <4> HIDE DEF Str, U32, Option, S
        <4> QED BY <3>1, <4>1
      <3>3. ListMembers \cap NamesOf(L.write) \subseteq {"user"}
        BY <3>1
      <3> QED BY <3>1, <3>2, <3>3
    <2>2. Layout["ValidateResponse"] = L
      BY LayoutOf
    <2> HIDE DEF L, S
    <2> QED BY <1>1, <2>1, <2>2
  <1>5. ListMembers \cap DOMAIN Blank(Fields("DepartmentResponse")) \subseteq {"depart_list"}
    <2> DEFINE L == DepartmentResponse
               S == {L.write[i] : i \in 1 .. 2}
    <2>1. L.write \in Seq(S) /\ L.attach /\ ListMembers \cap NamesOf(L.write) \subseteq {"depart_list"}
      BY DEF DepartmentResponse
    <2>2. Layout["DepartmentResponse"] = L
      BY LayoutOf
    <2> HIDE DEF L, S
    <2> QED BY <1>1, <2>1, <2>2
  <1>6. ListMembers \cap DOMAIN Blank(Fields("FriendListResponse")) \subseteq {"friend_lists"}
    <2> DEFINE L == FriendListResponse
               S == {L.write[i] : i \in 1 .. 2}
    <2>1. L.write \in Seq(S) /\ L.attach /\ ListMembers \cap NamesOf(L.write) \subseteq {"friend_lists"}
      BY DEF FriendListResponse
    <2>2. Layout["FriendListResponse"] = L
      BY LayoutOf
    <2> HIDE DEF L, S
    <2> QED BY <1>1, <2>1, <2>2
  <1>7. ListMembers \cap DOMAIN Blank(Fields("FileHasOfflineRes")) \subseteq {"file_list"}
    <2> DEFINE L == FileHasOfflineRes
               S == {L.write[i] : i \in 1 .. 2}
    <2>1. L.write \in Seq(S) /\ L.attach /\ ListMembers \cap NamesOf(L.write) \subseteq {"file_list"}
      BY DEF FileHasOfflineRes
    <2>2. Layout["FileHasOfflineRes"] = L
      BY LayoutOf
    <2> HIDE DEF L, S
    <2> QED BY <1>1, <2>1, <2>2
  <1>8. ListMembers \cap DOMAIN Blank(Fields("GroupListResponse")) \subseteq {"group_list"}
    <2> DEFINE L == GroupListResponse
               S == {L.write[i] : i \in 1 .. 2}
    <2>1. L.write \in Seq(S) /\ L.attach /\ ListMembers \cap NamesOf(L.write) \subseteq {"group_list"}
      BY DEF GroupListResponse
    <2>2. Layout["GroupListResponse"] = L
      BY LayoutOf
    <2> HIDE DEF L, S
    <2> QED BY <1>1, <2>1, <2>2
  <1>9. ListMembers \cap DOMAIN Blank(Fields("GroupDialogListResponse")) \subseteq {"group_list"}
    <2> DEFINE L == GroupDialogListResponse
               S == {L.write[i] : i \in 1 .. 2}
    <2>1. L.write \in Seq(S) /\ L.attach /\ ListMembers \cap NamesOf(L.write) \subseteq {"group_list"}
      BY DEF GroupDialogListResponse
    <2>2. Layout["GroupDialogListResponse"] = L
      BY LayoutOf
    <2> HIDE DEF L, S
    <2> QED BY <1>1, <2>1, <2>2
  <1> QED BY <1>2, <1>3, <1>4, <1>5, <1>6, <1>7, <1>8, <1>9

LEMMA ReplyShows ==
  ASSUME NEW class, NEW set, NEW data, NEW row, NEW m \in ListMembers, m \in DOMAIN set,
         ListMembers \cap DOMAIN set \subseteq {m},
         ListMembers \cap DOMAIN Blank(Fields(class)) \subseteq {m},
         \A i \in DOMAIN set[m] : ElementShown(class, set[m][i], row)
  PROVE  ShowsRow(class, Over(Over(set, [attach_data |-> data]), Blank(Fields(class))), row)
  <1> DEFINE obj == Over(Over(set, [attach_data |-> data]), Blank(Fields(class)))
  <1>1. DOMAIN obj = DOMAIN set \cup {"attach_data"} \cup DOMAIN Blank(Fields(class))
    BY DEF Over
  <1>2. ListMembers \cap DOMAIN obj = {m}
    BY <1>1 DEF ListMembers
  <1>3. obj[m] = set[m]
    BY DEF Over
  <1> HIDE DEF obj
  <1>4. Shown(obj) = {set[m][i] : i \in DOMAIN set[m]}
    BY <1>2, <1>3 DEF Shown, ListMembers
  <1>5. \A e \in Shown(obj) : ElementShown(class, e, row)
    BY <1>4
  <1>6. ShowsRow(class, obj, row)
    BY <1>5 DEF ShowsRow, ElementShown
  <1> QED BY <1>6 DEF obj

-----------------------------------------------------------------------------
(* A reply with everything its handler leaves alone blank.                 *)
Sent(r) == Over(r.copied, Blank(Fields(r.class)))

(* The requests whose replies show rows.                                   *)
ListRequests ==
  {"AllUserRequest", "UsersInfoRequest", "ValidateRequest", "DepartmentRequest",
   "FriendListRequest", "FileHasOfflineReq", "GroupListRequest", "GroupDialogListRequest"}

(* Whatever the request and the row, the reply shows columns of the row in *)
(* the members that mean them: one lemma for each handler.                 *)
LEMMA AllUserRequestShows ==
  ASSUME NEW q, NEW row
  PROVE  LET r == AllUserRequestHandler(q, row) IN ShowsRow(r.class, Sent(r), row)
  <1> DEFINE r == AllUserRequestHandler(q, row)
             set ==
              [from_user_id |-> q.req_user_id,
               user_info_list |-> If(q.req_user_id > 0, GetAllUserInfo(row, Blank(UserInfo)))]
  <1>1. r.class = "AllUserResponse" /\ r.copied = Over(set, [attach_data |-> q.attach_data])
    BY DEF AllUserRequestHandler, Reply
  <1>2. /\ "user_info_list" \in DOMAIN set
        /\ ListMembers \cap DOMAIN set \subseteq {"user_info_list"} /\ "user_info_list" \in ListMembers
    BY DEF ListMembers
  <1>3. \A i \in DOMAIN set["user_info_list"] : ElementShown("AllUserResponse", set["user_info_list"][i], row)
    BY UserShown DEF If, GetAllUserInfo
  <1> HIDE DEF set
  <1>4. ShowsRow("AllUserResponse",
                 Over(Over(set, [attach_data |-> q.attach_data]), Blank(Fields("AllUserResponse"))), row)
    BY <1>2, <1>3, ReplyNames, ReplyShows
  <1> HIDE DEF r
  <1>5. ShowsRow(r.class, Sent(r), row)
    BY <1>1, <1>4 DEF Sent
  <1> QED BY <1>5 DEF r

LEMMA UsersInfoRequestShows ==
  ASSUME NEW q, NEW row
  PROVE  LET r == UsersInfoRequestHandler(q, row) IN ShowsRow(r.class, Sent(r), row)
  <1> DEFINE r == UsersInfoRequestHandler(q, row)
             set ==
              [from_user_id |-> q.from_user_id,
               user_info_list |-> If(q.from_user_id # 0 /\ q.user_id_list # <<>>,
                                     GetUserInfoByIds(q.user_id_list, row, Blank(UserInfo)))]
  <1>1. r.class = "UsersInfoResponse" /\ r.copied = Over(set, [attach_data |-> q.attach_data])
    BY DEF UsersInfoRequestHandler, Reply
  <1>2. /\ "user_info_list" \in DOMAIN set
        /\ ListMembers \cap DOMAIN set \subseteq {"user_info_list"} /\ "user_info_list" \in ListMembers
    BY DEF ListMembers
  <1>3. \A i \in DOMAIN set["user_info_list"] : ElementShown("UsersInfoResponse", set["user_info_list"][i], row)
    BY UserShown DEF If, GetUserInfoByIds
  <1> HIDE DEF set
  <1>4. ShowsRow("UsersInfoResponse",
                 Over(Over(set, [attach_data |-> q.attach_data]), Blank(Fields("UsersInfoResponse"))), row)
    BY <1>2, <1>3, ReplyNames, ReplyShows
  <1> HIDE DEF r
  <1>5. ShowsRow(r.class, Sent(r), row)
    BY <1>1, <1>4 DEF Sent
  <1> QED BY <1>5 DEF r

LEMMA DepartmentRequestShows ==
  ASSUME NEW q, NEW row
  PROVE  LET r == DepartmentRequestHandler(q, row) IN ShowsRow(r.class, Sent(r), row)
  <1> DEFINE r == DepartmentRequestHandler(q, row)
             set ==
              [req_user_id |-> q.req_user_id,
               depart_list |-> GetDepartmentInfos(row, Blank(DepartmentInfo))]
  <1>1. r.class = "DepartmentResponse" /\ r.copied = Over(set, [attach_data |-> q.attach_data])
    BY DEF DepartmentRequestHandler, Reply
  <1>2. /\ "depart_list" \in DOMAIN set
        /\ ListMembers \cap DOMAIN set \subseteq {"depart_list"} /\ "depart_list" \in ListMembers
    BY DEF ListMembers
  <1>3. \A i \in DOMAIN set["depart_list"] : ElementShown("DepartmentResponse", set["depart_list"][i], row)
    BY DepartmentShown DEF If, GetDepartmentInfos
  <1> HIDE DEF set
  <1>4. ShowsRow("DepartmentResponse",
                 Over(Over(set, [attach_data |-> q.attach_data]), Blank(Fields("DepartmentResponse"))), row)
    BY <1>2, <1>3, ReplyNames, ReplyShows
  <1> HIDE DEF r
  <1>5. ShowsRow(r.class, Sent(r), row)
    BY <1>1, <1>4 DEF Sent
  <1> QED BY <1>5 DEF r

LEMMA FriendListRequestShows ==
  ASSUME NEW q, NEW row
  PROVE  LET r == FriendListRequestHandler(q, row) IN ShowsRow(r.class, Sent(r), row)
  <1> DEFINE r == FriendListRequestHandler(q, row)
             set ==
              [from_user_id |-> q.user_id,
               friend_lists |-> If(q.user_id > 0,
                                   GetRecentContactByUserId(q.user_id, row, Blank(FriendInfo)))]
  <1>1. r.class = "FriendListResponse" /\ r.copied = Over(set, [attach_data |-> q.attach_data])
    BY DEF FriendListRequestHandler, Reply
  <1>2. /\ "friend_lists" \in DOMAIN set
        /\ ListMembers \cap DOMAIN set \subseteq {"friend_lists"} /\ "friend_lists" \in ListMembers
    BY DEF ListMembers
  <1>3. \A i \in DOMAIN set["friend_lists"] : ElementShown("FriendListResponse", set["friend_lists"][i], row)
    BY ContactShown DEF If, GetRecentContactByUserId
  <1> HIDE DEF set
  <1>4. ShowsRow("FriendListResponse",
                 Over(Over(set, [attach_data |-> q.attach_data]), Blank(Fields("FriendListResponse"))), row)
    BY <1>2, <1>3, ReplyNames, ReplyShows
  <1> HIDE DEF r
  <1>5. ShowsRow(r.class, Sent(r), row)
    BY <1>1, <1>4 DEF Sent
  <1> QED BY <1>5 DEF r

LEMMA FileHasOfflineReqShows ==
  ASSUME NEW q, NEW row
  PROVE  LET r == FileHasOfflineReqHandler(q, row) IN ShowsRow(r.class, Sent(r), row)
  <1> DEFINE r == FileHasOfflineReqHandler(q, row)
             set ==
              [req_user_id |-> q.user_id,
               file_list |-> If(q.user_id # 0, GetUserFiles(q.user_id, row, Blank(OfflineFile)))]
  <1>1. r.class = "FileHasOfflineRes" /\ r.copied = Over(set, [attach_data |-> q.attach_data])
    BY DEF FileHasOfflineReqHandler, Reply
  <1>2. /\ "file_list" \in DOMAIN set
        /\ ListMembers \cap DOMAIN set \subseteq {"file_list"} /\ "file_list" \in ListMembers
    BY DEF ListMembers
  <1>3. \A i \in DOMAIN set["file_list"] : ElementShown("FileHasOfflineRes", set["file_list"][i], row)
    BY FileShown DEF If, GetUserFiles
  <1> HIDE DEF set
  <1>4. ShowsRow("FileHasOfflineRes",
                 Over(Over(set, [attach_data |-> q.attach_data]), Blank(Fields("FileHasOfflineRes"))), row)
    BY <1>2, <1>3, ReplyNames, ReplyShows
  <1> HIDE DEF r
  <1>5. ShowsRow(r.class, Sent(r), row)
    BY <1>1, <1>4 DEF Sent
  <1> QED BY <1>5 DEF r

LEMMA GroupListRequestShows ==
  ASSUME NEW q, NEW row
  PROVE  LET r == GroupListRequestHandler(q, row) IN ShowsRow(r.class, Sent(r), row)
  <1> DEFINE r == GroupListRequestHandler(q, row)
             set ==
              [req_user_id |-> q.user_id,
               group_list |-> If(q.user_id # 0,
                                 GetGroups(q.user_id, TRUE, row, Blank(GroupInfo)))]
  <1>1. r.class = "GroupListResponse" /\ r.copied = Over(set, [attach_data |-> q.attach_data])
    BY DEF GroupListRequestHandler, Reply
  <1>2. /\ "group_list" \in DOMAIN set
        /\ ListMembers \cap DOMAIN set \subseteq {"group_list"} /\ "group_list" \in ListMembers
    BY DEF ListMembers
  <1>3. \A i \in DOMAIN set["group_list"] : ElementShown("GroupListResponse", set["group_list"][i], row)
    <2> DEFINE groups == GetGroups(q.user_id, TRUE, row, Blank(GroupInfo))
    <2>1. \A i \in DOMAIN groups : ElementShown("GroupListResponse", groups[i], row)
      BY GroupsShown
    <2>2. set["group_list"] \in {groups, <<>>}
      BY DEF If
    <2> HIDE DEF groups, set
    <2> QED BY <2>1, <2>2
  <1> HIDE DEF set
  <1>4. ShowsRow("GroupListResponse",
                 Over(Over(set, [attach_data |-> q.attach_data]), Blank(Fields("GroupListResponse"))), row)
    BY <1>2, <1>3, ReplyNames, ReplyShows
  <1> HIDE DEF r
  <1>5. ShowsRow(r.class, Sent(r), row)
    BY <1>1, <1>4 DEF Sent
  <1> QED BY <1>5 DEF r

LEMMA GroupDialogListRequestShows ==
  ASSUME NEW q, NEW row
  PROVE  LET r == GroupDialogListRequestHandler(q, row) IN ShowsRow(r.class, Sent(r), row)
  <1> DEFINE r == GroupDialogListRequestHandler(q, row)
             set ==
              [req_user_id |-> q.user_id,
               group_list |-> If(q.user_id > 0,
                                 GetGroups(q.user_id, FALSE, row, Blank(GroupDialog)))]
  <1>1. r.class = "GroupDialogListResponse" /\ r.copied = Over(set, [attach_data |-> q.attach_data])
    BY DEF GroupDialogListRequestHandler, Reply
  <1>2. /\ "group_list" \in DOMAIN set
        /\ ListMembers \cap DOMAIN set \subseteq {"group_list"} /\ "group_list" \in ListMembers
    BY DEF ListMembers
  <1>3. \A i \in DOMAIN set["group_list"] : ElementShown("GroupDialogListResponse", set["group_list"][i], row)
    <2> DEFINE groups == GetGroups(q.user_id, FALSE, row, Blank(GroupDialog))
    <2>1. \A i \in DOMAIN groups : ElementShown("GroupDialogListResponse", groups[i], row)
      BY GroupsShown
    <2>2. set["group_list"] \in {groups, <<>>}
      BY DEF If
    <2> HIDE DEF groups, set
    <2> QED BY <2>1, <2>2
  <1> HIDE DEF set
  <1>4. ShowsRow("GroupDialogListResponse",
                 Over(Over(set, [attach_data |-> q.attach_data]), Blank(Fields("GroupDialogListResponse"))), row)
    BY <1>2, <1>3, ReplyNames, ReplyShows
  <1> HIDE DEF r
  <1>5. ShowsRow(r.class, Sent(r), row)
    BY <1>1, <1>4 DEF Sent
  <1> QED BY <1>5 DEF r

LEMMA ValidateRequestShows ==
  ASSUME NEW q, NEW row
  PROVE  LET r == ValidateRequestHandler(q, row) IN ShowsRow(r.class, Sent(r), row)
  <1> DEFINE r == ValidateRequestHandler(q, row)
             valid == q.user_name # <<>> /\ q.password # <<>>
                        /\ Auth(q.user_name, q.password, row)
             u == GetUserInfoByName(q.user_name, row, Blank(UserInfoNoName))
             set == [user_name |-> q.user_name, result |-> IF valid THEN 0 ELSE 1,
                     user |-> If(valid, <<u>>)]
  <1>1. r.class = "ValidateResponse" /\ r.copied = Over(set, [attach_data |-> q.attach_data])
    BY DEF ValidateRequestHandler, Reply
  <1>2. /\ "user" \in DOMAIN set
        /\ ListMembers \cap DOMAIN set \subseteq {"user"} /\ "user" \in ListMembers
    BY DEF ListMembers
  <1>3. ElementShown("ValidateResponse", u, row)
    <2>1. CASE u = ParseFromDatabase(UserSelect, UserRead, row, Blank(UserInfoNoName))
      BY <2>1, UserShown
    <2>2. CASE u = Blank(UserInfoNoName)
      <3> DEFINE b == Blank(UserInfoNoName)
      <3>1. b.user_id = 0
        BY Blanks DEF BlankOf, Nothing, WordNames, UserMeaning
      <3>2. \A m \in DOMAIN b : b[m] = Unset(m)
        BY BlankUnset
      <3>3. ElementShown("ValidateResponse", b, row)
        BY <3>1, <3>2 DEF ElementShown
      <3> QED BY <2>2, <3>3
    <2> QED BY <2>1, <2>2 DEF GetUserInfoByName
  <1>4. \A i \in DOMAIN set["user"] : ElementShown("ValidateResponse", set["user"][i], row)
    BY <1>3 DEF If
  <1> HIDE DEF set
  <1>5. ShowsRow("ValidateResponse",
                 Over(Over(set, [attach_data |-> q.attach_data]),
                      Blank(Fields("ValidateResponse"))), row)
    BY <1>2, <1>4, ReplyNames, ReplyShows
  <1> HIDE DEF r
  <1>6. ShowsRow(r.class, Sent(r), row)
    BY <1>1, <1>5 DEF Sent
  <1> QED BY <1>6 DEF r

(* DispatchMessageHandler finds one of these handlers: for every request   *)
(* and every row, whatever its columns hold and whichever are NULL, each   *)
(* member of what the reply lists is the column that it means, or nothing. *)
THEOREM HandlerShows ==
  ASSUME NEW c \in ListRequests, NEW q, NEW row
  PROVE  ShowsRow(Handler(c, q, row).class, Sent(Handler(c, q, row)), row)
  <1>1. /\ Handler("AllUserRequest", q, row) = AllUserRequestHandler(q, row)
        /\ Handler("UsersInfoRequest", q, row) = UsersInfoRequestHandler(q, row)
        /\ Handler("ValidateRequest", q, row) = ValidateRequestHandler(q, row)
        /\ Handler("DepartmentRequest", q, row) = DepartmentRequestHandler(q, row)
        /\ Handler("FriendListRequest", q, row) = FriendListRequestHandler(q, row)
        /\ Handler("FileHasOfflineReq", q, row) = FileHasOfflineReqHandler(q, row)
        /\ Handler("GroupListRequest", q, row) = GroupListRequestHandler(q, row)
        /\ Handler("GroupDialogListRequest", q, row) = GroupDialogListRequestHandler(q, row)
    BY DEF Handler
  <1> QED BY <1>1, AllUserRequestShows, UsersInfoRequestShows, ValidateRequestShows,
             DepartmentRequestShows, FriendListRequestShows, FileHasOfflineReqShows,
             GroupListRequestShows, GroupDialogListRequestShows DEF ListRequests

-----------------------------------------------------------------------------
(* Nothing is asked before the first unit is sent: a unit that answers     *)
(* nothing is never held against a row.                                    *)
ShownInv == (stage = "new" => asked = None) /\ RowsShown

(* Only the requests for lists look at rows that hold something.           *)
LEMMA RowsAsked ==
  ASSUME NEW c, NEW row \in RowsFor(c), row.val # <<>>
  PROVE  /\ c \in ListRequests
         /\ \A class : Rest(class, c) = {Blank(Fields(class))}
  <1>1. c \in ListRequests
    BY DEF RowsFor, ListRequests
  <1>2. RowsFor(c) # {[val |-> <<>>, null |-> {}]}
    OBVIOUS
  <1> QED BY <1>1, <1>2 DEF Rest

(* ParseFromDatabase of the five managers and the eight handlers that list *)
(* users, departments, contacts, files and groups: in the reply that is    *)
(* sent each member shows the column of the row that it means, or nothing  *)
(* where a NULL ended the reading or a user is not stored.                 *)
THEOREM RowsShownTruly == Spec => []RowsShown
  <1>1. Init => ShownInv
    BY DEF Init, ShownInv, RowsShown
  <1>2. ShownInv /\ [Next]_vars => ShownInv'
    <2> SUFFICES ASSUME ShownInv, [Next]_vars PROVE ShownInv'
      OBVIOUS
    <2>1. CASE UNCHANGED vars
      BY <2>1 DEF ShownInv, RowsShown, vars
    <2>2. ASSUME NEW c \in Classes, Send(c) PROVE ShownInv'
      <3>1. stage' = "wire" /\ asked' = asked /\ asked = None
        BY <2>2 DEF Send, Post, ShownInv
      <3> QED BY <3>1 DEF ShownInv, RowsShown, None
    <2>3. CASE Cut
      BY <2>3 DEF Cut, ShownInv, RowsShown
    <2>4. CASE Receive
      <3>1. stage' = "received"
        BY <2>4 DEF Receive
      <3> QED BY <3>1 DEF ShownInv, RowsShown
    <2>5. CASE Execute
      <3>1. PICK row \in RowsFor(got.class) :
              /\ \E o \in Rest(Handler(got.class, got.obj, row).class, got.class) :
                   Post(Handler(got.class, got.obj, row).class,
                        Over(Handler(got.class, got.obj, row).copied, o))
              /\ stored' = row
        BY <2>5 DEF Execute
      <3> DEFINE r == Handler(got.class, got.obj, row)
      <3>2. PICK o \in Rest(r.class, got.class) : Post(r.class, Over(r.copied, o))
        BY <3>1
      <3>3. stage' = "wire" /\ unit' = [class |-> r.class, obj |-> Over(r.copied, o)]
        BY <3>2 DEF Post
      <3>4. ASSUME row.val # <<>> PROVE ShowsRow(unit'.class, unit'.obj, stored')
        <4>1. got.class \in ListRequests /\ o = Blank(Fields(r.class))
          BY <3>4, RowsAsked
        <4>2. ShowsRow(r.class, Sent(r), row)
          BY <4>1, HandlerShows
        <4> QED BY <3>1, <3>3, <4>1, <4>2 DEF Sent
      <3> QED BY <3>1, <3>3, <3>4 DEF ShownInv, RowsShown, ShowsRow, Shown
    <2> QED BY <2>1, <2>2, <2>3, <2>4, <2>5 DEF Next
  <1>3. ShownInv => RowsShown
    BY DEF ShownInv
  <1> QED BY <1>1, <1>2, <1>3, PTL DEF Spec

=============================================================================
