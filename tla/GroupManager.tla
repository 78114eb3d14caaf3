---------------------------- MODULE GroupManager ----------------------------
(***************************************************************************)
(* The group manager of zaresd (tables IMGroup and IMGroupRelation) and    *)
(* the group part of the counter manager, with the handlers of all group   *)
(* requests, on several handler threads.                                   *)
(*                                                                         *)
(* A step of a thread is one SQL statement: CreateGroup, JoinGroup,        *)
(* QuitGroup and the lists run several, without a transaction, and keep    *)
(* what the first ones returned in local variables.                        *)
(***************************************************************************)
EXTENDS Integers, Sequences, FiniteSets, FiniteSetsExt

CONSTANTS
  Threads,    \* the handler threads
  Users,      \* the user ids clients may name; 0 is never one
  UserLists,  \* the user lists a request may carry, repetitions allowed
  Inputs,     \* the requests clients may send
  Stored,     \* what the tables may hold when the process starts first
  FIXED_LIMIT,  \* most relations looked at for the fixed groups of a user (200)
  RECENT_LIMIT, \* ... for the recent groups (100)
  ALL_LIMIT,    \* ... for all groups (5000)
  MEMBER_LIMIT, \* most members read for all the groups of a list (10000)
  MaxReq,     \* bound: requests accepted in a behaviour
  MaxFault,   \* bound: failed SQL statements in a behaviour
  MaxBoot     \* bound: restarts of the process in a behaviour

ASSUME GroupThreadsAssumption == IsFiniteSet(Threads)
ASSUME GroupUsersAssumption == Users \subseteq Nat \ {0}
ASSUME GroupBoundsAssumption == MaxReq \in Nat /\ MaxFault \in Nat /\ MaxBoot \in Nat
ASSUME UserListsAssumption == UserLists \subseteq Seq(Users) /\ <<>> \in UserLists

VARIABLES
  groups,     \* table IMGroup; a row's groupId is its index
  relations,  \* table IMGroupRelation; a row's id is its index
  pc,         \* the statement a thread is about to run
  req,        \* the request a thread works on
  loc,        \* a thread's local variables
  reply,      \* the response a thread is about to send
  nextReq,    \* number of the next request
  answers,    \* the answers to creations that were sent (history)
  lists,      \* the lists that were sent (history)
  quits,      \* number of requests that were treated as removals (history)
  faults,     \* number of SQL statements that failed
  failed,     \* the requests of which one failed (history)
  boot        \* number of restarts

vars == <<groups, relations, pc, req, loc, reply, nextReq, answers, lists, quits, faults, failed,
          boot>>

Ids   == Users \cup {0}

(* GROUP_LIST, GROUP_DIALOG_LIST and GROUP_UNREAD_MSG_COUNT list groups of *)
(* a user, GROUP_USER_LIST the members of a group; Unread and Ack are      *)
(* GROUP_UNREAD_MSG and GROUP_MSG_READ_ACK.                                *)
UserListings == {"Fixed", "Recent", "All"}
Listings == UserListings \cup {"Members"}
Kinds == {"Create", "Join", "Quit", "Unread", "Ack"} \cup Listings

(* "named" is FALSE for a group without a name.  A group id is 0, that of  *)
(* a group or one nobody has.                                              *)
ASSUME GroupInputsAssumption ==
  Inputs \subseteq [kind : Kinds, user : Ids, users : UserLists, group : Nat,
                    named : BOOLEAN]

(* asked is what the client asked for, kind how the handler treats it.     *)
Requests == [id : Nat, asked : Kinds, kind : Kinds, user : Ids, users : UserLists,
             group : Nat]
GroupRows == [createUserId : Users, memberCnt : Int, status : {0, 1}, groupType : {1, 2},
              req : Nat]
RelationRows == [groupId : Nat, userId : Users, status : {0, 1}, groupType : {1, 2}]

(* Other programs create the fixed groups, of type 1, and dissolve groups. *)
ASSUME GroupStoredAssumption ==
  \A s \in Stored :
    /\ s.groups \in Seq(GroupRows) /\ s.relations \in Seq(RelationRows)
    /\ \A i \in DOMAIN s.relations :
         LET g == s.relations[i].groupId
         IN  g \in DOMAIN s.groups /\ s.relations[i].groupType = s.groups[g].groupType
    /\ \A g \in DOMAIN s.groups :
         /\ s.groups[g].req = 0
         /\ s.groups[g].memberCnt =
              Cardinality({i \in DOMAIN s.relations :
                             s.relations[i].groupId = g /\ s.relations[i].status = 1})
ASSUME GroupLimitsAssumption ==
  {FIXED_LIMIT, RECENT_LIMIT, ALL_LIMIT, MEMBER_LIMIT} \subseteq Nat

(* A group as a list shows it; unread is its number of unread messages.    *)
Listed == [group : Nat, members : SUBSET Users, unread : Nat]

(* group and type are of the GroupInfo a handler has read, 0 for none, and *)
(* listed the ids of those it has read for a list; missing are the places  *)
(* in the request's list of the users without a relation, and before is    *)
(* who was a member of which group when the request came (history).        *)
Locals  == [group : Nat, type : 0 .. 2, missing : SUBSET Nat, found : SUBSET Users, count : Int,
            listed : SUBSET Nat, before : SUBSET (Nat \X Users)]
Replies == [result : {0, 1}, group : Nat, list : SUBSET Listed]

NoRequest == [id |-> 0, asked |-> "Join", kind |-> "Join", user |-> 0, users |-> <<>>,
              group |-> 0]
NoLocals  == [group |-> 0, type |-> 0, missing |-> {}, found |-> {}, count |-> 0,
              listed |-> {}, before |-> {}]
NoReply   == [result |-> 0, group |-> 0, list |-> {}]

Labels == {"idle", "create_insert", "get_group", "join_select", "join_insert",
           "join_update", "join_count", "quit_select", "quit_update",
           "quit_count", "list_groups", "list_members", "reply"}

Init ==
  /\ \E s \in Stored : groups = s.groups /\ relations = s.relations
  /\ pc = [t \in Threads |-> "idle"]
  /\ req = [t \in Threads |-> NoRequest]
  /\ loc = [t \in Threads |-> NoLocals]
  /\ reply = [t \in Threads |-> NoReply]
  /\ nextReq = 1
  /\ answers = {}
  /\ lists = {}
  /\ quits = 0
  /\ faults = 0
  /\ failed = {}
  /\ boot = 0

-----------------------------------------------------------------------------
(* Auxiliary definitions.                                                  *)

Goto(t, label) == pc' = [pc EXCEPT ![t] = label]

Answer(t, answer) == Goto(t, "reply") /\ reply' = [reply EXCEPT ![t] = answer]

Finish(t, result, group) == Answer(t, [result |-> result, group |-> group, list |-> {}])

FinishList(t, list) == Answer(t, [result |-> 0, group |-> 0, list |-> list])

(* A statement fails: Query returns NULL, Execute returns one of           *)
(* ExecErrors, ExecuteInsertID returns 0, and no row changes.              *)
Fault(t) ==
  faults < MaxFault /\ faults' = faults + 1 /\ failed' = failed \cup {req[t].id}
Sound == UNCHANGED <<faults, failed>>
ExecErrors == {-1, 0}

RowsOf(g, us) ==
  {i \in DOMAIN relations : relations[i].groupId = g /\ relations[i].userId \in us}

Active(g) == {i \in DOMAIN relations : relations[i].groupId = g /\ relations[i].status = 1}

SetStatus(rows, s) ==
  [i \in DOMAIN relations |->
     IF i \in rows THEN [relations[i] EXCEPT !.status = s] ELSE relations[i]]

UsersIn(list) == {list[k] : k \in DOMAIN list}

(* SELECT status ... GROUP BY userId: one row for each user that has any,  *)
(* and any of them if there are several.                                   *)
Statuses(g, us) ==
  LET known == {u \in us : RowsOf(g, {u}) # {}}
  IN  {f \in [known -> {0, 1}] :
         \A u \in known : \E i \in RowsOf(g, {u}) : relations[i].status = f[u]}

(* The places of a set in their order: the one sequence that names each.   *)
InOrder(places) ==
  {p \in [1 .. Cardinality(places) -> places] :
     /\ \A k \in places : \E n \in DOMAIN p : p[n] = k
     /\ \A m, n \in DOMAIN p : m < n => p[m] < p[n]}

(* Mutant: only the first missing user is inserted.                        *)
NewRelationsFirst(t, p) ==
  <<[groupId |-> loc[t].group, userId |-> req[t].users[p[1]], status |-> 1,
     groupType |-> loc[t].type]>>

(* The rows of the users at the places p of the request's list.            *)
NewRelations(t, p) ==
  [n \in DOMAIN p |->
     [groupId |-> loc[t].group, userId |-> req[t].users[p[n]], status |-> 1,
      groupType |-> loc[t].type]]

-----------------------------------------------------------------------------
(* GroupCreateTmpGroupRequestHandler and CreateGroup.                      *)

(* Mutant: a group is created for the user id 0.                           *)
CreateAcceptAnyone(t, r) ==
  IF ~ r.named
  THEN Finish(t, 1, 0)
  ELSE Goto(t, "create_insert") /\ UNCHANGED reply

CreateAccept(t, r) ==
  IF r.user = 0 \/ ~ r.named
  THEN Finish(t, 1, 0)
  ELSE Goto(t, "create_insert") /\ UNCHANGED reply

(* The new group has no members yet; JoinGroup refuses an empty list.  The *)
(* INSERT has the placeholder :8 and seven parameters, and MakeQueryString *)
(* is external: the statement may be refused, also without a fault.        *)
CreateInsert(t) ==
  /\ pc[t] = "create_insert"
  /\ \/ /\ Sound
        /\ groups' = Append(groups,
             [createUserId |-> req[t].user, memberCnt |-> 0, status |-> 1,
              groupType |-> 2, req |-> req[t].id])
        /\ loc' = [loc EXCEPT ![t].group = Len(groups) + 1, ![t].type = 2]
        /\ IF req[t].users = <<>>
           THEN Finish(t, 1, 0)
           ELSE Goto(t, "join_select") /\ UNCHANGED reply
     \/ Sound /\ Finish(t, 1, 0) /\ UNCHANGED <<groups, loc>>
  /\ UNCHANGED <<relations, req, nextReq, answers, lists, quits, boot>>

-----------------------------------------------------------------------------
(* GroupChangeMemberRequestHandler: GetGroupInfo, then JoinGroup or        *)
(* QuitGroup; the answer is 0 whatever they return.                        *)

ChangeAccept(t, r) ==
  IF r.group = 0
  THEN Finish(t, 0, 0)
  ELSE Goto(t, "get_group") /\ UNCHANGED reply

(* Mutant: anybody may remove members.                                     *)
MayChangeAnyone(t) == req[t].users # <<>>

(* JoinGroup refuses an empty list; QuitGroup also one that does not come  *)
(* from the group's creator.                                               *)
MayChange(t) ==
  /\ req[t].users # <<>>
  /\ req[t].kind = "Quit" =>
       req[t].user # 0 /\ req[t].user = groups[req[t].group].createUserId

(* Mutant: the result of GetGroupInfo is not looked at.                    *)
GetGroupInfoUnchecked(t) ==
  /\ pc[t] = "get_group"
  /\ Sound
  /\ req[t].kind \in {"Join", "Quit"} /\ req[t].users # <<>>
  /\ loc' = [loc EXCEPT ![t].group = req[t].group]
  /\ Goto(t, IF req[t].kind = "Join" THEN "join_select" ELSE "quit_select")
  /\ UNCHANGED <<groups, relations, req, reply, nextReq, answers, lists, quits, boot>>

(* A GroupInfo is read of a group that was not dissolved.                  *)
Found(g) == g \in DOMAIN groups /\ groups[g].status >= 1

GetGroupInfo(t) ==
  /\ pc[t] = "get_group"
  /\ \/ /\ Sound
        /\ Found(req[t].group)
        /\ loc' = [loc EXCEPT ![t].group = req[t].group,
                              ![t].type = groups[req[t].group].groupType]
        /\ \/ /\ req[t].kind = "Members"
              /\ Goto(t, "list_members") /\ UNCHANGED reply
           \/ /\ req[t].kind \in {"Join", "Quit"} /\ MayChange(t)
              /\ Goto(t, IF req[t].kind = "Join" THEN "join_select" ELSE "quit_select")
              /\ UNCHANGED reply
           \/ req[t].kind \in {"Join", "Quit"} /\ ~ MayChange(t) /\ Finish(t, 0, 0)
     \/ /\ \/ Sound /\ ~ Found(req[t].group)
           \/ Fault(t)
        /\ Finish(t, IF req[t].kind = "Members" THEN 1 ELSE 0, 0)
        /\ UNCHANGED loc
  /\ UNCHANGED <<groups, relations, req, nextReq, answers, lists, quits, boot>>

-----------------------------------------------------------------------------
(* JoinGroup.                                                              *)

AfterInsert(found) == IF found = {} THEN "join_count" ELSE "join_update"

JoinSelect(t) ==
  /\ pc[t] = "join_select"
  /\ \E f \in Statuses(loc[t].group, UsersIn(req[t].users)) \cup {<<>>} :
       /\ IF f \in Statuses(loc[t].group, UsersIn(req[t].users)) THEN Sound ELSE Fault(t)
       /\ LET missing == {k \in DOMAIN req[t].users : req[t].users[k] \notin DOMAIN f}
              found   == {u \in DOMAIN f : f[u] = 0}
          IN  /\ loc' = [loc EXCEPT ![t].missing = missing, ![t].found = found,
                                    ![t].count = 0]
              /\ Goto(t, IF missing # {} THEN "join_insert" ELSE AfterInsert(found))
  /\ UNCHANGED <<groups, relations, req, reply, nextReq, answers, lists, quits, boot>>

JoinInsert(t) ==
  /\ pc[t] = "join_insert"
  /\ \/ /\ Sound
        /\ \E p \in InOrder(loc[t].missing) : relations' = relations \o NewRelations(t, p)
        /\ loc' = [loc EXCEPT ![t].count = Cardinality(loc[t].missing)]
     \/ /\ Fault(t)
        /\ \E e \in ExecErrors : loc' = [loc EXCEPT ![t].count = e]
        /\ UNCHANGED relations
  /\ Goto(t, AfterInsert(loc[t].found))
  /\ UNCHANGED <<groups, req, reply, nextReq, answers, lists, quits, boot>>

(* Mutant: users are counted as back in the group without an UPDATE.       *)
JoinUpdateSkipped(t) ==
  /\ pc[t] = "join_update"
  /\ Sound
  /\ Goto(t, "join_count")
  /\ loc' = [loc EXCEPT ![t].count = @ + Cardinality(loc[t].found)]
  /\ UNCHANGED <<groups, relations, req, reply, nextReq, answers, lists, quits, boot>>

(* Execute returns the number of rows whose status really changed.         *)
JoinUpdate(t) ==
  /\ pc[t] = "join_update"
  /\ LET rows == RowsOf(loc[t].group, loc[t].found)
     IN  \/ /\ Sound
            /\ relations' = SetStatus(rows, 1)
            /\ loc' = [loc EXCEPT ![t].count =
                 @ + Cardinality({i \in rows : relations[i].status = 0})]
         \/ /\ Fault(t)
            /\ \E e \in ExecErrors : loc' = [loc EXCEPT ![t].count = @ + e]
            /\ UNCHANGED relations
  /\ Goto(t, "join_count")
  /\ UNCHANGED <<groups, req, reply, nextReq, answers, lists, quits, boot>>

AddCount(g, n) == [groups EXCEPT ![g].memberCnt = @ + n]

(* The result of the last UPDATE is ignored: JoinGroup returns true.       *)
JoinCount(t) ==
  /\ pc[t] = "join_count"
  /\ \/ Sound /\ groups' = AddCount(loc[t].group, loc[t].count)
     \/ Fault(t) /\ UNCHANGED groups
  /\ Finish(t, 0, IF req[t].kind = "Create" THEN loc[t].group ELSE 0)
  /\ UNCHANGED <<relations, req, loc, nextReq, answers, lists, quits, boot>>

-----------------------------------------------------------------------------
(* QuitGroup.                                                              *)

QuitSelect(t) ==
  /\ pc[t] = "quit_select"
  /\ \E f \in Statuses(loc[t].group, UsersIn(req[t].users)) \cup {<<>>} :
       /\ IF f \in Statuses(loc[t].group, UsersIn(req[t].users)) THEN Sound ELSE Fault(t)
       /\ LET found == {u \in DOMAIN f : f[u] # 0}
          IN  /\ loc' = [loc EXCEPT ![t].found = found, ![t].count = 0]
              /\ Goto(t, IF found = {} THEN "quit_count" ELSE "quit_update")
  /\ UNCHANGED <<groups, relations, req, reply, nextReq, answers, lists, quits, boot>>

(* The statement also sets "updated" to the current time, so a row that    *)
(* had left the group already counts as changed unless the times agree.    *)
QuitUpdate(t) ==
  /\ pc[t] = "quit_update"
  /\ LET rows == RowsOf(loc[t].group, loc[t].found)
         left == {i \in rows : relations[i].status = 1}
     IN  \/ /\ Sound
            /\ relations' = SetStatus(rows, 0)
            /\ \E n \in Cardinality(left) .. Cardinality(rows) :
                 loc' = [loc EXCEPT ![t].count = - n]
         \/ /\ Fault(t)
            /\ \E e \in ExecErrors : loc' = [loc EXCEPT ![t].count = - e]
            /\ UNCHANGED relations
  /\ Goto(t, "quit_count")
  /\ UNCHANGED <<groups, req, reply, nextReq, answers, lists, quits, boot>>

QuitCount(t) ==
  /\ pc[t] = "quit_count"
  /\ \/ Sound /\ groups' = AddCount(loc[t].group, loc[t].count)
     \/ Fault(t) /\ UNCHANGED groups
  /\ Finish(t, 0, 0)
  /\ UNCHANGED <<relations, req, loc, nextReq, answers, lists, quits, boot>>

-----------------------------------------------------------------------------
(* The lists: the groups of a user, then the members of all of them, or    *)
(* the members of one group.                                               *)

(* What a SELECT with a LIMIT returns, in an order the model does not have *)
(* (rows are ordered by the times their writers took before writing).      *)
Limited(rows, limit) ==
  IF Cardinality(rows) <= limit THEN {rows} ELSE kSubset(limit, rows)

(* Mutant: the user is not compared.                                       *)
MembershipsOfAll(user, kind) ==
  {i \in DOMAIN relations :
     relations[i].status >= 1 /\ (kind = "Fixed" => relations[i].groupType = 1)}

Memberships(user, kind) ==
  {i \in DOMAIN relations : /\ relations[i].userId = user
                            /\ relations[i].status >= 1
                            /\ kind = "Fixed" => relations[i].groupType = 1}

(* The relations whose groups are read; a dissolved group is read too.     *)
GetGroupsByUserId(user) == Limited(Memberships(user, "Fixed"), FIXED_LIMIT)
GetRecentGroupsByUserId(user) == Limited(Memberships(user, "Recent"), RECENT_LIMIT)
GetGroupIdsByUserId(user) == Limited(Memberships(user, "All"), ALL_LIMIT)

SelectGroups(user, kind) ==
  CASE kind = "Fixed"  -> GetGroupsByUserId(user)
    [] kind = "Recent" -> GetRecentGroupsByUserId(user)
    [] kind = "All"    -> GetGroupIdsByUserId(user)

(* The counters of group messages: IncrGroupMsgCount is empty, so the map  *)
(* is too, whichever of its keys is asked for.                             *)
group_counter_instance == <<>>
GROUP_UNREAD_MAX_COUNTER == 150

GetGroupTotalCount(g) ==
  IF g \in DOMAIN group_counter_instance THEN group_counter_instance[g].total ELSE 0

GetUserGroupCount(user, g) ==
  IF user = 0 \/ g = 0 \/ GetGroupTotalCount(g) = 0 THEN 0
  ELSE LET read == group_counter_instance[g].read
       IN  IF user \in DOMAIN read
           THEN Min({GetGroupTotalCount(g) - read[user], GROUP_UNREAD_MAX_COUNTER})
           ELSE 0

(* GetUserGroupUnreadCount counts for each group without a statement.      *)
ListGroups(t) ==
  /\ pc[t] = "list_groups"
  /\ \/ /\ Sound
        /\ \E rows \in SelectGroups(req[t].user, req[t].kind) :
             LET ids == {relations[i].groupId : i \in rows} \cap DOMAIN groups
             IN  \/ /\ req[t].kind # "All" /\ ids # {}
                    /\ loc' = [loc EXCEPT ![t].listed = ids]
                    /\ Goto(t, "list_members")
                    /\ UNCHANGED reply
                 \/ /\ req[t].kind = "All" \/ ids = {}
                    /\ FinishList(t, {[group |-> g, members |-> {},
                                       unread |-> GetUserGroupCount(req[t].user, g)] : g \in ids})
                    /\ UNCHANGED loc
     \/ Fault(t) /\ FinishList(t, {}) /\ UNCHANGED loc
  /\ UNCHANGED <<groups, relations, req, nextReq, answers, lists, quits, boot>>

ListedIds(t) == IF req[t].kind = "Members" THEN {loc[t].group} ELSE loc[t].listed

(* A failed SELECT leaves the groups without members.                      *)
GetGroupMembers(t) ==
  /\ pc[t] = "list_members"
  /\ LET all == {i \in DOMAIN relations :
                   relations[i].groupId \in ListedIds(t) /\ relations[i].status >= 1}
     IN  \E rows \in Limited(all, MEMBER_LIMIT) \cup {{}} :
           /\ IF rows \in Limited(all, MEMBER_LIMIT) THEN Sound ELSE Fault(t)
           /\ FinishList(t,
                {[group |-> g, unread |-> 0,
                  members |-> {relations[i].userId : i \in {j \in rows : relations[j].groupId = g}}]
                   : g \in ListedIds(t)})
  /\ UNCHANGED <<groups, relations, req, loc, nextReq, answers, lists, quits, boot>>

(* GroupListRequestHandler, GroupDialogListRequestHandler and              *)
(* GroupUnreadMsgCountRequestHandler list nothing for the user id 0,       *)
(* GroupUserListRequestHandler answers 1 for the group id 0.               *)
ListAccept(t, r) ==
  \/ /\ r.kind \in UserListings
     /\ IF r.user = 0 THEN FinishList(t, {}) ELSE Goto(t, "list_groups") /\ UNCHANGED reply
  \/ /\ r.kind = "Members"
     /\ IF r.group = 0 THEN Finish(t, 1, 0) ELSE Goto(t, "get_group") /\ UNCHANGED reply

(* GroupUnreadMsgRequestHandler: GetGroupMessagesFromId is empty.          *)
(* GroupMsgReadAckHandler: ClearUserGroupCounter finds nothing to clear.   *)
CounterAccept(t, r) == r.kind \in {"Unread", "Ack"} /\ Finish(t, 0, 0)

-----------------------------------------------------------------------------

(* GroupChangeMemberRequest::ParseFromByteStream reads the first word of   *)
(* the packet into req_user_id and then overwrites it: change_type is      *)
(* never set, and the handler's test finds whatever was in memory.         *)
ParsedKinds(r) == IF r.kind \in {"Join", "Quit"} THEN {"Join", "Quit"} ELSE {r.kind}

(* Who is a member of which group.                                         *)
Belonging ==
  {<<relations[i].groupId, relations[i].userId>> :
     i \in {j \in DOMAIN relations : relations[j].status = 1}}

Accept(t) ==
  /\ pc[t] = "idle"
  /\ nextReq <= MaxReq
  /\ \E r \in Inputs : \E kind \in ParsedKinds(r) :
       /\ req' = [req EXCEPT ![t] = [id |-> nextReq, asked |-> r.kind, kind |-> kind,
                                     user |-> r.user, users |-> r.users,
                                     group |-> r.group]]
       /\ loc' = [loc EXCEPT ![t].before = IF kind \in Listings THEN Belonging ELSE {}]
       /\ \/ r.kind = "Create" /\ CreateAccept(t, r)
          \/ r.kind \in {"Join", "Quit"} /\ ChangeAccept(t, r)
          \/ ListAccept(t, r)
          \/ CounterAccept(t, r)
       /\ quits' = IF kind = "Quit" THEN quits + 1 ELSE quits
  /\ nextReq' = nextReq + 1
  /\ UNCHANGED <<groups, relations, answers, lists, faults, failed, boot>>

SendSessionData(t) ==
  /\ pc[t] = "reply"
  /\ answers' = IF req[t].kind # "Create" THEN answers ELSE answers \cup
       {[id |-> req[t].id, users |-> UsersIn(req[t].users),
         result |-> reply[t].result, group |-> reply[t].group]}
  /\ lists' = IF req[t].kind \notin Listings THEN lists ELSE lists \cup
       {[id |-> req[t].id, kind |-> req[t].kind, user |-> req[t].user,
         before |-> loc[t].before, list |-> reply[t].list]}
  /\ Goto(t, "idle")
  /\ req' = [req EXCEPT ![t] = NoRequest]
  /\ loc' = [loc EXCEPT ![t] = NoLocals]
  /\ reply' = [reply EXCEPT ![t] = NoReply]
  /\ UNCHANGED <<groups, relations, nextReq, quits, faults, failed, boot>>

(* The process dies and starts again with the tables it left.              *)
Restart ==
  /\ boot < MaxBoot
  /\ boot' = boot + 1
  /\ pc' = [t \in Threads |-> "idle"]
  /\ req' = [t \in Threads |-> NoRequest]
  /\ loc' = [t \in Threads |-> NoLocals]
  /\ reply' = [t \in Threads |-> NoReply]
  /\ UNCHANGED <<groups, relations, nextReq, answers, lists, quits, faults, failed>>

Work(t) ==
  \/ CreateInsert(t) \/ GetGroupInfo(t) \/ JoinSelect(t) \/ JoinInsert(t)
  \/ JoinUpdate(t) \/ JoinCount(t) \/ QuitSelect(t) \/ QuitUpdate(t)
  \/ QuitCount(t) \/ ListGroups(t) \/ GetGroupMembers(t) \/ SendSessionData(t)

Next == Restart \/ \E t \in Threads : Accept(t) \/ Work(t)

Spec == Init /\ [][Next]_vars

-----------------------------------------------------------------------------
(* Properties.                                                             *)

(* The tables and the threads' variables hold values of their types.       *)
TypeOK ==
  /\ groups \in Seq(GroupRows)
  /\ relations \in Seq(RelationRows)
  /\ pc \in [Threads -> Labels]
  /\ req \in [Threads -> Requests]
  /\ loc \in [Threads -> Locals]
  /\ reply \in [Threads -> Replies]
  /\ nextReq \in Nat
  /\ answers \subseteq [id : Nat, users : SUBSET Users, result : {0, 1}, group : Nat]
  /\ lists \subseteq [id : Nat, kind : Listings, user : Ids, before : SUBSET (Nat \X Users),
                      list : SUBSET Listed]
  /\ quits \in Nat
  /\ faults \in Nat
  /\ failed \subseteq Nat
  /\ boot \in Nat

(* JoinGroup: every relation belongs to a group that exists, whatever      *)
(* fails between the statements that create the group and its relations.   *)
RelationsHaveGroup ==
  \A i \in DOMAIN relations : relations[i].groupId \in DOMAIN groups

(* QuitGroup: a member leaves only through a request of the creator of its *)
(* group that lists it, however requests interleave.                       *)
QuitOnlyByCreator ==
  [][\A i \in DOMAIN relations :
       relations[i].status = 1 /\ relations'[i].status = 0 =>
         \E t \in Threads :
           /\ pc[t] = "quit_update"
           /\ req[t].user = groups[relations[i].groupId].createUserId
           /\ relations[i].userId \in UsersIn(req[t].users)]_vars

(* GroupCreateTmpGroupRequestHandler: result 0 names the group stored for  *)
(* this request, and every listed user has a relation to it unless one of  *)
(* the request's own statements failed, which JoinGroup ignores.  No other *)
(* group is stored for it, and none at all when the answer is 1, but for   *)
(* the empty list that JoinGroup refuses after the group is stored.        *)
CreateAnswersTellTruth ==
  \A a \in answers :
    /\ a.result = 0 =>
         /\ a.group \in DOMAIN groups
         /\ groups[a.group].req = a.id
         /\ a.id \notin failed => \A u \in a.users : RowsOf(a.group, {u}) # {}
    /\ a.users # {} =>
         \A g \in DOMAIN groups : groups[g].req = a.id => a.result = 0 /\ a.group = g

(* What the handlers ts hold in their counts, unit by unit.                *)
Units(ts, cnt) == UNION {{t} \X (1 .. cnt[t]) : t \in ts}

(* What the handlers under way are still to add to a group's memberCnt and *)
(* to take from it.                                                        *)
Counting(g) ==
  {t \in Threads : loc[t].group = g /\ pc[t] \in {"join_update", "join_count", "quit_count"}}
ToAdd(g)  == Units(Counting(g), [t \in Threads |-> loc[t].count])
ToTake(g) == Units(Counting(g), [t \in Threads |-> - loc[t].count])

(* What failed statements and deaths of the process may cost a group: one  *)
(* failed UPDATE of memberCnt, or one handler that died before it, as much *)
(* as the group has relations; a result of -1 that is added as a count, 1. *)
Losses == faults + boot * Cardinality(Threads)
Cost(g) == Max({1, Cardinality(RowsOf(g, Users))})
Lost(g) == Losses * Cost(g)

(* No stored user is in a group by one relation and out of it by another.  *)
StoredAlike ==
  \A s \in Stored : \A i, j \in DOMAIN s.relations :
    s.relations[i].groupId = s.relations[j].groupId /\ s.relations[i].userId = s.relations[j].userId
      => s.relations[i].status = s.relations[j].status

(* JoinGroup and QuitGroup change relations in one statement and memberCnt *)
(* in a later one.  However they interleave, memberCnt and what is still   *)
(* to be added never exceed the number of active relations by more than    *)
(* was lost.  Nor do they fall below it by more before the first removal,  *)
(* or before the second one if the relations of a user were alike when the *)
(* process started; removals count rows again that had left already.       *)
(* Without faults and deaths joins are thus always counted exactly,        *)
(* duplicate relations included.                                           *)
MemberCntTracks ==
  \A g \in DOMAIN groups :
    LET counted == groups[g].memberCnt + Cardinality(ToAdd(g)) - Cardinality(ToTake(g))
        active  == Cardinality(Active(g))
    IN  /\ counted <= active + Lost(g)
        /\ quits = 0 \/ (quits = 1 /\ StoredAlike) => counted >= active - Lost(g)

(* The relations of a set of groups.                                       *)
RelationsOf(gs) == {i \in DOMAIN relations : relations[i].groupId \in gs}

(* The handlers of the lists read groups and members in two statements,    *)
(* between which others join and leave.  A list shows groups the user has  *)
(* a relation to, with members that have one.  While nobody was removed,   *)
(* whatever statements of other requests fail: unless one of its own       *)
(* failed, every group of the user is listed or he has more of them than   *)
(* the limit, and whoever was a member when the request came is shown, and *)
(* the user in each group, or the groups listed have more relations than   *)
(* MEMBER_LIMIT, which they share.                                         *)
ListsTellTruth ==
  \A a \in lists :
    /\ \A l \in a.list : l.group \in DOMAIN groups /\ \A u \in l.members : RowsOf(l.group, {u}) # {}
    /\ a.kind \in UserListings => \A l \in a.list : RowsOf(l.group, {a.user}) # {}
    /\ quits = 0 /\ a.id \notin failed =>
         /\ a.kind \in UserListings =>
              \/ Memberships(a.user, a.kind) \notin SelectGroups(a.user, a.kind)
              \/ \A p \in a.before :
                   p[2] = a.user /\ (a.kind = "Fixed" => groups[p[1]].groupType = 1)
                     => \E l \in a.list : l.group = p[1]
         /\ a.kind # "All" =>
              \/ Cardinality(RelationsOf({l.group : l \in a.list})) > MEMBER_LIMIT
              \/ \A l \in a.list :
                   /\ {p[2] : p \in {q \in a.before : q[1] = l.group}} \subseteq l.members
                   /\ a.kind \in UserListings => a.user \in l.members

-----------------------------------------------------------------------------
(* A statement of the repository's test that the code does not meet.       *)

(* zaresd_test.cc: change_type 1 is QuitGroup and 0 is JoinGroup, so a     *)
(* request that asks to join removes nobody.                               *)
ChangeTypeHonoured ==
  [][\A t \in Threads :
       QuitUpdate(t) /\ relations' # relations => req[t].asked = "Quit"]_vars
=============================================================================
