------------------------- MODULE GroupManagerProofs -------------------------
(***************************************************************************)
(* Theorems about GroupManager, for every set of users, threads, requests  *)
(* and stored tables, every limit of the lists and every bound.            *)
(***************************************************************************)
EXTENDS GroupManager, SequenceTheorems, FiniteSetTheorems, TLAPS

JoinLabels == {"join_select", "join_insert", "join_update", "join_count"}
QuitLabels == {"quit_select", "quit_update", "quit_count"}

(* A user has a relation to a group, whatever its status.                  *)
Related(g, u) == \E i \in DOMAIN relations : relations[i].groupId = g /\ relations[i].userId = u

(* A relation belongs to a group and has its type.                         *)
RelationsOK ==
  \A i \in DOMAIN relations :
    /\ relations[i].groupId \in DOMAIN groups
    /\ relations[i].groupType = groups[relations[i].groupId].groupType

(* A handler past its checks has a request of its kind; the GroupInfo it   *)
(* holds is still what the table says, and a removal is of the creator.    *)
WorkOK(t) ==
  /\ pc[t] = "create_insert" => req[t].kind = "Create" /\ req[t].user \in Users
  /\ pc[t] = "get_group" => req[t].kind \in {"Join", "Quit", "Members"}
  /\ pc[t] \in JoinLabels =>
       /\ req[t].kind \in {"Create", "Join"}
       /\ loc[t].group \in DOMAIN groups
       /\ loc[t].type = groups[loc[t].group].groupType
  /\ pc[t] \in QuitLabels =>
       /\ req[t].kind = "Quit"
       /\ loc[t].group \in DOMAIN groups
       /\ req[t].user = groups[loc[t].group].createUserId
  /\ pc[t] = "join_insert" => loc[t].missing \subseteq DOMAIN req[t].users
  /\ pc[t] \in {"join_insert", "join_update", "quit_update"} =>
       loc[t].found \subseteq UsersIn(req[t].users)
  /\ pc[t] = "list_groups" => req[t].kind \in UserListings /\ req[t].user \in Users
  /\ pc[t] = "list_members" =>
       /\ req[t].kind \in {"Fixed", "Recent", "Members"}
       /\ req[t].kind = "Members" => loc[t].group \in DOMAIN groups
  /\ pc[t] # "idle" /\ req[t].kind = "Quit" => quits > 0

(* What a creation promises: the group is the request's, and its users     *)
(* have relations unless a statement of the request failed.                *)
Created(g, id)  == g \in DOMAIN groups /\ groups[g].req = id
AllJoined(id, g, us) == id \notin failed => \A u \in us : Related(g, u)

CreateOK(t) ==
  req[t].kind = "Create" =>
    /\ pc[t] \in JoinLabels => Created(loc[t].group, req[t].id)
    /\ pc[t] = "join_insert" =>
         AllJoined(req[t].id, loc[t].group,
                   {req[t].users[k] : k \in DOMAIN req[t].users \ loc[t].missing})
    /\ pc[t] \in {"join_update", "join_count"} =>
         AllJoined(req[t].id, loc[t].group, UsersIn(req[t].users))
    /\ pc[t] = "reply" /\ reply[t].result = 0 =>
         /\ Created(reply[t].group, req[t].id)
         /\ AllJoined(req[t].id, reply[t].group, UsersIn(req[t].users))

(* The limit of a list of groups, and that the user has more of them.      *)
LimitOf(kind) == CASE kind = "Fixed" -> FIXED_LIMIT [] kind = "Recent" -> RECENT_LIMIT
                   [] kind = "All" -> ALL_LIMIT
Over(user, kind) == Cardinality(Memberships(user, kind)) > LimitOf(kind)

(* The groups of a user that a list of a kind is about, of those in before. *)
Wanted(user, kind, before) ==
  {p[1] : p \in {q \in before : /\ q[2] = user
                                /\ kind = "Fixed" => groups[q[1]].groupType = 1}}

(* ids are groups of the user, and all of them unless a limit was reached  *)
(* or a statement of the request failed.                                   *)
GroupsRead(id, user, kind, before, ids) ==
  /\ \A g \in ids : /\ g \in DOMAIN groups /\ Related(g, user)
                    /\ quits = 0 => <<g, user>> \in Belonging
  /\ quits = 0 /\ id \notin failed /\ ~ Over(user, kind) => Wanted(user, kind, before) \subseteq ids

(* Groups have more relations than one SELECT of members returns.          *)
Crowded(gs) == Cardinality(RelationsOf(gs)) > MEMBER_LIMIT

(* What the list of request id promises.                                   *)
ListTrue(id, kind, user, before, list) ==
  /\ \A l \in list : l.group \in DOMAIN groups /\ \A u \in l.members : Related(l.group, u)
  /\ kind \in UserListings => \A l \in list : Related(l.group, user)
  /\ quits = 0 /\ id \notin failed =>
       /\ kind \in UserListings =>
            Over(user, kind) \/ Wanted(user, kind, before) \subseteq {l.group : l \in list}
       /\ kind # "All" /\ ~ Crowded({l.group : l \in list}) =>
            \A l \in list : /\ {p[2] : p \in {q \in before : q[1] = l.group}} \subseteq l.members
                            /\ kind \in UserListings => user \in l.members

ListOK(t) ==
  /\ quits = 0 => loc[t].before \subseteq Belonging
  /\ pc[t] = "list_members" /\ req[t].kind \in UserListings =>
       GroupsRead(req[t].id, req[t].user, req[t].kind, loc[t].before, loc[t].listed)
  /\ pc[t] = "reply" /\ req[t].kind \in Listings =>
       ListTrue(req[t].id, req[t].kind, req[t].user, loc[t].before, reply[t].list)

(* What was sent stays true.                                               *)
SentOK ==
  /\ \A a \in answers : a.result = 0 => Created(a.group, a.id) /\ AllJoined(a.id, a.group, a.users)
  /\ \A a \in lists : /\ ListTrue(a.id, a.kind, a.user, a.before, a.list)
                      /\ quits = 0 => a.before \subseteq Belonging

IInv ==
  /\ TypeOK /\ RelationsOK /\ SentOK
  /\ \A t \in Threads : WorkOK(t) /\ CreateOK(t) /\ ListOK(t)

(* Requests have numbers of their own.                                     *)
Busy(t) == pc[t] # "idle"
NumbersOK ==
  /\ \A g \in DOMAIN groups : groups[g].req < nextReq
  /\ \A a \in answers : a.id < nextReq
  /\ \A t \in Threads : Busy(t) =>
       /\ req[t].id < nextReq
       /\ \A a \in answers : a.id # req[t].id
       /\ \A o \in Threads : o # t /\ Busy(o) => req[o].id # req[t].id

(* Of a creation with users only one group is stored: the one its handler  *)
(* joins them to, and answers with 0.                                      *)
SoleOK(t) ==
  Busy(t) /\ req[t].kind = "Create" /\ UsersIn(req[t].users) # {} =>
    \A g \in DOMAIN groups : groups[g].req = req[t].id =>
      /\ pc[t] \in JoinLabels \cup {"reply"}
      /\ pc[t] \in JoinLabels => loc[t].group = g
      /\ pc[t] = "reply" => reply[t].result = 0 /\ reply[t].group = g

SoleSent ==
  \A a \in answers : a.users # {} =>
    \A g \in DOMAIN groups : groups[g].req = a.id => a.result = 0 /\ a.group = g

SoleInv == NumbersOK /\ SoleSent /\ \A t \in Threads : SoleOK(t)

(* Rows of the two tables are never deleted: a group keeps its creator,    *)
(* type and status, a relation its group and user, and a member stays one  *)
(* as long as no request was treated as a removal.                         *)
RowsKept ==
  /\ Len(groups) <= Len(groups') /\ Len(relations) <= Len(relations')
  /\ \A g \in DOMAIN groups :
       /\ groups'[g].createUserId = groups[g].createUserId
       /\ groups'[g].groupType = groups[g].groupType
       /\ groups'[g].status = groups[g].status
       /\ groups'[g].req = groups[g].req
  /\ \A i \in DOMAIN relations :
       /\ relations'[i].groupId = relations[i].groupId
       /\ relations'[i].userId = relations[i].userId
       /\ relations'[i].groupType = relations[i].groupType
       /\ quits = 0 /\ relations[i].status = 1 => relations'[i].status = 1

-----------------------------------------------------------------------------
(* What the statements do to the tables.                                   *)

(* The rows of a user in a group are its relations to it.                  *)
LEMMA RelatedRows ==
  ASSUME NEW g, NEW u
  PROVE  RowsOf(g, {u}) # {} <=> Related(g, u)
  BY DEF RowsOf, Related

(* The tables are finite sequences of rows.                                *)
LEMMA TableTypes ==
  ASSUME TypeOK
  PROVE  /\ Len(groups) \in Nat /\ DOMAIN groups = 1 .. Len(groups)
         /\ Len(relations) \in Nat /\ DOMAIN relations = 1 .. Len(relations)
         /\ \A g \in DOMAIN groups : groups[g] \in GroupRows
         /\ \A i \in DOMAIN relations : relations[i] \in RelationRows
  BY LenProperties, ElementOfSeq DEF TypeOK

(* A set of rows is finite and not larger than its table.                  *)
LEMMA RowsFinite ==
  ASSUME TypeOK, NEW rows \in SUBSET DOMAIN relations
  PROVE  IsFiniteSet(rows) /\ Cardinality(rows) \in Nat /\ Cardinality(rows) <= Len(relations)
  <1>1. Len(relations) \in Nat /\ DOMAIN relations = 1 .. Len(relations)
    BY TableTypes
  <1>2. IsFiniteSet(1 .. Len(relations)) /\ Cardinality(1 .. Len(relations)) = Len(relations)
    BY <1>1, FS_Interval
  <1> QED BY <1>1, <1>2, FS_Subset, FS_CardinalityType

(* UPDATE ... SET status changes the status of some rows and nothing else. *)
LEMMA SetStatusShape ==
  ASSUME TypeOK, NEW rows, NEW s \in {0, 1}
  PROVE  /\ SetStatus(rows, s) \in Seq(RelationRows)
         /\ Len(SetStatus(rows, s)) = Len(relations)
         /\ \A i \in DOMAIN relations :
              /\ SetStatus(rows, s)[i].groupId = relations[i].groupId
              /\ SetStatus(rows, s)[i].userId = relations[i].userId
              /\ SetStatus(rows, s)[i].groupType = relations[i].groupType
              /\ SetStatus(rows, s)[i].status = IF i \in rows THEN s ELSE relations[i].status
  <1> DEFINE n == Len(relations)
             new == SetStatus(rows, s)
  <1>1. /\ n \in Nat /\ DOMAIN relations = 1 .. n
        /\ \A i \in 1 .. n : relations[i] \in RelationRows
    BY TableTypes
  <1>2. ASSUME NEW i \in 1 .. n
        PROVE  new[i] = IF i \in rows THEN [relations[i] EXCEPT !.status = s] ELSE relations[i]
    BY <1>1 DEF SetStatus
  <1>3. ASSUME NEW i \in 1 .. n
        PROVE  /\ new[i] \in RelationRows
               /\ new[i].groupId = relations[i].groupId
               /\ new[i].userId = relations[i].userId
               /\ new[i].groupType = relations[i].groupType
               /\ new[i].status = IF i \in rows THEN s ELSE relations[i].status
    <2> HIDE DEF new
    <2> QED BY <1>1, <1>2 DEF RelationRows
  <1>4. DOMAIN new = 1 .. n /\ new = [i \in 1 .. n |-> new[i]]
    BY <1>1 DEF SetStatus
  <1>5. new \in [1 .. n -> RelationRows]
    <2> HIDE DEF new
    <2> QED BY <1>3, <1>4
  <1> HIDE DEF new
  <1>6. new \in Seq(RelationRows)
    BY <1>1, <1>5, SeqDef
  <1>7. Len(new) = n
    BY <1>1, <1>4, <1>6, LenProperties
  <1> QED BY <1>1, <1>3, <1>6, <1>7 DEF new

(* The INSERT of JoinGroup adds a row for every missing user of the list,  *)
(* and only such rows.                                                     *)
LEMMA InsertShape ==
  ASSUME TypeOK, NEW t \in Threads, WorkOK(t), pc[t] = "join_insert",
         NEW p \in InOrder(loc[t].missing),
         relations' = relations \o NewRelations(t, p)
  PROVE  /\ relations' \in Seq(RelationRows)
         /\ Cardinality(loc[t].missing) \in Nat
         /\ Len(relations') = Len(relations) + Cardinality(loc[t].missing)
         /\ \A i \in DOMAIN relations : relations'[i] = relations[i]
         /\ \A i \in DOMAIN relations' \ DOMAIN relations :
              /\ relations'[i].groupId = loc[t].group
              /\ relations'[i].groupType = loc[t].type
              /\ relations'[i].status = 1
              /\ \E k \in loc[t].missing : relations'[i].userId = req[t].users[k]
         /\ \A k \in loc[t].missing :
              \E i \in DOMAIN relations' : /\ relations'[i].groupId = loc[t].group
                                           /\ relations'[i].userId = req[t].users[k]
  <1> DEFINE new == NewRelations(t, p)
             m == Cardinality(loc[t].missing)
  <1>1. /\ Len(relations) \in Nat /\ DOMAIN relations = 1 .. Len(relations)
        /\ relations \in Seq(RelationRows)
    BY TableTypes DEF TypeOK
  <1>2. /\ req[t].users \in Seq(Users) /\ loc[t].missing \subseteq DOMAIN req[t].users
        /\ loc[t].group \in DOMAIN groups /\ loc[t].group \in Nat /\ loc[t].type \in {1, 2}
    <2>1. req[t] \in Requests /\ loc[t] \in Locals
      BY DEF TypeOK
    <2>2. groups[loc[t].group] \in GroupRows
      BY TableTypes DEF WorkOK, JoinLabels
    <2> QED BY <2>1, <2>2, UserListsAssumption DEF WorkOK, JoinLabels, Requests, Locals, GroupRows
  <1>3. m \in Nat
    <2>1. Len(req[t].users) \in Nat /\ DOMAIN req[t].users = 1 .. Len(req[t].users)
      BY <1>2, LenProperties
    <2>2. IsFiniteSet(1 .. Len(req[t].users))
      BY <2>1, FS_Interval
    <2> QED BY <1>2, <2>1, <2>2, FS_Subset, FS_CardinalityType
  <1>4. /\ p \in [1 .. m -> loc[t].missing]
        /\ \A k \in loc[t].missing : \E n \in DOMAIN p : p[n] = k
    BY DEF InOrder
  <1>5. ASSUME NEW n \in 1 .. m
        PROVE  /\ req[t].users[p[n]] \in Users
               /\ new[n] = [groupId |-> loc[t].group, userId |-> req[t].users[p[n]], status |-> 1,
                            groupType |-> loc[t].type]
    BY <1>2, <1>4, LenProperties, ElementOfSeq DEF NewRelations
  <1>6. ASSUME NEW n \in 1 .. m
        PROVE  /\ new[n] \in RelationRows
               /\ new[n].groupId = loc[t].group /\ new[n].userId = req[t].users[p[n]]
               /\ new[n].groupType = loc[t].type /\ new[n].status = 1
    <2> DEFINE g == loc[t].group
               u == req[t].users[p[n]]
               y == loc[t].type
    <2>1. g \in Nat /\ u \in Users /\ y \in {1, 2}
      BY <1>2, <1>5
    <2>2. new[n] = [groupId |-> g, userId |-> u, status |-> 1, groupType |-> y]
      BY <1>5
    <2> HIDE DEF new, g, u, y
    <2>3. /\ new[n] \in RelationRows
          /\ new[n].groupId = g /\ new[n].userId = u /\ new[n].groupType = y
          /\ new[n].status = 1
      BY <2>1, <2>2 DEF RelationRows
    <2> QED BY <2>3 DEF g, u, y
  <1>7. DOMAIN new = 1 .. m /\ new = [n \in 1 .. m |-> new[n]]
    BY <1>4 DEF NewRelations
  <1> HIDE DEF new, m
  <1>8. new \in Seq(RelationRows) /\ Len(new) = m
    <2>1. new \in [1 .. m -> RelationRows]
      BY <1>6, <1>7
    <2>2. new \in Seq(RelationRows)
      BY <1>3, <2>1, SeqDef
    <2> QED BY <1>3, <1>7, <2>2, LenProperties
  <1>9. relations' = relations \o new
    BY DEF new
  <1>10. /\ relations' \in Seq(RelationRows) /\ Len(relations') = Len(relations) + m
         /\ \A i \in 1 .. Len(relations) + m :
              relations'[i] = IF i <= Len(relations) THEN relations[i] ELSE new[i - Len(relations)]
    <2>1. /\ relations \o new \in Seq(RelationRows)
          /\ Len(relations \o new) = Len(relations) + Len(new)
          /\ \A i \in 1 .. Len(relations) + Len(new) : (relations \o new)[i] =
               IF i <= Len(relations) THEN relations[i] ELSE new[i - Len(relations)]
      BY <1>1, <1>8, ConcatProperties
    <2> QED BY <1>8, <1>9, <2>1
  <1>11. DOMAIN relations' = 1 .. Len(relations) + m
    BY <1>10, LenProperties
  <1>12. \A i \in DOMAIN relations : relations'[i] = relations[i]
    BY <1>1, <1>3, <1>10
  <1>13. ASSUME NEW i \in DOMAIN relations' \ DOMAIN relations
         PROVE  /\ relations'[i].groupId = loc[t].group /\ relations'[i].groupType = loc[t].type
                /\ relations'[i].status = 1
                /\ \E k \in loc[t].missing : relations'[i].userId = req[t].users[k]
    <2>1. i - Len(relations) \in 1 .. m /\ i > Len(relations)
      BY <1>1, <1>3, <1>11
    <2>2. relations'[i] = new[i - Len(relations)]
      BY <2>1, <1>1, <1>3, <1>10, <1>11
    <2>3. p[i - Len(relations)] \in loc[t].missing
      BY <2>1, <1>4 DEF m
    <2> QED BY <2>1, <2>2, <2>3, <1>6
  <1>14. ASSUME NEW k \in loc[t].missing
         PROVE  \E i \in DOMAIN relations' : /\ relations'[i].groupId = loc[t].group
                                             /\ relations'[i].userId = req[t].users[k]
    <2>1. PICK n \in 1 .. m : p[n] = k
      BY <1>4 DEF m
    <2>2. /\ Len(relations) + n \in 1 .. Len(relations) + m
          /\ ~ (Len(relations) + n <= Len(relations))
          /\ (Len(relations) + n) - Len(relations) = n
      BY <1>1, <1>3, <2>1
    <2>3. relations'[Len(relations) + n] = new[n]
      BY <1>10, <2>2
    <2>4. new[n].groupId = loc[t].group /\ new[n].userId = req[t].users[k]
      BY <1>6, <2>1
    <2> QED BY <1>11, <2>2, <2>3, <2>4
  <1>15. /\ Cardinality(loc[t].missing) \in Nat
         /\ Len(relations') = Len(relations) + Cardinality(loc[t].missing)
    BY <1>3, <1>10 DEF m
  <1> QED BY <1>10, <1>12, <1>13, <1>14, <1>15

(* UPDATE IMGroup SET memberCnt adds to the number of members of one group *)
(* and changes nothing else.                                               *)
LEMMA AddCountShape ==
  ASSUME TypeOK, NEW g \in DOMAIN groups, NEW n \in Int
  PROVE  /\ AddCount(g, n) \in Seq(GroupRows)
         /\ Len(AddCount(g, n)) = Len(groups)
         /\ \A h \in DOMAIN groups :
              /\ AddCount(g, n)[h].createUserId = groups[h].createUserId
              /\ AddCount(g, n)[h].groupType = groups[h].groupType
              /\ AddCount(g, n)[h].status = groups[h].status
              /\ AddCount(g, n)[h].req = groups[h].req
              /\ AddCount(g, n)[h].memberCnt = groups[h].memberCnt + (IF h = g THEN n ELSE 0)
  <1> DEFINE row == [groups[g] EXCEPT !.memberCnt = @ + n]
  <1>1. /\ Len(groups) \in Nat /\ DOMAIN groups = 1 .. Len(groups)
        /\ groups \in Seq(GroupRows) /\ groups[g] \in GroupRows
    BY TableTypes DEF TypeOK
  <1>2. /\ row \in GroupRows
        /\ row.createUserId = groups[g].createUserId /\ row.groupType = groups[g].groupType
        /\ row.status = groups[g].status /\ row.req = groups[g].req
        /\ row.memberCnt = groups[g].memberCnt + n
    <2> DEFINE old == groups[g]
               cnt == groups[g].memberCnt + n
    <2>1. old \in GroupRows /\ cnt \in Int /\ row = [old EXCEPT !.memberCnt = cnt]
      BY <1>1 DEF GroupRows
    <2> HIDE DEF old, cnt, row
    <2>2. /\ row \in GroupRows
          /\ row.createUserId = old.createUserId /\ row.groupType = old.groupType
          /\ row.status = old.status /\ row.req = old.req /\ row.memberCnt = cnt
      BY <2>1 DEF GroupRows
    <2> QED BY <2>2 DEF old, cnt
  <1>3. AddCount(g, n) = [groups EXCEPT ![g] = row]
    BY DEF AddCount
  <1> HIDE DEF row
  <1>4. /\ AddCount(g, n) \in Seq(GroupRows) /\ Len(AddCount(g, n)) = Len(groups)
        /\ \A h \in DOMAIN groups : AddCount(g, n)[h] = IF h = g THEN row ELSE groups[h]
    BY <1>1, <1>2, <1>3, ExceptSeq
  <1>5. ASSUME NEW h \in DOMAIN groups
        PROVE  AddCount(g, n)[h].memberCnt = groups[h].memberCnt + (IF h = g THEN n ELSE 0)
    <2>1. groups[h].memberCnt \in Int
      BY TableTypes DEF GroupRows
    <2>2. CASE h = g
      BY <1>2, <1>4, <2>1, <2>2
    <2>3. CASE h # g
      BY <1>4, <2>1, <2>3
    <2> QED BY <2>2, <2>3
  <1> QED BY <1>2, <1>4, <1>5

(* The new group of CreateGroup is the last of the table.                  *)
LEMMA CreateShape ==
  ASSUME TypeOK, NEW t \in Threads, WorkOK(t), CreateInsert(t)
  PROVE  /\ groups' \in Seq(GroupRows)
         /\ \/ groups' = groups
            \/ /\ Len(groups') = Len(groups) + 1
               /\ groups'[Len(groups) + 1].groupType = 2
               /\ groups'[Len(groups) + 1].req = req[t].id
               /\ groups'[Len(groups) + 1].memberCnt = 0
         /\ \A g \in DOMAIN groups : groups'[g] = groups[g]
  <1> DEFINE row == [createUserId |-> req[t].user, memberCnt |-> 0, status |-> 1,
                     groupType |-> 2, req |-> req[t].id]
  <1>1. groups' = groups \/ groups' = Append(groups, row)
    BY DEF CreateInsert
  <1>2. row \in GroupRows /\ row.groupType = 2 /\ row.req = req[t].id /\ row.memberCnt = 0
    <2>1. req[t].user \in Users /\ req[t].id \in Nat
      BY DEF WorkOK, CreateInsert, TypeOK, Requests
    <2> QED BY <2>1 DEF GroupRows
  <1> HIDE DEF row
  <1>3. groups \in Seq(GroupRows) /\ Len(groups) \in Nat /\ DOMAIN groups = 1 .. Len(groups)
    BY TableTypes DEF TypeOK
  <1> QED BY <1>1, <1>2, <1>3, AppendProperties

-----------------------------------------------------------------------------
(* What a step leaves alone.                                               *)

(* A step of one thread leaves the other threads alone and never takes a   *)
(* fault or a removal back; few statements write the tables.               *)
LEMMA Frame ==
  ASSUME TypeOK, NEW t \in Threads, Accept(t) \/ Work(t)
  PROVE  /\ \A o \in Threads \ {t} : /\ pc'[o] = pc[o] /\ req'[o] = req[o]
                                    /\ loc'[o] = loc[o] /\ reply'[o] = reply[o]
         /\ relations' = relations \/ JoinInsert(t) \/ JoinUpdate(t) \/ QuitUpdate(t)
         /\ groups' = groups \/ CreateInsert(t) \/ JoinCount(t) \/ QuitCount(t)
         /\ faults' \in Nat /\ faults <= faults' /\ quits' \in Nat /\ quits <= quits'
         /\ failed' \subseteq Nat /\ failed \subseteq failed'
  <1>0. req[t].id \in Nat /\ faults \in Nat /\ failed \subseteq Nat
    BY DEF TypeOK, Requests
  <1>fault. ASSUME \/ faults' = faults /\ failed' = failed
                   \/ faults' = faults + 1 /\ failed' = failed \cup {req[t].id}
            PROVE  /\ faults' \in Nat /\ faults <= faults'
                   /\ failed' \subseteq Nat /\ failed \subseteq failed'
    <2>1. faults' \in Nat /\ faults <= faults'
      BY <1>0, <1>fault
    <2>2. failed' = failed \/ failed' = failed \cup {req[t].id}
      BY <1>fault
    <2>3. failed' \subseteq Nat /\ failed \subseteq failed'
      BY <1>0, <2>2
    <2> QED BY <2>1, <2>3
  <1> USE <1>0 DEF TypeOK, Finish, FinishList, Answer, Goto, Sound, Fault
  <1>1. CASE Accept(t)
    BY <1>1 DEF Accept, CreateAccept, ChangeAccept, ListAccept, CounterAccept
  <1>2. CASE CreateInsert(t)
    <2>1. UNCHANGED <<relations, req, faults, failed, quits>>
      BY <1>2 DEF CreateInsert
    <2>2. \A o \in Threads \ {t} : pc'[o] = pc[o] /\ loc'[o] = loc[o] /\ reply'[o] = reply[o]
      BY <1>2 DEF CreateInsert
    <2> QED BY <1>2, <2>1, <2>2
  <1>3. CASE GetGroupInfo(t)
    <2>1. UNCHANGED <<groups, relations, req, quits>>
      BY <1>3 DEF GetGroupInfo
    <2>2. \/ faults' = faults /\ failed' = failed
          \/ faults' = faults + 1 /\ failed' = failed \cup {req[t].id}
      BY <1>3 DEF GetGroupInfo
    <2>3. \A o \in Threads \ {t} : pc'[o] = pc[o] /\ reply'[o] = reply[o]
      BY <1>3 DEF GetGroupInfo
    <2>4. \A o \in Threads \ {t} : loc'[o] = loc[o]
      BY <1>3 DEF GetGroupInfo
    <2> QED BY <1>fault, <2>1, <2>2, <2>3, <2>4
  <1>4. CASE JoinSelect(t)
    <2>1. UNCHANGED <<groups, relations, req, quits>>
      BY <1>4 DEF JoinSelect
    <2>2. \/ faults' = faults /\ failed' = failed
          \/ faults' = faults + 1 /\ failed' = failed \cup {req[t].id}
      BY <1>4 DEF JoinSelect
    <2>3. \A o \in Threads \ {t} : pc'[o] = pc[o] /\ reply'[o] = reply[o]
      BY <1>4 DEF JoinSelect
    <2>4. \A o \in Threads \ {t} : loc'[o] = loc[o]
      BY <1>4 DEF JoinSelect
    <2> QED BY <1>fault, <2>1, <2>2, <2>3, <2>4
  <1>5. CASE JoinInsert(t)
    <2>1. UNCHANGED <<groups, req, reply, quits>>
      BY <1>5 DEF JoinInsert
    <2>2. \/ faults' = faults /\ failed' = failed
          \/ faults' = faults + 1 /\ failed' = failed \cup {req[t].id}
      BY <1>5 DEF JoinInsert
    <2>3. \A o \in Threads \ {t} : pc'[o] = pc[o]
      BY <1>5 DEF JoinInsert
    <2>4. \A o \in Threads \ {t} : loc'[o] = loc[o]
      BY <1>5 DEF JoinInsert
    <2>5. /\ faults' \in Nat /\ faults <= faults'
          /\ failed' \subseteq Nat /\ failed \subseteq failed'
      BY <1>fault, <2>2
    <2> QED BY <1>5, <2>1, <2>3, <2>4, <2>5
  <1>6. CASE JoinUpdate(t)
    <2>1. UNCHANGED <<groups, req, reply, quits>>
      BY <1>6 DEF JoinUpdate
    <2>2. \/ faults' = faults /\ failed' = failed
          \/ faults' = faults + 1 /\ failed' = failed \cup {req[t].id}
      BY <1>6 DEF JoinUpdate
    <2>3. \A o \in Threads \ {t} : pc'[o] = pc[o]
      BY <1>6 DEF JoinUpdate
    <2>4. \A o \in Threads \ {t} : loc'[o] = loc[o]
      BY <1>6 DEF JoinUpdate
    <2>5. /\ faults' \in Nat /\ faults <= faults'
          /\ failed' \subseteq Nat /\ failed \subseteq failed'
      BY <1>fault, <2>2
    <2> QED BY <1>6, <2>1, <2>3, <2>4, <2>5
  <1>7. CASE JoinCount(t)
    <2>1. UNCHANGED <<relations, req, loc, quits>>
      BY <1>7 DEF JoinCount
    <2>2. \/ faults' = faults /\ failed' = failed
          \/ faults' = faults + 1 /\ failed' = failed \cup {req[t].id}
      BY <1>7 DEF JoinCount
    <2>3. \A o \in Threads \ {t} : pc'[o] = pc[o] /\ reply'[o] = reply[o]
      BY <1>7 DEF JoinCount
    <2> QED BY <1>7, <1>fault, <2>1, <2>2, <2>3
  <1>8. CASE QuitSelect(t)
    <2>1. UNCHANGED <<groups, relations, req, quits>>
      BY <1>8 DEF QuitSelect
    <2>2. \/ faults' = faults /\ failed' = failed
          \/ faults' = faults + 1 /\ failed' = failed \cup {req[t].id}
      BY <1>8 DEF QuitSelect
    <2>3. \A o \in Threads \ {t} : pc'[o] = pc[o] /\ reply'[o] = reply[o]
      BY <1>8 DEF QuitSelect
    <2>4. \A o \in Threads \ {t} : loc'[o] = loc[o]
      BY <1>8 DEF QuitSelect
    <2> QED BY <1>fault, <2>1, <2>2, <2>3, <2>4
  <1>9. CASE QuitUpdate(t)
    <2>1. UNCHANGED <<groups, req, reply, quits>>
      BY <1>9 DEF QuitUpdate
    <2>2. \/ faults' = faults /\ failed' = failed
          \/ faults' = faults + 1 /\ failed' = failed \cup {req[t].id}
      BY <1>9 DEF QuitUpdate
    <2>3. \A o \in Threads \ {t} : pc'[o] = pc[o]
      BY <1>9 DEF QuitUpdate
    <2>4. \A o \in Threads \ {t} : loc'[o] = loc[o]
      BY <1>9 DEF QuitUpdate
    <2> QED BY <1>9, <1>fault, <2>1, <2>2, <2>3, <2>4
  <1>10. CASE QuitCount(t)
    <2>1. UNCHANGED <<relations, req, loc, quits>>
      BY <1>10 DEF QuitCount
    <2>2. \/ faults' = faults /\ failed' = failed
          \/ faults' = faults + 1 /\ failed' = failed \cup {req[t].id}
      BY <1>10 DEF QuitCount
    <2>3. \A o \in Threads \ {t} : pc'[o] = pc[o] /\ reply'[o] = reply[o]
      BY <1>10 DEF QuitCount
    <2> QED BY <1>10, <1>fault, <2>1, <2>2, <2>3
  <1>11. CASE ListGroups(t)
    <2>1. UNCHANGED <<groups, relations, req, quits>>
      BY <1>11 DEF ListGroups
    <2>2. \/ faults' = faults /\ failed' = failed
          \/ faults' = faults + 1 /\ failed' = failed \cup {req[t].id}
      BY <1>11 DEF ListGroups
    <2>3. \A o \in Threads \ {t} : pc'[o] = pc[o] /\ reply'[o] = reply[o]
      BY <1>11 DEF ListGroups
    <2>4. \A o \in Threads \ {t} : loc'[o] = loc[o]
      BY <1>11 DEF ListGroups
    <2> QED BY <1>fault, <2>1, <2>2, <2>3, <2>4
  <1>12. CASE GetGroupMembers(t)
    <2>1. UNCHANGED <<groups, relations, req, quits>>
      BY <1>12 DEF GetGroupMembers
    <2>2. \/ faults' = faults /\ failed' = failed
          \/ faults' = faults + 1 /\ failed' = failed \cup {req[t].id}
      BY <1>12 DEF GetGroupMembers
    <2>3. \A o \in Threads \ {t} : pc'[o] = pc[o] /\ reply'[o] = reply[o]
      BY <1>12 DEF GetGroupMembers
    <2>4. \A o \in Threads \ {t} : loc'[o] = loc[o]
      BY <1>12 DEF GetGroupMembers
    <2> QED BY <1>fault, <2>1, <2>2, <2>3, <2>4
  <1>13. CASE SendSessionData(t) BY <1>13 DEF SendSessionData
  <1> QED BY <1>1, <1>2, <1>3, <1>4, <1>5, <1>6, <1>7, <1>8, <1>9, <1>10, <1>11, <1>12, <1>13
          DEF Work

(* What a step may do to relations: keep them, add rows of the group of a  *)
(* handler of JoinGroup, or set the status of the rows of a handler.       *)
LEMMA RelationsStep ==
  ASSUME TypeOK, NEW t \in Threads, WorkOK(t), Accept(t) \/ Work(t)
  PROVE  /\ relations' \in Seq(RelationRows)
         /\ Len(relations) <= Len(relations')
         /\ \A i \in DOMAIN relations :
              /\ relations'[i].groupId = relations[i].groupId
              /\ relations'[i].userId = relations[i].userId
              /\ relations'[i].groupType = relations[i].groupType
              /\ \/ relations'[i].status = relations[i].status
                 \/ pc[t] = "join_update" /\ relations'[i].status = 1
                 \/ /\ pc[t] = "quit_update" /\ relations'[i].status = 0
                    /\ i \in RowsOf(loc[t].group, loc[t].found)
         /\ \A i \in DOMAIN relations' \ DOMAIN relations :
              /\ pc[t] = "join_insert"
              /\ relations'[i].groupId = loc[t].group /\ relations'[i].groupType = loc[t].type
  <1>0. /\ Len(relations) \in Nat /\ DOMAIN relations = 1 .. Len(relations)
        /\ relations \in Seq(RelationRows)
    BY TableTypes DEF TypeOK
  <1>1. CASE relations' = relations
    BY <1>0, <1>1
  <1>2. CASE JoinInsert(t) /\ relations' # relations
    <2>1. pc[t] = "join_insert"
      BY <1>2 DEF JoinInsert
    <2>2. PICK p \in InOrder(loc[t].missing) : relations' = relations \o NewRelations(t, p)
      BY <1>2 DEF JoinInsert
    <2>3. /\ relations' \in Seq(RelationRows)
          /\ Cardinality(loc[t].missing) \in Nat
          /\ Len(relations') = Len(relations) + Cardinality(loc[t].missing)
          /\ \A i \in DOMAIN relations : relations'[i] = relations[i]
          /\ \A i \in DOMAIN relations' \ DOMAIN relations :
               /\ relations'[i].groupId = loc[t].group
               /\ relations'[i].groupType = loc[t].type
      BY <2>1, <2>2, InsertShape
    <2> QED BY <1>0, <2>1, <2>3
  <1>3. CASE JoinUpdate(t) /\ relations' # relations
    <2>1. /\ pc[t] = "join_update"
          /\ relations' = SetStatus(RowsOf(loc[t].group, loc[t].found), 1)
      BY <1>3 DEF JoinUpdate
    <2> DEFINE rows == RowsOf(loc[t].group, loc[t].found)
    <2> HIDE DEF rows
    <2>2. relations' = SetStatus(rows, 1)
      BY <2>1 DEF rows
    <2>3. DOMAIN relations' = DOMAIN relations
      BY <1>0, <2>2, SetStatusShape, LenProperties
    <2> QED BY <1>0, <2>1, <2>2, <2>3, SetStatusShape
  <1>4. CASE QuitUpdate(t) /\ relations' # relations
    <2>1. /\ pc[t] = "quit_update"
          /\ relations' = SetStatus(RowsOf(loc[t].group, loc[t].found), 0)
      BY <1>4 DEF QuitUpdate
    <2> DEFINE rows == RowsOf(loc[t].group, loc[t].found)
    <2> HIDE DEF rows
    <2>2. relations' = SetStatus(rows, 0)
      BY <2>1 DEF rows
    <2>3. DOMAIN relations' = DOMAIN relations
      BY <1>0, <2>2, SetStatusShape, LenProperties
    <2>4. \A i \in DOMAIN relations :
            /\ relations'[i].groupId = relations[i].groupId
            /\ relations'[i].userId = relations[i].userId
            /\ relations'[i].groupType = relations[i].groupType
            /\ relations'[i].status = IF i \in rows THEN 0 ELSE relations[i].status
      BY <2>2, SetStatusShape
    <2>5. relations' \in Seq(RelationRows) /\ Len(relations) <= Len(relations')
      BY <1>0, <2>2, SetStatusShape
    <2> QED BY <2>1, <2>3, <2>4, <2>5 DEF rows
  <1> QED BY <1>1, <1>2, <1>3, <1>4, Frame

(* What a step may do to groups: keep them, add one, or count members.     *)
LEMMA GroupsStep ==
  ASSUME TypeOK, NEW t \in Threads, WorkOK(t), Accept(t) \/ Work(t)
  PROVE  /\ groups' \in Seq(GroupRows)
         /\ Len(groups) <= Len(groups')
         /\ \A g \in DOMAIN groups :
              /\ groups'[g].createUserId = groups[g].createUserId
              /\ groups'[g].groupType = groups[g].groupType
              /\ groups'[g].status = groups[g].status
              /\ groups'[g].req = groups[g].req
  <1>0. /\ Len(groups) \in Nat /\ DOMAIN groups = 1 .. Len(groups)
        /\ groups \in Seq(GroupRows)
    BY TableTypes DEF TypeOK
  <1>1. CASE groups' = groups
    BY <1>0, <1>1
  <1>2. CASE CreateInsert(t)
    BY <1>0, <1>2, CreateShape
  <1>3. CASE (JoinCount(t) \/ QuitCount(t)) /\ groups' # groups
    <2>1. groups' = AddCount(loc[t].group, loc[t].count)
      BY <1>3 DEF JoinCount, QuitCount
    <2>2. loc[t].group \in DOMAIN groups /\ loc[t].count \in Int
      BY <1>3 DEF WorkOK, JoinCount, QuitCount, JoinLabels, QuitLabels, TypeOK, Locals
    <2> QED BY <1>0, <2>1, <2>2, AddCountShape
  <1> QED BY <1>1, <1>2, <1>3, Frame

(* No step deletes a row or changes what it is.                            *)
LEMMA KeptStep ==
  ASSUME IInv, [Next]_vars
  PROVE  RowsKept /\ faults <= faults' /\ failed \subseteq failed' /\ quits <= quits'
  <1>0. TypeOK /\ \A t \in Threads : WorkOK(t)
    BY DEF IInv
  <1>1. CASE UNCHANGED <<groups, relations, faults, failed, quits>>
    BY <1>0, <1>1, TableTypes DEF RowsKept, TypeOK
  <1>2. ASSUME NEW t \in Threads, Accept(t) \/ Work(t)
        PROVE  RowsKept /\ faults <= faults' /\ failed \subseteq failed' /\ quits <= quits'
    <2>1. faults <= faults' /\ failed \subseteq failed' /\ quits <= quits'
      BY <1>0, <1>2, Frame
    <2>2. pc[t] = "quit_update" => quits # 0
      BY <1>0 DEF WorkOK, QuitLabels, TypeOK
    <2>3. WorkOK(t)
      BY <1>0
    <2> QED BY <1>0, <1>2, <2>1, <2>2, <2>3, RelationsStep, GroupsStep DEF RowsKept
  <1> QED BY <1>1, <1>2 DEF Next, Restart, vars

-----------------------------------------------------------------------------
(* What the actions do to the thread that takes them.                      *)

(* The initial values of a thread's variables have their types.            *)
LEMMA InitialValues ==
  NoRequest \in Requests /\ NoLocals \in Locals /\ NoReply \in Replies
  BY UserListsAssumption
     DEF NoRequest, Requests, Kinds, Ids, NoLocals, Locals, NoReply, Replies

(* Members are users of groups.                                            *)
LEMMA BelongingType ==
  ASSUME TypeOK
  PROVE  Belonging \subseteq Nat \X Users
  BY TableTypes DEF Belonging, RelationRows

(* A thread that goes on, or has its answer, keeps its types.              *)
LEMMA GotoTypes ==
  ASSUME TypeOK, NEW t \in Threads, NEW label \in Labels, Goto(t, label)
  PROVE  pc' \in [Threads -> Labels] /\ pc'[t] = label
  BY DEF Goto, TypeOK

(* A thread that has its answer keeps the types and is about to send it.   *)
LEMMA AnswerTypes ==
  ASSUME TypeOK, NEW t \in Threads, NEW r \in {0, 1}, NEW g \in Nat, NEW l \in SUBSET Listed,
         Answer(t, [result |-> r, group |-> g, list |-> l])
  PROVE  /\ pc' \in [Threads -> Labels] /\ pc'[t] = "reply"
         /\ reply' \in [Threads -> Replies]
         /\ reply'[t].result = r /\ reply'[t].group = g /\ reply'[t].list = l
  <1>1. pc' \in [Threads -> Labels] /\ pc'[t] = "reply"
    BY GotoTypes DEF Answer, Labels
  <1>2. [result |-> r, group |-> g, list |-> l] \in Replies
    BY DEF Replies
  <1>3. reply' = [reply EXCEPT ![t] = [result |-> r, group |-> g, list |-> l]]
    BY DEF Answer
  <1>4. reply'[t] = [result |-> r, group |-> g, list |-> l]
    BY <1>3 DEF TypeOK
  <1>5. reply' \in [Threads -> Replies]
    BY <1>2, <1>3 DEF TypeOK
  <1> QED BY <1>1, <1>4, <1>5

(* The local variables with some of a thread's set.                        *)
WithCount(t, c)       == [loc EXCEPT ![t].count = c]
WithGroup(t, g, y)    == [loc EXCEPT ![t].group = g, ![t].type = y]
WithFound(t, us)      == [loc EXCEPT ![t].found = us, ![t].count = 0]
WithMissing(t, m, us) == [loc EXCEPT ![t].missing = m, ![t].found = us, ![t].count = 0]

(* A thread that only sets its count keeps everything else it has read.    *)
LEMMA CountUpdate ==
  ASSUME TypeOK, NEW t \in Threads, NEW c \in Int, loc' = WithCount(t, c)
  PROVE  /\ loc' \in [Threads -> Locals] /\ loc'[t].count = c
         /\ loc'[t].group = loc[t].group /\ loc'[t].type = loc[t].type
         /\ loc'[t].missing = loc[t].missing /\ loc'[t].found = loc[t].found
         /\ loc'[t].listed = loc[t].listed /\ loc'[t].before = loc[t].before
  <1> DEFINE old == loc[t]
             new == [old EXCEPT !.count = c]
  <1>1. old \in Locals /\ loc \in [Threads -> Locals] /\ loc' = [loc EXCEPT ![t] = new]
    BY DEF TypeOK, WithCount
  <1>2. /\ new \in Locals /\ new.count = c /\ new.group = old.group /\ new.type = old.type
        /\ new.missing = old.missing /\ new.found = old.found
        /\ new.listed = old.listed /\ new.before = old.before
    <2> HIDE DEF old
    <2> QED BY <1>1 DEF Locals
  <1> HIDE DEF new
  <1> QED BY <1>1, <1>2 DEF old

(* A thread that has read a GroupInfo.                                     *)
LEMMA ReadUpdate ==
  ASSUME TypeOK, NEW t \in Threads, NEW g \in Nat, NEW y \in 0 .. 2,
         loc' = WithGroup(t, g, y)
  PROVE  /\ loc' \in [Threads -> Locals]
         /\ loc'[t].group = g /\ loc'[t].type = y /\ loc'[t].before = loc[t].before
  <1> DEFINE r == loc[t]
             l == [r EXCEPT !.group = g, !.type = y]
  <1>1. r \in Locals /\ loc' = [loc EXCEPT ![t] = l]
    BY DEF TypeOK, WithGroup
  <1> HIDE DEF r
  <1>2. l \in Locals /\ l.group = g /\ l.type = y /\ l.before = r.before
    BY <1>1 DEF Locals
  <1> HIDE DEF l
  <1> QED BY <1>1, <1>2 DEF r, TypeOK

(* A thread that has read which users of its list are in the group.        *)
LEMMA FoundUpdate ==
  ASSUME TypeOK, NEW t \in Threads, NEW us \in SUBSET Users,
         loc' = WithFound(t, us)
  PROVE  /\ loc' \in [Threads -> Locals]
         /\ loc'[t].found = us /\ loc'[t].count = 0
         /\ loc'[t].group = loc[t].group /\ loc'[t].before = loc[t].before
  <1> DEFINE r == loc[t]
             k == [r EXCEPT !.found = us]
             l == [k EXCEPT !.count = 0]
  <1>1. r \in Locals /\ loc' = [loc EXCEPT ![t] = l]
    BY DEF TypeOK, WithFound
  <1> HIDE DEF r
  <1>2. k \in Locals /\ k.found = us /\ k.group = r.group /\ k.before = r.before
    BY <1>1 DEF Locals
  <1> HIDE DEF k
  <1>3. /\ l \in Locals /\ l.count = 0
        /\ l.found = k.found /\ l.group = k.group /\ l.before = k.before
    BY <1>2 DEF Locals
  <1> HIDE DEF l
  <1>4. loc' \in [Threads -> Locals] /\ loc'[t] = l
    BY <1>1, <1>3 DEF TypeOK
  <1> QED BY <1>2, <1>3, <1>4 DEF r

(* A thread that has also read which of them are missing.                  *)
LEMMA MissingUpdate ==
  ASSUME TypeOK, NEW t \in Threads, NEW us \in SUBSET Users,
         NEW m \in SUBSET Nat,
         loc' = WithMissing(t, m, us)
  PROVE  /\ loc' \in [Threads -> Locals] /\ loc'[t].missing = m /\ loc'[t].found = us
         /\ loc'[t].count = 0
         /\ loc'[t].group = loc[t].group /\ loc'[t].type = loc[t].type /\ loc'[t].before = loc[t].before
  <1> DEFINE r == loc[t]
             j == [r EXCEPT !.missing = m]
             k == [j EXCEPT !.found = us]
             l == [k EXCEPT !.count = 0]
  <1>1. r \in Locals /\ loc' = [loc EXCEPT ![t] = l]
    BY DEF TypeOK, WithMissing
  <1> HIDE DEF r
  <1>2. /\ j \in Locals /\ j.missing = m
        /\ j.group = r.group /\ j.type = r.type /\ j.before = r.before
    BY <1>1 DEF Locals
  <1> HIDE DEF j
  <1>3. /\ k \in Locals /\ k.missing = j.missing /\ k.found = us
        /\ k.group = j.group /\ k.type = j.type /\ k.before = j.before
    BY <1>2 DEF Locals
  <1> HIDE DEF k
  <1>4. /\ l \in Locals /\ l.count = 0 /\ l.missing = k.missing /\ l.found = k.found
        /\ l.group = k.group /\ l.type = k.type /\ l.before = k.before
    BY <1>3 DEF Locals
  <1> HIDE DEF l
  <1>5. loc' \in [Threads -> Locals] /\ loc'[t] = l
    BY <1>1, <1>4 DEF TypeOK
  <1> QED BY <1>2, <1>3, <1>4, <1>5 DEF r

(* Accept: a request that passes its handler's checks goes on, any other   *)
(* is answered at once.                                                    *)
LEMMA AcceptShape ==
  ASSUME TypeOK, NEW t \in Threads, Accept(t)
  PROVE  /\ pc[t] = "idle" /\ nextReq' = nextReq + 1
         /\ UNCHANGED <<groups, relations, answers, lists, faults, failed, boot>>
         /\ pc' \in [Threads -> Labels] /\ reply' \in [Threads -> Replies]
         /\ req' \in [Threads -> Requests] /\ req'[t].id = nextReq
         /\ loc' \in [Threads -> Locals] /\ loc'[t].before \in {{}, Belonging}
         /\ quits' \in Nat /\ (req'[t].kind = "Quit" => quits' > 0)
         /\ \/ pc'[t] = "create_insert" /\ req'[t].kind = "Create" /\ req'[t].user \in Users
            \/ pc'[t] = "get_group" /\ req'[t].kind \in {"Join", "Quit", "Members"}
            \/ pc'[t] = "list_groups" /\ req'[t].kind \in UserListings /\ req'[t].user \in Users
            \/ /\ pc'[t] = "reply" /\ reply'[t].list = {}
               /\ req'[t].kind = "Create" => reply'[t].result = 1
               /\ req'[t].kind \in UserListings => req'[t].user = 0
  <1>0. PICK r \in Inputs : \E kind \in ParsedKinds(r) :
          /\ req' = [req EXCEPT ![t] = [id |-> nextReq, asked |-> r.kind, kind |-> kind,
                                        user |-> r.user, users |-> r.users,
                                        group |-> r.group]]
          /\ loc' = [loc EXCEPT ![t].before = IF kind \in Listings THEN Belonging ELSE {}]
          /\ \/ r.kind = "Create" /\ CreateAccept(t, r)
             \/ r.kind \in {"Join", "Quit"} /\ ChangeAccept(t, r)
             \/ ListAccept(t, r)
             \/ CounterAccept(t, r)
          /\ quits' = IF kind = "Quit" THEN quits + 1 ELSE quits
    BY DEF Accept
  <1>1. PICK kind \in ParsedKinds(r) :
          /\ req' = [req EXCEPT ![t] = [id |-> nextReq, asked |-> r.kind, kind |-> kind,
                                        user |-> r.user, users |-> r.users,
                                        group |-> r.group]]
          /\ loc' = [loc EXCEPT ![t].before = IF kind \in Listings THEN Belonging ELSE {}]
          /\ \/ r.kind = "Create" /\ CreateAccept(t, r)
             \/ r.kind \in {"Join", "Quit"} /\ ChangeAccept(t, r)
             \/ ListAccept(t, r)
             \/ CounterAccept(t, r)
          /\ quits' = IF kind = "Quit" THEN quits + 1 ELSE quits
    BY <1>0
  <1>2. /\ pc[t] = "idle" /\ nextReq' = nextReq + 1
        /\ UNCHANGED <<groups, relations, answers, lists, faults, failed, boot>>
    BY DEF Accept
  <1>3. /\ r.kind \in Kinds /\ r.user \in Ids /\ r.users \in UserLists /\ r.group \in Nat
        /\ kind \in Kinds
        /\ kind = r.kind \/ {kind, r.kind} \subseteq {"Join", "Quit"}
    BY GroupInputsAssumption DEF ParsedKinds, Kinds
  <1> DEFINE new == [id |-> nextReq, asked |-> r.kind, kind |-> kind,
                     user |-> r.user, users |-> r.users, group |-> r.group]
             was == IF kind \in Listings THEN Belonging ELSE {}
  <1>4. new \in Requests /\ new.kind = kind /\ new.user = r.user /\ new.id = nextReq
    BY <1>3 DEF Requests, TypeOK
  <1>5. /\ req' \in [Threads -> Requests] /\ req'[t].kind = kind /\ req'[t].user = r.user
        /\ req'[t].id = nextReq
    <2>1. req' = [req EXCEPT ![t] = new]
      BY <1>1
    <2> HIDE DEF new
    <2> QED BY <1>4, <2>1 DEF TypeOK
  <1>6. loc' \in [Threads -> Locals] /\ loc'[t].before \in {{}, Belonging}
    <2>1. was \in SUBSET (Nat \X Users) /\ was \in {{}, Belonging}
      BY BelongingType
    <2> DEFINE old == loc[t]
               upd == [old EXCEPT !.before = was]
    <2>2. old \in Locals /\ loc \in [Threads -> Locals] /\ loc' = [loc EXCEPT ![t] = upd]
      BY <1>1 DEF TypeOK
    <2> HIDE DEF was, old
    <2>3. upd \in Locals /\ upd.before = was
      BY <2>1, <2>2 DEF Locals
    <2> HIDE DEF upd
    <2> QED BY <2>1, <2>2, <2>3
  <1>7. quits' \in Nat /\ (kind = "Quit" => quits' > 0)
    BY <1>1 DEF TypeOK
  <1>8. r.user = 0 \/ r.user \in Users
    BY <1>3 DEF Ids
  <1>9. ASSUME NEW n \in {0, 1}, Finish(t, n, 0) \/ FinishList(t, {})
        PROVE  /\ pc' \in [Threads -> Labels] /\ pc'[t] = "reply"
               /\ reply' \in [Threads -> Replies] /\ reply'[t].list = {}
               /\ Finish(t, n, 0) => reply'[t].result = n
    BY <1>9, AnswerTypes DEF Finish, FinishList
  <1>10. ASSUME NEW label \in Labels, Goto(t, label), UNCHANGED reply
         PROVE  /\ pc' \in [Threads -> Labels] /\ pc'[t] = label
                /\ reply' \in [Threads -> Replies]
    BY <1>10, GotoTypes DEF TypeOK
  <1>11. CASE r.kind = "Create" /\ CreateAccept(t, r)
    <2>1. kind = "Create"
      BY <1>3, <1>11
    <2>2. CASE Finish(t, 1, 0)
      BY <1>2, <1>5, <1>6, <1>7, <1>9, <2>1, <2>2 DEF UserListings
    <2>3. CASE r.user # 0 /\ Goto(t, "create_insert") /\ UNCHANGED reply
      <3>1. "create_insert" \in Labels
        BY DEF Labels
      <3> QED BY <1>2, <1>5, <1>6, <1>7, <1>8, <1>10, <2>1, <2>3, <3>1
    <2> QED BY <1>11, <2>2, <2>3 DEF CreateAccept
  <1>12. CASE r.kind \in {"Join", "Quit"} /\ ChangeAccept(t, r)
    <2>1. kind \in {"Join", "Quit"}
      BY <1>3, <1>12
    <2>2. CASE Finish(t, 0, 0)
      BY <1>2, <1>5, <1>6, <1>7, <1>9, <2>1, <2>2 DEF UserListings
    <2>3. CASE Goto(t, "get_group") /\ UNCHANGED reply
      <3>1. "get_group" \in Labels
        BY DEF Labels
      <3> QED BY <1>2, <1>5, <1>6, <1>7, <1>10, <2>1, <2>3, <3>1
    <2> QED BY <1>12, <2>2, <2>3 DEF ChangeAccept
  <1>13. CASE r.kind \in UserListings /\ ListAccept(t, r)
    <2>1. kind \in UserListings /\ kind # "Create"
      BY <1>3, <1>13 DEF UserListings
    <2>2. CASE r.user = 0 /\ FinishList(t, {})
      BY <1>2, <1>5, <1>6, <1>7, <1>9, <2>1, <2>2
    <2>3. CASE r.user # 0 /\ Goto(t, "list_groups") /\ UNCHANGED reply
      <3>1. "list_groups" \in Labels
        BY DEF Labels
      <3> QED BY <1>2, <1>5, <1>6, <1>7, <1>8, <1>10, <2>1, <2>3, <3>1
    <2> QED BY <1>13, <2>2, <2>3 DEF ListAccept, UserListings
  <1>14. CASE r.kind = "Members" /\ ListAccept(t, r)
    <2>1. kind = "Members"
      BY <1>3, <1>14
    <2>2. CASE Finish(t, 1, 0)
      BY <1>2, <1>5, <1>6, <1>7, <1>9, <2>1, <2>2 DEF UserListings
    <2>3. CASE Goto(t, "get_group") /\ UNCHANGED reply
      <3>1. "get_group" \in Labels
        BY DEF Labels
      <3> QED BY <1>2, <1>5, <1>6, <1>7, <1>10, <2>1, <2>3, <3>1
    <2> QED BY <1>14, <2>2, <2>3 DEF ListAccept, UserListings
  <1>15. CASE CounterAccept(t, r)
    <2>1. kind \in {"Unread", "Ack"} /\ Finish(t, 0, 0)
      BY <1>3, <1>15 DEF CounterAccept
    <2> QED BY <1>2, <1>5, <1>6, <1>7, <1>9, <2>1 DEF UserListings
  <1>16. ListAccept(t, r) => r.kind \in UserListings \/ r.kind = "Members"
    BY DEF ListAccept
  <1> QED BY <1>1, <1>11, <1>12, <1>13, <1>14, <1>15, <1>16

(* CreateGroup: a new group to join, or a refusal.                         *)
LEMMA CreateStep ==
  ASSUME TypeOK, NEW t \in Threads, WorkOK(t), CreateInsert(t)
  PROVE  /\ pc[t] = "create_insert"
         /\ UNCHANGED <<relations, req, nextReq, answers, lists, quits, boot, faults, failed>>
         /\ pc' \in [Threads -> Labels] /\ reply' \in [Threads -> Replies]
         /\ loc' \in [Threads -> Locals] /\ loc'[t].before = loc[t].before
         /\ \/ /\ pc'[t] = "join_select" /\ Len(groups') = Len(groups) + 1
               /\ loc'[t].group = Len(groups) + 1 /\ loc'[t].type = 2
            \/ /\ pc'[t] = "reply" /\ reply'[t].result = 1
               /\ groups' = groups \/ req[t].users = <<>>
  <1>1. /\ pc[t] = "create_insert"
        /\ UNCHANGED <<relations, req, nextReq, answers, lists, quits, boot, faults, failed>>
    BY DEF CreateInsert, Sound
  <1>2. Len(groups) \in Nat /\ groups \in Seq(GroupRows)
    BY TableTypes DEF TypeOK
  <1>3. Finish(t, 1, 0) => /\ pc' \in [Threads -> Labels] /\ reply' \in [Threads -> Replies]
                           /\ pc'[t] = "reply" /\ reply'[t].result = 1
    BY AnswerTypes DEF Finish
  <1>4. CASE Finish(t, 1, 0) /\ UNCHANGED <<groups, loc>>
    BY <1>1, <1>3, <1>4 DEF TypeOK
  <1>5. CASE ~ (Finish(t, 1, 0) /\ UNCHANGED <<groups, loc>>)
    <2>1. /\ loc' = [loc EXCEPT ![t].group = Len(groups) + 1, ![t].type = 2]
          /\ groups' = Append(groups,
               [createUserId |-> req[t].user, memberCnt |-> 0, status |-> 1,
                groupType |-> 2, req |-> req[t].id])
          /\ \/ req[t].users = <<>> /\ Finish(t, 1, 0)
             \/ Goto(t, "join_select") /\ UNCHANGED reply
      BY <1>5 DEF CreateInsert
    <2>2. Len(groups') = Len(groups) + 1
      <3> DEFINE row == [createUserId |-> req[t].user, memberCnt |-> 0, status |-> 1,
                         groupType |-> 2, req |-> req[t].id]
      <3>1. groups' = Append(groups, row)
        BY <2>1
      <3>2. row \in GroupRows
        BY <1>1 DEF WorkOK, TypeOK, Requests, GroupRows
      <3> HIDE DEF row
      <3> QED BY <1>2, <3>1, <3>2, AppendProperties
    <2>5. /\ loc' \in [Threads -> Locals] /\ loc'[t].before = loc[t].before
          /\ loc'[t].group = Len(groups) + 1 /\ loc'[t].type = 2
      <3>1. Len(groups) + 1 \in Nat /\ 2 \in 0 .. 2
        BY <1>2
      <3>2. loc' = WithGroup(t, Len(groups) + 1, 2)
        BY <2>1 DEF WithGroup
      <3> QED BY <3>1, <3>2, ReadUpdate
    <2>6. CASE Goto(t, "join_select") /\ UNCHANGED reply
      <3>1. "join_select" \in Labels
        BY DEF Labels
      <3>2. pc' \in [Threads -> Labels] /\ pc'[t] = "join_select"
        BY <2>6, <3>1, GotoTypes
      <3> QED BY <1>1, <2>2, <2>5, <2>6, <3>2 DEF TypeOK
    <2> QED BY <1>1, <1>3, <2>1, <2>5, <2>6
  <1> QED BY <1>4, <1>5

(* GetGroupInfo and the checks of JoinGroup and QuitGroup.                 *)
LEMMA GetGroupStep ==
  ASSUME TypeOK, NEW t \in Threads, WorkOK(t), GetGroupInfo(t)
  PROVE  /\ pc[t] = "get_group"
         /\ UNCHANGED <<groups, relations, req, nextReq, answers, lists, quits, boot>>
         /\ pc' \in [Threads -> Labels] /\ reply' \in [Threads -> Replies]
         /\ loc' \in [Threads -> Locals] /\ loc'[t].before = loc[t].before
         /\ \/ /\ pc'[t] = "list_members" /\ req[t].kind = "Members"
               /\ loc'[t].group \in DOMAIN groups
            \/ /\ pc'[t] = "join_select" /\ req[t].kind = "Join"
               /\ loc'[t].group \in DOMAIN groups
               /\ loc'[t].type = groups[loc'[t].group].groupType
            \/ /\ pc'[t] = "quit_select" /\ req[t].kind = "Quit"
               /\ loc'[t].group \in DOMAIN groups
               /\ req[t].user = groups[loc'[t].group].createUserId
            \/ pc'[t] = "reply" /\ reply'[t].list = {}
  <1>1. /\ pc[t] = "get_group"
        /\ UNCHANGED <<groups, relations, req, nextReq, answers, lists, quits, boot>>
    BY DEF GetGroupInfo
  <1>2. ASSUME NEW n \in {0, 1}, Finish(t, n, 0)
        PROVE  /\ pc' \in [Threads -> Labels] /\ reply' \in [Threads -> Replies]
               /\ pc'[t] = "reply" /\ reply'[t].list = {}
    BY <1>2, AnswerTypes DEF Finish
  <1>3. CASE UNCHANGED loc /\ \E n \in {0, 1} : Finish(t, n, 0)
    BY <1>1, <1>2, <1>3 DEF TypeOK
  <1>4. CASE ~ (UNCHANGED loc /\ \E n \in {0, 1} : Finish(t, n, 0))
    <2>1. /\ Found(req[t].group)
          /\ loc' = [loc EXCEPT ![t].group = req[t].group,
                                ![t].type = groups[req[t].group].groupType]
          /\ \/ /\ req[t].kind = "Members"
                /\ Goto(t, "list_members") /\ UNCHANGED reply
             \/ /\ req[t].kind \in {"Join", "Quit"} /\ MayChange(t)
                /\ Goto(t, IF req[t].kind = "Join" THEN "join_select" ELSE "quit_select")
                /\ UNCHANGED reply
             \/ req[t].kind \in {"Join", "Quit"} /\ ~ MayChange(t) /\ Finish(t, 0, 0)
      BY <1>4 DEF GetGroupInfo
    <2> DEFINE g == req[t].group
               y == groups[g].groupType
    <2>2. g \in Nat /\ g \in DOMAIN groups /\ y \in 0 .. 2 /\ loc \in [Threads -> Locals]
      <3>1. g \in Nat /\ g \in DOMAIN groups /\ loc \in [Threads -> Locals]
        BY <2>1 DEF TypeOK, Found, Requests
      <3>2. groups[g] \in GroupRows
        BY <3>1, TableTypes
      <3> QED BY <3>1, <3>2 DEF GroupRows
    <2>4. /\ loc' \in [Threads -> Locals] /\ loc'[t].before = loc[t].before
          /\ loc'[t].group = g /\ loc'[t].type = groups[loc'[t].group].groupType
      <3>1. loc' = WithGroup(t, g, y)
        BY <2>1 DEF WithGroup
      <3> HIDE DEF g, y
      <3>2. /\ loc' \in [Threads -> Locals] /\ loc'[t].before = loc[t].before
            /\ loc'[t].group = g /\ loc'[t].type = y
        BY <2>2, <3>1, ReadUpdate
      <3> QED BY <3>2 DEF y
    <2>5. ASSUME NEW label \in Labels, Goto(t, label), UNCHANGED reply
          PROVE  /\ pc' \in [Threads -> Labels] /\ reply' \in [Threads -> Replies]
                 /\ pc'[t] = label
      BY <2>5, GotoTypes DEF TypeOK
    <2>6. {"list_members", "join_select", "quit_select"} \subseteq Labels
      BY DEF Labels
    <2>7. CASE req[t].kind = "Members" /\ Goto(t, "list_members") /\ UNCHANGED reply
      BY <1>1, <2>2, <2>4, <2>5, <2>6, <2>7
    <2>8. CASE req[t].kind = "Join" /\ Goto(t, "join_select") /\ UNCHANGED reply
      BY <1>1, <2>2, <2>4, <2>5, <2>6, <2>8
    <2>9. CASE req[t].kind = "Quit" /\ MayChange(t) /\ Goto(t, "quit_select") /\ UNCHANGED reply
      BY <1>1, <2>2, <2>4, <2>5, <2>6, <2>9 DEF MayChange
    <2>10. CASE Finish(t, 0, 0)
      BY <1>1, <1>2, <2>4, <2>10
    <2> QED BY <2>1, <2>7, <2>8, <2>9, <2>10
  <1> QED BY <1>3, <1>4

(* The SELECT of JoinGroup and QuitGroup finds users of the list that have *)
(* a relation to the group.                                                *)
LEMMA StatusesFound ==
  ASSUME NEW g, NEW us, NEW f \in Statuses(g, us) \cup {<<>>}
  PROVE  DOMAIN f \subseteq us /\ \A u \in DOMAIN f : Related(g, u)
  <1>1. CASE f = <<>>
    BY <1>1
  <1>2. CASE f \in Statuses(g, us)
    BY <1>2, RelatedRows DEF Statuses
  <1> QED BY <1>1, <1>2

(* JoinGroup's SELECT: whoever is not missing has a relation.              *)
LEMMA JoinSelectStep ==
  ASSUME TypeOK, NEW t \in Threads, JoinSelect(t)
  PROVE  /\ pc[t] = "join_select"
         /\ UNCHANGED <<groups, relations, req, reply, nextReq, answers, lists, quits, boot>>
         /\ pc' \in [Threads -> Labels]
         /\ loc' \in [Threads -> Locals] /\ loc'[t].before = loc[t].before
         /\ loc'[t].group = loc[t].group /\ loc'[t].type = loc[t].type
         /\ loc'[t].missing \subseteq DOMAIN req[t].users
         /\ loc'[t].found \subseteq UsersIn(req[t].users)
         /\ \A k \in DOMAIN req[t].users \ loc'[t].missing :
              Related(loc[t].group, req[t].users[k])
         /\ \/ pc'[t] = "join_insert"
            \/ pc'[t] \in {"join_update", "join_count"} /\ loc'[t].missing = {}
  <1>1. PICK f \in Statuses(loc[t].group, UsersIn(req[t].users)) \cup {<<>>} :
          /\ loc' = [loc EXCEPT
                ![t].missing = {k \in DOMAIN req[t].users : req[t].users[k] \notin DOMAIN f},
                ![t].found = {u \in DOMAIN f : f[u] = 0}, ![t].count = 0]
          /\ Goto(t, IF {k \in DOMAIN req[t].users : req[t].users[k] \notin DOMAIN f} # {}
                     THEN "join_insert" ELSE AfterInsert({u \in DOMAIN f : f[u] = 0}))
    BY DEF JoinSelect
  <1> DEFINE missing == {k \in DOMAIN req[t].users : req[t].users[k] \notin DOMAIN f}
             found == {u \in DOMAIN f : f[u] = 0}
  <1>2. req[t].users \in Seq(Users)
    BY UserListsAssumption DEF TypeOK, Requests
  <1>3. UsersIn(req[t].users) \subseteq Users /\ DOMAIN req[t].users \subseteq Nat
    BY <1>2, LenProperties, ElementOfSeq DEF UsersIn
  <1>4. /\ missing \subseteq DOMAIN req[t].users
        /\ found \subseteq UsersIn(req[t].users)
        /\ \A k \in DOMAIN req[t].users \ missing : Related(loc[t].group, req[t].users[k])
    BY StatusesFound
  <1>8. /\ loc' \in [Threads -> Locals] /\ loc'[t].missing = missing /\ loc'[t].found = found
        /\ loc'[t].group = loc[t].group /\ loc'[t].type = loc[t].type
        /\ loc'[t].before = loc[t].before
    <2>1. missing \in SUBSET Nat /\ found \in SUBSET Users
      BY <1>3, <1>4
    <2>2. loc' = WithMissing(t, missing, found)
      BY <1>1 DEF WithMissing
    <2> HIDE DEF missing, found
    <2> QED BY <2>1, <2>2, MissingUpdate
  <1>9. /\ pc' \in [Threads -> Labels]
        /\ pc'[t] = "join_insert" \/ (pc'[t] \in {"join_update", "join_count"} /\ missing = {})
    <2>1. Goto(t, IF missing # {} THEN "join_insert" ELSE AfterInsert(found))
      BY <1>1
    <2> HIDE DEF missing, found
    <2>2. {"join_insert", "join_update", "join_count"} \subseteq Labels
      BY DEF Labels
    <2>3. AfterInsert(found) \in {"join_update", "join_count"}
      BY DEF AfterInsert
    <2> QED BY <2>1, <2>2, <2>3, GotoTypes
  <1>10. /\ pc[t] = "join_select"
         /\ UNCHANGED <<groups, relations, req, reply, nextReq, answers, lists, quits, boot>>
    BY DEF JoinSelect
  <1> HIDE DEF missing, found
  <1> QED BY <1>4, <1>8, <1>9, <1>10

(* QuitGroup's SELECT finds users of the list.                             *)
LEMMA QuitSelectStep ==
  ASSUME TypeOK, NEW t \in Threads, QuitSelect(t)
  PROVE  /\ pc[t] = "quit_select"
         /\ UNCHANGED <<groups, relations, req, reply, nextReq, answers, lists, quits, boot>>
         /\ pc' \in [Threads -> Labels] /\ pc'[t] \in {"quit_update", "quit_count"}
         /\ loc' \in [Threads -> Locals] /\ loc'[t].before = loc[t].before
         /\ loc'[t].group = loc[t].group
         /\ loc'[t].found \subseteq UsersIn(req[t].users)
  <1>1. PICK f \in Statuses(loc[t].group, UsersIn(req[t].users)) \cup {<<>>} :
          /\ loc' = [loc EXCEPT ![t].found = {u \in DOMAIN f : f[u] # 0}, ![t].count = 0]
          /\ Goto(t, IF {u \in DOMAIN f : f[u] # 0} = {} THEN "quit_count" ELSE "quit_update")
    BY DEF QuitSelect
  <1> DEFINE found == {u \in DOMAIN f : f[u] # 0}
  <1>2. req[t].users \in Seq(Users)
    BY UserListsAssumption DEF TypeOK, Requests
  <1>3. UsersIn(req[t].users) \subseteq Users
    BY <1>2, LenProperties, ElementOfSeq DEF UsersIn
  <1>4. found \subseteq UsersIn(req[t].users)
    BY StatusesFound
  <1>7. /\ loc' \in [Threads -> Locals] /\ loc'[t].found = found
        /\ loc'[t].group = loc[t].group /\ loc'[t].before = loc[t].before
    <2>1. found \in SUBSET Users
      BY <1>3, <1>4
    <2>2. loc' = WithFound(t, found)
      BY <1>1 DEF WithFound
    <2> HIDE DEF found
    <2> QED BY <2>1, <2>2, FoundUpdate
  <1>8. pc' \in [Threads -> Labels] /\ pc'[t] \in {"quit_update", "quit_count"}
    <2>1. \E label \in {"quit_update", "quit_count"} : Goto(t, label)
      BY <1>1
    <2>2. {"quit_update", "quit_count"} \subseteq Labels
      BY DEF Labels
    <2> QED BY <2>1, <2>2, GotoTypes
  <1>9. /\ pc[t] = "quit_select"
        /\ UNCHANGED <<groups, relations, req, reply, nextReq, answers, lists, quits, boot>>
    BY DEF QuitSelect
  <1> HIDE DEF found
  <1> QED BY <1>4, <1>7, <1>8, <1>9

(* The statements that write relations only set the thread's count.        *)
LEMMA WriteStep ==
  ASSUME TypeOK, NEW t \in Threads, WorkOK(t), JoinInsert(t) \/ JoinUpdate(t) \/ QuitUpdate(t)
  PROVE  /\ UNCHANGED <<groups, req, reply, nextReq, answers, lists, quits, boot>>
         /\ pc' \in [Threads -> Labels]
         /\ loc' \in [Threads -> Locals] /\ loc'[t].before = loc[t].before
         /\ loc'[t].group = loc[t].group /\ loc'[t].type = loc[t].type
         /\ loc'[t].found = loc[t].found
         /\ \/ pc[t] = "join_insert" /\ pc'[t] \in {"join_update", "join_count"}
            \/ pc[t] = "join_update" /\ pc'[t] = "join_count"
            \/ pc[t] = "quit_update" /\ pc'[t] = "quit_count"
  <1>1. {"join_update", "join_count", "quit_count"} \subseteq Labels
    BY DEF Labels
  <1>2. loc[t] \in Locals /\ loc[t].count \in Int
    BY DEF TypeOK, Locals
  <1>3. CASE JoinInsert(t)
    <2>1. /\ UNCHANGED <<groups, req, reply, nextReq, answers, lists, quits, boot>>
          /\ pc[t] = "join_insert" /\ Goto(t, AfterInsert(loc[t].found))
      BY <1>3 DEF JoinInsert
    <2>2. AfterInsert(loc[t].found) \in {"join_update", "join_count"}
      BY DEF AfterInsert
    <2>3. pc' \in [Threads -> Labels] /\ pc'[t] \in {"join_update", "join_count"}
      BY <1>1, <2>1, <2>2, GotoTypes
    <2>4. Cardinality(loc[t].missing) \in Int
      <3>1. req[t].users \in Seq(Users) /\ loc[t].missing \subseteq DOMAIN req[t].users
        BY <2>1, UserListsAssumption DEF TypeOK, Requests, WorkOK
      <3>2. Len(req[t].users) \in Nat /\ DOMAIN req[t].users = 1 .. Len(req[t].users)
        BY <3>1, LenProperties
      <3>3. IsFiniteSet(1 .. Len(req[t].users))
        BY <3>2, FS_Interval
      <3> QED BY <3>1, <3>2, <3>3, FS_Subset, FS_CardinalityType
    <2>5. \E c \in Int : loc' = WithCount(t, c)
      BY <1>3, <2>4 DEF JoinInsert, ExecErrors, WithCount
    <2> QED BY <2>1, <2>3, <2>5, CountUpdate
  <1>4. CASE JoinUpdate(t)
    <2>1. /\ UNCHANGED <<groups, req, reply, nextReq, answers, lists, quits, boot>>
          /\ pc[t] = "join_update" /\ Goto(t, "join_count")
      BY <1>4 DEF JoinUpdate
    <2>2. pc' \in [Threads -> Labels] /\ pc'[t] = "join_count"
      BY <1>1, <2>1, GotoTypes
    <2> DEFINE back == {i \in RowsOf(loc[t].group, loc[t].found) : relations[i].status = 0}
    <2>3. Cardinality(back) \in Int
      BY RowsFinite DEF RowsOf
    <2>4. \/ loc' = [loc EXCEPT ![t].count = @ + Cardinality(back)]
          \/ \E e \in ExecErrors : loc' = [loc EXCEPT ![t].count = @ + e]
      BY <1>4 DEF JoinUpdate
    <2>5. \E c \in Int : loc' = WithCount(t, c)
      <3> HIDE DEF back
      <3>1. CASE loc' = [loc EXCEPT ![t].count = @ + Cardinality(back)]
        <4>1. loc' = WithCount(t, loc[t].count + Cardinality(back))
          BY <3>1 DEF WithCount
        <4>2. loc[t].count + Cardinality(back) \in Int
          BY <1>2, <2>3
        <4> QED BY <4>1, <4>2
      <3>2. ASSUME NEW e \in ExecErrors, loc' = [loc EXCEPT ![t].count = @ + e]
            PROVE  \E c \in Int : loc' = WithCount(t, c)
        <4>1. loc' = WithCount(t, loc[t].count + e)
          BY <3>2 DEF WithCount
        <4>2. loc[t].count + e \in Int
          BY <1>2, <3>2 DEF ExecErrors
        <4> QED BY <4>1, <4>2
      <3> QED BY <2>4, <3>1, <3>2
    <2> QED BY <2>1, <2>2, <2>5, CountUpdate
  <1>5. CASE QuitUpdate(t)
    <2>1. /\ UNCHANGED <<groups, req, reply, nextReq, answers, lists, quits, boot>>
          /\ pc[t] = "quit_update" /\ Goto(t, "quit_count")
      BY <1>5 DEF QuitUpdate
    <2>2. pc' \in [Threads -> Labels] /\ pc'[t] = "quit_count"
      BY <1>1, <2>1, GotoTypes
    <2> DEFINE rows == RowsOf(loc[t].group, loc[t].found)
               left == {i \in rows : relations[i].status = 1}
    <2>3. Cardinality(left) \in Int /\ Cardinality(rows) \in Int
      BY RowsFinite DEF RowsOf
    <2>4. \/ \E n \in Cardinality(left) .. Cardinality(rows) : loc' = [loc EXCEPT ![t].count = - n]
          \/ \E e \in ExecErrors : loc' = [loc EXCEPT ![t].count = - e]
      BY <1>5 DEF QuitUpdate
    <2>5. \E c \in Int : loc' = WithCount(t, c)
      <3> HIDE DEF rows, left
      <3>1. ASSUME NEW n \in Int, loc' = [loc EXCEPT ![t].count = - n]
            PROVE  \E c \in Int : loc' = WithCount(t, c)
        <4>1. loc' = WithCount(t, - n) /\ - n \in Int
          BY <3>1 DEF WithCount
        <4> QED BY <4>1
      <3>2. ExecErrors \subseteq Int
        BY DEF ExecErrors
      <3>3. Cardinality(left) .. Cardinality(rows) \subseteq Int
        BY <2>3
      <3> QED BY <2>4, <3>1, <3>2, <3>3
    <2> QED BY <2>1, <2>2, <2>5, CountUpdate
  <1> QED BY <1>3, <1>4, <1>5

(* The last UPDATE of JoinGroup and QuitGroup, and the answer.             *)
LEMMA CountStep ==
  ASSUME TypeOK, NEW t \in Threads, WorkOK(t), JoinCount(t) \/ QuitCount(t)
  PROVE  /\ UNCHANGED <<relations, req, loc, nextReq, answers, lists, quits, boot>>
         /\ pc' \in [Threads -> Labels] /\ reply' \in [Threads -> Replies]
         /\ pc'[t] = "reply" /\ reply'[t].list = {}
         /\ \/ /\ pc[t] = "join_count"
               /\ req[t].kind = "Create" => reply'[t].group = loc[t].group
               /\ reply'[t].result = 0
            \/ pc[t] = "quit_count"
  <1>1. loc[t].group \in Nat
    BY DEF TypeOK, Locals
  <1>2. CASE JoinCount(t)
    <2> DEFINE g == IF req[t].kind = "Create" THEN loc[t].group ELSE 0
    <2>1. g \in Nat /\ Finish(t, 0, g) /\ pc[t] = "join_count"
      BY <1>1, <1>2 DEF JoinCount
    <2>2. UNCHANGED <<relations, req, loc, nextReq, answers, lists, quits, boot>>
      BY <1>2 DEF JoinCount
    <2>3. /\ pc' \in [Threads -> Labels] /\ reply' \in [Threads -> Replies]
          /\ pc'[t] = "reply" /\ reply'[t].list = {} /\ reply'[t].group = g
          /\ reply'[t].result = 0
      <3> HIDE DEF g
      <3> QED BY <2>1, AnswerTypes DEF Finish
    <2> QED BY <2>1, <2>2, <2>3
  <1>3. CASE QuitCount(t)
    <2>1. Finish(t, 0, 0) /\ pc[t] = "quit_count"
      BY <1>3 DEF QuitCount
    <2>2. UNCHANGED <<relations, req, loc, nextReq, answers, lists, quits, boot>>
      BY <1>3 DEF QuitCount
    <2> QED BY <2>1, <2>2, AnswerTypes DEF Finish
  <1> QED BY <1>2, <1>3

(* Nothing counts the messages of groups.                                  *)
LEMMA NoGroupCount ==
  ASSUME NEW user, NEW g
  PROVE  GetUserGroupCount(user, g) = 0
  <1>1. GetGroupTotalCount(g) = 0
    BY DEF GetGroupTotalCount, group_counter_instance
  <1> QED BY <1>1 DEF GetUserGroupCount

(* The groups a list of a user shows, without members.                     *)
Bare(user, ids) ==
  {[group |-> g, members |-> {}, unread |-> GetUserGroupCount(user, g)] : g \in ids}

(* They are groups as lists show them, one for each id.                    *)
LEMMA BareType ==
  ASSUME NEW user, NEW ids \in SUBSET Nat
  PROVE  /\ Bare(user, ids) \in SUBSET Listed
         /\ \A l \in Bare(user, ids) : l.group \in ids /\ l.members = {}
         /\ ids = {l.group : l \in Bare(user, ids)}
  <1> DEFINE shown(g) == [group |-> g, members |-> {}, unread |-> 0]
  <1>1. Bare(user, ids) = {shown(g) : g \in ids}
    BY NoGroupCount DEF Bare
  <1>2. ASSUME NEW g \in ids
        PROVE  shown(g) \in Listed /\ shown(g).group = g /\ shown(g).members = {}
    <2>1. shown(g).group = g /\ shown(g).members = {}
      OBVIOUS
    <2>2. g \in Nat /\ {} \in SUBSET Users /\ 0 \in Nat
      OBVIOUS
    <2>3. shown(g) \in Listed
      BY <2>2 DEF Listed
    <2> QED BY <2>1, <2>3
  <1> HIDE DEF shown
  <1> QED BY <1>1, <1>2

(* The first statement of a list of groups.                                *)
LEMMA ListGroupsStep ==
  ASSUME TypeOK, NEW t \in Threads, ListGroups(t)
  PROVE  /\ pc[t] = "list_groups"
         /\ UNCHANGED <<groups, relations, req, nextReq, answers, lists, quits, boot>>
         /\ pc' \in [Threads -> Labels] /\ reply' \in [Threads -> Replies]
         /\ loc' \in [Threads -> Locals] /\ loc'[t].before = loc[t].before
         /\ \/ /\ req[t].id \in failed' /\ pc'[t] = "reply" /\ reply'[t].list = {}
            \/ \E rows \in SelectGroups(req[t].user, req[t].kind) :
                 LET ids == {relations[i].groupId : i \in rows} \cap DOMAIN groups
                 IN  \/ pc'[t] = "list_members" /\ req[t].kind # "All" /\ loc'[t].listed = ids
                     \/ /\ pc'[t] = "reply" /\ reply'[t].list = Bare(req[t].user, ids)
                        /\ req[t].kind = "All" \/ ids = {}
  <1>1. /\ pc[t] = "list_groups"
        /\ UNCHANGED <<groups, relations, req, nextReq, answers, lists, quits, boot>>
    BY DEF ListGroups
  <1>2. ASSUME NEW l \in SUBSET Listed, FinishList(t, l)
        PROVE  /\ pc' \in [Threads -> Labels] /\ reply' \in [Threads -> Replies]
               /\ pc'[t] = "reply" /\ reply'[t].list = l
    BY <1>2, AnswerTypes DEF FinishList
  <1>3. CASE Fault(t) /\ FinishList(t, {}) /\ UNCHANGED loc
    BY <1>1, <1>2, <1>3 DEF Fault, TypeOK
  <1>4. ASSUME NEW rows \in SelectGroups(req[t].user, req[t].kind),
               LET ids == {relations[i].groupId : i \in rows} \cap DOMAIN groups
               IN  \/ /\ req[t].kind # "All" /\ ids # {}
                      /\ loc' = [loc EXCEPT ![t].listed = ids]
                      /\ Goto(t, "list_members")
                      /\ UNCHANGED reply
                   \/ /\ req[t].kind = "All" \/ ids = {}
                      /\ FinishList(t, {[group |-> g, members |-> {},
                           unread |-> GetUserGroupCount(req[t].user, g)] : g \in ids})
                      /\ UNCHANGED loc
        PROVE  /\ pc' \in [Threads -> Labels] /\ reply' \in [Threads -> Replies]
               /\ loc' \in [Threads -> Locals] /\ loc'[t].before = loc[t].before
               /\ LET ids == {relations[i].groupId : i \in rows} \cap DOMAIN groups
                  IN  \/ pc'[t] = "list_members" /\ req[t].kind # "All" /\ loc'[t].listed = ids
                      \/ /\ pc'[t] = "reply" /\ reply'[t].list = Bare(req[t].user, ids)
                         /\ req[t].kind = "All" \/ ids = {}
    <2> DEFINE ids == {relations[i].groupId : i \in rows} \cap DOMAIN groups
    <2>2. ids \in SUBSET Nat
      BY TableTypes
    <2>3. \/ /\ req[t].kind # "All" /\ loc' = [loc EXCEPT ![t].listed = ids]
             /\ Goto(t, "list_members") /\ UNCHANGED reply
          \/ /\ req[t].kind = "All" \/ ids = {}
             /\ FinishList(t, Bare(req[t].user, ids)) /\ UNCHANGED loc
      BY <1>4 DEF Bare
    <2> HIDE DEF ids
    <2>4. CASE /\ req[t].kind # "All" /\ loc' = [loc EXCEPT ![t].listed = ids]
               /\ Goto(t, "list_members") /\ UNCHANGED reply
      <3>1. "list_members" \in Labels
        BY DEF Labels
      <3>2. pc' \in [Threads -> Labels] /\ pc'[t] = "list_members" /\ reply' \in [Threads -> Replies]
        BY <2>4, <3>1, GotoTypes DEF TypeOK
      <3> DEFINE r == loc[t]
                 l == [r EXCEPT !.listed = ids]
      <3>3. r \in Locals /\ loc' = [loc EXCEPT ![t] = l]
        BY <2>4 DEF TypeOK
      <3> HIDE DEF r
      <3>4. l \in Locals /\ l.listed = ids /\ l.before = r.before
        BY <2>2, <3>3 DEF Locals
      <3> HIDE DEF l
      <3>5. loc' \in [Threads -> Locals] /\ loc'[t] = l
        BY <3>3, <3>4 DEF TypeOK
      <3>6. loc'[t].listed = ids /\ loc'[t].before = loc[t].before
        BY <3>4, <3>5 DEF r
      <3> QED BY <2>4, <3>2, <3>5, <3>6 DEF ids
    <2>5. CASE /\ req[t].kind = "All" \/ ids = {}
               /\ FinishList(t, Bare(req[t].user, ids)) /\ UNCHANGED loc
      <3>1. Bare(req[t].user, ids) \in SUBSET Listed
        BY <2>2, BareType
      <3>2. /\ pc' \in [Threads -> Labels] /\ reply' \in [Threads -> Replies]
            /\ pc'[t] = "reply" /\ reply'[t].list = Bare(req[t].user, ids)
        BY <1>2, <2>5, <3>1
      <3> QED BY <2>5, <3>2 DEF ids, TypeOK
    <2> QED BY <2>3, <2>4, <2>5
  <1> QED BY <1>1, <1>3, <1>4 DEF ListGroups

(* A SELECT with a LIMIT returns some of the rows, and all if there are    *)
(* not too many.                                                           *)
LEMMA LimitedRows ==
  ASSUME TypeOK, NEW all \in SUBSET DOMAIN relations, NEW limit \in Nat
  PROVE  /\ \A rows \in Limited(all, limit) :
              rows \subseteq all /\ (Cardinality(all) <= limit => rows = all)
         /\ all \notin Limited(all, limit) <=> Cardinality(all) > limit
  <1>1. Cardinality(all) \in Nat
    BY RowsFinite
  <1> QED BY <1>1 DEF Limited, kSubset

(* The present members' rows of some groups, and the list made of rows.    *)
Current(ids) ==
  {i \in DOMAIN relations : relations[i].groupId \in ids /\ relations[i].status >= 1}
MembersIn(rows, g) == {relations[i].userId : i \in {j \in rows : relations[j].groupId = g}}
Shown(rows, ids) ==
  {[group |-> g, unread |-> 0, members |-> MembersIn(rows, g)] : g \in ids}

(* They are groups as lists show them, with the users of the rows.         *)
LEMMA ShownType ==
  ASSUME TypeOK, NEW rows \in SUBSET DOMAIN relations, NEW ids \in SUBSET Nat
  PROVE  /\ Shown(rows, ids) \in SUBSET Listed
         /\ \A l \in Shown(rows, ids) : l.group \in ids /\ l.members = MembersIn(rows, l.group)
         /\ ids = {l.group : l \in Shown(rows, ids)}
  <1> DEFINE shown(g) == [group |-> g, unread |-> 0, members |-> MembersIn(rows, g)]
  <1>1. Shown(rows, ids) = {shown(g) : g \in ids}
    BY DEF Shown
  <1>2. ASSUME NEW g \in ids
        PROVE  /\ shown(g) \in Listed /\ shown(g).group = g
               /\ shown(g).members = MembersIn(rows, g)
    <2>1. shown(g).group = g /\ shown(g).members = MembersIn(rows, g)
      OBVIOUS
    <2>2. g \in Nat /\ MembersIn(rows, g) \in SUBSET Users /\ 0 \in Nat
      BY TableTypes DEF MembersIn, RelationRows
    <2>3. shown(g) \in Listed
      BY <2>2 DEF Listed
    <2> QED BY <2>1, <2>3
  <1> HIDE DEF shown
  <1> QED BY <1>1, <1>2

(* The statement that reads the members of the groups of a list.           *)
LEMMA MembersStep ==
  ASSUME TypeOK, NEW t \in Threads, GetGroupMembers(t)
  PROVE  /\ pc[t] = "list_members"
         /\ UNCHANGED <<groups, relations, req, loc, nextReq, answers, lists, quits, boot>>
         /\ pc' \in [Threads -> Labels] /\ reply' \in [Threads -> Replies]
         /\ pc'[t] = "reply"
         /\ \E rows \in SUBSET Current(ListedIds(t)) :
              /\ reply'[t].list = Shown(rows, ListedIds(t))
              /\ Cardinality(Current(ListedIds(t))) <= MEMBER_LIMIT =>
                   rows = Current(ListedIds(t)) \/ req[t].id \in failed'
  <1>1. /\ pc[t] = "list_members"
        /\ UNCHANGED <<groups, relations, req, loc, nextReq, answers, lists, quits, boot>>
    BY DEF GetGroupMembers
  <1> DEFINE ids == ListedIds(t)
             all == Current(ids)
  <1>2. PICK rows \in Limited(all, MEMBER_LIMIT) \cup {{}} :
          /\ IF rows \in Limited(all, MEMBER_LIMIT) THEN Sound ELSE Fault(t)
          /\ FinishList(t, Shown(rows, ids))
    BY DEF GetGroupMembers, Current, Shown, MembersIn
  <1>3. ids \in SUBSET Nat
    BY DEF ListedIds, TypeOK, Locals
  <1>4. all \in SUBSET DOMAIN relations /\ MEMBER_LIMIT \in Nat
    BY GroupLimitsAssumption DEF Current
  <1> HIDE DEF all, ids
  <1>5. rows \in SUBSET all
    BY <1>2, <1>4, LimitedRows
  <1>6. Cardinality(all) <= MEMBER_LIMIT => rows = all \/ req[t].id \in failed'
    <2>1. rows \in Limited(all, MEMBER_LIMIT) \/ req[t].id \in failed'
      BY <1>2 DEF Fault
    <2> QED BY <1>4, <2>1, LimitedRows
  <1>7. Shown(rows, ids) \in SUBSET Listed
    BY <1>3, <1>4, <1>5, ShownType
  <1>8. /\ pc' \in [Threads -> Labels] /\ reply' \in [Threads -> Replies]
        /\ pc'[t] = "reply" /\ reply'[t].list = Shown(rows, ids)
    BY <1>2, <1>7, AnswerTypes DEF FinishList
  <1>9. \E rs \in SUBSET all : /\ reply'[t].list = Shown(rs, ids)
                               /\ Cardinality(all) <= MEMBER_LIMIT => rs = all \/ req[t].id \in failed'
    BY <1>5, <1>6, <1>8
  <1> QED BY <1>1, <1>8, <1>9 DEF all, ids

(* An answer is sent as it stands, and kept in the history if it is a      *)
(* creation's or a list.                                                   *)
LEMMA SendStep ==
  ASSUME TypeOK, NEW t \in Threads, SendSessionData(t)
  PROVE  /\ pc[t] = "reply"
         /\ UNCHANGED <<groups, relations, nextReq, quits, faults, failed, boot>>
         /\ pc' \in [Threads -> Labels] /\ req' \in [Threads -> Requests]
         /\ loc' \in [Threads -> Locals] /\ reply' \in [Threads -> Replies]
         /\ pc'[t] = "idle" /\ loc'[t].before = {}
         /\ \/ answers' = answers
            \/ /\ req[t].kind = "Create"
               /\ answers' = answers \cup {[id |-> req[t].id, users |-> UsersIn(req[t].users),
                    result |-> reply[t].result, group |-> reply[t].group]}
         /\ \/ lists' = lists
            \/ /\ req[t].kind \in Listings
               /\ lists' = lists \cup {[id |-> req[t].id, kind |-> req[t].kind, user |-> req[t].user,
                    before |-> loc[t].before, list |-> reply[t].list]}
         /\ answers' \subseteq [id : Nat, users : SUBSET Users, result : {0, 1}, group : Nat]
         /\ lists' \subseteq [id : Nat, kind : Listings, user : Ids, before : SUBSET (Nat \X Users),
                              list : SUBSET Listed]
  <1>1. /\ pc[t] = "reply" /\ UNCHANGED <<groups, relations, nextReq, quits, faults, failed, boot>>
        /\ Goto(t, "idle")
        /\ req' = [req EXCEPT ![t] = NoRequest]
        /\ loc' = [loc EXCEPT ![t] = NoLocals]
        /\ reply' = [reply EXCEPT ![t] = NoReply]
    BY DEF SendSessionData
  <1>2. pc' \in [Threads -> Labels] /\ pc'[t] = "idle"
    <2>1. "idle" \in Labels
      BY DEF Labels
    <2> QED BY <1>1, <2>1, GotoTypes
  <1>3. /\ req' \in [Threads -> Requests] /\ loc' \in [Threads -> Locals]
        /\ reply' \in [Threads -> Replies] /\ loc'[t] = NoLocals
    BY <1>1, InitialValues DEF TypeOK
  <1>4. loc'[t].before = {}
    BY <1>3 DEF NoLocals
  <1> DEFINE us == UsersIn(req[t].users)
             a == [id |-> req[t].id, users |-> us, result |-> reply[t].result,
                   group |-> reply[t].group]
             l == [id |-> req[t].id, kind |-> req[t].kind, user |-> req[t].user,
                   before |-> loc[t].before, list |-> reply[t].list]
  <1>5. /\ answers' = answers \/ (req[t].kind = "Create" /\ answers' = answers \cup {a})
        /\ lists' = lists \/ (req[t].kind \in Listings /\ lists' = lists \cup {l})
    BY DEF SendSessionData
  <1>6. a \in [id : Nat, users : SUBSET Users, result : {0, 1}, group : Nat]
    <2>1. req[t].users \in Seq(Users)
      BY UserListsAssumption DEF TypeOK, Requests
    <2>2. us \in SUBSET Users
      BY <2>1, LenProperties, ElementOfSeq DEF UsersIn
    <2>3. req[t].id \in Nat /\ reply[t].result \in {0, 1} /\ reply[t].group \in Nat
      BY DEF TypeOK, Requests, Replies
    <2> HIDE DEF us
    <2> QED BY <2>2, <2>3
  <1>7. req[t].kind \in Listings =>
          l \in [id : Nat, kind : Listings, user : Ids, before : SUBSET (Nat \X Users),
                 list : SUBSET Listed]
    <2>1. /\ req[t].id \in Nat /\ req[t].user \in Ids /\ loc[t].before \in SUBSET (Nat \X Users)
          /\ reply[t].list \in SUBSET Listed
      BY DEF TypeOK, Requests, Replies, Locals
    <2> QED BY <2>1
  <1> HIDE DEF a, l
  <1>8. answers' \subseteq [id : Nat, users : SUBSET Users, result : {0, 1}, group : Nat]
    BY <1>5, <1>6 DEF TypeOK
  <1>9. lists' \subseteq [id : Nat, kind : Listings, user : Ids, before : SUBSET (Nat \X Users),
                          list : SUBSET Listed]
    BY <1>5, <1>7 DEF TypeOK
  <1>10. /\ \/ answers' = answers
            \/ /\ req[t].kind = "Create"
               /\ answers' = answers \cup {[id |-> req[t].id, users |-> UsersIn(req[t].users),
                    result |-> reply[t].result, group |-> reply[t].group]}
         /\ \/ lists' = lists
            \/ /\ req[t].kind \in Listings
               /\ lists' = lists \cup {[id |-> req[t].id, kind |-> req[t].kind, user |-> req[t].user,
                    before |-> loc[t].before, list |-> reply[t].list]}
    BY <1>5 DEF a, l
  <1> QED BY <1>1, <1>2, <1>3, <1>4, <1>8, <1>9, <1>10

-----------------------------------------------------------------------------
(* Type correctness.                                                       *)

(* A step of a thread keeps the types.                                     *)
LEMMA TypeStep ==
  ASSUME TypeOK, NEW t \in Threads, WorkOK(t), Accept(t) \/ Work(t)
  PROVE  TypeOK'
  <1>1. /\ relations' \in Seq(RelationRows) /\ groups' \in Seq(GroupRows)
        /\ faults' \in Nat /\ failed' \subseteq Nat /\ quits' \in Nat
    BY Frame, RelationsStep, GroupsStep
  <1>2. CASE Accept(t)
    BY <1>1, <1>2, AcceptShape DEF TypeOK
  <1>3. CASE CreateInsert(t)
    BY <1>1, <1>3, CreateStep DEF TypeOK
  <1>4. CASE GetGroupInfo(t)
    BY <1>1, <1>4, GetGroupStep DEF TypeOK
  <1>5. CASE JoinSelect(t)
    BY <1>1, <1>5, JoinSelectStep DEF TypeOK
  <1>6. CASE JoinInsert(t) \/ JoinUpdate(t) \/ QuitUpdate(t)
    BY <1>1, <1>6, WriteStep DEF TypeOK
  <1>7. CASE JoinCount(t) \/ QuitCount(t)
    BY <1>1, <1>7, CountStep DEF TypeOK
  <1>8. CASE QuitSelect(t)
    BY <1>1, <1>8, QuitSelectStep DEF TypeOK
  <1>9. CASE ListGroups(t)
    BY <1>1, <1>9, ListGroupsStep DEF TypeOK
  <1>10. CASE GetGroupMembers(t)
    BY <1>1, <1>10, MembersStep DEF TypeOK
  <1>11. CASE SendSessionData(t)
    BY <1>1, <1>11, SendStep DEF TypeOK
  <1> QED BY <1>2, <1>3, <1>4, <1>5, <1>6, <1>7, <1>8, <1>9, <1>10, <1>11 DEF Work

(* Death and restart keep the types.                                       *)
LEMMA RestartShape ==
  ASSUME TypeOK, Restart
  PROVE  /\ TypeOK'
         /\ UNCHANGED <<groups, relations, nextReq, answers, lists, quits, faults, failed>>
         /\ \A t \in Threads : pc'[t] = "idle" /\ loc'[t].before = {}
  <1>1. "idle" \in Labels /\ NoLocals.before = {}
    BY DEF Labels, NoLocals
  <1>2. /\ UNCHANGED <<groups, relations, nextReq, answers, lists, quits, faults, failed>>
        /\ boot' = boot + 1
        /\ pc' = [t \in Threads |-> "idle"] /\ req' = [t \in Threads |-> NoRequest]
        /\ loc' = [t \in Threads |-> NoLocals] /\ reply' = [t \in Threads |-> NoReply]
    BY DEF Restart
  <1> QED BY <1>1, <1>2, InitialValues DEF TypeOK

-----------------------------------------------------------------------------
(* What is true of the tables stays true while their rows are kept.        *)

(* What every step of the system does to the tables and the counts.        *)
Grown ==
  /\ TypeOK /\ TypeOK' /\ RelationsOK /\ RowsKept
  /\ failed \subseteq failed' /\ quits <= quits'

(* The tables grow at their ends.                                          *)
LEMMA TablesGrow ==
  ASSUME Grown
  PROVE  /\ \A g \in DOMAIN groups : g \in DOMAIN groups'
         /\ \A i \in DOMAIN relations : i \in DOMAIN relations'
         /\ quits' = 0 => quits = 0
  <1>1. /\ DOMAIN groups = 1 .. Len(groups) /\ Len(groups) \in Nat
        /\ DOMAIN relations = 1 .. Len(relations) /\ Len(relations) \in Nat
    BY TableTypes DEF Grown
  <1>2. /\ DOMAIN groups' = 1 .. Len(groups') /\ Len(groups') \in Nat
        /\ DOMAIN relations' = 1 .. Len(relations') /\ Len(relations') \in Nat
    BY LenProperties DEF Grown, TypeOK
  <1>3. Len(groups) <= Len(groups') /\ Len(relations) <= Len(relations')
    BY DEF Grown, RowsKept
  <1>4. quits \in Nat /\ quits' \in Nat /\ quits <= quits'
    BY DEF Grown, TypeOK
  <1> QED BY <1>1, <1>2, <1>3, <1>4

(* A relation is for good, and so is what a creation promised.             *)
LEMMA CreatedStays ==
  ASSUME Grown
  PROVE  /\ \A g, u : Related(g, u) => Related(g, u)'
         /\ \A g, id : Created(g, id) => Created(g, id)'
         /\ \A id, g, us : AllJoined(id, g, us) => AllJoined(id, g, us)'
  <1>1. ASSUME NEW g, NEW u, Related(g, u) PROVE Related(g, u)'
    <2>1. PICK i \in DOMAIN relations : relations[i].groupId = g /\ relations[i].userId = u
      BY <1>1 DEF Related
    <2>2. /\ i \in DOMAIN relations'
          /\ relations'[i].groupId = g /\ relations'[i].userId = u
      BY <2>1, TablesGrow DEF Grown, RowsKept
    <2> QED BY <2>2 DEF Related
  <1>2. ASSUME NEW g, NEW id, Created(g, id) PROVE Created(g, id)'
    BY <1>2, TablesGrow DEF Created, Grown, RowsKept
  <1>3. ASSUME NEW id, NEW g, NEW us, AllJoined(id, g, us) PROVE AllJoined(id, g, us)'
    BY <1>1, <1>3 DEF AllJoined, Grown
  <1> QED BY <1>1, <1>2, <1>3

(* Members are known groups' users, and stay while nobody is removed.      *)
LEMMA BelongingStays ==
  ASSUME Grown
  PROVE  /\ \A p \in Belonging : p[1] \in DOMAIN groups /\ Related(p[1], p[2])
         /\ quits = 0 => Belonging \subseteq Belonging'
  <1>1. ASSUME NEW p \in Belonging PROVE p[1] \in DOMAIN groups /\ Related(p[1], p[2])
    <2>1. PICK i \in DOMAIN relations : p = <<relations[i].groupId, relations[i].userId>>
      BY DEF Belonging
    <2>2. p[1] = relations[i].groupId /\ p[2] = relations[i].userId
      BY <2>1
    <2>3. relations[i].groupId \in DOMAIN groups
      BY DEF Grown, RelationsOK
    <2> QED BY <2>2, <2>3 DEF Related
  <1>2. ASSUME quits = 0, NEW p \in Belonging PROVE p \in Belonging'
    <2>1. PICK i \in DOMAIN relations :
            relations[i].status = 1 /\ p = <<relations[i].groupId, relations[i].userId>>
      BY DEF Belonging
    <2>2. /\ i \in DOMAIN relations' /\ relations'[i].status = 1
          /\ p = <<relations'[i].groupId, relations'[i].userId>>
      BY <1>2, <2>1, TablesGrow DEF Grown, RowsKept
    <2> QED BY <2>2 DEF Belonging
  <1> QED BY <1>1, <1>2

(* A limit that was reached stays reached while nobody is removed.         *)
LEMMA OverStays ==
  ASSUME Grown, quits = 0, NEW user, NEW kind \in UserListings, Over(user, kind)
  PROVE  Over(user, kind)'
  <1> DEFINE old == Memberships(user, kind)
             new == Memberships(user, kind)'
  <1>1. old \subseteq new
    <2>1. \A i \in DOMAIN relations : relations[i].status \in {0, 1}
      BY TableTypes DEF Grown, RelationRows
    <2>2. SUFFICES ASSUME NEW i \in old PROVE i \in new
      OBVIOUS
    <2>3. /\ i \in DOMAIN relations /\ relations[i].userId = user
          /\ relations[i].status = 1 /\ (kind = "Fixed" => relations[i].groupType = 1)
      BY <2>1, <2>2 DEF Memberships
    <2>4. /\ i \in DOMAIN relations' /\ relations'[i].userId = user
          /\ relations'[i].status = 1 /\ (kind = "Fixed" => relations'[i].groupType = 1)
      BY <2>3, TablesGrow DEF Grown, RowsKept
    <2> QED BY <2>4 DEF Memberships
  <1>2. new \subseteq DOMAIN relations' /\ DOMAIN relations' = 1 .. Len(relations')
        /\ Len(relations') \in Nat
    BY LenProperties DEF Memberships, Grown, TypeOK
  <1> HIDE DEF old, new
  <1>3. IsFiniteSet(new)
    <2>1. IsFiniteSet(1 .. Len(relations'))
      BY <1>2, FS_Interval
    <2> QED BY <1>2, <2>1, FS_Subset
  <1>4. Cardinality(old) <= Cardinality(new) /\ IsFiniteSet(old)
    BY <1>1, <1>3, FS_Subset
  <1>5. Cardinality(old) \in Nat /\ Cardinality(new) \in Nat
    BY <1>3, <1>4, FS_CardinalityType
  <1>6. LimitOf(kind) \in Nat
    BY GroupLimitsAssumption DEF LimitOf, UserListings
  <1>7. Cardinality(old) > LimitOf(kind)
    BY DEF Over, old
  <1>8. Cardinality(new) > LimitOf(kind)
    <2> DEFINE limit == LimitOf(kind)
    <2> HIDE DEF limit
    <2>1. limit \in Nat /\ Cardinality(old) > limit
      BY <1>6, <1>7 DEF limit
    <2>2. Cardinality(new) > limit
      BY <1>4, <1>5, <2>1
    <2> QED BY <2>2 DEF limit
  <1> QED BY <1>8 DEF Over, new, LimitOf

(* Groups with too many relations keep them.                               *)
LEMMA CrowdStays ==
  ASSUME Grown, NEW gs, Crowded(gs)
  PROVE  Crowded(gs)'
  <1> DEFINE old == RelationsOf(gs)
             new == RelationsOf(gs)'
  <1>1. old \subseteq new
    BY TablesGrow DEF RelationsOf, Grown, RowsKept
  <1>2. new \subseteq DOMAIN relations' /\ DOMAIN relations' = 1 .. Len(relations')
        /\ Len(relations') \in Nat
    BY LenProperties DEF RelationsOf, Grown, TypeOK
  <1> HIDE DEF old, new
  <1>3. IsFiniteSet(1 .. Len(relations'))
    BY <1>2, FS_Interval
  <1>4. IsFiniteSet(new)
    BY <1>2, <1>3, FS_Subset
  <1>5. Cardinality(old) <= Cardinality(new) /\ IsFiniteSet(old)
    BY <1>1, <1>4, FS_Subset
  <1>6. /\ Cardinality(old) \in Nat /\ Cardinality(new) \in Nat /\ MEMBER_LIMIT \in Nat
        /\ Cardinality(old) > MEMBER_LIMIT
    BY <1>4, <1>5, FS_CardinalityType, GroupLimitsAssumption DEF Crowded, old
  <1>7. Cardinality(new) > MEMBER_LIMIT
    BY <1>5, <1>6
  <1> QED BY <1>7 DEF Crowded, new

(* The groups a list is about are the same ones later.                     *)
LEMMA WantedStays ==
  ASSUME Grown, NEW user, NEW kind, NEW before \in SUBSET Belonging
  PROVE  Wanted(user, kind, before)' = Wanted(user, kind, before)
  <1>1. \A p \in before : groups'[p[1]].groupType = groups[p[1]].groupType
    BY BelongingStays DEF Grown, RowsKept
  <1> QED BY <1>1 DEF Wanted

(* What has been read, and the list that is sent, stay true.               *)
LEMMA ListStays ==
  ASSUME Grown, NEW id, NEW user, NEW kind, NEW before, quits = 0 => before \subseteq Belonging
  PROVE  /\ \A ids : kind \in UserListings /\ GroupsRead(id, user, kind, before, ids) =>
                       GroupsRead(id, user, kind, before, ids)'
         /\ \A list : ListTrue(id, kind, user, before, list) => ListTrue(id, kind, user, before, list)'
  <1>1. ASSUME NEW ids, kind \in UserListings, GroupsRead(id, user, kind, before, ids)
        PROVE  GroupsRead(id, user, kind, before, ids)'
    <2>1. ASSUME NEW g \in ids
          PROVE  /\ g \in DOMAIN groups' /\ Related(g, user)'
                 /\ quits' = 0 => <<g, user>> \in Belonging'
      BY <1>1, TablesGrow, CreatedStays, BelongingStays DEF GroupsRead
    <2>2. ASSUME quits' = 0, id \notin failed', ~ Over(user, kind)'
          PROVE  Wanted(user, kind, before)' \subseteq ids
      <3>1. quits = 0 /\ id \notin failed
        BY <2>2, TablesGrow DEF Grown
      <3>2. ~ Over(user, kind)
        BY <1>1, <2>2, <3>1, OverStays
      <3>3. Wanted(user, kind, before)' = Wanted(user, kind, before)
        BY <3>1, WantedStays
      <3> QED BY <1>1, <3>1, <3>2, <3>3 DEF GroupsRead
    <2> QED BY <2>1, <2>2 DEF GroupsRead
  <1>2. ASSUME NEW list, ListTrue(id, kind, user, before, list)
        PROVE  ListTrue(id, kind, user, before, list)'
    <2>1. \A l \in list : l.group \in DOMAIN groups' /\ \A u \in l.members : Related(l.group, u)'
      BY <1>2, TablesGrow, CreatedStays DEF ListTrue
    <2>2. kind \in UserListings => \A l \in list : Related(l.group, user)'
      BY <1>2, CreatedStays DEF ListTrue
    <2>3. ASSUME quits' = 0, id \notin failed'
          PROVE  /\ kind \in UserListings =>
                      \/ Over(user, kind)'
                      \/ Wanted(user, kind, before)' \subseteq {l.group : l \in list}
                 /\ kind # "All" /\ ~ Crowded({l.group : l \in list})' =>
                      \A l \in list :
                        /\ {p[2] : p \in {q \in before : q[1] = l.group}} \subseteq l.members
                        /\ kind \in UserListings => user \in l.members
      <3>1. quits = 0 /\ id \notin failed
        BY <2>3, TablesGrow DEF Grown
      <3>2. Wanted(user, kind, before)' = Wanted(user, kind, before)
        BY <3>1, WantedStays
      <3>3. ~ Crowded({l.group : l \in list})' => ~ Crowded({l.group : l \in list})
        BY CrowdStays
      <3>4. ASSUME kind \in UserListings
            PROVE  \/ Over(user, kind)'
                   \/ Wanted(user, kind, before)' \subseteq {l.group : l \in list}
        <4>1. CASE Over(user, kind)
          BY <3>1, <3>4, <4>1, OverStays
        <4>2. CASE ~ Over(user, kind)
          BY <1>2, <3>1, <3>2, <3>4, <4>2 DEF ListTrue
        <4> QED BY <4>1, <4>2
      <3> QED BY <1>2, <3>1, <3>3, <3>4 DEF ListTrue
    <2> QED BY <2>1, <2>2, <2>3 DEF ListTrue
  <1> QED BY <1>1, <1>2

(* Every step of the system is such a step.                                *)
LEMMA GrownStep ==
  ASSUME IInv, [Next]_vars
  PROVE  Grown
  <1>0. TypeOK /\ RelationsOK /\ \A t \in Threads : WorkOK(t)
    BY DEF IInv
  <1>1. TypeOK'
    <2>1. CASE UNCHANGED vars
      BY <1>0, <2>1 DEF vars, TypeOK
    <2>2. CASE Restart
      BY <1>0, <2>2, RestartShape
    <2>3. ASSUME NEW t \in Threads, Accept(t) \/ Work(t) PROVE TypeOK'
      BY <1>0, <2>3, TypeStep
    <2> QED BY <2>1, <2>2, <2>3 DEF Next
  <1> QED BY <1>0, <1>1, KeptStep DEF Grown

-----------------------------------------------------------------------------
(* The parts of IInv, one by one.                                          *)

(* A relation is added only to a group that exists, with its type.         *)
LEMMA RelationsOKStep ==
  ASSUME IInv, [Next]_vars
  PROVE  RelationsOK'
  <1>0. TypeOK /\ RelationsOK /\ Grown /\ \A t \in Threads : WorkOK(t)
    BY GrownStep DEF IInv
  <1>1. ASSUME NEW i \in DOMAIN relations
        PROVE  /\ relations'[i].groupId \in DOMAIN groups'
               /\ relations'[i].groupType = groups'[relations'[i].groupId].groupType
    <2>1. /\ relations[i].groupId \in DOMAIN groups
          /\ relations[i].groupType = groups[relations[i].groupId].groupType
      BY <1>0 DEF RelationsOK
    <2>2. /\ relations'[i].groupId = relations[i].groupId
          /\ relations'[i].groupType = relations[i].groupType
          /\ groups'[relations[i].groupId].groupType = groups[relations[i].groupId].groupType
      BY <1>0, <2>1 DEF Grown, RowsKept
    <2> QED BY <1>0, <2>1, <2>2, TablesGrow
  <1>2. CASE UNCHANGED <<groups, relations>>
    BY <1>0, <1>2 DEF RelationsOK
  <1>3. ASSUME NEW t \in Threads, Accept(t) \/ Work(t) PROVE RelationsOK'
    <2>1. ASSUME NEW i \in DOMAIN relations' \ DOMAIN relations
          PROVE  /\ relations'[i].groupId \in DOMAIN groups'
                 /\ relations'[i].groupType = groups'[relations'[i].groupId].groupType
      <3>1. /\ pc[t] = "join_insert"
            /\ relations'[i].groupId = loc[t].group /\ relations'[i].groupType = loc[t].type
        BY <1>0, <1>3, RelationsStep
      <3>2. loc[t].group \in DOMAIN groups /\ loc[t].type = groups[loc[t].group].groupType
        BY <1>0, <3>1 DEF WorkOK, JoinLabels
      <3>3. groups'[loc[t].group].groupType = groups[loc[t].group].groupType
        BY <1>0, <3>2 DEF Grown, RowsKept
      <3> QED BY <1>0, <3>1, <3>2, <3>3, TablesGrow
    <2> QED BY <1>1, <2>1 DEF RelationsOK
  <1> QED BY <1>2, <1>3 DEF Next, Restart, vars

(* A thread that does not move keeps what it has found.                    *)
LEMMA WorkStays ==
  ASSUME Grown, NEW o \in Threads, WorkOK(o),
         pc'[o] = pc[o], req'[o] = req[o], loc'[o] = loc[o]
  PROVE  WorkOK(o)'
  <1>1. \A g \in DOMAIN groups : /\ g \in DOMAIN groups'
                                 /\ groups'[g].groupType = groups[g].groupType
                                 /\ groups'[g].createUserId = groups[g].createUserId
    BY TablesGrow DEF Grown, RowsKept
  <1>2. quits > 0 => quits' > 0
    BY DEF Grown, TypeOK
  <1> QED BY <1>1, <1>2 DEF WorkOK, UsersIn

(* A handler passes its checks before it works.                            *)
LEMMA WorkOKStep ==
  ASSUME IInv, [Next]_vars, NEW o \in Threads
  PROVE  WorkOK(o)'
  <1>0. TypeOK /\ WorkOK(o) /\ Grown
    BY GrownStep DEF IInv
  <1>1. ASSUME NEW t \in Threads, Accept(t) \/ Work(t), t # o PROVE WorkOK(o)'
    BY <1>0, <1>1, Frame, WorkStays
  <1>2. CASE UNCHANGED vars
    BY <1>0, <1>2, WorkStays DEF vars
  <1>3. CASE Restart
    BY <1>0, <1>3, RestartShape DEF WorkOK, JoinLabels, QuitLabels
  <1>4. CASE Accept(o)
    <2>1. /\ req'[o].kind = "Quit" => quits' > 0
          /\ \/ pc'[o] = "create_insert" /\ req'[o].kind = "Create" /\ req'[o].user \in Users
             \/ pc'[o] = "get_group" /\ req'[o].kind \in {"Join", "Quit", "Members"}
             \/ pc'[o] = "list_groups" /\ req'[o].kind \in UserListings /\ req'[o].user \in Users
             \/ pc'[o] = "reply"
      BY <1>0, <1>4, AcceptShape
    <2> QED BY <2>1 DEF WorkOK, JoinLabels, QuitLabels
  <1>5. pc[o] # "idle" /\ req[o].kind = "Quit" => quits > 0
    BY <1>0 DEF WorkOK
  <1>6. CASE CreateInsert(o)
    <2>1. /\ req' = req /\ req[o].kind = "Create"
          /\ \/ /\ pc'[o] = "join_select" /\ Len(groups') = Len(groups) + 1
                /\ loc'[o].group = Len(groups) + 1 /\ loc'[o].type = 2
             \/ pc'[o] = "reply"
      BY <1>0, <1>6, CreateStep DEF WorkOK
    <2>2. CASE pc'[o] = "reply"
      BY <2>1, <2>2 DEF WorkOK, JoinLabels, QuitLabels
    <2>3. CASE pc'[o] # "reply"
      <3>1. Len(groups) \in Nat /\ DOMAIN groups' = 1 .. Len(groups')
        BY <1>0, TableTypes, LenProperties DEF Grown, TypeOK
      <3>2. loc'[o].group \in DOMAIN groups' /\ groups' # groups
        <4> DEFINE n == Len(groups)
                   m == Len(groups')
        <4>1. n \in Nat /\ m = n + 1 /\ DOMAIN groups' = 1 .. m /\ loc'[o].group = n + 1
          BY <2>1, <2>3, <3>1
        <4>2. groups' = groups => m = n
          OBVIOUS
        <4> HIDE DEF n, m
        <4> QED BY <4>1, <4>2
      <3>3. groups'[Len(groups) + 1].groupType = 2
        BY <1>0, <1>6, <3>2, CreateShape
      <3> QED BY <2>1, <2>3, <3>2, <3>3 DEF WorkOK, JoinLabels, QuitLabels
    <2> QED BY <2>2, <2>3
  <1>7. CASE GetGroupInfo(o)
    <2>1. /\ UNCHANGED <<groups, req, quits>> /\ pc[o] = "get_group"
          /\ \/ /\ pc'[o] = "list_members" /\ req[o].kind = "Members"
                /\ loc'[o].group \in DOMAIN groups
             \/ /\ pc'[o] = "join_select" /\ req[o].kind = "Join"
                /\ loc'[o].group \in DOMAIN groups
                /\ loc'[o].type = groups[loc'[o].group].groupType
             \/ /\ pc'[o] = "quit_select" /\ req[o].kind = "Quit"
                /\ loc'[o].group \in DOMAIN groups
                /\ req[o].user = groups[loc'[o].group].createUserId
             \/ pc'[o] = "reply"
      BY <1>0, <1>7, GetGroupStep
    <2> QED BY <1>5, <2>1 DEF WorkOK, JoinLabels, QuitLabels
  <1>8. CASE JoinSelect(o)
    <2>1. /\ UNCHANGED <<groups, req, quits>> /\ pc[o] = "join_select"
          /\ loc'[o].group = loc[o].group /\ loc'[o].type = loc[o].type
          /\ loc'[o].missing \subseteq DOMAIN req[o].users
          /\ loc'[o].found \subseteq UsersIn(req[o].users)
          /\ pc'[o] \in {"join_insert", "join_update", "join_count"}
      BY <1>0, <1>8, JoinSelectStep
    <2> QED BY <1>0, <2>1 DEF WorkOK, JoinLabels, QuitLabels, UsersIn
  <1>9. CASE QuitSelect(o)
    <2>1. /\ UNCHANGED <<groups, req, quits>> /\ pc[o] = "quit_select"
          /\ loc'[o].group = loc[o].group
          /\ loc'[o].found \subseteq UsersIn(req[o].users)
          /\ pc'[o] \in {"quit_update", "quit_count"}
      BY <1>0, <1>9, QuitSelectStep
    <2> QED BY <1>0, <2>1 DEF WorkOK, JoinLabels, QuitLabels, UsersIn
  <1>10. CASE JoinInsert(o) \/ JoinUpdate(o) \/ QuitUpdate(o)
    <2>1. /\ UNCHANGED <<groups, req, quits>>
          /\ loc'[o].group = loc[o].group /\ loc'[o].type = loc[o].type
          /\ loc'[o].found = loc[o].found
          /\ \/ pc[o] = "join_insert" /\ pc'[o] \in {"join_update", "join_count"}
             \/ pc[o] = "join_update" /\ pc'[o] = "join_count"
             \/ pc[o] = "quit_update" /\ pc'[o] = "quit_count"
      BY <1>0, <1>10, WriteStep
    <2> QED BY <1>0, <2>1 DEF WorkOK, JoinLabels, QuitLabels, UsersIn
  <1>11. CASE JoinCount(o) \/ QuitCount(o) \/ GetGroupMembers(o)
    <2>1. req' = req /\ quits' = quits /\ pc'[o] = "reply" /\ pc[o] # "idle"
      BY <1>0, <1>11, CountStep, MembersStep
    <2> QED BY <1>5, <2>1 DEF WorkOK, JoinLabels, QuitLabels
  <1>12. CASE ListGroups(o)
    <2>1. /\ req' = req /\ quits' = quits /\ pc[o] = "list_groups"
          /\ pc'[o] = "reply" \/ (pc'[o] = "list_members" /\ req[o].kind # "All")
      BY <1>0, <1>12, ListGroupsStep
    <2>2. req[o].kind \in UserListings
      BY <1>0, <2>1 DEF WorkOK
    <2> QED BY <2>1, <2>2 DEF WorkOK, JoinLabels, QuitLabels, UserListings
  <1>13. CASE SendSessionData(o)
    BY <1>0, <1>13, SendStep DEF WorkOK, JoinLabels, QuitLabels
  <1> QED BY <1>1, <1>2, <1>3, <1>4, <1>6, <1>7, <1>8, <1>9, <1>10, <1>11, <1>12, <1>13
          DEF Next, Work

(* A thread that does not move keeps what its creation has reached.        *)
LEMMA CreateStays ==
  ASSUME Grown, NEW o \in Threads, CreateOK(o),
         pc'[o] = pc[o], req'[o] = req[o], loc'[o] = loc[o], reply'[o] = reply[o]
  PROVE  CreateOK(o)'
  <1> DEFINE g == loc[o].group
             h == reply[o].group
             id == req[o].id
             us == UsersIn(req[o].users)
             vs == {req[o].users[k] : k \in DOMAIN req[o].users \ loc[o].missing}
  <1>1. /\ g' = g /\ h' = h /\ id' = id /\ us' = us /\ vs' = vs
    BY DEF UsersIn
  <1>2. req[o].kind = "Create" =>
          /\ pc[o] \in JoinLabels => Created(g, id)
          /\ pc[o] = "join_insert" => AllJoined(id, g, vs)
          /\ pc[o] \in {"join_update", "join_count"} => AllJoined(id, g, us)
          /\ pc[o] = "reply" /\ reply[o].result = 0 => Created(h, id) /\ AllJoined(id, h, us)
    BY DEF CreateOK
  <1> HIDE DEF g, h, id, us, vs
  <1>3. /\ Created(g, id) => Created(g, id)'
        /\ Created(h, id) => Created(h, id)'
        /\ AllJoined(id, g, vs) => AllJoined(id, g, vs)'
        /\ AllJoined(id, g, us) => AllJoined(id, g, us)'
        /\ AllJoined(id, h, us) => AllJoined(id, h, us)'
    BY <1>1, CreatedStays
  <1>4. req'[o].kind = "Create" =>
          /\ pc'[o] \in JoinLabels => Created(g, id)'
          /\ pc'[o] = "join_insert" => AllJoined(id, g, vs)'
          /\ pc'[o] \in {"join_update", "join_count"} => AllJoined(id, g, us)'
          /\ pc'[o] = "reply" /\ reply'[o].result = 0 => Created(h, id)' /\ AllJoined(id, h, us)'
    BY <1>2, <1>3
  <1> QED BY <1>4 DEF CreateOK, JoinLabels, g, h, id, us, vs

(* CreateGroup and JoinGroup, statement by statement: the group is the     *)
(* request's, and its users have a relation or are inserted.               *)
LEMMA CreateOKStep ==
  ASSUME IInv, [Next]_vars, NEW o \in Threads
  PROVE  CreateOK(o)'
  <1>0. TypeOK /\ WorkOK(o) /\ CreateOK(o) /\ Grown
    BY GrownStep DEF IInv
  <1>1. ASSUME NEW t \in Threads, Accept(t) \/ Work(t), t # o PROVE CreateOK(o)'
    BY <1>0, <1>1, Frame, CreateStays
  <1>2. CASE UNCHANGED vars
    BY <1>0, <1>2, CreateStays DEF vars
  <1>3. CASE Restart
    BY <1>0, <1>3, RestartShape DEF CreateOK, JoinLabels
  <1>4. CASE Accept(o)
    BY <1>0, <1>4, AcceptShape DEF CreateOK, JoinLabels
  <1>5. CASE SendSessionData(o)
    BY <1>0, <1>5, SendStep DEF CreateOK, JoinLabels
  <1>6. CASE CreateInsert(o)
    <2>1. /\ req' = req
          /\ \/ /\ pc'[o] = "join_select" /\ Len(groups') = Len(groups) + 1
                /\ loc'[o].group = Len(groups) + 1
             \/ pc'[o] = "reply" /\ reply'[o].result = 1
      BY <1>0, <1>6, CreateStep
    <2>2. CASE pc'[o] = "reply" /\ reply'[o].result = 1
      BY <2>2 DEF CreateOK, JoinLabels
    <2>3. CASE /\ pc'[o] = "join_select" /\ Len(groups') = Len(groups) + 1
               /\ loc'[o].group = Len(groups) + 1
      <3> DEFINE n == Len(groups)
                 m == Len(groups')
      <3>1. n \in Nat /\ m = n + 1 /\ DOMAIN groups' = 1 .. m /\ loc'[o].group = n + 1
        <4>1. groups' \in Seq(GroupRows)
          BY <1>0 DEF Grown, TypeOK
        <4>2. DOMAIN groups' = 1 .. Len(groups')
          BY <4>1, LenProperties
        <4>3. Len(groups) \in Nat
          BY <1>0, TableTypes
        <4> QED BY <2>3, <4>2, <4>3
      <3>2. groups' = groups => m = n
        OBVIOUS
      <3>3. groups' = groups \/ groups'[n + 1].req = req[o].id
        BY <1>0, <1>6, CreateShape
      <3> HIDE DEF n, m
      <3>4. loc'[o].group \in DOMAIN groups' /\ groups'[loc'[o].group].req = req'[o].id
        BY <2>1, <3>1, <3>2, <3>3
      <3> QED BY <2>3, <3>4 DEF CreateOK, JoinLabels, Created
    <2> QED BY <2>1, <2>2, <2>3
  <1>7. CASE JoinSelect(o)
    <2>1. /\ UNCHANGED <<groups, relations, req>> /\ pc[o] = "join_select"
          /\ loc'[o].group = loc[o].group
          /\ \A k \in DOMAIN req[o].users \ loc'[o].missing :
               Related(loc[o].group, req[o].users[k])
          /\ \/ pc'[o] = "join_insert"
             \/ pc'[o] \in {"join_update", "join_count"} /\ loc'[o].missing = {}
      BY <1>0, <1>7, JoinSelectStep
    <2>2. \A k \in DOMAIN req'[o].users \ loc'[o].missing :
            Related(loc[o].group, req[o].users[k])'
      BY <2>1 DEF Related
    <2>3. req[o].kind = "Create" => Created(loc[o].group, req[o].id)'
      BY <1>0, <2>1 DEF CreateOK, JoinLabels, Created
    <2>4. CASE pc'[o] = "join_insert"
      BY <2>1, <2>2, <2>3, <2>4 DEF CreateOK, AllJoined
    <2>5. CASE pc'[o] \in {"join_update", "join_count"} /\ loc'[o].missing = {}
      <3>1. \A u \in UsersIn(req[o].users)' : Related(loc[o].group, u)'
        <4>1. SUFFICES ASSUME NEW k \in DOMAIN req'[o].users
                       PROVE  Related(loc[o].group, req[o].users[k])'
          BY <2>1 DEF UsersIn, Related
        <4> QED BY <2>2, <2>5, <4>1
      <3> QED BY <2>1, <2>3, <2>5, <3>1 DEF CreateOK, AllJoined
    <2> QED BY <2>1, <2>4, <2>5
  <1>8. CASE JoinInsert(o) /\ req[o].kind = "Create"
    <2>1. /\ UNCHANGED <<groups, req>> /\ pc[o] = "join_insert"
          /\ loc'[o].group = loc[o].group
          /\ pc'[o] \in {"join_update", "join_count"}
      <3>1. pc[o] = "join_insert"
        BY <1>8 DEF JoinInsert
      <3> QED BY <1>0, <1>8, <3>1, WriteStep
    <2>2. Created(loc[o].group, req[o].id)'
      BY <1>0, <1>8, <2>1 DEF CreateOK, JoinLabels, Created
    <2>3. ASSUME req[o].id \notin failed', NEW k \in DOMAIN req[o].users
          PROVE  \E i \in DOMAIN relations' : /\ relations'[i].groupId = loc[o].group
                                              /\ relations'[i].userId = req[o].users[k]
      <3>1. req[o].id \notin failed
        BY <1>0, <2>3 DEF Grown
      <3>2. PICK p \in InOrder(loc[o].missing) : relations' = relations \o NewRelations(o, p)
        BY <1>8, <2>3 DEF JoinInsert, Fault
      <3>3. CASE k \in loc[o].missing
        BY <1>0, <2>1, <3>2, <3>3, InsertShape
      <3>4. CASE k \notin loc[o].missing
        <4>1. Related(loc[o].group, req[o].users[k])
          BY <1>0, <1>8, <2>1, <3>1, <3>4 DEF CreateOK, AllJoined
        <4>2. PICK i \in DOMAIN relations : /\ relations[i].groupId = loc[o].group
                                            /\ relations[i].userId = req[o].users[k]
          BY <4>1 DEF Related
        <4>3. /\ i \in DOMAIN relations' /\ relations'[i].groupId = relations[i].groupId
              /\ relations'[i].userId = relations[i].userId
          BY <1>0, <4>2, TablesGrow DEF Grown, RowsKept
        <4> QED BY <4>2, <4>3
      <3> QED BY <3>3, <3>4
    <2>4. AllJoined(req[o].id, loc[o].group, UsersIn(req[o].users))'
      BY <2>1, <2>3 DEF AllJoined, Related, UsersIn
    <2> QED BY <2>1, <2>2, <2>4 DEF CreateOK
  <1>9. CASE JoinUpdate(o) /\ req[o].kind = "Create"
    <2> DEFINE g == loc[o].group
               id == req[o].id
               us == UsersIn(req[o].users)
    <2>1. /\ UNCHANGED <<groups, req>> /\ pc[o] = "join_update"
          /\ loc'[o].group = loc[o].group /\ pc'[o] = "join_count"
      <3>1. pc[o] = "join_update"
        BY <1>9 DEF JoinUpdate
      <3> QED BY <1>0, <1>9, <3>1, WriteStep
    <2>2. Created(loc[o].group, req[o].id)'
      BY <1>0, <1>9, <2>1 DEF CreateOK, JoinLabels, Created
    <2>3. g' = g /\ id' = id /\ us' = us /\ AllJoined(id, g, us)
      BY <1>0, <1>9, <2>1 DEF CreateOK, UsersIn
    <2> HIDE DEF g, id, us
    <2>4. AllJoined(id, g, us)'
      BY <1>0, <2>3, CreatedStays DEF AllJoined
    <2> QED BY <2>1, <2>2, <2>4 DEF CreateOK, g, id, us
  <1>10. CASE JoinCount(o) /\ req[o].kind = "Create"
    <2> DEFINE g == loc[o].group
               id == req[o].id
               us == UsersIn(req[o].users)
    <2>1. /\ UNCHANGED <<req, loc>> /\ pc[o] = "join_count"
          /\ pc'[o] = "reply" /\ reply'[o].group = loc[o].group
      <3>1. pc[o] = "join_count"
        BY <1>10 DEF JoinCount
      <3> QED BY <1>0, <1>10, <3>1, CountStep
    <2>2. g' = g /\ id' = id /\ us' = us /\ Created(g, id) /\ AllJoined(id, g, us)
      BY <1>0, <1>10, <2>1 DEF CreateOK, JoinLabels, UsersIn
    <2> HIDE DEF g, id, us
    <2>3. Created(g, id)' /\ AllJoined(id, g, us)'
      BY <1>0, <2>2, CreatedStays DEF AllJoined, Created
    <2>4. reply'[o].group = g'
      BY <2>1 DEF g
    <2>5. /\ Created(reply[o].group, req[o].id)'
          /\ AllJoined(req[o].id, reply[o].group, UsersIn(req[o].users))'
      BY <2>3, <2>4 DEF id, us, Created, AllJoined, Related
    <2> QED BY <2>1, <2>5 DEF CreateOK, JoinLabels
  <1>11. CASE \/ GetGroupInfo(o) \/ QuitSelect(o) \/ QuitUpdate(o) \/ QuitCount(o)
              \/ ListGroups(o) \/ GetGroupMembers(o)
    <2>1. /\ pc[o] \in {"get_group", "list_groups", "list_members"} \cup QuitLabels
          /\ req' = req
      BY <1>11 DEF GetGroupInfo, QuitSelect, QuitUpdate, QuitCount, ListGroups,
                   GetGroupMembers, QuitLabels
    <2>2. req[o].kind # "Create"
      BY <1>0, <2>1 DEF WorkOK, UserListings, QuitLabels
    <2> QED BY <2>1, <2>2 DEF CreateOK
  <1>12. CASE (JoinInsert(o) \/ JoinUpdate(o) \/ JoinCount(o)) /\ req[o].kind # "Create"
    <2>1. req' = req
      BY <1>12 DEF JoinInsert, JoinUpdate, JoinCount
    <2> QED BY <1>12, <2>1 DEF CreateOK
  <1> QED BY <1>1, <1>2, <1>3, <1>4, <1>5, <1>6, <1>7, <1>8, <1>9, <1>10, <1>11, <1>12
          DEF Next, Work

(* SelectGroups reads the user's memberships, up to the limit.             *)
LEMMA SelectLimited ==
  ASSUME NEW user, NEW kind \in UserListings
  PROVE  /\ SelectGroups(user, kind) = Limited(Memberships(user, kind), LimitOf(kind))
         /\ LimitOf(kind) \in Nat
  <1>1. LimitOf(kind) \in Nat
    BY GroupLimitsAssumption DEF LimitOf, UserListings
  <1>2. SelectGroups(user, kind) = Limited(Memberships(user, kind), LimitOf(kind))
    BY DEF SelectGroups, LimitOf, UserListings, GetGroupsByUserId, GetRecentGroupsByUserId,
           GetGroupIdsByUserId
  <1> QED BY <1>1, <1>2

(* The first statement of a list reads groups of the user, and all that he *)
(* belonged to when the request came.                                      *)
LEMMA SelectTrue ==
  ASSUME TypeOK, RelationsOK, NEW id, NEW user \in Users, NEW kind \in UserListings,
         NEW rows \in SelectGroups(user, kind), NEW before,
         quits = 0 => before \subseteq Belonging
  PROVE  GroupsRead(id, user, kind, before, {relations[i].groupId : i \in rows} \cap DOMAIN groups)
  <1> DEFINE all == Memberships(user, kind)
             ids == {relations[i].groupId : i \in rows} \cap DOMAIN groups
  <1>1. all \in SUBSET DOMAIN relations
    BY DEF Memberships
  <1>2. rows \subseteq all /\ (~ Over(user, kind) => rows = all)
    <2>1. Cardinality(all) \in Nat
      BY <1>1, RowsFinite
    <2>2. rows \in Limited(all, LimitOf(kind)) /\ LimitOf(kind) \in Nat
      BY SelectLimited
    <2>3. Over(user, kind) <=> Cardinality(all) > LimitOf(kind)
      BY DEF Over
    <2> HIDE DEF all
    <2>4. rows \subseteq all /\ (Cardinality(all) <= LimitOf(kind) => rows = all)
      BY <1>1, <2>2, LimitedRows
    <2>5. Cardinality(all) <= LimitOf(kind) \/ Cardinality(all) > LimitOf(kind)
      BY <2>1, <2>2
    <2> QED BY <2>3, <2>4, <2>5
  <1>3. ASSUME NEW g \in ids
        PROVE  /\ g \in DOMAIN groups /\ Related(g, user)
               /\ quits = 0 => <<g, user>> \in Belonging
    <2>1. PICK i \in rows : relations[i].groupId = g /\ g \in DOMAIN groups
      BY <1>3
    <2>2. /\ i \in DOMAIN relations /\ relations[i].userId = user
          /\ relations[i].status >= 1 /\ relations[i].status \in {0, 1}
      BY <1>2, TableTypes DEF Memberships, RelationRows
    <2>3. relations[i].status = 1
      BY <2>2
    <2> QED BY <2>1, <2>2, <2>3 DEF Related, Belonging
  <1>4. ASSUME quits = 0, ~ Over(user, kind) PROVE Wanted(user, kind, before) \subseteq ids
    <2>1. SUFFICES ASSUME NEW p \in before, p[2] = user,
                          kind = "Fixed" => groups[p[1]].groupType = 1
                   PROVE  p[1] \in ids
      BY DEF Wanted
    <2>2. PICK i \in DOMAIN relations :
            relations[i].status = 1 /\ p = <<relations[i].groupId, relations[i].userId>>
      BY <1>4 DEF Belonging
    <2>3. p[1] = relations[i].groupId /\ relations[i].userId = user
      BY <2>1, <2>2
    <2>4. /\ relations[i].groupId \in DOMAIN groups
          /\ relations[i].groupType = groups[relations[i].groupId].groupType
      BY DEF RelationsOK
    <2>5. i \in all
      BY <2>1, <2>2, <2>3, <2>4 DEF Memberships
    <2>6. i \in rows
      BY <1>2, <1>4, <2>5
    <2> QED BY <2>3, <2>4, <2>6
  <1> HIDE DEF ids
  <1>5. GroupsRead(id, user, kind, before, ids)
    BY <1>3, <1>4 DEF GroupsRead
  <1> QED BY <1>5 DEF ids

(* A list without members is true when its groups are.                     *)
LEMMA BareTrue ==
  ASSUME NEW id, NEW user, NEW kind \in UserListings, NEW before, NEW ids \in SUBSET Nat,
         GroupsRead(id, user, kind, before, ids), kind = "All" \/ ids = {}
  PROVE  ListTrue(id, kind, user, before, Bare(user, ids))
  <1> DEFINE list == Bare(user, ids)
  <1>1. /\ \A l \in list : l.group \in ids /\ l.members = {}
        /\ ids = {l.group : l \in list}
    BY BareType
  <1> HIDE DEF list
  <1>2. kind # "All" => list = {}
    BY <1>1
  <1>3. ListTrue(id, kind, user, before, list)
    BY <1>1, <1>2 DEF ListTrue, GroupsRead
  <1> QED BY <1>3 DEF list

(* The second statement of a list: whoever was a member when the request   *)
(* came is read, and nobody who has no relation to the group.              *)
LEMMA ShownTrue ==
  ASSUME TypeOK, NEW id, NEW user, NEW kind \in {"Fixed", "Recent", "Members"}, NEW before,
         quits = 0 => before \subseteq Belonging,
         NEW ids \in SUBSET DOMAIN groups,
         kind \in UserListings => GroupsRead(id, user, kind, before, ids),
         NEW rows \in SUBSET Current(ids)
  PROVE  /\ \A l \in Shown(rows, ids) :
              l.group \in DOMAIN groups /\ \A u \in l.members : Related(l.group, u)
         /\ kind \in UserListings => \A l \in Shown(rows, ids) : Related(l.group, user)
         /\ (Cardinality(Current(ids)) <= MEMBER_LIMIT => rows = Current(ids) \/ id \in failed)
              => ListTrue(id, kind, user, before, Shown(rows, ids))
  <1> DEFINE list == Shown(rows, ids)
  <1>1. rows \in SUBSET DOMAIN relations /\ ids \in SUBSET Nat
    BY TableTypes DEF Current
  <1>2. /\ \A l \in list : l.group \in ids /\ l.members = MembersIn(rows, l.group)
        /\ ids = {l.group : l \in list}
    BY <1>1, ShownType
  <1> HIDE DEF list
  <1>3. \A l \in list : l.group \in DOMAIN groups /\ \A u \in l.members : Related(l.group, u)
    BY <1>1, <1>2 DEF MembersIn, Related
  <1>4. kind \in UserListings => \A l \in list : Related(l.group, user)
    BY <1>2 DEF GroupsRead
  <1>5. ASSUME quits = 0, rows = Current(ids), NEW l \in list
        PROVE  /\ {p[2] : p \in {q \in before : q[1] = l.group}} \subseteq l.members
               /\ kind \in UserListings => user \in l.members
    <2>1. ASSUME NEW p \in Belonging, p[1] = l.group PROVE p[2] \in l.members
      <3>1. PICK i \in DOMAIN relations :
              relations[i].status = 1 /\ p = <<relations[i].groupId, relations[i].userId>>
        BY DEF Belonging
      <3>2. relations[i].groupId = l.group /\ relations[i].userId = p[2]
        BY <2>1, <3>1
      <3>3. i \in rows
        BY <1>2, <1>5, <3>1, <3>2 DEF Current
      <3> QED BY <1>2, <3>2, <3>3 DEF MembersIn
    <2>2. {p[2] : p \in {q \in before : q[1] = l.group}} \subseteq l.members
      BY <1>5, <2>1
    <2>3. ASSUME kind \in UserListings PROVE user \in l.members
      <3>1. <<l.group, user>> \in Belonging
        BY <1>2, <1>5, <2>3 DEF GroupsRead
      <3> QED BY <2>1, <3>1
    <2> QED BY <2>2, <2>3
  <1>6. ~ Crowded(ids) => Cardinality(Current(ids)) <= MEMBER_LIMIT
    <2>1. Current(ids) \subseteq RelationsOf(ids) /\ RelationsOf(ids) \in SUBSET DOMAIN relations
      BY DEF Current, RelationsOf
    <2>2. IsFiniteSet(RelationsOf(ids)) /\ Cardinality(RelationsOf(ids)) \in Nat
      BY <2>1, RowsFinite
    <2>3. /\ Cardinality(Current(ids)) <= Cardinality(RelationsOf(ids))
          /\ Cardinality(Current(ids)) \in Nat
      BY <2>1, <2>2, FS_Subset, FS_CardinalityType
    <2> QED BY <2>2, <2>3, GroupLimitsAssumption DEF Crowded
  <1>7. ASSUME Cardinality(Current(ids)) <= MEMBER_LIMIT => rows = Current(ids) \/ id \in failed
        PROVE  ListTrue(id, kind, user, before, list)
    <2>1. ASSUME quits = 0, id \notin failed, kind \in UserListings
          PROVE  Over(user, kind) \/ Wanted(user, kind, before) \subseteq {l.group : l \in list}
      BY <1>2, <2>1 DEF GroupsRead
    <2>2. ASSUME quits = 0, id \notin failed, ~ Crowded({l.group : l \in list}), NEW l \in list
          PROVE  /\ {p[2] : p \in {q \in before : q[1] = l.group}} \subseteq l.members
                 /\ kind \in UserListings => user \in l.members
      <3>1. ~ Crowded(ids)
        BY <1>2, <2>2
      <3> QED BY <1>5, <1>6, <1>7, <2>2, <3>1
    <2> QED BY <1>3, <1>4, <2>1, <2>2 DEF ListTrue
  <1> QED BY <1>3, <1>4, <1>7 DEF list

(* A thread that does not move keeps what its list has reached.            *)
LEMMA ListThreadStays ==
  ASSUME Grown, NEW o \in Threads, ListOK(o),
         pc'[o] = pc[o], req'[o] = req[o], loc'[o] = loc[o], reply'[o] = reply[o]
  PROVE  ListOK(o)'
  <1> DEFINE kind == req[o].kind
             user == req[o].user
             before == loc[o].before
             ids == loc[o].listed
             list == reply[o].list
             id == req[o].id
  <1>1. id' = id /\ kind' = kind /\ user' = user /\ before' = before /\ ids' = ids /\ list' = list
    OBVIOUS
  <1>2. /\ quits = 0 => before \subseteq Belonging
        /\ pc[o] = "list_members" /\ kind \in UserListings => GroupsRead(id, user, kind, before, ids)
        /\ pc[o] = "reply" /\ kind \in Listings => ListTrue(id, kind, user, before, list)
    BY DEF ListOK
  <1> HIDE DEF id, kind, user, before, ids, list
  <1>3. quits' = 0 => before' \subseteq Belonging'
    BY <1>1, <1>2, TablesGrow, BelongingStays
  <1>4. /\ kind \in UserListings /\ GroupsRead(id, user, kind, before, ids) =>
             GroupsRead(id, user, kind, before, ids)'
        /\ ListTrue(id, kind, user, before, list) => ListTrue(id, kind, user, before, list)'
    BY <1>1, <1>2, ListStays
  <1>5. /\ pc'[o] = "list_members" /\ kind' \in UserListings =>
             GroupsRead(id, user, kind, before, ids)'
        /\ pc'[o] = "reply" /\ kind' \in Listings => ListTrue(id, kind, user, before, list)'
    BY <1>1, <1>2, <1>4
  <1> QED BY <1>3, <1>5 DEF ListOK, id, kind, user, before, ids, list

(* The handlers of the lists, statement by statement.                      *)
LEMMA ListOKStep ==
  ASSUME IInv, [Next]_vars, NEW o \in Threads
  PROVE  ListOK(o)'
  <1>0. TypeOK /\ RelationsOK /\ WorkOK(o) /\ ListOK(o) /\ Grown
    BY GrownStep DEF IInv
  <1>1. ASSUME NEW t \in Threads, Accept(t) \/ Work(t), t # o PROVE ListOK(o)'
    BY <1>0, <1>1, Frame, ListThreadStays
  <1>2. CASE UNCHANGED vars
    BY <1>0, <1>2, ListThreadStays DEF vars
  <1>3. CASE Restart
    BY <1>0, <1>3, RestartShape DEF ListOK
  <1>4. CASE SendSessionData(o)
    BY <1>0, <1>4, SendStep DEF ListOK
  <1>5. ASSUME loc'[o].before = loc[o].before
        PROVE  quits' = 0 => loc'[o].before \subseteq Belonging'
    BY <1>0, <1>5, TablesGrow, BelongingStays DEF ListOK
  <1>6. CASE Accept(o)
    <2>1. /\ UNCHANGED <<groups, relations, failed>>
          /\ loc'[o].before \in {{}, Belonging} /\ pc'[o] # "list_members"
          /\ pc'[o] = "reply" =>
               reply'[o].list = {} /\ (req'[o].kind \in UserListings => req'[o].user = 0)
      BY <1>0, <1>6, AcceptShape
    <2>2. loc'[o].before \subseteq Belonging' /\ Belonging' = Belonging
      BY <2>1 DEF Belonging
    <2>3. ASSUME req'[o].user = 0
          PROVE  Wanted(req[o].user, req[o].kind, loc[o].before)' = {}
      <3>1. \A p \in Belonging : p[2] # 0
        BY <1>0, BelongingType, GroupUsersAssumption
      <3> QED BY <2>2, <2>3, <3>1 DEF Wanted
    <2> QED BY <2>1, <2>2, <2>3 DEF ListOK, ListTrue
  <1>7. CASE \/ CreateInsert(o) \/ JoinSelect(o) \/ JoinInsert(o) \/ JoinUpdate(o)
             \/ JoinCount(o) \/ QuitSelect(o) \/ QuitUpdate(o) \/ QuitCount(o)
    <2>1. /\ pc[o] \in {"create_insert"} \cup JoinLabels \cup QuitLabels
          /\ req' = req
      BY <1>7 DEF CreateInsert, JoinSelect, JoinInsert, JoinUpdate, JoinCount, QuitSelect,
                  QuitUpdate, QuitCount, JoinLabels, QuitLabels
    <2>2. req[o].kind \in {"Create", "Join", "Quit"}
      BY <1>0, <2>1 DEF WorkOK
    <2>3. loc'[o].before = loc[o].before
      BY <1>0, <1>7, CreateStep, JoinSelectStep, WriteStep, CountStep, QuitSelectStep
    <2>4. req'[o].kind \notin Listings /\ req'[o].kind \notin UserListings
      BY <2>1, <2>2 DEF Listings, UserListings
    <2> QED BY <1>5, <2>3, <2>4 DEF ListOK
  <1>8. CASE GetGroupInfo(o)
    <2>1. /\ UNCHANGED <<groups, relations, req, quits>> /\ pc[o] = "get_group"
          /\ loc'[o].before = loc[o].before
          /\ pc'[o] = "reply" => reply'[o].list = {}
      BY <1>0, <1>8, GetGroupStep
    <2>2. req'[o].kind \notin UserListings
      BY <1>0, <2>1 DEF WorkOK, UserListings
    <2> QED BY <1>5, <2>1, <2>2 DEF ListOK, ListTrue
  <1>9. CASE ListGroups(o)
    <2>1. /\ pc[o] = "list_groups" /\ UNCHANGED <<groups, relations, req, quits>>
          /\ loc'[o].before = loc[o].before
      BY <1>0, <1>9, ListGroupsStep
    <2>2. req[o].kind \in UserListings /\ req[o].user \in Users
      BY <1>0, <2>1 DEF WorkOK
    <2>3. CASE req[o].id \in failed' /\ pc'[o] = "reply" /\ reply'[o].list = {}
      BY <1>5, <2>1, <2>3 DEF ListOK, ListTrue
    <2>4. ASSUME NEW rows \in SelectGroups(req[o].user, req[o].kind),
                 LET ids == {relations[i].groupId : i \in rows} \cap DOMAIN groups
                 IN  \/ pc'[o] = "list_members" /\ req[o].kind # "All" /\ loc'[o].listed = ids
                     \/ /\ pc'[o] = "reply" /\ reply'[o].list = Bare(req[o].user, ids)
                        /\ req[o].kind = "All" \/ ids = {}
          PROVE  ListOK(o)'
      <3>1. PICK id, user, kind, before, ids :
              /\ id = req[o].id /\ user = req[o].user /\ kind = req[o].kind /\ before = loc[o].before
              /\ ids = {relations[i].groupId : i \in rows} \cap DOMAIN groups
        OBVIOUS
      <3>2. id = req'[o].id /\ user = req'[o].user /\ kind = req'[o].kind /\ before = loc'[o].before
        BY <2>1, <3>1
      <3>3. /\ user \in Users /\ kind \in UserListings /\ rows \in SelectGroups(user, kind)
            /\ quits = 0 => before \subseteq Belonging
        BY <1>0, <2>2, <3>1 DEF ListOK
      <3>4. GroupsRead(id, user, kind, before, ids)
        BY <1>0, <3>1, <3>3, SelectTrue
      <3>5. CASE pc'[o] = "list_members" /\ loc'[o].listed = ids
        <4>1. GroupsRead(id, user, kind, before, ids)'
          BY <1>0, <3>3, <3>4, ListStays
        <4> QED BY <1>5, <2>1, <3>2, <3>5, <4>1 DEF ListOK
      <3>6. CASE pc'[o] = "reply" /\ reply'[o].list = Bare(user, ids) /\ (kind = "All" \/ ids = {})
        <4>1. ids \in SUBSET Nat
          BY <1>0, <3>1, TableTypes
        <4>2. PICK list : list = Bare(user, ids)
          OBVIOUS
        <4>3. ListTrue(id, kind, user, before, list)
          BY <3>3, <3>4, <3>6, <4>1, <4>2, BareTrue
        <4>4. ListTrue(id, kind, user, before, list)'
          BY <1>0, <3>3, <4>3, ListStays
        <4>5. reply'[o].list = list
          BY <3>6, <4>2
        <4> QED BY <1>5, <2>1, <3>2, <3>6, <4>4, <4>5 DEF ListOK
      <3> QED BY <2>4, <3>1, <3>5, <3>6
    <2> QED BY <1>0, <1>9, <2>3, <2>4, ListGroupsStep
  <1>10. CASE GetGroupMembers(o)
    <2>1. /\ pc[o] = "list_members" /\ UNCHANGED <<groups, relations, req, loc, quits>>
          /\ pc'[o] = "reply"
      BY <1>0, <1>10, MembersStep
    <2>2. PICK rows \in SUBSET Current(ListedIds(o)) :
            /\ reply'[o].list = Shown(rows, ListedIds(o))
            /\ Cardinality(Current(ListedIds(o))) <= MEMBER_LIMIT =>
                 rows = Current(ListedIds(o)) \/ req[o].id \in failed'
      BY <1>0, <1>10, MembersStep
    <2>3. PICK id, user, kind, before, ids, list :
            /\ id = req[o].id /\ user = req[o].user /\ kind = req[o].kind /\ before = loc[o].before
            /\ ids = ListedIds(o) /\ list = Shown(rows, ids)
      OBVIOUS
    <2>4. /\ id = req'[o].id /\ user = req'[o].user /\ kind = req'[o].kind /\ before = loc'[o].before
          /\ list = reply'[o].list
      BY <2>1, <2>2, <2>3
    <2>5. /\ kind \in {"Fixed", "Recent", "Members"}
          /\ quits = 0 => before \subseteq Belonging
          /\ ids \in SUBSET DOMAIN groups
          /\ kind \in UserListings => GroupsRead(id, user, kind, before, ids)
          /\ rows \in SUBSET Current(ids)
      <3>1. CASE kind = "Members"
        BY <1>0, <2>1, <2>2, <2>3, <3>1 DEF WorkOK, ListOK, ListedIds, UserListings
      <3>2. CASE kind # "Members"
        <4>1. kind \in {"Fixed", "Recent"} /\ kind \in UserListings /\ ids = loc[o].listed
          BY <1>0, <2>1, <2>3, <3>2 DEF WorkOK, ListedIds, UserListings
        <4>2. GroupsRead(id, user, kind, before, ids) /\ (quits = 0 => before \subseteq Belonging)
          BY <1>0, <2>1, <2>3, <4>1 DEF ListOK
        <4> QED BY <2>2, <2>3, <4>1, <4>2 DEF GroupsRead
      <3> QED BY <3>1, <3>2
    <2>6. /\ \A l \in list : l.group \in DOMAIN groups /\ \A u \in l.members : Related(l.group, u)
          /\ kind \in UserListings => \A l \in list : Related(l.group, user)
          /\ (Cardinality(Current(ids)) <= MEMBER_LIMIT => rows = Current(ids) \/ id \in failed)
               => ListTrue(id, kind, user, before, list)
      <3>1. TypeOK
        BY <1>0
      <3>2. /\ \A l \in Shown(rows, ids) :
                 l.group \in DOMAIN groups /\ \A u \in l.members : Related(l.group, u)
            /\ kind \in UserListings => \A l \in Shown(rows, ids) : Related(l.group, user)
            /\ (Cardinality(Current(ids)) <= MEMBER_LIMIT => rows = Current(ids) \/ id \in failed)
                 => ListTrue(id, kind, user, before, Shown(rows, ids))
        BY <2>5, <3>1, ShownTrue
      <3> QED BY <2>3, <3>2
    <2>7. CASE id \notin failed'
      <3>1. ListTrue(id, kind, user, before, list)
        BY <2>2, <2>3, <2>7, <2>6
      <3>2. ListTrue(id, kind, user, before, list)'
        BY <1>0, <2>5, <3>1, ListStays
      <3> QED BY <1>5, <2>1, <2>4, <3>2 DEF ListOK
    <2>8. CASE id \in failed'
      <3>1. /\ \A l \in list :
                 l.group \in DOMAIN groups' /\ \A u \in l.members : Related(l.group, u)'
            /\ kind \in UserListings => \A l \in list : Related(l.group, user)'
        BY <1>0, <2>6, TablesGrow, CreatedStays
      <3>2. ListTrue(id, kind, user, before, list)'
        BY <2>8, <3>1 DEF ListTrue
      <3> QED BY <1>5, <2>1, <2>4, <3>2 DEF ListOK
    <2> QED BY <2>7, <2>8
  <1> QED BY <1>1, <1>2, <1>3, <1>4, <1>6, <1>7, <1>8, <1>9, <1>10 DEF Next, Work

(* What was sent was true, and stays true.                                 *)
LEMMA SentStep ==
  ASSUME IInv, [Next]_vars
  PROVE  SentOK'
  <1>0. /\ TypeOK /\ SentOK /\ Grown
        /\ \A t \in Threads : WorkOK(t) /\ CreateOK(t) /\ ListOK(t)
    BY GrownStep DEF IInv
  <1>1. ASSUME NEW a, a.result = 0 => Created(a.group, a.id) /\ AllJoined(a.id, a.group, a.users)
        PROVE  a.result = 0 => Created(a.group, a.id)' /\ AllJoined(a.id, a.group, a.users)'
    BY <1>0, <1>1, CreatedStays
  <1>2. ASSUME NEW a, ListTrue(a.id, a.kind, a.user, a.before, a.list),
               quits = 0 => a.before \subseteq Belonging
        PROVE  /\ ListTrue(a.id, a.kind, a.user, a.before, a.list)'
               /\ quits' = 0 => a.before \subseteq Belonging'
    BY <1>0, <1>2, ListStays, TablesGrow, BelongingStays
  <1>3. CASE UNCHANGED <<answers, lists>>
    BY <1>0, <1>1, <1>2, <1>3 DEF SentOK
  <1>4. ASSUME NEW t \in Threads, SendSessionData(t) PROVE SentOK'
    <2> DEFINE n == [id |-> req[t].id, users |-> UsersIn(req[t].users),
                     result |-> reply[t].result, group |-> reply[t].group]
               l == [id |-> req[t].id, kind |-> req[t].kind, user |-> req[t].user,
                     before |-> loc[t].before, list |-> reply[t].list]
    <2>1. /\ pc[t] = "reply"
          /\ answers' = answers \/ (req[t].kind = "Create" /\ answers' = answers \cup {n})
          /\ lists' = lists \/ (req[t].kind \in Listings /\ lists' = lists \cup {l})
      BY <1>0, <1>4, SendStep
    <2>2. /\ n.id = req[t].id /\ n.users = UsersIn(req[t].users)
          /\ n.result = reply[t].result /\ n.group = reply[t].group
          /\ l.id = req[t].id /\ l.kind = req[t].kind /\ l.user = req[t].user /\ l.before = loc[t].before
          /\ l.list = reply[t].list
      OBVIOUS
    <2> HIDE DEF n, l
    <2>3. req[t].kind = "Create" /\ n.result = 0 =>
            Created(n.group, n.id) /\ AllJoined(n.id, n.group, n.users)
      BY <1>0, <2>1, <2>2 DEF CreateOK
    <2>4. req[t].kind \in Listings => /\ ListTrue(l.id, l.kind, l.user, l.before, l.list)
                                      /\ quits = 0 => l.before \subseteq Belonging
      BY <1>0, <2>1, <2>2 DEF ListOK
    <2>5. \A a \in answers' :
            a.result = 0 => Created(a.group, a.id) /\ AllJoined(a.id, a.group, a.users)
      BY <1>0, <2>1, <2>3 DEF SentOK
    <2>6. \A a \in lists' : /\ ListTrue(a.id, a.kind, a.user, a.before, a.list)
                            /\ quits = 0 => a.before \subseteq Belonging
      BY <1>0, <2>1, <2>4 DEF SentOK
    <2> QED BY <1>1, <1>2, <2>5, <2>6 DEF SentOK
  <1>5. ASSUME NEW t \in Threads, Accept(t) \/ Work(t), ~ SendSessionData(t)
        PROVE  UNCHANGED <<answers, lists>>
    BY <1>5 DEF Accept, Work, CreateInsert, GetGroupInfo, JoinSelect, JoinInsert, JoinUpdate,
                JoinCount, QuitSelect, QuitUpdate, QuitCount, ListGroups, GetGroupMembers
  <1> QED BY <1>3, <1>4, <1>5 DEF Next, Restart, vars

-----------------------------------------------------------------------------
(* The groups that are stored for a creation.                              *)

(* A step stores at most one group, for the creation of its thread.        *)
LEMMA StoredStep ==
  ASSUME IInv, NEW t \in Threads, Accept(t) \/ Work(t), NEW g \in DOMAIN groups'
  PROVE  \/ g \in DOMAIN groups /\ groups'[g].req = groups[g].req
         \/ /\ CreateInsert(t) /\ groups' # groups
            /\ g = Len(groups) + 1 /\ groups'[g].req = req[t].id
  <1>0. TypeOK /\ WorkOK(t)
    BY DEF IInv
  <1>1. /\ DOMAIN groups = 1 .. Len(groups) /\ Len(groups) \in Nat
        /\ groups' \in Seq(GroupRows) /\ DOMAIN groups' = 1 .. Len(groups') /\ Len(groups') \in Nat
    BY <1>0, TableTypes, GroupsStep, LenProperties
  <1>2. CASE g \in DOMAIN groups
    BY <1>0, <1>2, GroupsStep
  <1>3. CASE g \notin DOMAIN groups
    <2>1. groups' # groups
      BY <1>3
    <2>2. CASE CreateInsert(t)
      <3>1. /\ Len(groups') = Len(groups) + 1
            /\ groups'[Len(groups) + 1].req = req[t].id
        BY <1>0, <2>1, <2>2, CreateShape
      <3>2. g = Len(groups) + 1
        BY <1>1, <1>3, <3>1
      <3> QED BY <2>1, <2>2, <3>1, <3>2
    <2>3. CASE JoinCount(t) \/ QuitCount(t)
      <3>1. PICK h, n : groups' = AddCount(h, n)
        BY <2>1, <2>3 DEF JoinCount, QuitCount
      <3>2. DOMAIN groups' = DOMAIN groups
        BY <3>1 DEF AddCount
      <3> QED BY <1>3, <3>2
    <2> QED BY <1>0, <2>1, <2>2, <2>3, Frame
  <1> QED BY <1>2, <1>3

(* What a step does to the number of its thread's request.                 *)
LEMMA NumberStep ==
  ASSUME IInv, NEW t \in Threads, Accept(t) \/ Work(t)
  PROVE  \/ /\ Accept(t) /\ ~ Busy(t) /\ req'[t].id = nextReq /\ nextReq' = nextReq + 1
            /\ UNCHANGED <<groups, answers>>
         \/ /\ SendSessionData(t) /\ Busy(t) /\ ~ Busy(t)' /\ UNCHANGED <<groups, nextReq>>
         \/ Work(t) /\ Busy(t) /\ UNCHANGED <<req, nextReq, answers>>
  <1>0. TypeOK /\ WorkOK(t)
    BY DEF IInv
  <1>1. CASE Accept(t)
    BY <1>0, <1>1, AcceptShape DEF Busy
  <1>2. CASE SendSessionData(t)
    BY <1>0, <1>2, SendStep DEF Busy
  <1>3. CASE CreateInsert(t)
    BY <1>0, <1>3, CreateStep DEF Busy, Work
  <1>4. CASE GetGroupInfo(t)
    BY <1>0, <1>4, GetGroupStep DEF Busy, Work
  <1>5. CASE JoinSelect(t)
    BY <1>0, <1>5, JoinSelectStep DEF Busy, Work
  <1>6. CASE JoinInsert(t) \/ JoinUpdate(t) \/ QuitUpdate(t)
    BY <1>0, <1>6, WriteStep DEF Busy, Work
  <1>7. CASE JoinCount(t) \/ QuitCount(t)
    BY <1>0, <1>7, CountStep DEF Busy, Work
  <1>8. CASE QuitSelect(t)
    BY <1>0, <1>8, QuitSelectStep DEF Busy, Work
  <1>9. CASE ListGroups(t)
    BY <1>0, <1>9, ListGroupsStep DEF Busy, Work
  <1>10. CASE GetGroupMembers(t)
    BY <1>0, <1>10, MembersStep DEF Busy, Work
  <1> QED BY <1>1, <1>2, <1>3, <1>4, <1>5, <1>6, <1>7, <1>8, <1>9, <1>10 DEF Work

(* The numbers stay apart.                                                 *)
LEMMA NumbersStep ==
  ASSUME IInv, NumbersOK, NEW t \in Threads, Accept(t) \/ Work(t)
  PROVE  NumbersOK'
  <1>0. /\ TypeOK /\ nextReq \in Nat
        /\ \A o \in Threads \ {t} : (Busy(o)' <=> Busy(o)) /\ req'[o] = req[o]
    BY Frame DEF IInv, TypeOK, Busy
  <1>1. \A g \in DOMAIN groups : groups[g].req \in Nat
    BY <1>0, TableTypes DEF GroupRows
  <1>2. /\ \A a \in answers : a.id \in Nat
        /\ \A o \in Threads : req[o].id \in Nat
    BY <1>0 DEF TypeOK, Requests
  <1>3. CASE /\ ~ Busy(t) /\ req'[t].id = nextReq /\ nextReq' = nextReq + 1
             /\ UNCHANGED <<groups, answers>>
    <2>1. /\ \A g \in DOMAIN groups' : groups'[g].req < nextReq'
          /\ \A a \in answers' : a.id < nextReq'
      BY <1>0, <1>1, <1>2, <1>3 DEF NumbersOK
    <2>2. ASSUME NEW o \in Threads, Busy(o)'
          PROVE  /\ req'[o].id < nextReq'
                 /\ \A a \in answers' : a.id # req'[o].id
                 /\ \A k \in Threads : k # o /\ Busy(k)' => req'[k].id # req'[o].id
      BY <1>0, <1>2, <1>3, <2>2 DEF NumbersOK
    <2> QED BY <2>1, <2>2 DEF NumbersOK
  <1>4. CASE SendSessionData(t) /\ Busy(t) /\ ~ Busy(t)' /\ UNCHANGED <<groups, nextReq>>
    <2>1. \A a \in answers' : a \in answers \/ a.id = req[t].id
      BY <1>0, <1>4, SendStep
    <2>2. /\ \A g \in DOMAIN groups' : groups'[g].req < nextReq'
          /\ \A a \in answers' : a.id < nextReq'
      BY <1>4, <2>1 DEF NumbersOK
    <2>3. ASSUME NEW o \in Threads, Busy(o)'
          PROVE  /\ req'[o].id < nextReq'
                 /\ \A a \in answers' : a.id # req'[o].id
                 /\ \A k \in Threads : k # o /\ Busy(k)' => req'[k].id # req'[o].id
      BY <1>0, <1>4, <2>1, <2>3 DEF NumbersOK
    <2> QED BY <2>2, <2>3 DEF NumbersOK
  <1>5. CASE Busy(t) /\ UNCHANGED <<req, nextReq, answers>>
    <2>1. \A g \in DOMAIN groups' : groups'[g].req < nextReq'
      BY <1>5, StoredStep DEF NumbersOK
    <2>2. \A a \in answers' : a.id < nextReq'
      BY <1>5 DEF NumbersOK
    <2>3. ASSUME NEW o \in Threads, Busy(o)'
          PROVE  /\ req'[o].id < nextReq'
                 /\ \A a \in answers' : a.id # req'[o].id
                 /\ \A k \in Threads : k # o /\ Busy(k)' => req'[k].id # req'[o].id
      BY <1>0, <1>5, <2>3 DEF NumbersOK
    <2> QED BY <2>1, <2>2, <2>3 DEF NumbersOK
  <1> QED BY <1>3, <1>4, <1>5, NumberStep

(* A thread's creation stays the only one of its number.                   *)
LEMMA SoleStep ==
  ASSUME IInv, SoleInv, NEW t \in Threads, Accept(t) \/ Work(t), NEW o \in Threads
  PROVE  SoleOK(o)'
  <1>0. /\ TypeOK /\ WorkOK(t) /\ SoleOK(o) /\ NumbersOK
        /\ nextReq \in Nat /\ \A g \in DOMAIN groups : groups[g].req \in Nat
    BY TableTypes DEF IInv, SoleInv, TypeOK, GroupRows
  <1>1. CASE o # t
    <2>1. pc'[o] = pc[o] /\ req'[o] = req[o] /\ loc'[o] = loc[o] /\ reply'[o] = reply[o]
      BY <1>0, <1>1, Frame
    <2>2. CreateInsert(t) => Busy(t)
      BY DEF CreateInsert, Busy
    <2>3. ASSUME Busy(o), NEW g \in DOMAIN groups', groups'[g].req = req[o].id
          PROVE  g \in DOMAIN groups /\ groups[g].req = req[o].id
      BY <1>0, <1>1, <2>2, <2>3, StoredStep DEF NumbersOK
    <2> QED BY <1>0, <2>1, <2>3 DEF SoleOK, Busy
  <1>2. CASE o = t /\ Accept(t)
    <2>1. \A g \in DOMAIN groups' : groups'[g].req # req'[t].id
      BY <1>0, <1>2, AcceptShape DEF NumbersOK
    <2> QED BY <1>2, <2>1 DEF SoleOK
  <1>3. CASE o = t /\ CreateInsert(t)
    <2>1. ASSUME UsersIn(req[t].users) # {}, req[t].kind = "Create",
                 NEW g \in DOMAIN groups', groups'[g].req = req[t].id
          PROVE  g = Len(groups) + 1 /\ groups' # groups
      <3>1. pc[t] = "create_insert" /\ Busy(t)
        BY <1>3 DEF CreateInsert, Busy
      <3>2. ~ (g \in DOMAIN groups /\ groups[g].req = req[t].id)
        BY <1>0, <1>3, <2>1, <3>1 DEF SoleOK, JoinLabels
      <3> QED BY <2>1, <3>2, StoredStep
    <2>2. /\ UNCHANGED req
          /\ \/ pc'[t] = "join_select" /\ loc'[t].group = Len(groups) + 1
             \/ groups' = groups \/ req[t].users = <<>>
      BY <1>0, <1>3, CreateStep
    <2>3. req[t].users = <<>> => UsersIn(req[t].users) = {}
      BY DEF UsersIn
    <2> QED BY <1>3, <2>1, <2>2, <2>3 DEF SoleOK, JoinLabels
  <1>4. CASE o = t /\ (JoinSelect(t) \/ JoinInsert(t) \/ JoinUpdate(t))
    <2>1. /\ UNCHANGED <<groups, req>>
          /\ pc[t] \in JoinLabels /\ pc'[t] \in JoinLabels
          /\ loc'[t].group = loc[t].group
      <3>1. CASE JoinSelect(t)
        BY <1>0, <3>1, JoinSelectStep DEF JoinLabels
      <3>2. CASE JoinInsert(t) \/ JoinUpdate(t)
        <4>1. pc[t] \in {"join_insert", "join_update"}
          BY <3>2 DEF JoinInsert, JoinUpdate
        <4> QED BY <1>0, <3>2, <4>1, WriteStep DEF JoinLabels
      <3> QED BY <1>4, <3>1, <3>2
    <2>2. pc[t] # "idle" /\ pc'[t] # "reply"
      BY <2>1 DEF JoinLabels
    <2> QED BY <1>0, <1>4, <2>1, <2>2 DEF SoleOK, Busy
  <1>5. CASE o = t /\ JoinCount(t)
    <2>1. pc[t] = "join_count" /\ pc[t] \in JoinLabels /\ Busy(t)
      BY <1>5 DEF JoinCount, JoinLabels, Busy
    <2>2. /\ UNCHANGED <<req, loc>> /\ pc'[t] = "reply" /\ pc'[t] \notin JoinLabels
          /\ reply'[t].result = 0
          /\ req[t].kind = "Create" => reply'[t].group = loc[t].group
      BY <1>0, <1>5, <2>1, CountStep DEF JoinLabels
    <2>3. \A g \in DOMAIN groups' : g \in DOMAIN groups /\ groups'[g].req = groups[g].req
      <3>1. ~ CreateInsert(t)
        BY <2>1 DEF CreateInsert
      <3> QED BY <3>1, StoredStep
    <2> QED BY <1>0, <1>5, <2>1, <2>2, <2>3 DEF SoleOK
  <1>6. CASE o = t /\ SendSessionData(t)
    BY <1>0, <1>6, SendStep DEF SoleOK, Busy
  <1>7. CASE /\ o = t
             /\ \/ GetGroupInfo(t) \/ QuitSelect(t) \/ QuitUpdate(t) \/ QuitCount(t)
                \/ ListGroups(t) \/ GetGroupMembers(t)
    <2>1. UNCHANGED req
      BY <1>7 DEF GetGroupInfo, QuitSelect, QuitUpdate, QuitCount, ListGroups, GetGroupMembers
    <2>2. pc[t] \in {"get_group", "list_groups", "list_members"} \cup QuitLabels
      BY <1>7 DEF GetGroupInfo, QuitSelect, QuitUpdate, QuitCount, ListGroups, GetGroupMembers,
                  QuitLabels
    <2>3. req[t].kind # "Create"
      BY <1>0, <2>2 DEF WorkOK, UserListings
    <2> QED BY <1>7, <2>1, <2>3 DEF SoleOK
  <1> QED BY <1>1, <1>2, <1>3, <1>4, <1>5, <1>6, <1>7 DEF Work

(* What was answered to a creation stays true of the groups stored for it. *)
LEMMA SoleSentStep ==
  ASSUME IInv, SoleInv, NEW t \in Threads, Accept(t) \/ Work(t)
  PROVE  SoleSent'
  <1>0. TypeOK /\ NumbersOK /\ SoleSent /\ SoleOK(t)
    BY DEF IInv, SoleInv
  <1>1. CreateInsert(t) => Busy(t)
    BY DEF CreateInsert, Busy
  <1>2. ASSUME NEW a \in answers, NEW g \in DOMAIN groups', groups'[g].req = a.id
        PROVE  g \in DOMAIN groups /\ groups[g].req = a.id
    BY <1>0, <1>1, <1>2, StoredStep DEF NumbersOK
  <1>3. CASE answers' = answers
    BY <1>0, <1>2, <1>3 DEF SoleSent
  <1>4. CASE SendSessionData(t)
    <2> DEFINE n == [id |-> req[t].id, users |-> UsersIn(req[t].users),
                     result |-> reply[t].result, group |-> reply[t].group]
    <2>1. /\ pc[t] = "reply" /\ UNCHANGED groups
          /\ answers' = answers \/ (req[t].kind = "Create" /\ answers' = answers \cup {n})
      BY <1>0, <1>4, SendStep
    <2>2. /\ n.id = req[t].id /\ n.users = UsersIn(req[t].users)
          /\ n.result = reply[t].result /\ n.group = reply[t].group
      OBVIOUS
    <2> HIDE DEF n
    <2>3. req[t].kind = "Create" /\ n.users # {} =>
            \A g \in DOMAIN groups : groups[g].req = n.id => n.result = 0 /\ n.group = g
      BY <1>0, <2>1, <2>2 DEF SoleOK, Busy
    <2> QED BY <1>0, <2>1, <2>3 DEF SoleSent
  <1>5. CASE Accept(t)
    BY <1>0, <1>3, <1>5, AcceptShape
  <1> QED BY <1>3, <1>4, <1>5, NumberStep

-----------------------------------------------------------------------------
(* The theorems.                                                           *)

(* Whatever the tables held at the first start, the invariant holds then.  *)
LEMMA InitIInv == Init => IInv
  <1> SUFFICES ASSUME Init PROVE IInv
    OBVIOUS
  <1>1. /\ groups \in Seq(GroupRows) /\ relations \in Seq(RelationRows)
        /\ RelationsOK
    BY GroupStoredAssumption DEF Init, RelationsOK
  <1>2. /\ pc = [t \in Threads |-> "idle"] /\ req = [t \in Threads |-> NoRequest]
        /\ loc = [t \in Threads |-> NoLocals] /\ reply = [t \in Threads |-> NoReply]
        /\ nextReq = 1 /\ answers = {} /\ lists = {} /\ quits = 0 /\ faults = 0 /\ failed = {}
        /\ boot = 0
    BY DEF Init
  <1>3. "idle" \in Labels /\ NoLocals.before = {}
    BY DEF Labels, NoLocals
  <1>4. TypeOK
    BY <1>1, <1>2, <1>3, InitialValues DEF TypeOK
  <1>5. SentOK
    BY <1>2 DEF SentOK
  <1>6. ASSUME NEW t \in Threads PROVE WorkOK(t) /\ CreateOK(t) /\ ListOK(t)
    <2>1. pc[t] = "idle" /\ loc[t].before = {}
      BY <1>2, <1>3
    <2> QED BY <2>1 DEF WorkOK, CreateOK, ListOK, JoinLabels, QuitLabels
  <1> QED BY <1>1, <1>4, <1>5, <1>6 DEF IInv

(* The invariant holds in every state: of all handlers and their           *)
(* statements, however they interleave, fail and die.                      *)
THEOREM Inductive == Spec => []IInv
  <1>1. ASSUME IInv, [Next]_vars PROVE IInv'
    <2>1. TypeOK'
      BY <1>1, GrownStep DEF Grown
    <2>2. RelationsOK' /\ SentOK'
      BY <1>1, RelationsOKStep, SentStep
    <2>3. \A t \in Threads : WorkOK(t)' /\ CreateOK(t)' /\ ListOK(t)'
      BY <1>1, WorkOKStep, CreateOKStep, ListOKStep
    <2> QED BY <2>1, <2>2, <2>3 DEF IInv
  <1> QED BY <1>1, InitIInv, PTL DEF Spec

(* Creations keep their groups apart in every state.                       *)
THEOREM SoleInductive == Spec => []SoleInv
  <1>1. ASSUME Init PROVE SoleInv
    <2>1. /\ pc = [t \in Threads |-> "idle"] /\ nextReq = 1 /\ answers = {}
          /\ \A g \in DOMAIN groups : groups[g].req = 0
      BY <1>1, GroupStoredAssumption DEF Init
    <2> QED BY <2>1 DEF SoleInv, NumbersOK, SoleSent, SoleOK, Busy
  <1>2. ASSUME IInv, SoleInv, [Next]_vars PROVE SoleInv'
    <2>1. ASSUME NEW t \in Threads, Accept(t) \/ Work(t) PROVE SoleInv'
      BY <1>2, <2>1, NumbersStep, SoleStep, SoleSentStep DEF SoleInv
    <2>2. CASE Restart
      <3>1. UNCHANGED <<groups, nextReq, answers>> /\ \A t \in Threads : ~ Busy(t)'
        BY <2>2 DEF Restart, Busy
      <3> QED BY <1>2, <3>1 DEF SoleInv, NumbersOK, SoleSent, SoleOK
    <2>3. CASE UNCHANGED vars
      BY <1>2, <2>3 DEF vars, SoleInv, NumbersOK, SoleSent, SoleOK, Busy
    <2> QED BY <1>2, <2>1, <2>2, <2>3 DEF Next
  <1> QED BY <1>1, <1>2, Inductive, PTL DEF Spec

(* The tables and the threads' variables always hold values of their       *)
(* types: no handler stores or answers with a value of another column.     *)
THEOREM TypeCorrect == Spec => []TypeOK
  <1>1. IInv => TypeOK
    BY DEF IInv
  <1> QED BY <1>1, Inductive, PTL

(* JoinGroup never leaves a relation without its group, whatever fails or  *)
(* dies between the statements of CreateGroup and JoinGroup.               *)
THEOREM GroupsExist == Spec => []RelationsHaveGroup
  <1>1. IInv => RelationsHaveGroup
    BY DEF IInv, RelationsOK, RelationsHaveGroup
  <1> QED BY <1>1, Inductive, PTL

(* An answer 0 of GroupCreateTmpGroupRequestHandler names the group that   *)
(* was stored for the request; unless a statement of the request failed,   *)
(* all users it lists have a relation to it.  No other group is stored for *)
(* a creation with users, and none if it is answered with 1.               *)
THEOREM CreationsTrue == Spec => []CreateAnswersTellTruth
  <1>1. ASSUME IInv, SoleInv PROVE CreateAnswersTellTruth
    <2>1. ASSUME NEW a \in answers
          PROVE  /\ a.result = 0 => /\ a.group \in DOMAIN groups /\ groups[a.group].req = a.id
                                    /\ a.id \notin failed => \A u \in a.users : Related(a.group, u)
                 /\ a.users # {} =>
                      \A g \in DOMAIN groups : groups[g].req = a.id => a.result = 0 /\ a.group = g
      BY <1>1 DEF IInv, SentOK, Created, AllJoined, SoleInv, SoleSent
    <2>2. \A g, u : RowsOf(g, {u}) # {} <=> Related(g, u)
      BY RelatedRows
    <2> HIDE DEF Related
    <2> QED BY <2>1, <2>2 DEF CreateAnswersTellTruth
  <1> QED BY <1>1, Inductive, SoleInductive, PTL

(* A list shows groups of the user and their members, and all of them when *)
(* nothing was removed, no statement of the list failed and no limit was   *)
(* reached, although its two statements see different tables.              *)
THEOREM ListsTrue == Spec => []ListsTellTruth
  <1>1. ASSUME IInv PROVE ListsTellTruth
    <2>0. TypeOK /\ SentOK
      BY <1>1 DEF IInv
    <2>1. ASSUME NEW a \in lists, a.kind \in UserListings
          PROVE  Over(a.user, a.kind) =>
                   Memberships(a.user, a.kind) \notin SelectGroups(a.user, a.kind)
      <3> DEFINE all == Memberships(a.user, a.kind)
      <3>1. all \in SUBSET DOMAIN relations
        BY DEF Memberships
      <3>2. /\ SelectGroups(a.user, a.kind) = Limited(all, LimitOf(a.kind))
            /\ LimitOf(a.kind) \in Nat
        BY <2>1, SelectLimited
      <3> HIDE DEF all
      <3>3. all \notin Limited(all, LimitOf(a.kind)) <=> Cardinality(all) > LimitOf(a.kind)
        BY <2>0, <3>1, <3>2, LimitedRows
      <3> QED BY <3>2, <3>3 DEF Over, all
    <2>2. ASSUME NEW a \in lists, NEW p \in a.before, p[2] = a.user,
                 a.kind = "Fixed" => groups[p[1]].groupType = 1,
                 Wanted(a.user, a.kind, a.before) \subseteq {l.group : l \in a.list}
          PROVE  \E l \in a.list : l.group = p[1]
      <3>1. p[1] \in Wanted(a.user, a.kind, a.before)
        BY <2>2 DEF Wanted
      <3> QED BY <2>2, <3>1
    <2>3. \A a \in lists : ListTrue(a.id, a.kind, a.user, a.before, a.list)
      BY <2>0 DEF SentOK
    <2>4. ASSUME NEW a \in lists
          PROVE  /\ \A l \in a.list : l.group \in DOMAIN groups
                                      /\ \A u \in l.members : RowsOf(l.group, {u}) # {}
                 /\ a.kind \in UserListings => \A l \in a.list : RowsOf(l.group, {a.user}) # {}
      BY <2>3, RelatedRows DEF ListTrue
    <2>5. ASSUME NEW a \in lists, quits = 0, a.id \notin failed, a.kind \in UserListings
          PROVE  \/ Memberships(a.user, a.kind) \notin SelectGroups(a.user, a.kind)
                 \/ \A p \in a.before :
                      p[2] = a.user /\ (a.kind = "Fixed" => groups[p[1]].groupType = 1)
                        => \E l \in a.list : l.group = p[1]
      <3>1. \/ Over(a.user, a.kind)
            \/ Wanted(a.user, a.kind, a.before) \subseteq {l.group : l \in a.list}
        BY <2>3, <2>5 DEF ListTrue
      <3> QED BY <2>1, <2>2, <2>5, <3>1
    <2>6. ASSUME NEW a \in lists, quits = 0, a.id \notin failed, a.kind # "All",
                 ~ Cardinality(RelationsOf({l.group : l \in a.list})) > MEMBER_LIMIT
          PROVE  \A l \in a.list :
                   /\ {p[2] : p \in {q \in a.before : q[1] = l.group}} \subseteq l.members
                   /\ a.kind \in UserListings => a.user \in l.members
      BY <2>3, <2>6 DEF ListTrue, Crowded
    <2> QED BY <2>4, <2>5, <2>6 DEF ListsTellTruth
  <1> QED BY <1>1, Inductive, PTL

(* QuitGroup: only the UPDATE of a request of the group's creator takes a  *)
(* member out, one the request lists; the check against the creator was    *)
(* made statements before, and other handlers have worked since.           *)
THEOREM RemovalsByCreator == Spec => QuitOnlyByCreator
  <1> DEFINE Removed == \A i \in DOMAIN relations :
               relations[i].status = 1 /\ relations'[i].status = 0 =>
                 \E t \in Threads :
                   /\ pc[t] = "quit_update"
                   /\ req[t].user = groups[relations[i].groupId].createUserId
                   /\ relations[i].userId \in UsersIn(req[t].users)
  <1>1. ASSUME IInv, [Next]_vars PROVE Removed
    <2>1. ASSUME NEW t \in Threads, Accept(t) \/ Work(t) PROVE Removed
      <3>1. TypeOK /\ WorkOK(t)
        BY <1>1 DEF IInv
      <3>2. SUFFICES ASSUME NEW i \in DOMAIN relations,
                            relations[i].status = 1, relations'[i].status = 0
                     PROVE  /\ pc[t] = "quit_update"
                            /\ req[t].user = groups[relations[i].groupId].createUserId
                            /\ relations[i].userId \in UsersIn(req[t].users)
        OBVIOUS
      <3>3. pc[t] = "quit_update" /\ i \in RowsOf(loc[t].group, loc[t].found)
        BY <2>1, <3>1, <3>2, RelationsStep
      <3>4. relations[i].groupId = loc[t].group /\ relations[i].userId \in loc[t].found
        BY <3>3 DEF RowsOf
      <3> QED BY <3>1, <3>3, <3>4 DEF WorkOK, QuitLabels
    <2>2. CASE relations' = relations
      BY <2>2
    <2> QED BY <1>1, <2>1, <2>2 DEF Next, Restart, vars
  <1>2. IInv /\ IInv' /\ [Next]_vars => [Removed]_vars
    BY <1>1
  <1> HIDE DEF Removed
  <1>3. Spec => [][Removed]_vars
    BY <1>2, Inductive, PTL DEF Spec
  <1> QED BY <1>3 DEF QuitOnlyByCreator, Removed

(* No request loses what another one stored: the two tables only grow, a   *)
(* group keeps its creator, type and request, a relation its group and     *)
(* user, and while nothing is removed a member stays a member.             *)
THEOREM RowsNeverLost == Spec => [][RowsKept]_vars
  <1>1. IInv /\ [Next]_vars => [RowsKept]_vars
    BY KeptStep
  <1> QED BY <1>1, Inductive, PTL DEF Spec
=============================================================================
