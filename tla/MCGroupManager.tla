--------------------------- MODULE MCGroupManager ---------------------------
(* Instances of GroupManager for TLC: which requests the clients send.     *)
EXTENDS GroupManager, TLC

ThreadSymmetry == Permutations(Threads)

Lists == {<<>>, <<1>>, <<2>>, <<1, 2>>, <<2, 2>>}

Create(user, users) ==
  [kind |-> "Create", user |-> user, users |-> users, group |-> 0, named |-> TRUE]
Change(kind, user, users, group) ==
  [kind |-> kind, user |-> user, users |-> users, group |-> group, named |-> TRUE]

Ask(kind, user, group) == Change(kind, user, <<>>, group)

(* Members of groups come and go, lists repeat users, and every list is    *)
(* asked for; refused requests included.                                   *)
EveryKind ==
  {Create(1, <<1, 2>>), Create(1, <<>>), Create(0, <<1>>),
   [Create(1, <<1>>) EXCEPT !.named = FALSE],
   Change("Join", 1, <<2, 2>>, 1), Change("Quit", 1, <<1, 2>>, 1),
   Change("Join", 2, <<1>>, 3), Change("Join", 2, <<>>, 1), Change("Join", 2, <<2>>, 0),
   Change("Quit", 0, <<2>>, 1),
   Ask("Fixed", 1, 0), Ask("Recent", 1, 0), Ask("All", 1, 0), Ask("Fixed", 0, 0),
   Ask("Members", 2, 1), Ask("Members", 2, 2), Ask("Members", 2, 0),
   Ask("Unread", 1, 1), Ask("Ack", 1, 1)}

Group(type, cnt, status) ==
  [createUserId |-> 1, memberCnt |-> cnt, status |-> status, groupType |-> type, req |-> 0]
Relation(g, user, status, type) ==
  [groupId |-> g, userId |-> user, status |-> status, groupType |-> type]

Nothing == [groups |-> <<>>, relations |-> <<>>]

(* A fixed group one of whose members has left, and a dissolved group.     *)
Left ==
  {Nothing,
   [groups |-> <<Group(1, 1, 1), Group(2, 1, 0)>>,
    relations |-> <<Relation(1, 1, 1, 1), Relation(1, 2, 0, 1), Relation(2, 1, 1, 2)>>]}

Empty == {Nothing}

(* The creator of a group asks to add a user that is in it already.        *)
JoinOnly == {Create(1, <<1>>), Change("Join", 1, <<1>>, 1)}
=============================================================================
