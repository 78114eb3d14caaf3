---------------------------- MODULE Conversations ----------------------------
(***************************************************************************)
(* What users of one-to-one messages may rely on.  A text message is       *)
(* stored at most once and never lost again; its answer says whether it is *)
(* stored; a message that is confirmed has been counted for its pair.  Two *)
(* users become each other's contacts, both at once, only by a message     *)
(* between them.  Only the owner of a contact hides it, and it is shown    *)
(* again only by a message: of the owner, or one that makes the two        *)
(* contacts anew.  A restart loses the requests under way and the counts,  *)
(* and nothing that is stored.                                             *)
(***************************************************************************)
EXTENDS Integers, Sequences

CONSTANTS
  Users,     \* the users that may have contacts and messages
  Ids,       \* the numbers of the requests
  Requests   \* text messages and removals: records with id, kind, from, to

VARIABLES
  taken,     \* the numbers of the requests taken so far
  pending,   \* the messages and removals that are not answered yet
  log,       \* the stored messages in their order
  counted,   \* the ids of the messages counted since the last start
  totals,    \* how many messages of a pair were counted since then
  related,   \* <<a, b>> is in it if b is a contact of a
  hidden,    \* the contacts that their owners have removed
  answers    \* the answers to text messages

vars == <<taken, pending, log, counted, totals, related, hidden, answers>>

Init ==
  /\ taken = {} /\ pending = {}
  /\ log = <<>>
  /\ counted = {} /\ totals = [a \in Users |-> [b \in Users |-> 0]]
  /\ related = {} /\ hidden = {}
  /\ answers = {}

PendingMessages == {r \in pending : r.kind = "MsgData"}
PendingRemovals == {r \in pending : r.kind = "RemoveSession"}

Stored(r) == \E i \in DOMAIN log : log[i].id = r.id

-----------------------------------------------------------------------------
(* Numbers are never used twice; requests of other kinds have some, too.   *)
Take(n) ==
  /\ n \notin taken
  /\ taken' = taken \cup {n}
  /\ \/ pending' = pending
     \/ \E r \in Requests : r.id = n /\ pending' = pending \cup {r}
  /\ UNCHANGED <<log, counted, totals, related, hidden, answers>>

(* The two users of a message become contacts, and see each other.         *)
Relate(r) ==
  /\ related' = related \cup {<<r.from, r.to>>, <<r.to, r.from>>}
  /\ hidden' = hidden \ {<<r.from, r.to>>, <<r.to, r.from>>}
  /\ UNCHANGED <<taken, pending, log, counted, totals, answers>>

(* The sender of a message sees its receiver again.                        *)
Show(r) ==
  /\ hidden' = hidden \ {<<r.from, r.to>>}
  /\ UNCHANGED <<taken, pending, log, counted, totals, related, answers>>

(* A linked message has a relation of its two users.                       *)
Store(r, linked) ==
  /\ ~ Stored(r)
  /\ linked => <<r.from, r.to>> \in related
  /\ log' = Append(log, [id |-> r.id, from |-> r.from, to |-> r.to, linked |-> linked])
  /\ UNCHANGED <<taken, pending, counted, totals, related, hidden, answers>>

Count(r) ==
  /\ Stored(r) /\ r.id \notin counted
  /\ counted' = counted \cup {r.id}
  /\ totals' = [totals EXCEPT ![r.from][r.to] = @ + 1]
  /\ UNCHANGED <<taken, pending, log, related, hidden, answers>>

Answer(r, result) ==
  /\ pending' = pending \ {r}
  /\ answers' = answers \cup {[id |-> r.id, result |-> result]}
  /\ UNCHANGED <<taken, log, counted, totals, related, hidden>>

Confirm(r) == Stored(r) /\ r.id \in counted /\ Answer(r, 0)
Refuse(r)  == ~ Stored(r) /\ Answer(r, 1)

(* A user removes a contact of his.                                        *)
Hide(r) ==
  /\ <<r.from, r.to>> \in related
  /\ hidden' = hidden \cup {<<r.from, r.to>>}
  /\ UNCHANGED <<taken, pending, log, counted, totals, related, answers>>

Done(r) ==
  /\ pending' = pending \ {r}
  /\ UNCHANGED <<taken, log, counted, totals, related, hidden, answers>>

Restart ==
  /\ pending' = {} /\ counted' = {}
  /\ totals' = [a \in Users |-> [b \in Users |-> 0]]
  /\ UNCHANGED <<taken, log, related, hidden, answers>>

Next ==
  \/ \E n \in Ids : Take(n)
  \/ \E r \in PendingMessages :
       Relate(r) \/ Show(r) \/ Count(r) \/ Confirm(r) \/ Refuse(r)
         \/ \E linked \in BOOLEAN : Store(r, linked)
  \/ \E r \in PendingRemovals : Hide(r) \/ Done(r)
  \/ Restart

Spec == Init /\ [][Next]_vars
=============================================================================
