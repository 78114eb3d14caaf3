--------------------------- MODULE RequestService ---------------------------
(***************************************************************************)
(* What a client of zaresd may rely on: a request that has a handler is    *)
(* taken once, and later it is answered once on its session; a heartbeat   *)
(* is answered as it comes in.  Only a request that has no answer, or      *)
(* whose session is gone, may be dropped.  Nothing is promised about the   *)
(* order of answers.                                                       *)
(***************************************************************************)
EXTENDS Sequences

CONSTANTS
  Sessions,  \* the client connections
  Ids,       \* the numbers of the packets
  Requests,  \* the requests there may be: records with an id and a session
  NoAnswer   \* those of them that are dropped on every session

VARIABLES
  taken,     \* the requests taken so far
  pending,   \* those that are neither answered nor dropped
  answered,  \* ids of the packets answered on each session, in order
  gone       \* the sessions that were closed, by either side

vars == <<taken, pending, answered, gone>>

Init ==
  /\ taken = {}
  /\ pending = {}
  /\ answered = [s \in Sessions |-> <<>>]
  /\ gone = {}

(* Ids are never used twice.                                               *)
Take(r) ==
  /\ r.session \notin gone
  /\ \A q \in taken : q.id # r.id
  /\ taken' = taken \cup {r}
  /\ pending' = pending \cup {r}
  /\ UNCHANGED <<answered, gone>>

Answer(r) ==
  /\ r \in pending \ NoAnswer /\ r.session \notin gone
  /\ pending' = pending \ {r}
  /\ answered' = [answered EXCEPT ![r.session] = Append(@, r.id)]
  /\ UNCHANGED <<taken, gone>>

Echo(s, n) ==
  /\ s \notin gone
  /\ \A q \in taken : q.id # n
  /\ answered' = [answered EXCEPT ![s] = Append(@, n)]
  /\ UNCHANGED <<taken, pending, gone>>

Drop(r) ==
  /\ r \in pending
  /\ r \in NoAnswer \/ r.session \in gone
  /\ pending' = pending \ {r}
  /\ UNCHANGED <<taken, answered, gone>>

(* A client leaves, or the server leaves all of them.                      *)
Disconnect(ss) ==
  /\ gone' = gone \cup ss
  /\ UNCHANGED <<taken, pending, answered>>

Next ==
  \/ \E r \in Requests : Take(r)
  \/ \E s \in Sessions, n \in Ids : Echo(s, n)
  \/ \E r \in pending : Answer(r) \/ Drop(r)
  \/ \E ss \in SUBSET Sessions : Disconnect(ss)

Spec == Init /\ [][Next]_vars

(* No request stays pending for ever.                                      *)
AllTreated == \A r \in Requests : r \in pending ~> r \notin pending

Service == Spec /\ AllTreated
=============================================================================
