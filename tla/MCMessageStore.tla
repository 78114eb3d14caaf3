--------------------------- MODULE MCMessageStore ---------------------------
(* Instances of MessageStore for TLC: which requests the clients send.     *)
EXTENDS MessageStore, TLC

ThreadSymmetry == Permutations(Threads)

Request(kind, from, to, type, client_type) ==
  [kind |-> kind, from |-> from, to |-> to, type |-> type, client_type |-> client_type]

(* Text messages in both directions; to oneself, from nobody, of all types.*)
Sends == {Request("MsgData", 1, 2, "im", 17), Request("MsgData", 2, 1, "im", 17)}

OddSends ==
  {Request("MsgData", 1, 1, "im", 17), Request("MsgData", 0, 1, "im", 17),
   Request("MsgData", 1, 2, "audio", 17), Request("MsgData", 1, 2, "group", 17),
   Request("MsgData", 1, 2, "invalid", 17)}

(* The counters' readers, which race with the sender.                      *)
Readers ==
  {Request("MsgReadAck", 1, 2, "im", 17), Request("UnreadMsg", 1, 2, "im", 18),
   Request("UnreadMsgCount", 1, 0, "im", 0)}

(* Text messages while their sessions are removed and shown again and      *)
(* their unread entries read and erased.                                   *)
SendsRemovalsReads ==
  Sends \cup {Request("RemoveSession", 1, 2, "im", 17)}
    \cup {Request("MsgReadAck", 1, 2, "im", 17), Request("UnreadMsg", 1, 2, "im", 17),
          Request("UnreadMsgCount", 1, 0, "im", 17)}

(* Every kind of request, with valid and with rejected arguments.          *)
EveryKind ==
  Sends \cup OddSends \cup Readers \cup
  {Request("RemoveSession", 1, 2, "im", 17), Request("RemoveSession", 1, 2, "group", 17),
   Request("RemoveSession", 1, 2, "invalid", 17), Request("RemoveSession", 1, 3, "im", 17),
   Request("MsgReadAck", 0, 2, "im", 17), Request("UnreadMsg", 1, 0, "im", 17),
   Request("UnreadMsgCount", 0, 0, "im", 17), Request("FriendList", 0, 0, "im", 17),
   Request("FriendList", 1, 0, "im", 17)}
=============================================================================
