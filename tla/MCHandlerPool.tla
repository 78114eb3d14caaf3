---------------------------- MODULE MCHandlerPool ----------------------------
(* Instances of HandlerPool for TLC: which packets the clients send.       *)
EXTENDS HandlerPool, TLC

SessionSymmetry == Permutations(Sessions)

(* A packet of every treatment: echoed, not registered, registered under   *)
(* another type, handled without a connection, with one and with up to     *)
(* five, one after the other.                                              *)
EveryTreatment == {"HEARTBEAT", "HISTORY_MSG", "GROUP_HISTORY_MSG", "MSG_READ_ACK",
                   "REMOVE_SESSION", "MSG_DATA"}
Handled        == {"MSG_READ_ACK", "GROUP_CHANGE_MEMBER"}
=============================================================================
