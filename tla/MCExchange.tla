----------------------------- MODULE MCExchange -----------------------------
(* Instances of Exchange for TLC: which units are sent.                    *)
EXTENDS Exchange

(* All classes whose two sides agree.  The other three are the request     *)
(* whose change type is not read, the request with another one's type and  *)
(* the response of ValidateOnly.                                           *)
Agreeing == PduClasses \ {"GroupChangeMemberRequest", "GroupHistoryMsgRequest",
                          "ValidateResponse"}
ValidateOnly == {"ValidateRequest", "ValidateResponse"}
=============================================================================
