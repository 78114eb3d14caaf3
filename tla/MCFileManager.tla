---------------------------- MODULE MCFileManager ----------------------------
(* Instances of FileManager for TLC: which requests the clients send.      *)
EXTENDS FileManager, TLC

ThreadSymmetry == Permutations(Threads)

Add(from, to, task) ==
  [kind |-> "Add", from |-> from, to |-> to, task |-> task, named |-> TRUE]
Del(task) == [Add(1, 2, task) EXCEPT !.kind = "Del"]
Has(user) == [Add(0, user, NoTask) EXCEPT !.kind = "Has"]

(* Two task ids, one of which several files may have; refused requests.    *)
EveryKind ==
  {Add(1, 2, "a"), Add(1, 2, NoTask), Add(0, 2, "a"), [Add(1, 2, "a") EXCEPT !.named = FALSE],
   Del("a"), Del(NoTask), Has(2), Has(0)}

(* What earlier processes left: nothing, a file, two files of one task.     *)
Row(status, made) ==
  [userId |-> 1, toUserId |-> 2, taskId |-> "a", status |-> status,
   created |-> made % WORD, made |-> made, req |-> 0]
Left == {<<>>, <<Row(1, 40)>>, <<Row(0, 38), Row(1, 40)>>}

(* A file was just stored, and its receiver asks for his files, at once or *)
(* three milliseconds later.                                               *)
OneFile == {<<Row(1, 40)>>}
OnlyHas == {Has(2)}
=============================================================================
