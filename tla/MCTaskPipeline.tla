--------------------------- MODULE MCTaskPipeline ---------------------------
(***************************************************************************)
(* Instances of TaskPipeline for TLC: a chain of two tasks, where the       *)
(* dependent one has the smaller rank, or a single task; one planning task. *)
(***************************************************************************)
EXTENDS TaskPipeline, TLC

CONSTANTS t1, t2, p1

Chain == {t1, t2}
Single == {t1}
OnePlanning == {p1}

ChainDeps == t1 :> {} @@ t2 :> {t1} @@ p1 :> {}
SingleDeps == t1 :> {} @@ p1 :> {}

ChainRank == t1 :> 2 @@ t2 :> 1 @@ p1 :> 3
SingleRank == t1 :> 1 @@ p1 :> 2

Numbers == 1 .. 3
ManyNumbers == 1 .. 6
ChainNumber == t1 :> 1 @@ t2 :> 2 @@ p1 :> 3
SingleNumber == t1 :> 1 @@ p1 :> 2
=============================================================================
