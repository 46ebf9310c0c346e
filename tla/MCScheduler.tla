---------------------------- MODULE MCScheduler ----------------------------
(***************************************************************************)
(* Small task graphs for the scheduler: b and c wait for a, or c for b and *)
(* b for a task in progress since an earlier execution; a new task x may   *)
(* be proposed, waiting for nothing, for a, or for the task that failed.   *)
(***************************************************************************)
EXTENDS Scheduler, TLC
CONSTANTS a, b, c, x

Ids4 == {a, b, c, x}

Board(db, dc, sa, sb) ==
  [status |-> (a :> sa @@ b :> sb @@ c :> "todo" @@ x :> "absent"),
   deps |-> (a :> {} @@ b :> db @@ c :> dc @@ x :> {})]

Boards == {Board({a}, {a}, "todo", "todo"), Board({}, {b}, "done", "in_progress")}

Proposals == {[id |-> x, depends_on |-> {}], [id |-> x, depends_on |-> {b}],
              [id |-> b, depends_on |-> {}]}
=============================================================================
