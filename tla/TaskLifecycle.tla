--------------------------- MODULE TaskLifecycle ---------------------------
(***************************************************************************)
(* What the scheduler promises of the tasks on the board, whatever it does *)
(* inside (scheduler.rs: "todo -> in_progress -> done | failed | blocked"):*)
(* a task is only started when the planned tasks it needs are done, only a *)
(* task that was started is ever done, and done is final.                  *)
(***************************************************************************)
CONSTANT Ids
VARIABLES
  status,   \* id -> its status on the board
  needs     \* id -> the planned tasks it must wait for

Open == {i \in Ids : status[i] \notin {"absent", "done", "cancelled"}}

Init ==
  /\ status \in [Ids -> {"absent", "todo", "in_progress", "done", "blocked", "cancelled",
                         "failed", "needs_resolution"}]
  /\ needs = [i \in Ids |-> {}]

\* A new plan, or none any more.
Plan == needs' \in [Ids -> SUBSET Ids] /\ UNCHANGED status

Start(i) ==
  /\ i \in Open /\ \A d \in needs[i] : status[d] = "done"
  /\ status' = [status EXCEPT ![i] = "in_progress"]
  /\ UNCHANGED needs

Finish(i) ==
  /\ status[i] = "in_progress"
  /\ \E s \in {"done", "failed", "needs_resolution", "todo"} :
       status' = [status EXCEPT ![i] = s]
  /\ UNCHANGED needs

\* A started task waits for tasks that are new on the board.
Replan(i, new) ==
  /\ status[i] = "in_progress"
  /\ status' = [j \in Ids |-> IF j = i THEN "blocked"
                              ELSE IF j \in new /\ status[j] = "absent" THEN "todo"
                              ELSE status[j]]
  /\ UNCHANGED needs

Block(tasks) ==
  /\ tasks \subseteq Open
  /\ status' = [i \in Ids |-> IF i \in tasks THEN "blocked" ELSE status[i]]
  /\ UNCHANGED needs

\* All the started tasks go back, and the plan is dropped.
GiveBack ==
  /\ status' = [i \in Ids |-> IF status[i] = "in_progress" THEN "todo" ELSE status[i]]
  /\ needs' \in [Ids -> SUBSET Ids]

Next ==
  \/ Plan \/ GiveBack
  \/ \E i \in Ids : Start(i) \/ Finish(i) \/ \E new \in SUBSET Ids : Replan(i, new)
  \/ \E tasks \in SUBSET Ids : Block(tasks)

Spec == Init /\ [][Next]_<<status, needs>>
=============================================================================
