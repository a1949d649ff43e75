--------------------------- MODULE SerialExecutor ---------------------------
(***************************************************************************)
(* What the reactor's handlers rely on: the tasks of one actor run one at  *)
(* a time and in the order in which they were submitted, until the         *)
(* executor is stopped; from then on no task starts.                       *)
(***************************************************************************)
EXTENDS Sequences

CONSTANTS Act, Task, NoTask

VARIABLES
  backlog,   (* of an actor: its tasks that have not started, oldest first *)
  active,    (* of an actor: the task that runs, if any                    *)
  stopped

vars == <<backlog, active, stopped>>

Init ==
  /\ backlog = [a \in Act |-> <<>>]
  /\ active = [a \in Act |-> NoTask]
  /\ stopped = FALSE

Add(a, t) ==
  /\ ~stopped
  /\ backlog' = [backlog EXCEPT ![a] = Append(@, t)]
  /\ UNCHANGED <<active, stopped>>

Start(a) ==
  /\ ~stopped
  /\ active[a] = NoTask
  /\ backlog[a] # <<>>
  /\ active' = [active EXCEPT ![a] = Head(backlog[a])]
  /\ backlog' = [backlog EXCEPT ![a] = Tail(@)]
  /\ UNCHANGED stopped

Finish(a) ==
  /\ active[a] # NoTask
  /\ active' = [active EXCEPT ![a] = NoTask]
  /\ UNCHANGED <<backlog, stopped>>

(* Tasks that have not started may be lost, the oldest of an actor first. *)
Stop ==
  /\ stopped' = TRUE
  /\ \E dropping \in SUBSET Act :
       backlog' = [a \in Act |->
                     IF a \in dropping /\ backlog[a] # <<>>
                       THEN Tail(backlog[a])
                       ELSE backlog[a]]
  /\ UNCHANGED active

Next ==
  \/ \E a \in Act : Start(a) \/ Finish(a) \/ (\E t \in Task : Add(a, t))
  \/ Stop

Spec == Init /\ [][Next]_vars

=============================================================================
