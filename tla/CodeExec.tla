----------------------------- MODULE CodeExec -----------------------------
(***************************************************************************)
(* The code interpreter (backend/app/code_exec.py): a run takes a slot and  *)
(* a work directory, starts a process (or the docker client of a            *)
(* container), waits for it or for the time limit, reads its output and     *)
(* gives everything back.  The program may never end, may leave children    *)
(* in the background, and its request may be cancelled at every await.      *)
(***************************************************************************)
EXTENDS Naturals, FiniteSets

CONSTANTS
    Runs,           \* calls of execute()
    Slots,          \* code_max_concurrency
    Backends,       \* a subset of {"subprocess", "docker"}
    MaxCancels,     \* bound on the cancellations of one run
    MaxFailures     \* bound on docker commands that fail or time out

VARIABLES
    backend,
    pc,             \* where run r is
    main,           \* main[r]: the process, or the docker client
    children,       \* children[r]: background children of its process group
    container,      \* container[r]: the container runs
    dir,            \* dir[r]: its work directory exists
    cancels,        \* cancels[r]: cancellations delivered to it
    failures

vars == <<backend, pc, main, children, container, dir, cancels, failures>>

Docker == backend = "docker"
Alive(r) == main[r] \in {"alive", "killed"}
Goto(r, l) == pc' = [pc EXCEPT ![r] = l]
Inside == {r \in Runs : pc[r] \notin {"waiting", "ended"}}

\* async with _get_semaphore(): a slot, a directory, a process.
Start(r) ==
    /\ pc[r] = "waiting" /\ Cardinality(Inside) < Slots
    /\ dir' = [dir EXCEPT ![r] = TRUE]
    /\ main' = [main EXCEPT ![r] = "alive"]
    /\ container' = [container EXCEPT ![r] = Docker]
    /\ children' \in {[children EXCEPT ![r] = b] : b \in {FALSE, ~Docker}}
    /\ Goto(r, "running")
    /\ UNCHANGED <<backend, cancels, failures>>

\* The program ends by itself, or after a signal; its children may stay.  A docker
\* client that was not killed ends with its container.
Exit(r) ==
    /\ Alive(r)
    /\ main' = [main EXCEPT ![r] = IF @ = "alive" THEN "exited" ELSE "dead"]
    /\ container' = [container EXCEPT ![r] = @ /\ main[r] = "killed"]
    /\ UNCHANGED <<backend, pc, children, dir, cancels, failures>>

\* proc.wait() returns.
Waited(r) ==
    /\ pc[r] \in {"running", "killed"} /\ ~Alive(r)
    /\ Goto(r, "reading")
    /\ UNCHANGED <<backend, main, children, container, dir, cancels, failures>>

\* _kill_process_group, _kill_proc: SIGKILL, without waiting.
Killed(r) ==
    /\ main' = [main EXCEPT ![r] = IF @ = "alive" THEN "killed" ELSE @]
    /\ children' = [children EXCEPT ![r] = FALSE]

\* The time limit: the process group is killed, or the container is.
TimesOut(r) ==
    /\ pc[r] = "running" /\ Alive(r)
    /\ IF Docker THEN Goto(r, "killing") /\ UNCHANGED <<main, children>>
                 ELSE Goto(r, "killed") /\ Killed(r)
    /\ UNCHANGED <<backend, container, dir, cancels, failures>>

\* _docker_cleanup: docker kill, docker rm -f; failures are ignored.
DockerCleanup(r) ==
    \/ container' = [container EXCEPT ![r] = FALSE] /\ UNCHANGED failures
    \/ /\ failures < MaxFailures
       /\ failures' = failures + 1
       /\ UNCHANGED container

KillContainer(r) ==
    /\ pc[r] = "killing"
    /\ DockerCleanup(r)
    /\ Goto(r, "killed")
    /\ UNCHANGED <<backend, main, children, dir, cancels>>

\* Five seconds more for a killed process that does not end.
GiveUp(r) ==
    /\ pc[r] = "killed" /\ Alive(r)
    /\ Goto(r, "reading")
    /\ UNCHANGED <<backend, main, children, container, dir, cancels, failures>>

\* Mutant: the readers wait for the end of the pipes, which a child may hold open.
ReadToTheEnd(r) ==
    /\ pc[r] = "reading" /\ ~children[r]
    /\ Goto(r, "closing")
    /\ UNCHANGED <<backend, main, children, container, dir, cancels, failures>>

\* The readers come to the end of the pipes, or five seconds pass for each.
Read(r) ==
    /\ pc[r] = "reading"
    /\ Goto(r, "closing")
    /\ UNCHANGED <<backend, main, children, container, dir, cancels, failures>>

\* Mutant: the process is killed at the time limit only.
CloseWithoutKill(r) ==
    /\ pc[r] = "closing"
    /\ Goto(r, IF Docker THEN "cleaning" ELSE "removing")
    /\ UNCHANGED <<backend, main, children, container, dir, cancels, failures>>

\* The finally of _run: a process whose return code is not there yet is killed.
Close(r) ==
    /\ pc[r] = "closing"
    /\ IF Alive(r) THEN Killed(r) ELSE UNCHANGED <<main, children>>
    /\ Goto(r, IF Docker THEN "cleaning" ELSE "removing")
    /\ UNCHANGED <<backend, container, dir, cancels, failures>>

\* The finally of _run_docker, awaited behind a shield or directly.
Cleanup(r) ==
    /\ pc[r] \in {"cleaning", "insisting"}
    /\ DockerCleanup(r)
    /\ Goto(r, "removing")
    /\ UNCHANGED <<backend, main, children, dir, cancels>>

\* The finally of execute(): rmtree, and the slot is free.
Remove(r) ==
    /\ pc[r] = "removing"
    /\ dir' = [dir EXCEPT ![r] = FALSE]
    /\ Goto(r, "ended")
    /\ UNCHANGED <<backend, main, children, container, cancels, failures>>

\* Mutant: the shielded cleanup is not awaited again.
CancelDetaches(r) ==
    /\ cancels[r] < MaxCancels
    /\ pc[r] \notin {"closing", "removing", "ended"}
    /\ cancels' = [cancels EXCEPT ![r] = @ + 1]
    /\ Goto(r, CASE pc[r] = "waiting" -> "ended"
                 [] pc[r] \in {"running", "killing", "killed", "reading"} -> "closing"
                 [] OTHER -> "removing")
    /\ UNCHANGED <<backend, main, children, container, dir, failures>>

\* CancelledError at an await: while it waits for the slot nothing is held yet; at
\* the shield the cleanup goes on and is awaited; there it is cancelled itself.
Cancel(r) ==
    /\ cancels[r] < MaxCancels
    /\ pc[r] \notin {"closing", "removing", "ended"}
    /\ cancels' = [cancels EXCEPT ![r] = @ + 1]
    /\ Goto(r, CASE pc[r] = "waiting" -> "ended"
                 [] pc[r] = "cleaning" -> "insisting"
                 [] pc[r] = "insisting" -> "removing"
                 [] OTHER -> "closing")
    /\ UNCHANGED <<backend, main, children, container, dir, failures>>

Step(r) ==
    \/ Start(r) \/ Waited(r) \/ TimesOut(r) \/ KillContainer(r) \/ GiveUp(r) \/ Read(r)
    \/ Close(r) \/ Cleanup(r) \/ Remove(r)

Next == \E r \in Runs : Step(r) \/ Exit(r) \/ Cancel(r)

Init ==
    /\ backend \in Backends
    /\ pc = [r \in Runs |-> "waiting"]
    /\ main = [r \in Runs |-> "none"]
    /\ children = [r \in Runs |-> FALSE]
    /\ container = [r \in Runs |-> FALSE]
    /\ dir = [r \in Runs |-> FALSE]
    /\ cancels = [r \in Runs |-> 0]
    /\ failures = 0

Spec == Init /\ [][Next]_vars

\* Every await of a run comes back: the process ends or a timer fires.
Fairness == \A r \in Runs : WF_vars(Step(r))

-----------------------------------------------------------------------------
(* Properties. *)

TypeOK ==
    /\ backend \in Backends
    /\ pc \in [Runs -> {"waiting", "running", "killing", "killed", "reading", "closing",
                        "cleaning", "insisting", "removing", "ended"}]
    /\ main \in [Runs -> {"none", "alive", "killed", "exited", "dead"}]
    /\ {children, container, dir} \subseteq [Runs -> BOOLEAN]
    /\ cancels \in [Runs -> 0..MaxCancels]
    /\ failures \in 0..MaxFailures

\* A run that has ended left no directory and no process that was not signalled; only
\* a program that ended by itself may have left children; and no container is left if
\* docker obeys, unless the run was cancelled a third time while it waited for that.
NothingLeftBehind ==
    \A r \in Runs :
        pc[r] = "ended" =>
            /\ ~dir[r] /\ main[r] # "alive"
            /\ children[r] => main[r] = "exited"
            /\ failures = 0 /\ cancels[r] <= 2 => ~container[r]

\* Every run ends, whatever its program does, and so every waiting run gets a slot.
RunsEnd == <>(\A r \in Runs : pc[r] = "ended")
=============================================================================
