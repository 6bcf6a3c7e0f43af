------------------------------- MODULE Agent -------------------------------
(***************************************************************************)
(* internal/agent: the agent in the rented container.  It starts the pod's   *)
(* command when asked to (/run), reports the container's state (/status) and *)
(* stops the command when asked to (/sigterm).  net/http runs every request  *)
(* in a goroutine of its own, and the fields pid, cmd and containerState are *)
(* shared without a lock: an action is a stretch of one goroutine between    *)
(* two accesses to them.                                                     *)
(*                                                                           *)
(* A request r is one delivery of /run.  The provider sends /run again when  *)
(* the connection breaks or the answer is an error 500, so a later delivery  *)
(* may find the agent in any state; with Overlapping it may arrive while an  *)
(* earlier delivery is still being handled.                                  *)
(*                                                                           *)
(* External: the operating system.  A process that ends is a zombie, which   *)
(* answers signal 0, until Wait reaps it.                                    *)
(***************************************************************************)
EXTENDS Naturals

CONSTANTS
    MaxRuns,       \* bound: deliveries of /run
    Overlapping,   \* TRUE when a delivery may overtake an earlier one
    StartFails     \* TRUE when exec.Cmd.Start may fail

ASSUME AgentAssumption ==
    MaxRuns \in Nat /\ Overlapping \in BOOLEAN /\ StartFails \in BOOLEAN

VARIABLES
    run,       \* the handleRun goroutines
    cmd,       \* a.cmd: which request created the command, 0 for none
    pid,       \* a.pid, named by the command whose process it is, 0 for none
    state,     \* a.containerState
    proc,      \* the process of each command
    waiter,    \* the goroutine that waits for the process, one per started request
    sigterm,   \* handleSigtermSignal: the process it stops, 0 when not running
    crashed    \* the agent died on a nil ProcessState

vars == <<run, cmd, pid, state, proc, waiter, sigterm, crashed>>

Runs == 1 .. MaxRuns
NotWaiting == [pc |-> "off", on |-> 0]
NoProcess == [p |-> "none", end |-> "none"]

\* How a process ends, and the exit code the agent reports for it.
exitCode == [zero |-> 0, error |-> 1, sigterm |-> 128 + 15, sigkill |-> 128 + 9]
Ends == DOMAIN exitCode
NoCode == 0
Is(s, code) == [is |-> s, code |-> code]

Init ==
    /\ run = [r \in Runs |-> "none"]
    /\ cmd = 0 /\ pid = 0 /\ state = Is("Waiting", NoCode)
    /\ proc = [r \in Runs |-> NoProcess]
    /\ waiter = [r \in Runs |-> NotWaiting]
    /\ sigterm = 0 /\ crashed = FALSE

-----------------------------------------------------------------------------
\* /run.

isProcessRunning == pid # 0 /\ proc[pid].p \in {"running", "zombie"}

Step(r, from, to) == ~crashed /\ run[r] = from /\ run' = [run EXCEPT ![r] = to]

Deliver(r) ==
    /\ Step(r, "none", "sent")
    /\ \A q \in Runs : q < r => run[q] # "none" /\ (Overlapping \/ run[q] \in {"ok", "refused", "error"})
    /\ UNCHANGED <<cmd, pid, state, proc, waiter, sigterm, crashed>>

\* A handler that does not ask whether the command runs.
handleRunUnchecked(r) ==
    /\ Step(r, "sent", "checked")
    /\ UNCHANGED <<cmd, pid, state, proc, waiter, sigterm, crashed>>

handleRun(r) ==
    /\ \/ isProcessRunning /\ Step(r, "sent", "refused")
       \/ ~isProcessRunning /\ Step(r, "sent", "checked")
    /\ UNCHANGED <<cmd, pid, state, proc, waiter, sigterm, crashed>>

\* startChildProcess, in three steps: create a.cmd, start whatever a.cmd is by now, and
\* record its pid and the state.
createCommand(r) ==
    /\ Step(r, "checked", "created")
    /\ cmd' = r
    /\ UNCHANGED <<pid, state, proc, waiter, sigterm, crashed>>

startCommand(r) ==
    /\ \/ /\ Step(r, "created", "started") /\ proc[cmd].p = "none"
          /\ proc' = [proc EXCEPT ![cmd].p = "running"]
       \/ /\ Step(r, "created", "error") /\ (proc[cmd].p # "none" \/ StartFails)
          /\ UNCHANGED proc
    /\ UNCHANGED <<cmd, pid, state, waiter, sigterm, crashed>>

\* A start nobody waits for.
recordStartOnly(r) ==
    /\ Step(r, "started", "ok")
    /\ pid' = cmd
    /\ state' = Is("Running", NoCode)
    /\ UNCHANGED <<cmd, proc, waiter, sigterm, crashed>>

recordStart(r) ==
    /\ Step(r, "started", "ok")
    /\ pid' = cmd
    /\ state' = Is("Running", NoCode)
    /\ waiter' = [waiter EXCEPT ![r].pc = "new"]
    /\ UNCHANGED <<cmd, proc, sigterm, crashed>>

-----------------------------------------------------------------------------
\* The goroutine that waits for the command and records how it ended.  It looks at
\* a.cmd when it starts to wait and again afterwards.

Waits(r, pc) == ~crashed /\ waiter[r].pc = pc

\* Wait on a command that was not started, or that another goroutine waits for, fails at
\* once.
waitBegins(r) ==
    /\ Waits(r, "new")
    /\ LET taken == proc[cmd].p = "none" \/ \E q \in Runs \ {r} : waiter[q].on = cmd
       IN  waiter' = [waiter EXCEPT ![r] = [pc |-> IF taken THEN "waited" ELSE "waiting", on |-> cmd]]
    /\ UNCHANGED <<run, cmd, pid, state, proc, sigterm, crashed>>

\* Wait first reaps the process, which makes its pid invalid, and returns when the
\* command's output has been copied too.
reapProcess(r) ==
    /\ Waits(r, "waiting") /\ proc[waiter[r].on].p = "zombie"
    /\ proc' = [proc EXCEPT ![waiter[r].on].p = "reaped"]
    /\ UNCHANGED <<run, cmd, pid, state, waiter, sigterm, crashed>>

waitReturns(r) ==
    /\ Waits(r, "waiting") /\ proc[waiter[r].on].p = "reaped"
    /\ waiter' = [waiter EXCEPT ![r].pc = "waited"]
    /\ UNCHANGED <<run, cmd, pid, state, proc, sigterm, crashed>>

\* The raw wait status, exit code in the high byte.
waitStatusRaw(r) == LET c == waiter[r].on IN IF proc[c].p = "reaped" THEN 256 * exitCode[proc[c].end] ELSE 1

\* Signals reported without the offset of 128.
waitedCodeBare(r) == LET c == waiter[r].on IN IF proc[c].p = "reaped" THEN exitCode[proc[c].end] % 128 ELSE 1

\* A Wait that failed without an exit status is an unknown failure.
waitedCode(r) == LET c == waiter[r].on IN IF proc[c].p = "reaped" THEN exitCode[proc[c].end] ELSE 1

\* a.cmd.ProcessState is nil until the command has been waited for.
recordExit(r) ==
    /\ Waits(r, "waited")
    /\ \/ /\ proc[cmd].p = "reaped"
          /\ state' = Is("Terminated", waitedCode(r))
          /\ waiter' = [waiter EXCEPT ![r].pc = "done"]
          /\ UNCHANGED crashed
       \/ /\ proc[cmd].p # "reaped"
          /\ crashed' = TRUE
          /\ UNCHANGED <<state, waiter>>
    /\ UNCHANGED <<run, cmd, pid, proc, sigterm>>

-----------------------------------------------------------------------------
\* /sigterm: signal the process now, and kill it when the grace period is over.

ProcessEnds(c, end) ==
    /\ proc[c].p = "running"
    /\ proc' = [proc EXCEPT ![c] = [p |-> "zombie", end |-> end]]

handleSigterm ==
    /\ ~crashed /\ sigterm = 0 /\ pid # 0 /\ proc[pid].p \in {"running", "zombie"}
    /\ sigterm' = pid
    /\ ProcessEnds(pid, "sigterm") \/ UNCHANGED proc
    /\ UNCHANGED <<run, cmd, pid, state, waiter, crashed>>

\* A grace period that ends in nothing.
graceWithoutKill ==
    /\ ~crashed /\ sigterm # 0
    /\ proc[sigterm].p = "reaped" /\ sigterm' = 0 /\ UNCHANGED proc
    /\ UNCHANGED <<run, cmd, pid, state, waiter, crashed>>

graceOver ==
    /\ ~crashed /\ sigterm # 0
    /\ \/ ProcessEnds(sigterm, "sigkill") /\ UNCHANGED sigterm
       \/ proc[sigterm].p = "reaped" /\ sigterm' = 0 /\ UNCHANGED proc
    /\ UNCHANGED <<run, cmd, pid, state, waiter, crashed>>

\* The command ends by itself.
CommandEnds(c) ==
    /\ \E end \in {"zero", "error"} : ProcessEnds(c, end)
    /\ UNCHANGED <<run, cmd, pid, state, waiter, sigterm, crashed>>

-----------------------------------------------------------------------------
RunStep(r) == handleRun(r) \/ createCommand(r) \/ startCommand(r) \/ recordStart(r)
WaitStep(r) == waitBegins(r) \/ reapProcess(r) \/ waitReturns(r) \/ recordExit(r)

Next ==
    \/ \E r \in Runs : Deliver(r) \/ RunStep(r) \/ WaitStep(r) \/ CommandEnds(r)
    \/ handleSigterm \/ graceOver

Spec == Init /\ [][Next]_vars

\* Goroutines run and the grace timer fires; nothing makes a command end by itself.
FairSpec ==
    /\ Spec
    /\ \A r \in Runs : WF_vars(RunStep(r)) /\ WF_vars(WaitStep(r))
    /\ WF_vars(graceOver)

-----------------------------------------------------------------------------
\* Properties.

\* Type correctness of the agent's state.
TypeOK ==
    /\ run \in [Runs -> {"none", "sent", "checked", "created", "started", "ok", "refused", "error"}]
    /\ cmd \in 0 .. MaxRuns /\ pid \in 0 .. MaxRuns /\ sigterm \in 0 .. MaxRuns
    /\ state \in [is : {"Waiting", "Running", "Terminated"}, code : 0 .. 255]
    /\ proc \in [Runs -> [p : {"none", "running", "zombie", "reaped"}, end : Ends \cup {"none"}]]
    /\ waiter \in [Runs -> [pc : {"off", "new", "waiting", "waited", "done"}, on : 0 .. MaxRuns]]
    /\ crashed \in BOOLEAN

\* The agent manages a single child process: two deliveries of /run never leave two
\* commands running.
SingleChild == \A r, q \in Runs : (proc[r].p = "running" /\ proc[q].p = "running") => r = q

\* /status reports a finished container, with the exit code of a process that did end
\* that way, only when no command runs; except between starting a command and recording it.
StatusTruthful ==
    (state.is = "Terminated" /\ \A r \in Runs : run[r] # "started") =>
        /\ \A r \in Runs : proc[r].p # "running"
        /\ \E r \in Runs : proc[r].p = "reaped" /\ state.code = exitCode[proc[r].end]

\* The agent never dies on a command that has not been waited for.
Survives == ~crashed

\* The end of a command is eventually reported, unless a later delivery of /run started
\* the command again or the agent died.
ExitReported ==
    \A r \in Runs : (proc[r].p = "zombie") ~> (state.is = "Terminated" \/ cmd # r \/ crashed)

\* /sigterm stops the process it was sent to, even one that ignores the signal.
SigtermStops ==
    \A r \in Runs : (sigterm = r) ~> (proc[r].p \in {"zombie", "reaped"} \/ crashed)
=============================================================================
