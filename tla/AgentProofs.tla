---------------------------- MODULE AgentProofs ----------------------------
(***************************************************************************)
(* The agent, for any number of deliveries of /run: its state is well typed, *)
(* and when one delivery is answered before the next arrives it never has    *)
(* two commands running and /status reports how they end.  The fields it      *)
(* decides on are unprotected, so the invariants have to say what every       *)
(* handler in the middle of startChildProcess, and every goroutine that waits *)
(* for a command, may rely on.                                                *)
(***************************************************************************)
EXTENDS Agent, TLAPS

-----------------------------------------------------------------------------
\* Type correctness, overlapping deliveries included.

\* A process that has ended did so in one of the known ways.
EndKnown == \A r \in Runs : proc[r].p \in {"zombie", "reaped"} => proc[r].end \in Ends

\* Whoever reads a.cmd reads it after somebody has set it.
CmdSet ==
    \A r \in Runs :
        /\ (run[r] \in {"created", "started"} \/ waiter[r].pc # "off") => cmd # 0
        /\ waiter[r].pc \in {"waiting", "waited", "done"} => waiter[r].on # 0

TypeIInv == TypeOK /\ EndKnown /\ CmdSet

\* The four ways a process ends, and their exit codes (startChildProcess).
LEMMA EndsAre ==
    /\ Ends = {"zero", "error", "sigterm", "sigkill"}
    /\ \A e \in Ends : exitCode[e] \in 0 .. 255
<1>1. Ends = {"zero", "error", "sigterm", "sigkill"}
  BY DEF Ends, exitCode
<1>2. \A e \in Ends : exitCode[e] \in 0 .. 255
  BY <1>1 DEF exitCode
<1> QED BY <1>1, <1>2

\* The agent starts with no command and no process (NewAgent).
LEMMA InitType == Init => TypeIInv
<1> SUFFICES ASSUME Init PROVE TypeIInv
  OBVIOUS
<1>1. TypeOK
  <2>1. crashed \in BOOLEAN
    BY DEF Init
  <2>2. state \in [is : {"Waiting", "Running", "Terminated"}, code : 0 .. 255]
    BY DEF Init, Is, NoCode
  <2>3. /\ proc \in [Runs -> [p : {"none", "running", "zombie", "reaped"}, end : Ends \cup {"none"}]]
        /\ waiter \in [Runs -> [pc : {"off", "new", "waiting", "waited", "done"}, on : 0 .. MaxRuns]]
    BY AgentAssumption DEF Init, NotWaiting, NoProcess
  <2> QED BY <2>1, <2>2, <2>3, AgentAssumption DEF Init, TypeOK
<1>2. EndKnown /\ CmdSet
  BY DEF Init, EndKnown, CmdSet, NotWaiting, NoProcess
<1> QED BY <1>1, <1>2 DEF TypeIInv

\* The step of a handleRun goroutine keeps the types: it starts only a command that
\* some goroutine has created.
LEMMA RunStepType ==
    ASSUME TypeIInv, NEW r \in Runs, Deliver(r) \/ RunStep(r)
    PROVE  TypeIInv'
<1> USE AgentAssumption DEF TypeIInv, TypeOK, EndKnown, CmdSet, Runs, Step
<1>1. CASE Deliver(r)
  BY <1>1 DEF Deliver
<1>2. CASE handleRun(r)
  BY <1>2 DEF handleRun
<1>3. CASE createCommand(r)
  BY <1>3 DEF createCommand
<1>4. CASE startCommand(r)
  <2>1. cmd \in Runs
    BY <1>4 DEF startCommand
  <2>2. CASE UNCHANGED proc
    BY <1>4, <2>2 DEF startCommand
  <2>3. CASE proc' = [proc EXCEPT ![cmd].p = "running"]
    BY <1>4, <2>1, <2>3, ZenonT(60) DEF startCommand
  <2> QED BY <1>4, <2>2, <2>3 DEF startCommand
<1>5. CASE recordStart(r)
  <2>1. state' \in [is : {"Waiting", "Running", "Terminated"}, code : 0 .. 255]
    BY <1>5 DEF recordStart, Is, NoCode
  <2>2. waiter' \in [Runs -> [pc : {"off", "new", "waiting", "waited", "done"}, on : 0 .. MaxRuns]]
    <3> DEFINE Waiters == [pc : {"off", "new", "waiting", "waited", "done"}, on : 0 .. MaxRuns]
    <3>1. waiter \in [Runs -> Waiters]
      OBVIOUS
    <3>2. PICK n \in Waiters : n = [waiter[r] EXCEPT !.pc = "new"]
      <4>1. [waiter[r] EXCEPT !.pc = "new"] \in Waiters
        BY ONLY <3>1, r \in Runs
      <4> QED BY ONLY <4>1
    <3>3. waiter' = [waiter EXCEPT ![r] = n]
      BY <1>5, <3>2 DEF recordStart
    <3> QED BY ONLY <3>1, <3>2, <3>3
  <2>3. TypeOK'
    BY <1>5, <2>1, <2>2 DEF recordStart
  <2>4. CmdSet'
    BY <1>5 DEF recordStart
  <2> QED BY <1>5, <2>3, <2>4 DEF recordStart
<1> QED BY <1>1, <1>2, <1>3, <1>4, <1>5 DEF RunStep

Processes == [p : {"none", "running", "zombie", "reaped"}, end : Ends \cup {"none"}]

\* Reaping changes where a process is, not how it ended.
LEMMA ReapedIsProcess ==
    ASSUME NEW pr \in Processes
    PROVE  [pr EXCEPT !.p = "reaped"] \in Processes
BY DEF Processes

\* The step of a waiting goroutine, of /sigterm or of the process itself keeps the
\* types: what Wait yields is an exit code.
LEMMA ProcessStepType ==
    ASSUME TypeIInv,
           (\E r \in Runs : WaitStep(r) \/ CommandEnds(r)) \/ handleSigterm \/ graceOver
    PROVE  TypeIInv'
<1> USE AgentAssumption, EndsAre DEF TypeIInv, TypeOK, EndKnown, CmdSet, Runs, Waits
<1>1. ASSUME NEW r \in Runs, waitBegins(r) PROVE TypeIInv'
  BY <1>1 DEF waitBegins
<1>2. ASSUME NEW r \in Runs, reapProcess(r) PROVE TypeIInv'
  <2>1. waiter[r].on \in Runs
    BY <1>2 DEF reapProcess
  <2>2. \A q \in Runs : proc'[q] = IF q = waiter[r].on THEN [proc[q] EXCEPT !.p = "reaped"] ELSE proc[q]
    BY <1>2, <2>1 DEF reapProcess
  <2>3. proc' \in [Runs -> [p : {"none", "running", "zombie", "reaped"}, end : Ends \cup {"none"}]]
    <3>1. proc \in [Runs -> Processes]
      BY DEF Processes
    <3>2. proc' = [proc EXCEPT ![waiter[r].on] = [proc[waiter[r].on] EXCEPT !.p = "reaped"]]
      BY <1>2 DEF reapProcess
    <3>3. [proc[waiter[r].on] EXCEPT !.p = "reaped"] \in Processes
      BY ONLY <2>1, <3>1, ReapedIsProcess
    <3>4. proc' \in [Runs -> Processes]
      BY <2>1, <3>1, <3>2, <3>3
    <3> QED BY <3>4 DEF Processes
  <2>4. EndKnown'
    <3> SUFFICES ASSUME NEW q \in Runs, proc'[q].p \in {"zombie", "reaped"} PROVE proc'[q].end \in Ends
      OBVIOUS
    <3>1. proc'[q].end = proc[q].end
      BY <2>2, ZenonT(60)
    <3>2. proc[q].p \in {"zombie", "reaped"}
      BY <1>2, <2>2 DEF reapProcess
    <3> QED BY <3>1, <3>2
  <2>5. TypeOK'
    BY <1>2, <2>3 DEF reapProcess
  <2>6. CmdSet'
    BY <1>2 DEF reapProcess
  <2> QED BY <2>4, <2>5, <2>6
<1>8. ASSUME NEW r \in Runs, waitReturns(r) PROVE TypeIInv'
  <2>1. waiter' \in [Runs -> [pc : {"off", "new", "waiting", "waited", "done"}, on : 0 .. MaxRuns]]
    BY <1>8 DEF waitReturns
  <2>2. CmdSet'
    BY <1>8 DEF waitReturns
  <2> QED BY <1>8, <2>1, <2>2 DEF waitReturns
<1>3. ASSUME NEW r \in Runs, recordExit(r) PROVE TypeIInv'
  <2>0. waiter[r].on \in Runs
    BY <1>3 DEF recordExit
  <2>1. waitedCode(r) \in 0 .. 255
    <3>1. CASE proc[waiter[r].on].p = "reaped"
      BY <2>0, <3>1 DEF waitedCode
    <3>2. CASE proc[waiter[r].on].p # "reaped"
      BY <3>2 DEF waitedCode
    <3> QED BY <3>1, <3>2
  <2>2. state' \in [is : {"Waiting", "Running", "Terminated"}, code : 0 .. 255]
    BY <1>3, <2>1 DEF recordExit, Is
  <2>3. waiter' \in [Runs -> [pc : {"off", "new", "waiting", "waited", "done"}, on : 0 .. MaxRuns]]
    BY <1>3 DEF recordExit
  <2>4. crashed' \in BOOLEAN
    BY <1>3 DEF recordExit
  <2>5. CmdSet'
    <3>1. CASE UNCHANGED waiter
      BY <1>3, <3>1 DEF recordExit
    <3>2. CASE waiter' = [waiter EXCEPT ![r].pc = "done"]
      BY <1>3, <3>2, <2>0 DEF recordExit
    <3> QED BY <1>3, <3>1, <3>2 DEF recordExit
  <2> QED BY <1>3, <2>2, <2>3, <2>4, <2>5 DEF recordExit
<1>4. ASSUME NEW c \in Runs, NEW e \in Ends, ProcessEnds(c, e)
      PROVE  /\ proc' \in [Runs -> [p : {"none", "running", "zombie", "reaped"}, end : Ends \cup {"none"}]]
             /\ EndKnown'
  BY <1>4 DEF ProcessEnds
<1>5. ASSUME NEW r \in Runs, CommandEnds(r) PROVE TypeIInv'
  BY <1>4, <1>5 DEF CommandEnds
<1>6. CASE handleSigterm
  <2>1. pid \in Runs
    BY <1>6 DEF handleSigterm
  <2> QED BY <1>4, <1>6, <2>1, ZenonT(60) DEF handleSigterm
<1>7. CASE graceOver
  <2>1. sigterm \in Runs
    BY <1>7 DEF graceOver
  <2>2. CASE ProcessEnds(sigterm, "sigkill") /\ UNCHANGED sigterm
    BY <1>4, <1>7, <2>1, <2>2 DEF graceOver
  <2>3. CASE sigterm' = 0 /\ UNCHANGED proc
    BY <1>7, <2>3 DEF graceOver
  <2> QED BY <1>7, <2>2, <2>3 DEF graceOver
<1> QED BY <1>1, <1>2, <1>3, <1>5, <1>6, <1>7, <1>8 DEF WaitStep

\* The inductive invariant.
LEMMA AgentInductive == Spec => []TypeIInv
<1>1. Init => TypeIInv
  BY InitType
<1>2. TypeIInv /\ [Next]_vars => TypeIInv'
  <2> SUFFICES ASSUME TypeIInv, [Next]_vars PROVE TypeIInv'
    OBVIOUS
  <2>1. CASE UNCHANGED vars
    BY <2>1 DEF vars, TypeIInv, TypeOK, EndKnown, CmdSet
  <2>2. CASE Next
    BY <2>2, RunStepType, ProcessStepType DEF Next
  <2> QED BY <2>1, <2>2
<1> QED BY <1>1, <1>2, PTL DEF Spec

\* The agent's state is well typed after any number of deliveries of /run, overlapping
\* or not: no goroutine reads a command, a process or an exit code that is not there.
THEOREM AgentTypeCorrect == Spec => []TypeOK
<1>1. TypeIInv => TypeOK
  BY DEF TypeIInv
<1> QED BY <1>1, AgentInductive, PTL

-----------------------------------------------------------------------------
\* One child, when deliveries of /run do not overlap.

Active(r) == run[r] \in {"sent", "checked", "created", "started"}
Unreaped(r) == proc[r].p \in {"running", "zombie"}

\* Deliveries come in order and one at a time.
OneDelivery ==
    /\ \A r, q \in Runs : (run[r] = "none" /\ r < q) => run[q] = "none"
    /\ \A r, q \in Runs : (Active(r) /\ Active(q)) => r = q

\* A handler past the check is alone, with its own command ...
Alone ==
    \A r \in Runs :
        /\ run[r] \in {"created", "started"} => cmd = r
        /\ run[r] \in {"checked", "created", "started"} => \A q \in Runs : Unreaped(q) => q = r

\* ... because a.pid names every process that has not been reaped, but for one that
\* has been started and not recorded yet.
PidKnown == \A r \in Runs : Unreaped(r) => (pid = r \/ run[r] = "started")

\* A command is started by its own handler.
StartedByHandler == \A r \in Runs : Unreaped(r) => run[r] \in {"started", "ok"}

ChildIInv == TypeIInv /\ OneDelivery /\ Alone /\ PidKnown /\ StartedByHandler

\* A process that ends or is reaped, and a goroutine that waits, give no handler a
\* second process to reckon with.
LEMMA QuietStep ==
    ASSUME ChildIInv, UNCHANGED <<run, cmd, pid>>,
           \A q \in Runs : Unreaped(q)' => Unreaped(q)
    PROVE  OneDelivery' /\ Alone' /\ PidKnown' /\ StartedByHandler'
<1>1. OneDelivery' /\ PidKnown' /\ StartedByHandler'
  BY DEF ChildIInv, OneDelivery, PidKnown, StartedByHandler, Active, Unreaped
<1>2. Alone'
  BY DEF ChildIInv, Alone, Unreaped
<1> QED BY <1>1, <1>2

\* The delivery being handled goes on, or is answered: the others are as before.
LEMMA OneDeliveryStep ==
    ASSUME TypeOK, OneDelivery, NEW r \in Runs, Active(r), NEW x, x # "none",
           run' = [run EXCEPT ![r] = x]
    PROVE  OneDelivery'
<1>1. \A q \in Runs : run'[q] = IF q = r THEN x ELSE run[q]
  BY DEF TypeOK
<1>2. \A q \in Runs : Active(q)' => Active(q)
  BY <1>1 DEF Active
<1>3. \A q \in Runs : run'[q] = "none" <=> run[q] = "none"
  BY <1>1 DEF Active
<1> QED BY <1>2, <1>3 DEF OneDelivery

\* A handler that passes the check finds every process reaped, since a.pid would name
\* one that is not.
LEMMA HandlerStep ==
    ASSUME ~Overlapping, ChildIInv, NEW r \in Runs, Deliver(r) \/ RunStep(r)
    PROVE  OneDelivery' /\ Alone' /\ PidKnown' /\ StartedByHandler'
<1> USE AgentAssumption DEF ChildIInv, TypeIInv, TypeOK, Alone, PidKnown, StartedByHandler,
        Unreaped, Runs
<1>1. CASE Deliver(r)
  <2>1. \A q \in Runs : run'[q] = IF q = r THEN "sent" ELSE run[q]
    BY <1>1 DEF Deliver, Step
  <2>2. \A q \in Runs \ {r} : ~Active(q)
    <3>1. \A q \in Runs : q < r => run[q] \in {"ok", "refused", "error"}
      BY <1>1, Zenon DEF Deliver
    <3>2. \A q \in Runs : r < q => run[q] = "none"
      BY <1>1 DEF Deliver, Step, OneDelivery
    <3>3. SUFFICES ASSUME NEW q \in Runs, q # r PROVE ~Active(q)
      OBVIOUS
    <3>4. q < r \/ r < q
      BY <3>3
    <3> QED BY <3>1, <3>2, <3>4 DEF Active
  <2>3. \A q \in Runs : (run[q] = "none" /\ q # r) => r < q
    BY <1>1 DEF Deliver
  <2>4. OneDelivery'
    <3>1. \A q \in Runs : Active(q)' => q = r
      BY <2>1, <2>2 DEF Active
    <3>2. \A q, s \in Runs : (run'[q] = "none" /\ q < s) => (run[s] = "none" /\ s # r)
      BY <2>1, <2>3 DEF OneDelivery
    <3> QED BY <2>1, <3>1, <3>2 DEF OneDelivery
  <2>5. Alone' /\ PidKnown' /\ StartedByHandler'
    BY <1>1, <2>1 DEF Deliver, Step
  <2> QED BY <2>4, <2>5
<1>2. CASE RunStep(r)
  <2>1. OneDelivery'
    BY <1>2, OneDeliveryStep
       DEF RunStep, handleRun, createCommand, startCommand, recordStart, Step, Active
  <2>2. CASE handleRun(r)
    <3>1. run'[r] = "checked" => \A q \in Runs : ~Unreaped(q)
      BY <2>2 DEF handleRun, isProcessRunning, Step, OneDelivery, Active
    <3>3. Alone'
      BY <2>2, <3>1 DEF handleRun, Step
    <3>2. PidKnown' /\ StartedByHandler'
      BY <2>2 DEF handleRun, Step
    <3> QED BY <2>1, <3>2, <3>3
  <2>3. CASE createCommand(r)
    <3>1. Alone'
      BY <2>3 DEF createCommand, Step, OneDelivery, Active
    <3>2. PidKnown' /\ StartedByHandler'
      BY <2>3 DEF createCommand, Step
    <3> QED BY <2>1, <3>1, <3>2
  <2>4. CASE startCommand(r)
    <3>1. cmd = r
      BY <2>4 DEF startCommand, Step
    <3>2. \A q \in Runs : Unreaped(q)' => (Unreaped(q) \/ (q = r /\ run'[r] = "started"))
      BY <2>4, <3>1 DEF startCommand, Step
    <3>3. \A q \in Runs : q # r => run'[q] = run[q]
      BY <2>4 DEF startCommand, Step
    <3>4. \A q \in Runs : Unreaped(q) => q = r
      BY <2>4 DEF startCommand, Step
    <3>5. ~Unreaped(r)
      BY <2>4 DEF startCommand, Step
    <3>6. UNCHANGED <<cmd, pid>>
      BY <2>4 DEF startCommand
    <3>7. PidKnown' /\ StartedByHandler'
      BY <3>2, <3>4, <3>5, <3>6
    <3>8. Alone'
      BY <2>4, <3>2, <3>4, <3>5 DEF startCommand, Step, OneDelivery, Active
    <3> QED BY <2>1, <3>7, <3>8
  <2>5. CASE recordStart(r)
    <3>1. Alone'
      BY <2>5 DEF recordStart, Step, OneDelivery, Active
    <3>2. PidKnown' /\ StartedByHandler'
      BY <2>5 DEF recordStart, Step
    <3> QED BY <2>1, <3>1, <3>2
  <2> QED BY <1>2, <2>2, <2>3, <2>4, <2>5 DEF RunStep
<1> QED BY <1>1, <1>2

\* Nothing has happened yet.
LEMMA InitChild == Init => ChildIInv
<1> SUFFICES ASSUME Init PROVE ChildIInv
  OBVIOUS
<1>1. OneDelivery /\ Alone /\ PidKnown /\ StartedByHandler
  BY DEF Init, OneDelivery, Alone, PidKnown, StartedByHandler, Active, Unreaped, NoProcess
<1> QED BY <1>1, InitType DEF ChildIInv

\* Every step keeps the handlers apart.
LEMMA NextChild == ASSUME ~Overlapping, ChildIInv, [Next]_vars PROVE ChildIInv'
<1>1. CASE UNCHANGED vars
  BY <1>1 DEF vars, ChildIInv, TypeIInv, TypeOK, EndKnown, CmdSet, OneDelivery, Alone,
              PidKnown, StartedByHandler, Active, Unreaped
<1>2. ASSUME NEW r \in Runs, Deliver(r) \/ RunStep(r) PROVE ChildIInv'
  BY <1>2, RunStepType, HandlerStep DEF ChildIInv
<1>3. ASSUME (\E r \in Runs : WaitStep(r) \/ CommandEnds(r)) \/ handleSigterm \/ graceOver
      PROVE  ChildIInv'
  <2>1. TypeIInv'
    BY <1>3, ProcessStepType DEF ChildIInv
  <2>2. UNCHANGED <<run, cmd, pid>>
    BY <1>3 DEF WaitStep, waitBegins, reapProcess, waitReturns, recordExit, CommandEnds,
                handleSigterm, graceOver
  <2>3. \A q \in Runs : Unreaped(q)' => Unreaped(q)
    BY <1>3 DEF WaitStep, waitBegins, reapProcess, waitReturns, recordExit, CommandEnds,
                handleSigterm, graceOver, ProcessEnds, Unreaped, ChildIInv, TypeIInv, TypeOK
  <2> QED BY <2>1, <2>2, <2>3, QuietStep DEF ChildIInv
<1> QED BY <1>1, <1>2, <1>3 DEF Next

\* The agent manages a single child process: with one delivery of /run answered before
\* the next, however many there are and whatever the commands, the waiting goroutines
\* and /sigterm do meanwhile, no two commands run.
THEOREM SerialSingleChild == ASSUME ~Overlapping PROVE Spec => []SingleChild
<1>1. ChildIInv /\ [Next]_vars => ChildIInv'
  BY NextChild
<1>2. ChildIInv => SingleChild
  BY DEF ChildIInv, OneDelivery, Alone, PidKnown, Active, Unreaped, SingleChild
<1> QED BY <1>1, <1>2, InitChild, PTL DEF Spec

-----------------------------------------------------------------------------
\* What /status says, when deliveries of /run do not overlap.

\* a.cmd is the command of the process that has not been reaped: it is replaced only by a
\* handler that found none.
CmdKnown == \A r \in Runs : Unreaped(r) => cmd = r

\* A waiting goroutine waits for the command it was started for, and nobody else reaps it.
WaitsForOwn ==
    \A r \in Runs :
        /\ run[r] = "started" => Unreaped(r)
        /\ waiter[r].pc # "off" => run[r] = "ok"
        /\ waiter[r].pc \in {"off", "new"} => waiter[r].on = 0
        /\ waiter[r].pc \in {"waiting", "waited", "done"} => waiter[r].on = r
        /\ waiter[r].pc = "new" => Unreaped(r)
        /\ waiter[r].pc \in {"waited", "done"} => proc[r].p = "reaped"

\* "Terminated" was written when nothing ran, with the code of a command that had ended.
Ended ==
    state.is = "Terminated" =>
        /\ \A r \in Runs : Unreaped(r) => run[r] = "started"
        /\ \E r \in Runs : proc[r].p = "reaped" /\ state.code = exitCode[proc[r].end]

StatusIInv == ChildIInv /\ CmdKnown /\ WaitsForOwn /\ Ended

\* The handler of /run keeps it: a state Terminated is overwritten with the start.
LEMMA HandlerStatus ==
    ASSUME ~Overlapping, StatusIInv, NEW r \in Runs, Deliver(r) \/ RunStep(r)
    PROVE  CmdKnown' /\ WaitsForOwn' /\ Ended'
<1> USE AgentAssumption DEF StatusIInv, ChildIInv, TypeIInv, TypeOK, CmdKnown, WaitsForOwn, Ended,
        Alone, Unreaped, Runs
<1>1. CASE Deliver(r) \/ handleRun(r)
  <2>1. UNCHANGED <<cmd, state, proc, waiter>>
    BY <1>1 DEF Deliver, handleRun
  <2>2. \A q \in Runs : run'[q] = run[q] \/ (q = r /\ run[q] \in {"none", "sent"} /\ run'[q] \in {"sent", "refused", "checked"})
    BY <1>1 DEF Deliver, handleRun, Step
  <2>3. \A q \in Runs : run[q] \in {"none", "sent"} => ~Unreaped(q) /\ waiter[q].pc = "off"
    BY DEF StartedByHandler
  <2> HIDE DEF StatusIInv, ChildIInv, TypeIInv, TypeOK, CmdKnown, WaitsForOwn, Ended, Alone, Unreaped
  <2>4. \A q \in Runs : Unreaped(q)' <=> Unreaped(q)
    BY <2>1 DEF Unreaped
  <2>5. CmdKnown'
    BY <2>1, <2>4 DEF StatusIInv, CmdKnown
  <2>6. WaitsForOwn'
    BY <2>1, <2>2, <2>3, <2>4 DEF StatusIInv, WaitsForOwn
  <2>7. Ended'
    BY <2>1, <2>2, <2>3, <2>4 DEF StatusIInv, Ended
  <2> QED BY <2>5, <2>6, <2>7
<1>2. CASE createCommand(r)
  <2>1. UNCHANGED <<state, proc, waiter>> /\ cmd' = r
    BY <1>2 DEF createCommand
  <2>2. run[r] = "checked" /\ \A q \in Runs : run'[q] = IF q = r THEN "created" ELSE run[q]
    BY <1>2 DEF createCommand, Step
  <2>3. CmdKnown' /\ WaitsForOwn'
    BY <2>1, <2>2
  <2>4. Ended'
    BY <2>1, <2>2
  <2> QED BY <2>3, <2>4
<1>3. CASE startCommand(r)
  <2>1. UNCHANGED <<cmd, state, waiter>> /\ run[r] = "created" /\ cmd = r
    BY <1>3 DEF startCommand, Step
  <2>2. CASE UNCHANGED proc /\ run' = [run EXCEPT ![r] = "error"]
    BY <2>1, <2>2
  <2>3. CASE /\ proc[r].p = "none" /\ proc' = [proc EXCEPT ![r].p = "running"]
             /\ run' = [run EXCEPT ![r] = "started"]
    <3>1. \A q \in Runs : q # r => proc'[q] = proc[q] /\ run'[q] = run[q]
      BY <2>3
    <3>2. proc'[r].p = "running" /\ run'[r] = "started"
      BY <2>3
    <3>3. waiter[r].pc = "off"
      BY <2>1
    <3>4. Ended'
      BY <2>1, <2>3, <3>1, <3>2, SMTT(60)
    <3> HIDE DEF StatusIInv, ChildIInv, TypeIInv, TypeOK, CmdKnown, WaitsForOwn, Ended, Alone, Unreaped
    <3>5. Unreaped(r)' /\ \A q \in Runs : q # r => (Unreaped(q)' <=> Unreaped(q))
      BY <3>1, <3>2 DEF Unreaped
    <3>6. CmdKnown'
      BY <2>1, <3>5 DEF StatusIInv, CmdKnown
    <3>7. WaitsForOwn'
      BY <2>1, <3>1, <3>2, <3>3, <3>5 DEF StatusIInv, WaitsForOwn
    <3> QED BY <3>4, <3>6, <3>7
  <2> QED BY <1>3, <2>1, <2>2, <2>3 DEF startCommand, Step
<1>4. CASE recordStart(r)
  <2>1. UNCHANGED <<cmd, proc>> /\ run[r] = "started" /\ state'.is = "Running"
    BY <1>4 DEF recordStart, Step, Is
  <2>2. \A q \in Runs : q # r => waiter'[q] = waiter[q] /\ run'[q] = run[q]
    BY <1>4 DEF recordStart, Step
  <2>3. run'[r] = "ok" /\ waiter'[r].pc = "new" /\ waiter'[r].on = waiter[r].on
    BY <1>4 DEF recordStart, Step
  <2>4. waiter[r].on = 0
    BY <2>1
  <2> QED BY <2>1, <2>2, <2>3, <2>4
<1> QED BY <1>1, <1>2, <1>3, <1>4 DEF RunStep

\* A process that ends keeps it: what is not reaped was not reaped before.
LEMMA EndStatus ==
    ASSUME StatusIInv, NEW c \in Runs, NEW e, ProcessEnds(c, e), UNCHANGED <<run, cmd, state, waiter>>
    PROVE  CmdKnown' /\ WaitsForOwn' /\ Ended'
<1>1. \A q \in Runs : q # c => proc'[q] = proc[q]
  BY DEF ProcessEnds, StatusIInv, ChildIInv, TypeIInv, TypeOK
<1>2. proc[c].p = "running" /\ proc'[c].p = "zombie"
  BY DEF ProcessEnds, StatusIInv, ChildIInv, TypeIInv, TypeOK
<1>3. \A q \in Runs : Unreaped(q)' <=> Unreaped(q)
  BY <1>1, <1>2 DEF Unreaped
<1>4. CmdKnown' /\ WaitsForOwn'
  BY <1>1, <1>2, <1>3 DEF StatusIInv, CmdKnown, WaitsForOwn
<1>5. Ended'
  BY <1>1, <1>2, <1>3 DEF StatusIInv, Ended
<1> QED BY <1>4, <1>5

\* The waiting goroutines keep it: the exit that is recorded is that of the goroutine's own
\* command, and a.cmd, which has been reaped, is the only one that could run.
LEMMA WaiterStatus ==
    ASSUME StatusIInv, NEW r \in Runs, WaitStep(r)
    PROVE  CmdKnown' /\ WaitsForOwn' /\ Ended'
<1> USE AgentAssumption DEF StatusIInv, ChildIInv, TypeIInv, TypeOK, CmdKnown, WaitsForOwn, Unreaped, Runs
<1>1. CASE waitBegins(r)
  <2>1. UNCHANGED <<run, cmd, state, proc>> /\ waiter[r].pc = "new"
    BY <1>1 DEF waitBegins, Waits
  <2>2. cmd = r /\ proc[cmd].p # "none"
    BY <2>1
  <2>6. \A q \in Runs \ {r} : waiter[q].on # cmd
    <3>1. \A q \in Runs : waiter[q].on \in {0, q}
      OBVIOUS
    <3> QED BY <2>2, <3>1
  <2>3. waiter' = [waiter EXCEPT ![r] = [pc |-> "waiting", on |-> r]]
    BY <1>1, <2>2, <2>6 DEF waitBegins
  <2>4. CmdKnown' /\ WaitsForOwn'
    BY <2>1, <2>2, <2>3
  <2>5. Ended'
    BY <2>1 DEF Ended
  <2> QED BY <2>4, <2>5
<1>2. CASE reapProcess(r)
  <2>1. UNCHANGED <<run, cmd, state, waiter>> /\ waiter[r].on = r /\ waiter[r].pc = "waiting"
    BY <1>2 DEF reapProcess, Waits
  <2>2. proc[r].p = "zombie" /\ proc' = [proc EXCEPT ![r].p = "reaped"]
    BY <1>2, <2>1 DEF reapProcess
  <2>3. /\ proc'[r].p = "reaped" /\ proc'[r].end = proc[r].end
        /\ \A q \in Runs : q # r => proc'[q] = proc[q]
    BY <2>2
  <2>4. run[r] = "ok"
    BY <2>1
  <2>5. CmdKnown' /\ WaitsForOwn'
    BY <2>1, <2>2, <2>3, <2>4
  <2>6. Ended'
    BY <2>1, <2>2, <2>3 DEF Ended
  <2> QED BY <2>5, <2>6
<1>3. CASE waitReturns(r)
  <2>1. UNCHANGED <<run, cmd, state, proc>> /\ waiter[r].pc = "waiting" /\ waiter[r].on = r
        /\ proc[r].p = "reaped" /\ waiter' = [waiter EXCEPT ![r].pc = "waited"]
    BY <1>3 DEF waitReturns, Waits
  <2>2. CmdKnown' /\ WaitsForOwn'
    BY <2>1
  <2>3. Ended'
    BY <2>1 DEF Ended
  <2> QED BY <2>2, <2>3
<1>4. CASE recordExit(r)
  <2>1. UNCHANGED <<run, cmd, proc>> /\ waiter[r].pc = "waited" /\ waiter[r].on = r /\ proc[r].p = "reaped"
    BY <1>4 DEF recordExit, Waits
  <2>2. \A q \in Runs : waiter'[q] = waiter[q] \/ (q = r /\ waiter'[q].pc = "done" /\ waiter'[q].on = r)
    BY <1>4, <2>1 DEF recordExit
  <2>3. CmdKnown' /\ WaitsForOwn'
    <3> HIDE DEF ChildIInv, TypeIInv, TypeOK, CmdKnown, WaitsForOwn, Unreaped
    <3>1. \A q \in Runs : Unreaped(q)' <=> Unreaped(q)
      BY <2>1 DEF Unreaped
    <3>2. CmdKnown'
      BY <2>1, <3>1 DEF CmdKnown
    <3>3. WaitsForOwn'
      BY <2>1, <2>2, <3>1 DEF WaitsForOwn
    <3> QED BY <3>2, <3>3
  <2>4. CASE UNCHANGED state
    <3> HIDE DEF ChildIInv, TypeIInv, TypeOK, CmdKnown, WaitsForOwn
    <3>1. Ended'
      BY <2>1, <2>4 DEF Ended
    <3> QED BY <2>3, <3>1
  <2>5. CASE proc[cmd].p = "reaped" /\ state' = Is("Terminated", waitedCode(r))
    <3>1. \A q \in Runs : ~Unreaped(q)
      BY <2>5
    <3>2. waitedCode(r) = exitCode[proc[r].end]
      BY <2>1 DEF waitedCode
    <3>3. state'.code = exitCode[proc[r].end]
      BY <2>5, <3>2 DEF Is
    <3> QED BY <2>1, <2>3, <3>1, <3>3 DEF Ended
  <2> QED BY <1>4, <2>3, <2>4, <2>5 DEF recordExit
<1> QED BY <1>1, <1>2, <1>3, <1>4 DEF WaitStep

\* /status tells the truth: with one delivery of /run answered before the next, a container
\* is reported as finished only when no command runs, with the exit code of a command that
\* ended that way, although the goroutine that writes it reads fields nobody protects.
THEOREM SerialStatusTruthful == ASSUME ~Overlapping PROVE Spec => []StatusTruthful
<1>1. Init => StatusIInv
  <2> SUFFICES ASSUME Init PROVE StatusIInv
    OBVIOUS
  <2>1. CmdKnown /\ WaitsForOwn /\ Ended
    BY DEF Init, CmdKnown, WaitsForOwn, Ended, Unreaped, NoProcess, NotWaiting, Is
  <2> QED BY <2>1, InitChild DEF StatusIInv
<1>2. StatusIInv /\ [Next]_vars => StatusIInv'
  <2> SUFFICES ASSUME StatusIInv, [Next]_vars PROVE StatusIInv'
    OBVIOUS
  <2>1. ChildIInv'
    BY NextChild DEF StatusIInv
  <2>2. CASE UNCHANGED vars
    BY <2>1, <2>2 DEF vars, StatusIInv, CmdKnown, WaitsForOwn, Ended, Unreaped
  <2>3. ASSUME NEW r \in Runs, CommandEnds(r) PROVE CmdKnown' /\ WaitsForOwn' /\ Ended'
    BY <2>3, EndStatus DEF CommandEnds
  <2>4. CASE handleSigterm \/ graceOver
    <3>1. UNCHANGED <<run, cmd, state, waiter>>
      BY <2>4 DEF handleSigterm, graceOver
    <3>2. UNCHANGED proc \/ \E c \in Runs, e \in Ends : ProcessEnds(c, e)
      BY <2>4, EndsAre DEF handleSigterm, graceOver, StatusIInv, ChildIInv, TypeIInv, TypeOK, Runs
    <3>3. CASE UNCHANGED proc
      BY <2>1, <3>1, <3>3 DEF StatusIInv, CmdKnown, WaitsForOwn, Ended, Unreaped
    <3> QED BY <2>1, <3>1, <3>2, <3>3, EndStatus DEF StatusIInv
  <2> QED BY <2>1, <2>2, <2>3, <2>4, HandlerStatus, WaiterStatus DEF Next, StatusIInv
<1>3. StatusIInv => StatusTruthful
  BY DEF StatusIInv, Ended, Unreaped, StatusTruthful
<1> QED BY <1>1, <1>2, <1>3, PTL DEF Spec
=============================================================================
