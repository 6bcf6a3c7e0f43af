------------------------------ MODULE AgentLogs ------------------------------
(***************************************************************************)
(* The agent with the output of its commands: internal/agent/logging.go and  *)
(* the /logs handler of server.go, composed with Agent.                      *)
(*                                                                           *)
(* What a command prints on stdout or stderr goes through the pipe os/exec   *)
(* makes and an io.Pipe to a goroutine per stream that writes it, line by    *)
(* line, to the Logger both streams share, which appends to main.log.  Wait  *)
(* returns only when both pipes are drained.  A client of /logs gets the     *)
(* last lines of the file and then what is appended to it.                   *)
(*                                                                           *)
(* A line is a record, main.log a sequence of lines and newlines: positions  *)
(* and the chunks tailFile reads are counted in these.  Deliveries of /run   *)
(* do not overlap.  External: os/exec, io.Pipe and bufio.Scanner, which      *)
(* gives up at a line longer than its buffer.                                *)
(***************************************************************************)
EXTENDS Agent, FiniteSets, Sequences, SequencesExt

CONSTANTS
    MaxLines,    \* bound: lines the commands print in all
    Kinds,       \* of lines: "line", "part" (no newline at the end), "long" (over 64 KB)
    PipeCap,     \* lines that fit in a pipe
    MaxSize,     \* Logger.maxSize, in lines
    ChunkSize,   \* tailFile's bufSize
    MaxTail,     \* bound: the lines a client asks for
    Newline

ASSUME LogsAssumption ==
    /\ {MaxLines, PipeCap, MaxSize, ChunkSize, MaxTail} \subseteq Nat \ {0}
    /\ Kinds \subseteq {"line", "part", "long"}
    /\ ~Overlapping

VARIABLES
    printed,   \* lines printed, per run and stream
    pipe,      \* lines in the pipes, not read by the scanner yet
    scan,      \* the StreamWithTimestamp goroutines
    logger,    \* the Logger of each run: its mutex, size and whether its file is open
    log,       \* main.log
    reader     \* a client of /logs: where it reads, what it has got; history: the lines it
               \* asked for and the length of the file at that moment

logVars == <<printed, pipe, scan, logger, log, reader>>
allVars == <<vars, logVars>>

Streams == {"out", "err"}
Lines == [run : Runs, stream : Streams, n : 1 .. MaxLines, kind : Kinds]

ASSUME NewlineAssumption == Newline \notin Lines

NewLogger == [mu |-> "free", size |-> 0, open |-> TRUE]

InitLogs ==
    /\ Init
    /\ printed = [r \in Runs |-> [s \in Streams |-> <<>>]]
    /\ pipe = [r \in Runs |-> [s \in Streams |-> <<>>]]
    /\ scan = [r \in Runs |-> [s \in Streams |-> [pc |-> "off", buf |-> <<>>]]]
    /\ logger = [r \in Runs |-> [NewLogger EXCEPT !.open = FALSE]]
    /\ log = <<>>
    /\ reader = [pc |-> "none", tail |-> 0, at |-> 0, pos |-> 0, got |-> <<>>]

-----------------------------------------------------------------------------
\* The command's output.

\* SetupLogging, between creating a command and starting it.
SetupLogging(r) ==
    /\ createCommand(r)
    /\ logger' = [logger EXCEPT ![r] = NewLogger]
    /\ scan' = [scan EXCEPT ![r] = [s \in Streams |-> [pc |-> "scan", buf |-> <<>>]]]
    /\ UNCHANGED <<printed, pipe, log, reader>>

Printed == Cardinality({x \in Runs \X Streams \X (1 .. MaxLines) :
                          x[3] \in DOMAIN printed[x[1]][x[2]]})

\* A full pipe holds the command up.
Prints(r, s) ==
    /\ proc[r].p = "running" /\ Len(pipe[r][s]) < PipeCap /\ Printed < MaxLines
    /\ \A i \in DOMAIN printed[r][s] : printed[r][s][i].kind # "part"
    /\ \E k \in Kinds :
         LET l == [run |-> r, stream |-> s, n |-> Len(printed[r][s]) + 1, kind |-> k] IN
           /\ printed' = [printed EXCEPT ![r][s] = Append(@, l)]
           /\ pipe' = [pipe EXCEPT ![r][s] = Append(@, l)]
    /\ UNCHANGED <<vars, scan, logger, log, reader>>

Scanning(r, s) == ~crashed /\ scan[r][s].pc = "scan"

\* A read that keeps one line of what it took.
ScannerReadsOne(r, s) ==
    /\ Scanning(r, s) /\ scan[r][s].buf = <<>> /\ pipe[r][s] # <<>>
    /\ scan' = [scan EXCEPT ![r][s].buf = <<Head(pipe[r][s])>>]
    /\ pipe' = [pipe EXCEPT ![r][s] = <<>>]
    /\ UNCHANGED <<vars, printed, logger, log, reader>>

\* The copying goroutine hands what there is to the scanner, which asks for more when no
\* whole line is left in its buffer.  The pipe is never closed: a last line without a
\* newline stays in the buffer.
ScannerReads(r, s) ==
    /\ Scanning(r, s) /\ scan[r][s].buf = <<>> /\ pipe[r][s] # <<>>
    /\ \E k \in 1 .. Len(pipe[r][s]) :
         /\ scan' = [scan EXCEPT ![r][s].buf = SubSeq(pipe[r][s], 1, k)]
         /\ pipe' = [pipe EXCEPT ![r][s] = SubSeq(@, k + 1, Len(@))]
    /\ UNCHANGED <<vars, printed, logger, log, reader>>

NextIs(r, s, kind) ==
    Scanning(r, s) /\ scan[r][s].buf # <<>> /\ Head(scan[r][s].buf).kind = kind

\* A size limit that is off by one.
WriteOneMore(r, s) ==
    /\ NextIs(r, s, "line") /\ logger[r].mu = "free" /\ logger[r].size <= MaxSize
    /\ scan' = [scan EXCEPT ![r][s].buf = Tail(@)]
    /\ log' = IF logger[r].open THEN log \o <<Head(scan[r][s].buf), Newline>> ELSE log
    /\ logger' = [logger EXCEPT ![r].size = IF logger[r].open THEN @ + 1 ELSE @]
    /\ UNCHANGED <<vars, printed, pipe, reader>>

\* Logger.Write, under the mutex.  The logger of a closed file loses the line.
Write(r, s) ==
    /\ NextIs(r, s, "line") /\ logger[r].mu = "free" /\ logger[r].size + 1 <= MaxSize
    /\ scan' = [scan EXCEPT ![r][s].buf = Tail(@)]
    /\ log' = IF logger[r].open THEN log \o <<Head(scan[r][s].buf), Newline>> ELSE log
    /\ logger' = [logger EXCEPT ![r].size = IF logger[r].open THEN @ + 1 ELSE @]
    /\ UNCHANGED <<vars, printed, pipe, reader>>

\* At the size limit Write calls openFile, which locks the mutex Write holds.
WriteRotates(r, s) ==
    /\ NextIs(r, s, "line") /\ logger[r].mu = "free" /\ logger[r].size + 1 > MaxSize
    /\ logger' = [logger EXCEPT ![r].mu = s]
    /\ scan' = [scan EXCEPT ![r][s].pc = "stuck"]
    /\ UNCHANGED <<vars, printed, pipe, log, reader>>

\* A line too long ends the scan, and closes the logger for both streams.
Close(r, s) ==
    /\ NextIs(r, s, "long") /\ logger[r].mu = "free"
    /\ logger' = [logger EXCEPT ![r].open = FALSE, ![r].size = 0]
    /\ scan' = [scan EXCEPT ![r][s] = [pc |-> "ended", buf |-> <<>>]]
    /\ UNCHANGED <<vars, printed, pipe, log, reader>>

StreamWithTimestamp(r, s) ==
    ScannerReads(r, s) \/ Write(r, s) \/ WriteRotates(r, s) \/ Close(r, s)

Drained(c) == \A s \in Streams : pipe[c][s] = <<>>

-----------------------------------------------------------------------------
\* /logs with a tail, followed.

Newlines(chunk) == SelectSeq([i \in 1 .. Len(chunk) |-> i], LAMBDA i : chunk[i] = Newline)

\* strings.Split(chunk, "\n")
Split(chunk) ==
    LET cuts == <<0>> \o Newlines(chunk) \o <<Len(chunk) + 1>>
    IN  [j \in 1 .. Len(cuts) - 1 |-> SubSeq(chunk, cuts[j] + 1, cuts[j + 1] - 1)]

LastN(seq, n) == SubSeq(seq, IF Len(seq) > n THEN Len(seq) - n + 1 ELSE 1, Len(seq))

\* The piece after the last newline taken for a line.
chunkPieces(chunk) == Split(chunk)

\* The lines of a chunk: an empty last piece is the end of the line before.
chunkLines(chunk) ==
    LET pieces == Split(chunk) IN IF Last(pieces) = <<>> THEN Front(pieces) ELSE pieces

\* The file is read in chunks from its end until there are n lines; the position is left
\* at the end of the chunk read last.
tailFile(file, n) ==
    LET read[k \in 0 .. Len(file)] ==
          IF k = 0 THEN [offset |-> Len(file), pos |-> 0, lines |-> <<>>]
          ELSE LET t == read[k - 1]
                   offset == IF t.offset < ChunkSize THEN 0 ELSE t.offset - ChunkSize
               IN  IF t.offset = 0 \/ Len(t.lines) >= n THEN t
                   ELSE [offset |-> offset, pos |-> t.offset,
                         lines |-> LastN(chunkLines(SubSeq(file, offset + 1, t.offset)),
                                         n - Len(t.lines)) \o t.lines]
    IN  read[Len(file)]

Rendered(lines) == FlattenSeq([i \in DOMAIN lines |-> Append(lines[i], Newline)])

\* Without a tail (n = 0) the whole file.  It exists once a logger has been made.
handleLogs(n) ==
    /\ ~crashed /\ reader.pc = "none" /\ \E r \in Runs, s \in Streams : scan[r][s].pc # "off"
    /\ LET t == IF n = 0 THEN [pos |-> Len(log), got |-> log]
                ELSE LET f == tailFile(log, n) IN [pos |-> f.pos, got |-> Rendered(f.lines)]
       IN  reader' = [pc |-> "follow", tail |-> n, at |-> Len(log), pos |-> t.pos, got |-> t.got]
    /\ UNCHANGED <<vars, printed, pipe, scan, logger, log>>

\* Twice a second: whatever the file has grown by.
followTick ==
    /\ ~crashed /\ reader.pc = "follow" /\ Len(log) > reader.pos
    /\ reader' = [reader EXCEPT !.pos = Len(log),
                                !.got = @ \o SubSeq(log, reader.pos + 1, Len(log))]
    /\ UNCHANGED <<vars, printed, pipe, scan, logger, log>>

-----------------------------------------------------------------------------
\* The agent's own steps; a command is created with its logging, and Wait returns when
\* the pipes are empty.
AgentStep(r) ==
    /\ \/ handleRun(r) \/ startCommand(r) \/ recordStart(r)
       \/ waitBegins(r) \/ reapProcess(r) \/ recordExit(r)
       \/ waitReturns(r) /\ Drained(waiter[r].on)
    /\ UNCHANGED logVars

NextLogs ==
    \/ \E r \in Runs : AgentStep(r)
    \/ \E r \in Runs : (Deliver(r) \/ CommandEnds(r)) /\ UNCHANGED logVars
    \/ (handleSigterm \/ graceOver) /\ UNCHANGED logVars
    \/ \E r \in Runs : SetupLogging(r)
    \/ \E r \in Runs, s \in Streams : Prints(r, s) \/ StreamWithTimestamp(r, s)
    \/ \E n \in 0 .. MaxTail : handleLogs(n)
    \/ followTick

LogSpec == InitLogs /\ [][NextLogs]_allVars

\* Goroutines run, the grace timer and the follower's ticker fire, and a mutex that is
\* free again and again is got in the end.
FairLogSpec ==
    /\ LogSpec
    /\ \A r \in Runs :
         /\ WF_allVars(AgentStep(r)) /\ WF_allVars(SetupLogging(r))
         /\ \A s \in Streams : SF_allVars(StreamWithTimestamp(r, s))
    /\ WF_allVars(graceOver /\ UNCHANGED logVars)
    /\ WF_allVars(followTick)

-----------------------------------------------------------------------------
\* Properties.

Unstuck(r) == \A s \in Streams : scan[r][s].pc \notin {"stuck", "ended"}
Complete(l) == l.kind = "line"

\* Where main.log has the lines of a stream.
LoggedAt(r, s) ==
    {i \in DOMAIN log : log[i] # Newline /\ log[i].run = r /\ log[i].stream = s}

\* Type correctness of the output's state.
LogTypeOK ==
    /\ \A r \in Runs, s \in Streams :
         /\ printed[r][s] \in Seq(Lines) /\ Len(printed[r][s]) <= MaxLines
         /\ pipe[r][s] \in Seq(Lines) /\ Len(pipe[r][s]) <= PipeCap
         /\ scan[r][s].pc \in {"off", "scan", "stuck", "ended"} /\ scan[r][s].buf \in Seq(Lines)
    /\ logger \in [Runs -> [mu : Streams \cup {"free"}, size : 0 .. MaxSize, open : BOOLEAN]]
    /\ log \in Seq(Lines \cup {Newline})
    /\ reader.pc \in {"none", "follow"} /\ reader.pos \in 0 .. Len(log)

\* The log has, of each stream, what the command printed and nothing else, in its order and
\* without a repetition, and without a gap for as long as the stream's logger is at work.
StreamsInOrder ==
    \A r \in Runs, s \in Streams :
        LET logged == LoggedAt(r, s) IN
          /\ \A i, j \in logged : i < j => log[i].n < log[j].n
          /\ \A i \in logged : /\ log[i].n \in DOMAIN printed[r][s]
                               /\ log[i] = printed[r][s][log[i].n]
          /\ Unstuck(r) => \A i \in logged : \A m \in 1 .. log[i].n : \E j \in logged : log[j].n = m

\* What a client of /logs has got is the stretch of main.log that starts with the last
\* lines it asked for (with the whole file, when it asked for no number), up to where it
\* reads: nothing twice, nothing left out, whatever was appended since.
TailStart(file, n) ==
    LET nls == Newlines(file) IN IF n = 0 \/ Len(nls) <= n THEN 0 ELSE nls[Len(nls) - n]

FollowerSees ==
    reader.pc = "follow" =>
        reader.got = SubSeq(log, TailStart(SubSeq(log, 1, reader.at), reader.tail) + 1, reader.pos)

\* A whole line a command printed is logged in the end, as long as no line was too long,
\* the size limit was not reached and the agent lives.
LinesLogged ==
    \A r \in Runs, s \in Streams, i \in 1 .. MaxLines :
        (Len(printed[r][s]) >= i /\ Complete(printed[r][s][i]))
            ~> ((\E j \in LoggedAt(r, s) : log[j].n = i) \/ ~Unstuck(r) \/ crashed)

\* What a command prints last is logged in the end, unless the agent died.
LastLineLogged ==
    \A r \in Runs, s \in Streams, i \in 1 .. MaxLines :
        (Len(printed[r][s]) >= i) ~>
            ((\E j \in LoggedAt(r, s) : log[j].n = i) \/ crashed)

\* The end of a command is reported in the end: only a scanner that has stopped can keep
\* Wait from returning, and then only with output left in the pipes.
ExitReportedUnlessBlocked ==
    \A r \in Runs : (proc[r].p = "zombie") ~>
        \/ state.is = "Terminated" \/ cmd # r \/ crashed
        \/ ~Unstuck(r) /\ ~Drained(r)
=============================================================================
