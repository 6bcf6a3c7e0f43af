-------------------------- MODULE AgentLogsProofs --------------------------
(***************************************************************************)
(* The agent with the output of its commands implements the agent without:   *)
(* the pipes, the scanners and the clients of /logs only delay what the      *)
(* agent does, and whatever is proved of Agent holds of it, for any number   *)
(* of deliveries, lines and pipe and log sizes.  The output itself: its      *)
(* state is well typed, and the log has each stream as it was printed.       *)
(***************************************************************************)
EXTENDS AgentLogs, AgentProofs, FiniteSetTheorems, SequenceTheorems, WellFoundedInduction

\* A step of a scanner goroutine, of the command's output or of /logs leaves the agent's
\* fields alone.
LEMMA OutputStep ==
    ASSUME \/ \E r \in Runs, s \in Streams : Prints(r, s) \/ StreamWithTimestamp(r, s)
           \/ \E n \in 0 .. MaxTail : handleLogs(n)
           \/ followTick
    PROVE  UNCHANGED vars
<1>1. ASSUME NEW r \in Runs, NEW s \in Streams, Prints(r, s)
      PROVE  UNCHANGED vars
  BY <1>1 DEF Prints
<1>2. ASSUME NEW r \in Runs, NEW s \in Streams, StreamWithTimestamp(r, s)
      PROVE  UNCHANGED vars
  BY <1>2 DEF StreamWithTimestamp, ScannerReads, Write, WriteRotates, Close
<1>3. ASSUME NEW n \in 0 .. MaxTail, handleLogs(n)
      PROVE  UNCHANGED vars
  BY <1>3 DEF handleLogs
<1>4. ASSUME followTick
      PROVE  UNCHANGED vars
  BY <1>4 DEF followTick
<1> QED BY <1>1, <1>2, <1>3, <1>4

\* A step of the agent among its output is one of its own steps: Wait that also waits for
\* the pipes (waitReturns with Drained) returns no earlier, and a command is created with
\* its logging.
LEMMA AgentsOwnStep ==
    ASSUME \/ \E r \in Runs : AgentStep(r)
           \/ \E r \in Runs : (Deliver(r) \/ CommandEnds(r)) /\ UNCHANGED logVars
           \/ (handleSigterm \/ graceOver) /\ UNCHANGED logVars
           \/ \E r \in Runs : SetupLogging(r)
    PROVE  Next
<1>1. ASSUME NEW r \in Runs, AgentStep(r)
      PROVE  Next
  <2>1. RunStep(r) \/ WaitStep(r)
    BY <1>1 DEF AgentStep, RunStep, WaitStep
  <2> QED BY <2>1 DEF Next
<1>2. ASSUME NEW r \in Runs, SetupLogging(r)
      PROVE  Next
  <2>1. RunStep(r)
    BY <1>2 DEF SetupLogging, RunStep
  <2> QED BY <2>1 DEF Next
<1>3. ASSUME NEW r \in Runs, Deliver(r) \/ CommandEnds(r)
      PROVE  Next
  BY <1>3 DEF Next
<1>4. ASSUME handleSigterm \/ graceOver
      PROVE  Next
  BY <1>4 DEF Next
<1> QED BY <1>1, <1>2, <1>3, <1>4

\* The agent with its output implements Agent: the refinement is the identity on the
\* agent's fields, and a line that is printed, scanned, written or sent is a stutter.
THEOREM LogsImplementAgent == LogSpec => Spec
<1>1. InitLogs => Init
  BY DEF InitLogs
<1>2. [NextLogs]_allVars => [Next]_vars
  <2> SUFFICES ASSUME [NextLogs]_allVars PROVE [Next]_vars
    OBVIOUS
  <2>1. CASE UNCHANGED allVars
    BY <2>1 DEF allVars
  <2>2. CASE NextLogs
    BY <2>2, OutputStep, AgentsOwnStep DEF NextLogs
  <2> QED BY <2>1, <2>2
<1> QED BY <1>1, <1>2, PTL DEF LogSpec, Spec

\* The agent's fields stay well typed whatever its commands print (agent.go, server.go,
\* logging.go).
THEOREM LogsTypeCorrect == LogSpec => []TypeOK
BY LogsImplementAgent, AgentTypeCorrect, PTL

\* However the output delays the waiting goroutine, the agent never has two commands
\* running (handleRun's unlocked test of isProcessRunning).
THEOREM LogsSingleChild == LogSpec => []SingleChild
<1>1. Spec => []SingleChild
  BY SerialSingleChild, LogsAssumption DEF LogsAssumption
<1> QED BY <1>1, LogsImplementAgent, PTL

\* A reported end is the end of a process that was reaped, however long its pipes take to
\* drain (startChildProcess, handleStatus).
THEOREM LogsStatusTruthful == LogSpec => []StatusTruthful
<1>1. Spec => []StatusTruthful
  BY SerialStatusTruthful, LogsAssumption DEF LogsAssumption
<1> QED BY <1>1, LogsImplementAgent, PTL

-----------------------------------------------------------------------------
\* Induction: the provers take it from the least element of a set of numbers.

\* Every set of natural numbers has a least one.
LEMMA Least ==
    ASSUME NEW T, T \subseteq Nat, T # {}
    PROVE  \E x \in T : \A y \in T : x <= y
<1>1. IsWellFoundedOn(OpToRel(<, Nat), Nat)
  BY NatLessThanWellFounded
<1>2. PICK x \in T : \A y \in T : ~(<<y, x>> \in OpToRel(<, Nat))
  BY <1>1, WFMin
<1>3. \A m, n \in Nat : m < n => <<m, n>> \in OpToRel(<, Nat)
  BY DEF OpToRel
<1>4. \A y \in T : ~(y < x)
  BY <1>2, <1>3, Zenon
<1> QED BY <1>4

\* Induction on an interval, over the set of the numbers that have the property.
LEMMA UpTo ==
    ASSUME NEW N \in Nat, NEW T, 0 \in T, \A k \in 1 .. N : k - 1 \in T => k \in T
    PROVE  \A k \in 0 .. N : k \in T
<1> SUFFICES ASSUME NEW k \in 0 .. N, k \notin T PROVE FALSE
  OBVIOUS
<1> DEFINE M == {i \in 0 .. N : i \notin T}
<1>1. M \subseteq Nat /\ M # {}
  OBVIOUS
<1>2. PICK x \in M : \A y \in M : x <= y
  BY <1>1, Least
<1>3. x # 0 /\ x \in 1 .. N /\ x - 1 \in 0 .. N /\ x \notin T
  OBVIOUS
<1>4. x - 1 \notin T
  BY <1>3
<1>5. x - 1 \in M
  BY <1>3, <1>4
<1> QED BY <1>2, <1>3, <1>5

-----------------------------------------------------------------------------
\* tailFile leaves the client at a position of the file.

\* A step of tailFile's loop.
ChunkStep(file, n, t) ==
    LET offset == IF t.offset < ChunkSize THEN 0 ELSE t.offset - ChunkSize
    IN  IF t.offset = 0 \/ Len(t.lines) >= n THEN t
        ELSE [offset |-> offset, pos |-> t.offset,
              lines |-> LastN(chunkLines(SubSeq(file, offset + 1, t.offset)),
                              n - Len(t.lines)) \o t.lines]

ChunkStart(file) == [offset |-> Len(file), pos |-> 0, lines |-> <<>>]

\* The states of the loop, for N rounds.
Chunks(g, file, n, N) ==
    g = [k \in 0 .. N |-> IF k = 0 THEN ChunkStart(file) ELSE ChunkStep(file, n, g[k - 1])]

\* The loop has a result: its states exist for as many rounds as one likes.
LEMMA ChunksExist ==
    ASSUME NEW file, NEW n, NEW N \in Nat
    PROVE  \E g : Chunks(g, file, n, N)
<1> DEFINE T == {m \in 0 .. N : \E g : Chunks(g, file, n, m)}
<1>1. 0 \in T
  <2> DEFINE h == [k \in 0 .. 0 |-> ChunkStart(file)]
  <2>1. Chunks(h, file, n, 0)
    BY DEF Chunks
  <2> HIDE DEF h
  <2> QED BY <2>1
<1>2. ASSUME NEW m \in 1 .. N, m - 1 \in T PROVE m \in T
  <2>1. PICK g : Chunks(g, file, n, m - 1)
    BY <1>2
  <2> DEFINE h == [k \in 0 .. m |-> IF k = m THEN ChunkStep(file, n, g[m - 1]) ELSE g[k]]
  <2>2. \A k \in 0 .. m - 1 : h[k] = g[k]
    OBVIOUS
  <2>3. \A k \in 0 .. m : h[k] = IF k = 0 THEN ChunkStart(file) ELSE ChunkStep(file, n, h[k - 1])
    <3> SUFFICES ASSUME NEW k \in 0 .. m
                 PROVE  h[k] = IF k = 0 THEN ChunkStart(file) ELSE ChunkStep(file, n, h[k - 1])
      OBVIOUS
    <3>1. CASE k = m
      <4>1. h[k] = ChunkStep(file, n, g[m - 1]) /\ h[k - 1] = g[m - 1] /\ k # 0
        BY <2>2, <3>1
      <4> QED BY <4>1
    <3>2. CASE k # m
      <4>1. k \in 0 .. m - 1 /\ h[k] = g[k]
        BY <2>2, <3>2
      <4>2. k # 0 => h[k - 1] = g[k - 1]
        BY <2>2, <4>1
      <4> QED BY <2>1, <4>1, <4>2 DEF Chunks
    <3> QED BY <3>1, <3>2
  <2>4. Chunks(h, file, n, m)
    BY <2>3 DEF Chunks
  <2> HIDE DEF h
  <2> QED BY <2>4
<1> HIDE DEF T
<1>3. N \in T
  BY <1>1, <1>2, UpTo
<1> QED BY <1>3 DEF T

LEMMA TailPosition ==
    ASSUME NEW file, Len(file) \in Nat, NEW n
    PROVE  tailFile(file, n).pos \in 0 .. Len(file)
<1> DEFINE read == CHOOSE g : Chunks(g, file, n, Len(file))
<1>1. Chunks(read, file, n, Len(file))
  BY ChunksExist
<1>2. tailFile(file, n) = read[Len(file)]
  BY DEF tailFile, Chunks, ChunkStart, ChunkStep
<1> HIDE DEF read
<1>n. PICK N \in Nat : N = Len(file)
  OBVIOUS
<1> DEFINE T == {k \in 0 .. N : read[k].offset \in 0 .. N /\ read[k].pos \in 0 .. N}
<1>3. 0 \in T
  <2>1. read[0] = ChunkStart(file)
    BY <1>1, <1>n DEF Chunks
  <2> QED BY <2>1, <1>n DEF ChunkStart
<1>4. ASSUME NEW k \in 1 .. N, k - 1 \in T PROVE k \in T
  <2>1. read[k] = ChunkStep(file, n, read[k - 1])
    BY <1>1, <1>n DEF Chunks
  <2>2. PICK t : t = read[k - 1] /\ t.offset \in 0 .. N /\ t.pos \in 0 .. N
    BY <1>4
  <2>3. \/ read[k] = t
        \/ read[k].pos = t.offset /\ read[k].offset = IF t.offset < ChunkSize THEN 0 ELSE t.offset - ChunkSize
    BY <2>1, <2>2 DEF ChunkStep
  <2>4. ChunkSize \in Nat
    BY LogsAssumption
  <2>5. (IF t.offset < ChunkSize THEN 0 ELSE t.offset - ChunkSize) \in 0 .. N
    BY ONLY <2>2, <2>4, N \in Nat
  <2>6. read[k].offset \in 0 .. N /\ read[k].pos \in 0 .. N
    BY ONLY <2>2, <2>3, <2>5
  <2> QED BY <2>6
<1> HIDE DEF T
<1>5. N \in T
  BY <1>3, <1>4, UpTo
<1> QED BY <1>2, <1>5, <1>n DEF T

-----------------------------------------------------------------------------
\* Types.

ScanRecords == [pc : {"off", "scan", "stuck", "ended"}, buf : Seq(Lines)]
Loggers == [mu : Streams \cup {"free"}, size : 0 .. MaxSize, open : BOOLEAN]

PrintedOK ==
    /\ printed \in [Runs -> [Streams -> Seq(Lines)]]
    /\ \A r \in Runs, s \in Streams : Len(printed[r][s]) <= MaxLines
PipesOK ==
    /\ pipe \in [Runs -> [Streams -> Seq(Lines)]]
    /\ \A r \in Runs, s \in Streams : Len(pipe[r][s]) <= PipeCap
ReaderOK ==
    /\ DOMAIN reader = {"pc", "tail", "at", "pos", "got"}
    /\ reader.pc \in {"none", "follow"} /\ reader.pos \in 0 .. Len(log)

\* The types, with the domains LogTypeOK takes for granted.
LogShape ==
    /\ PrintedOK /\ PipesOK
    /\ scan \in [Runs -> [Streams -> ScanRecords]]
    /\ logger \in [Runs -> Loggers]
    /\ log \in Seq(Lines \cup {Newline})
    /\ ReaderOK

LEMMA ShapeIsType == LogShape => LogTypeOK
BY DEF LogShape, LogTypeOK, PrintedOK, PipesOK, ReaderOK, ScanRecords, Loggers

\* An assignment to the field of one stream.
LEMMA OneStream ==
    ASSUME NEW T, NEW f \in [Runs -> [Streams -> T]], NEW r \in Runs, NEW s \in Streams, NEW v \in T,
           NEW g, g = [f EXCEPT ![r][s] = v]
    PROVE  /\ g \in [Runs -> [Streams -> T]] /\ g[r][s] = v
           /\ \A q \in Runs, t \in Streams : ~(q = r /\ t = s) => g[q][t] = f[q][t]
OBVIOUS

\* A stream has not more lines than all have.
LEMMA PrintedBounds ==
    ASSUME PrintedOK, NEW r \in Runs, NEW s \in Streams, Printed < MaxLines
    PROVE  Len(printed[r][s]) < MaxLines
<1> DEFINE All == Runs \X Streams \X (1 .. MaxLines)
           P == {x \in All : x[3] \in DOMAIN printed[x[1]][x[2]]}
           f == [i \in 1 .. MaxLines |-> <<r, s, i>>]
<1>1. MaxLines \in Nat \ {0}
  BY LogsAssumption
<1>2. SUFFICES ASSUME Len(printed[r][s]) = MaxLines PROVE FALSE
  BY <1>1 DEF PrintedOK
<1>3. IsFiniteSet(1 .. MaxLines) /\ Cardinality(1 .. MaxLines) = MaxLines
  <2>1. IsFiniteSet(1 .. MaxLines) /\ Cardinality(1 .. MaxLines) = IF 1 > MaxLines THEN 0 ELSE MaxLines - 1 + 1
    BY <1>1, FS_Interval
  <2> QED BY <1>1, <2>1
<1>4. IsFiniteSet(P)
  <2> DEFINE Pairs == (Runs \X Streams) \X (1 .. MaxLines)
             h == [x \in P |-> <<<<x[1], x[2]>>, x[3]>>]
  <2>1. IsFiniteSet(Runs)
    BY AgentAssumption, FS_Interval DEF Runs
  <2>2. IsFiniteSet(Streams)
    <3>1. IsFiniteSet({}) /\ Streams = ({} \cup {"out"}) \cup {"err"}
      BY FS_EmptySet DEF Streams
    <3>2. IsFiniteSet({} \cup {"out"})
      BY <3>1, FS_AddElement
    <3> QED BY <3>1, <3>2, FS_AddElement
  <2>3. IsFiniteSet(Pairs)
    BY <1>3, <2>1, <2>2, FS_Product
  <2>4. \A x \in P : h[x] \in Pairs
    OBVIOUS
  <2>5. \A x, y \in P : h[x] = h[y] => x = y
    OBVIOUS
  <2>6. h \in Injection(P, Pairs)
    BY <2>4, <2>5 DEF Injection, IsInjective
  <2> HIDE DEF P, Pairs, h
  <2> QED BY <2>3, <2>6, FS_Injection
<1>5. f \in Injection(1 .. MaxLines, P)
  <2>1. \A i \in 1 .. MaxLines : f[i] \in P
    BY <1>2 DEF PrintedOK
  <2>2. \A i, j \in 1 .. MaxLines : f[i] = f[j] => i = j
    OBVIOUS
  <2> QED BY <2>1, <2>2 DEF Injection, IsInjective
<1>6. Printed = Cardinality(P)
  BY DEF Printed
<1> HIDE DEF P, f
<1>7. Cardinality(1 .. MaxLines) <= Cardinality(P) /\ Cardinality(P) \in Nat
  BY <1>4, <1>5, FS_Injection, FS_CardinalityType
<1> QED BY <1>1, <1>3, <1>6, <1>7

LEMMA InitShape == InitLogs => LogShape
<1> SUFFICES ASSUME InitLogs PROVE LogShape
  OBVIOUS
<1>1. PrintedOK /\ PipesOK /\ log \in Seq(Lines \cup {Newline}) /\ ReaderOK
  BY LogsAssumption DEF InitLogs, PrintedOK, PipesOK, ReaderOK
<1>2. scan \in [Runs -> [Streams -> ScanRecords]]
  BY DEF InitLogs, ScanRecords
<1>3. logger \in [Runs -> Loggers]
  <2>1. NewLogger \in Loggers
    BY LogsAssumption DEF NewLogger, Loggers
  <2>2. [NewLogger EXCEPT !.open = FALSE] \in Loggers
    BY <2>1 DEF Loggers
  <2> QED BY <2>2 DEF InitLogs
<1> QED BY <1>1, <1>2, <1>3 DEF LogShape

\* Printing a line.
LEMMA PrintsShape ==
    ASSUME LogShape, NEW r \in Runs, NEW s \in Streams, Prints(r, s)
    PROVE  LogShape'
<1>1. PrintedOK /\ PipesOK /\ MaxLines \in Nat /\ PipeCap \in Nat
  BY LogsAssumption DEF LogShape
<1>2. Len(printed[r][s]) < MaxLines /\ printed[r][s] \in Seq(Lines) /\ pipe[r][s] \in Seq(Lines)
  BY <1>1, PrintedBounds DEF Prints, PrintedOK, PipesOK
<1>3. PICK k \in Kinds : LET l == [run |-> r, stream |-> s, n |-> Len(printed[r][s]) + 1, kind |-> k] IN
           /\ printed' = [printed EXCEPT ![r][s] = Append(@, l)]
           /\ pipe' = [pipe EXCEPT ![r][s] = Append(@, l)]
  BY DEF Prints
<1> DEFINE m == [run |-> r, stream |-> s, n |-> Len(printed[r][s]) + 1, kind |-> k]
<1>4. m \in Lines
  BY <1>1, <1>2 DEF Lines
<1>5. /\ printed' = [printed EXCEPT ![r][s] = Append(printed[r][s], m)]
      /\ pipe' = [pipe EXCEPT ![r][s] = Append(pipe[r][s], m)]
  BY <1>3
<1> HIDE DEF m
<1>6. /\ Append(printed[r][s], m) \in Seq(Lines) /\ Len(Append(printed[r][s], m)) <= MaxLines
      /\ Append(pipe[r][s], m) \in Seq(Lines) /\ Len(Append(pipe[r][s], m)) <= PipeCap
  BY <1>1, <1>2, <1>4 DEF Prints
<1>7. PrintedOK'
  <2>1. /\ printed' \in [Runs -> [Streams -> Seq(Lines)]] /\ printed'[r][s] = Append(printed[r][s], m)
        /\ \A q \in Runs, t \in Streams : ~(q = r /\ t = s) => printed'[q][t] = printed[q][t]
    BY <1>1, <1>5, <1>6, OneStream DEF PrintedOK
  <2> QED BY <1>1, <1>6, <2>1 DEF PrintedOK
<1>8. PipesOK'
  <2>1. /\ pipe' \in [Runs -> [Streams -> Seq(Lines)]] /\ pipe'[r][s] = Append(pipe[r][s], m)
        /\ \A q \in Runs, t \in Streams : ~(q = r /\ t = s) => pipe'[q][t] = pipe[q][t]
    BY <1>1, <1>5, <1>6, OneStream DEF PipesOK
  <2> QED BY <1>1, <1>6, <2>1 DEF PipesOK
<1> QED BY <1>7, <1>8 DEF LogShape, Prints, ReaderOK

\* A scanner takes lines from its pipe.
LEMMA ReadsShape ==
    ASSUME LogShape, NEW r \in Runs, NEW s \in Streams, ScannerReads(r, s)
    PROVE  LogShape'
<1>1. PipesOK /\ PipeCap \in Nat /\ pipe[r][s] \in Seq(Lines) /\ scan[r][s] \in ScanRecords
  BY LogsAssumption DEF LogShape, PipesOK
<1>2. PICK k \in 1 .. Len(pipe[r][s]) :
         /\ scan' = [scan EXCEPT ![r][s].buf = SubSeq(pipe[r][s], 1, k)]
         /\ pipe' = [pipe EXCEPT ![r][s] = SubSeq(@, k + 1, Len(@))]
  BY DEF ScannerReads
<1>3. PICK a \in Seq(Lines) : a = SubSeq(pipe[r][s], 1, k)
  <2>1. SubSeq(pipe[r][s], 1, k) \in Seq(Lines)
    BY <1>1, SubSeqProperties
  <2> QED BY <2>1
<1>b. PICK b \in Seq(Lines) : b = SubSeq(pipe[r][s], k + 1, Len(pipe[r][s])) /\ Len(b) <= PipeCap
  <2>1. /\ SubSeq(pipe[r][s], k + 1, Len(pipe[r][s])) \in Seq(Lines)
        /\ Len(SubSeq(pipe[r][s], k + 1, Len(pipe[r][s]))) <= Len(pipe[r][s])
    BY <1>1, SubSeqProperties, LenProperties
  <2>2. Len(pipe[r][s]) <= PipeCap /\ Len(pipe[r][s]) \in Nat
    BY <1>1, LenProperties DEF PipesOK
  <2>3. Len(SubSeq(pipe[r][s], k + 1, Len(pipe[r][s]))) \in Nat
    BY <2>1, LenProperties
  <2>4. Len(SubSeq(pipe[r][s], k + 1, Len(pipe[r][s]))) <= PipeCap
    BY <1>1, <2>1, <2>2, <2>3
  <2> QED BY <2>1, <2>4
<1>4. PICK n \in ScanRecords : n = [scan[r][s] EXCEPT !.buf = a]
  <2>1. [scan[r][s] EXCEPT !.buf = a] \in ScanRecords
    BY <1>1 DEF ScanRecords
  <2> QED BY <2>1
<1>5. scan' = [scan EXCEPT ![r][s] = n] /\ pipe' = [pipe EXCEPT ![r][s] = b]
  BY <1>2, <1>3, <1>b, <1>4
<1>6. PipesOK'
  <2>1. /\ pipe' \in [Runs -> [Streams -> Seq(Lines)]] /\ pipe'[r][s] = b
        /\ \A q \in Runs, t \in Streams : ~(q = r /\ t = s) => pipe'[q][t] = pipe[q][t]
    BY <1>1, <1>5, OneStream DEF PipesOK
  <2> QED BY <1>1, <1>b, <2>1 DEF PipesOK
<1>7. scan' \in [Runs -> [Streams -> ScanRecords]]
  BY <1>5, OneStream DEF LogShape
<1> QED BY <1>6, <1>7 DEF LogShape, ScannerReads, PrintedOK, ReaderOK

\* A scanner hands a line to the logger, or stops.
LEMMA WritesShape ==
    ASSUME LogShape, NEW r \in Runs, NEW s \in Streams, Write(r, s) \/ WriteRotates(r, s) \/ Close(r, s)
    PROVE  LogShape'
<1>1. scan[r][s] \in ScanRecords /\ logger[r] \in Loggers /\ MaxSize \in Nat /\ scan[r][s].buf \in Seq(Lines)
  BY LogsAssumption DEF LogShape, ScanRecords
<1>2. scan[r][s].buf # <<>>
  BY DEF Write, WriteRotates, Close, NextIs
<1>3. PICK l \in Lines, rest \in Seq(Lines) : l = Head(scan[r][s].buf) /\ rest = Tail(scan[r][s].buf)
  BY <1>1, <1>2, HeadTailProperties
<1>4. \E n \in ScanRecords : scan' = [scan EXCEPT ![r][s] = n]
  <2>1. CASE Write(r, s)
    <3>1. [scan[r][s] EXCEPT !.buf = rest] \in ScanRecords
      BY <1>1 DEF ScanRecords
    <3>2. scan' = [scan EXCEPT ![r][s] = [scan[r][s] EXCEPT !.buf = rest]]
      BY <1>3, <2>1 DEF Write
    <3> QED BY <3>1, <3>2
  <2>2. CASE WriteRotates(r, s)
    <3>1. [scan[r][s] EXCEPT !.pc = "stuck"] \in ScanRecords
      BY <1>1 DEF ScanRecords
    <3>2. scan' = [scan EXCEPT ![r][s] = [scan[r][s] EXCEPT !.pc = "stuck"]]
      BY <2>2 DEF WriteRotates
    <3> QED BY <3>1, <3>2
  <2>3. CASE Close(r, s)
    <3>1. [pc |-> "ended", buf |-> <<>>] \in ScanRecords
      BY DEF ScanRecords
    <3>2. scan' = [scan EXCEPT ![r][s] = [pc |-> "ended", buf |-> <<>>]]
      BY <2>3 DEF Close
    <3> QED BY <3>1, <3>2
  <2> QED BY <2>1, <2>2, <2>3
<1>5. scan' \in [Runs -> [Streams -> ScanRecords]]
  BY <1>4, OneStream DEF LogShape
<1>6. logger' \in [Runs -> Loggers]
  <2>1. \E n \in Loggers : logger' = [logger EXCEPT ![r] = n]
    <3>1. CASE Write(r, s)
      <4>1. logger' = [logger EXCEPT ![r] = [logger[r] EXCEPT !.size = IF logger[r].open THEN @ + 1 ELSE @]]
        BY <3>1 DEF Write
      <4>2. [logger[r] EXCEPT !.size = IF logger[r].open THEN @ + 1 ELSE @] \in Loggers
        <5>1. logger[r].size \in 0 .. MaxSize /\ logger[r].size + 1 <= MaxSize
          BY <1>1, <3>1 DEF Write, Loggers
        <5>2. (IF logger[r].open THEN logger[r].size + 1 ELSE logger[r].size) \in 0 .. MaxSize
          BY <1>1, <5>1
        <5> QED BY <1>1, <5>2 DEF Loggers
      <4> QED BY <4>1, <4>2
    <3>2. CASE WriteRotates(r, s)
      <4>1. logger' = [logger EXCEPT ![r] = [logger[r] EXCEPT !.mu = s]]
        BY <3>2 DEF WriteRotates
      <4>2. [logger[r] EXCEPT !.mu = s] \in Loggers
        BY <1>1 DEF Loggers
      <4> QED BY <4>1, <4>2
    <3>3. CASE Close(r, s)
      <4>1. logger' = [logger EXCEPT ![r] = [logger[r] EXCEPT !.open = FALSE, !.size = 0]]
        BY <3>3 DEF Close, LogShape
      <4>2. [logger[r] EXCEPT !.open = FALSE, !.size = 0] \in Loggers
        <5>1. 0 \in 0 .. MaxSize
          BY <1>1
        <5> QED BY <1>1, <5>1 DEF Loggers
      <4> QED BY <4>1, <4>2
    <3> QED BY <3>1, <3>2, <3>3
  <2> QED BY <2>1 DEF LogShape
<1>7. log' = log \/ log' = log \o <<l, Newline>>
  BY <1>3 DEF Write, WriteRotates, Close
<1>8. log' \in Seq(Lines \cup {Newline}) /\ Len(log) <= Len(log') /\ Len(log) \in Nat /\ Len(log') \in Nat
  <2>1. log \in Seq(Lines \cup {Newline}) /\ <<l, Newline>> \in Seq(Lines \cup {Newline})
    BY DEF LogShape
  <2>2. Len(log) \in Nat /\ Len(<<l, Newline>>) = 2
    BY <2>1, LenProperties
  <2>3. log \o <<l, Newline>> \in Seq(Lines \cup {Newline}) /\ Len(log \o <<l, Newline>>) = Len(log) + 2
    BY <2>1, <2>2, ConcatProperties
  <2>4. PICK longer \in Seq(Lines \cup {Newline}) : longer = log \o <<l, Newline>> /\ Len(longer) = Len(log) + 2
    BY <2>3
  <2>5. log' = log \/ log' = longer
    BY <1>7, <2>4
  <2>6. Len(log) <= Len(longer) /\ Len(longer) \in Nat
    BY ONLY <2>2, <2>4
  <2> QED BY ONLY <2>1, <2>2, <2>5, <2>6
<1>9. UNCHANGED <<printed, pipe, reader>>
  BY DEF Write, WriteRotates, Close
<1> QED BY <1>5, <1>6, <1>8, <1>9 DEF LogShape, PrintedOK, PipesOK, ReaderOK

\* The clients of /logs.
LEMMA ReaderShape ==
    ASSUME LogShape, (\E n \in 0 .. MaxTail : handleLogs(n)) \/ followTick
    PROVE  LogShape'
<1>1. UNCHANGED <<printed, pipe, scan, logger, log>>
  BY DEF handleLogs, followTick
<1>2. Len(log) \in Nat
  BY DEF LogShape
<1>3. ReaderOK'
  <2>1. CASE followTick
    BY <1>1, <1>2, <2>1 DEF followTick, LogShape, ReaderOK
  <2>2. ASSUME NEW n \in 0 .. MaxTail, handleLogs(n) PROVE ReaderOK'
    <3>1. \E p, got : /\ reader' = [pc |-> "follow", tail |-> n, at |-> Len(log), pos |-> p, got |-> got]
                      /\ p = Len(log) \/ p = tailFile(log, n).pos
      BY <2>2 DEF handleLogs
    <3>2. tailFile(log, n).pos \in 0 .. Len(log)
      BY <1>2, TailPosition
    <3> QED BY <1>1, <1>2, <3>1, <3>2 DEF ReaderOK
  <2> QED BY <2>1, <2>2
<1> QED BY <1>1, <1>3 DEF LogShape, PrintedOK, PipesOK

LEMMA NextShape == LogShape /\ [NextLogs]_allVars => LogShape'
<1> SUFFICES ASSUME LogShape, [NextLogs]_allVars PROVE LogShape'
  OBVIOUS
<1>1. CASE UNCHANGED logVars
  BY <1>1 DEF logVars, LogShape, PrintedOK, PipesOK, ReaderOK
<1>2. ASSUME NEW r \in Runs, SetupLogging(r) PROVE LogShape'
  <2>1. logger' \in [Runs -> Loggers]
    BY <1>2, LogsAssumption DEF SetupLogging, NewLogger, Loggers, LogShape
  <2>2. scan' \in [Runs -> [Streams -> ScanRecords]]
    BY <1>2 DEF SetupLogging, ScanRecords, LogShape
  <2>3. UNCHANGED <<printed, pipe, log, reader>>
    BY <1>2 DEF SetupLogging
  <2> QED BY <2>1, <2>2, <2>3 DEF LogShape, PrintedOK, PipesOK, ReaderOK
<1>3. ASSUME NEW r \in Runs, NEW s \in Streams, Prints(r, s) \/ StreamWithTimestamp(r, s) PROVE LogShape'
  BY <1>3, PrintsShape, ReadsShape, WritesShape DEF StreamWithTimestamp
<1> QED BY <1>1, <1>2, <1>3, ReaderShape DEF NextLogs, AgentStep, allVars

\* The output's state stays well typed: no pipe holds more than it can, the log has lines
\* and newlines, and a client of /logs is never past the end of the file (logging.go,
\* handleLogs, tailFile).
THEOREM LogTypeCorrect == LogSpec => []LogTypeOK
<1>1. LogSpec => []LogShape
  BY InitShape, NextShape, PTL DEF LogSpec
<1> QED BY <1>1, ShapeIsType, PTL

-----------------------------------------------------------------------------
\* The lines of a stream, from the command to the log.

\* The lines of a stream that its scanner is done with: neither in its buffer nor in the pipe.
Done(r, s) == Len(printed[r][s]) - Len(pipe[r][s]) - Len(scan[r][s].buf)

\* A stream's lines are numbered as they were printed; what the pipe and the buffer hold is
\* the end of them.
Flows(r, s) ==
    /\ Done(r, s) \in Nat
    /\ \A i \in 1 .. Len(printed[r][s]) :
         printed[r][s][i].run = r /\ printed[r][s][i].stream = s /\ printed[r][s][i].n = i
    /\ \A i \in 1 .. Len(scan[r][s].buf) : scan[r][s].buf[i] = printed[r][s][Done(r, s) + i]
    /\ \A i \in 1 .. Len(pipe[r][s]) :
         pipe[r][s][i] = printed[r][s][Done(r, s) + Len(scan[r][s].buf) + i]

\* The log has of a stream lines the scanner is done with, in order, and all of them while
\* the logger works.
Logged(r, s) ==
    /\ \A i, j \in LoggedAt(r, s) : i < j => log[i].n < log[j].n
    /\ \A i \in LoggedAt(r, s) : log[i].n \in 1 .. Done(r, s) /\ log[i] = printed[r][s][log[i].n]
    /\ Unstuck(r) => \A m \in 1 .. Done(r, s) : \E i \in LoggedAt(r, s) : log[i].n = m

\* A command prints only once its logging is set up, which happens once.
SetUp(r, s) ==
    /\ run[r] \in {"none", "sent", "checked"} => scan[r][s].pc = "off"
    /\ proc[r].p # "none" \/ cmd = r => scan[r][s].pc # "off"
    /\ scan[r][s].pc = "off" => printed[r][s] = <<>>
    /\ scan[r][s].pc = "scan" /\ Unstuck(r) => logger[r].open

LogIInv == LogShape /\ \A r \in Runs, s \in Streams : Flows(r, s) /\ Logged(r, s) /\ SetUp(r, s)

\* What the shape says of one stream.
LEMMA StreamShape ==
    ASSUME LogShape, NEW r \in Runs, NEW s \in Streams
    PROVE  /\ printed[r][s] \in Seq(Lines) /\ pipe[r][s] \in Seq(Lines) /\ scan[r][s].buf \in Seq(Lines)
           /\ Len(printed[r][s]) \in Nat /\ Len(pipe[r][s]) \in Nat /\ Len(scan[r][s].buf) \in Nat
           /\ Done(r, s) \in Int /\ log \in Seq(Lines \cup {Newline}) /\ Len(log) \in Nat
           /\ scan[r][s] \in ScanRecords
BY DEF LogShape, PrintedOK, PipesOK, ScanRecords, Done

LEMMA InvGivesOrder == LogIInv => StreamsInOrder
<1> SUFFICES ASSUME LogIInv, NEW r \in Runs, NEW s \in Streams
             PROVE  LET logged == LoggedAt(r, s) IN
                      /\ \A i, j \in logged : i < j => log[i].n < log[j].n
                      /\ \A i \in logged : /\ log[i].n \in DOMAIN printed[r][s]
                                           /\ log[i] = printed[r][s][log[i].n]
                      /\ Unstuck(r) => \A i \in logged : \A m \in 1 .. log[i].n : \E j \in logged : log[j].n = m
  BY DEF StreamsInOrder
<1>1. Flows(r, s) /\ Logged(r, s) /\ LogShape
  BY DEF LogIInv
<1>2. PICK d \in Nat : d = Done(r, s)
  BY <1>1 DEF Flows
<1>3. printed[r][s] \in Seq(Lines) /\ d <= Len(printed[r][s]) /\ Len(printed[r][s]) \in Nat
  <2>1. /\ printed[r][s] \in Seq(Lines) /\ Len(printed[r][s]) \in Nat
        /\ Len(pipe[r][s]) \in Nat /\ Len(scan[r][s].buf) \in Nat
    BY <1>1, StreamShape
  <2>2. d = Len(printed[r][s]) - Len(pipe[r][s]) - Len(scan[r][s].buf)
    BY <1>2 DEF Done
  <2>3. PICK a, b, c \in Nat : a = Len(printed[r][s]) /\ b = Len(pipe[r][s]) /\ c = Len(scan[r][s].buf)
    BY <2>1
  <2>4. d = a - b - c
    BY <2>2, <2>3
  <2>5. d <= a
    BY ONLY <2>4, a \in Nat, b \in Nat, c \in Nat
  <2> QED BY <2>1, <2>3, <2>5
<1>4. \A i \in LoggedAt(r, s) : log[i].n \in 1 .. d /\ log[i] = printed[r][s][log[i].n]
  BY <1>1, <1>2 DEF Logged
<1>5. \A i, j \in LoggedAt(r, s) : i < j => log[i].n < log[j].n
  BY <1>1 DEF Logged
<1>6. Unstuck(r) => \A m \in 1 .. d : \E i \in LoggedAt(r, s) : log[i].n = m
  BY <1>1, <1>2 DEF Logged
<1> HIDE DEF LogIInv
<1>7. \A i \in LoggedAt(r, s) : log[i].n \in DOMAIN printed[r][s] /\ log[i] = printed[r][s][log[i].n]
  BY <1>3, <1>4
<1>8. \A i \in LoggedAt(r, s) : \A m \in 1 .. log[i].n : m \in 1 .. d
  BY <1>4
<1> QED BY <1>5, <1>6, <1>7, <1>8, Zenon

LEMMA InitLogIInv == InitLogs => LogIInv
<1> SUFFICES ASSUME InitLogs PROVE LogIInv
  OBVIOUS
<1>1. LogShape
  BY InitShape
<1>2. ASSUME NEW r \in Runs, NEW s \in Streams PROVE Flows(r, s) /\ Logged(r, s) /\ SetUp(r, s)
  <2>1. printed[r][s] = <<>> /\ pipe[r][s] = <<>> /\ scan[r][s] = [pc |-> "off", buf |-> <<>>] /\ log = <<>>
    BY DEF InitLogs
  <2>2. Done(r, s) = 0
    <3>1. Len(printed[r][s]) = 0 /\ Len(pipe[r][s]) = 0 /\ Len(scan[r][s].buf) = 0
      BY <2>1
    <3> QED BY ONLY <3>1 DEF Done
  <2>e. LoggedAt(r, s) = {}
    BY <2>1 DEF LoggedAt
  <2>3. Flows(r, s)
    BY <2>1, <2>2 DEF Flows
  <2>4. Logged(r, s)
    BY <2>2, <2>e DEF Logged
  <2>5. SetUp(r, s)
    <3>1. proc[r].p = "none" /\ cmd # r
      BY DEF InitLogs, Init, NoProcess, Runs
    <3> QED BY <2>1, <3>1 DEF SetUp
  <2> QED BY <2>3, <2>4, <2>5
<1> QED BY <1>1, <1>2 DEF LogIInv

\* What is appended for a stream: its lines are where they were, and the new one.
LEMMA AppendedAt ==
    ASSUME LogShape, NEW l \in Lines, log' = log \o <<l, Newline>>
    PROVE  /\ Len(log') = Len(log) + 2 /\ log'[Len(log) + 1] = l
           /\ \A i \in DOMAIN log : log'[i] = log[i]
           /\ \A q \in Runs, t \in Streams :
                LoggedAt(q, t)' = LoggedAt(q, t) \cup (IF l.run = q /\ l.stream = t THEN {Len(log) + 1} ELSE {})
<1>1. log \in Seq(Lines \cup {Newline}) /\ <<l, Newline>> \in Seq(Lines \cup {Newline}) /\ Len(log) \in Nat
  BY DEF LogShape
<1>2. PICK more \in Seq(Lines \cup {Newline}) : more = <<l, Newline>> /\ Len(more) = 2 /\ more[1] = l /\ more[2] = Newline
  BY <1>1
<1>3. /\ log' \in Seq(Lines \cup {Newline}) /\ Len(log') = Len(log) + 2
      /\ \A i \in 1 .. Len(log) + 2 : log'[i] = IF i <= Len(log) THEN log[i] ELSE more[i - Len(log)]
  <2>1. /\ log \o more \in Seq(Lines \cup {Newline}) /\ Len(log \o more) = Len(log) + Len(more)
        /\ \A i \in 1 .. Len(log) + Len(more) : (log \o more)[i] = IF i <= Len(log) THEN log[i] ELSE more[i - Len(log)]
    BY <1>1, ConcatProperties
  <2>2. log' = log \o more
    BY <1>2
  <2> QED BY <1>2, <2>1, <2>2, Zenon
<1>4. DOMAIN log = 1 .. Len(log) /\ DOMAIN log' = 1 .. Len(log) + 2
  BY <1>1, <1>3, LenProperties
<1>5. \A i \in DOMAIN log : log'[i] = log[i]
  BY <1>1, <1>3, <1>4
<1>6. log'[Len(log) + 1] = l /\ log'[Len(log) + 2] = Newline
  BY <1>1, <1>2, <1>3
<1>7. DOMAIN log' = DOMAIN log \cup {Len(log) + 1, Len(log) + 2}
  <2>1. PICK n \in Nat : n = Len(log)
    BY <1>1
  <2>2. 1 .. n + 2 = (1 .. n) \cup {n + 1, n + 2}
    BY ONLY n \in Nat
  <2> QED BY ONLY <1>4, <2>1, <2>2
<1>8. l # Newline
  BY NewlineAssumption
<1>9. ASSUME NEW q \in Runs, NEW t \in Streams
      PROVE  LoggedAt(q, t)' = LoggedAt(q, t) \cup (IF l.run = q /\ l.stream = t THEN {Len(log) + 1} ELSE {})
  BY ONLY <1>5, <1>6, <1>7, <1>8 DEF LoggedAt
<1> QED BY <1>3, <1>5, <1>6, <1>9

\* A step of one stream: the others keep what they have.
LEMMA OthersKeep ==
    ASSUME LogIInv, LogShape', NEW r \in Runs, NEW s \in Streams,
           UNCHANGED <<run, proc, cmd>>,
           \A q \in Runs, t \in Streams : ~(q = r /\ t = s) =>
              printed'[q][t] = printed[q][t] /\ pipe'[q][t] = pipe[q][t] /\ scan'[q][t] = scan[q][t],
           log' = log \/ \E l \in Lines : l.run = r /\ l.stream = s /\ log' = log \o <<l, Newline>>,
           \A q \in Runs : Unstuck(q)' => Unstuck(q) /\ (logger[q].open => logger'[q].open),
           Flows(r, s)', Logged(r, s)', SetUp(r, s)'
    PROVE  LogIInv'
<1> SUFFICES ASSUME NEW q \in Runs, NEW t \in Streams, ~(q = r /\ t = s)
             PROVE  Flows(q, t)' /\ Logged(q, t)' /\ SetUp(q, t)'
  BY DEF LogIInv
<1>1. printed'[q][t] = printed[q][t] /\ pipe'[q][t] = pipe[q][t] /\ scan'[q][t] = scan[q][t]
  OBVIOUS
<1>2. LogShape /\ Flows(q, t) /\ Logged(q, t) /\ SetUp(q, t)
  BY DEF LogIInv
<1>3. Done(q, t)' = Done(q, t)
  BY <1>1 DEF Done
<1>4. Flows(q, t)'
  BY ONLY <1>1, <1>2, <1>3 DEF Flows
<1>5. LoggedAt(q, t)' = LoggedAt(q, t) /\ \A i \in LoggedAt(q, t) : log'[i] = log[i]
  <2>1. CASE log' = log
    BY <2>1 DEF LoggedAt
  <2>2. CASE log' # log
    <3>1. PICK l \in Lines : l.run = r /\ l.stream = s /\ log' = log \o <<l, Newline>>
      BY <2>2
    <3>2. /\ \A i \in DOMAIN log : log'[i] = log[i]
          /\ \A p \in Runs, u \in Streams :
               LoggedAt(p, u)' = LoggedAt(p, u) \cup (IF l.run = p /\ l.stream = u THEN {Len(log) + 1} ELSE {})
      BY <1>2, <3>1, AppendedAt, Zenon
    <3>3. LoggedAt(q, t)' = LoggedAt(q, t) \cup (IF l.run = q /\ l.stream = t THEN {Len(log) + 1} ELSE {})
      BY <3>2
    <3>4. LoggedAt(q, t)' = LoggedAt(q, t)
      BY <3>1, <3>3
    <3> QED BY <3>2, <3>4 DEF LoggedAt
  <2> QED BY <2>1, <2>2
<1>6. Unstuck(q)' => Unstuck(q) /\ (logger[q].open => logger'[q].open)
  OBVIOUS
<1>7. Logged(q, t)'
  BY ONLY <1>1, <1>2, <1>3, <1>5, <1>6 DEF Logged
<1>8. SetUp(q, t)'
  <2>1. run'[q] = run[q] /\ proc'[q] = proc[q] /\ cmd' = cmd
    OBVIOUS
  <2> QED BY ONLY <1>1, <1>2, <1>6, <2>1 DEF SetUp
<1> QED BY <1>4, <1>7, <1>8

\* A line is printed: one more in the pipe.
LEMMA PrintsKeeps ==
    ASSUME LogIInv, NEW r \in Runs, NEW s \in Streams, Prints(r, s)
    PROVE  LogIInv'
<1>1. LogShape /\ Flows(r, s) /\ Logged(r, s) /\ SetUp(r, s)
  BY DEF LogIInv
<1>2. LogShape'
  BY <1>1, PrintsShape
<1>3. PICK k \in Kinds : LET l == [run |-> r, stream |-> s, n |-> Len(printed[r][s]) + 1, kind |-> k] IN
           /\ printed' = [printed EXCEPT ![r][s] = Append(@, l)]
           /\ pipe' = [pipe EXCEPT ![r][s] = Append(@, l)]
  BY DEF Prints
<1> DEFINE m == [run |-> r, stream |-> s, n |-> Len(printed[r][s]) + 1, kind |-> k]
<1>4. m.run = r /\ m.stream = s /\ m.n = Len(printed[r][s]) + 1
  OBVIOUS
<1>5. m \in Lines
  <2>1. Len(printed[r][s]) < MaxLines /\ MaxLines \in Nat /\ Len(printed[r][s]) \in Nat
    BY <1>1, PrintedBounds, StreamShape, LogsAssumption DEF Prints, LogShape
  <2> QED BY <2>1 DEF Lines
<1>6. /\ printed' = [printed EXCEPT ![r][s] = Append(printed[r][s], m)]
      /\ pipe' = [pipe EXCEPT ![r][s] = Append(pipe[r][s], m)]
      /\ UNCHANGED <<run, proc, cmd, scan, logger, log>>
  BY <1>3 DEF Prints, vars
<1> HIDE DEF m
<1>7. PICK P, Q, B \in Seq(Lines) : P = printed[r][s] /\ Q = pipe[r][s] /\ B = scan[r][s].buf
  BY <1>1, StreamShape
<1>8. /\ printed'[r][s] = Append(P, m) /\ pipe'[r][s] = Append(Q, m) /\ scan'[r][s] = scan[r][s]
      /\ \A q \in Runs, t \in Streams : ~(q = r /\ t = s) => printed'[q][t] = printed[q][t] /\ pipe'[q][t] = pipe[q][t]
  BY <1>1, <1>6, <1>7 DEF LogShape, PrintedOK, PipesOK
<1>9. PICK p, q, b \in Nat : p = Len(P) /\ q = Len(Q) /\ b = Len(B)
  BY LenProperties
<1>10. PICK PP, QQ \in Seq(Lines) :
          /\ PP = Append(P, m) /\ QQ = Append(Q, m) /\ Len(PP) = p + 1 /\ Len(QQ) = q + 1
          /\ \A i \in 1 .. p : PP[i] = P[i]
          /\ \A i \in 1 .. q : QQ[i] = Q[i]
          /\ PP[p + 1] = m /\ QQ[q + 1] = m
  <2>1. /\ Append(P, m) \in Seq(Lines) /\ Len(Append(P, m)) = Len(P) + 1
        /\ \A i \in 1 .. Len(P) : Append(P, m)[i] = P[i]
        /\ Append(P, m)[Len(P) + 1] = m
    BY <1>5, AppendProperties
  <2>2. /\ Append(Q, m) \in Seq(Lines) /\ Len(Append(Q, m)) = Len(Q) + 1
        /\ \A i \in 1 .. Len(Q) : Append(Q, m)[i] = Q[i]
        /\ Append(Q, m)[Len(Q) + 1] = m
    BY <1>5, AppendProperties
  <2> QED BY <1>9, <2>1, <2>2, Zenon
<1>11. printed'[r][s] = PP /\ pipe'[r][s] = QQ /\ scan'[r][s].buf = B
  BY <1>7, <1>8, <1>10
<1>12. Done(r, s) = p - q - b /\ Done(r, s)' = (p + 1) - (q + 1) - b
  BY ONLY <1>7, <1>9, <1>10, <1>11 DEF Done
<1>15. PICK d \in Nat : d = Done(r, s) /\ d = Done(r, s)' /\ d = p - q - b
  <2>1. Done(r, s) \in Nat
    BY <1>1 DEF Flows
  <2>2. (p + 1) - (q + 1) - b = p - q - b
    BY ONLY p \in Nat, q \in Nat, b \in Nat
  <2> QED BY ONLY <1>12, <2>1, <2>2
<1>16. /\ \A i \in 1 .. p : P[i].run = r /\ P[i].stream = s /\ P[i].n = i
       /\ \A i \in 1 .. b : B[i] = P[d + i]
       /\ \A i \in 1 .. q : Q[i] = P[d + b + i]
  BY ONLY <1>1, <1>7, <1>9, <1>15 DEF Flows
<1>17. Flows(r, s)'
  <2>1. \A i \in 1 .. p + 1 : PP[i].run = r /\ PP[i].stream = s /\ PP[i].n = i
    <3>1. \A i \in 1 .. p + 1 : i \in 1 .. p \/ i = p + 1
      BY ONLY p \in Nat
    <3>2. m.run = r /\ m.stream = s /\ m.n = p + 1
      BY <1>4, <1>7, <1>9
    <3> QED BY ONLY <1>10, <1>16, <3>1, <3>2
  <2>2. \A i \in 1 .. b : B[i] = PP[d + i]
    <3>1. \A i \in 1 .. b : d + i \in 1 .. p
      BY ONLY <1>15, p \in Nat, q \in Nat, b \in Nat, d \in Nat
    <3> QED BY ONLY <1>10, <1>16, <3>1
  <2>3. \A i \in 1 .. q + 1 : QQ[i] = PP[d + b + i]
    <3>1. \A i \in 1 .. q + 1 : (i \in 1 .. q /\ d + b + i \in 1 .. p) \/ (i = q + 1 /\ d + b + i = p + 1)
      BY ONLY <1>15, p \in Nat, q \in Nat, b \in Nat, d \in Nat
    <3> QED BY ONLY <1>10, <1>16, <3>1
  <2>4. Len(PP) = p + 1 /\ Len(QQ) = q + 1 /\ Len(B) = b
    BY <1>9, <1>10
  <2> QED BY ONLY <1>11, <1>15, <2>1, <2>2, <2>3, <2>4 DEF Flows
<1>18. Logged(r, s)'
  <2>1. log' = log /\ LoggedAt(r, s)' = LoggedAt(r, s) /\ (Unstuck(r)' <=> Unstuck(r))
    BY <1>6 DEF LoggedAt, Unstuck
  <2>2. \A n \in 1 .. d : printed'[r][s][n] = printed[r][s][n]
    <3>1. \A n \in 1 .. d : n \in 1 .. p
      BY ONLY <1>15, p \in Nat, q \in Nat, b \in Nat, d \in Nat
    <3> QED BY ONLY <1>7, <1>10, <1>11, <3>1
  <2>3. Done(r, s) = d /\ Done(r, s)' = d
    BY <1>15
  <2> QED BY ONLY <1>1, <2>1, <2>2, <2>3 DEF Logged
<1>13. SetUp(r, s)'
  <2>1. scan[r][s].pc # "off"
    BY <1>1 DEF SetUp, Prints
  <2> QED BY <1>1, <1>6, <2>1 DEF SetUp, Unstuck
<1>14. \A x \in Runs : Unstuck(x)' => Unstuck(x) /\ (logger[x].open => logger'[x].open)
  BY <1>6 DEF Unstuck
<1> QED BY <1>2, <1>6, <1>8, <1>13, <1>14, <1>17, <1>18, OthersKeep

\* The scanner takes lines from the pipe to its buffer.
LEMMA ReadsKeeps ==
    ASSUME LogIInv, NEW r \in Runs, NEW s \in Streams, ScannerReads(r, s)
    PROVE  LogIInv'
<1>1. LogShape /\ Flows(r, s) /\ Logged(r, s) /\ SetUp(r, s)
  BY DEF LogIInv
<1>2. LogShape'
  BY <1>1, ReadsShape
<1>3. UNCHANGED <<run, proc, cmd, printed, logger, log>> /\ scan[r][s].buf = <<>>
  BY DEF ScannerReads, vars
<1>4. PICK k \in 1 .. Len(pipe[r][s]) :
         /\ scan' = [scan EXCEPT ![r][s].buf = SubSeq(pipe[r][s], 1, k)]
         /\ pipe' = [pipe EXCEPT ![r][s] = SubSeq(@, k + 1, Len(@))]
  BY DEF ScannerReads
<1>5. PICK P, Q \in Seq(Lines) : P = printed[r][s] /\ Q = pipe[r][s]
  BY <1>1, StreamShape
<1>6. PICK p, q \in Nat : p = Len(P) /\ q = Len(Q)
  BY LenProperties
<1>7. PICK A : A = SubSeq(Q, 1, k) /\ Len(A) = k /\ \A i \in 1 .. k : A[i] = Q[i]
  <2>1. k \in Nat /\ k <= q /\ 1 <= k
    BY <1>5, <1>6
  <2>2. \A i \in 1 .. k : Q[i] \in Lines
    BY <1>6, <2>1, ElementOfSeq
  <2>3. /\ Len(SubSeq(Q, 1, k)) = IF 1 <= k THEN k - 1 + 1 ELSE 0
        /\ \A i \in 1 .. k - 1 + 1 : SubSeq(Q, 1, k)[i] = Q[1 + i - 1]
    BY <2>1, <2>2, SubSeqProperties
  <2>4. k - 1 + 1 = k /\ \A i \in 1 .. k : 1 + i - 1 = i
    BY ONLY <2>1
  <2>5. Len(SubSeq(Q, 1, k)) = k
    BY ONLY <2>1, <2>3, <2>4
  <2>6. \A i \in 1 .. k : SubSeq(Q, 1, k)[i] = Q[i]
    BY ONLY <2>3, <2>4
  <2> QED BY ONLY <2>5, <2>6
<1>8. PICK C : C = SubSeq(Q, k + 1, q) /\ Len(C) = q - k /\ \A i \in 1 .. q - k : C[i] = Q[k + i]
  <2>1. k \in Nat /\ k <= q /\ 1 <= k
    BY <1>5, <1>6
  <2>2. \A i \in k + 1 .. q : Q[i] \in Lines
    BY <1>6, <2>1, ElementOfSeq
  <2>3. /\ Len(SubSeq(Q, k + 1, q)) = IF k + 1 <= q THEN q - (k + 1) + 1 ELSE 0
        /\ \A i \in 1 .. q - (k + 1) + 1 : SubSeq(Q, k + 1, q)[i] = Q[k + 1 + i - 1]
    BY <2>1, <2>2, SubSeqProperties
  <2>4. q - (k + 1) + 1 = q - k /\ (~(k + 1 <= q) => q - k = 0) /\ \A i \in 1 .. q - k : k + 1 + i - 1 = k + i
    BY ONLY <2>1, q \in Nat
  <2>5. Len(SubSeq(Q, k + 1, q)) = q - k
    BY ONLY <2>3, <2>4
  <2>6. \A i \in 1 .. q - k : SubSeq(Q, k + 1, q)[i] = Q[k + i]
    BY ONLY <2>3, <2>4
  <2> QED BY ONLY <2>5, <2>6
<1>9. printed'[r][s] = P /\ pipe'[r][s] = C /\ scan'[r][s] = [scan[r][s] EXCEPT !.buf = A]
  BY <1>1, <1>3, <1>4, <1>5, <1>6, <1>7, <1>8 DEF LogShape, PipesOK
<1>10. scan'[r][s].buf = A /\ scan'[r][s].pc = scan[r][s].pc
  BY <1>1, <1>9, StreamShape DEF ScanRecords
<1>11. \A u \in Runs, t \in Streams : ~(u = r /\ t = s) =>
          printed'[u][t] = printed[u][t] /\ pipe'[u][t] = pipe[u][t] /\ scan'[u][t] = scan[u][t]
  BY <1>1, <1>3, <1>4 DEF LogShape, PipesOK
<1>12. PICK d \in Nat : d = Done(r, s) /\ d = Done(r, s)' /\ d = p - q
  <2>1. Done(r, s) = p - q - 0 /\ Done(r, s)' = p - (q - k) - k
    <3>1. Len(scan[r][s].buf) = 0
      BY <1>3
    <3> QED BY ONLY <1>5, <1>6, <1>7, <1>8, <1>9, <1>10, <3>1 DEF Done
  <2>2. p - (q - k) - k = p - q /\ p - q - 0 = p - q
    BY <1>5, <1>6
  <2>3. Done(r, s) \in Nat
    BY <1>1 DEF Flows
  <2> QED BY ONLY <2>1, <2>2, <2>3
<1>13. /\ \A i \in 1 .. p : P[i].run = r /\ P[i].stream = s /\ P[i].n = i
       /\ \A i \in 1 .. q : Q[i] = P[d + i]
  <2>1. Len(scan[r][s].buf) = 0
    BY <1>3
  <2>2. \A i \in 1 .. q : Q[i] = P[d + 0 + i]
    BY ONLY <1>1, <1>5, <1>6, <1>12, <2>1 DEF Flows
  <2>3. \A i \in 1 .. q : d + 0 + i = d + i
    OBVIOUS
  <2>4. \A i \in 1 .. p : P[i].run = r /\ P[i].stream = s /\ P[i].n = i
    BY ONLY <1>1, <1>5, <1>6 DEF Flows
  <2> QED BY ONLY <2>2, <2>3, <2>4
<1>14. Flows(r, s)'
  <2>1. k \in Nat /\ k <= q
    BY <1>5, <1>6
  <2>2. \A i \in 1 .. k : A[i] = P[d + i]
    <3>1. \A i \in 1 .. k : i \in 1 .. q
      BY <2>1
    <3> QED BY ONLY <1>7, <1>13, <3>1
  <2>3. \A i \in 1 .. q - k : C[i] = P[d + k + i]
    <3>1. \A i \in 1 .. q - k : k + i \in 1 .. q /\ d + (k + i) = d + k + i
      BY <2>1
    <3> QED BY ONLY <1>8, <1>13, <3>1
  <2>4. Len(P) = p /\ Len(A) = k /\ Len(C) = q - k
    BY <1>6, <1>7, <1>8
  <2>5. printed'[r][s] = P /\ pipe'[r][s] = C /\ scan'[r][s].buf = A /\ Done(r, s)' = d
    BY <1>9, <1>10, <1>12
  <2> QED BY ONLY d \in Nat, <1>13, <2>2, <2>3, <2>4, <2>5 DEF Flows
<1>15. \A u \in Runs : Unstuck(u)' <=> Unstuck(u)
  BY <1>10, <1>11 DEF Unstuck
<1>16. Logged(r, s)'
  <2>1. LoggedAt(r, s)' = LoggedAt(r, s) /\ log' = log /\ printed' = printed
    BY <1>3 DEF LoggedAt
  <2>2. Done(r, s)' = Done(r, s) /\ (Unstuck(r)' <=> Unstuck(r))
    BY <1>12, <1>15
  <2> QED BY ONLY <1>1, <2>1, <2>2 DEF Logged
<1>17. SetUp(r, s)'
  BY <1>1, <1>3, <1>10, <1>15 DEF SetUp
<1>18. \A u \in Runs : Unstuck(u)' => Unstuck(u) /\ (logger[u].open => logger'[u].open)
  BY <1>3, <1>15
<1> QED BY <1>2, <1>3, <1>11, <1>14, <1>16, <1>17, <1>18, OthersKeep

\* The scanner hands a line to the logger, which appends it to the file or, once closed,
\* loses it.
LEMMA WriteKeeps ==
    ASSUME LogIInv, NEW r \in Runs, NEW s \in Streams, Write(r, s)
    PROVE  LogIInv'
<1>1. LogShape /\ Flows(r, s) /\ Logged(r, s) /\ SetUp(r, s)
  BY DEF LogIInv
<1>2. LogShape'
  BY <1>1, WritesShape
<1>3. /\ UNCHANGED <<run, proc, cmd, printed, pipe>> /\ scan[r][s].buf # <<>> /\ scan[r][s].pc = "scan"
      /\ scan' = [scan EXCEPT ![r][s].buf = Tail(scan[r][s].buf)]
      /\ log' = IF logger[r].open THEN log \o <<Head(scan[r][s].buf), Newline>> ELSE log
  BY DEF Write, vars, NextIs, Scanning
<1>4. PICK P, Q, B \in Seq(Lines) : P = printed[r][s] /\ Q = pipe[r][s] /\ B = scan[r][s].buf
  BY <1>1, StreamShape
<1>5. PICK p, q, b \in Nat : p = Len(P) /\ q = Len(Q) /\ b = Len(B)
  BY LenProperties
<1>6. b >= 1
  BY <1>3, <1>4, <1>5, EmptySeq
<1>7. PICK l \in Lines : l = Head(B) /\ l = B[1]
  BY <1>3, <1>4, HeadTailProperties
<1>8. PICK A : A = Tail(B) /\ Len(A) = b - 1 /\ \A i \in 1 .. b - 1 : A[i] = B[i + 1]
  <2>1. Len(Tail(B)) = Len(B) - 1 /\ \A i \in 1 .. Len(Tail(B)) : Tail(B)[i] = B[i + 1]
    BY <1>3, <1>4, HeadTailProperties
  <2> QED BY <1>5, <2>1
<1>9. printed'[r][s] = P /\ pipe'[r][s] = Q /\ scan'[r][s] = [scan[r][s] EXCEPT !.buf = A]
  BY <1>1, <1>3, <1>4, <1>8 DEF LogShape
<1>10. scan'[r][s].buf = A /\ scan'[r][s].pc = scan[r][s].pc
  BY <1>1, <1>9, StreamShape DEF ScanRecords
<1>11. \A u \in Runs, t \in Streams : ~(u = r /\ t = s) =>
          printed'[u][t] = printed[u][t] /\ pipe'[u][t] = pipe[u][t] /\ scan'[u][t] = scan[u][t]
  BY <1>1, <1>3 DEF LogShape
<1>12. PICK d \in Nat : d = Done(r, s) /\ d + 1 = Done(r, s)' /\ d = p - q - b
  <2>1. Done(r, s) = p - q - b /\ Done(r, s)' = p - q - (b - 1)
    BY ONLY <1>4, <1>5, <1>8, <1>9, <1>10 DEF Done
  <2>2. p - q - (b - 1) = p - q - b + 1
    BY ONLY p \in Nat, q \in Nat, b \in Nat
  <2>3. Done(r, s) \in Nat
    BY <1>1 DEF Flows
  <2> QED BY ONLY <2>1, <2>2, <2>3
<1>13. /\ \A i \in 1 .. p : P[i].run = r /\ P[i].stream = s /\ P[i].n = i
       /\ \A i \in 1 .. b : B[i] = P[d + i]
       /\ \A i \in 1 .. q : Q[i] = P[d + b + i]
  BY ONLY <1>1, <1>4, <1>5, <1>12 DEF Flows
<1>14. d + 1 \in 1 .. p /\ l = P[d + 1]
  <2>1. d + 1 \in 1 .. p /\ 1 \in 1 .. b
    BY ONLY <1>6, <1>12, p \in Nat, q \in Nat, b \in Nat, d \in Nat
  <2> QED BY ONLY <1>7, <1>13, <2>1
<1>15. l.run = r /\ l.stream = s /\ l.n = d + 1
  BY ONLY <1>13, <1>14
<1>16. Flows(r, s)'
  <2>1. \A i \in 1 .. b - 1 : A[i] = P[(d + 1) + i]
    <3>1. \A i \in 1 .. b - 1 : i + 1 \in 1 .. b /\ d + (i + 1) = (d + 1) + i
      BY ONLY b \in Nat, d \in Nat
    <3> QED BY ONLY <1>8, <1>13, <3>1
  <2>2. \A i \in 1 .. q : Q[i] = P[(d + 1) + (b - 1) + i]
    <3>1. \A i \in 1 .. q : d + b + i = (d + 1) + (b - 1) + i
      BY ONLY b \in Nat, d \in Nat, q \in Nat
    <3> QED BY ONLY <1>13, <3>1
  <2>3. Len(P) = p /\ Len(A) = b - 1 /\ Len(Q) = q
    BY <1>5, <1>8
  <2>4. printed'[r][s] = P /\ pipe'[r][s] = Q /\ scan'[r][s].buf = A /\ Done(r, s)' = d + 1
    BY <1>9, <1>10, <1>12
  <2>5. PICK x \in Nat, y \in Int : x = d + 1 /\ y = b - 1
    OBVIOUS
  <2>6. /\ \A i \in 1 .. y : A[i] = P[x + i]
        /\ \A i \in 1 .. q : Q[i] = P[x + y + i]
    BY ONLY <2>1, <2>2, <2>5
  <2>7. Len(P) = p /\ Len(A) = y /\ Len(Q) = q /\ Done(r, s)' = x
    BY ONLY <2>3, <2>4, <2>5
  <2> QED BY ONLY x \in Nat, <1>13, <2>4, <2>6, <2>7 DEF Flows
<1>17. \A u \in Runs : Unstuck(u)' <=> Unstuck(u)
  BY <1>10, <1>11 DEF Unstuck
<1>18. \A u \in Runs : logger'[u].open = logger[u].open
  <2>1. logger' = [logger EXCEPT ![r].size = IF logger[r].open THEN @ + 1 ELSE @]
    BY DEF Write
  <2> QED BY <1>1, <2>1 DEF LogShape, Loggers
<1>19. \A i \in LoggedAt(r, s) : i \in 1 .. Len(log) /\ log[i].n \in 1 .. d /\ log[i] = P[log[i].n]
  BY <1>1, <1>4, <1>12, StreamShape DEF Logged, LoggedAt
<1>20. \A i, j \in LoggedAt(r, s) : i < j => log[i].n < log[j].n
  BY <1>1 DEF Logged
<1>21. Unstuck(r) => \A m \in 1 .. d : \E i \in LoggedAt(r, s) : log[i].n = m
  BY <1>1, <1>12 DEF Logged
<1>22. Logged(r, s)'
  <2>1. CASE logger[r].open
    <3>1. log' = log \o <<l, Newline>>
      BY <1>3, <1>4, <1>7, <2>1
    <3>2. /\ log'[Len(log) + 1] = l /\ \A i \in DOMAIN log : log'[i] = log[i]
          /\ \A q_1 \in Runs, t \in Streams :
               LoggedAt(q_1, t)' = LoggedAt(q_1, t) \cup (IF l.run = q_1 /\ l.stream = t THEN {Len(log) + 1} ELSE {})
      BY <1>1, <3>1, AppendedAt, Zenon
    <3>3. PICK e \in Nat : e = Len(log)
      BY <1>1, StreamShape
    <3>4. LoggedAt(r, s)' = LoggedAt(r, s) \cup {e + 1}
      BY <1>15, <3>2, <3>3
    <3>5. log'[e + 1] = l /\ \A i \in LoggedAt(r, s) : i \in 1 .. e /\ log'[i] = log[i]
      BY <1>19, <3>2, <3>3 DEF LoggedAt
    <3>6. \A i, j \in LoggedAt(r, s)' : i < j => log'[i].n < log'[j].n
      <4>1. \A i \in LoggedAt(r, s) : log'[i].n < log'[e + 1].n /\ ~(e + 1 < i)
        BY ONLY <1>15, <1>19, <3>5, d \in Nat, e \in Nat
      <4> QED BY ONLY <1>20, <3>4, <3>5, <4>1, e \in Nat
    <3>7. \A i \in LoggedAt(r, s)' : log'[i].n \in 1 .. d + 1 /\ log'[i] = P[log'[i].n]
      <4>1. \A i \in LoggedAt(r, s) : log'[i].n \in 1 .. d + 1 /\ log'[i] = P[log'[i].n]
        BY ONLY <1>19, <3>5, d \in Nat
      <4> QED BY ONLY <1>14, <1>15, <3>4, <3>5, <4>1, d \in Nat
    <3>8. Unstuck(r) => \A m \in 1 .. d + 1 : \E i \in LoggedAt(r, s)' : log'[i].n = m
      <4> SUFFICES ASSUME Unstuck(r), NEW m \in 1 .. d + 1 PROVE \E i \in LoggedAt(r, s)' : log'[i].n = m
        OBVIOUS
      <4>1. CASE m = d + 1
        BY <1>15, <3>4, <3>5, <4>1
      <4>2. CASE m \in 1 .. d
        BY <1>21, <3>4, <3>5, <4>2
      <4> QED BY <4>1, <4>2
    <3> QED BY ONLY <1>9, <1>12, <1>17, <3>6, <3>7, <3>8, r \in Runs DEF Logged
  <2>2. CASE ~logger[r].open
    <3>1. log' = log /\ LoggedAt(r, s)' = LoggedAt(r, s) /\ ~Unstuck(r)
      BY <1>1, <1>3, <2>2 DEF LoggedAt, SetUp
    <3>2. \A i \in LoggedAt(r, s) : log[i].n \in 1 .. d + 1 /\ log[i] = P[log[i].n]
      BY ONLY <1>19, d \in Nat
    <3> QED BY ONLY <1>9, <1>12, <1>17, <1>20, <3>1, <3>2, r \in Runs DEF Logged
  <2> QED BY <2>1, <2>2
<1>23. SetUp(r, s)'
  BY <1>1, <1>3, <1>10, <1>17, <1>18 DEF SetUp
<1>24. \A u \in Runs : Unstuck(u)' => Unstuck(u) /\ (logger[u].open => logger'[u].open)
  BY <1>17, <1>18
<1>25. log' = log \/ \E k \in Lines : k.run = r /\ k.stream = s /\ log' = log \o <<k, Newline>>
  BY <1>3, <1>4, <1>7, <1>15
<1> QED BY <1>2, <1>3, <1>11, <1>16, <1>22, <1>23, <1>24, <1>25, OthersKeep

\* A scanner that stops, at the size limit or at a line too long, logs nothing more.
LEMMA StopsKeeps ==
    ASSUME LogIInv, NEW r \in Runs, NEW s \in Streams, WriteRotates(r, s) \/ Close(r, s)
    PROVE  LogIInv'
<1>1. LogShape /\ Flows(r, s) /\ Logged(r, s) /\ SetUp(r, s)
  BY DEF LogIInv
<1>2. LogShape'
  BY <1>1, WritesShape
<1>3. /\ UNCHANGED <<run, proc, cmd, printed, pipe, log>> /\ scan[r][s].pc = "scan"
      /\ \/ scan' = [scan EXCEPT ![r][s].pc = "stuck"]
         \/ scan' = [scan EXCEPT ![r][s] = [pc |-> "ended", buf |-> <<>>]]
  BY DEF WriteRotates, Close, vars, NextIs, Scanning
<1>4. /\ scan'[r][s].pc \in {"stuck", "ended"}
      /\ scan'[r][s].buf = scan[r][s].buf \/ scan'[r][s].buf = <<>>
      /\ \A u \in Runs, t \in Streams : ~(u = r /\ t = s) => scan'[u][t] = scan[u][t]
  <2>1. scan[r][s] \in ScanRecords /\ scan \in [Runs -> [Streams -> ScanRecords]]
    BY <1>1 DEF LogShape
  <2>2. scan'[r][s] = [scan[r][s] EXCEPT !.pc = "stuck"] \/ scan'[r][s] = [pc |-> "ended", buf |-> <<>>]
    BY <1>3, <2>1
  <2>3. \A u \in Runs, t \in Streams : ~(u = r /\ t = s) => scan'[u][t] = scan[u][t]
    BY <1>3, <2>1
  <2>4. scan'[r][s].pc \in {"stuck", "ended"}
    BY <2>1, <2>2 DEF ScanRecords
  <2>5. scan'[r][s].buf = scan[r][s].buf \/ scan'[r][s].buf = <<>>
    BY <2>1, <2>2 DEF ScanRecords
  <2> QED BY <2>3, <2>4, <2>5
<1>5. PICK p, q, b \in Nat : p = Len(printed[r][s]) /\ q = Len(pipe[r][s]) /\ b = Len(scan[r][s].buf)
  BY <1>1, StreamShape
<1>6. PICK d \in Nat : d = Done(r, s) /\ d = p - q - b
  <2>1. Done(r, s) \in Nat /\ Done(r, s) = p - q - b
    BY ONLY <1>1, <1>5 DEF Flows, Done
  <2> QED BY ONLY <2>1
<1>7. PICK c \in Nat : c = Len(scan'[r][s].buf) /\ ((c = b /\ scan'[r][s].buf = scan[r][s].buf) \/ c = 0)
  BY <1>4, <1>5
<1>8. PICK e \in Nat : e = Done(r, s)' /\ e = p - q - c /\ d <= e /\ e + c = d + b
  <2>1. Done(r, s)' = p - q - c
    BY ONLY <1>3, <1>5, <1>7 DEF Done
  <2>2. p - q - c \in Nat /\ d <= p - q - c /\ (p - q - c) + c = d + b
    BY ONLY <1>6, <1>7, p \in Nat, q \in Nat, b \in Nat, c \in Nat, d \in Nat
  <2> QED BY ONLY <2>1, <2>2
<1>9. Flows(r, s)'
  <2>1. /\ \A i \in 1 .. p : printed[r][s][i].run = r /\ printed[r][s][i].stream = s /\ printed[r][s][i].n = i
        /\ \A i \in 1 .. b : scan[r][s].buf[i] = printed[r][s][d + i]
        /\ \A i \in 1 .. q : pipe[r][s][i] = printed[r][s][d + b + i]
    BY ONLY <1>1, <1>5, <1>6 DEF Flows
  <2>2. \A i \in 1 .. c : scan'[r][s].buf[i] = printed[r][s][e + i]
    <3>1. CASE c = 0
      BY ONLY <3>1
    <3>2. CASE c = b /\ scan'[r][s].buf = scan[r][s].buf
      <4>1. e = d
        BY ONLY <1>8, <3>2, b \in Nat, c \in Nat, d \in Nat, e \in Nat
      <4> QED BY ONLY <2>1, <3>2, <4>1
    <3> QED BY <1>7, <3>1, <3>2
  <2>3. \A i \in 1 .. q : pipe[r][s][i] = printed[r][s][e + c + i]
    BY ONLY <1>8, <2>1
  <2>4. /\ Len(printed'[r][s]) = p /\ Len(pipe'[r][s]) = q /\ Len(scan'[r][s].buf) = c /\ Done(r, s)' = e
        /\ printed' = printed /\ pipe' = pipe
    BY <1>3, <1>5, <1>7, <1>8
  <2> QED BY ONLY e \in Nat, <2>1, <2>2, <2>3, <2>4 DEF Flows
<1>10. ~Unstuck(r)' /\ \A u \in Runs : u # r => (Unstuck(u)' <=> Unstuck(u)) /\ logger'[u] = logger[u]
  <2>1. \A u \in Runs : u # r => logger'[u] = logger[u]
    BY <1>1 DEF WriteRotates, Close, LogShape
  <2> QED BY <1>4, <2>1 DEF Unstuck
<1>11. Logged(r, s)'
  <2>1. LoggedAt(r, s)' = LoggedAt(r, s) /\ log' = log /\ printed' = printed
    BY <1>3 DEF LoggedAt
  <2>2. \A i \in LoggedAt(r, s) : log[i].n \in 1 .. d /\ log[i] = printed[r][s][log[i].n]
    BY <1>1, <1>6 DEF Logged
  <2>3. \A i \in LoggedAt(r, s) : log[i].n \in 1 .. e /\ log[i] = printed[r][s][log[i].n]
    BY ONLY <1>8, <2>2, d \in Nat, e \in Nat
  <2> QED BY ONLY <1>1, <1>8, <1>10, <2>1, <2>3 DEF Logged
<1>12. SetUp(r, s)'
  BY <1>1, <1>3, <1>4, <1>10 DEF SetUp
<1>13. \A u \in Runs : Unstuck(u)' => Unstuck(u) /\ (logger[u].open => logger'[u].open)
  BY <1>10
<1> QED BY <1>2, <1>3, <1>4, <1>9, <1>11, <1>12, <1>13, OthersKeep

\* A command gets its logger and its scanners, before it prints anything.
LEMMA SetupKeeps ==
    ASSUME LogIInv, TypeIInv, LogShape', NEW r \in Runs, SetupLogging(r)
    PROVE  LogIInv'
<1>1. /\ run[r] = "checked" /\ run' = [run EXCEPT ![r] = "created"] /\ cmd' = r
      /\ UNCHANGED <<proc, printed, pipe, log>>
      /\ logger' = [logger EXCEPT ![r] = NewLogger]
      /\ scan' = [scan EXCEPT ![r] = [s \in Streams |-> [pc |-> "scan", buf |-> <<>>]]]
  BY DEF SetupLogging, createCommand, Step
<1>2. LogShape /\ \A q \in Runs, t \in Streams : Flows(q, t) /\ Logged(q, t) /\ SetUp(q, t)
  BY DEF LogIInv
<1>3. ASSUME NEW q \in Runs, NEW t \in Streams PROVE Flows(q, t)' /\ Logged(q, t)' /\ SetUp(q, t)'
  <2>1. Flows(q, t) /\ Logged(q, t) /\ SetUp(q, t)
    BY <1>2
  <2>2. scan'[q][t].buf = scan[q][t].buf /\ (scan'[q][t].pc = scan[q][t].pc \/ scan'[q][t].pc = "scan")
    <3>1. CASE q = r
      <4>1. printed[q][t] = <<>>
        BY <1>1, <2>1, <3>1 DEF SetUp
      <4>2. Len(printed[q][t]) = 0 /\ Len(pipe[q][t]) \in Nat /\ Len(scan[q][t].buf) \in Nat
            /\ scan[q][t].buf \in Seq(Lines)
        BY <1>2, <4>1, StreamShape
      <4>3. Done(q, t) \in Nat /\ Done(q, t) = 0 - Len(pipe[q][t]) - Len(scan[q][t].buf)
        BY ONLY <2>1, <4>2 DEF Flows, Done
      <4>4. Len(scan[q][t].buf) = 0
        BY ONLY <4>2, <4>3
      <4>5. scan[q][t].buf = <<>>
        BY <4>2, <4>4, EmptySeq
      <4> QED BY <1>1, <1>2, <3>1, <4>5 DEF LogShape
    <3>2. CASE q # r
      BY <1>1, <1>2, <3>2 DEF LogShape
    <3> QED BY <3>1, <3>2
  <2>3. Done(q, t)' = Done(q, t) /\ LoggedAt(q, t)' = LoggedAt(q, t)
    BY <1>1, <2>2 DEF Done, LoggedAt
  <2>4. Flows(q, t)'
    BY <1>1, <2>1, <2>2, <2>3 DEF Flows
  <2>5. Unstuck(q)' => Unstuck(q)
    <3>1. CASE q = r
      <4>1. \A s \in Streams : scan[q][s].pc = "off"
        BY <1>1, <1>2, <3>1 DEF SetUp
      <4> QED BY <4>1 DEF Unstuck
    <3>2. CASE q # r
      BY <1>1, <1>2, <3>2 DEF LogShape, Unstuck
    <3> QED BY <3>1, <3>2
  <2>6. Logged(q, t)'
    BY <1>1, <2>1, <2>3, <2>5 DEF Logged
  <2>7. SetUp(q, t)'
    <3>1. CASE q = r
      <4>1. printed'[q][t] = <<>> /\ scan'[q][t].pc = "scan" /\ logger'[q].open /\ run'[q] = "created"
        <5>1. printed'[q][t] = <<>>
          BY <1>1, <2>1, <3>1 DEF SetUp
        <5>2. scan'[q][t].pc = "scan" /\ logger'[q].open
          BY <1>1, <1>2, <3>1 DEF LogShape, NewLogger
        <5>3. run'[q] = "created"
          BY <1>1, <3>1 DEF TypeIInv, TypeOK
        <5> QED BY <5>1, <5>2, <5>3
      <4> QED BY <4>1 DEF SetUp
    <3>2. CASE q # r
      <4>1. scan'[q] = scan[q] /\ logger'[q] = logger[q] /\ run'[q] = run[q]
        BY <1>1, <1>2, <3>2 DEF LogShape
      <4> QED BY <1>1, <2>1, <2>5, <3>2, <4>1 DEF SetUp, Unstuck
    <3> QED BY <3>1, <3>2
  <2> QED BY <2>4, <2>6, <2>7
<1> QED BY <1>3 DEF LogIInv

\* The agent's other steps: no request goes back to before its command was created, and a
\* process starts only for a.cmd.
AgentMoves ==
    /\ cmd' = cmd
    /\ \A q \in Runs : run'[q] \in {"none", "sent", "checked"} => run[q] \in {"none", "sent", "checked"}
    /\ \A q \in Runs : proc'[q].p # "none" => proc[q].p # "none" \/ cmd = q

LEMMA AgentStepMoves ==
    ASSUME TypeIInv,
           \/ \E r \in Runs : AgentStep(r)
           \/ \E r \in Runs : Deliver(r) \/ CommandEnds(r)
           \/ handleSigterm \/ graceOver
    PROVE  AgentMoves
<1> USE DEF TypeIInv, TypeOK, Step, Waits
<1>1. ASSUME NEW r \in Runs, Deliver(r) \/ handleRun(r) \/ recordStart(r) PROVE AgentMoves
  BY <1>1 DEF Deliver, handleRun, recordStart, AgentMoves
<1>2. ASSUME NEW r \in Runs, startCommand(r) PROVE AgentMoves
  <2>1. cmd' = cmd /\ \A q \in Runs : run'[q] \in {"none", "sent", "checked"} => run[q] \in {"none", "sent", "checked"}
    BY <1>2 DEF startCommand
  <2>2. \A q \in Runs : q # cmd => proc'[q] = proc[q]
    BY <1>2 DEF startCommand
  <2> QED BY <2>1, <2>2 DEF AgentMoves
<1>3. ASSUME NEW r \in Runs, waitBegins(r) \/ waitReturns(r) \/ recordExit(r) PROVE AgentMoves
  BY <1>3 DEF waitBegins, waitReturns, recordExit, AgentMoves
<1>4. ASSUME NEW c, NEW end, ProcessEnds(c, end), UNCHANGED <<run, cmd>> PROVE AgentMoves
  <2>1. \A q \in Runs : q # c => proc'[q] = proc[q]
    BY <1>4 DEF ProcessEnds
  <2>2. proc[c].p = "running"
    BY <1>4 DEF ProcessEnds
  <2> QED BY <1>4, <2>1, <2>2 DEF AgentMoves
<1>5. ASSUME NEW r \in Runs, reapProcess(r) PROVE AgentMoves
  <2>1. \A q \in Runs : q # waiter[r].on => proc'[q] = proc[q]
    BY <1>5 DEF reapProcess
  <2>2. proc[waiter[r].on].p = "zombie" /\ UNCHANGED <<run, cmd>>
    BY <1>5 DEF reapProcess
  <2> QED BY <2>1, <2>2 DEF AgentMoves
<1>6. ASSUME NEW r \in Runs, CommandEnds(r) PROVE AgentMoves
  BY <1>4, <1>6 DEF CommandEnds
<1>7. CASE handleSigterm
  <2>1. CASE UNCHANGED proc
    BY <1>7, <2>1 DEF handleSigterm, AgentMoves
  <2>2. CASE ProcessEnds(pid, "sigterm")
    BY <1>4, <1>7, <2>2 DEF handleSigterm
  <2> QED BY <1>7, <2>1, <2>2 DEF handleSigterm
<1>8. CASE graceOver
  <2>1. CASE UNCHANGED proc
    BY <1>8, <2>1 DEF graceOver, AgentMoves
  <2>2. CASE ProcessEnds(sigterm, "sigkill")
    BY <1>4, <1>8, <2>2 DEF graceOver
  <2> QED BY <1>8, <2>1, <2>2 DEF graceOver
<1> QED BY <1>1, <1>2, <1>3, <1>5, <1>6, <1>7, <1>8 DEF AgentStep

\* Nothing of the output moves.
LEMMA OutputStays ==
    ASSUME LogIInv, UNCHANGED <<printed, pipe, scan, logger, log>>, LogShape', AgentMoves
    PROVE  LogIInv'
<1> SUFFICES ASSUME NEW q \in Runs, NEW t \in Streams PROVE Flows(q, t)' /\ Logged(q, t)' /\ SetUp(q, t)'
  BY DEF LogIInv
<1>1. Flows(q, t) /\ Logged(q, t) /\ SetUp(q, t)
  BY DEF LogIInv
<1>2. Done(q, t)' = Done(q, t) /\ LoggedAt(q, t)' = LoggedAt(q, t) /\ (Unstuck(q)' <=> Unstuck(q))
  BY DEF Done, LoggedAt, Unstuck
<1>3. Flows(q, t)'
  BY <1>1, <1>2 DEF Flows
<1>4. Logged(q, t)'
  BY <1>1, <1>2 DEF Logged
<1>5. SetUp(q, t)'
  BY <1>1, <1>2 DEF SetUp, AgentMoves
<1> QED BY <1>3, <1>4, <1>5

LEMMA NextLogIInv == LogIInv /\ TypeIInv /\ [NextLogs]_allVars => LogIInv'
<1> SUFFICES ASSUME LogIInv, TypeIInv, [NextLogs]_allVars PROVE LogIInv'
  OBVIOUS
<1>1. LogShape'
  BY NextShape DEF LogIInv
<1>2. ASSUME UNCHANGED <<printed, pipe, scan, logger, log>>, AgentMoves PROVE LogIInv'
  BY <1>1, <1>2, OutputStays
<1>3. UNCHANGED <<run, cmd, proc>> => AgentMoves
  BY DEF AgentMoves
<1>4. CASE UNCHANGED allVars
  BY <1>2, <1>3, <1>4 DEF allVars, vars, logVars
<1>5. ASSUME \/ \E r \in Runs : AgentStep(r)
             \/ \E r \in Runs : (Deliver(r) \/ CommandEnds(r)) /\ UNCHANGED logVars
             \/ (handleSigterm \/ graceOver) /\ UNCHANGED logVars
      PROVE  LogIInv'
  <2>1. UNCHANGED logVars
    BY <1>5 DEF AgentStep
  <2>2. AgentMoves
    BY <1>5, AgentStepMoves
  <2> QED BY <1>2, <2>1, <2>2 DEF logVars
<1>6. ASSUME NEW r \in Runs, SetupLogging(r) PROVE LogIInv'
  BY <1>1, <1>6, SetupKeeps
<1>7. ASSUME NEW r \in Runs, NEW s \in Streams, Prints(r, s) \/ StreamWithTimestamp(r, s) PROVE LogIInv'
  BY <1>7, PrintsKeeps, ReadsKeeps, WriteKeeps, StopsKeeps DEF StreamWithTimestamp
<1>8. ASSUME (\E n \in 0 .. MaxTail : handleLogs(n)) \/ followTick PROVE LogIInv'
  BY <1>2, <1>3, <1>8 DEF handleLogs, followTick, vars
<1> QED BY <1>4, <1>5, <1>6, <1>7, <1>8 DEF NextLogs

\* Whatever the two scanners of a command and the commands themselves interleave, the log
\* has each stream's lines as printed, in order and, until a scanner stops, without a gap
\* (StreamWithTimestamp, Logger.Write).
THEOREM StreamsStayInOrder == LogSpec => []StreamsInOrder
<1>1. LogSpec => []TypeIInv
  <2>1. Spec => []TypeIInv
    BY AgentInductive
  <2> QED BY <2>1, LogsImplementAgent, PTL
<1>2. LogSpec => []LogIInv
  BY <1>1, InitLogIInv, NextLogIInv, PTL DEF LogSpec
<1> QED BY <1>2, InvGivesOrder, PTL
=============================================================================
