--------------------------- MODULE Session_proofs ---------------------------
(***************************************************************************)
(* Proofs about Session, for any number of retries and any depth of the    *)
(* queues: a server that ends its session the regular way has joined its   *)
(* threads and left no application behind.                                 *)
(***************************************************************************)
EXTENDS Session, SequenceTheorems, TLAPS

SetUp == {"handshake", "launch", "backend", "fallback", "threads"}

\* Where run() is says what its threads and its tasks can be doing.
PhaseInv ==
  /\ serverPc \in SetUp
       => /\ compress = "off" /\ capture = "off" /\ recvTask = "off"
          /\ ~shutdown /\ ~failed
  /\ serverPc \in {"handshake", "launch"} => child = "none"
  /\ serverPc \in {"select", "join", "kill"}
       => compress # "off" /\ recvTask # "off" /\ ~failed
  /\ serverPc \in {"join", "kill"} => shutdown
  /\ serverPc = "kill" => compress = "ended"
  /\ compress \in {"join", "ended"} => shutdown
  /\ compress = "ended" => capture = "ended"

\* What run() leaves behind when it returns Ok.
ExitInv ==
  serverPc \in {"exit", "stopped"} /\ ~failed
    => compress = "ended" /\ capture = "ended" /\ shutdown /\ child # "running"

\* The inductive invariant.
SessionInv == TypeOK /\ PhaseInv /\ ExitInv

\* A server that ends its session the regular way has raised the flag and
\* joined the capture and compress threads.
ThreadsJoined ==
  serverPc = "stopped" /\ ~failed
    => compress = "ended" /\ capture = "ended" /\ shutdown

-----------------------------------------------------------------------------
LEMMA InitSession == Init => SessionInv
<1> SUFFICES ASSUME Init PROVE SessionInv
  OBVIOUS
<1> USE SessionAssumption
<1>1. /\ <<"handshake">> \in Seq(Message) /\ Len(<<"handshake">>) = 1
      /\ <<>> \in Seq(Message) /\ Len(<<>>) = 0
  BY EmptySeq DEF Message
<1>2. failed \in BOOLEAN /\ shutdown \in BOOLEAN
  BY Zenon DEF Init
<1>3. TypeOK
  BY <1>1, <1>2 DEF Init, TypeOK, Message
<1>4. ~failed /\ ~shutdown
  BY Zenon DEF Init
<1>5. PhaseInv /\ ExitInv
  BY <1>4 DEF Init, PhaseInv, ExitInv, SetUp
<1> QED BY <1>3, <1>5 DEF SessionInv

\* Taking the first message of a queue, or appending one, keeps its type.
LEMMA QueueSteps ==
  ASSUME NEW q \in Seq(Message)
  PROVE  /\ Len(q) \in Nat
         /\ q # <<>> => /\ Head(q) \in Message /\ Tail(q) \in Seq(Message)
                        /\ Len(Tail(q)) = Len(q) - 1
         /\ \A m \in Message : /\ Append(q, m) \in Seq(Message)
                               /\ Len(Append(q, m)) = Len(q) + 1
  BY HeadTailProperties, AppendProperties, LenProperties, EmptySeq

\* The steps of the reader, the client and ssh: they touch neither run() nor
\* its threads.
LEMMA ReaderTypes ==
  ASSUME TypeOK,
         \/ ReadMessage \/ ForwardMessage \/ ReaderEnds \/ ClientHandshake
         \/ ClientFails \/ UserInput \/ ClientSelect \/ ClientKill \/ SshExits
         \/ ConnectionLost \/ UNCHANGED vars
  PROVE  TypeOK' /\ UNCHANGED <<serverVars, taskVars>>
<1> USE SessionAssumption
<1>1. UNCHANGED <<serverVars, taskVars>>
  BY DEF ReadMessage, ForwardMessage, ReaderEnds, ClientHandshake, ClientFails, UserInput,
         ClientSelect, ClientKill, SshExits, ConnectionLost, vars
<1>2. /\ stdin' \in Seq(Message) /\ Len(stdin') <= MaxStdin
  <2>1. CASE ReadMessage
    BY <2>1, QueueSteps DEF ReadMessage, TypeOK
  <2>2. CASE UserInput
    <3>1. stdin' = Append(stdin, "input") /\ "input" \in Message /\ Len(stdin) < MaxStdin
      BY <2>2 DEF UserInput, Message
    <3> QED BY <3>1, QueueSteps DEF TypeOK
  <2>3. CASE ~ReadMessage /\ ~UserInput
    <3>1. stdin' = stdin
      BY <2>3 DEF ForwardMessage, ReaderEnds, ClientHandshake, ClientFails, ClientSelect, ClientKill,
                  SshExits, ConnectionLost, vars, readVars
    <3> QED BY <3>1 DEF TypeOK
  <2> QED BY <2>1, <2>2, <2>3
<1>3. /\ incoming' \in Seq(Message) /\ Len(incoming') <= IncomingQueueDepth
  <2>1. CASE ForwardMessage
    <3>1. incoming' = Append(incoming, inHand) /\ Len(incoming) < IncomingQueueDepth
      BY <2>1 DEF ForwardMessage
    <3> QED BY <3>1, QueueSteps DEF TypeOK
  <2>2. CASE ~ForwardMessage
    <3>1. incoming' = incoming
      BY <2>2 DEF ReadMessage, UserInput, ReaderEnds, ClientHandshake, ClientFails, ClientSelect,
                  ClientKill, SshExits, ConnectionLost, vars, readVars
    <3> QED BY <3>1 DEF TypeOK
  <2> QED BY <2>1, <2>2
<1>4. inHand' \in Message /\ reader' \in {"read", "send", "ended"}
  BY QueueSteps DEF ReadMessage, ForwardMessage, ReaderEnds, ClientHandshake, ClientFails, UserInput,
         ClientSelect, ClientKill, SshExits, ConnectionLost, vars, readVars, TypeOK
<1>5. clientPc' \in {"handshake", "select", "kill", "stopped"} /\ ssh' \in {"running", "exited"}
  BY DEF ReadMessage, ForwardMessage, ReaderEnds, ClientHandshake, ClientFails, UserInput,
         ClientSelect, ClientKill, SshExits, ConnectionLost, vars, clientVars, TypeOK
<1> QED BY <1>1, <1>2, <1>3, <1>4, <1>5 DEF TypeOK, serverVars, taskVars, cli

\* The steps that set a session up.
LEMMA SetUpSteps ==
  ASSUME SessionInv,
         \/ AwaitHandshake \/ LaunchEarly \/ RetryBackend \/ CreateBackend
         \/ SpawnThreads \/ SpawnFails
  PROVE  SessionInv'
<1> USE SessionAssumption
<1>1. TypeOK /\ PhaseInv /\ ExitInv
  BY DEF SessionInv
<1>2. serverPc \in SetUp /\ ~failed /\ ~shutdown
  <2>1. serverPc \in SetUp
    BY DEF SetUp, AwaitHandshake, LaunchEarly, RetryBackend, CreateBackend, SpawnThreads,
           SpawnFails
  <2> QED BY <1>1, <2>1, Zenon DEF PhaseInv
<1>3. incoming' \in Seq(Message) /\ Len(incoming') <= IncomingQueueDepth
  <2>1. incoming' = incoming \/ (incoming # <<>> /\ incoming' = Tail(incoming))
    BY DEF AwaitHandshake, LaunchEarly, RetryBackend, CreateBackend, SpawnThreads,
           SpawnFails, readVars
  <2>2. incoming \in Seq(Message) /\ Len(incoming) <= IncomingQueueDepth
    BY <1>1 DEF TypeOK
  <2> QED BY <2>1, <2>2, QueueSteps
<1>4. failed' \in BOOLEAN
  BY <1>1, Zenon DEF AwaitHandshake, LaunchEarly, RetryBackend, CreateBackend, SpawnThreads,
              SpawnFails, Bail, TypeOK
<1>5. attempt' \in 1 .. MaxRetries
  BY <1>1 DEF AwaitHandshake, LaunchEarly, RetryBackend, CreateBackend, SpawnThreads,
              SpawnFails, TypeOK
<1>6. shutdown' = shutdown
  BY DEF AwaitHandshake, LaunchEarly, RetryBackend, CreateBackend, SpawnThreads,
              SpawnFails, taskVars
<1>7. TypeOK'
  <2>1. /\ UNCHANGED <<cli, clientVars, stdin, reader, inHand>>
    BY DEF AwaitHandshake, LaunchEarly, RetryBackend, CreateBackend, SpawnThreads,
              SpawnFails, readVars
  <2>2. /\ serverPc' \in {"launch", "backend", "fallback", "threads", "select", "exit"}
        /\ child' \in {"none", "running", "exited", "killed"}
        /\ capture' \in {"off", "running"} /\ compress' \in {"off", "running"}
        /\ recvTask' \in {"off", "check"}
    BY <1>1, <1>2 DEF AwaitHandshake, LaunchEarly, RetryBackend, CreateBackend, SpawnThreads,
              SpawnFails, Bail, taskVars, PhaseInv, TypeOK
  <2> QED BY <1>1, <1>3, <1>4, <1>5, <1>6, <2>1, <2>2 DEF TypeOK, cli, clientVars
<1>8. PhaseInv'
  <2>1. CASE SpawnThreads
    <3>1. /\ serverPc' = "select" /\ compress' = "running" /\ recvTask' = "check"
          /\ failed' = failed
      BY <2>1 DEF SpawnThreads
    <3> QED BY <1>2, <3>1 DEF PhaseInv, SetUp
  <2>2. CASE ~SpawnThreads
    <3>1. /\ UNCHANGED <<shutdown, compress, recvTask>>
          /\ capture' = capture \/ serverPc' = "exit"
      BY <2>2 DEF AwaitHandshake, LaunchEarly, RetryBackend, CreateBackend, SpawnFails,
                  Bail, taskVars
    <3>2. compress = "off" /\ capture = "off" /\ recvTask = "off"
      BY <1>1, <1>2 DEF PhaseInv
    <3>3. \/ serverPc' = "exit" /\ failed' = TRUE
          \/ serverPc' = "launch" /\ child' = child /\ serverPc = "handshake" /\ failed' = failed
          \/ serverPc' \in {"backend", "fallback", "threads"} /\ failed' = failed
      BY <2>2 DEF AwaitHandshake, LaunchEarly, RetryBackend, CreateBackend, SpawnFails, Bail
    <3> QED BY <1>1, <1>2, <3>1, <3>2, <3>3 DEF PhaseInv, SetUp
  <2> QED BY <2>1, <2>2
<1>9. ExitInv'
  <2>1. serverPc' \in {"exit", "stopped"} => failed' = TRUE
    BY <1>2 DEF SetUp, AwaitHandshake, LaunchEarly, RetryBackend, CreateBackend,
                SpawnThreads, SpawnFails, Bail
  <2> QED BY <2>1 DEF ExitInv
<1> QED BY <1>7, <1>8, <1>9 DEF SessionInv

\* The steps of the threads and tasks.
LEMMA TaskSteps ==
  ASSUME SessionInv, TaskStep \/ CaptureEnds \/ CaptureStops \/ ChildExits
  PROVE  SessionInv'
<1>1. TypeOK /\ PhaseInv /\ ExitInv
  BY DEF SessionInv
<1>2. CASE TaskStep \/ CaptureEnds \/ CaptureStops
  <2>1. UNCHANGED <<cli, serverPc, failed, attempt, child, stdin, reader, inHand, clientVars>>
    BY <1>2 DEF TaskStep, CompressStops, CompressEnds, RecvCheck, RecvMessage, RecvNone,
                StopInject, CaptureEnds, CaptureStops, serverVars, readVars
  <2>2. shutdown' \in BOOLEAN
    BY <1>1, <1>2, Zenon DEF TaskStep, CompressStops, CompressEnds, RecvCheck, RecvMessage, RecvNone,
                StopInject, CaptureEnds, CaptureStops, TypeOK
  <2>3. incoming' \in Seq(Message) /\ Len(incoming') <= IncomingQueueDepth
    <3>1. incoming' = incoming \/ (incoming # <<>> /\ incoming' = Tail(incoming))
      BY <1>2 DEF TaskStep, CompressStops, CompressEnds, RecvCheck, RecvMessage, RecvNone,
                  StopInject, CaptureEnds, CaptureStops, readVars
    <3>2. incoming \in Seq(Message) /\ Len(incoming) <= IncomingQueueDepth
      BY <1>1 DEF TypeOK
    <3> QED BY <3>1, <3>2, QueueSteps, SessionAssumption
  <2>4. /\ capture' \in {"off", "running", "ended"} /\ compress' \in {"off", "running", "join", "ended"}
        /\ recvTask' \in {"off", "check", "recv", "stop", "ended"}
    BY <1>1, <1>2 DEF TaskStep, CompressStops, CompressEnds, RecvCheck, RecvMessage, RecvNone,
                StopInject, CaptureEnds, CaptureStops, TypeOK
  <2>5. TypeOK'
    BY <1>1, <2>1, <2>2, <2>3, <2>4 DEF TypeOK, cli, clientVars
  <2>6. /\ compress' # compress
             => \/ compress = "running" /\ compress' = "join"
                \/ compress = "join" /\ compress' = "ended" /\ capture' = "ended"
        /\ capture' # capture => capture' = "ended" /\ capture # "off"
        /\ recvTask' # recvTask => recvTask # "off" /\ recvTask' # "off"
    BY <1>2 DEF TaskStep, CompressStops, CompressEnds, RecvCheck, RecvMessage, RecvNone,
                StopInject, CaptureEnds, CaptureStops
  <2>7. /\ shutdown => shutdown'
        /\ compress = "running" /\ compress' # compress => shutdown'
        /\ shutdown' => shutdown \/ compress = "running" \/ recvTask # "off"
    BY <1>1, <1>2 DEF TaskStep, CompressStops, CompressEnds, RecvCheck, RecvMessage, RecvNone,
                StopInject, CaptureEnds, CaptureStops, TypeOK
  <2>8. capture = "ended" => capture' = "ended"
    BY <1>2 DEF TaskStep, CompressStops, CompressEnds, RecvCheck, RecvMessage, RecvNone,
                StopInject, CaptureEnds, CaptureStops
  <2>9. PhaseInv'
    BY <1>1, <2>1, <2>6, <2>7, <2>8 DEF PhaseInv
  <2>10. ExitInv'
    BY <1>1, <2>1, <2>6, <2>7, <2>8 DEF ExitInv
  <2> QED BY <2>5, <2>9, <2>10 DEF SessionInv
<1>3. CASE ChildExits
  <2>1. /\ child = "running" /\ child' = "exited"
        /\ UNCHANGED <<cli, serverPc, failed, attempt, taskVars, readVars, clientVars>>
    BY <1>3 DEF ChildExits
  <2>2. TypeOK'
    BY <1>1, <2>1 DEF TypeOK, cli, taskVars, readVars, clientVars
  <2>3. PhaseInv' /\ ExitInv'
    BY <1>1, <2>1 DEF PhaseInv, ExitInv, taskVars, SetUp
  <2> QED BY <2>2, <2>3 DEF SessionInv
<1> QED BY <1>2, <1>3

\* The steps that shut a session down.
LEMMA ShutDownSteps ==
  ASSUME SessionInv, Select \/ JoinCompress \/ KillChild \/ ServerExits
  PROVE  SessionInv'
<1>1. TypeOK /\ PhaseInv /\ ExitInv
  BY DEF SessionInv
<1>2. UNCHANGED <<cli, failed, attempt, capture, compress, recvTask, readVars, clientVars>>
  BY DEF Select, JoinCompress, KillChild, ServerExits, taskVars
<1>3. /\ serverPc' \in {"join", "kill", "exit", "stopped"}
      /\ child' \in {"none", "running", "exited", "killed"}
  BY <1>1 DEF Select, JoinCompress, KillChild, ServerExits, TypeOK
<1>4. shutdown' \in BOOLEAN
  BY <1>1, Zenon DEF Select, JoinCompress, KillChild, ServerExits, taskVars, TypeOK
<1>5. TypeOK'
  BY <1>1, <1>2, <1>3, <1>4 DEF TypeOK, cli, readVars, clientVars
<1>6. CASE Select
  <2>1. serverPc = "select" /\ serverPc' = "join" /\ shutdown'
    BY <1>6 DEF Select
  <2> QED BY <1>1, <1>2, <1>5, <2>1 DEF SessionInv, PhaseInv, ExitInv, SetUp
<1>7. CASE JoinCompress
  <2>1. /\ serverPc = "join" /\ serverPc' = "kill" /\ compress = "ended"
        /\ shutdown' = shutdown
    BY <1>7 DEF JoinCompress, taskVars
  <2> QED BY <1>1, <1>2, <1>5, <2>1 DEF SessionInv, PhaseInv, ExitInv, SetUp
<1>8. CASE KillChild
  <2>1. /\ serverPc = "kill" /\ serverPc' = "exit" /\ child' # "running"
        /\ shutdown' = shutdown
    BY <1>8 DEF KillChild, taskVars
  <2> QED BY <1>1, <1>2, <1>5, <2>1 DEF SessionInv, PhaseInv, ExitInv, SetUp
<1>9. CASE ServerExits
  <2>1. /\ serverPc = "exit" /\ serverPc' = "stopped" /\ child' = child
        /\ shutdown' = shutdown
    BY <1>9 DEF ServerExits, taskVars
  <2> QED BY <1>1, <1>2, <1>5, <2>1 DEF SessionInv, PhaseInv, ExitInv, SetUp
<1> QED BY <1>6, <1>7, <1>8, <1>9

LEMMA NextSession == SessionInv /\ [Next]_vars => SessionInv'
<1> SUFFICES ASSUME SessionInv, [Next]_vars PROVE SessionInv'
  OBVIOUS
<1>1. CASE \/ ReadMessage \/ ForwardMessage \/ ReaderEnds \/ ClientHandshake
           \/ ClientFails \/ UserInput \/ ClientSelect \/ ClientKill \/ SshExits
           \/ ConnectionLost \/ UNCHANGED vars
  <2>1. TypeOK' /\ UNCHANGED <<serverVars, taskVars>>
    BY <1>1, ReaderTypes DEF SessionInv
  <2> QED BY <2>1 DEF SessionInv, PhaseInv, ExitInv, serverVars, taskVars
<1>2. CASE \/ AwaitHandshake \/ LaunchEarly \/ RetryBackend \/ CreateBackend
           \/ SpawnThreads \/ SpawnFails
  BY <1>2, SetUpSteps
<1>3. CASE TaskStep \/ CaptureEnds \/ CaptureStops \/ ChildExits
  BY <1>3, TaskSteps
<1>4. CASE Select \/ JoinCompress \/ KillChild \/ ServerExits
  BY <1>4, ShutDownSteps
<1> QED BY <1>1, <1>2, <1>3, <1>4 DEF Next, ServerStep, Terminated

-----------------------------------------------------------------------------
\* Every variable of a session keeps its type, for any number of retries and
\* any depth of the queues; the bound of the incoming channel is among them.
THEOREM TypeCorrect == Spec => []TypeOK
<1>1. SessionInv => TypeOK
  BY DEF SessionInv
<1> QED BY <1>1, InitSession, NextSession, PTL DEF Spec

\* Whatever ends a session (a signal, a lost connection, a closed window, the
\* end of the application), a run() that returns Ok has killed the application
\* or has seen it exit.
THEOREM NoApplicationIsLeft == Spec => []NoOrphan
<1>1. SessionInv => NoOrphan
  BY DEF SessionInv, ExitInv, NoOrphan
<1> QED BY <1>1, InitSession, NextSession, PTL DEF Spec

\* run() returns only after compress_handle.join(), and compress_send_loop
\* joins the capture thread before it ends.
THEOREM ServerJoinsThreads == Spec => []ThreadsJoined
<1>1. SessionInv => ThreadsJoined
  BY DEF SessionInv, ExitInv, ThreadsJoined
<1> QED BY <1>1, InitSession, NextSession, PTL DEF Spec
=============================================================================
