------------------------------- MODULE Session -------------------------------
(***************************************************************************)
(* A session from launch to exit: the server's run() and its tasks and     *)
(* threads (remoteway-server/src/main.rs, pipeline.rs), the client's run() *)
(* (remoteway-client/src/main.rs), and the ssh process between them.       *)
(*                                                                         *)
(* Capture, compression and injection appear as running or ended; what     *)
(* they do with frames and events is the matter of other modules.          *)
(*                                                                         *)
(* External: tokio reads stdin with a blocking read on a thread of its     *)
(* own, which nothing can cancel, and dropping the runtime waits for it.   *)
(***************************************************************************)
EXTENDS Integers, Sequences

CONSTANTS
  MayInterrupt,         \* SIGINT may reach the client or the server
  MaxRetries,           \* max_retries of retry_capture_backend
  IncomingQueueDepth,   \* INCOMING_QUEUE_DEPTH
  MaxStdin              \* bound: messages in the pipe to the server

ASSUME SessionAssumption ==
  /\ MayInterrupt \in BOOLEAN
  /\ MaxRetries \in Nat \ {0}
  /\ IncomingQueueDepth \in Nat \ {0}
  /\ MaxStdin \in Nat \ {0}

VARIABLES
  has_app_id, has_command,   \* the command line: --app-id, an application
  serverPc,     \* where the server's run() is
  failed,       \* it returns Err
  attempt,      \* of retry_capture_backend
  child,        \* the application: "none", "running", "exited", "killed"
  shutdown,     \* the flag the server's tasks share
  capture,      \* the capture thread: "off", "running", "ended"
  compress,     \* the compress thread: also "join", in capture.stop()
  recvTask,     \* recv_dispatch_loop: "off", "check", "recv", "stop", "ended"
  stdin,        \* messages in the pipe to the server
  reader,       \* read_loop: "read", "send", "ended"
  inHand,       \* the message it has read
  incoming,     \* the incoming channel
  clientPc,     \* where the client's run() is
  ssh           \* "running" or "exited"

cli == <<has_app_id, has_command>>
serverVars == <<cli, serverPc, failed, attempt, child>>
taskVars == <<shutdown, capture, compress, recvTask>>
readVars == <<stdin, reader, inHand, incoming>>
clientVars == <<clientPc, ssh>>
vars == <<serverVars, taskVars, readVars, clientVars>>

Message == {"handshake", "input"}

TypeOK ==
  /\ has_app_id \in BOOLEAN /\ has_command \in BOOLEAN
  /\ serverPc \in {"handshake", "launch", "backend", "fallback", "threads",
                   "select", "join", "kill", "exit", "stopped"}
  /\ failed \in BOOLEAN
  /\ attempt \in 1 .. MaxRetries
  /\ child \in {"none", "running", "exited", "killed"}
  /\ shutdown \in BOOLEAN
  /\ capture \in {"off", "running", "ended"}
  /\ compress \in {"off", "running", "join", "ended"}
  /\ recvTask \in {"off", "check", "recv", "stop", "ended"}
  /\ stdin \in Seq(Message) /\ Len(stdin) <= MaxStdin
  /\ reader \in {"read", "send", "ended"}
  /\ inHand \in Message
  /\ incoming \in Seq(Message) /\ Len(incoming) <= IncomingQueueDepth
  /\ clientPc \in {"handshake", "select", "kill", "stopped"}
  /\ ssh \in {"running", "exited"}

\* Both sides have sent their handshake and wait for the other's.
Init ==
  /\ has_app_id \in BOOLEAN /\ has_command \in BOOLEAN
  /\ serverPc = "handshake" /\ failed = FALSE /\ attempt = 1 /\ child = "none"
  /\ shutdown = FALSE /\ capture = "off" /\ compress = "off"
  /\ recvTask = "off"
  /\ stdin = <<"handshake">> /\ reader = "read" /\ inHand = "input"
  /\ incoming = <<>>
  /\ clientPc = "handshake" /\ ssh = "running"

-----------------------------------------------------------------------------
(* The server's read_loop *)

ReaderRuns == reader # "ended" /\ serverPc # "stopped"

\* No more input will come: ssh is gone, or it forwards the end of its own
\* standard input, whose other end the client held.
Eof == ssh = "exited" \/ clientPc = "stopped"

\* reader.read() returns a message.
ReadMessage ==
  /\ ReaderRuns /\ reader = "read"
  /\ stdin # <<>>
  /\ inHand' = Head(stdin) /\ stdin' = Tail(stdin)
  /\ reader' = "send"
  /\ UNCHANGED <<serverVars, taskVars, incoming, clientVars>>

\* The transport was dropped, and its receiver with it: by the receive task, or
\* by a run() that failed before it had one.
ReceiverGone == recvTask = "ended" \/ (recvTask = "off" /\ serverPc = "exit")

\* msg_tx.send(msg).await waits for room.
ForwardMessage ==
  /\ ReaderRuns /\ reader = "send" /\ ~ReceiverGone
  /\ Len(incoming) < IncomingQueueDepth
  /\ incoming' = Append(incoming, inHand)
  /\ reader' = "read"
  /\ UNCHANGED <<serverVars, taskVars, stdin, inHand, clientVars>>

\* End of file, a receiver that is gone, or a failed write in write_loop: the
\* I/O task ends, and what it had in hand is lost.
ReaderEnds ==
  /\ ReaderRuns
  /\ \/ reader = "read" /\ stdin = <<>> /\ Eof
     \/ reader = "send" /\ ReceiverGone
     \/ reader = "send" /\ Eof
  /\ reader' = "ended"
  /\ UNCHANGED <<serverVars, taskVars, stdin, inHand, incoming, clientVars>>

Closed == reader = "ended" /\ incoming = <<>>

-----------------------------------------------------------------------------
(* The server's run(): setting up *)

auto_detect_child == ~has_app_id /\ has_command
explicit_app_id_launch == has_app_id /\ has_command
LaunchesEarly == auto_detect_child \/ explicit_app_id_launch

\* run() returns an error.
Bail == serverPc' = "exit" /\ failed' = TRUE

\* The first message must be the client's handshake.
AwaitHandshake ==
  /\ serverPc = "handshake"
  /\ \/ /\ incoming # <<>>
        /\ incoming' = Tail(incoming)
        /\ IF Head(incoming) = "handshake"
           THEN serverPc' = "launch" /\ UNCHANGED failed
           ELSE Bail
     \/ Closed /\ Bail /\ UNCHANGED incoming
  /\ UNCHANGED <<cli, attempt, child, taskVars, stdin, reader, inHand,
                 clientVars>>

\* ensure_wayland_env, the snapshot of toplevels, launch_child: the window of
\* the application must exist before it can be captured.  Without a snapshot,
\* or without an application, the whole output is captured.
LaunchEarly ==
  /\ serverPc = "launch"
  /\ \/ Bail /\ UNCHANGED child
     \/ /\ LaunchesEarly
        /\ child' = "running"
        /\ \/ serverPc' = "backend"
           \/ auto_detect_child /\ serverPc' = "fallback"
        /\ UNCHANGED failed
     \/ ~LaunchesEarly /\ serverPc' = "fallback" /\ UNCHANGED <<failed, child>>
  /\ UNCHANGED <<cli, attempt, taskVars, readVars, clientVars>>

\* retry_capture_backend: an error is final when it is permanent or the last
\* attempt; a child window that was not found falls back to the output.
RetryBackend ==
  /\ serverPc = "backend"
  /\ \/ serverPc' = "threads" /\ UNCHANGED <<failed, attempt>>
     \/ /\ attempt < MaxRetries
        /\ attempt' = attempt + 1
        /\ UNCHANGED <<serverPc, failed>>
     \/ /\ IF auto_detect_child
           THEN serverPc' = "fallback" /\ UNCHANGED failed
           ELSE Bail
        /\ UNCHANGED attempt
  /\ UNCHANGED <<cli, child, taskVars, readVars, clientVars>>

\* create_capture_backend, once.
CreateBackend ==
  /\ serverPc = "fallback"
  /\ \/ serverPc' = "threads" /\ UNCHANGED failed
     \/ Bail
  /\ UNCHANGED <<cli, attempt, child, taskVars, readVars, clientVars>>

\* The threads and the receive task start.
SpawnThreads ==
  /\ serverPc = "threads"
  /\ capture' = "running" /\ compress' = "running"
  /\ recvTask' = "check"
  /\ serverPc' = "select"
  /\ UNCHANGED <<cli, failed, attempt, child, shutdown, readVars, clientVars>>

\* The capture, inject or compress thread does not start: the ? leaves run().
\* A capture thread that was started is dropped: told to stop, not joined.
SpawnFails ==
  /\ serverPc = "threads"
  /\ Bail
  /\ capture' \in {"off", "running"}
  /\ UNCHANGED <<cli, attempt, child, shutdown, compress, recvTask, readVars,
                 clientVars>>

-----------------------------------------------------------------------------
(* The server's tasks *)

\* The capture session ends: the window was closed, or the backend failed.
CaptureEnds ==
  /\ capture = "running" /\ serverPc # "stopped"
  /\ capture' = "ended"
  /\ UNCHANGED <<serverVars, shutdown, compress, recvTask, readVars,
                 clientVars>>

\* compress_send_loop leaves its loop on a finished capture, which it passes
\* on, or on the flag; either way capture.stop() raises stop_flag.
CompressStops ==
  /\ compress = "running"
  /\ shutdown \/ capture = "ended"
  /\ shutdown' = TRUE
  /\ compress' = "join"
  /\ UNCHANGED <<serverVars, capture, recvTask, readVars, clientVars>>

\* capture_loop sees stop_flag, which it looks at between two calls of
\* next_frame.  On ext-image-copy-capture the call under way returns only when
\* the screen changes next: a wait that timed out is waited again.
CaptureStops ==
  /\ capture = "running" /\ serverPc # "stopped"
  /\ compress = "join" \/ failed
  /\ capture' = "ended"
  /\ UNCHANGED <<serverVars, shutdown, compress, recvTask, readVars,
                 clientVars>>

\* The join in capture.stop() returns.
CompressEnds ==
  /\ compress = "join" /\ capture = "ended"
  /\ compress' = "ended"
  /\ UNCHANGED <<serverVars, shutdown, capture, recvTask, readVars,
                 clientVars>>

\* while !shutdown
RecvCheck ==
  /\ recvTask = "check"
  /\ recvTask' = IF shutdown THEN "stop" ELSE "recv"
  /\ UNCHANGED <<serverVars, shutdown, capture, compress, readVars,
                 clientVars>>

\* transport.recv() returns a message; an event goes to the inject thread.
RecvMessage ==
  /\ recvTask = "recv" /\ incoming # <<>>
  /\ incoming' = Tail(incoming)
  /\ recvTask' = "check"
  /\ UNCHANGED <<serverVars, shutdown, capture, compress, stdin, reader,
                 inHand, clientVars>>

\* Fault: a closed transport is taken for an empty one.
RecvNoneFault ==
  /\ recvTask = "recv" /\ Closed
  /\ recvTask' = "check"
  /\ UNCHANGED <<serverVars, shutdown, capture, compress, readVars,
                 clientVars>>

\* transport.recv() returns None.
RecvNone ==
  /\ recvTask = "recv" /\ Closed
  /\ shutdown' = TRUE
  /\ recvTask' = "stop"
  /\ UNCHANGED <<serverVars, capture, compress, readVars, clientVars>>

\* input_inject.stop() joins the inject thread; the task ends.
StopInject ==
  /\ recvTask = "stop"
  /\ recvTask' = "ended"
  /\ UNCHANGED <<serverVars, shutdown, capture, compress, readVars,
                 clientVars>>

TaskStep ==
  /\ serverPc # "stopped"
  /\ \/ CompressStops \/ CompressEnds
     \/ RecvCheck \/ RecvMessage \/ RecvNone \/ StopInject

\* The application exits.
ChildExits ==
  /\ child = "running"
  /\ child' = "exited"
  /\ UNCHANGED <<cli, serverPc, failed, attempt, taskVars, readVars,
                 clientVars>>

-----------------------------------------------------------------------------
(* The server's run(): shutting down *)

\* select!: SIGINT, the end of the receive task, or the end of the child.
Select ==
  /\ serverPc = "select"
  /\ MayInterrupt \/ recvTask = "ended" \/ child = "exited"
  /\ shutdown' = TRUE
  /\ serverPc' = "join"
  /\ UNCHANGED <<cli, failed, attempt, child, capture, compress, recvTask,
                 readVars,
                 clientVars>>

\* compress_handle.join()
JoinCompress ==
  /\ serverPc = "join" /\ compress = "ended"
  /\ serverPc' = "kill"
  /\ UNCHANGED <<cli, failed, attempt, child, taskVars, readVars, clientVars>>

\* Fault: the child is left alone.
KillChildFault ==
  /\ serverPc = "kill"
  /\ serverPc' = "exit"
  /\ UNCHANGED <<cli, failed, attempt, child, taskVars, readVars, clientVars>>

\* start_kill() and wait()
KillChild ==
  /\ serverPc = "kill"
  /\ child' = IF child = "running" THEN "killed" ELSE child
  /\ serverPc' = "exit"
  /\ UNCHANGED <<cli, failed, attempt, taskVars, readVars, clientVars>>

\* run() has returned.  Dropping the runtime cancels the tasks and waits for
\* the blocking read of stdin, if one is under way.
ServerExits ==
  /\ serverPc = "exit"
  /\ reader = "read" => stdin # <<>> \/ Eof
  /\ serverPc' = "stopped"
  /\ UNCHANGED <<cli, failed, attempt, child, taskVars, readVars, clientVars>>

ServerStep ==
  \/ AwaitHandshake \/ LaunchEarly \/ RetryBackend \/ CreateBackend
  \/ SpawnThreads \/ SpawnFails
  \/ JoinCompress \/ KillChild \/ ServerExits

-----------------------------------------------------------------------------
(* The client and ssh *)

\* The server's handshake arrives and the threads start.
ClientHandshake ==
  /\ clientPc = "handshake"
  /\ clientPc' = "select"
  /\ UNCHANGED <<serverVars, taskVars, readVars, ssh>>

\* Another message comes, or none, or the display or the input thread does not
\* start: run() returns an error and kills nothing.  An ssh that still runs is
\* left with its standard input closed.
ClientFails ==
  /\ clientPc = "handshake"
  /\ clientPc' = "stopped"
  /\ UNCHANGED <<serverVars, taskVars, readVars, ssh>>

\* The input thread forwards an event.
UserInput ==
  /\ clientPc = "select" /\ ssh = "running" /\ serverPc # "stopped"
  /\ Len(stdin) < MaxStdin
  /\ stdin' = Append(stdin, "input")
  /\ UNCHANGED <<serverVars, taskVars, reader, inHand, incoming, clientVars>>

\* Fault: the end of the transport is not noticed.
ClientSelectFault ==
  /\ clientPc = "select"
  /\ MayInterrupt /\ serverPc # "stopped" /\ ssh # "exited"
  /\ clientPc' = "kill"
  /\ UNCHANGED <<serverVars, taskVars, readVars, ssh>>

\* select!: SIGINT, the end of recv_decompress_loop (the server closed its
\* side) or the end of ssh.
ClientSelect ==
  /\ clientPc = "select"
  /\ MayInterrupt \/ serverPc = "stopped" \/ ssh = "exited"
  /\ clientPc' = "kill"
  /\ UNCHANGED <<serverVars, taskVars, readVars, ssh>>

\* child.kill().await
ClientKill ==
  /\ clientPc = "kill"
  /\ ssh' = "exited"
  /\ clientPc' = "stopped"
  /\ UNCHANGED <<serverVars, taskVars, readVars>>

\* ssh ends with the remote command.
SshExits ==
  /\ ssh = "running" /\ serverPc = "stopped"
  /\ ssh' = "exited"
  /\ UNCHANGED <<serverVars, taskVars, readVars, clientPc>>

\* The connection is lost.
ConnectionLost ==
  /\ MayInterrupt
  /\ ssh = "running"
  /\ ssh' = "exited"
  /\ UNCHANGED <<serverVars, taskVars, readVars, clientPc>>

Terminated ==
  /\ serverPc = "stopped" /\ clientPc = "stopped"
  /\ UNCHANGED vars

Next ==
  \/ ReadMessage \/ ForwardMessage \/ ReaderEnds
  \/ ServerStep \/ Select \/ TaskStep
  \/ CaptureEnds \/ CaptureStops \/ ChildExits
  \/ ClientHandshake \/ ClientFails \/ UserInput \/ ClientSelect \/ ClientKill
  \/ SshExits \/ ConnectionLost \/ Terminated

\* Every task, thread and process keeps running.  Nothing makes the user type,
\* the application exit, next_frame return, the capture end, a signal come or a
\* link break.
Fairness ==
  /\ WF_vars(ReadMessage \/ ForwardMessage \/ ReaderEnds)
  /\ WF_vars(ServerStep)
  /\ WF_vars(Select /\ (recvTask = "ended" \/ child = "exited"))
  /\ WF_vars((CompressStops \/ CompressEnds) /\ serverPc # "stopped")
  /\ WF_vars((RecvCheck \/ RecvMessage \/ RecvNone \/ StopInject)
             /\ serverPc # "stopped")
  /\ WF_vars(ClientHandshake \/ ClientFails)
  /\ WF_vars(ClientSelect /\ (serverPc = "stopped" \/ ssh = "exited"))
  /\ WF_vars(ClientKill)
  /\ WF_vars(SshExits)

Spec == Init /\ [][Next]_vars
FairSpec == Spec /\ Fairness

-----------------------------------------------------------------------------
(* Properties *)

\* A server that ends its session the regular way leaves no application
\* behind.
NoOrphan == serverPc = "stopped" /\ ~failed => child # "running"

\* A capture thread that was told to stop gets to see it.  The backends that
\* return whatever the screen does give this; ext-image-copy-capture gives it
\* only while the screen goes on changing.
NextFrameReturns == WF_vars(CaptureStops)

\* When the client is gone (SIGINT, an error, or a lost connection), the server
\* comes to an end: out of setting up, waiting or shutting down.  Only the join
\* in capture.stop() can hold it, and does not when next_frame returns.
ServerFollows ==
  NextFrameReturns => (clientPc = "stopped" ~> serverPc = "stopped")

\* When the server is gone, so is the client, in the end.
ClientFollows == serverPc = "stopped" ~> clientPc = "stopped"

\* A shutdown that one of the server's tasks asks for ends the server and the
\* client, if the user goes on typing or moving the pointer and next_frame
\* returns: run() and recv_dispatch_loop look at the flag when a message comes,
\* and capture_loop between two frames.
ShutdownEnds ==
  WF_vars(UserInput) /\ NextFrameReturns
    => (shutdown ~> serverPc = "stopped" /\ clientPc = "stopped")
=============================================================================
