------------------------------ MODULE InputPath ------------------------------
(***************************************************************************)
(* The way of a key event from the user's keyboard to the application:     *)
(* the input capture thread of the client (remoteway-input/src/            *)
(* capture.rs, capture_thread.rs), the transport, recv_dispatch_loop of    *)
(* the server (remoteway-server/src/pipeline.rs), the inject thread        *)
(* (inject_thread.rs) and the virtual keyboard (inject.rs).                *)
(*                                                                         *)
(* An event is a key that goes down or up; `nr` numbers the events.        *)
(* Pointer buttons take the same way.                                      *)
(*                                                                         *)
(* External: the local compositor sends key events to the client that has  *)
(* the keyboard focus, and to no other.                                    *)
(***************************************************************************)
EXTENDS Integers, Sequences

CONSTANTS
  Keys,
  IncomingQueueDepth,   \* INCOMING_QUEUE_DEPTH
  InjectRing,           \* InputInjectConfig::ring_capacity
  MayEnd,               \* the connection, either Wayland connection or either
                        \* process may end
  MaxEvents             \* bound: events typed

ASSUME InputAssumption ==
  /\ IncomingQueueDepth \in Nat \ {0}
  /\ InjectRing \in Nat \ {0}
  /\ MayEnd \in BOOLEAN
  /\ MaxEvents \in Nat

VARIABLES
  keyboard,     \* the keys the user holds down
  missed,       \* history: the keys that are not as the compositor last said
  typed,        \* how many events the compositor has sent
  socket,       \* events the local compositor has sent
  capturePc,    \* the capture thread: "poll", "send", "done"
  pending_events,   \* the events of this round
  sentUpTo,     \* how many of them the loop over them has sent
  captureStop,  \* its stop flag
  connected,    \* the connection is up
  input_tx,     \* the transport's input queue
  wire,         \* written and not yet read
  incoming,     \* the server's incoming channel
  recvPc,       \* where recv_dispatch_loop is
  shutdown,     \* the server's flag
  ring,         \* the inject thread's ring
  injectStop,   \* its stop flag
  injectPc,     \* the inject thread: "new", "check", "pop", "done"
  injected,     \* history: events injected, in order
  remote,       \* the keys that are down for the application
  dropped,      \* history: the events the full ring refused
  gone          \* history: the events that ended with the capture thread

userVars == <<keyboard, missed, typed>>
clientVars == <<userVars, socket, capturePc, pending_events, sentUpTo,
                captureStop, gone>>
serverVars == <<recvPc, shutdown, ring, injectStop, injectPc, injected, remote,
                dropped>>
transportVars == <<connected, input_tx, wire, incoming>>
vars == <<clientVars, transportVars, serverVars>>

Event == [nr : 1 .. MaxEvents, key : Keys, down : BOOLEAN]

TypeOK ==
  /\ {keyboard, missed, remote} \subseteq SUBSET Keys
  /\ typed \in 0 .. MaxEvents
  /\ {socket, pending_events, input_tx, wire, incoming, ring, injected}
       \subseteq Seq(Event)
  /\ sentUpTo \in 0 .. Len(pending_events)
  /\ capturePc \in {"poll", "send", "done"}
  /\ recvPc \in {"check", "recv", "stop", "join", "done"}
  /\ injectPc \in {"new", "check", "pop", "done"}
  /\ {captureStop, connected, shutdown, injectStop} \subseteq BOOLEAN
  /\ Len(incoming) <= IncomingQueueDepth
  /\ Len(ring) <= InjectRing
  /\ {dropped, gone} \subseteq SUBSET (1 .. MaxEvents)

Init ==
  /\ keyboard = {} /\ missed = {} /\ typed = 0
  /\ socket = <<>> /\ gone = {}
  /\ capturePc = "poll" /\ pending_events = <<>> /\ sentUpTo = 0
  /\ captureStop = FALSE
  /\ connected = TRUE /\ input_tx = <<>> /\ wire = <<>> /\ incoming = <<>>
  /\ recvPc = "check" /\ shutdown = FALSE
  /\ ring = <<>> /\ injectStop = FALSE /\ injectPc = "new"
  /\ injected = <<>> /\ remote = {} /\ dropped = {}

-----------------------------------------------------------------------------
(* The client *)

\* The key changes between up and down.
Toggle(K, k) == IF k \in K THEN K \ {k} ELSE K \cup {k}

\* The user presses or lets go of a key, and the compositor tells the client.
Type(k) ==
  /\ typed < MaxEvents /\ capturePc # "done"
  /\ typed' = typed + 1
  /\ keyboard' = Toggle(keyboard, k)
  /\ socket' = Append(socket, [nr |-> typed', key |-> k,
                               down |-> k \notin keyboard])
  /\ missed' = missed \ {k}
  /\ UNCHANGED <<capturePc, pending_events, sentUpTo, captureStop, gone,
                 transportVars, serverVars>>

\* The user does so while another window has the focus, or after the capture
\* thread has closed its connection: the client is not told.  The focus is no
\* state of the client: its handler takes Key events only, and ignores Enter,
\* which lists the keys that are down, and Leave, which lets go of all of them.
TypeElsewhere(k) ==
  /\ keyboard' = Toggle(keyboard, k)
  /\ missed' = Toggle(missed, k)
  /\ UNCHANGED <<typed, socket, capturePc, pending_events, sentUpTo,
                 captureStop, gone, transportVars, serverVars>>

\* Fault: the buffer is not cleared.
PollEventsFault ==
  /\ capturePc = "poll" /\ ~captureStop
  /\ pending_events' = pending_events \o socket /\ socket' = <<>>
  /\ sentUpTo' = 0
  /\ capturePc' = IF pending_events' = <<>> THEN "poll" ELSE "send"
  /\ UNCHANGED <<userVars, captureStop, gone, transportVars, serverVars>>

\* poll_events: the buffer is cleared and takes what has arrived.
PollEvents ==
  /\ capturePc = "poll" /\ ~captureStop
  /\ pending_events' = socket /\ socket' = <<>>
  /\ sentUpTo' = 0
  /\ capturePc' = IF pending_events' = <<>> THEN "poll" ELSE "send"
  /\ UNCHANGED <<userVars, captureStop, gone, transportVars, serverVars>>

\* What is left of a round.
Rest == SubSeq(pending_events, sentUpTo + 1, Len(pending_events))

Numbers(s) == {s[i].nr : i \in 1 .. Len(s)}

\* The capture thread returns.  Its InputCapture is dropped with what was in it,
\* and so is its connection.
CaptureEnds ==
  /\ capturePc' = "done"
  /\ gone' = gone \cup Numbers(Rest \o socket)
  /\ pending_events' = <<>> /\ sentUpTo' = 0 /\ socket' = <<>>
  /\ UNCHANGED <<keyboard, missed, typed, captureStop>>

\* for event in events { if !sender(event) { return Ok(()); } }
SendInput ==
  /\ capturePc = "send" /\ connected
  /\ sentUpTo' = sentUpTo + 1
  /\ input_tx' = Append(input_tx, pending_events[sentUpTo'])
  /\ capturePc' = IF sentUpTo' = Len(pending_events) THEN "poll" ELSE "send"
  /\ UNCHANGED <<userVars, socket, pending_events, captureStop, gone,
                 connected, wire, incoming, serverVars>>

SendFails ==
  /\ capturePc = "send" /\ ~connected
  /\ CaptureEnds
  /\ UNCHANGED <<transportVars, serverVars>>

\* if stop_flag.load(Acquire) { break; }
CaptureStops ==
  /\ capturePc = "poll" /\ captureStop
  /\ CaptureEnds
  /\ UNCHANGED <<transportVars, serverVars>>

\* poll_events fails, or InputCapture::new did.
PollFails ==
  /\ MayEnd
  /\ capturePc = "poll" /\ ~captureStop
  /\ CaptureEnds
  /\ UNCHANGED <<transportVars, serverVars>>

\* The client's run() returns and drops the InputCaptureThread.
DropCapture ==
  /\ MayEnd /\ ~captureStop
  /\ captureStop' = TRUE
  /\ UNCHANGED <<userVars, socket, capturePc, pending_events, sentUpTo, gone,
                 transportVars, serverVars>>

-----------------------------------------------------------------------------
(* The transport *)

\* write_loop.
WriteInput ==
  /\ connected /\ input_tx # <<>>
  /\ wire' = Append(wire, Head(input_tx))
  /\ input_tx' = Tail(input_tx)
  /\ UNCHANGED <<clientVars, connected, incoming, serverVars>>

\* read_loop of the server, which waits for room in the channel.
ReadInput ==
  /\ wire # <<>> /\ recvPc # "done"
  /\ Len(incoming) < IncomingQueueDepth
  /\ incoming' = Append(incoming, Head(wire))
  /\ wire' = Tail(wire)
  /\ UNCHANGED <<clientVars, connected, input_tx, serverVars>>

\* The connection ends: what was not written is lost, and so may be the last of
\* what was.
Disconnect ==
  /\ MayEnd /\ connected
  /\ connected' = FALSE
  /\ input_tx' = <<>>
  /\ \E n \in 0 .. Len(wire) : wire' = SubSeq(wire, 1, n)
  /\ UNCHANGED <<clientVars, incoming, serverVars>>

-----------------------------------------------------------------------------
(* The server *)

\* while !shutdown.load(Acquire): the flag is looked at between two messages.
CheckShutdown ==
  /\ recvPc = "check"
  /\ recvPc' = IF shutdown THEN "stop" ELSE "recv"
  /\ UNCHANGED <<clientVars, transportVars, shutdown, ring, injectStop,
                 injectPc, injected, remote, dropped>>

\* Fault: an event that finds the ring full takes the place of the last one.
DispatchReplaces ==
  /\ recvPc = "recv" /\ incoming # <<>>
  /\ ring' = IF Len(ring) < InjectRing THEN Append(ring, Head(incoming))
             ELSE [ring EXCEPT ![Len(ring)] = Head(incoming)]
  /\ incoming' = Tail(incoming)
  /\ recvPc' = "check"
  /\ UNCHANGED <<clientVars, connected, input_tx, wire, shutdown,
                 injectStop, injectPc, injected, remote, dropped>>

\* recv_dispatch_loop: an event goes into the ring, or is dropped if it is full.
Dispatch ==
  /\ recvPc = "recv" /\ incoming # <<>>
  /\ IF Len(ring) < InjectRing
     THEN /\ ring' = Append(ring, Head(incoming))
          /\ UNCHANGED dropped
     ELSE /\ dropped' = dropped \cup {Head(incoming).nr}
          /\ UNCHANGED ring
  /\ incoming' = Tail(incoming)
  /\ recvPc' = "check"
  /\ UNCHANGED <<clientVars, connected, input_tx, wire, shutdown,
                 injectStop, injectPc, injected, remote>>

\* transport.recv() returns None.
RecvNone ==
  /\ recvPc = "recv"
  /\ ~connected /\ wire = <<>> /\ incoming = <<>>
  /\ shutdown' = TRUE
  /\ recvPc' = "stop"
  /\ UNCHANGED <<clientVars, transportVars, ring, injectStop, injectPc,
                 injected, remote, dropped>>

\* input_inject.stop() raises the stop flag ...
StopInject ==
  /\ recvPc = "stop"
  /\ injectStop' = TRUE
  /\ recvPc' = "join"
  /\ UNCHANGED <<clientVars, transportVars, shutdown, ring, injectPc, injected,
                 remote, dropped>>

\* ... and joins the thread.
JoinInject ==
  /\ recvPc = "join" /\ injectPc = "done"
  /\ recvPc' = "done"
  /\ UNCHANGED <<clientVars, transportVars, shutdown, ring, injectStop,
                 injectPc, injected, remote, dropped>>

\* Another task of the server asks for a shutdown.
Shutdown ==
  /\ MayEnd /\ ~shutdown
  /\ shutdown' = TRUE
  /\ UNCHANGED <<clientVars, transportVars, recvPc, ring, injectStop, injectPc,
                 injected, remote, dropped>>

\* Fault: the flag is not looked at.
CheckStopFault ==
  /\ injectPc = "check"
  /\ injectPc' = "pop"
  /\ UNCHANGED <<clientVars, transportVars, recvPc, shutdown, ring, injectStop,
                 injected, remote, dropped>>

\* if stop_flag.load(Acquire) { break; }
CheckStop ==
  /\ injectPc = "check"
  /\ injectPc' = IF injectStop THEN "done" ELSE "pop"
  /\ UNCHANGED <<clientVars, transportVars, recvPc, shutdown, ring, injectStop,
                 injected, remote, dropped>>

\* Fault: the state of the key is not looked at.
KeysAfterFault(e) == remote \cup {e.key}

\* inject_key: the key is down or up for the application.
KeysAfter(e) == IF e.down THEN remote \cup {e.key} ELSE remote \ {e.key}

\* consumer.pop(): dispatch_event and flush, or an empty ring.
Inject ==
  /\ injectPc = "pop"
  /\ IF ring = <<>>
     THEN UNCHANGED <<ring, injected, remote>>
     ELSE /\ ring' = Tail(ring)
          /\ injected' = Append(injected, Head(ring))
          /\ remote' = KeysAfter(Head(ring))
  /\ injectPc' = "check"
  /\ UNCHANGED <<clientVars, transportVars, recvPc, shutdown, injectStop,
                 dropped>>

\* VirtualInput::new() binds the devices of the compositor.
InjectReady ==
  /\ injectPc = "new"
  /\ injectPc' = "check"
  /\ UNCHANGED <<clientVars, transportVars, recvPc, shutdown, ring, injectStop,
                 injected, remote, dropped>>

\* VirtualInput::new() fails: the thread is gone, the ring still there.
InjectFails ==
  /\ MayEnd
  /\ injectPc = "new"
  /\ injectPc' = "done"
  /\ UNCHANGED <<clientVars, transportVars, recvPc, shutdown, ring, injectStop,
                 injected, remote, dropped>>

-----------------------------------------------------------------------------
CaptureStep == PollEvents \/ SendInput \/ SendFails \/ CaptureStops
RecvStep == CheckShutdown \/ Dispatch \/ RecvNone \/ StopInject \/ JoinInject
InjectStep == InjectReady \/ CheckStop \/ Inject

Next ==
  \/ \E k \in Keys : Type(k) \/ TypeElsewhere(k)
  \/ CaptureStep \/ PollFails \/ DropCapture
  \/ WriteInput \/ ReadInput \/ Disconnect
  \/ RecvStep \/ Shutdown
  \/ InjectStep \/ InjectFails

\* Every thread and task keeps running.
Fairness ==
  /\ WF_vars(CaptureStep)
  /\ WF_vars(WriteInput)
  /\ WF_vars(ReadInput)
  /\ WF_vars(RecvStep)
  /\ WF_vars(InjectStep)

Spec == Init /\ [][Next]_vars
FairSpec == Spec /\ Fairness

-----------------------------------------------------------------------------
(* Properties *)

\* The events on their way, the farthest first.
UnderWay == ring \o (incoming \o (wire \o (input_tx \o (Rest \o socket))))

\* Between the local compositor and the virtual keyboard no event overtakes
\* another or is doubled, through four queues and three threads ...
InOrder ==
  LET all == injected \o UnderWay
  IN  \A i, j \in 1 .. Len(all) : i < j => all[i].nr < all[j].nr

\* ... and none is lost, except to a full inject ring, to an ended connection,
\* or with the capture thread, when it ends, what that thread had not sent.
NothingLost ==
  connected =>
    Numbers(injected \o UnderWay) \cup dropped \cup gone = 1 .. typed

\* The user holds the keys in K, and both sides are up.
Steady(K) ==
  /\ keyboard = K
  /\ connected /\ ~shutdown
  /\ capturePc # "done" /\ injectPc # "done"

\* While the ring has room for every event, a key sticks only if it went down
\* or up while another window had the focus: when the user's hands rest, the
\* application sees every other key as the user holds it.  (The handler of
\* wl_keyboard ignores Enter and Leave.)
KeysFollow ==
  \A K \in SUBSET Keys :
    [](dropped = {}) /\ <>[]Steady(K)
      => <>[](\A k \in Keys \ missed : k \in remote <=> k \in K)

\* When the connection is gone, recv_dispatch_loop comes to its end: the inject
\* thread sees its flag, however full its ring is, and the join returns.
InjectStops == ~connected ~> recvPc = "done"
=============================================================================
