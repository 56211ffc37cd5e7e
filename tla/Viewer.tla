------------------------------- MODULE Viewer -------------------------------
(***************************************************************************)
(* kpageflags-viewer: a server that scans the machine and sends what it    *)
(* finds over TCP, a client that shows it, and the launcher that runs      *)
(* both on the same machine.                                               *)
(*                                                                         *)
(* The client has two threads.  The socket thread receives messages and    *)
(* puts them into a channel with room for one; it panics when the channel  *)
(* is full, and its socket is then closed.  The main thread looks into     *)
(* the channel once per frame and draws.  Message 0 is the FirstUpdate,    *)
(* the others are Updates; they are numbered modulo Cycle, so that         *)
(* neighbours differ and the server can go on for ever.                    *)
(*                                                                         *)
(* Message::Finish is not modelled: nothing in the program sends it.       *)
(***************************************************************************)
EXTENDS Numbering, Sequences

CONSTANTS TcpRoom,   \* messages the two ends of the connection buffer
          Segments   \* numbers of System RAM segments machines have

ASSUME ViewerAssumption ==
  TcpRoom \in Nat \ {0} /\ Segments \subseteq Nat

VARIABLES
  launcher, \* start, pause, wait, done
  server,   \* absent, starting, listening, scanning, sending, exited
  next,     \* the message the server sends next
  conn,     \* the connection as the server sees it: none, open, closed, reset
  tcp,      \* messages in the connection
  client,   \* main thread: absent, connecting, frame, draw, exited
  thread,   \* socket thread: none, recv, put, dead
  held,     \* the message the socket thread has received
  chan,     \* the sync_channel(1)
  update,   \* the local of async_client: the last message, or None
  default_img, \* whether it, and order, are Some
  img,      \* the Update img was drawn from, 0 for the grey default_img, or None
  changed,
  memory_segments  \* how many the messages have

clientVars == <<client, thread, held, chan, update, default_img, img, changed>>
vars == <<launcher, server, next, conn, tcp, clientVars, memory_segments>>

None == -1

Init ==
  /\ launcher = "start" /\ server = "absent" /\ client = "absent" /\ thread = "none"
  /\ conn = "none" /\ tcp = <<>> /\ chan = <<>>
  /\ next = 0 /\ held = None /\ update = None /\ img = None
  /\ default_img = FALSE /\ changed = FALSE
  /\ memory_segments \in Segments

(***************************************************************************)
(* The launcher: main without arguments.                                   *)
(***************************************************************************)
SpawnServer ==
  /\ launcher = "start"
  /\ launcher' = "pause" /\ server' = "starting"
  /\ UNCHANGED <<next, conn, tcp, clientVars, memory_segments>>

\* Ten milliseconds later, wherever the server is by then.
SpawnClient ==
  /\ launcher = "pause"
  /\ launcher' = "wait" /\ client' = "connecting"
  /\ UNCHANGED <<server, next, conn, tcp, thread, held, chan, update, default_img, img, changed, memory_segments>>

\* The polling loop ends when both children have exited.
BothExited ==
  /\ launcher = "wait" /\ server = "exited" /\ client = "exited"
  /\ launcher' = "done"
  /\ UNCHANGED <<server, next, conn, tcp, clientVars, memory_segments>>

(***************************************************************************)
(* The server.                                                             *)
(***************************************************************************)
\* TcpListener::bind panics when the address is taken.
Bind ==
  /\ server = "starting"
  /\ server' \in {"listening", "exited"}
  /\ UNCHANGED <<launcher, next, conn, tcp, clientVars, memory_segments>>

Accept ==
  /\ server = "listening" /\ conn # "none"
  /\ server' = "scanning"
  /\ UNCHANGED <<launcher, next, conn, tcp, clientVars, memory_segments>>

\* get_all_processes_info and get_memory_zones_flags; their unwraps may panic
\* in any scan, at the latest in the first when /proc/kpageflags cannot be read.
ScanAll ==
  /\ server = "scanning"
  /\ server' \in {"sending", "exited"}
  /\ UNCHANGED <<launcher, next, conn, tcp, clientVars, memory_segments>>

\* Mutant: errors of send are ignored
SendIgnoring ==
  /\ server = "sending"
  /\ conn = "open" => Len(tcp) < TcpRoom
  /\ tcp' = IF conn = "open" THEN Append(tcp, next) ELSE tcp
  /\ next' = Succ(next) /\ server' = "scanning"
  /\ UNCHANGED <<launcher, conn, clientVars, memory_segments>>

\* message.send(..).unwrap().  It waits while the connection is full.  The
\* first write to a peer that is gone provokes a reset; the next one fails.
Send ==
  /\ server = "sending"
  /\ \/ /\ conn = "open" /\ Len(tcp) < TcpRoom
        /\ tcp' = Append(tcp, next)
        /\ next' = Succ(next) /\ server' = "scanning"
        /\ UNCHANGED conn
     \/ /\ conn = "closed"
        /\ conn' = "reset"
        /\ next' = Succ(next) /\ server' = "scanning"
        /\ UNCHANGED tcp
     \/ /\ conn = "reset"
        /\ server' = "exited"
        /\ UNCHANGED <<next, conn, tcp>>
  /\ UNCHANGED <<launcher, clientVars, memory_segments>>

(***************************************************************************)
(* The client.                                                             *)
(***************************************************************************)
\* connect_timeout(..).unwrap(): refused unless the server listens.
Connect ==
  /\ client = "connecting"
  /\ \/ /\ server = "listening"
        /\ conn' = "open" /\ client' = "frame" /\ thread' = "recv"
     \/ /\ server # "listening"
        /\ client' = "exited"
        /\ UNCHANGED <<conn, thread>>
  /\ UNCHANGED <<launcher, server, next, tcp, held, chan, update, default_img, img, changed, memory_segments>>

\* The socket is dropped: unread data makes it a reset.
CloseSocket == /\ conn' = IF conn = "reset" \/ tcp # <<>> THEN "reset" ELSE "closed"
               /\ tcp' = <<>>

Socket == /\ client \in {"frame", "draw"}
          /\ UNCHANGED <<launcher, server, next, client, update, default_img, img, changed, memory_segments>>

\* Message::recv(..).unwrap(): a message, one too big, or the end of the stream
Recv ==
  /\ Socket
  /\ thread = "recv"
  /\ \/ /\ tcp # <<>>
        /\ held' = Head(tcp) /\ tcp' = Tail(tcp) /\ thread' = "put"
        /\ UNCHANGED conn
     \/ /\ tcp # <<>> \/ server = "exited"
        /\ thread' = "dead" /\ CloseSocket
        /\ UNCHANGED held
  /\ UNCHANGED chan

\* Mutants of TrySend: a channel that keeps the latest message, an error that
\* is ignored
TrySendAs(full) ==
  /\ Socket
  /\ thread = "put"
  /\ chan' = IF chan = <<>> THEN <<held>> ELSE full
  /\ thread' = "recv" /\ held' = None
  /\ UNCHANGED <<conn, tcp>>
TrySendLatest    == TrySendAs(<<held>>)
TrySendDrop      == TrySendAs(chan)

\* tx.try_send(message).unwrap()
TrySend ==
  /\ Socket
  /\ thread = "put"
  /\ held' = None
  /\ \/ /\ chan = <<>>
        /\ chan' = <<held>> /\ thread' = "recv"
        /\ UNCHANGED <<conn, tcp>>
     \/ /\ chan # <<>>
        /\ thread' = "dead" /\ CloseSocket
        /\ UNCHANGED chan

\* Mutant: an Update replaces the data and not the picture
PollQuiet ==
  /\ client = "frame"
  /\ client' = "draw"
  /\ chan' = <<>>
  /\ update' = IF chan = <<>> THEN update ELSE Head(chan)
  /\ default_img' = (default_img \/ update' = 0)
  /\ img' = IF chan = <<0>> THEN 0 ELSE img
  /\ UNCHANGED <<launcher, server, next, conn, tcp, thread, held, changed, memory_segments>>

\* The main thread panics or returns: the process ends with its threads.
ClientExits == /\ client' = "exited" /\ thread' = "dead" /\ held' = None /\ CloseSocket
               /\ UNCHANGED <<chan, update, default_img, img, changed>>

\* The start of a frame: rx.try_recv().  The FirstUpdate gives the grey
\* default_img, and no picture of its flags; its unwraps panic on some layouts
\* of memory (which ones is in FrameFlags).
Poll ==
  /\ client = "frame"
  /\ \/ /\ client' = "draw"
        /\ chan' = <<>>
        /\ \/ /\ chan = <<>>
              /\ UNCHANGED <<update, default_img, img, changed>>
           \/ /\ chan # <<>> /\ Head(chan) = 0
              /\ update' = 0 /\ default_img' = TRUE /\ img' = 0
              /\ UNCHANGED changed
           \/ /\ chan # <<>> /\ Head(chan) # 0
              /\ update' = Head(chan) /\ changed' = TRUE
              /\ UNCHANGED <<default_img, img>>
        /\ UNCHANGED <<conn, tcp, thread, held>>
     \/ /\ chan # <<>> /\ Head(chan) = 0
        /\ ClientExits
  /\ UNCHANGED <<launcher, server, next, memory_segments>>

\* The rest of a frame.  gen_image needs default_img, and its assertions may
\* fail as the unwraps above.  The Stats tab shows memory_segments[2], when
\* there is one and compute_compound_pages does not panic on its flags.
Draw ==
  /\ client = "draw"
  /\ \/ changed /\ ClientExits
     \/ /\ ~changed /\ img = None
        /\ client' = "frame"
        /\ UNCHANGED <<conn, tcp, thread, held, chan, update, default_img, img, changed>>
     \/ /\ changed => default_img
        /\ changed \/ img # None
        /\ \E tab \in {"Info", "Stats"} :
             \/ /\ tab = "Stats" => memory_segments > 2
                /\ client' = "frame"
                /\ img' = IF changed THEN update ELSE img
                /\ changed' = FALSE
                /\ UNCHANGED <<conn, tcp, thread, held, chan, update, default_img>>
             \/ /\ tab = "Stats"
                /\ ClientExits
  /\ UNCHANGED <<launcher, server, next, memory_segments>>

\* The user closes the window, between two frames.
CloseWindow ==
  /\ client = "frame"
  /\ ClientExits
  /\ UNCHANGED <<launcher, server, next, memory_segments>>

Launcher == SpawnServer \/ SpawnClient \/ BothExited
Server   == Bind \/ Accept \/ ScanAll \/ Send
Receiver == Recv \/ TrySend
Window   == Connect \/ Poll \/ Draw

\* The system stops when the launcher is done, or when the server waits for a
\* client that has already given up.
Ended == /\ launcher = "done" \/ (server = "listening" /\ conn = "none" /\ client = "exited")
         /\ UNCHANGED vars

Next == Launcher \/ Server \/ Receiver \/ Window \/ CloseWindow \/ Ended

\* Processes and threads are scheduled; users need not close windows.
Fairness == WF_vars(Launcher) /\ WF_vars(Server) /\ WF_vars(Receiver) /\ WF_vars(Window)

Spec == Init /\ [][Next]_vars /\ Fairness

-----------------------------------------------------------------------------
\* Types; the channel and the connection keep to their room, and no thread
\* outlives the client.
TypeOK ==
  /\ launcher \in {"start", "pause", "wait", "done"}
  /\ server \in {"absent", "starting", "listening", "scanning", "sending", "exited"}
  /\ client \in {"absent", "connecting", "frame", "draw", "exited"}
  /\ thread \in {"none", "recv", "put", "dead"}
  /\ conn \in {"none", "open", "closed", "reset"}
  /\ next \in 0..Cycle /\ {held, update, img} \subseteq None..Cycle
  /\ tcp \in Seq(0..Cycle) /\ Len(tcp) <= TcpRoom
  /\ chan \in Seq(0..Cycle) /\ Len(chan) <= 1
  /\ default_img \in BOOLEAN /\ changed \in BOOLEAN /\ memory_segments \in Segments
  /\ client = "exited" => thread \in {"none", "dead"}

\* The unwraps of default_img and order in gen_image's call (490-494) rest on
\* the FirstUpdate coming through the connection, the socket thread and the
\* channel before any Update: they never fail.
ImageReady == changed => default_img

\* The client shows every message the server sent, in order: it may stop
\* following, but never skips one and goes on.
NoGaps == [][update' # update => update' = Succ(update)]_vars

\* What the panels say of a page and what the picture shows come from the
\* same message, whenever a frame is complete; with the FirstUpdate in the
\* panels, the picture is default_img.
PictureMatchesData == client = "frame" /\ img # None => img = update

\* A message that reached the client is drawn (of the FirstUpdate, only
\* default_img), unless the socket thread died.
LiveView ==
  \A m \in 0..Cycle : (thread = "recv" /\ tcp # <<>> /\ Head(tcp) = m)
                        ~> ((client = "frame" /\ img = m) \/ thread = "dead")

\* Whatever ends the client's side of a connection - the window, a panic, a
\* full channel - the server ends too; and once the client has exited so does
\* the launcher, unless ten milliseconds were too few (774): the connection
\* was refused to a server that was starting, and accepts nobody ever after.
ExitPropagates ==
  /\ thread = "dead" ~> server = "exited"
  /\ client = "exited" ~> (launcher = "done" \/ [](server = "listening" /\ conn = "none"))

=============================================================================
