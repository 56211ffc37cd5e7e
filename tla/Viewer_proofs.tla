---------------------------- MODULE Viewer_proofs ----------------------------
(***************************************************************************)
(* Safety of the two viewers.  First kpageflags-viewer, for every number   *)
(* of messages in flight; kpageflags-standalone follows.                   *)
(*                                                                         *)
(* The invariant follows the messages from the server to the window: each  *)
(* place they pass holds the successor of what the place before it, seen   *)
(* from the window, holds.  A thread that died breaks the chain behind it, *)
(* and nothing that is left in the channel is affected.                    *)
(***************************************************************************)
EXTENDS Viewer, Standalone, TLAPS

Messages == 0..Cycle

\* The newest message the window has, or has waiting in its channel
InWindow == IF chan = <<>> THEN update ELSE chan[1]

\* The newest message the client has received
Received == IF thread = "put" THEN held ELSE InWindow

\* The newest message that was sent
Sent == IF tcp = <<>> THEN Received ELSE tcp[Len(tcp)]

ChanOK == chan # <<>> => chan[1] = Succ(update)

Following ==
  thread \in {"recv", "put"} =>
    /\ conn = "open"
    /\ thread = "put" => held = Succ(InWindow)
    /\ tcp # <<>> => tcp[1] = Succ(Received)
    /\ \A i \in 1..(Len(tcp) - 1) : tcp[i + 1] = Succ(tcp[i])
    /\ next = Succ(Sent)

\* Before the client has connected nothing has been sent.
Quiet ==
  /\ conn = "none" => next = 0 /\ server \in {"absent", "starting", "listening", "exited"}
  /\ conn = "none" <=> thread = "none"
  /\ launcher \in {"start", "pause"} => client = "absent"
  /\ conn # "none" => client \notin {"absent", "connecting"}
  /\ client \in {"frame", "draw"} => conn # "none"
  /\ conn = "none" => tcp = <<>> /\ chan = <<>> /\ update = None

Shown ==
  /\ default_img <=> update # None
  /\ changed => update # None
  /\ ~changed => img = update
  /\ client = "frame" => ~changed

Inv == TypeOK /\ ChanOK /\ Following /\ Quiet /\ Shown

-----------------------------------------------------------------------------
\* Succ stays among the messages, and only None comes before the FirstUpdate.
LEMMA SuccType ==
  /\ None = -1 /\ None \notin Messages /\ None..Cycle = Messages \cup {None}
  /\ \A m \in Messages \cup {None} : Succ(m) \in Messages /\ (Succ(m) = 0 <=> m = None)
BY ViewerAssumption, CycleAssumption DEF Succ, None, Messages

LEMMA InitInv == Init => Inv
<1> SUFFICES ASSUME Init PROVE Inv
  OBVIOUS
<1> USE SuccType, ViewerAssumption, CycleAssumption DEF Init
<1>1. TypeOK
  <2>1. tcp \in Seq(0..Cycle) /\ Len(tcp) <= TcpRoom /\ chan \in Seq(0..Cycle) /\ Len(chan) <= 1
    OBVIOUS
  <2>2. next \in 0..Cycle /\ {held, update, img} \subseteq None..Cycle
    OBVIOUS
  <2> QED BY <2>1, <2>2 DEF TypeOK
<1>2. ChanOK /\ Following
  BY DEF ChanOK, Following
<1>3. Quiet /\ Shown
  BY DEF Quiet, Shown
<1> QED BY <1>1, <1>2, <1>3 DEF Inv

\* The launcher, the server but for Send, and a system that has stopped.
LEMMA QuietSteps ==
  Inv /\ (Launcher \/ Bind \/ Accept \/ ScanAll \/ UNCHANGED vars) => Inv'
<1> SUFFICES ASSUME Inv, Launcher \/ Bind \/ Accept \/ ScanAll \/ UNCHANGED vars PROVE Inv'
  OBVIOUS
<1> USE DEF Inv, Launcher, SpawnServer, SpawnClient, BothExited, Bind, Accept, ScanAll, vars, clientVars
<1>1. TypeOK'
  BY DEF TypeOK
<1>2. UNCHANGED <<next, conn, tcp, thread, held, chan, update, default_img, img, changed>>
  OBVIOUS
<1>3. ChanOK' /\ Following'
  BY <1>2 DEF ChanOK, Following, InWindow, Received, Sent
<1>4. Quiet'
  BY <1>2 DEF Quiet
<1>5. Shown'
  BY <1>2 DEF Shown
<1> QED BY <1>1, <1>3, <1>4, <1>5

LEMMA SendInv == Inv /\ Send => Inv'
<1> SUFFICES ASSUME Inv, Send PROVE Inv'
  OBVIOUS
<1> USE SuccType DEF Send, clientVars
<1>0. next \in Messages /\ Succ(next) \in Messages
  BY DEF Inv, TypeOK, Messages
<1>1. TypeOK'
  <2>1. tcp' \in Seq(Messages) /\ Len(tcp') <= TcpRoom
    <3>1. tcp \in Seq(Messages) /\ Len(tcp) \in Nat /\ Len(tcp) <= TcpRoom
      BY DEF Inv, TypeOK, Messages
    <3>2. tcp' = tcp \/ (Len(tcp) < TcpRoom /\ tcp' = Append(tcp, next))
      OBVIOUS
    <3> HIDE DEF Send
    <3>3. TcpRoom \in Nat
      BY ViewerAssumption
    <3>4. Append(tcp, next) \in Seq(Messages) /\ Len(Append(tcp, next)) = Len(tcp) + 1
      BY <1>0, <3>1
    <3>5. Len(tcp) < TcpRoom => Len(tcp) + 1 <= TcpRoom
      BY <3>1, <3>3
    <3> QED BY <3>1, <3>2, <3>4, <3>5, Zenon
  <2>2. next' \in Messages
    BY <1>0
  <2> QED BY <2>1, <2>2 DEF Inv, TypeOK, Messages
<1>2. UNCHANGED <<thread, held, chan, update, default_img, img, changed, client, launcher>>
  OBVIOUS
<1>3. ChanOK' /\ Shown'
  BY <1>2 DEF Inv, ChanOK, Shown
<1>4. Following'
  <2> SUFFICES ASSUME thread \in {"recv", "put"} PROVE Following'
    BY <1>2 DEF Following
  <2>1. conn = "open" /\ tcp \in Seq(Messages)
    BY DEF Inv, Following, TypeOK, Messages
  <2>2. conn' = "open" /\ tcp' = Append(tcp, next) /\ next' = Succ(next)
    BY <2>1
  <2>3. InWindow' = InWindow /\ Received' = Received
    BY <1>2 DEF InWindow, Received
  <2>4. Sent' = next
    BY <2>1, <2>2 DEF Sent
  <2>5. \A i \in 1..(Len(tcp') - 1) : tcp'[i + 1] = Succ(tcp'[i])
    <3> SUFFICES ASSUME NEW i \in 1..(Len(tcp') - 1) PROVE tcp'[i + 1] = Succ(tcp'[i])
      OBVIOUS
    <3>1. CASE i = Len(tcp)
      BY <2>1, <2>2, <3>1 DEF Inv, Following, Sent
    <3>2. CASE i # Len(tcp)
      BY <2>1, <2>2, <3>2 DEF Inv, Following
    <3> QED BY <3>1, <3>2
  <2>6. tcp'[1] = Succ(Received')
    BY <2>1, <2>2, <2>3 DEF Inv, Following, Sent
  <2> QED BY <1>2, <2>2, <2>3, <2>4, <2>5, <2>6 DEF Inv, Following
<1>5. Quiet'
  BY <1>2 DEF Inv, Quiet
<1> QED BY <1>1, <1>3, <1>4, <1>5 DEF Inv

LEMMA ConnectInv == Inv /\ Connect => Inv'
<1> SUFFICES ASSUME Inv, Connect PROVE Inv'
  OBVIOUS
<1> USE SuccType DEF Connect
<1>1. TypeOK'
  BY DEF Inv, TypeOK, Quiet
<1>2. ChanOK' /\ Shown'
  BY DEF Inv, ChanOK, Shown, Quiet
<1>3. Following'
  BY DEF Inv, Following, Quiet, InWindow, Received, Sent
<1>4. Quiet'
  BY DEF Inv, Quiet
<1> QED BY <1>1, <1>2, <1>3, <1>4 DEF Inv

\* A socket that is closed breaks the chain; only the channel is left of it.
LEMMA RecvInv == Inv /\ Recv => Inv'
<1> SUFFICES ASSUME Inv, Recv PROVE Inv'
  OBVIOUS
<1> USE DEF Recv, Socket, CloseSocket
<1>0. tcp \in Seq(Messages) /\ Messages \subseteq None..Cycle
  BY SuccType DEF Inv, TypeOK, Messages
<1>1. TypeOK'
  <2>1. CASE tcp' = Tail(tcp) /\ held' = Head(tcp) /\ tcp # <<>> /\ UNCHANGED conn
    <3>1. tcp' \in Seq(Messages) /\ Len(tcp') <= TcpRoom /\ held' \in Messages
      <4>1. Len(tcp) <= TcpRoom /\ TcpRoom \in Nat
        BY ViewerAssumption, CycleAssumption DEF Inv, TypeOK
      <4> HIDE DEF Recv, Socket, CloseSocket
      <4> QED BY <1>0, <2>1, <4>1
    <3> QED BY <1>0, <2>1, <3>1 DEF Inv, TypeOK, Messages
  <2>2. CASE thread' = "dead" /\ CloseSocket /\ UNCHANGED held
    BY <2>2, ViewerAssumption, CycleAssumption DEF Inv, TypeOK
  <2> QED BY <2>1, <2>2
<1>2. ChanOK' /\ Shown' /\ Quiet'
  BY DEF Inv, ChanOK, Shown, Quiet
<1>3. Following'
  <2>1. CASE thread' = "dead"
    BY <2>1 DEF Following
  <2>2. CASE tcp # <<>> /\ held' = Head(tcp) /\ tcp' = Tail(tcp) /\ thread' = "put" /\ UNCHANGED conn
    <3>1. InWindow' = InWindow /\ Received = InWindow /\ Received' = tcp[1]
      BY <1>0, <2>2 DEF InWindow, Received
    <3>2. Len(tcp') = Len(tcp) - 1 /\ \A i \in 1..Len(tcp') : tcp'[i] = tcp[i + 1]
      BY <1>0, <2>2
    <3>3. Sent' = Sent
      <4>1. CASE Len(tcp) = 1
        <5>1. tcp' = <<>> /\ Sent = tcp[1]
          BY <1>0, <2>2, <4>1 DEF Sent
        <5> QED BY <3>1, <5>1 DEF Sent
      <4>2. CASE Len(tcp) # 1
        <5>1. Len(tcp') \in 1..Len(tcp') /\ Len(tcp') + 1 = Len(tcp)
          BY <1>0, <2>2, <3>2, <4>2
        <5>2. tcp' # <<>>
          <6>1. Len(tcp') # 0
            BY <5>1
          <6>2. Len(<<>>) = 0
            OBVIOUS
          <6> HIDE DEF Recv, Socket, CloseSocket
          <6> QED BY <6>1, <6>2, Zenon
        <5>3. tcp'[Len(tcp')] = tcp[Len(tcp)]
          BY <3>2, <5>1
        <5> QED BY <2>2, <5>2, <5>3 DEF Sent
      <4> QED BY <4>1, <4>2
    <3>4. \A i \in 1..(Len(tcp) - 1) : tcp[i + 1] = Succ(tcp[i])
      BY DEF Inv, Following
    <3>5. held' = Succ(InWindow') /\ next' = Succ(Sent') /\ conn' = "open"
      BY <1>0, <2>2, <3>1, <3>3 DEF Inv, Following
    <3>6. tcp' # <<>> => tcp'[1] = Succ(Received')
      BY <1>0, <2>2, <3>1, <3>2, <3>4
    <3>7. \A i \in 1..(Len(tcp') - 1) : tcp'[i + 1] = Succ(tcp'[i])
      BY <1>0, <3>2, <3>4
    <3> QED BY <2>2, <3>5, <3>6, <3>7 DEF Following
  <2> QED BY <2>1, <2>2
<1> QED BY <1>1, <1>2, <1>3 DEF Inv

LEMMA TrySendInv == Inv /\ TrySend => Inv'
<1> SUFFICES ASSUME Inv, TrySend PROVE Inv'
  OBVIOUS
<1> USE DEF TrySend, Socket, CloseSocket
<1>0. chan = <<>> => held \in Messages
  BY SuccType DEF Inv, Following, InWindow, TypeOK, Messages
<1>1. TypeOK'
  <2>1. CASE chan = <<>> /\ chan' = <<held>> /\ UNCHANGED <<conn, tcp>>
    BY <1>0, <2>1, SuccType DEF Inv, TypeOK, Messages
  <2>2. CASE thread' = "dead" /\ CloseSocket /\ UNCHANGED chan
    BY <2>2, ViewerAssumption, CycleAssumption, SuccType DEF Inv, TypeOK, Messages
  <2> QED BY <2>1, <2>2
<1>2. ChanOK'
  BY DEF Inv, ChanOK, Following, InWindow
<1>3. Shown' /\ Quiet'
  BY DEF Inv, Shown, Quiet
<1>4. Following'
  <2>1. CASE thread' = "dead"
    BY <2>1 DEF Following
  <2>2. CASE chan = <<>> /\ chan' = <<held>> /\ thread' = "recv" /\ UNCHANGED <<conn, tcp>>
    <3>1. Received' = Received /\ Sent' = Sent
      BY <2>2 DEF Received, InWindow, Sent
    <3> QED BY <2>2, <3>1 DEF Inv, Following
  <2> QED BY <2>1, <2>2
<1> QED BY <1>1, <1>2, <1>3, <1>4 DEF Inv

\* The main thread leaves everything behind it as it was.
LEMMA ExitInv ==
  ASSUME Inv, client \in {"frame", "draw"}, ClientExits, UNCHANGED <<launcher, server, next, memory_segments>>
  PROVE  Inv'
<1> USE DEF ClientExits, CloseSocket
<1>1. TypeOK'
  BY ViewerAssumption, CycleAssumption, SuccType DEF Inv, TypeOK, Messages
<1>2. ChanOK' /\ Following'
  BY DEF Inv, ChanOK, Following
<1>3. Quiet' /\ Shown'
  BY DEF Inv, Quiet, Shown
<1> QED BY <1>1, <1>2, <1>3 DEF Inv

LEMMA PollInv == Inv /\ Poll => Inv'
<1> SUFFICES ASSUME Inv, Poll, ~ClientExits PROVE Inv'
  BY ExitInv DEF Poll
<1> USE SuccType DEF Poll
<1>0. chan \in Seq(Messages) /\ Messages \subseteq None..Cycle /\ 0 \in Messages
  BY ViewerAssumption, CycleAssumption DEF Inv, TypeOK, Messages
<1>1. chan # <<>> => Head(chan) = chan[1] /\ chan[1] \in Messages /\ chan[1] = Succ(update)
  BY <1>0 DEF Inv, ChanOK
<1>2. update' = IF chan = <<>> THEN update ELSE chan[1]
  BY <1>1
<1>3. TypeOK'
  <2>1. /\ update \in None..Cycle /\ img \in None..Cycle
        /\ default_img \in BOOLEAN /\ changed \in BOOLEAN
    BY DEF Inv, TypeOK
  <2>2. update' \in None..Cycle
    BY <1>0, <1>1, <1>2, <2>1
  <2>3. img' = img \/ img' = 0
    OBVIOUS
  <2>4. default_img' = default_img \/ default_img' = TRUE
    OBVIOUS
  <2>5. changed' = changed \/ changed' = TRUE
    OBVIOUS
  <2>6. chan' = <<>>
    OBVIOUS
  <2>7. img' \in None..Cycle /\ default_img' \in BOOLEAN /\ changed' \in BOOLEAN
    BY <1>0, <2>1, <2>3, <2>4, <2>5
  <2>8. chan' \in Seq(0..Cycle) /\ Len(chan') <= 1
    BY <2>6
  <2>9. UNCHANGED <<launcher, server, next, conn, tcp, thread, held, memory_segments>> /\ client' = "draw"
    OBVIOUS
  <2> HIDE DEF Poll
  <2> QED BY <2>2, <2>7, <2>8, <2>9 DEF Inv, TypeOK
<1>4. ChanOK' /\ InWindow' = InWindow
  BY <1>2 DEF ChanOK, InWindow
<1>5. Following'
  <2>1. Received' = Received /\ Sent' = Sent
    BY <1>4 DEF Received, Sent
  <2> QED BY <1>4, <2>1 DEF Inv, Following
<1>6. Quiet'
  BY DEF Inv, Quiet
<1>7. Shown'
  <2>1. update \in Messages \cup {None}
    BY DEF Inv, TypeOK, Messages
  <2> QED BY <1>1, <1>2, <2>1 DEF Inv, Shown
<1> QED BY <1>3, <1>4, <1>5, <1>6, <1>7 DEF Inv

LEMMA DrawInv == Inv /\ Draw => Inv'
<1> SUFFICES ASSUME Inv, Draw PROVE Inv'
  OBVIOUS
<1>1. CASE ClientExits
  BY <1>1, ExitInv DEF Draw
<1>2. CASE /\ client' = "frame"
           /\ ~changed' /\ img' = IF changed THEN update ELSE img
           /\ UNCHANGED <<conn, tcp, thread, held, chan, update, default_img>>
  <2> UNCHANGED <<launcher, server, next, memory_segments>> /\ client = "draw"
    BY DEF Draw
  <2>0. changed' = FALSE
    BY <1>2 DEF Draw, Inv, TypeOK
  <2>1. TypeOK'
    BY <1>2, <2>0 DEF Inv, TypeOK
  <2>2. ChanOK' /\ Following'
    BY <1>2 DEF Inv, ChanOK, Following, InWindow, Received, Sent
  <2>3. Quiet' /\ Shown'
    BY <1>2, <2>0 DEF Inv, Quiet, Shown
  <2> QED BY <2>1, <2>2, <2>3 DEF Inv
<1> QED BY <1>1, <1>2 DEF Draw

LEMMA NextInv == Inv /\ [Next]_vars => Inv'
<1> SUFFICES ASSUME Inv, [Next]_vars PROVE Inv'
  OBVIOUS
<1>1. CASE CloseWindow
  BY <1>1, ExitInv DEF CloseWindow
<1> QED
  BY <1>1, QuietSteps, SendInv, ConnectInv, RecvInv, TrySendInv, PollInv, DrawInv
     DEF Next, Server, Receiver, Window, Ended

LEMMA InvHolds == Spec => []Inv
BY InitInv, NextInv, PTL DEF Spec

-----------------------------------------------------------------------------
(***************************************************************************)
(* Theorems                                                                *)
(***************************************************************************)
\* The channel and the connection keep to their room, whatever their readers
\* do, and the socket thread does not outlive the client.
THEOREM TypeCorrect == Spec => []TypeOK
BY InvHolds, PTL DEF Inv

\* gen_image is never called without default_img (kpageflags-viewer.rs:490-494).
THEOREM ImageIsReady == Spec => []ImageReady
<1>1. Inv => ImageReady
  BY DEF Inv, Shown, ImageReady
<1> QED BY <1>1, InvHolds, PTL

\* A complete frame shows one message, in the panels and in the picture.
THEOREM PictureMatches == Spec => []PictureMatchesData
<1>1. Inv => PictureMatchesData
  BY DEF Inv, Shown, PictureMatchesData
<1> QED BY <1>1, InvHolds, PTL

\* The window follows the server message by message, or not at all.
THEOREM NothingSkipped == Spec => NoGaps
<1>1. Inv /\ [Next]_vars => [update' # update => update' = Succ(update)]_vars
  <2> SUFFICES ASSUME Inv, Next, update' # update PROVE update' = Succ(update)
    OBVIOUS
  <2>1. Poll
    BY DEF Next, Launcher, SpawnServer, SpawnClient, BothExited, Server, Bind, Accept, ScanAll,
           Send, Receiver, Recv, TrySend, Socket, Window, Connect, Draw, ClientExits, CloseWindow,
           Ended, vars, clientVars
  <2>2. chan # <<>> => Head(chan) = Succ(update)
    BY SuccType DEF Inv, ChanOK, TypeOK
  <2> QED BY <2>1, <2>2 DEF Poll, ClientExits
<1> QED BY <1>1, InvHolds, PTL DEF Spec, NoGaps

-----------------------------------------------------------------------------
(***************************************************************************)
(* kpageflags-standalone.  The data of a picture are in one of four places *)
(* on their way from the main thread to the screen: the painter's channel, *)
(* the painter, the channel of images, the picture.  The newest are in the *)
(* first of them that is not empty, and only Feed changes what they are,   *)
(* until the painter panics.                                               *)
(***************************************************************************)
Numbers == 1..Cycle
Channels == {<<>>} \cup {<<n>> : n \in Numbers}

\* The data of the newest image
Newest == IF input # <<>> THEN input[1]
          ELSE IF painting # <<>> THEN painting[1]
          ELSE IF images # <<>> THEN images[1]
          ELSE texture

\* A channel with room for one is empty or holds one.
Places ==
  /\ main \in {"receive", "feed", "fetch", "panic", "closed"}
  /\ worker \in {"collect", "send", "dead"} /\ autorefresh \in BOOLEAN /\ painter \in BOOLEAN
  /\ segments \in 0..Cycle /\ texture \in 0..Cycle /\ collected \in 0..Cycle
  /\ rx \in Channels /\ input \in Channels /\ painting \in Channels /\ images \in Channels
  /\ worker = "send" => collected \in Numbers
  /\ main = "feed" => segments \in Numbers

Follows == painter /\ main \in {"receive", "fetch"} => segments = Newest

-----------------------------------------------------------------------------
LEMMA ChannelType ==
  ASSUME NEW room \in Channels
  PROVE  /\ room \in Seq(Numbers) /\ Len(room) <= 1
         /\ room # <<>> => room = <<room[1]>> /\ Head(room) = room[1] /\ room[1] \in Numbers /\ Len(room) = 1
<1>1. CASE room = <<>>
  BY <1>1
<1>2. CASE \E n \in Numbers : room = <<n>>
  BY <1>2
<1> QED BY <1>1, <1>2 DEF Channels

LEMMA PlacesInit == StandaloneInit => Places /\ Follows
BY CycleAssumption DEF StandaloneInit, Places, Channels, Follows, Newest

LEMMA PlacesStep == Places /\ [StandaloneNext]_standalonevars => Places'
<1> SUFFICES ASSUME Places, [StandaloneNext]_standalonevars PROVE Places'
  OBVIOUS
<1> USE DEF Places
<1>0. <<>> \in Channels /\ \A n \in Numbers : <<n>> \in Channels
  BY DEF Channels
<1>1. Numbers \subseteq 0..Cycle
  BY CycleAssumption DEF Numbers
<1>2. CASE Collect
  BY <1>2, CycleAssumption DEF Collect, Numbers, Succ
<1>3. CASE SendData
  BY <1>0, <1>3 DEF SendData
<1>4. CASE TakeInput \/ FailToPaint \/ SendImage
  BY <1>0, <1>4 DEF TakeInput, FailToPaint, SendImage
<1>5. CASE Receive
  BY <1>0, <1>1, <1>5, ChannelType DEF Receive
<1>6. CASE Feed
  BY <1>0, <1>6 DEF Feed
<1>7. CASE Fetch
  BY <1>0, <1>1, <1>7, ChannelType DEF Fetch
<1>8. CASE Close \/ UNCHANGED standalonevars
  BY <1>8 DEF Close, standalonevars
<1> QED
  BY <1>2, <1>3, <1>4, <1>5, <1>6, <1>7, <1>8
     DEF StandaloneNext, Main, Worker, Painter

LEMMA FollowsStep == Places /\ Follows /\ [StandaloneNext]_standalonevars => Follows'
<1> SUFFICES ASSUME Places, Follows, [StandaloneNext]_standalonevars PROVE Follows'
  OBVIOUS
<1> USE DEF Follows
<1>1. CASE Collect \/ SendData \/ FailToPaint \/ Close \/ UNCHANGED standalonevars
  BY <1>1 DEF Collect, SendData, FailToPaint, Close, standalonevars, Newest
\* What leaves a place goes to the next one, which was empty.
<1>2. CASE TakeInput
  BY <1>2 DEF TakeInput, Newest
<1>3. CASE SendImage
  BY <1>3 DEF SendImage, Newest
<1>4. CASE Receive
  BY <1>4 DEF Receive, Newest
<1>5. CASE Feed
  BY <1>5 DEF Feed, Newest
<1>6. CASE Fetch
  <2>1. images # <<>> => Head(images) = images[1]
    BY ChannelType DEF Places
  <2> QED BY <1>6, <2>1 DEF Fetch, Newest
<1> QED
  BY <1>1, <1>2, <1>3, <1>4, <1>5, <1>6
     DEF StandaloneNext, Main, Worker, Painter

LEMMA FollowsHolds == StandaloneSpec => [](Places /\ Follows)
BY PlacesInit, PlacesStep, FollowsStep, PTL DEF StandaloneSpec

\* No channel ever holds more than its room, however the threads interleave.
THEOREM StandaloneTypeCorrect == StandaloneSpec => []StandaloneTypeOK
<1>1. Places => StandaloneTypeOK
  <2> SUFFICES ASSUME Places PROVE StandaloneTypeOK
    OBVIOUS
  <2>1. \A room \in {rx, input, painting, images} : room \in Seq(1..Cycle) /\ Len(room) <= 1
    BY ChannelType DEF Places, Numbers
  <2> QED BY <2>1 DEF Places, StandaloneTypeOK
<1> QED BY <1>1, FollowsHolds, PTL

\* The panel's data are those of the newest image, wherever it is, as long as
\* the painter lives
\* (kpageflags-standalone.rs:329-367).
THEOREM PictureIsFollowing == StandaloneSpec => []PictureFollows
<1>1. Places => Newest = Last(<<texture>> \o images \o painting \o input)
  <2> SUFFICES ASSUME Places PROVE Newest = Last(<<texture>> \o images \o painting \o input)
    OBVIOUS
  <2> DEFINE Line == <<texture>> \o images \o painting \o input
  <2>1. texture \in 0..Cycle /\ images \in Seq(0..Cycle) /\ painting \in Seq(0..Cycle) /\ input \in Seq(0..Cycle)
    <3>1. Numbers \subseteq 0..Cycle
      BY CycleAssumption DEF Numbers
    <3>2. \A room \in Channels : room \in Seq(0..Cycle)
      <4> SUFFICES ASSUME NEW room \in Channels PROVE room \in Seq(0..Cycle)
        OBVIOUS
      <4>1. CASE room = <<>>
        BY <4>1
      <4>2. CASE \E n \in Numbers : room = <<n>>
        BY <3>1, <4>2
      <4> QED BY <4>1, <4>2 DEF Channels
    <3> QED BY <3>2 DEF Places
  <2>2. /\ Len(Line) = 1 + Len(images) + Len(painting) + Len(input)
        /\ input # <<>> => Len(input) = 1 /\ Line[Len(Line)] = input[1]
    BY <2>1, ChannelType DEF Places
  <2>3. input = <<>> /\ painting # <<>> => Line[Len(Line)] = painting[1]
    BY <2>1, ChannelType DEF Places
  <2>4. input = <<>> /\ painting = <<>> /\ images # <<>> => Line[Len(Line)] = images[1]
    BY <2>1, ChannelType DEF Places
  <2>5. input = <<>> /\ painting = <<>> /\ images = <<>> => Line[Len(Line)] = texture
    BY <2>1
  <2> QED BY <2>2, <2>3, <2>4, <2>5 DEF Newest, Last
<1>2. Places /\ Follows => PictureFollows
  BY <1>1 DEF Follows, PictureFollows
<1> QED BY <1>2, FollowsHolds, PTL

=============================================================================
