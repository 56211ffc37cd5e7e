----------------------------- MODULE Standalone -----------------------------
(***************************************************************************)
(* kpageflags-standalone: three threads around three channels with room    *)
(* for one.  The worker collects flags and processes about once a second   *)
(* and sends them; the main thread takes them, keeps them for the panel    *)
(* and feeds them to the painter; the painter turns them into an image,    *)
(* which the main thread fetches and shows.  Worker and painter may panic  *)
(* (the unwraps of get_segments, all_processes and gen_image); the other   *)
(* threads go on, and find their channels disconnected.                    *)
(*                                                                         *)
(* What the worker collects is numbered modulo Cycle, so that neighbours   *)
(* differ; 0 is what main collected itself before the first frame, which   *)
(* the panel shows and of which no image is made.  Zoom, colours and text  *)
(* are left out.                                                           *)
(***************************************************************************)
EXTENDS Numbering, Sequences, SequencesExt

VARIABLES
  main,        \* where the main thread is: receive, feed, fetch, panic, closed
  autorefresh,
  segments,    \* the data the panel shows
  texture,     \* the data img and the texture of it show, 0 for default_img
  worker,      \* collect, send, dead
  collected,   \* the data the worker collected last
  rx,          \* from the worker to main
  input,       \* from main to the painter: tx_image_input
  painting,    \* the image the painter has in hand, if any
  images,      \* from the painter to main: tx_image
  painter      \* whether the painter has not panicked

standalonevars ==
  <<main, autorefresh, segments, texture, worker, collected, rx, input, painting, images, painter>>

StandaloneInit ==
  /\ main = "receive" /\ worker = "collect"
  /\ autorefresh = TRUE
  /\ segments = 0 /\ texture = 0 /\ collected = 0
  /\ rx = <<>> /\ input = <<>> /\ painting = <<>> /\ images = <<>>
  /\ painter = TRUE

Running == main \in {"receive", "feed", "fetch"}

\* The worker thread: get_segments, get_all_processes_pfns
Collect ==
  /\ Running /\ worker = "collect"
  /\ \/ worker' = "send" /\ collected' = Succ(collected)
     \/ worker' = "dead" /\ UNCHANGED collected
  /\ UNCHANGED <<main, autorefresh, segments, texture, rx, input, painting, images, painter>>

\* tx.send waits for room.
SendData ==
  /\ Running /\ worker = "send" /\ rx = <<>>
  /\ rx' = <<collected>>
  /\ worker' = "collect"
  /\ UNCHANGED <<main, autorefresh, segments, texture, collected, input, painting, images, painter>>

\* The painter polls its channel.
TakeInput ==
  /\ Running /\ painter /\ painting = <<>> /\ input # <<>>
  /\ painting' = input /\ input' = <<>>
  /\ UNCHANGED <<main, autorefresh, segments, texture, worker, collected, rx, images, painter>>

\* gen_image panics: the picture in hand is lost, and what waits in the channel.
FailToPaint ==
  /\ Running /\ painting # <<>>
  /\ painter' = FALSE /\ painting' = <<>> /\ input' = <<>>
  /\ UNCHANGED <<main, autorefresh, segments, texture, worker, collected, rx, images>>

\* tx_image.send waits for room.
SendImage ==
  /\ Running /\ painting # <<>> /\ images = <<>>
  /\ images' = painting /\ painting' = <<>>
  /\ UNCHANGED <<main, autorefresh, segments, texture, worker, collected, rx, input, painter>>

\* Mutant: the channel is only looked into when autorefresh is on
ReceiveIfOn ==
  /\ main = "receive"
  /\ autorefresh' \in BOOLEAN
  /\ IF autorefresh' /\ rx # <<>>
     THEN main' = "feed" /\ segments' = Head(rx) /\ rx' = <<>>
     ELSE main' = "fetch" /\ UNCHANGED <<segments, rx>>
  /\ UNCHANGED <<texture, worker, collected, input, painting, images, painter>>

\* The start of a frame: Space toggles autorefresh; the channel is emptied
\* whether it is on or not, and the data are dropped when it is off.
Receive ==
  /\ main = "receive"
  /\ autorefresh' \in BOOLEAN
  /\ rx' = <<>>
  /\ IF autorefresh' /\ rx # <<>>
     THEN main' = "feed" /\ segments' = Head(rx)
     ELSE main' = "fetch" /\ UNCHANGED segments
  /\ UNCHANGED <<texture, worker, collected, input, painting, images, painter>>

\* Mutant: data that find the painter's channel full are dropped
FeedDrop ==
  /\ main = "feed"
  /\ main' = "fetch"
  /\ input' = IF input = <<>> /\ painter THEN <<segments>> ELSE input
  /\ UNCHANGED <<autorefresh, segments, texture, worker, collected, rx, painting, images, painter>>

\* tx_image_input.try_send(..).expect(..): the painter is more than one image
\* behind when its channel is full; the channel of a dead one is disconnected.
Feed ==
  /\ main = "feed"
  /\ IF input = <<>> /\ painter THEN main' = "fetch" /\ input' = <<segments>>
                                ELSE main' = "panic" /\ UNCHANGED input
  /\ UNCHANGED <<autorefresh, segments, texture, worker, collected, rx, painting, images, painter>>

\* Mutants: images are only fetched while autorefresh is on; main waits for
\* an image
FetchIfOn ==
  /\ main = "fetch"
  /\ main' = "receive"
  /\ IF autorefresh /\ images # <<>> THEN texture' = Head(images) /\ images' = <<>>
                                     ELSE UNCHANGED <<texture, images>>
  /\ UNCHANGED <<autorefresh, segments, worker, collected, rx, input, painting, painter>>
FetchWaits ==
  /\ main = "fetch" /\ images # <<>>
  /\ main' = "receive"
  /\ texture' = Head(images) /\ images' = <<>>
  /\ UNCHANGED <<autorefresh, segments, worker, collected, rx, input, painting, painter>>

\* rx_image.try_recv(), and the rest of the frame; an error is passed over,
\* whether the channel is empty or disconnected.
Fetch ==
  /\ main = "fetch"
  /\ main' = "receive"
  /\ texture' = IF images = <<>> THEN texture ELSE Head(images)
  /\ images' = <<>>
  /\ UNCHANGED <<autorefresh, segments, worker, collected, rx, input, painting, painter>>

\* The window is closed at the end of a frame, and the process exits.
Close ==
  /\ main = "receive"
  /\ main' = "closed"
  /\ UNCHANGED <<autorefresh, segments, texture, worker, collected, rx, input, painting, images, painter>>

Main    == Receive \/ Feed \/ Fetch
Worker  == Collect \/ SendData
Painter == TakeInput \/ FailToPaint \/ SendImage

StandaloneNext == Main \/ Worker \/ Painter \/ Close \/ (~Running /\ UNCHANGED standalonevars)

\* Frames are drawn and the two threads are scheduled.
StandaloneSpec ==
  /\ StandaloneInit /\ [][StandaloneNext]_standalonevars
  /\ WF_standalonevars(Main) /\ WF_standalonevars(Worker) /\ WF_standalonevars(Painter)

-----------------------------------------------------------------------------
\* Types; every channel has room for one.
StandaloneTypeOK ==
  /\ main \in {"receive", "feed", "fetch", "panic", "closed"}
  /\ worker \in {"collect", "send", "dead"} /\ autorefresh \in BOOLEAN /\ painter \in BOOLEAN
  /\ segments \in 0..Cycle /\ texture \in 0..Cycle /\ collected \in 0..Cycle
  /\ \A chan \in {rx, input, painting, images} : chan = <<>> \/ chan \in Seq(1..Cycle)
  /\ \A chan \in {rx, input, painting, images} : Len(chan) <= 1

\* The data in the panel are those of the newest image, shown or on its way
\* through the painter and the channels: no data taken from the worker are
\* left without a picture (329-367), unless the painter has panicked.
PictureFollows ==
  painter /\ main \in {"receive", "fetch"} =>
    segments = Last(<<texture>> \o images \o painting \o input)

\* When autorefresh stays off, panel and picture come to show the same data,
\* unless the painter has panicked over them.
CatchesUp == <>[]~autorefresh => <>[](texture = segments \/ ~painter \/ ~Running)

\* When it stays on and the worker lives, new pictures keep coming, until main
\* finds the painter too slow or dead, or the window is closed: a picture does
\* not stay for ever because the painter has panicked.
Refreshing ==
  \A m \in 0..Cycle : <>[](autorefresh /\ worker # "dead") => []<>(texture # m \/ ~Running)

\* The worker never waits for ever, with autorefresh on or off and whatever
\* becomes of the painter: data do not grow old in the channel.
WorkerRuns == worker = "send" ~> (worker = "collect" \/ ~Running)

=============================================================================
