---------------------------- MODULE ImageChannel ----------------------------
(***************************************************************************)
(* How the preview images reach the IDE: the rendering thread inside       *)
(* VirtualScreenImpl::Send (rich) or ScheduleBufferSend (lite) and         *)
(* WebSocketServer::WriteData, and the server thread inside                *)
(* WebSocketServer::ProtocolCallback.  Connections are numbered in the     *)
(* order in which the server accepts them; images are numbered in the      *)
(* order in which Send is called.                                          *)
(***************************************************************************)
EXTENDS Naturals, Sequences

CONSTANTS MaxConns,   (* bound on the connections                          *)
          MaxImages,  (* bound on the images                               *)
          Size,       (* the length of each image, once it is a JPEG       *)
          Overlap     (* may a client connect before the server has seen   *)
                      (* the previous connection close?                    *)

ASSUME BoundsAssumption == MaxConns \in Nat \ {0} /\ MaxImages \in Nat
ASSUME SizeAssumption == Size \in [1..MaxImages -> Nat \ {0}]
ASSUME OverlapAssumption == Overlap \in BOOLEAN

Conns == 1..MaxConns
Null == 0

VARIABLES
    conn,              (* per connection: how far the server is with it    *)
    webSocket,         (* the connection established last, Null before     *)
    webSocketWritable, (* the flag the two threads share                   *)
    received,          (* per connection: the images the client got        *)
    writer,            (* where the rendering thread is                    *)
    image,             (* the image of the current or last call of Send    *)
    firstImage,        (* the image kept for reconnection, 0 for none      *)
    firstImagebufferSize, (* its length, as the server was told, or 0      *)
    resent,            (* what clients were sent again: [image, size]      *)
    lite,              (* the lite previewer                               *)
    crashed,           (* a freed connection was used and the process died *)
    calm               (* an environment whose clients never come or go    *)
                       (* while an image is between the first test and the *)
                       (* cache                                            *)

vars == <<conn, webSocket, webSocketWritable, received, writer, image,
          firstImage, firstImagebufferSize, resent, lite, crashed, calm>>
kept == <<firstImage, firstImagebufferSize>>

\* States of the connections and of the writer; only images that Send was given
\* are received or kept.
TypeOK ==
    /\ conn \in [Conns -> {"new", "established", "open", "closed"}]
    /\ webSocket \in Conns \cup {Null}
    /\ webSocketWritable \in {"INIT", "UNWRITEABLE", "WRITEABLE"}
    /\ received \in [Conns -> Seq(1..MaxImages)]
    /\ writer \in {"idle", "waiting", "testing", "writing", "caching"}
    /\ image \in 0..MaxImages
    /\ firstImage \in 0..MaxImages
    /\ firstImagebufferSize \in Nat /\ lite \in BOOLEAN
    /\ resent \subseteq [image : 1..MaxImages, size : Nat]
    /\ crashed \in BOOLEAN /\ calm \in BOOLEAN

Init ==
    /\ conn = [c \in Conns |-> "new"]
    /\ webSocket = Null
    /\ webSocketWritable = "INIT"
    /\ received = [c \in Conns |-> <<>>]
    /\ writer = "idle"
    /\ image = 0
    /\ firstImage = 0 /\ firstImagebufferSize = 0 /\ resent = {}
    /\ lite \in BOOLEAN
    /\ crashed = FALSE
    /\ calm \in BOOLEAN

-----------------------------------------------------------------------------
\* What the environment is allowed to do to the connections now.
ConnectionsMayChange ==
    ~crashed /\ (calm => writer \in {"idle", "waiting"})

\* LWS_CALLBACK_ESTABLISHED.
Established(c) ==
    /\ ConnectionsMayChange
    /\ conn[c] = "new"
    /\ \A b \in 1..(c - 1) : conn[b] = "closed" \/ (Overlap /\ conn[b] # "new")
    /\ conn' = [conn EXCEPT ![c] = "established"]
    /\ webSocket' = c
    /\ UNCHANGED <<webSocketWritable, received, writer, image, kept, crashed, calm, resent, lite>>

\* Mutant of Writeable: the kept image is not sent again.
WriteableWithoutResend(c) ==
    /\ ~crashed
    /\ conn[c] = "established"
    /\ conn' = [conn EXCEPT ![c] = "open"]
    /\ webSocketWritable' = "WRITEABLE"
    /\ UNCHANGED <<webSocket, received, writer, image, kept, crashed, calm, resent, lite>>

\* Mutant of Writeable: only a reconnection opens the gate.
WriteableAfterResend(c) ==
    /\ ~crashed
    /\ conn[c] = "established"
    /\ conn' = [conn EXCEPT ![c] = "open"]
    /\ IF firstImage > 0 /\ webSocketWritable = "UNWRITEABLE"
       THEN /\ received' = [received EXCEPT ![c] = Append(@, firstImage)]
            /\ webSocketWritable' = "WRITEABLE"
       ELSE UNCHANGED <<received, webSocketWritable>>
    /\ UNCHANGED <<webSocket, writer, image, kept, crashed, calm, resent, lite>>

\* LWS_CALLBACK_SERVER_WRITEABLE, which ESTABLISHED asks for once: after a
\* reconnection the kept image is sent again.
Writeable(c) ==
    /\ ~crashed
    /\ conn[c] = "established"
    /\ conn' = [conn EXCEPT ![c] = "open"]
    /\ received' = IF firstImage > 0 /\ webSocketWritable = "UNWRITEABLE"
                   THEN [received EXCEPT ![c] = Append(@, firstImage)]
                   ELSE received
    /\ resent' = IF firstImage > 0 /\ webSocketWritable = "UNWRITEABLE"
                 THEN resent \cup {[image |-> firstImage, size |-> firstImagebufferSize]}
                 ELSE resent
    /\ webSocketWritable' = "WRITEABLE"
    /\ UNCHANGED <<webSocket, writer, image, kept, crashed, calm, lite>>

\* LWS_CALLBACK_CLOSED; webSocket keeps pointing to the connection.
Closed(c) ==
    /\ ConnectionsMayChange
    /\ conn[c] \in {"established", "open"}
    /\ conn' = [conn EXCEPT ![c] = "closed"]
    /\ webSocketWritable' = "UNWRITEABLE"
    /\ UNCHANGED <<webSocket, received, writer, image, kept, crashed, calm, resent, lite>>

-----------------------------------------------------------------------------
\* VirtualScreenImpl::Send with a new image enters WriteData.
Send ==
    /\ ~crashed
    /\ writer = "idle"
    /\ image < MaxImages
    /\ image' = image + 1
    /\ writer' = "waiting"
    /\ UNCHANGED <<conn, webSocket, webSocketWritable, received, kept, crashed, calm, resent, lite>>

\* WriteData's while loop ends.
LeaveWait ==
    /\ ~crashed
    /\ writer = "waiting"
    /\ webSocketWritable = "WRITEABLE"
    /\ writer' = "testing"
    /\ UNCHANGED <<conn, webSocket, webSocketWritable, received, image, kept, crashed, calm, resent, lite>>

\* The flag is read again; if it changed the image is not written.
TestAgain ==
    /\ ~crashed
    /\ writer = "testing"
    /\ writer' = IF webSocket # Null /\ webSocketWritable = "WRITEABLE"
                 THEN "writing" ELSE "caching"
    /\ UNCHANGED <<conn, webSocket, webSocketWritable, received, image, kept, crashed, calm, resent, lite>>

\* lws_write; a connection that is already closed was freed by the server.
LwsWrite ==
    /\ ~crashed
    /\ writer = "writing"
    /\ writer' = "caching"
    /\ IF conn[webSocket] = "closed"
       THEN crashed' \in BOOLEAN /\ UNCHANGED received
       ELSE /\ received' = [received EXCEPT ![webSocket] = Append(@, image)]
            /\ UNCHANGED crashed
    /\ UNCHANGED <<conn, webSocket, webSocketWritable, image, kept, calm, resent, lite>>

\* Mutant of KeepImage: only the very first image is kept.
KeepFirstImage ==
    /\ ~crashed
    /\ writer = "caching"
    /\ writer' = "idle"
    /\ IF firstImage = 0 THEN firstImage' = image /\ firstImagebufferSize' = Size[image] ELSE UNCHANGED kept
    /\ UNCHANGED <<conn, webSocket, webSocketWritable, received, image, crashed, calm, resent, lite>>

\* Mutant of KeepImage: the rich previewer keeps its first buffer, too.
KeepFirstSize ==
    /\ ~crashed
    /\ writer = "caching"
    /\ writer' = "idle"
    /\ firstImage' = image
    /\ firstImagebufferSize' = IF firstImage = 0 THEN Size[image] ELSE firstImagebufferSize
    /\ UNCHANGED <<conn, webSocket, webSocketWritable, received, image, crashed, calm, resent, lite>>

\* The image replaces the one kept for reconnection, under the server's mutex.
\* The lite previewer sets the length with its first buffer only.
KeepImage ==
    /\ ~crashed
    /\ writer = "caching"
    /\ writer' = "idle"
    /\ firstImage' = image
    /\ firstImagebufferSize' = IF lite /\ firstImage # 0 THEN firstImagebufferSize ELSE Size[image]
    /\ UNCHANGED <<conn, webSocket, webSocketWritable, received, image, crashed, calm, resent, lite>>

Writer == Send \/ LeaveWait \/ TestAgain \/ LwsWrite \/ KeepImage
Server == \E c \in Conns : Established(c) \/ Writeable(c) \/ Closed(c)

Next == Writer \/ Server

Spec == Init /\ [][Next]_vars

\* The server thread serves what it has asked for and the rendering thread
\* runs; clients are free to connect, to close, or to do neither.
FairSpec ==
    /\ Spec
    /\ WF_vars(LeaveWait \/ TestAgain \/ LwsWrite \/ KeepImage)
    /\ \A c \in Conns : WF_vars(Writeable(c))
-----------------------------------------------------------------------------
Open(c) == conn[c] \in {"established", "open"}

\* If no client comes or goes while an image is on its way: when the rendering
\* thread is between two images and the channel is ready, the client that the
\* channel writes to has the latest image.  After a reconnection it does not
\* have to wait for the page to change.
ScreenIsCurrent ==
    calm /\ writer = "idle" /\ webSocketWritable = "WRITEABLE" /\ image > 0
    => /\ Open(webSocket)
       /\ received[webSocket] # <<>>
       /\ received[webSocket][Len(received[webSocket])] = image

\* What the IDE shows is never replaced by an older image, neither on one
\* connection nor across a reconnection: at most slack images older.
BackwardsAtMost(slack) ==
    /\ \A c \in Conns : \A i, j \in 1..Len(received[c]) :
          i < j => received[c][i] <= received[c][j] + slack
    /\ \A b, c \in Conns : b < c =>
          \A i \in 1..Len(received[b]), j \in 1..Len(received[c]) :
             received[b][i] <= received[c][j] + slack

\* The image sent again on reconnection and the next written ones keep the order
\* of the page's changes; a client that reconnects while an image is between the
\* write and the cache is shown one that is at most one image old.
NeverBackwards == BackwardsAtMost(IF calm THEN 0 ELSE 1)

\* A client that reconnects to the rich previewer gets an image whole.
ResentWhole == ~lite => \A r \in resent : r.size = Size[r.image]

\* A rendering thread that waits for a client is released by the next one that
\* connects and stays.
WriterReleased ==
    writer = "waiting" /\ (\E c \in Conns : Open(c)) ~>
        writer # "waiting" \/ crashed \/ \A c \in Conns : ~Open(c)
=============================================================================
