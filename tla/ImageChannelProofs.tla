------------------------- MODULE ImageChannelProofs -------------------------
(***************************************************************************)
(* Proofs about ImageChannel: types, the length of what is sent again, and *)
(* the order in which images reach the clients.                            *)
(***************************************************************************)
EXTENDS ImageChannel, TLAPS

\* While an image is on its way it has a number, and while it is written there
\* is a connection to write to.
UnderWay ==
    /\ writer # "idle" => image > 0
    /\ writer = "writing" => webSocket # Null

\* The variables of ImageChannel keep their types; an image is handled only
\* after Send was given it.
THEOREM TypeCorrect == Spec => [](TypeOK /\ UnderWay)
<1> USE BoundsAssumption, SizeAssumption DEF Null, Conns, TypeOK, UnderWay
<1>1. Init => TypeOK /\ UnderWay
  <2> SUFFICES ASSUME Init PROVE TypeOK /\ UnderWay
    OBVIOUS
  <2>1. received \in [Conns -> Seq(1..MaxImages)]
    BY DEF Init
  <2>2. conn \in [Conns -> {"new", "established", "open", "closed"}]
    BY DEF Init
  <2>3. lite \in BOOLEAN /\ crashed \in BOOLEAN /\ calm \in BOOLEAN
    BY Zenon DEF Init
  <2>4. /\ image \in 0..MaxImages /\ firstImage \in 0..MaxImages
        /\ firstImagebufferSize \in Nat /\ resent \subseteq [image : 1..MaxImages, size : Nat]
    BY DEF Init
  <2>5. /\ webSocket \in Conns \cup {Null}
        /\ webSocketWritable \in {"INIT", "UNWRITEABLE", "WRITEABLE"}
        /\ writer \in {"idle", "waiting", "testing", "writing", "caching"}
    BY DEF Init
  <2>6. UnderWay
    BY DEF Init
  <2> QED
    BY <2>1, <2>2, <2>3, <2>4, <2>5, <2>6
<1>2. TypeOK /\ UnderWay /\ [Next]_vars => (TypeOK /\ UnderWay)'
  <2> SUFFICES ASSUME TypeOK, UnderWay, [Next]_vars
               PROVE  (TypeOK /\ UnderWay)'
    OBVIOUS
  <2>1. CASE UNCHANGED vars
    BY <2>1 DEF vars, kept
  <2>2. CASE Send
    BY <2>2 DEF Send, kept
  <2>3. CASE LeaveWait
    BY <2>3 DEF LeaveWait, kept
  <2>4. CASE TestAgain
    BY <2>4 DEF TestAgain, kept
  <2>5. CASE LwsWrite
    <3>1. webSocket \in Conns /\ image \in 1..MaxImages
      BY <2>5 DEF LwsWrite
    <3> DEFINE longer == Append(received[webSocket], image)
    <3>2. longer \in Seq(1..MaxImages)
      BY <3>1
    <3>3. received' \in {received, [received EXCEPT ![webSocket] = longer]}
      BY <2>5 DEF LwsWrite
    <3>4. received' \in [Conns -> Seq(1..MaxImages)]
      <4> HIDE DEF longer
      <4> QED BY <3>1, <3>2, <3>3
    <3>5. crashed' \in BOOLEAN
      BY <2>5, Zenon DEF LwsWrite
    <3>6. /\ writer' = "caching"
          /\ UNCHANGED <<conn, webSocket, webSocketWritable, image, kept, calm, resent, lite>>
      BY <2>5 DEF LwsWrite
    <3>7. UnderWay'
      BY <3>1, <3>6
    <3> QED
      BY <3>4, <3>5, <3>6, <3>7, Zenon DEF kept
  <2>6. CASE KeepImage
    BY <2>6 DEF KeepImage
  <2>7. ASSUME NEW c \in Conns, Established(c) PROVE (TypeOK /\ UnderWay)'
    BY <2>7 DEF Established, kept
  <2>8. ASSUME NEW c \in Conns, Writeable(c) PROVE (TypeOK /\ UnderWay)'
    BY <2>8 DEF Writeable, kept
  <2>9. ASSUME NEW c \in Conns, Closed(c) PROVE (TypeOK /\ UnderWay)'
    BY <2>9 DEF Closed, kept
  <2> QED
    BY <2>1, <2>2, <2>3, <2>4, <2>5, <2>6, <2>7, <2>8, <2>9 DEF Next, Writer, Server
<1> QED
  BY <1>1, <1>2, PTL DEF Spec

-----------------------------------------------------------------------------
\* In the rich previewer the length kept is that of the image kept.
KeptWhole == ~lite /\ firstImage > 0 => firstImagebufferSize = Size[firstImage]

\* A client that reconnects to the rich previewer gets an image whole, however
\* the lengths of the images differ (VirtualScreenImpl::Send, ProtocolCallback).
THEOREM Resent == Spec => []ResentWhole
<1> USE DEF Null, Conns, KeptWhole, ResentWhole
<1>1. Init => KeptWhole /\ ResentWhole
  BY DEF Init
<1>2. TypeOK /\ KeptWhole /\ ResentWhole /\ [Next]_vars => (KeptWhole /\ ResentWhole)'
  <2> SUFFICES ASSUME TypeOK, KeptWhole, ResentWhole, [Next]_vars
               PROVE  (KeptWhole /\ ResentWhole)'
    OBVIOUS
  <2>1. CASE UNCHANGED <<kept, resent, lite>>
    BY <2>1 DEF kept
  <2>2. CASE KeepImage
    BY <2>2 DEF KeepImage, TypeOK
  <2>3. ASSUME NEW c \in Conns, Writeable(c) PROVE (KeptWhole /\ ResentWhole)'
    BY <2>3 DEF Writeable, kept, TypeOK
  <2> QED
    BY <2>1, <2>2, <2>3 DEF Next, Writer, Server, Send, LeaveWait, TestAgain, LwsWrite,
                            Established, Closed, vars, kept
<1> QED
  BY <1>1, <1>2, TypeCorrect, PTL DEF Spec
-----------------------------------------------------------------------------
\* Without overlapping connections the server has one at a time: the one that
\* webSocket points to, before which all are closed and after which all are new.
OneAtATime ==
    /\ \A c \in Conns : c < webSocket => conn[c] = "closed"
    /\ \A c \in Conns : c > webSocket => conn[c] = "new" /\ received[c] = <<>>
    /\ webSocket # Null => conn[webSocket] # "new"
    /\ webSocketWritable = "WRITEABLE" => webSocket # Null /\ conn[webSocket] = "open"
    /\ webSocketWritable = "INIT" => firstImage = 0 /\ writer \in {"idle", "waiting"}

\* No client has an image after the n-th.
UpTo(n) == \A c \in Conns : \A i \in 1..Len(received[c]) : received[c][i] <= n

\* The kept image is that of the last call of Send that returned.
KeptIsLast ==
    /\ firstImage = IF writer = "idle" THEN image ELSE image - 1
    /\ UpTo(image)

\* When clients come and go between images only, the client that is there has
\* the kept image, or, just written, the one to be kept.
Newest == IF writer = "caching" THEN image ELSE firstImage
CalmClients ==
    calm => /\ writer \in {"testing", "writing", "caching"} => webSocketWritable = "WRITEABLE"
            /\ UpTo(Newest)
            /\ webSocketWritable = "WRITEABLE" /\ Newest > 0 =>
                  /\ received[webSocket] # <<>>
                  /\ received[webSocket][Len(received[webSocket])] = Newest

IInv == OneAtATime /\ KeptIsLast /\ CalmClients /\ NeverBackwards
\* A delivered image is the last of its client's, and the others keep theirs.
LEMMA Appended ==
    ASSUME TypeOK, NEW w \in Conns, NEW v \in 1..MaxImages,
           received' = [received EXCEPT ![w] = Append(@, v)]
    PROVE  /\ \A c \in Conns \ {w} : received'[c] = received[c]
           /\ Len(received'[w]) = Len(received[w]) + 1
           /\ \A i \in 1..Len(received[w]) : received'[w][i] = received[w][i]
           /\ received'[w][Len(received'[w])] = v
           /\ received'[w] # <<>>
<1>1. received \in [Conns -> Seq(1..MaxImages)]
  BY DEF TypeOK
<1>2. received'[w] = Append(received[w], v) /\ received[w] \in Seq(1..MaxImages)
  BY <1>1
<1>3. \A c \in Conns \ {w} : received'[c] = received[c]
  BY <1>1
<1> QED
  BY <1>2, <1>3

\* Images are numbers, those that were received as well.
LEMMA Numbers ==
    ASSUME TypeOK, NEW c \in Conns
    PROVE  Len(received[c]) \in Nat /\ \A i \in 1..Len(received[c]) : received[c][i] \in 1..MaxImages
<1> DEFINE I == 1..MaxImages
<1>1. received[c] \in Seq(I)
  BY DEF TypeOK
<1> HIDE DEF I
<1>2. Len(received[c]) \in Nat /\ \A i \in 1..Len(received[c]) : received[c][i] \in I
  BY <1>1
<1> QED
  BY <1>2 DEF I

\* The order survives a delivery to the client after which no other has received
\* anything, if the image is at most s older than those that were received.
LEMMA Delivery ==
    ASSUME TypeOK, NEW w \in Conns, NEW v \in 1..MaxImages, NEW s \in 0..1,
           received' = [received EXCEPT ![w] = Append(@, v)],
           \A c \in Conns : c > w => received[c] = <<>>,
           BackwardsAtMost(s), UpTo(v + s)
    PROVE  BackwardsAtMost(s)'
<1> USE DEF BackwardsAtMost, UpTo
<1>1. /\ \A c \in Conns \ {w} : received'[c] = received[c]
      /\ Len(received'[w]) = Len(received[w]) + 1
      /\ \A i \in 1..Len(received[w]) : received'[w][i] = received[w][i]
      /\ received'[w][Len(received'[w])] = v
  BY Appended
<1>2. \A c \in Conns : /\ Len(received[c]) \in Nat
                       /\ \A i \in 1..Len(received[c]) : received[c][i] \in 1..MaxImages
  BY Numbers
<1>3. \A c \in Conns : c > w => Len(received'[c]) = 0
  BY <1>1 DEF Conns
<1>4. ASSUME NEW c \in Conns, NEW i \in 1..Len(received'[c]), NEW j \in 1..Len(received'[c]), i < j
      PROVE  received'[c][i] <= received'[c][j] + s
  <2>1. CASE c # w
    BY <1>1, <1>4, <2>1
  <2>2. CASE c = w /\ j <= Len(received[w])
    BY <1>1, <1>2, <1>4, <2>2
  <2>3. CASE c = w /\ j = Len(received'[w])
    BY <1>1, <1>2, <1>4, <2>3
  <2> QED
    BY <1>1, <1>2, <2>1, <2>2, <2>3
<1>5. ASSUME NEW b \in Conns, NEW c \in Conns, b < c,
             NEW i \in 1..Len(received'[b]), NEW j \in 1..Len(received'[c])
      PROVE  received'[b][i] <= received'[c][j] + s
  <2>1. c <= w
    BY <1>3, <1>5 DEF Conns
  <2>2. b # w
    BY <1>5, <2>1 DEF Conns
  <2>3. CASE c # w
    BY <1>1, <1>5, <2>2, <2>3
  <2>4. CASE c = w /\ j <= Len(received[w])
    BY <1>1, <1>2, <1>5, <2>2, <2>4
  <2>5. CASE c = w /\ j = Len(received'[w])
    BY <1>1, <1>2, <1>5, <2>2, <2>5
  <2> QED
    BY <1>1, <1>2, <2>3, <2>4, <2>5
<1> QED
  BY <1>4, <1>5

\* A delivery raises the newest image received to no more than its own.
LEMMA DeliveryUpTo ==
    ASSUME TypeOK, NEW w \in Conns, NEW v \in 1..MaxImages, NEW n \in Nat, NEW k \in Nat,
           received' = [received EXCEPT ![w] = Append(@, v)],
           UpTo(n), n <= k, v <= k
    PROVE  \A c \in Conns : \A i \in 1..Len(received'[c]) : received'[c][i] <= k
<1>1. /\ \A c \in Conns \ {w} : received'[c] = received[c]
      /\ Len(received'[w]) = Len(received[w]) + 1
      /\ \A i \in 1..Len(received[w]) : received'[w][i] = received[w][i]
      /\ received'[w][Len(received'[w])] = v
  BY Appended
<1>2. \A c \in Conns : /\ Len(received[c]) \in Nat
                       /\ \A i \in 1..Len(received[c]) : received[c][i] \in 1..MaxImages
  BY Numbers
<1> TAKE c \in Conns
<1> TAKE i \in 1..Len(received'[c])
<1>3. CASE c # w
  BY <1>1, <1>2, <1>3 DEF UpTo
<1>4. CASE c = w /\ i <= Len(received[w])
  BY <1>1, <1>2, <1>4 DEF UpTo
<1>5. CASE c = w /\ i = Len(received'[w])
  BY <1>1, <1>5
<1> QED
  BY <1>1, <1>2, <1>3, <1>4, <1>5
-----------------------------------------------------------------------------
\* Every step of the two threads keeps the invariant, in the server's order of
\* connections.
LEMMA Inductive ==
    ASSUME Overlap = FALSE, TypeOK, UnderWay, IInv, [Next]_vars
    PROVE  IInv'
<1> USE BoundsAssumption DEF Null, Conns
<1> DEFINE slack == IF calm THEN 0 ELSE 1
<1>0. slack \in 0..1
  OBVIOUS
<1>1. CASE UNCHANGED <<conn, webSocket, webSocketWritable, received, writer, image, firstImage, calm>>
  BY <1>1 DEF IInv, OneAtATime, UpTo, KeptIsLast, Newest, CalmClients, NeverBackwards, BackwardsAtMost
<1>2. CASE Send \/ LeaveWait \/ TestAgain
  <2>1. UNCHANGED <<conn, webSocket, webSocketWritable, received, firstImage, calm>>
    BY <1>2 DEF Send, LeaveWait, TestAgain, kept
  <2>2. NeverBackwards'
    BY <2>1 DEF IInv, NeverBackwards, BackwardsAtMost
  <2>3. OneAtATime'
    BY <1>2, <2>1 DEF IInv, OneAtATime, Send, LeaveWait, TestAgain, TypeOK
  <2>4. KeptIsLast'
    <3>1. UpTo(image)
      BY DEF IInv, KeptIsLast
    <3>2. image <= image' /\ image \in Nat /\ image' \in Nat
      BY <1>2 DEF Send, LeaveWait, TestAgain, TypeOK
    <3>3. UpTo(image)'
      BY <2>1, <3>1, <3>2, Numbers DEF UpTo
    <3> QED
      BY <1>2, <2>1, <3>3 DEF IInv, KeptIsLast, Send, LeaveWait, TestAgain, TypeOK
  <2>5. CalmClients'
    BY <1>2, <2>1 DEF IInv, CalmClients, Newest, UpTo, OneAtATime, Send, LeaveWait, TestAgain, TypeOK
  <2> QED
    BY <2>2, <2>3, <2>4, <2>5 DEF IInv
<1>3. CASE LwsWrite
  <2>1. CASE conn[webSocket] = "closed"
    <3>1. ~calm
      BY <1>3, <2>1 DEF LwsWrite, IInv, OneAtATime, CalmClients
    <3>2. /\ UNCHANGED <<conn, webSocket, webSocketWritable, received, image, firstImage, calm>>
          /\ writer' = "caching" /\ writer = "writing"
      BY <1>3, <2>1 DEF LwsWrite, kept
    <3> QED
      BY <3>1, <3>2 DEF IInv, OneAtATime, UpTo, KeptIsLast, CalmClients, NeverBackwards, BackwardsAtMost
  <2>2. CASE conn[webSocket] # "closed"
    <3>1. /\ UNCHANGED <<conn, webSocket, webSocketWritable, image, firstImage, calm>>
          /\ writer' = "caching" /\ writer = "writing"
          /\ received' = [received EXCEPT ![webSocket] = Append(@, image)]
      BY <1>3, <2>2 DEF LwsWrite, kept
    <3>2. webSocket \in Conns /\ image \in 1..MaxImages
      BY <3>1 DEF UnderWay, TypeOK
    <3>3. UpTo(image)
      BY DEF IInv, KeptIsLast
    <3>4. UpTo(image)'
      BY <3>1, <3>2, <3>3, DeliveryUpTo DEF UpTo
    <3>5. UpTo(image + slack)
      BY <3>2, <3>3, Numbers DEF UpTo
    <3>6. NeverBackwards'
      <4>1. BackwardsAtMost(slack)
        BY DEF IInv, NeverBackwards
      <4>2. \A c \in Conns : c > webSocket => received[c] = <<>>
        BY DEF IInv, OneAtATime
      <4>3. BackwardsAtMost(slack)'
        BY <1>0, <3>1, <3>2, <3>5, <4>1, <4>2, Delivery DEF BackwardsAtMost
      <4> QED
        BY <3>1, <4>3 DEF NeverBackwards, BackwardsAtMost
    <3>7. OneAtATime' /\ KeptIsLast'
      BY <3>1, <3>2, <3>4 DEF IInv, OneAtATime, KeptIsLast, TypeOK
    <3>8. CalmClients'
      <4>1. received'[webSocket] # <<>> /\ received'[webSocket][Len(received'[webSocket])] = image
        BY <3>1, <3>2, Appended, Numbers
      <4> QED
        BY <3>1, <3>4, <4>1 DEF IInv, CalmClients, Newest
    <3> QED
      BY <3>6, <3>7, <3>8 DEF IInv
  <2> QED
    BY <2>1, <2>2
<1>4. CASE KeepImage
  <2>1. /\ UNCHANGED <<conn, webSocket, webSocketWritable, received, image, calm>>
        /\ writer' = "idle" /\ writer = "caching" /\ firstImage' = image
    BY <1>4 DEF KeepImage
  <2> QED
    BY <2>1 DEF IInv, OneAtATime, UpTo, KeptIsLast, Newest, CalmClients, NeverBackwards, BackwardsAtMost, TypeOK
<1>5. ASSUME NEW c \in Conns, Established(c) PROVE IInv'
  <2>1. /\ UNCHANGED <<webSocketWritable, received, writer, image, firstImage, calm>>
        /\ conn' = [conn EXCEPT ![c] = "established"] /\ webSocket' = c /\ conn[c] = "new"
        /\ \A b \in 1..(c - 1) : conn[b] = "closed"
    BY <1>5 DEF Established, kept
  <2>2. webSocket < c /\ webSocket \in Nat /\ c \in Nat
    BY <2>1 DEF IInv, OneAtATime, TypeOK
  <2>3. webSocketWritable # "WRITEABLE"
    BY <2>1, <2>2 DEF IInv, OneAtATime, TypeOK
  <2>4. OneAtATime'
    <3>1. \A b \in Conns : b < c => conn'[b] = "closed"
      BY <2>1 DEF TypeOK
    <3>2. \A b \in Conns : b > c => conn'[b] = "new" /\ received'[b] = <<>>
      BY <2>1, <2>2 DEF IInv, OneAtATime, TypeOK
    <3>3. conn'[c] # "new" /\ webSocketWritable' # "WRITEABLE"
      BY <2>1, <2>3 DEF TypeOK
    <3>4. webSocketWritable' = "INIT" => firstImage' = 0 /\ writer' \in {"idle", "waiting"}
      BY <2>1 DEF IInv, OneAtATime
    <3> QED
      BY <2>1, <3>1, <3>2, <3>3, <3>4 DEF OneAtATime
  <2> QED
    BY <2>1, <2>3, <2>4 DEF IInv, UpTo, KeptIsLast, Newest, CalmClients, NeverBackwards, BackwardsAtMost
<1>6. ASSUME NEW c \in Conns, Writeable(c) PROVE IInv'
  <2>1. /\ UNCHANGED <<webSocket, writer, image, firstImage, calm>>
        /\ conn' = [conn EXCEPT ![c] = "open"] /\ conn[c] = "established"
        /\ webSocketWritable' = "WRITEABLE"
    BY <1>6 DEF Writeable, kept
  <2>2. c = webSocket /\ webSocketWritable # "WRITEABLE"
    BY <2>1 DEF IInv, OneAtATime, TypeOK
  <2>3. OneAtATime'
    <3>1. \A b \in Conns : b > webSocket => received'[b] = received[b]
      BY <1>6, <2>2 DEF Writeable, TypeOK
    <3> QED
      BY <2>1, <2>2, <3>1 DEF IInv, OneAtATime, TypeOK
  <2>4. CASE firstImage > 0
    <3>1. received' = [received EXCEPT ![c] = Append(@, firstImage)]
      <4>1. webSocketWritable = "UNWRITEABLE"
        BY <2>2, <2>4 DEF IInv, OneAtATime, TypeOK
      <4> QED
        BY <1>6, <2>4, <4>1 DEF Writeable
    <3>2. firstImage \in 1..MaxImages /\ image \in Nat /\ firstImage <= image
      BY <2>4 DEF IInv, KeptIsLast, TypeOK
    <3>3. UpTo(image)'
      BY <2>1, <3>1, <3>2, DeliveryUpTo DEF IInv, KeptIsLast, UpTo
    <3>4. ASSUME calm PROVE Newest = firstImage /\ UpTo(firstImage)
      BY <2>2, <3>4 DEF IInv, CalmClients, Newest
    <3>5. UpTo(firstImage + slack)
      <4>1. CASE calm
        BY <3>2, <3>4, <4>1 DEF UpTo
      <4>2. CASE ~calm
        <5>1. image <= firstImage + 1
          BY DEF IInv, KeptIsLast, TypeOK
        <5> QED
          BY <3>2, <4>2, <5>1, Numbers DEF IInv, KeptIsLast, UpTo
      <4> QED
        BY <4>1, <4>2
    <3>6. NeverBackwards'
      <4>1. BackwardsAtMost(slack)
        BY DEF IInv, NeverBackwards
      <4>2. \A b \in Conns : b > c => received[b] = <<>>
        BY <2>2 DEF IInv, OneAtATime
      <4>3. BackwardsAtMost(slack)'
        BY <1>0, <2>1, <3>1, <3>2, <3>5, <4>1, <4>2, Delivery DEF BackwardsAtMost
      <4> QED
        BY <2>1, <4>3 DEF NeverBackwards, BackwardsAtMost
    <3>7. CalmClients'
      <4> SUFFICES ASSUME calm PROVE CalmClients'
        BY <2>1 DEF CalmClients
      <4>1. Newest = firstImage /\ UpTo(firstImage)
        BY <3>4
      <4>2. UpTo(firstImage)'
        BY <2>1, <3>1, <3>2, <4>1, DeliveryUpTo DEF UpTo
      <4>3. received'[c] # <<>> /\ received'[c][Len(received'[c])] = firstImage
        BY <3>1, <3>2, Appended, Numbers
      <4>4. Newest' = firstImage
        BY <2>1, <4>1 DEF Newest
      <4> QED
        BY <2>1, <2>2, <4>2, <4>3, <4>4 DEF CalmClients, UpTo
    <3> QED
      BY <2>1, <2>3, <3>3, <3>6, <3>7 DEF IInv, KeptIsLast
  <2>5. CASE ~(firstImage > 0)
    <3>1. UNCHANGED received
      BY <1>6, <2>5 DEF Writeable
    <3>2. calm => writer # "caching"
      BY <2>2 DEF IInv, CalmClients
    <3> QED
      BY <2>1, <2>3, <2>5, <3>1, <3>2
      DEF IInv, UpTo, KeptIsLast, Newest, CalmClients, NeverBackwards, BackwardsAtMost, TypeOK
  <2> QED
    BY <2>4, <2>5
<1>7. ASSUME NEW c \in Conns, Closed(c) PROVE IInv'
  <2>1. /\ UNCHANGED <<webSocket, received, writer, image, firstImage, calm>>
        /\ conn' = [conn EXCEPT ![c] = "closed"] /\ conn[c] \in {"established", "open"}
        /\ webSocketWritable' = "UNWRITEABLE"
        /\ calm => writer \in {"idle", "waiting"}
    BY <1>7 DEF Closed, ConnectionsMayChange, kept
  <2>2. OneAtATime'
    BY <2>1 DEF IInv, OneAtATime, TypeOK
  <2> QED
    BY <2>1, <2>2 DEF IInv, UpTo, KeptIsLast, Newest, CalmClients, NeverBackwards, BackwardsAtMost
<1> QED
  BY <1>1, <1>2, <1>3, <1>4, <1>5, <1>6, <1>7 DEF Next, Writer, Server, vars, kept

\* If connections do not overlap, no image that was replaced on the IDE's screen
\* comes back, but for the one on its way when the client reconnects (Send's
\* cache and its resending by ProtocolCallback).
THEOREM InOrder == ASSUME Overlap = FALSE PROVE Spec => []NeverBackwards
<1>1. Init => IInv
  BY BoundsAssumption
  DEF Init, IInv, OneAtATime, UpTo, KeptIsLast, Newest, CalmClients, NeverBackwards, BackwardsAtMost, Null, Conns
<1>2. TypeOK /\ UnderWay /\ IInv /\ [Next]_vars => IInv'
  BY Inductive
<1>3. IInv => NeverBackwards
  BY DEF IInv
<1> QED
  BY <1>1, <1>2, <1>3, TypeCorrect, PTL DEF Spec

\* Between two images, when clients come and go only then, the client that the
\* channel is ready for has the latest image.
THEOREM Current == ASSUME Overlap = FALSE PROVE Spec => []ScreenIsCurrent
<1>1. Init => IInv
  BY BoundsAssumption
  DEF Init, IInv, OneAtATime, UpTo, KeptIsLast, Newest, CalmClients, NeverBackwards, BackwardsAtMost, Null, Conns
<1>2. TypeOK /\ UnderWay /\ IInv /\ [Next]_vars => IInv'
  BY Inductive
<1>3. IInv => ScreenIsCurrent
  BY DEF IInv, OneAtATime, KeptIsLast, CalmClients, Newest, ScreenIsCurrent, Open
<1> QED
  BY <1>1, <1>2, <1>3, TypeCorrect, PTL DEF Spec
=============================================================================
