----------------------------- MODULE Display_proofs -----------------------------
(***************************************************************************)
(* Proofs about Display, for any pages, topics and number of faults: the   *)
(* newest frame is never lost on its way, and page and server agree on     *)
(* which socket is the live one.                                           *)
(***************************************************************************)
EXTENDS Display, TLAPS

Publishing == {"build", "next", "send"}

\* The task holds a frame exactly while it is publishing one; a frame that waits
\* or is being published makes the last published one outdated, and one that
\* waits the one being published.
FrameInv ==
    /\ task.at \in Publishing <=> task.frame # "none"
    /\ latest # "none" => task.frame # "newest" /\ published # "newest"
    /\ task.frame # "none" => published # "newest"
    /\ NewestIsKept

\* A page in which somebody is interested has not marked its socket as closed on
\* purpose, and only such a page has a socket.
SoundPage(p) ==
    /\ p.ref => ~p.intentional
    /\ p.socket # "none" => p.ref
    /\ p.ref /\ p.socket = "none" => p.timer \/ p.thrown

\* Whatever the server does under the name of the live socket of c, it does for a
\* socket the page has.
SocketKnown(c) ==
    Live(c) \in hub \cup targets \cup failed \/ c \in stalled \cup greeting =>
        page[c].ref /\ page[c].socket \in {"open", "closing"}

SendInv == task.at # "send" => targets = {} /\ failed = {}

PageInv == \A c \in Clients: SoundPage(page[c]) /\ SocketKnown(c)

IInv == TypeOK /\ FrameInv /\ SendInv /\ PageInv

-----------------------------------------------------------------------------

\* Nothing is waiting, published or connected when the service starts.
LEMMA InitIInv == Init => IInv
  BY ConstantsAssumption DEF Init, IInv, TypeOK, FrameInv, SendInv, PageInv, SoundPage, SocketKnown,
     NewestIsKept, Publishing, Frames, Idle, Page, Sockets, Live

\* The broadcaster's part is the broadcaster's alone.
LEMMA OthersKeepFrames == FrameInv /\ UNCHANGED server => FrameInv'
  BY DEF FrameInv, NewestIsKept, server, Publishing

\* The steps of the broadcaster keep what is known of its frames.
LEMMA FrameSteps ==
  ASSUME TypeOK, FrameInv,
         PublishLatest \/ Drain \/ Build \/ PublishFails \/ PublishDone \/ Broadcast \/ Prune \/ Close
  PROVE  FrameInv'
<1> USE DEF TypeOK, FrameInv, NewestIsKept, Publishing, Frames, Idle, Older
<1>1. CASE PublishLatest
  BY <1>1 DEF PublishLatest
<1>2. CASE Drain
  <2>1. CASE latest = "none"
    BY <1>2, <2>1 DEF Drain
  <2>2. CASE latest # "none"
    <3>1. task'.at = "build" /\ task'.frame = latest /\ latest' = "none" /\ published' = published
      BY <1>2, <2>2 DEF Drain
    <3>2. task.frame = "none"
      BY <1>2 DEF Drain
    <3> QED
      BY <2>2, <3>1, <3>2
  <2> QED
    BY <2>1, <2>2
<1>3. CASE Build
  BY <1>3 DEF Build
<1>4. CASE PublishFails \/ PublishDone
  BY <1>4 DEF PublishFails, PublishDone, EndPublish
<1>5. CASE Broadcast \/ Prune
  BY <1>5 DEF Broadcast, Prune
<1>6. CASE Close
  BY <1>6 DEF Close
<1> QED
  BY <1>1, <1>2, <1>3, <1>4, <1>5, <1>6

-----------------------------------------------------------------------------
(* Pages and sockets. *)

\* What Bury leaves: nothing under the name of c, the others untouched.
LEMMA BuryOne ==
  ASSUME NEW c \in Clients, NEW S, S \subseteq Sockets
  PROVE  /\ Bury(c, S) \subseteq Sockets
         /\ Live(c) \notin Bury(c, S)
         /\ \A d \in Clients: Live(d) \in Bury(c, S) => Live(d) \in S
         /\ S = {} => Bury(c, S) = {}
  BY DEF Bury, Live, Sockets

\* A message heard changes nothing of who holds the page and which socket it has.
LEMMA HearsKeeps ==
  ASSUME NEW p \in Page
  PROVE  /\ Hears(p) \in Page /\ Hears(p).ref = p.ref /\ Hears(p).socket = p.socket
         /\ SoundPage(p) => SoundPage(Hears(p))
  BY DEF Hears, Page, SoundPage

\* After a close the page is sound though its socket is gone.
LEMMA ClosedIsSound ==
  ASSUME NEW p \in Page, SoundPage(p)
  PROVE  Closed(p) \in Page /\ SoundPage(Closed(p))
  BY DEF Closed, OnClose, Page, SoundPage

\* So it is after the late close of a socket it had given up.
LEMMA OnCloseIsSound ==
  ASSUME NEW p \in Page, SoundPage(p)
  PROVE  /\ OnClose([p EXCEPT !.zombie = FALSE]) \in Page
         /\ SoundPage(OnClose([p EXCEPT !.zombie = FALSE]))
         /\ OnClose([p EXCEPT !.zombie = FALSE]).ref = p.ref
         /\ OnClose([p EXCEPT !.zombie = FALSE]).socket = p.socket
  BY DEF OnClose, Page, SoundPage

\* A page that is sound but for its timer, and but for its mark where it has no socket.
Connectable(p) == p.socket # "none" => p.ref /\ ~p.intentional

\* Connecting makes such a page sound, also where it raises.
LEMMA ConnectIsSound ==
  ASSUME NEW p \in Page, Connectable(p), NEW q \in {Connect(p), ConnectThrows(p)}
  PROVE  /\ q \in Page /\ SoundPage(q) /\ q.ref = p.ref
         /\ p.socket # "none" => q.socket = p.socket
<1>1. CASE q = Connect(p)
  BY <1>1 DEF Connect, Due, Connectable, Page, SoundPage
<1>2. CASE q = ConnectThrows(p)
  BY <1>2 DEF ConnectThrows, Due, Connectable, Page, SoundPage
<1> QED
  BY <1>1, <1>2

\* A step that touches the page of one client at most has that page to answer for.
LEMMA OnePage ==
  ASSUME TypeOK, PageInv, NEW c \in Clients, NEW q \in Page,
         page' = [page EXCEPT ![c] = q], SoundPage(q), SocketKnown(c)',
         \A d \in Clients \ {c}:
            /\ Live(d) \in hub' \cup targets' \cup failed' => Live(d) \in hub \cup targets \cup failed
            /\ d \in stalled' \cup greeting' => d \in stalled \cup greeting
  PROVE  page' \in [Clients -> Page] /\ PageInv'
<1>1. page' \in [Clients -> Page]
  BY DEF TypeOK
<1>2. ASSUME NEW d \in Clients PROVE SoundPage(page'[d]) /\ SocketKnown(d)'
  <2>1. CASE d = c
    BY <2>1 DEF TypeOK
  <2>2. CASE d # c
    <3>1. page'[d] = page[d]
      BY <2>2 DEF TypeOK
    <3> QED
      BY <2>2, <3>1 DEF PageInv, SocketKnown
  <2> QED
    BY <2>1, <2>2
<1> QED
  BY <1>1, <1>2 DEF PageInv, SoundPage

-----------------------------------------------------------------------------
(* Types, pages and sockets through every action. *)

\* What one client's step has to keep.
Kept == TypeOK' /\ SendInv' /\ PageInv'

\* The types of the publish task and of its moves.
Places == {"none", "loop", "build", "next", "send"}
TaskType == [at: Places, frame: Frames \cup {"none"}, left: Seq(Topics)]

\* The idle task is well typed.
LEMMA IdleTyped == Idle \in TaskType
<1>1. <<>> \in Seq(Topics)
  OBVIOUS
<1> QED
  BY <1>1 DEF Idle, TaskType, Places

\* A task that moves on is one.
LEMMA PlaceTyped ==
  ASSUME NEW t \in TaskType, NEW a \in Places
  PROVE  [t EXCEPT !.at = a] \in TaskType
  BY DEF TaskType

\* A task whose frame has been outdated is one.
LEMMA AgedTyped ==
  ASSUME NEW t \in TaskType
  PROVE  [t EXCEPT !.frame = Older(@)] \in TaskType
  BY DEF TaskType, Older, Frames

\* A task with other messages left to send is one.
LEMMA LeftTyped ==
  ASSUME NEW t \in TaskType, NEW a \in Places, NEW l \in Seq(Topics)
  PROVE  [t EXCEPT !.at = a, !.left = l] \in TaskType
  BY DEF TaskType

\* A task that takes a frame up is one.
LEMMA FrameTyped ==
  ASSUME NEW t \in TaskType, NEW a \in Places, NEW f \in Frames \cup {"none"}
  PROVE  [t EXCEPT !.at = a, !.frame = f] \in TaskType
  BY DEF TaskType

\* What a frame is sent as is a sequence of topics, whichever clients there are.
LEMMA MessagesTyped == Messages \in Seq(Topics)
<1>1. \A t \in Topics: On(t) \in Seq(Topics)
  BY DEF On
<1>2. /\ IndexMessages \in Seq(Topics) /\ BoardMessages \in Seq(Topics)
      /\ On("capture-status") \in Seq(Topics) /\ On("session") \in Seq(Topics)
  BY <1>1 DEF IndexMessages, BoardMessages, Topics
<1>3. IndexMessages \o BoardMessages \in Seq(Topics)
  BY <1>2
<1>4. IndexMessages \o BoardMessages \o On("capture-status") \in Seq(Topics)
  BY <1>2, <1>3
<1> QED
  BY <1>2, <1>4 DEF Messages

\* The steps of the broadcaster keep the task typed.
LEMMA TaskTyped ==
  ASSUME TypeOK,
         PublishLatest \/ Drain \/ Build \/ PublishFails \/ PublishDone \/ Broadcast \/ Prune \/ Close
  PROVE  task' \in TaskType
<1>1. task \in TaskType /\ Idle \in TaskType /\ latest \in Frames \cup {"none"}
  BY IdleTyped DEF TypeOK, TaskType, Places
<1>2. CASE PublishLatest
  <2>1. [Idle EXCEPT !.at = "loop"] \in TaskType
    BY <1>1, PlaceTyped DEF Places
  <2>2. [task EXCEPT !.frame = Older(@)] \in TaskType
    BY <1>1, AgedTyped
  <2> QED
    BY <1>2, <2>1, <2>2 DEF PublishLatest
<1>3. CASE Drain
  <2>1. [Idle EXCEPT !.at = "build", !.frame = latest] \in TaskType
    BY <1>1, FrameTyped DEF Places
  <2> QED
    BY <1>1, <1>3, <2>1 DEF Drain
<1>4. CASE Build
  <2>1. [task EXCEPT !.at = "next", !.left = Messages] \in TaskType
    BY <1>1, MessagesTyped, LeftTyped DEF Places
  <2> QED
    BY <1>4, <2>1 DEF Build
<1>5. CASE PublishFails \/ PublishDone
  <2>1. [Idle EXCEPT !.at = "loop"] \in TaskType
    BY <1>1, PlaceTyped DEF Places
  <2> QED
    BY <1>5, <2>1 DEF PublishFails, PublishDone, EndPublish
<1>6. CASE Broadcast
  <2>1. Tail(task.left) \in Seq(Topics)
    BY <1>1, <1>6 DEF Broadcast, TaskType
  <2>2. (IF targets' = {} THEN "next" ELSE "send") \in Places
    BY DEF Places
  <2>3. [task EXCEPT !.at = IF targets' = {} THEN "next" ELSE "send",
                     !.left = Tail(task.left)] \in TaskType
    BY <1>1, <2>1, <2>2, LeftTyped
  <2> QED
    BY <1>6, <2>3 DEF Broadcast
<1>7. CASE Prune
  <2>1. [task EXCEPT !.at = "next"] \in TaskType
    BY <1>1, PlaceTyped DEF Places
  <2> QED
    BY <1>7, <2>1 DEF Prune
<1>8. CASE Close
  BY <1>1, <1>8 DEF Close
<1> QED
  BY <1>2, <1>3, <1>4, <1>5, <1>6, <1>7, <1>8

\* The publisher itself touches no page, and sends only to sockets of the hub.
LEMMA PublisherKeeps ==
  ASSUME TypeOK, SendInv, PageInv,
         PublishLatest \/ Drain \/ Build \/ PublishFails \/ PublishDone \/ Broadcast \/ Prune \/ Close
  PROVE  Kept
<1>1. /\ UNCHANGED <<stalled, greeting, page>> /\ hub' \subseteq hub
      /\ targets' \subseteq hub \cup targets /\ failed' \subseteq failed
      /\ faults' \in 0..MaxFaults
  <2> USE DEF TypeOK, Fault
  <2>1. CASE PublishLatest \/ Drain \/ Build \/ PublishDone
    BY <2>1 DEF PublishLatest, Drain, Build, PublishDone, sending
  <2>2. CASE PublishFails
    BY <2>2, ConstantsAssumption DEF PublishFails, sending, ConstantsAssumption
  <2>3. CASE Broadcast
    BY <2>3 DEF Broadcast
  <2>4. CASE Prune
    BY <2>4 DEF Prune
  <2>5. CASE Close
    BY <2>5, ConstantsAssumption DEF Close, ConstantsAssumption
  <2> QED
    BY <2>1, <2>2, <2>3, <2>4, <2>5
<1>2. PageInv'
  BY <1>1 DEF PageInv, SocketKnown
<1>3. {latest', published'} \subseteq Frames \cup {"none"}
  <2> USE DEF TypeOK, Frames
  <2>1. CASE PublishLatest
    BY <2>1 DEF PublishLatest, Older
  <2>2. CASE Drain \/ Build
    BY <2>2 DEF Drain, Build
  <2>3. CASE PublishFails \/ PublishDone
    BY <2>3 DEF PublishFails, PublishDone, EndPublish
  <2>4. CASE Broadcast \/ Prune \/ Close
    BY <2>4 DEF Broadcast, Prune, Close
  <2> QED
    BY <2>1, <2>2, <2>3, <2>4
<1>4. SendInv'
  <2> USE DEF SendInv, TypeOK
  <2>1. CASE PublishLatest
    BY <2>1 DEF PublishLatest, Idle, sending
  <2>2. CASE Drain
    BY <2>2 DEF Drain, Idle, sending
  <2>3. CASE Build
    BY <2>3 DEF Build, sending
  <2>4. CASE PublishFails \/ PublishDone
    BY <2>4 DEF PublishFails, PublishDone, EndPublish, Idle, sending
  <2>5. CASE Broadcast
    BY <2>5 DEF Broadcast
  <2>6. CASE Prune
    BY <2>6 DEF Prune
  <2>7. CASE Close
    BY <2>7 DEF Close
  <2> QED
    BY <2>1, <2>2, <2>3, <2>4, <2>5, <2>6, <2>7
<1>5. task' \in TaskType
  BY TaskTyped
<1> QED
  BY <1>1, <1>2, <1>3, <1>4, <1>5 DEF Kept, TypeOK, TaskType, Places

\* A send goes from the targets to the page or to the failed.
LEMMA SendsKeep ==
  ASSUME TypeOK, SendInv, PageInv, NEW s \in Sockets, Sent(s) \/ SendFails(s)
  PROVE  Kept
<1>1. CASE SendFails(s)
  BY <1>1 DEF SendFails, Kept, TypeOK, SendInv, PageInv, SocketKnown, SoundPage, server
<1>2. CASE Sent(s) /\ s # Live(s[1])
  BY <1>2 DEF Sent, Kept, TypeOK, SendInv, PageInv, SocketKnown, SoundPage, server
<1>3. CASE Sent(s) /\ s = Live(s[1])
  <2> DEFINE c == s[1]
  <2>1. c \in Clients /\ page[c] \in Page /\ SoundPage(page[c]) /\ SocketKnown(c)
    BY DEF Sockets, TypeOK, PageInv
  <2>2. page' = [page EXCEPT ![c] = Hears(page[c])]
    BY <1>3 DEF Sent
  <2>3. /\ UNCHANGED <<server, failed, hub, stalled, greeting, faults>>
        /\ targets' = targets \ {s} /\ task.at = "send"
    BY <1>3 DEF Sent
  <2>4. Hears(page[c]) \in Page /\ SoundPage(Hears(page[c])) /\ SocketKnown(c)'
    <3>1. page'[c] = Hears(page[c])
      BY <2>1, <2>2 DEF TypeOK
    <3> QED
      BY <2>1, <2>3, <3>1, HearsKeeps DEF SocketKnown
  <2>5. page' \in [Clients -> Page] /\ PageInv'
    BY <2>1, <2>2, <2>3, <2>4, OnePage
  <2> QED
    BY <2>3, <2>5 DEF Kept, TypeOK, SendInv, server
<1> QED
  BY <1>1, <1>2, <1>3

\* Faults stay within their bound.
LEMMA FaultTyped == TypeOK /\ Fault => faults' \in 0..MaxFaults
  BY ConstantsAssumption DEF TypeOK, Fault, ConstantsAssumption

\* A step of the page of c that leaves the server alone.
LEMMA PageMoves ==
  ASSUME TypeOK, SendInv, PageInv, NEW c \in Clients, NEW q \in Page, SoundPage(q),
         page' = [page EXCEPT ![c] = q], page[c].ref => q.ref,
         page[c].socket \in {"open", "closing"} => q.socket \in {"open", "closing"},
         UNCHANGED <<server, sending, hub, stalled, greeting>>, faults' \in 0..MaxFaults
  PROVE  Kept
<1>1. page'[c] = q
  BY DEF TypeOK
<1>2. SocketKnown(c)'
  BY <1>1 DEF PageInv, SocketKnown, sending
<1>3. page' \in [Clients -> Page] /\ PageInv'
  BY <1>2, OnePage DEF sending
<1> QED
  BY <1>3 DEF Kept, TypeOK, SendInv, server, sending

\* One that is no fault.
LEMMA PageOnly ==
  ASSUME TypeOK, SendInv, PageInv, NEW c \in Clients, NEW q \in Page, SoundPage(q),
         page' = [page EXCEPT ![c] = q], page[c].ref => q.ref,
         page[c].socket \in {"open", "closing"} => q.socket \in {"open", "closing"},
         UNCHANGED <<server, sending, hub, stalled, greeting, faults>>
  PROVE  Kept
<1>1. faults' \in 0..MaxFaults
  BY DEF TypeOK
<1> QED
  BY <1>1, PageMoves

\* An attempt to connect, whatever comes of it.
LEMMA ConnectsKeeps ==
  ASSUME TypeOK, SendInv, PageInv, NEW c \in Clients, NEW p \in Page, Connectable(p),
         p.socket = page[c].socket, page[c].ref => p.ref,
         Connects(c, p), UNCHANGED <<server, sending, hub, stalled, greeting>>
  PROVE  Kept
<1>1. faults' \in 0..MaxFaults
  BY FaultTyped DEF Connects, TypeOK
<1>2. PICK q \in {Connect(p), ConnectThrows(p)}: page' = [page EXCEPT ![c] = q]
  BY DEF Connects
<1>3. /\ q \in Page /\ SoundPage(q) /\ q.ref = p.ref
      /\ p.socket # "none" => q.socket = p.socket
  BY ConnectIsSound
<1> QED
  BY <1>1, <1>2, <1>3, PageMoves

\* The end of a connection that the server is told of.
LEMMA Buried ==
  ASSUME TypeOK, SendInv, PageInv, NEW c \in Clients, NEW q \in Page, SoundPage(q),
         page' = [page EXCEPT ![c] = q], BuryAll(c), UNCHANGED server, faults' \in 0..MaxFaults
  PROVE  Kept
<1>1. targets \subseteq Sockets /\ failed \subseteq Sockets /\ hub \subseteq Sockets
  BY DEF TypeOK
<1>2. /\ Live(c) \notin hub' \cup targets' \cup failed'
      /\ c \notin stalled' \cup greeting'
  BY <1>1, BuryOne DEF BuryAll
<1>3. /\ targets' \subseteq Sockets /\ failed' \subseteq Sockets /\ hub' \subseteq Sockets
      /\ stalled' \subseteq Clients /\ greeting' \subseteq Clients
      /\ SendInv'
  BY <1>1, BuryOne DEF BuryAll, TypeOK, SendInv, server
<1>4. \A d \in Clients \ {c}:
         /\ Live(d) \in hub' \cup targets' \cup failed' => Live(d) \in hub \cup targets \cup failed
         /\ d \in stalled' \cup greeting' => d \in stalled \cup greeting
  BY <1>1, BuryOne DEF BuryAll
<1>5. page' \in [Clients -> Page] /\ PageInv'
  BY <1>2, <1>4, OnePage DEF SocketKnown
<1> QED
  BY <1>3, <1>5 DEF Kept, TypeOK, server

\* What a page, its network and its endpoint do.
ClientStep(c) ==
    \/ Acquire(c) \/ Release(c) \/ Open(c) \/ Greeting(c)
    \/ ConnectionLost(c) \/ HalfOpen(c) \/ CloseCompletes(c) \/ StaleClose(c)
    \/ TimerFires(c) \/ Silence(c) \/ WatchdogTrips(c)
    \/ Stall(c) \/ StallEnds(c) \/ EndpointEnds(c)

\* None of it makes a page or a socket unsound.
LEMMA ClientKeeps ==
  ASSUME TypeOK, SendInv, PageInv, NEW c \in Clients,
         ClientStep(c)
  PROVE  Kept
<1> DEFINE p == page[c]
<1>0. p \in Page /\ SoundPage(p) /\ SocketKnown(c)
  BY DEF TypeOK, PageInv
<1>1. CASE Acquire(c)
  <2> DEFINE r == [p EXCEPT !.ref = TRUE]
  <2>1. r \in Page /\ r.socket = p.socket /\ r.ref
    BY <1>0 DEF Page
  <2>2. Connectable(r)
    BY <1>0, <1>1, <2>1 DEF Acquire, SoundPage, Connectable
  <2>3. Connects(c, r) /\ UNCHANGED <<server, sending, hub, stalled, greeting>>
    BY <1>1 DEF Acquire
  <2> HIDE DEF r
  <2> QED
    BY <2>1, <2>2, <2>3, ConnectsKeeps
<1>2. CASE Release(c)
  <2> DEFINE q == [ref |-> FALSE, socket |-> "none",
                   zombie |-> p.zombie \/ p.socket # "none", intentional |-> TRUE,
                   timer |-> FALSE, thrown |-> FALSE, armed |-> FALSE, heard |-> "never"]
  <2>1. q \in Page /\ SoundPage(q)
    BY <1>0 DEF Page, SoundPage
  <2>2. page' = [page EXCEPT ![c] = q] /\ BuryAll(c) /\ UNCHANGED server /\ Fault
    BY <1>2 DEF Release
  <2> HIDE DEF q
  <2> QED
    BY <2>1, <2>2, Buried, FaultTyped
<1>3. CASE Open(c)
  <2> DEFINE q == [p EXCEPT !.socket = "open", !.timer = FALSE]
  <2>1. q \in Page /\ q.socket = "open" /\ q.ref = p.ref /\ q.intentional = p.intentional
    BY <1>0 DEF Page
  <2>2. SoundPage(q) /\ q.ref
    BY <1>0, <1>3, <2>1 DEF SoundPage, Open
  <2>3. page' = [page EXCEPT ![c] = q]
    BY <1>3 DEF Open
  <2>4. /\ hub' = hub \cup {Live(c)} /\ greeting' = greeting \cup {c}
        /\ UNCHANGED <<server, sending, stalled, faults>>
    BY <1>3 DEF Open
  <2> HIDE DEF q
  <2>5. SocketKnown(c)'
    BY <2>1, <2>2, <2>3 DEF SocketKnown, TypeOK
  <2>6. \A d \in Clients \ {c}: Live(d) # Live(c)
    BY DEF Live
  <2>7. page' \in [Clients -> Page] /\ PageInv'
    BY <2>1, <2>2, <2>3, <2>4, <2>5, <2>6, OnePage DEF sending
  <2>8. Live(c) \in Sockets
    BY DEF Live, Sockets
  <2> QED
    BY <2>4, <2>7, <2>8 DEF Kept, TypeOK, SendInv, server, sending
<1>4. CASE Greeting(c)
  <2>1. page' = [page EXCEPT ![c] = Hears(p)] /\ greeting' = greeting \ {c}
        /\ UNCHANGED <<server, sending, hub, stalled, faults>>
    BY <1>4 DEF Greeting
  <2>2. Hears(p) \in Page /\ SoundPage(Hears(p)) /\ Hears(p).ref = p.ref /\ Hears(p).socket = p.socket
    BY <1>0, HearsKeeps
  <2>3. SocketKnown(c)'
    BY <1>0, <2>1, <2>2 DEF SocketKnown, TypeOK, sending
  <2>4. page' \in [Clients -> Page] /\ PageInv'
    BY <2>1, <2>2, <2>3, OnePage DEF sending
  <2> QED
    BY <2>1, <2>4 DEF Kept, TypeOK, SendInv, server, sending
<1>5. CASE ConnectionLost(c) \/ CloseCompletes(c)
  <2>1. page' = [page EXCEPT ![c] = Closed(p)] /\ BuryAll(c) /\ UNCHANGED server
    BY <1>5 DEF ConnectionLost, CloseCompletes
  <2>2. faults' \in 0..MaxFaults
    BY <1>5, FaultTyped DEF ConnectionLost, CloseCompletes, TypeOK
  <2> QED
    BY <1>0, <2>1, <2>2, ClosedIsSound, Buried
<1>6. CASE HalfOpen(c)
  <2>1. /\ hub' \subseteq hub /\ targets' \subseteq targets
        /\ UNCHANGED <<server, failed, stalled, greeting, page>>
    BY <1>6 DEF HalfOpen
  <2>2. faults' \in 0..MaxFaults
    BY <1>6, FaultTyped DEF HalfOpen
  <2> QED
    BY <2>1, <2>2 DEF Kept, TypeOK, SendInv, PageInv, SocketKnown, server
<1>7. CASE StaleClose(c)
  <2>1. page' = [page EXCEPT ![c] = OnClose([p EXCEPT !.zombie = FALSE])]
        /\ UNCHANGED <<server, sending, hub, stalled, greeting, faults>>
    BY <1>7 DEF StaleClose
  <2> QED
    BY <1>0, <2>1, OnCloseIsSound, PageOnly
<1>8. CASE TimerFires(c)
  <2> DEFINE r == [p EXCEPT !.timer = FALSE]
  <2>1. r \in Page /\ r.socket = p.socket /\ r.intentional = p.intentional /\ r.ref = p.ref
    BY <1>0 DEF Page
  <2>2. Connectable(r)
    BY <1>0, <2>1 DEF SoundPage, Connectable
  <2>3. Connects(c, r) /\ UNCHANGED <<server, sending, hub, stalled, greeting>>
    BY <1>8 DEF TimerFires
  <2> HIDE DEF r
  <2> QED
    BY <2>1, <2>2, <2>3, ConnectsKeeps
<1>9. CASE Silence(c)
  <2> DEFINE q == [p EXCEPT !.heard = "long"]
  <2>1. q \in Page /\ SoundPage(q) /\ q.ref = p.ref /\ q.socket = p.socket
    BY <1>0 DEF Page, SoundPage
  <2>2. page' = [page EXCEPT ![c] = q]
        /\ UNCHANGED <<server, sending, hub, stalled, greeting, faults>>
    BY <1>9 DEF Silence
  <2> HIDE DEF q
  <2> QED
    BY <2>1, <2>2, PageOnly
<1>10. CASE WatchdogTrips(c)
  <2> DEFINE q == [p EXCEPT !.armed = FALSE, !.socket = "closing"]
  <2>1. q \in Page /\ q.ref = p.ref /\ q.socket = "closing" /\ q.intentional = p.intentional
    BY <1>0 DEF Page
  <2>2. SoundPage(q)
    BY <1>0, <1>10, <2>1 DEF SoundPage, WatchdogTrips
  <2>3. page' = [page EXCEPT ![c] = q]
        /\ UNCHANGED <<server, sending, hub, stalled, greeting, faults>>
    BY <1>10 DEF WatchdogTrips
  <2> HIDE DEF q
  <2> QED
    BY <2>1, <2>2, <2>3, PageOnly
<1>11. CASE Stall(c)
  <2>1. /\ stalled' = stalled \cup {c} /\ p.socket = "open"
        /\ UNCHANGED <<server, sending, hub, greeting, page>>
    BY <1>11 DEF Stall
  <2>2. faults' \in 0..MaxFaults
    BY <1>11, FaultTyped DEF Stall
  <2>3. p.ref
    BY <1>0, <2>1 DEF SoundPage
  <2> QED
    BY <2>1, <2>2, <2>3 DEF Kept, TypeOK, SendInv, PageInv, SocketKnown, server, sending
<1>12. CASE StallEnds(c)
  <2>1. CASE page' = [page EXCEPT ![c] = Closed(p)] /\ BuryAll(c)
    <3>1. UNCHANGED server /\ faults' \in 0..MaxFaults
      BY <1>12 DEF StallEnds, TypeOK
    <3> QED
      BY <1>0, <2>1, <3>1, ClosedIsSound, Buried
  <2>2. CASE /\ stalled' = stalled \ {c} /\ page' = [page EXCEPT ![c] = Hears(p)]
             /\ UNCHANGED <<sending, hub, greeting>>
    <3>1. UNCHANGED server /\ UNCHANGED faults
      BY <1>12 DEF StallEnds
    <3>2. Hears(p) \in Page /\ SoundPage(Hears(p)) /\ Hears(p).ref = p.ref /\ Hears(p).socket = p.socket
      BY <1>0, HearsKeeps
    <3>3. SocketKnown(c)'
      BY <1>0, <2>2, <3>2 DEF SocketKnown, TypeOK, sending
    <3>4. page' \in [Clients -> Page] /\ PageInv'
      BY <2>2, <3>2, <3>3, OnePage DEF sending
    <3> QED
      BY <2>2, <3>1, <3>4 DEF Kept, TypeOK, SendInv, server, sending
  <2>3. CASE stalled' = stalled \ {c} /\ UNCHANGED <<page, sending, hub, greeting>>
    <3>1. UNCHANGED server /\ UNCHANGED faults
      BY <1>12 DEF StallEnds
    <3> QED
      BY <2>3, <3>1 DEF Kept, TypeOK, SendInv, PageInv, SocketKnown, server, sending
  <2> QED
    BY <1>12, <2>1, <2>2, <2>3 DEF StallEnds
<1>13. CASE EndpointEnds(c)
  <2>1. hub' \subseteq hub /\ UNCHANGED <<server, sending, stalled, greeting, page, faults>>
    BY <1>13 DEF EndpointEnds
  <2> QED
    BY <2>1 DEF Kept, TypeOK, SendInv, PageInv, SocketKnown, server, sending
<1> QED
  BY <1>1, <1>2, <1>3, <1>4, <1>5, <1>6, <1>7, <1>8, <1>9, <1>10, <1>11, <1>12, <1>13 DEF ClientStep

\* Clients and sends do not touch the broadcaster's frames.
LEMMA ServerUntouched ==
  /\ \A s \in Sockets: Sent(s) \/ SendFails(s) => UNCHANGED server
  /\ \A c \in Clients: ClientStep(c) => UNCHANGED server
<1>1. \A s \in Sockets: Sent(s) \/ SendFails(s) => UNCHANGED server
  BY DEF Sent, SendFails
<1>2. ASSUME NEW c \in Clients PROVE ClientStep(c) => UNCHANGED server
  BY DEF ClientStep, Acquire, Release, Open, Greeting, ConnectionLost, HalfOpen, CloseCompletes, StaleClose,
         TimerFires, Silence, WatchdogTrips, Stall, StallEnds, EndpointEnds
<1> QED
  BY <1>1, <1>2

-----------------------------------------------------------------------------
(* The theorems. *)

\* IInv is inductive.
THEOREM InductiveInvariant == Spec => []IInv
<1>1. Init => IInv
  BY InitIInv
<1>2. IInv /\ [Next]_vars => IInv'
  <2> SUFFICES ASSUME IInv, [Next]_vars PROVE IInv'
    OBVIOUS
  <2>0. TypeOK /\ FrameInv /\ SendInv /\ PageInv
    BY DEF IInv
  <2>1. CASE PublishLatest \/ Drain \/ Build \/ PublishFails \/ PublishDone \/ Broadcast \/ Prune \/ Close
    BY <2>0, <2>1, FrameSteps, PublisherKeeps DEF IInv, Kept
  <2>2. ASSUME NEW s \in Sockets, Sent(s) \/ SendFails(s) PROVE IInv'
    BY <2>0, <2>2, SendsKeep, ServerUntouched, OthersKeepFrames DEF IInv, Kept
  <2>3. ASSUME NEW c \in Clients,
               ClientStep(c)
        PROVE  IInv'
    <3>1. Kept
      BY <2>0, <2>3, ClientKeeps
    <3>2. FrameInv'
      BY <2>0, <2>3, ServerUntouched, OthersKeepFrames
    <3> QED
      BY <3>1, <3>2 DEF IInv, Kept
  <2>4. CASE UNCHANGED vars
    <3>1. TypeOK'
      BY <2>0, <2>4 DEF vars, server, sending, TypeOK
    <3>2. FrameInv'
      BY <2>0, <2>4, OthersKeepFrames DEF vars
    <3>3. SendInv'
      BY <2>0, <2>4 DEF vars, server, sending, SendInv
    <3>4. PageInv'
      BY <2>0, <2>4 DEF vars, server, sending, PageInv, SocketKnown
    <3> QED
      BY <3>1, <3>2, <3>3, <3>4 DEF IInv
  <2> QED
    BY <2>1, <2>2, <2>3, <2>4 DEF Next, ClientStep
<1> QED
  BY <1>1, <1>2, PTL DEF Spec

\* Coalescing never loses the newest frame, whatever fails or is closed.
THEOREM NewestNeverLost == Spec => []NewestIsKept
<1>1. IInv => NewestIsKept
  BY DEF IInv, FrameInv
<1> QED
  BY <1>1, InductiveInvariant, PTL

\* A page somebody looks at has a socket or will open one, and the server sends
\* under the name of the live socket to no other.
THEOREM PagesHoldTheirSockets == Spec => []PageAndServerAgree
<1>1. IInv => PageAndServerAgree
  BY DEF IInv, SendInv, PageInv, SoundPage, SocketKnown, PageAndServerAgree
<1> QED
  BY <1>1, InductiveInvariant, PTL
=============================================================================
