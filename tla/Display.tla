------------------------------- MODULE Display -------------------------------
(***************************************************************************)
(* The live display: while capture runs, the grid hands each frame to      *)
(* Broadcaster, whose one task builds its messages and gives them, topic   *)
(* by topic, to the ConnectionManager (the hub), which sends them to one   *)
(* client after the other; and the topic connections of the pages, which   *)
(* reconnect and watch for silence.                                        *)
(*                                                                         *)
(* A client is one topic connection of one page.  Of its sockets only the  *)
(* current one ("live") is told apart; those it has lost or closed and the *)
(* server still holds are "dead".  A socket can stall (a full receive      *)
(* window); the server's pings end what stays stalled.  Times are          *)
(* abstracted: a send to a stalled socket runs into SEND_TIMEOUT_S, a back-*)
(* off or recovery delay is a timer that goes off, WATCHDOG_SILENCE_MS is  *)
(* silence that may follow once a client is not served.  A served client   *)
(* hears something every second, delayed by at most SEND_TIMEOUT_S per     *)
(* stalled neighbour, which is taken to stay below the watchdog's time.    *)
(***************************************************************************)
EXTENDS Naturals, Sequences

CONSTANTS Clients,
          TopicOf,      \* the topic a client is connected to
          MaxFaults     \* bound: stalls, lost or refused connections, failed publishes, captures ended, pages left

Topics == {"market-data", "stocks", "capture-status", "session"}
\* Frames are told apart by whether the grid has made a newer one since.
Frames == {"newest", "older"}
Older(f) == IF f = "newest" THEN "older" ELSE f

ASSUME ConstantsAssumption ==
    /\ TopicOf \in [Clients -> Topics]
    /\ MaxFaults \in Nat

VARIABLES latest,     \* _latest_snapshot, or "none"
          task,       \* _publish_task: where it is, its snapshot, what is left to send
          targets,    \* subscribers the current message is still to be sent to
          failed,     \* broadcast's list `dead`
          hub,        \* _topics: the sockets registered
          stalled,    \* clients whose socket takes nothing at the moment
          greeting,   \* clients whose socket has its session_status still to come
          page,       \* per client: the connection object in the browser; thrown is a
                      \* history: its last attempt to connect raised
          published,  \* history: the last frame whose publish came to an end
          faults

server == <<latest, task, published>>
sending == <<targets, failed>>
vars == <<server, sending, hub, stalled, greeting, page, faults>>

Sockets == Clients \X {"live", "dead"}
Live(c) == <<c, "live">>
Idle == [at |-> "none", frame |-> "none", left |-> <<>>]
Page == [ref: BOOLEAN, socket: {"none", "connecting", "open", "closing"},
         zombie: BOOLEAN, intentional: BOOLEAN, timer: BOOLEAN,
         thrown: BOOLEAN, armed: BOOLEAN, heard: {"never", "recent", "long"}]

TypeOK ==
    /\ {latest, published} \subseteq Frames \cup {"none"}
    /\ task \in [at: {"none", "loop", "build", "next", "send"},
                frame: Frames \cup {"none"}, left: Seq(Topics)]
    /\ targets \subseteq Sockets /\ failed \subseteq Sockets
    /\ hub \subseteq Sockets /\ stalled \subseteq Clients
    /\ greeting \subseteq Clients
    /\ page \in [Clients -> Page]
    /\ faults \in 0..MaxFaults

Init ==
    /\ latest = "none" /\ task = Idle /\ published = "newest"
    /\ targets = {} /\ failed = {} /\ hub = {} /\ stalled = {} /\ greeting = {}
    /\ page = [c \in Clients |-> [ref |-> FALSE, socket |-> "none", zombie |-> FALSE,
                                  intentional |-> FALSE, timer |-> FALSE,
                                  thrown |-> FALSE, armed |-> FALSE, heard |-> "never"]]
    /\ faults = 0

Fault == faults < MaxFaults /\ faults' = faults + 1

-----------------------------------------------------------------------------
(* Broadcaster *)

\* A plausible slip: the frame that waits goes first, the new one is dropped.
PublishWaiting ==
    /\ latest' = IF latest = "none" THEN "newest" ELSE "older"
    /\ task' = IF task.at = "none" THEN [Idle EXCEPT !.at = "loop"]
               ELSE [task EXCEPT !.frame = Older(@)]
    /\ published' = Older(published)
    /\ UNCHANGED <<sending, hub, stalled, greeting, page, faults>>

\* publish_latest: a newer frame takes the place of one that waits.
PublishLatest ==
    /\ latest' = "newest"
    /\ task' = IF task.at = "none" THEN [Idle EXCEPT !.at = "loop"]
               ELSE [task EXCEPT !.frame = Older(@)]
    /\ published' = Older(published)
    /\ UNCHANGED <<sending, hub, stalled, greeting, page, faults>>

\* _drain_latest: the head of its loop; leaving it and _publish_task = None are
\* one step of the event loop.
Drain ==
    /\ task.at = "loop"
    /\ IF latest = "none"
       THEN task' = Idle /\ UNCHANGED latest
       ELSE task' = [Idle EXCEPT !.at = "build", !.frame = latest] /\ latest' = "none"
    /\ UNCHANGED <<published, sending, hub, stalled, greeting, page, faults>>

\* Topics no client is ever on are left out: broadcast returns at once.
On(topic) == IF \E c \in Clients: TopicOf[c] = topic THEN <<topic>> ELSE <<>>

\* The messages of a frame, by topic and in the order they go out: the grid of
\* each chain, the two boards on one topic, then status and heartbeat.
IndexMessages == On("market-data")
BoardMessages == On("stocks")
Messages == IndexMessages \o BoardMessages \o On("capture-status") \o On("session")

Build ==
    /\ task.at = "build"
    /\ task' = [task EXCEPT !.at = "next", !.left = Messages]
    /\ UNCHANGED <<latest, published, sending, hub, stalled, greeting, page, faults>>

EndPublish ==
    /\ task' = [Idle EXCEPT !.at = "loop"]
    /\ published' = task.frame
    /\ UNCHANGED latest

\* Building or encoding raises: the rest of the frame is given up.
PublishFails ==
    /\ task.at \in {"build", "next"} /\ Fault
    /\ EndPublish
    /\ UNCHANGED <<sending, hub, stalled, greeting, page>>

PublishDone ==
    /\ task.at = "next" /\ task.left = <<>>
    /\ EndPublish
    /\ UNCHANGED <<sending, hub, stalled, greeting, page, faults>>

\* The capture ends and another begins, with a Broadcaster of its own: close
\* cancels the task, in the middle of a send too, and owes nobody its frame.
Close ==
    /\ Fault
    /\ latest' = "none" /\ task' = Idle /\ published' = "newest"
    /\ targets' = {} /\ failed' = {}
    /\ UNCHANGED <<hub, stalled, greeting, page>>

-----------------------------------------------------------------------------
(* ConnectionManager *)

\* broadcast works on a copy of the subscribers, and returns at once if the
\* topic has none.
Broadcast ==
    /\ task.at = "next" /\ task.left # <<>>
    /\ targets' = {s \in hub: TopicOf[s[1]] = Head(task.left)}
    /\ task' = [task EXCEPT !.at = IF targets' = {} THEN "next" ELSE "send", !.left = Tail(@)]
    /\ UNCHANGED <<latest, published, failed, hub, stalled, greeting, page, faults>>

Hears(p) == IF p.socket = "open" THEN [p EXCEPT !.heard = "recent", !.armed = TRUE] ELSE p

Sent(s) ==
    /\ task.at = "send" /\ s \in targets /\ (s[2] = "live" => s[1] \notin stalled)
    /\ targets' = targets \ {s}
    /\ page' = IF s = Live(s[1]) THEN [page EXCEPT ![s[1]] = Hears(@)] ELSE page
    /\ UNCHANGED <<server, failed, hub, stalled, greeting, faults>>

\* A stalled socket runs into the timeout, a dead one may raise.
SendFails(s) ==
    /\ task.at = "send" /\ s \in targets
    /\ s[2] = "live" => s[1] \in stalled
    /\ targets' = targets \ {s}
    /\ failed' = failed \cup {s}
    /\ UNCHANGED <<server, hub, stalled, greeting, page, faults>>

\* Those that failed are taken out of the topic; their sockets stay open.
Prune ==
    /\ task.at = "send" /\ targets = {}
    /\ hub' = hub \ failed /\ failed' = {}
    /\ task' = [task EXCEPT !.at = "next"]
    /\ UNCHANGED <<latest, published, targets, stalled, greeting, page, faults>>

\* The live socket of c, wherever the server holds it, is now one of its dead.
Bury(c, S) == IF Live(c) \in S THEN (S \ {Live(c)}) \cup {<<c, "dead">>} ELSE S

BuryAll(c) ==
    /\ targets' = Bury(c, targets) /\ failed' = Bury(c, failed)
    /\ hub' = Bury(c, hub) /\ stalled' = stalled \ {c}
    /\ greeting' = greeting \ {c}

\* ws_endpoint, once it learns of the close: the finally takes the socket out.
EndpointEnds(c) ==
    /\ <<c, "dead">> \in hub
    /\ hub' = hub \ {<<c, "dead">>}
    /\ UNCHANGED <<server, sending, stalled, greeting, page, faults>>

-----------------------------------------------------------------------------
(* The connection object of a page *)

\* connect does nothing when there is a socket or nobody holds the connection.
Due(p) == p.socket = "none" /\ p.ref

\* A plausible slip: connect leaves the mark of an intentional close behind.
ConnectMarked(p) ==
    IF Due(p) THEN [p EXCEPT !.socket = "connecting", !.thrown = FALSE] ELSE p

Connect(p) ==
    IF Due(p)
    THEN [p EXCEPT !.socket = "connecting", !.intentional = FALSE, !.thrown = FALSE]
    ELSE p

\* The constructor raises, or there is no address: the catch leaves no socket and no timer.
ConnectThrows(p) ==
    IF Due(p) THEN [p EXCEPT !.intentional = FALSE, !.thrown = TRUE] ELSE p

Connects(c, p) ==
    \/ page' = [page EXCEPT ![c] = Connect(p)] /\ UNCHANGED faults
    \/ page' = [page EXCEPT ![c] = ConnectThrows(p)] /\ Fault

Acquire(c) ==
    /\ ~page[c].ref
    /\ Connects(c, [page[c] EXCEPT !.ref = TRUE])
    /\ UNCHANGED <<server, sending, hub, stalled, greeting>>

\* disconnect: the socket's onclose is still to come.  Bound: one such socket.
Release(c) ==
    /\ page[c].ref /\ Fault
    /\ page[c].socket # "none" => ~page[c].zombie
    /\ page' = [page EXCEPT ![c] = [ref |-> FALSE, socket |-> "none",
                    zombie |-> @.zombie \/ @.socket # "none", intentional |-> TRUE,
                    timer |-> FALSE, thrown |-> FALSE, armed |-> FALSE, heard |-> "never"]]
    /\ BuryAll(c)
    /\ UNCHANGED server

\* hub.connect and onopen; the greeting follows.
Open(c) ==
    /\ page[c].socket = "connecting"
    /\ page' = [page EXCEPT ![c].socket = "open", ![c].timer = FALSE]
    /\ hub' = hub \cup {Live(c)}
    /\ greeting' = greeting \cup {c}
    /\ UNCHANGED <<server, sending, stalled, faults>>

\* A plausible slip: only frames arm the watchdog.
GreetingIgnored(c) ==
    /\ c \in greeting /\ c \notin stalled
    /\ greeting' = greeting \ {c}
    /\ UNCHANGED <<server, sending, hub, stalled, page, faults>>

\* session_status "connected": a message like any other.
Greeting(c) ==
    /\ c \in greeting /\ c \notin stalled
    /\ greeting' = greeting \ {c}
    /\ page' = [page EXCEPT ![c] = Hears(@)]
    /\ UNCHANGED <<server, sending, hub, stalled, faults>>

\* onclose: a timer, after which it connects again, unless it was meant.
OnClose(p) ==
    IF p.intentional \/ ~p.ref THEN [p EXCEPT !.intentional = FALSE]
    ELSE [p EXCEPT !.timer = TRUE]

Closed(p) == OnClose([p EXCEPT !.socket = "none"])

ConnectionLost(c) ==
    /\ page[c].socket \in {"connecting", "open"} /\ Fault
    /\ page' = [page EXCEPT ![c] = Closed(@)]
    /\ BuryAll(c)
    /\ UNCHANGED server

\* Only the server learns that the connection is gone.  Before the greeting,
\* nothing would tell the page: the watchdog is armed by a message.
HalfOpen(c) ==
    /\ page[c].socket = "open" /\ Live(c) \in hub /\ c \notin greeting /\ Fault
    /\ hub' = hub \ {Live(c)}
    /\ targets' = targets \ {Live(c)}
    /\ UNCHANGED <<server, failed, stalled, greeting, page>>

CloseCompletes(c) ==
    /\ page[c].socket = "closing"
    /\ page' = [page EXCEPT ![c] = Closed(@)]
    /\ BuryAll(c)
    /\ UNCHANGED <<server, faults>>

\* onclose of a socket that disconnect has closed, at times after another connect.
StaleClose(c) ==
    /\ page[c].zombie
    /\ page' = [page EXCEPT ![c] = OnClose([@ EXCEPT !.zombie = FALSE])]
    /\ UNCHANGED <<server, sending, hub, stalled, greeting, faults>>

TimerFires(c) ==
    /\ page[c].timer
    /\ Connects(c, [page[c] EXCEPT !.timer = FALSE])
    /\ UNCHANGED <<server, sending, hub, stalled, greeting>>

Served(c) == Live(c) \in hub /\ c \notin stalled

\* WATCHDOG_SILENCE_MS without a message.
Silence(c) ==
    /\ page[c].heard = "recent" /\ ~Served(c)
    /\ page' = [page EXCEPT ![c].heard = "long"]
    /\ UNCHANGED <<server, sending, hub, stalled, greeting, faults>>

\* maybeTripWatchdog
WatchdogTrips(c) ==
    /\ page[c].armed /\ page[c].heard = "long" /\ page[c].socket = "open"
    /\ page' = [page EXCEPT ![c].armed = FALSE, ![c].socket = "closing"]
    /\ UNCHANGED <<server, sending, hub, stalled, greeting, faults>>

\* The network between: it stalls, and after that either everything that was
\* buffered arrives or the pings find the socket dead.
Stall(c) ==
    /\ page[c].socket = "open" /\ c \notin stalled /\ Fault
    /\ stalled' = stalled \cup {c}
    /\ UNCHANGED <<server, sending, hub, greeting, page>>

StallEnds(c) ==
    /\ c \in stalled
    /\ \/ /\ stalled' = stalled \ {c}
          /\ page' = [page EXCEPT ![c] = Hears(@)] \/ UNCHANGED page
          /\ UNCHANGED <<sending, hub, greeting>>
       \/ /\ page' = [page EXCEPT ![c] = Closed(@)]
          /\ BuryAll(c)
    /\ UNCHANGED <<server, faults>>

-----------------------------------------------------------------------------
Publisher == Drain \/ Build \/ PublishDone \/ Broadcast \/ Prune
Sends == \E s \in Sockets: Sent(s) \/ SendFails(s)

Next ==
    \/ PublishLatest
    \/ Drain \/ Build \/ PublishFails \/ PublishDone \/ Broadcast \/ Prune \/ Close
    \/ \E s \in Sockets: Sent(s) \/ SendFails(s)
    \/ \E c \in Clients:
          \/ Acquire(c) \/ Release(c) \/ Open(c) \/ Greeting(c)
          \/ ConnectionLost(c) \/ HalfOpen(c) \/ CloseCompletes(c) \/ StaleClose(c)
          \/ TimerFires(c) \/ Silence(c) \/ WatchdogTrips(c)
          \/ Stall(c) \/ StallEnds(c) \/ EndpointEnds(c)

\* The grid ticks, tasks are scheduled, a send ends within
\* its timeout, timers go off, and the network answers or its loss is noticed.
Spec ==
    /\ Init /\ [][Next]_vars
    /\ WF_vars(PublishLatest) /\ WF_vars(Publisher) /\ WF_vars(Sends)
    /\ \A c \in Clients:
          /\ WF_vars(Open(c)) /\ WF_vars(Greeting(c)) /\ WF_vars(CloseCompletes(c))
          /\ WF_vars(TimerFires(c)) /\ WF_vars(Silence(c)) /\ WF_vars(WatchdogTrips(c))
          /\ WF_vars(StallEnds(c)) /\ WF_vars(EndpointEnds(c))

-----------------------------------------------------------------------------
(* Properties *)

\* Page and server agree: a page somebody looks at has a socket or a timer that
\* will open one, whatever was closed, left and come back to in between, unless
\* its last attempt to open one raised; and the server sends under the name of the
\* live socket to no other.
PageAndServerAgree ==
    /\ TypeOK
    /\ task.at # "send" => targets = {} /\ failed = {}
    /\ \A c \in Clients:
          /\ page[c].ref /\ page[c].socket = "none" => page[c].timer \/ page[c].thrown
          /\ Live(c) \in hub \cup targets \cup failed \/ c \in stalled \cup greeting =>
                page[c].ref /\ page[c].socket \in {"open", "closing"}

\* Coalescing never loses the last frame: the newest one waits, is being
\* published or has been, whatever order grid and publisher take turns in.
NewestIsKept == "newest" \in {latest, task.frame, published}

Receives(c) == page[c].socket = "open" /\ Sent(Live(c))

\* A page that stays open keeps getting frames: not a stall, a pruning, a half-open
\* connection nor a slow neighbour ends its stream.  Only an attempt to connect that
\* raises does, until something else makes it connect again.
StreamsResume ==
    \A c \in Clients:
        <>[](page[c].ref /\ ~page[c].thrown) => []<><<Receives(c)>>_vars

=============================================================================
