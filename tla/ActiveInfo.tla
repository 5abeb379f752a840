------------------------------ MODULE ActiveInfo ------------------------------
(* Reports of active sensors: a client process registers callbacks, the service *)
(* opens a socket pair for it (StreamServer) and sends a packet to every        *)
(* registered client when a sensor is enabled; the client's event thread reads  *)
(* the packets and calls the callbacks. Clients die, the service dies and comes *)
(* back, and the client's death observer connects again.                        *)
(*                                                                              *)
(* A step is one call of the service or one critical section of the client;     *)
(* the sender makes one attempt of send per step, the reader one recv or one    *)
(* packet. Sockets are numbered in the order they are made; server descriptors  *)
(* are used again as the kernel does, the lowest free one first.                *)
EXTENDS PacketStream

CONSTANTS
    Clients,        \* processes that register
    MaxSessions,    \* MAX_SESSON_ALARM
    MaxSockets,     \* bound: socket pairs made
    MaxReports,     \* bound: sensors enabled
    MaxDeaths,      \* bound: deaths of the service
    MaxErrors       \* bound: calls that fail for no reason of this code

ASSUME BoundsAssumption ==
    {MaxSessions, MaxSockets, MaxReports, MaxDeaths, MaxErrors} \subseteq Nat

VARIABLES
    service,    \* reporting: isReportActiveInfo_, pids: activeInfoCBPidSet_,
                \* watched: the keys of clientPidMap_, channels: of channelMap_
    sessions,   \* sessionsMap_: descriptor -> pid
    index,      \* idxPidMap_: pid -> descriptor
    opened,     \* the server's open descriptors -> socket
    report,     \* ReportActiveInfo under way: the packet, the sessions left, the send
    socket,     \* the socket pairs made: the cells on their way, who has its end open,
                \* and, as history, whether a packet was cut on it
    client,     \* a client process: see Client
    pc,         \* its threads: the application's and the death observer's
    sent,       \* history: the packets that went whole into a socket
    count       \* reports made, deaths and errors so far

vars == <<service, sessions, index, opened, report, socket, client, pc, sent, count>>

(* SensorServiceClient. fd is its socket (0: -1), isConnected isConnected_, cbs *)
(* whether activeInfoCBSet_ has a callback, circBuf the unread cells, reading   *)
(* how many packets OnReadPackets has taken (-1: not in it). stale: the proxy   *)
(* is of a dead service. History: heard is what was handed to the callbacks     *)
(* from this socket, torn that the cells in the buffer were out of step with    *)
(* packets, excused that calls failed or ran into each other.                            *)
NewClient == [alive |-> TRUE, fd |-> 0, isConnected |-> FALSE, cbs |-> FALSE,
              circBuf |-> <<>>, reading |-> -1, stale |-> FALSE,
              heard |-> <<>>, torn |-> FALSE, excused |-> FALSE]

Idle == [at |-> "idle", fd |-> 0]
Threads == {"application", "observer"}
NoReport == [pkt |-> 0, list |-> {}, rest |-> <<>>, tries |-> 0, on |-> 0]
NewService == [reporting |-> FALSE, pids |-> {}, watched |-> {}, channels |-> {}]
None == <<>>

Init ==
    /\ \E C \in SUBSET Clients :
          service = [NewService EXCEPT !.watched = C, !.channels = C]
    /\ sessions = None /\ index = None /\ opened = None
    /\ report = NoReport
    /\ socket = <<>>
    /\ client = [c \in Clients |-> NewClient]
    /\ pc = [c \in Clients |-> [t \in Threads |-> Idle]]
    /\ sent = <<>>
    /\ count = [reports |-> 0, deaths |-> 0, errors |-> 0]

-----------------------------------------------------------------------------
Sockets == 1..Len(socket)
Put(f, x, v) == [y \in DOMAIN f \cup {x} |-> IF y = x THEN v ELSE f[y]]
Drop(f, x) == [y \in DOMAIN f \ {x} |-> f[y]]
FreeFd == CHOOSE n \in 1..(Cardinality(DOMAIN opened) + 1) :
              /\ n \notin DOMAIN opened
              /\ \A m \in 1..(n - 1) : m \in DOMAIN opened

(* Closing an end; the socket is gone for the other side's sends, and what was  *)
(* not read is lost when the reader closes.                                     *)
CloseServer(s, k) == [s EXCEPT ![k].server = FALSE]
CloseClient(s, k) == IF k = 0 THEN s ELSE [s EXCEPT ![k].client = FALSE, ![k].cells = <<>>]

Error == /\ count.errors < MaxErrors
         /\ count' = [count EXCEPT !.errors = @ + 1]
Excuse(c) == client' = [client EXCEPT ![c].excused = TRUE]

(* The process has a socket whose other end is open.                            *)
Served(c) == client[c].fd # 0 /\ socket[client[c].fd].server

(* A thread of the process is in CreateSocketChannel.                           *)
Connecting(c) == \E t \in Threads : pc[c][t].at # "idle"

-----------------------------------------------------------------------------
(* StreamServer.                                                                *)

TooMany == Cardinality(DOMAIN sessions) > MaxSessions

(* AddSession: the pid's index entry is replaced, its earlier session stays.    *)
AddSessionMutant(c, fd) ==
    /\ sessions' = Put(sessions, fd, c)
    /\ UNCHANGED index
AddSession(c, fd) ==
    /\ sessions' = Put(sessions, fd, c)
    /\ index' = Put(index, c, fd)

(* DelSession closes the descriptor but not the session object, so a sender     *)
(* that holds the session goes on with the descriptor's number.                 *)
DelSessionMutant(c) ==
    IF c \notin DOMAIN index THEN UNCHANGED <<sessions, index, opened, socket>>
    ELSE /\ index' = Drop(index, c)
         /\ opened' = Drop(opened, index[c])
         /\ socket' = CloseServer(socket, opened[index[c]])
         /\ UNCHANGED sessions
DelSession(c) ==
    IF c \notin DOMAIN index THEN UNCHANGED <<sessions, index, opened, socket>>
    ELSE /\ index' = Drop(index, c)
         /\ sessions' = Drop(sessions, index[c])
         /\ opened' = Drop(opened, index[c])
         /\ socket' = CloseServer(socket, opened[index[c]])

(* UnregisterClientDeathRecipient, for a client with neither a data channel nor *)
(* active information.                                                          *)
Unwatched(s, c) == IF c \in s.channels \cup s.pids THEN s
                   ELSE [s EXCEPT !.watched = @ \ {c}]

-----------------------------------------------------------------------------
(* The client's connection.                                                     *)

(* Disconnect: a client without a socket does nothing; isConnected_ stays.      *)
Disconnected(cl) == [cl EXCEPT !.fd = 0]

(* Register, when there is no connection, and ReenableSensor, when there is     *)
(* one: the thread enters CreateSocketChannel.                                  *)
CreateRefused(c, t) ==
    /\ \/ /\ client[c].stale \/ TooMany
          /\ UNCHANGED count
       \/ Error
    /\ socket' = CloseClient(socket, client[c].fd)
    /\ client' = [client EXCEPT ![c] =
                     [Disconnected(client[c]) EXCEPT !.excused = @ \/ client[c].isConnected]]
    /\ pc' = [pc EXCEPT ![c][t] = Idle]
    /\ UNCHANGED <<service, sessions, index, opened, sent>>

CreateAccepted(c, t) ==
    /\ ~client[c].stale
    /\ ~TooMany
    /\ Len(socket) < MaxSockets
    /\ LET fd == FreeFd
           k == Len(socket) + 1
       IN /\ AddSession(c, fd)
          /\ opened' = Put(opened, fd, k)
          /\ socket' = Append(socket, [cells |-> <<>>, server |-> TRUE, client |-> TRUE,
                                     torn |-> FALSE])
          /\ sent' = Append(sent, <<>>)
          /\ service' = [service EXCEPT !.watched = @ \cup {c}]
          /\ pc' = [pc EXCEPT ![c][t] = [at |-> "created", fd |-> k]]
    /\ client' = [client EXCEPT ![c].excused = @ \/ \E u \in Threads \ {t} : pc[c][u].at # "idle"]
    /\ UNCHANGED count

CreateSocketChannel(c, t) ==
    /\ pc[c][t].at = "create"
    /\ CreateRefused(c, t) \/ CreateAccepted(c, t)
    /\ UNCHANGED report

(* fd_ is set and listened to. The buffer keeps what it had.                    *)
Listen(c, t) ==
    /\ pc[c][t].at = "created"
    /\ client' = [client EXCEPT ![c] = [client[c] EXCEPT
                     !.fd = pc[c][t].fd,
                     !.heard = <<>>,
                     !.torn = client[c].circBuf # <<>> \/ client[c].reading >= 0]]
    /\ pc' = [pc EXCEPT ![c][t].at = "listening"]
    /\ UNCHANGED <<service, sessions, index, opened, report, socket, sent, count>>

(* EnableActiveInfoCB: a pid that is registered already is an error, though the *)
(* service reports from then on.                                                *)
EnableAccepted(c, t) ==
    /\ ~client[c].stale
    /\ c \notin service.pids
    /\ service' = [service EXCEPT !.reporting = TRUE, !.pids = @ \cup {c}]
    /\ client' = [client EXCEPT ![c] = [client[c] EXCEPT
                     !.isConnected = TRUE,
                     !.cbs = @ \/ t = "application",
                     !.excused = @ \/ ~Served(c)]]
    /\ UNCHANGED <<socket, count>>

EnableRefused(c) ==
    /\ \/ client[c].stale /\ UNCHANGED <<service, count>>
       \/ /\ ~client[c].stale
          /\ c \in service.pids
          /\ service' = [service EXCEPT !.reporting = TRUE]
          /\ UNCHANGED count
       \/ Error /\ UNCHANGED service
    /\ client' = [client EXCEPT ![c] = [Disconnected(client[c]) EXCEPT
                     !.excused = @ \/ client[c].isConnected \/ ~client[c].stale]]
    /\ socket' = CloseClient(socket, client[c].fd)

EnableActiveInfoCB(c, t) ==
    /\ pc[c][t].at = "listening"
    /\ EnableAccepted(c, t) \/ EnableRefused(c)
    /\ pc' = [pc EXCEPT ![c][t] = Idle]
    /\ UNCHANGED <<sessions, index, opened, report, sent>>

-----------------------------------------------------------------------------
(* The application's calls.                                                     *)

Register(c) ==
    /\ client[c].alive
    /\ pc[c]["application"].at = "idle"
    /\ IF client[c].isConnected
       THEN client' = [client EXCEPT ![c].cbs = TRUE] /\ UNCHANGED pc
       ELSE pc' = [pc EXCEPT ![c]["application"].at = "create"] /\ UNCHANGED client
    /\ UNCHANGED <<service, sessions, index, opened, report, socket, sent, count>>

(* Unregister of the last callback, which holds clientMutex_ from               *)
(* DisableActiveInfoCB on. That one stops all reports of the service, and fails *)
(* for a pid that is not registered; then Disconnect and DestroySocketChannel.  *)
UnregisterRefused(c) ==
    /\ \/ /\ client[c].stale
          /\ UNCHANGED <<service, count>>
       \/ /\ ~client[c].stale
          /\ c \notin service.pids
          /\ service' = [service EXCEPT !.reporting = FALSE]
          /\ UNCHANGED count
       \/ Error /\ UNCHANGED service
    /\ client' = [client EXCEPT ![c] = [client[c] EXCEPT !.cbs = FALSE]]
    /\ UNCHANGED <<sessions, index, opened, socket>>

UnregisterHalfWay(c) ==
    /\ ~client[c].stale
    /\ c \in service.pids
    /\ Error
    /\ service' = [service EXCEPT !.reporting = FALSE, !.pids = @ \ {c}]
    /\ client' = [client EXCEPT ![c] =
                     [Disconnected(client[c]) EXCEPT !.cbs = FALSE, !.excused = TRUE]]
    /\ socket' = CloseClient(socket, client[c].fd)
    /\ UNCHANGED <<sessions, index, opened>>

UnregisterDone(c) ==
    /\ ~client[c].stale
    /\ c \in service.pids
    /\ UNCHANGED count
    /\ service' = Unwatched([service EXCEPT !.reporting = FALSE, !.pids = @ \ {c}], c)
    /\ client' = [client EXCEPT ![c] = [Disconnected(client[c]) EXCEPT
                     !.cbs = FALSE, !.isConnected = FALSE]]
    /\ LET mine == CloseClient(socket, client[c].fd) IN
       IF c \notin DOMAIN index
       THEN socket' = mine /\ UNCHANGED <<sessions, index, opened>>
       ELSE /\ index' = Drop(index, c)
            /\ sessions' = Drop(sessions, index[c])
            /\ opened' = Drop(opened, index[c])
            /\ socket' = CloseServer(mine, opened[index[c]])

Unregister(c) ==
    /\ client[c].alive
    /\ client[c].cbs
    /\ pc[c]["application"].at = "idle"
    /\ UnregisterRefused(c) \/ UnregisterHalfWay(c) \/ UnregisterDone(c)
    /\ UNCHANGED <<report, pc, sent>>

(* The end of the process's data channel, which also ends the watch of it. The  *)
(* channel was there from the start (TransferDataChannel is in SensorService).  *)
DestroySensorChannel(c) ==
    /\ client[c].alive /\ ~client[c].stale
    /\ c \in service.channels
    /\ service' = Unwatched([service EXCEPT !.channels = @ \ {c}], c)
    /\ IF Connecting(c) THEN Excuse(c) ELSE UNCHANGED client
    /\ UNCHANGED <<sessions, index, opened, report, socket, pc, sent, count>>

-----------------------------------------------------------------------------
(* Deaths.                                                                      *)

ClientDies(c) ==
    /\ client[c].alive
    /\ client' = [client EXCEPT ![c] = [NewClient EXCEPT
                     !.alive = FALSE, !.excused = client[c].excused]]
    /\ socket' = [k \in Sockets |->
                     IF k = client[c].fd \/ \E t \in Threads : k = pc[c][t].fd
                     THEN [socket[k] EXCEPT !.client = FALSE, !.cells = <<>>] ELSE socket[k]]
    /\ pc' = [pc EXCEPT ![c] = [t \in Threads |-> Idle]]
    /\ UNCHANGED <<service, sessions, index, opened, report, sent, count>>

ProcessDeath(c) ==
    /\ ~client[c].alive
    /\ c \in service.watched
    /\ DelSession(c)
    /\ service' = [service EXCEPT !.pids = @ \ {c}, !.channels = @ \ {c},
                                  !.watched = @ \ {c}]
    /\ UNCHANGED <<report, client, pc, sent, count>>

(* The service dies, and a new one starts with nothing.                         *)
ServiceDies ==
    /\ count.deaths < MaxDeaths
    /\ count' = [count EXCEPT !.deaths = @ + 1]
    /\ service' = NewService
    /\ sessions' = None /\ index' = None /\ opened' = None
    /\ report' = NoReport
    /\ socket' = [k \in Sockets |-> [socket[k] EXCEPT !.server = FALSE]]
    /\ client' = [c \in Clients |-> [client[c] EXCEPT !.stale = client[c].alive]]
    /\ UNCHANGED <<pc, sent>>

(* The client's ProcessDeathObserver takes the new proxy; ReenableSensor then   *)
(* disconnects and connects again what was connected.                           *)
ReenableSensor(c) ==
    /\ client[c].stale
    /\ pc[c]["observer"].at = "idle"
    /\ IF client[c].isConnected
       THEN /\ pc' = [pc EXCEPT ![c]["observer"].at = "create"]
            /\ client' = [client EXCEPT ![c] = [Disconnected(client[c]) EXCEPT !.stale = FALSE]]
            /\ socket' = CloseClient(socket, client[c].fd)
       ELSE /\ client' = [client EXCEPT ![c].stale = FALSE]
            /\ UNCHANGED <<pc, socket>>
    /\ UNCHANGED <<service, sessions, index, opened, report, sent, count>>

-----------------------------------------------------------------------------
(* The service sends: ReportActiveInfo, called by EnableSensor, which holds     *)
(* serviceLock_, so one report ends before the next begins. The sessions are    *)
(* looked up first; their descriptors may be closed when their turn comes.      *)

Addressees == {p \in service.pids \cap DOMAIN index : index[p] \in DOMAIN sessions}

StartReport ==
    /\ report = NoReport
    /\ service.reporting
    /\ Addressees # {}
    /\ count.reports < MaxReports
    /\ count' = [count EXCEPT !.reports = @ + 1]
    /\ report' = [pkt |-> count.reports + 1,
                  list |-> {index[p] : p \in Addressees},
                  rest |-> MakeData(count.reports + 1), tries |-> 0, on |-> 0]
    /\ UNCHANGED <<service, sessions, index, opened, socket, client, pc, sent>>

Current == CHOOSE fd \in report.list : \A g \in report.list : fd <= g
NextSession == IF report.list = {Current} THEN NoReport
               ELSE [report EXCEPT !.list = @ \ {Current}, !.rest = MakeData(report.pkt),
                                   !.tries = 0, !.on = 0]

(* The descriptor is closed, or the other end is: send fails.                   *)
SendFails ==
    /\ ~(Current \in DOMAIN opened /\ socket[opened[Current]].client)
    /\ report' = NextSession
    /\ UNCHANGED <<socket, sent>>

(* An attempt, to whoever owns the descriptor now. The rest of a packet is cut  *)
(* off after the last attempt, or goes to another socket than it began on.      *)
SendAttempt ==
    /\ Current \in DOMAIN opened
    /\ LET k == opened[Current]
           n == Taken(report.rest, socket[k].cells)
           rest == Without(report.rest, n)
           last == report.tries + 1 = RetryLimit
           cut == (last /\ rest # <<>> /\ Len(rest) < PacketSize) \/ report.on \notin {0, k}
       IN /\ socket[k].client
          /\ socket' = [socket EXCEPT ![k].cells = @ \o First(report.rest, n),
                                      ![k].torn = @ \/ cut]
          /\ sent' = IF rest = <<>> THEN [sent EXCEPT ![k] = Append(@, report.pkt)] ELSE sent
          /\ report' = IF rest = <<>> \/ last THEN NextSession
                       ELSE [report EXCEPT !.rest = rest, !.tries = @ + 1,
                                           !.on = IF @ = 0 /\ n > 0 THEN k ELSE @]

Send ==
    /\ report # NoReport
    /\ SendFails \/ SendAttempt
    /\ UNCHANGED <<service, sessions, index, opened, client, pc, count>>

-----------------------------------------------------------------------------
(* The client's event thread.                                                   *)

(* FdListener::OnReadable and ReceiveMessage: one recv into the buffer.         *)
Receive(c) ==
    LET k == client[c].fd IN
    /\ k # 0
    /\ client[c].reading = -1
    /\ socket[k].cells # <<>>
    /\ LET n == Least(BufSize, Len(socket[k].cells))
           data == First(socket[k].cells, n)
       IN /\ socket' = [socket EXCEPT ![k].cells = Without(@, n)]
          /\ client' = [client EXCEPT ![c] = [client[c] EXCEPT
                           !.circBuf = Write(@, data),
                           !.torn = @ \/ ~Fits(client[c].circBuf, data),
                           !.reading = 0]]
    /\ UNCHANGED <<service, sessions, index, opened, report, pc, sent, count>>

(* OnReadPackets: one turn of its loop.                                         *)
StopReading(c) ==
    /\ client' = [client EXCEPT ![c].reading = -1]

TakePacket(c, size) ==
    LET buf == client[c].circBuf
        n == HeadSize + size
    IN \/ /\ BadSize(size)
          /\ client' = [client EXCEPT ![c] = [client[c] EXCEPT !.circBuf = <<>>, !.reading = -1]]
       \/ Incomplete(buf, size) /\ StopReading(c)
       \/ /\ ~BadSize(size) /\ ~Incomplete(buf, size)
          /\ client' = [client EXCEPT ![c] = [client[c] EXCEPT
                 !.circBuf = AfterPacket(buf, size),
                 !.heard = Append(@, Parsed(buf, n)),
                 !.reading = IF Len(buf) = n THEN -1 ELSE @ + 1]]

OnReadPackets(c) ==
    /\ client[c].reading >= 0
    /\ \/ /\ client[c].reading = PacketLimit \/ Len(client[c].circBuf) < HeadSize
          /\ StopReading(c)
       \/ /\ client[c].reading < PacketLimit
          /\ Len(client[c].circBuf) >= HeadSize
          /\ \E size \in HeadSizes(client[c].circBuf) : TakePacket(c, size)
    /\ UNCHANGED <<service, sessions, index, opened, report, socket, pc, sent, count>>

(* OnShutdown: the service's end is closed; Disconnect leaves isConnected_.     *)
OnShutdown(c) ==
    LET k == client[c].fd IN
    /\ k # 0
    /\ client[c].reading = -1
    /\ ~socket[k].server
    /\ client' = [client EXCEPT ![c] = Disconnected(@)]
    /\ socket' = CloseClient(socket, k)
    /\ UNCHANGED <<service, sessions, index, opened, report, pc, sent, count>>

-----------------------------------------------------------------------------
Next ==
    \/ \E c \in Clients :
          \/ Register(c) \/ Unregister(c)
          \/ DestroySensorChannel(c)
          \/ ClientDies(c) \/ ProcessDeath(c) \/ ReenableSensor(c)
          \/ Receive(c) \/ OnReadPackets(c) \/ OnShutdown(c)
          \/ \E t \in Threads : CreateSocketChannel(c, t) \/ Listen(c, t)
                                \/ EnableActiveInfoCB(c, t)
    \/ ServiceDies \/ StartReport \/ Send

Spec == Init /\ [][Next]_vars

-----------------------------------------------------------------------------
(* A function with values at some of the keys.                                  *)
Partial(f, D, R) == DOMAIN f \subseteq D /\ \A x \in DOMAIN f : f[x] \in R

TypeOK ==
    /\ service \in [reporting : BOOLEAN, pids : SUBSET Clients,
                    watched : SUBSET Clients, channels : SUBSET Clients]
    /\ Partial(sessions, Nat, Clients) /\ Partial(index, Clients, Nat)
    /\ Partial(opened, Nat, Sockets)
    /\ Cardinality(DOMAIN sessions) <= MaxSessions + 1
    /\ \A c \in Clients : client[c].fd \in Sockets \cup {0}

(* Packets arrive whole, once, and in the order they were sent, until a packet  *)
(* was cut by a sender that gave up, a burst did not fit into the buffer, or    *)
(* a connection began with cells of the one before in the buffer; and when      *)
(* nothing is on its way the callbacks have had all of them                     *)
(* (stream_session.cpp:33, stream_socket.cpp:31, sensor_service_client.cpp:735).*)
InStep ==
    \A c \in Clients :
        LET k == client[c].fd
            n == Len(client[c].heard)
        IN k # 0 /\ ~client[c].torn /\ ~socket[k].torn =>
               /\ n <= Len(sent[k])
               /\ client[c].heard = First(sent[k], n)
               /\ socket[k].cells = <<>> /\ client[c].circBuf = <<>> => n = Len(sent[k])

(* isConnected_ is true of the connection: the service has a session of the     *)
(* process, on its socket, and the process among those it reports to. Not so    *)
(* after connections that overlapped or failed half way                         *)
(* (sensor_service_client.cpp:644, 655, 796; stream_server.cpp:130).            *)
Connected ==
    \A c \in Clients :
        /\ client[c].isConnected
        /\ ~client[c].stale /\ ~client[c].excused /\ ~Connecting(c)
        => /\ c \in service.pids
           /\ c \in DOMAIN index
           /\ sessions[index[c]] = c
           /\ opened[index[c]] = client[c].fd

(* A session can be reached by its pid, so that DelSession can close it, and a  *)
(* process whose death was handled has left nothing (stream_server.cpp:145,     *)
(* sensor_service.cpp:979).                                                     *)
NoLeak ==
    /\ \A fd \in DOMAIN sessions :
          LET c == sessions[fd] IN
          ~client[c].excused => c \in DOMAIN index /\ index[c] = fd
    /\ \A c \in Clients :
          /\ ~client[c].alive /\ ~client[c].excused
          /\ c \notin service.watched
          => c \notin service.pids \cup DOMAIN index
=============================================================================
