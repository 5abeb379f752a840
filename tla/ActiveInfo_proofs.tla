--------------------------- MODULE ActiveInfo_proofs ---------------------------
(***************************************************************************)
(* The safety of the connections for active information, for any clients,  *)
(* sessions, reports, deaths and errors: a session can be found by the     *)
(* process it belongs to, and who believes it is connected is. And the     *)
(* order of the packets on them, for packets, buffers and sockets of any   *)
(* size: what was sent is what was heard and, behind it, what is on its    *)
(* way.  Last, of SensorShakeControlManager: whose motion events are held  *)
(* back follows the active user's policies.                                *)
(***************************************************************************)
EXTENDS ActiveInfo, ShakeControl, LeastOfNats, SequenceTheorems

-----------------------------------------------------------------------------
(* The inductive invariant                                                 *)

Cells == Seq(Nat \X Nat)

\* What the kernel keeps of a socket.
Buffered == {s \in Cells : Len(s) <= SocketSize}

ClientShape == [alive : BOOLEAN, fd : Nat, isConnected : BOOLEAN, cbs : BOOLEAN,
                circBuf : Cells, reading : Int, stale : BOOLEAN,
                heard : Seq(Nat), torn : BOOLEAN, excused : BOOLEAN]

SocketShape == [cells : Buffered, server : BOOLEAN, client : BOOLEAN, torn : BOOLEAN]

ServiceShape == [reporting : BOOLEAN, pids : SUBSET Clients,
                 watched : SUBSET Clients, channels : SUBSET Clients]

ThreadShape == [at : {"idle", "create", "created", "listening"}, fd : Nat]

ReportShape == [pkt : Nat, list : SUBSET Nat, rest : Cells, tries : Nat, on : Nat]

CountShape == [reports : Nat, deaths : Nat, errors : Nat]

\* What every variable holds.
Shape ==
    /\ service \in ServiceShape
    /\ Partial(sessions, Nat, Clients) /\ IsFiniteSet(DOMAIN sessions)
    /\ Cardinality(DOMAIN sessions) <= MaxSessions + 1
    /\ Partial(index, Clients, Nat)
    /\ Partial(opened, Nat, Sockets)
    /\ report \in ReportShape
    /\ socket \in Seq(SocketShape)
    /\ client \in [Clients -> ClientShape]
    /\ \A c \in Clients : client[c].fd \in Sockets \cup {0}
    /\ pc \in [Clients -> [Threads -> ThreadShape]]
    /\ sent \in Seq(Seq(Nat)) /\ Len(sent) = Len(socket)
    /\ count \in CountShape

\* The maps of the service agree: a session for every open descriptor, and the
\* index of a process is a session of it; a socket has its end of the service
\* open exactly while a descriptor is that end, and one descriptor only.
Registry ==
    /\ DOMAIN sessions = DOMAIN opened
    /\ \A c \in DOMAIN index : index[c] \in DOMAIN sessions /\ sessions[index[c]] = c
    /\ \A f, g \in DOMAIN opened : opened[f] = opened[g] => f = g
    /\ \A k \in Sockets : socket[k].server <=> \E fd \in DOMAIN opened : opened[fd] = k

\* A session can be found by its process, but for calls that failed.
Reachable ==
    \A fd \in DOMAIN sessions :
        ~client[sessions[fd]].excused =>
            sessions[fd] \in DOMAIN index /\ index[sessions[fd]] = fd

Halfway(c, t) == pc[c][t].at \in {"created", "listening"}

\* The two threads of a process never connect at the same time: the observer only
\* what was connected, and the application only what was not.  What a thread has
\* made is open until the service dies.
Thread(c) ==
    /\ ~client[c].alive => ~client[c].isConnected /\ ~client[c].stale /\ ~Connecting(c)
    /\ pc[c]["observer"].at # "idle" => client[c].isConnected /\ c \notin service.pids
    /\ pc[c]["application"].at # "idle" => ~client[c].isConnected
    /\ client[c].alive /\ c \in service.pids => client[c].isConnected
    /\ client[c].stale => c \notin service.pids /\ c \notin DOMAIN index
    /\ \A t \in Threads : Halfway(c, t) =>
          /\ pc[c][t].fd \in Sockets
          /\ ~client[c].excused /\ socket[pc[c][t].fd].server =>
                c \in DOMAIN index /\ opened[index[c]] = pc[c][t].fd
          /\ pc[c][t].at = "listening" => client[c].fd \in {0, pc[c][t].fd}

\* A session is of a registered process or of one that is about to register; the
\* service watches who has left something with it; and who is connected is.
Session(c) ==
    ~client[c].excused =>
        /\ client[c].alive /\ c \in DOMAIN index =>
              c \in service.pids \/ \E t \in Threads : Halfway(c, t)
        /\ c \in service.pids \cup DOMAIN index => c \in service.watched
        /\ client[c].isConnected /\ ~client[c].stale /\ ~Connecting(c) =>
              /\ c \in service.pids
              /\ c \in DOMAIN index /\ opened[index[c]] = client[c].fd

IInv ==
    /\ Shape
    /\ Registry
    /\ Reachable
    /\ \A c \in Clients : Thread(c) /\ Session(c)

-----------------------------------------------------------------------------
(* Functions with a key more or less, and free descriptors                 *)

\* A session, an index entry or a descriptor is taken out and leaves the others.
LEMMA DropIs ==
    ASSUME NEW f, NEW x
    PROVE  /\ DOMAIN Drop(f, x) = DOMAIN f \ {x}
           /\ \A y \in DOMAIN f \ {x} : Drop(f, x)[y] = f[y]
BY DEF Drop

\* The kernel finds a descriptor that is not in use: of one more numbers than
\* there are descriptors, one is free.
LEMMA FreeFdIsFree ==
    ASSUME IsFiniteSet(DOMAIN opened)
    PROVE  FreeFd \in Nat \ {0} /\ FreeFd \notin DOMAIN opened
<1> DEFINE D == DOMAIN opened
           n == Cardinality(D)
           S == {m \in Nat \ {0} : m \notin D}
           Unused(m) == m \notin D /\ \A l \in 1..(m - 1) : l \in D
<1>1. n \in Nat
  BY FS_CardinalityType
<1>2. \A m \in Nat : 1..m \subseteq D => m <= n
  <2> SUFFICES ASSUME NEW m \in Nat, 1..m \subseteq D PROVE m <= n
    OBVIOUS
  <2>1. Cardinality(1..m) <= n
    BY FS_Subset
  <2>2. Cardinality(1..m) = m
    BY FS_Interval
  <2> QED BY <2>1, <2>2
<1>3. S # {}
  <2>1. ~(1..(n + 1) \subseteq D)
    BY <1>1, <1>2
  <2> QED BY <1>1, <2>1
<1>4. PICK m \in S : \A l \in S : m <= l
  <2>1. Min(S) \in S /\ \A l \in S : Min(S) <= l
    <3>1. S \in SUBSET Nat
      OBVIOUS
    <3> HIDE DEF S
    <3> QED BY <1>3, <3>1, MinOfNats
  <2> QED BY <2>1
<1>5. Unused(m) /\ m \in 1..(n + 1)
  <2>1. 1..(m - 1) \subseteq D
    BY <1>4
  <2>2. m - 1 <= n
    BY <1>2, <2>1
  <2> QED BY <1>1, <2>1, <2>2
<1>6. FreeFd = CHOOSE l \in 1..(n + 1) : Unused(l)
  BY DEF FreeFd
<1> HIDE DEF Unused
<1>7. FreeFd \in 1..(n + 1) /\ Unused(FreeFd)
  BY <1>5, <1>6
<1> QED BY <1>1, <1>7 DEF Unused

-----------------------------------------------------------------------------
(* Sockets                                                                 *)

\* Closing the end of a process loses what it has not read.
LEMMA CloseClientIs ==
    ASSUME NEW s \in Seq(SocketShape), NEW k \in 1..Len(s) \cup {0}
    PROVE  /\ CloseClient(s, k) \in Seq(SocketShape)
           /\ Len(CloseClient(s, k)) = Len(s)
           /\ \A j \in 1..Len(s) :
                 /\ CloseClient(s, k)[j].server = s[j].server
                 /\ CloseClient(s, k)[j].torn = s[j].torn
                 /\ j # k => CloseClient(s, k)[j] = s[j]
                 /\ j = k => CloseClient(s, k)[j].cells = <<>>
<1>1. CASE k = 0
  BY <1>1 DEF CloseClient
<1>2. CASE k # 0
  <2> DEFINE e == [[s[k] EXCEPT !.client = FALSE] EXCEPT !.cells = <<>>]
  <2>1. s[k] \in SocketShape /\ <<>> \in Buffered
    BY <1>2, StreamAssumption DEF Cells, Buffered
  <2>2. e \in SocketShape /\ e.server = s[k].server /\ e.torn = s[k].torn /\ e.cells = <<>>
    BY <2>1 DEF SocketShape
  <2>3. CloseClient(s, k) = [s EXCEPT ![k] = e]
    BY <1>2 DEF CloseClient
  <2> HIDE DEF e
  <2>4. /\ [s EXCEPT ![k] = e] \in Seq(SocketShape)
        /\ Len([s EXCEPT ![k] = e]) = Len(s)
        /\ \A j \in 1..Len(s) : [s EXCEPT ![k] = e][j] = IF j = k THEN e ELSE s[j]
    BY <1>2, <2>2, ExceptSeq
  <2> QED BY <2>2, <2>3, <2>4
<1> QED BY <1>1, <1>2

\* Closing the end of the service leaves everything else of a socket.
LEMMA CloseServerIs ==
    ASSUME NEW s \in Seq(SocketShape), NEW k \in 1..Len(s)
    PROVE  /\ CloseServer(s, k) \in Seq(SocketShape)
           /\ Len(CloseServer(s, k)) = Len(s)
           /\ \A j \in 1..Len(s) :
                 /\ CloseServer(s, k)[j].server <=> s[j].server /\ j # k
                 /\ CloseServer(s, k)[j].torn = s[j].torn
                 /\ CloseServer(s, k)[j].cells = s[j].cells
                 /\ CloseServer(s, k)[j].client = s[j].client
<1> DEFINE e == [s[k] EXCEPT !.server = FALSE]
<1>1. s[k] \in SocketShape
  OBVIOUS
<1>2. /\ e \in SocketShape /\ e.server = FALSE
      /\ e.torn = s[k].torn /\ e.cells = s[k].cells /\ e.client = s[k].client
  BY <1>1 DEF SocketShape
<1>3. CloseServer(s, k) = [s EXCEPT ![k] = e]
  BY DEF CloseServer
<1> HIDE DEF e
<1>4. /\ [s EXCEPT ![k] = e] \in Seq(SocketShape)
      /\ Len([s EXCEPT ![k] = e]) = Len(s)
      /\ \A j \in 1..Len(s) : [s EXCEPT ![k] = e][j] = IF j = k THEN e ELSE s[j]
  BY <1>2, ExceptSeq
<1> QED BY <1>2, <1>3, <1>4

\* A part of a sequence of cells is one.
LEMMA PartsAreCells ==
    ASSUME NEW s \in Cells, NEW n \in 0..Len(s)
    PROVE  /\ First(s, n) \in Cells /\ Len(First(s, n)) = n
           /\ \A i \in 1..n : First(s, n)[i] = s[i]
           /\ Without(s, n) \in Cells /\ Len(Without(s, n)) = Len(s) - n
           /\ \A i \in 1..(Len(s) - n) : Without(s, n)[i] = s[n + i]
<1>1. Len(s) \in Nat /\ \A i \in 1..Len(s) : s[i] \in Nat \X Nat
  BY DEF Cells
<1>2. /\ SubSeq(s, 1, n) \in Seq(Nat \X Nat) /\ Len(SubSeq(s, 1, n)) = n
      /\ \A i \in 1..n : SubSeq(s, 1, n)[i] = s[i]
  <2>1. \A i \in 1..n : s[i] \in Nat \X Nat
    BY <1>1
  <2>2. /\ SubSeq(s, 1, n) \in Seq(Nat \X Nat)
        /\ Len(SubSeq(s, 1, n)) = IF 1 <= n THEN n - 1 + 1 ELSE 0
        /\ \A i \in 1..(n - 1 + 1) : SubSeq(s, 1, n)[i] = s[1 + i - 1]
    BY <2>1, SubSeqProperties
  <2> QED BY <1>1, <2>2
<1>3. /\ SubSeq(s, n + 1, Len(s)) \in Seq(Nat \X Nat)
      /\ Len(SubSeq(s, n + 1, Len(s))) = Len(s) - n
      /\ \A i \in 1..(Len(s) - n) : SubSeq(s, n + 1, Len(s))[i] = s[n + i]
  <2> DEFINE m == n + 1
  <2>1. m \in Int /\ Len(s) \in Int /\ \A i \in m..Len(s) : s[i] \in Nat \X Nat
    BY <1>1
  <2>2. /\ SubSeq(s, m, Len(s)) \in Seq(Nat \X Nat)
        /\ Len(SubSeq(s, m, Len(s))) = IF m <= Len(s) THEN Len(s) - m + 1 ELSE 0
        /\ \A i \in 1..(Len(s) - m + 1) : SubSeq(s, m, Len(s))[i] = s[m + i - 1]
    <3> HIDE DEF m
    <3> QED BY <2>1, SubSeqProperties
  <2> QED BY <1>1, <2>2
<1> QED BY <1>2, <1>3 DEF First, Without, Cells

-----------------------------------------------------------------------------
(* What a step leaves alone                                                *)

\* No socket goes, and no end of the service opens again.
SocketsKept ==
    /\ Len(socket') >= Len(socket)
    /\ \A k \in Sockets : socket'[k].server => socket[k].server

\* What Thread and Session say of a process depends on.
Alone(c) ==
    /\ client'[c].alive = client[c].alive /\ client'[c].fd = client[c].fd
    /\ client'[c].isConnected = client[c].isConnected
    /\ client'[c].stale = client[c].stale
    /\ client'[c].excused = client[c].excused
    /\ \A t \in Threads : pc'[c][t] = pc[c][t]
    /\ c \in service'.pids <=> c \in service.pids
    /\ c \in service'.watched <=> c \in service.watched
    /\ c \in DOMAIN index' <=> c \in DOMAIN index
    /\ c \in DOMAIN index =>
          index'[c] = index[c] /\ opened'[index[c]] = opened[index[c]]

\* A process that a step is not about is as it was.
LEMMA Unconcerned ==
    ASSUME IInv, NEW c \in Clients, Alone(c), SocketsKept
    PROVE  Thread(c)' /\ Session(c)'
<1>1. Thread(c) /\ Session(c) /\ Shape
  BY DEF IInv
<1>2. \A t \in Threads : Halfway(c, t)' <=> Halfway(c, t)
  BY DEF Halfway, Alone
<1>3. Connecting(c)' <=> Connecting(c)
  BY DEF Connecting, Alone
<1>4. Len(socket) \in Nat /\ Len(socket') >= Len(socket) => Sockets \subseteq Sockets'
  BY DEF Sockets
<1>5. "observer" \in Threads /\ "application" \in Threads
  BY DEF Threads
<1>6. Len(socket) \in Nat
  BY <1>1 DEF Shape
<1>7. Thread(c)'
  <2>1. \A t \in Threads : Halfway(c, t) =>
          /\ pc'[c][t].fd \in Sockets'
          /\ ~client'[c].excused /\ socket'[pc'[c][t].fd].server =>
                c \in DOMAIN index' /\ opened'[index'[c]] = pc'[c][t].fd
          /\ pc'[c][t].at = "listening" => client'[c].fd \in {0, pc'[c][t].fd}
    <3> SUFFICES ASSUME NEW t \in Threads, Halfway(c, t)
                 PROVE  /\ pc'[c][t].fd \in Sockets'
                        /\ ~client'[c].excused /\ socket'[pc'[c][t].fd].server =>
                              c \in DOMAIN index' /\ opened'[index'[c]] = pc'[c][t].fd
                        /\ pc'[c][t].at = "listening" => client'[c].fd \in {0, pc'[c][t].fd}
      OBVIOUS
    <3>1. /\ pc[c][t].fd \in Sockets
          /\ ~client[c].excused /\ socket[pc[c][t].fd].server =>
                c \in DOMAIN index /\ opened[index[c]] = pc[c][t].fd
          /\ pc[c][t].at = "listening" => client[c].fd \in {0, pc[c][t].fd}
      BY <1>1 DEF Thread
    <3>2. pc'[c][t] = pc[c][t]
      BY DEF Alone
    <3>3. socket'[pc[c][t].fd].server => socket[pc[c][t].fd].server
      BY <3>1 DEF SocketsKept
    <3>4. pc'[c][t].fd \in Sockets'
      BY <1>4, <1>6, <3>1, <3>2 DEF SocketsKept
    <3> QED BY <3>1, <3>2, <3>3, <3>4 DEF Alone
  <2> QED BY <1>1, <1>2, <1>3, <1>5, <2>1 DEF Thread, Alone
<1>8. Session(c)'
  BY <1>1, <1>2, <1>3 DEF Session, Alone
<1> QED BY <1>7, <1>8

\* A step that opens and closes nothing leaves the maps as they are.
LEMMA RegistryAlone ==
    ASSUME IInv, UNCHANGED <<sessions, index, opened>>,
           Len(socket') = Len(socket),
           \A k \in Sockets : socket'[k].server = socket[k].server,
           \A c \in Clients : client[c].excused => client'[c].excused
    PROVE  Registry' /\ Reachable' /\ SocketsKept
<1>1. Sockets' = Sockets /\ Len(socket) \in Nat
  BY DEF Sockets, IInv, Shape
<1>2. Registry'
  BY <1>1 DEF IInv, Registry
<1>3. Reachable'
  BY DEF IInv, Reachable, Shape, Partial
<1> QED BY <1>1, <1>2, <1>3 DEF SocketsKept

\* A thread that goes on leaves the other of its process, and other processes.
LEMMA ThreadGoes ==
    ASSUME NEW f \in [Clients -> [Threads -> ThreadShape]],
           NEW c \in Clients, NEW t \in Threads, NEW r \in ThreadShape
    PROVE  \A g : g = [f EXCEPT ![c][t] = r] =>
              /\ g \in [Clients -> [Threads -> ThreadShape]]
              /\ \A d \in Clients \ {c} : g[d] = f[d]
              /\ g[c][t] = r
              /\ \A u \in Threads \ {t} : g[c][u] = f[c][u]
<1> DEFINE h == [f[c] EXCEPT ![t] = r]
<1>1. /\ h \in [Threads -> ThreadShape] /\ h[t] = r
      /\ \A u \in Threads \ {t} : h[u] = f[c][u]
  OBVIOUS
<1>2. [f EXCEPT ![c][t] = r] = [f EXCEPT ![c] = h]
  OBVIOUS
<1> HIDE DEF h
<1> QED BY <1>1, <1>2

\* So does one that only changes where it is.
LEMMA ThreadMoves ==
    ASSUME NEW f \in [Clients -> [Threads -> ThreadShape]],
           NEW c \in Clients, NEW t \in Threads,
           NEW at \in {"idle", "create", "created", "listening"}
    PROVE  \A g : g = [f EXCEPT ![c][t].at = at] =>
              /\ g \in [Clients -> [Threads -> ThreadShape]]
              /\ \A d \in Clients \ {c} : g[d] = f[d]
              /\ g[c][t].at = at /\ g[c][t].fd = f[c][t].fd
              /\ \A u \in Threads \ {t} : g[c][u] = f[c][u]
<1> DEFINE r == [f[c][t] EXCEPT !.at = at]
<1>1. r \in ThreadShape /\ r.at = at /\ r.fd = f[c][t].fd
  BY DEF ThreadShape
<1>2. [f EXCEPT ![c][t].at = at] = [f EXCEPT ![c][t] = r]
  OBVIOUS
<1> HIDE DEF r
<1>3. \A g : g = [f EXCEPT ![c][t] = r] =>
              /\ g \in [Clients -> [Threads -> ThreadShape]]
              /\ \A d \in Clients \ {c} : g[d] = f[d]
              /\ g[c][t] = r
              /\ \A u \in Threads \ {t} : g[c][u] = f[c][u]
  BY <1>1, ThreadGoes
<1> QED BY <1>1, <1>2, <1>3

\* A step of one process that opens and closes no session keeps the invariant when
\* it keeps the shapes and what is said of that process.
LEMMA OneProcessSteps ==
    ASSUME IInv, NEW c \in Clients, UNCHANGED <<sessions, index, opened>>, Shape',
           Len(socket') = Len(socket),
           \A k \in Sockets : socket'[k].server = socket[k].server,
           \A d \in Clients \ {c} : client'[d] = client[d] /\ pc'[d] = pc[d],
           \A d \in Clients \ {c} : d \in service'.pids <=> d \in service.pids,
           \A d \in Clients \ {c} : d \in service'.watched <=> d \in service.watched,
           client[c].excused => client'[c].excused,
           Thread(c)', Session(c)'
    PROVE  IInv'
<1>1. Registry' /\ Reachable' /\ SocketsKept
  BY RegistryAlone
<1>2. \A d \in Clients \ {c} : Alone(d)
  BY DEF Alone
<1>3. \A d \in Clients \ {c} : Thread(d)' /\ Session(d)'
  BY <1>1, <1>2, Unconcerned
<1> QED BY <1>1, <1>3 DEF IInv

-----------------------------------------------------------------------------
(* The application's calls                                                 *)

\* Who is connected only adds a callback; who is not begins to connect, and has no
\* session then.
LEMMA RegisterKeeps ==
    ASSUME IInv, NEW c \in Clients, Register(c)
    PROVE  IInv'
<1> USE DEF IInv
<1>1. UNCHANGED <<service, sessions, index, opened, report, socket, sent, count>>
  BY DEF Register
<1>2. Thread(c) /\ Session(c) /\ client[c].alive /\ pc[c]["application"].at = "idle"
  BY DEF Register
<1>3. CASE client[c].isConnected
  <2>1. client' = [client EXCEPT ![c].cbs = TRUE] /\ UNCHANGED pc
    BY <1>3 DEF Register
  <2>2. /\ client' \in [Clients -> ClientShape]
        /\ \A d \in Clients : /\ client'[d].alive = client[d].alive
                              /\ client'[d].fd = client[d].fd
                              /\ client'[d].isConnected = client[d].isConnected
                              /\ client'[d].stale = client[d].stale
                              /\ client'[d].excused = client[d].excused
    <3>1. client \in [Clients -> ClientShape]
      BY DEF Shape
    <3>2. client[c] \in ClientShape
      BY <3>1
    <3> DEFINE new == [client[c] EXCEPT !.cbs = TRUE]
    <3>3. /\ new \in ClientShape
          /\ new.alive = client[c].alive /\ new.fd = client[c].fd
          /\ new.isConnected = client[c].isConnected
          /\ new.stale = client[c].stale /\ new.excused = client[c].excused
      BY <3>2 DEF ClientShape
    <3>4. client' = [client EXCEPT ![c] = new]
      BY <2>1
    <3> HIDE DEF new
    <3>5. client' \in [Clients -> ClientShape]
      BY <3>1, <3>3, <3>4
    <3> QED BY <3>1, <3>3, <3>4, <3>5
  <2>3. Shape'
    BY <1>1, <2>1, <2>2 DEF Shape, Sockets
  <2>4. Registry' /\ Reachable' /\ SocketsKept
    BY <1>1, <2>2, RegistryAlone
  <2>5. \A d \in Clients : Alone(d)
    BY <1>1, <2>1, <2>2 DEF Alone
  <2> QED BY <2>3, <2>4, <2>5, Unconcerned
<1>4. CASE ~client[c].isConnected
  <2>1. pc' = [pc EXCEPT ![c]["application"].at = "create"] /\ UNCHANGED client
    BY <1>4 DEF Register
  <2>2. /\ pc' \in [Clients -> [Threads -> ThreadShape]]
        /\ \A d \in Clients \ {c} : pc'[d] = pc[d]
        /\ pc'[c]["application"].at = "create"
        /\ pc'[c]["observer"] = pc[c]["observer"]
    <3>1. pc \in [Clients -> [Threads -> ThreadShape]]
      BY DEF Shape
    <3>2. \A g : g = [pc EXCEPT ![c]["application"].at = "create"] =>
              /\ g \in [Clients -> [Threads -> ThreadShape]]
              /\ \A d \in Clients \ {c} : g[d] = pc[d]
              /\ g[c]["application"].at = "create"
              /\ \A u \in Threads \ {"application"} : g[c][u] = pc[c][u]
      BY <3>1, ThreadMoves, SMTT(20) DEF Threads
    <3> QED BY <2>1, <3>2 DEF Threads
  <2>3. pc[c]["observer"].at = "idle" /\ Threads = {"application", "observer"}
    BY <1>2, <1>4 DEF Thread, Threads
  <2>4. Shape'
    BY <1>1, <2>1, <2>2 DEF Shape, Sockets
  <2>5. \A t \in Threads : ~Halfway(c, t) /\ ~Halfway(c, t)'
    BY <1>2, <2>2, <2>3 DEF Halfway
  <2>6. Thread(c)'
    BY <1>1, <1>2, <1>4, <2>1, <2>2, <2>3, <2>5 DEF Thread, Connecting
  <2>7. Session(c)'
    BY <1>1, <1>2, <1>4, <2>1, <2>5 DEF Session
  <2> QED BY <1>1, <2>1, <2>2, <2>4, <2>6, <2>7, OneProcessSteps
<1> QED BY <1>3, <1>4

\* An error is counted.
LEMMA ErrorCounts ==
    ASSUME count \in CountShape, Error
    PROVE  count' \in CountShape
BY DEF Error, CountShape

\* A step that changes one process.
LEMMA OneClientSteps ==
    ASSUME Shape, NEW c \in Clients, NEW x \in ClientShape, x.fd \in Sockets \cup {0},
           client' = [client EXCEPT ![c] = x]
    PROVE  /\ client' \in [Clients -> ClientShape]
           /\ \A d \in Clients : client'[d].fd \in Sockets \cup {0}
           /\ client'[c] = x
           /\ \A d \in Clients \ {c} : client'[d] = client[d]
BY DEF Shape

\* A call that unregisters nothing only drops the callback.
LEMMA UnregisterRefusedKeeps ==
    ASSUME IInv, NEW c \in Clients, UnregisterRefused(c), UNCHANGED <<report, pc, sent>>
    PROVE  IInv'
<1> DEFINE x == [client[c] EXCEPT !.cbs = FALSE]
<1>1. Shape
  BY DEF IInv
<1>2. client[c] \in ClientShape /\ client[c].fd \in Sockets \cup {0}
  BY <1>1 DEF Shape
<1>3. /\ x \in ClientShape /\ x.alive = client[c].alive /\ x.fd = client[c].fd
      /\ x.isConnected = client[c].isConnected /\ x.stale = client[c].stale
      /\ x.excused = client[c].excused
  BY <1>2 DEF ClientShape
<1>4. client' = [client EXCEPT ![c] = x]
  BY DEF UnregisterRefused
<1> HIDE DEF x
<1>5. /\ client' \in [Clients -> ClientShape]
      /\ \A d \in Clients : client'[d].fd \in Sockets \cup {0}
      /\ client'[c] = x
      /\ \A d \in Clients \ {c} : client'[d] = client[d]
  BY <1>1, <1>2, <1>3, <1>4, OneClientSteps
<1>6. UNCHANGED <<sessions, index, opened, socket>> /\ Sockets' = Sockets
  BY DEF UnregisterRefused, Sockets
<1>7. /\ service' \in ServiceShape
      /\ service'.pids = service.pids /\ service'.watched = service.watched
  BY <1>1 DEF UnregisterRefused, Shape, ServiceShape
<1>8. count' \in CountShape
  BY <1>1, ErrorCounts DEF UnregisterRefused, Shape
<1>9. Shape'
  BY <1>1, <1>5, <1>6, <1>7, <1>8 DEF Shape
<1>10. Registry' /\ Reachable' /\ SocketsKept
  BY <1>3, <1>5, <1>6, RegistryAlone
<1>11. \A d \in Clients : Alone(d)
  BY <1>3, <1>5, <1>6, <1>7 DEF Alone
<1> QED BY <1>9, <1>10, <1>11, Unconcerned DEF IInv

\* A call that gets half way takes the process out of the list, and is excused.
LEMMA UnregisterHalfWayKeeps ==
    ASSUME IInv, NEW c \in Clients, pc[c]["application"].at = "idle",
           UnregisterHalfWay(c), UNCHANGED <<report, pc, sent>>
    PROVE  IInv'
<1> DEFINE x == [[client[c] EXCEPT !.fd = 0] EXCEPT !.cbs = FALSE, !.excused = TRUE]
<1>1. Shape /\ Thread(c)
  BY DEF IInv
<1>2. client[c] \in ClientShape /\ client[c].fd \in 1..Len(socket) \cup {0}
      /\ socket \in Seq(SocketShape) /\ service \in ServiceShape
  BY <1>1 DEF Shape, Sockets
<1>3. /\ x \in ClientShape /\ x.alive = client[c].alive /\ x.fd = 0
      /\ x.isConnected = client[c].isConnected /\ x.stale = client[c].stale
      /\ x.excused = TRUE
  BY <1>2 DEF ClientShape
<1>4. client' = [client EXCEPT ![c] = x]
  BY DEF UnregisterHalfWay, Disconnected
<1> HIDE DEF x
<1>5. /\ client' \in [Clients -> ClientShape]
      /\ \A d \in Clients : client'[d].fd \in Sockets \cup {0}
      /\ client'[c] = x
      /\ \A d \in Clients \ {c} : client'[d] = client[d]
  BY <1>1, <1>3, <1>4, OneClientSteps
<1>6. /\ socket' \in Seq(SocketShape) /\ Len(socket') = Len(socket)
      /\ \A k \in Sockets : socket'[k].server = socket[k].server
  BY <1>2, CloseClientIs DEF UnregisterHalfWay, Sockets
<1>7. /\ service' \in ServiceShape /\ service'.watched = service.watched
      /\ service'.pids = service.pids \ {c}
  BY <1>2 DEF UnregisterHalfWay, ServiceShape
<1>8. count' \in CountShape /\ UNCHANGED <<sessions, index, opened>> /\ ~client[c].stale
      /\ c \in service.pids
  BY <1>1, ErrorCounts DEF UnregisterHalfWay, Shape
<1>9. Shape'
  BY <1>1, <1>5, <1>6, <1>7, <1>8 DEF Shape, Sockets
<1>10. \A t \in Threads : pc[c][t].at = "idle"
  BY <1>1, <1>8 DEF Thread, Threads
<1>11. Thread(c)'
  BY <1>1, <1>3, <1>5, <1>7, <1>8, <1>10 DEF Thread, Connecting, Halfway, Threads
<1>12. Session(c)'
  BY <1>3, <1>5 DEF Session
<1>13. \A d \in Clients \ {c} : d \in service'.pids <=> d \in service.pids
  BY <1>7
<1>14. client'[c].excused
  BY <1>3, <1>5
<1> QED BY <1>5, <1>6, <1>7, <1>8, <1>9, <1>11, <1>12, <1>13, <1>14, OneProcessSteps

\* The end of the data channel ends the watch only of a process that has nothing
\* else with the service, or that is in the middle of a connection and excused.
LEMMA DestroySensorChannelKeeps ==
    ASSUME IInv, NEW c \in Clients, DestroySensorChannel(c)
    PROVE  IInv'
<1> DEFINE x == [client[c] EXCEPT !.excused = TRUE]
<1>1. Shape /\ Thread(c) /\ Session(c)
  BY DEF IInv
<1>2. client[c] \in ClientShape /\ client[c].fd \in Sockets \cup {0}
      /\ service \in ServiceShape
  BY <1>1 DEF Shape
<1>3. /\ x \in ClientShape /\ x.alive = client[c].alive /\ x.fd = client[c].fd
      /\ x.isConnected = client[c].isConnected /\ x.stale = client[c].stale
      /\ x.excused = TRUE
  BY <1>2 DEF ClientShape
<1>4. IF Connecting(c) THEN client' = [client EXCEPT ![c] = x] ELSE client' = client
  BY DEF DestroySensorChannel, Excuse
<1> HIDE DEF x
<1>5. /\ client' \in [Clients -> ClientShape]
      /\ \A d \in Clients : client'[d].fd \in Sockets \cup {0}
      /\ \A d \in Clients \ {c} : client'[d] = client[d]
      /\ client'[c].alive = client[c].alive /\ client'[c].fd = client[c].fd
      /\ client'[c].isConnected = client[c].isConnected /\ client'[c].stale = client[c].stale
      /\ client[c].excused => client'[c].excused
      /\ Connecting(c) => client'[c].excused
  <2>1. CASE Connecting(c)
    BY <1>1, <1>2, <1>3, <1>4, <2>1, OneClientSteps
  <2>2. CASE ~Connecting(c)
    BY <1>1, <1>4, <2>2 DEF Shape
  <2> QED BY <2>1, <2>2
<1>6. UNCHANGED <<sessions, index, opened, report, socket, pc, sent, count>>
      /\ client[c].alive /\ Sockets' = Sockets
  BY DEF DestroySensorChannel, Sockets
<1>7. /\ service' \in ServiceShape /\ service'.pids = service.pids
      /\ \A d \in Clients \ {c} : d \in service'.watched <=> d \in service.watched
      /\ c \in service.pids => service'.watched = service.watched
  <2> DEFINE s == [service EXCEPT !.channels = @ \ {c}]
  <2>1. /\ s \in ServiceShape /\ s.pids = service.pids /\ s.watched = service.watched
    BY <1>2 DEF ServiceShape
  <2>2. service' = IF c \in s.channels \cup s.pids THEN s
                   ELSE [s EXCEPT !.watched = @ \ {c}]
    BY DEF DestroySensorChannel, Unwatched
  <2> HIDE DEF s
  <2> QED BY <2>1, <2>2 DEF ServiceShape
<1>8. Shape'
  BY <1>1, <1>5, <1>6, <1>7 DEF Shape
<1>9. Thread(c)'
  BY <1>1, <1>5, <1>6, <1>7 DEF Thread, Connecting, Halfway
<1>10. Session(c)'
  <2> SUFFICES ASSUME ~client'[c].excused PROVE Session(c)'
    BY DEF Session
  <2>1. ~client[c].excused /\ ~Connecting(c) /\ ~Connecting(c)'
    BY <1>5, <1>6 DEF Connecting
  <2>2. \A t \in Threads : ~Halfway(c, t)
    BY <2>1 DEF Connecting, Halfway
  <2>3. c \in DOMAIN index => c \in service.pids
    BY <1>1, <1>6, <2>1, <2>2 DEF Session
  <2> QED BY <1>1, <1>5, <1>6, <1>7, <2>1, <2>3 DEF Session
<1> QED BY <1>5, <1>6, <1>7, <1>8, <1>9, <1>10, OneProcessSteps

\* A process that dies leaves its socket and its threads, and is not connected.
LEMMA ClientDiesKeeps ==
    ASSUME IInv, NEW c \in Clients, ClientDies(c)
    PROVE  IInv'
<1> DEFINE x == [[NewClient EXCEPT !.alive = FALSE] EXCEPT !.excused = client[c].excused]
           Gone(k) == k = client[c].fd \/ \E t \in Threads : k = pc[c][t].fd
           e(k) == [[socket[k] EXCEPT !.client = FALSE] EXCEPT !.cells = <<>>]
           r == [t \in Threads |-> Idle]
<1>1. Shape
  BY DEF IInv
<1>2. client[c] \in ClientShape
  BY <1>1 DEF Shape
<1>3. /\ x \in ClientShape /\ ~x.alive /\ x.fd = 0 /\ ~x.isConnected /\ ~x.stale
      /\ x.excused = client[c].excused
  <2> DEFINE n == NewClient
  <2>1. <<>> \in Cells /\ <<>> \in Seq(Nat) /\ -1 \in Int
    BY DEF Cells
  <2>2. /\ n \in ClientShape /\ n.fd = 0 /\ n.isConnected = FALSE /\ n.stale = FALSE
    BY <2>1 DEF ClientShape, NewClient
  <2>3. x = [[n EXCEPT !.alive = FALSE] EXCEPT !.excused = client[c].excused]
    OBVIOUS
  <2>4. client[c].excused \in BOOLEAN
    BY <1>2 DEF ClientShape
  <2> HIDE DEF n
  <2> QED BY <2>2, <2>3, <2>4 DEF ClientShape
<1>4. client' = [client EXCEPT ![c] = x]
  BY DEF ClientDies
<1> HIDE DEF x
<1>5. /\ client' \in [Clients -> ClientShape]
      /\ \A d \in Clients : client'[d].fd \in Sockets \cup {0}
      /\ client'[c] = x
      /\ \A d \in Clients \ {c} : client'[d] = client[d]
  BY <1>1, <1>3, <1>4, OneClientSteps
<1>6. /\ socket' \in Seq(SocketShape) /\ Len(socket') = Len(socket)
      /\ \A k \in Sockets : socket'[k].server = socket[k].server
  <2>1. <<>> \in Buffered /\ Len(socket) \in Nat
    BY <1>1, StreamAssumption DEF Cells, Buffered, Shape
  <2>2. \A k \in Sockets : socket[k] \in SocketShape
    BY <1>1 DEF Shape, Sockets
  <2>3. \A k \in Sockets : e(k) \in SocketShape /\ e(k).server = socket[k].server
    BY <2>1, <2>2 DEF SocketShape
  <2>4. socket' = [k \in 1..Len(socket) |-> IF Gone(k) THEN e(k) ELSE socket[k]]
    BY DEF ClientDies, Sockets
  <2> HIDE DEF e, Gone
  <2> QED BY <2>1, <2>2, <2>3, <2>4 DEF Sockets
<1>7. /\ pc' \in [Clients -> [Threads -> ThreadShape]]
      /\ \A d \in Clients \ {c} : pc'[d] = pc[d]
      /\ \A t \in Threads : pc'[c][t].at = "idle"
  <2>1. r \in [Threads -> ThreadShape] /\ \A t \in Threads : r[t].at = "idle"
    BY DEF ThreadShape, Idle
  <2>2. pc' = [pc EXCEPT ![c] = r]
    BY DEF ClientDies
  <2> HIDE DEF r
  <2> QED BY <1>1, <2>1, <2>2 DEF Shape
<1>8. UNCHANGED <<service, sessions, index, opened, report, sent, count>>
  BY DEF ClientDies
<1>9. Shape'
  BY <1>1, <1>5, <1>6, <1>7, <1>8 DEF Shape, Sockets
<1>10. Thread(c)'
  BY <1>3, <1>5, <1>7 DEF Thread, Connecting, Halfway, Threads
<1>11. Session(c)'
  <2>1. Session(c)
    BY DEF IInv
  <2> QED BY <1>3, <1>5, <1>8, <2>1 DEF Session
<1> QED BY <1>3, <1>5, <1>6, <1>7, <1>8, <1>9, <1>10, <1>11, OneProcessSteps

\* The new proxy after a death of the service: who was connected connects again,
\* and nothing of it is in the new service.
LEMMA ReenableSensorKeeps ==
    ASSUME IInv, NEW c \in Clients, ReenableSensor(c)
    PROVE  IInv'
<1> DEFINE x == [[client[c] EXCEPT !.fd = 0] EXCEPT !.stale = FALSE]
           y == [client[c] EXCEPT !.stale = FALSE]
<1>1. Shape /\ Thread(c) /\ Session(c)
  BY DEF IInv
<1>2. client[c] \in ClientShape /\ client[c].fd \in 1..Len(socket) \cup {0}
      /\ socket \in Seq(SocketShape) /\ pc \in [Clients -> [Threads -> ThreadShape]]
      /\ client[c].fd \in Sockets \cup {0}
  BY <1>1 DEF Shape, Sockets
<1>3. /\ x \in ClientShape /\ x.alive = client[c].alive /\ x.fd = 0
      /\ x.isConnected = client[c].isConnected /\ ~x.stale
      /\ x.excused = client[c].excused
      /\ y \in ClientShape /\ y.alive = client[c].alive /\ y.fd = client[c].fd
      /\ y.isConnected = client[c].isConnected /\ ~y.stale
      /\ y.excused = client[c].excused
  BY <1>2 DEF ClientShape
<1>4. UNCHANGED <<service, sessions, index, opened, report, sent, count>>
      /\ client[c].stale /\ pc[c]["observer"].at = "idle"
  BY DEF ReenableSensor
<1>5. c \notin service.pids /\ c \notin DOMAIN index /\ client[c].alive
  BY <1>1, <1>4 DEF Thread
<1>6. CASE client[c].isConnected
  <2>1. client' = [client EXCEPT ![c] = x]
    BY <1>6 DEF ReenableSensor, Disconnected
  <2> HIDE DEF x
  <2>2. /\ client' \in [Clients -> ClientShape]
        /\ \A d \in Clients : client'[d].fd \in Sockets \cup {0}
        /\ client'[c] = x
        /\ \A d \in Clients \ {c} : client'[d] = client[d]
    BY <1>1, <1>3, <2>1, OneClientSteps
  <2>3. /\ socket' \in Seq(SocketShape) /\ Len(socket') = Len(socket)
        /\ \A k \in Sockets : socket'[k].server = socket[k].server
    <3>1. socket' = CloseClient(socket, client[c].fd)
      BY <1>6 DEF ReenableSensor
    <3> QED BY <1>2, <3>1, CloseClientIs DEF Sockets
  <2>4. /\ pc' \in [Clients -> [Threads -> ThreadShape]]
        /\ \A d \in Clients \ {c} : pc'[d] = pc[d]
        /\ pc'[c]["observer"].at = "create"
        /\ pc'[c]["application"] = pc[c]["application"]
    <3>1. \A g : g = [pc EXCEPT ![c]["observer"].at = "create"] =>
              /\ g \in [Clients -> [Threads -> ThreadShape]]
              /\ \A d \in Clients \ {c} : g[d] = pc[d]
              /\ g[c]["observer"].at = "create"
              /\ \A u \in Threads \ {"observer"} : g[c][u] = pc[c][u]
      BY <1>2, ThreadMoves, SMTT(20) DEF Threads
    <3>2. pc' = [pc EXCEPT ![c]["observer"].at = "create"]
      BY <1>6 DEF ReenableSensor
    <3> QED BY <3>1, <3>2 DEF Threads
  <2>5. Shape'
    BY <1>1, <1>4, <2>2, <2>3, <2>4 DEF Shape, Sockets
  <2>6. pc[c]["application"].at = "idle"
    BY <1>1, <1>6 DEF Thread
  <2>7. \A t \in Threads : ~Halfway(c, t)'
    BY <2>4, <2>6 DEF Halfway, Threads
  <2>8. Connecting(c)'
    BY <2>4 DEF Connecting, Threads
  <2>9. Thread(c)'
    BY <1>3, <1>4, <1>5, <1>6, <2>2, <2>4, <2>6, <2>7 DEF Thread
  <2>10. Session(c)'
    BY <1>3, <1>4, <1>5, <2>2, <2>8 DEF Session
  <2> QED BY <1>3, <1>4, <2>2, <2>3, <2>4, <2>5, <2>9, <2>10, OneProcessSteps
<1>7. CASE ~client[c].isConnected
  <2>1. client' = [client EXCEPT ![c] = y] /\ UNCHANGED <<pc, socket>>
    BY <1>7 DEF ReenableSensor
  <2> HIDE DEF y
  <2>2. /\ client' \in [Clients -> ClientShape]
        /\ \A d \in Clients : client'[d].fd \in Sockets \cup {0}
        /\ client'[c] = y
        /\ \A d \in Clients \ {c} : client'[d] = client[d]
    BY <1>1, <1>2, <1>3, <2>1, OneClientSteps
  <2>3. Shape'
    BY <1>1, <1>4, <2>1, <2>2 DEF Shape, Sockets
  <2>4. Thread(c)'
    BY <1>1, <1>3, <1>4, <1>5, <1>7, <2>1, <2>2
       DEF Thread, Connecting, Halfway, Sockets
  <2>5. Session(c)'
    BY <1>3, <1>4, <1>5, <1>7, <2>2 DEF Session
  <2> QED BY <1>3, <1>4, <2>1, <2>2, <2>3, <2>4, <2>5, OneProcessSteps
<1> QED BY <1>6, <1>7

\* The service's end was closed: the process that finds out was not connected to
\* anything any more.
LEMMA OnShutdownKeeps ==
    ASSUME IInv, NEW c \in Clients, OnShutdown(c)
    PROVE  IInv'
<1> DEFINE x == [client[c] EXCEPT !.fd = 0]
<1>1. Shape /\ Thread(c) /\ Session(c) /\ Registry
  BY DEF IInv
<1>2. client[c] \in ClientShape /\ client[c].fd \in 1..Len(socket) \cup {0}
      /\ socket \in Seq(SocketShape)
  BY <1>1 DEF Shape, Sockets
<1>3. /\ x \in ClientShape /\ x.alive = client[c].alive /\ x.fd = 0
      /\ x.isConnected = client[c].isConnected /\ x.stale = client[c].stale
      /\ x.excused = client[c].excused
  BY <1>2 DEF ClientShape
<1>4. UNCHANGED <<service, sessions, index, opened, report, pc, sent, count>>
      /\ client[c].fd \in Sockets /\ ~socket[client[c].fd].server
  BY <1>2 DEF OnShutdown, Sockets
<1>5. client' = [client EXCEPT ![c] = x]
  BY DEF OnShutdown, Disconnected
<1> HIDE DEF x
<1>6. /\ client' \in [Clients -> ClientShape]
      /\ \A d \in Clients : client'[d].fd \in Sockets \cup {0}
      /\ client'[c] = x
      /\ \A d \in Clients \ {c} : client'[d] = client[d]
  BY <1>1, <1>3, <1>5, OneClientSteps
<1>7. /\ socket' \in Seq(SocketShape) /\ Len(socket') = Len(socket)
      /\ \A k \in Sockets : socket'[k].server = socket[k].server
  <2>1. socket' = CloseClient(socket, client[c].fd)
    BY DEF OnShutdown
  <2> QED BY <1>2, <2>1, CloseClientIs DEF Sockets
<1>8. Shape'
  BY <1>1, <1>4, <1>6, <1>7 DEF Shape, Sockets
<1>9. Thread(c)'
  <2>1. Sockets' = Sockets /\ \A t \in Threads : Halfway(c, t)' <=> Halfway(c, t)
    BY <1>4, <1>7 DEF Sockets, Halfway
  <2>2. \A t \in Threads : Halfway(c, t) =>
          /\ pc'[c][t].fd \in Sockets'
          /\ ~client'[c].excused /\ socket'[pc'[c][t].fd].server =>
                c \in DOMAIN index' /\ opened'[index'[c]] = pc'[c][t].fd
    BY <1>1, <1>3, <1>4, <1>6, <1>7, <2>1 DEF Thread
  <2> QED BY <1>1, <1>3, <1>4, <1>6, <2>1, <2>2 DEF Thread, Connecting
<1>10. Session(c)'
  <2>1. c \in DOMAIN index => opened[index[c]] # client[c].fd
    BY <1>1, <1>4 DEF Registry
  <2> QED BY <1>1, <1>3, <1>4, <1>6, <2>1 DEF Session, Connecting, Halfway
<1> QED BY <1>3, <1>4, <1>6, <1>7, <1>8, <1>9, <1>10, OneProcessSteps

-----------------------------------------------------------------------------
(* The steps of a connection                                               *)

\* A process with a thread in the middle of a connection is alive, its other thread
\* is not, and the service does not report to it.
LEMMA OneAtATime ==
    ASSUME IInv, NEW c \in Clients, NEW t \in Threads, pc[c][t].at # "idle"
    PROVE  /\ client[c].alive
           /\ \A u \in Threads \ {t} : pc[c][u].at = "idle"
           /\ c \notin service.pids
<1>1. Thread(c)
  BY DEF IInv
<1>2. client[c].alive
  BY <1>1 DEF Thread, Connecting
<1>3. CASE t = "observer"
  BY <1>1, <1>2, <1>3 DEF Thread, Threads
<1>4. CASE t = "application"
  BY <1>1, <1>2, <1>4 DEF Thread, Threads
<1> QED BY <1>2, <1>3, <1>4 DEF Threads

\* A thread whose connection is refused at the start goes back, and closes the
\* socket its process had.
LEMMA CreateRefusedKeeps ==
    ASSUME IInv, NEW c \in Clients, NEW t \in Threads, pc[c][t].at = "create",
           CreateRefused(c, t), UNCHANGED report
    PROVE  IInv'
<1> DEFINE failed == client[c].excused \/ client[c].isConnected
           x == [[client[c] EXCEPT !.fd = 0] EXCEPT !.excused = failed]
<1>1. Shape /\ Thread(c) /\ Session(c)
  BY DEF IInv
<1>2. client[c] \in ClientShape /\ client[c].fd \in 1..Len(socket) \cup {0}
      /\ socket \in Seq(SocketShape) /\ pc \in [Clients -> [Threads -> ThreadShape]]
  BY <1>1 DEF Shape, Sockets
<1>3. /\ x \in ClientShape /\ x.alive = client[c].alive /\ x.fd = 0
      /\ x.isConnected = client[c].isConnected /\ x.stale = client[c].stale
      /\ x.excused <=> client[c].excused \/ client[c].isConnected
  BY <1>2 DEF ClientShape
<1>4. client' = [client EXCEPT ![c] = x]
  <2>1. [client[c] EXCEPT !.fd = 0].excused = client[c].excused
    BY <1>2 DEF ClientShape
  <2> QED BY <2>1 DEF CreateRefused, Disconnected
<1> HIDE DEF x
<1>5. /\ client' \in [Clients -> ClientShape]
      /\ \A d \in Clients : client'[d].fd \in Sockets \cup {0}
      /\ client'[c] = x
      /\ \A d \in Clients \ {c} : client'[d] = client[d]
  BY <1>1, <1>3, <1>4, OneClientSteps
<1>6. /\ socket' \in Seq(SocketShape) /\ Len(socket') = Len(socket)
      /\ \A k \in Sockets : socket'[k].server = socket[k].server
  BY <1>2, CloseClientIs DEF CreateRefused, Sockets
<1>7. /\ pc' \in [Clients -> [Threads -> ThreadShape]]
      /\ \A d \in Clients \ {c} : pc'[d] = pc[d]
      /\ pc'[c][t] = Idle
      /\ \A u \in Threads \ {t} : pc'[c][u] = pc[c][u]
  <2>1. Idle \in ThreadShape
    BY DEF ThreadShape, Idle
  <2> QED BY <1>2, <2>1, ThreadGoes DEF CreateRefused
<1>8. UNCHANGED <<service, sessions, index, opened, sent>> /\ count' \in CountShape
  BY <1>1, ErrorCounts DEF CreateRefused, Shape
<1>9. Shape'
  BY <1>1, <1>5, <1>6, <1>7, <1>8 DEF Shape, Sockets
<1>10. /\ \A u \in Threads : pc'[c][u].at = "idle"
       /\ \A u \in Threads : ~Halfway(c, u)
       /\ c \notin service.pids
  BY <1>7, OneAtATime DEF Idle, Halfway
<1>11. Thread(c)'
  BY <1>1, <1>3, <1>5, <1>8, <1>10 DEF Thread, Connecting, Halfway, Threads
<1>12. Session(c)'
  BY <1>1, <1>3, <1>5, <1>8, <1>10 DEF Session
<1> QED BY <1>3, <1>5, <1>6, <1>7, <1>8, <1>9, <1>11, <1>12, OneProcessSteps

\* A thread listens to the socket it was given.
LEMMA ListenKeeps ==
    ASSUME IInv, NEW c \in Clients, NEW t \in Threads, Listen(c, t)
    PROVE  IInv'
<1> DEFINE cut == client[c].circBuf # <<>> \/ client[c].reading >= 0
           x == [[[client[c] EXCEPT !.fd = pc[c][t].fd] EXCEPT !.heard = <<>>] EXCEPT
                     !.torn = cut]
<1>1. Shape /\ Thread(c) /\ Session(c)
  BY DEF IInv
<1>2. client[c] \in ClientShape /\ pc \in [Clients -> [Threads -> ThreadShape]]
  BY <1>1 DEF Shape
<1>3. /\ pc[c][t].at = "created" /\ pc[c][t].fd \in Sockets /\ Sockets \subseteq Nat
      /\ ~client[c].excused /\ socket[pc[c][t].fd].server =>
            c \in DOMAIN index /\ opened[index[c]] = pc[c][t].fd
  BY <1>1 DEF Listen, Thread, Halfway, Sockets
<1>4. cut \in BOOLEAN /\ <<>> \in Seq(Nat)
  OBVIOUS
<1>5. client' = [client EXCEPT ![c] = x]
  BY DEF Listen
<1>6. /\ x \in ClientShape /\ x.alive = client[c].alive /\ x.fd = pc[c][t].fd
      /\ x.isConnected = client[c].isConnected /\ x.stale = client[c].stale
      /\ x.excused = client[c].excused
  <2> HIDE DEF cut
  <2> QED BY <1>2, <1>3, <1>4 DEF ClientShape
<1> HIDE DEF x, cut
<1>7. /\ client' \in [Clients -> ClientShape]
      /\ \A d \in Clients : client'[d].fd \in Sockets \cup {0}
      /\ client'[c] = x
      /\ \A d \in Clients \ {c} : client'[d] = client[d]
  BY <1>1, <1>3, <1>5, <1>6, OneClientSteps
<1>8. /\ pc' \in [Clients -> [Threads -> ThreadShape]]
      /\ \A d \in Clients \ {c} : pc'[d] = pc[d]
      /\ pc'[c][t].at = "listening" /\ pc'[c][t].fd = pc[c][t].fd
      /\ \A u \in Threads \ {t} : pc'[c][u] = pc[c][u]
  <2> DEFINE r == [pc[c][t] EXCEPT !.at = "listening"]
  <2>1. r \in ThreadShape /\ r.at = "listening" /\ r.fd = pc[c][t].fd
    BY <1>2 DEF ThreadShape
  <2>2. pc' = [pc EXCEPT ![c][t] = r]
    BY DEF Listen
  <2> HIDE DEF r
  <2> QED BY <1>2, <2>1, <2>2, ThreadGoes
<1>9. UNCHANGED <<service, sessions, index, opened, report, socket, sent, count>>
      /\ Sockets' = Sockets
  BY DEF Listen, Sockets
<1>10. Shape'
  BY <1>1, <1>7, <1>8, <1>9 DEF Shape
<1>11. \A u \in Threads : Halfway(c, u)' <=> u = t
  BY <1>3, <1>8, OneAtATime DEF Halfway
<1>12. Connecting(c) /\ Connecting(c)' /\ client[c].alive
       /\ \A u \in Threads : pc[c][u].at = "idle" <=> pc'[c][u].at = "idle"
  BY <1>3, <1>8, OneAtATime DEF Connecting
<1>13. Thread(c)'
  <2>1. \A u \in Threads : Halfway(c, u)' =>
          /\ pc'[c][u].fd \in Sockets'
          /\ ~client'[c].excused /\ socket'[pc'[c][u].fd].server =>
                c \in DOMAIN index' /\ opened'[index'[c]] = pc'[c][u].fd
          /\ pc'[c][u].at = "listening" => client'[c].fd \in {0, pc'[c][u].fd}
    BY <1>3, <1>6, <1>7, <1>8, <1>9, <1>11
  <2> QED BY <1>1, <1>6, <1>7, <1>9, <1>12, <2>1 DEF Thread, Threads
<1>14. Session(c)'
  BY <1>1, <1>6, <1>7, <1>9, <1>11, <1>12 DEF Session
<1> QED BY <1>6, <1>7, <1>8, <1>9, <1>10, <1>13, <1>14, OneProcessSteps

\* A process whose connection is still served is registered with its session.
LEMMA EnableAcceptedKeeps ==
    ASSUME IInv, NEW c \in Clients, NEW t \in Threads, pc[c][t].at = "listening",
           EnableAccepted(c, t), pc' = [pc EXCEPT ![c][t] = Idle],
           UNCHANGED <<sessions, index, opened, report, sent>>
    PROVE  IInv'
<1> DEFINE registers == client[c].cbs \/ t = "application"
           lost == client[c].excused \/ ~Served(c)
           x == [[[client[c] EXCEPT !.isConnected = TRUE] EXCEPT !.cbs = registers] EXCEPT
                     !.excused = lost]
<1>1. Shape /\ Thread(c) /\ Session(c) /\ Registry
  BY DEF IInv
<1>2. client[c] \in ClientShape /\ pc \in [Clients -> [Threads -> ThreadShape]]
      /\ client[c].fd \in Sockets \cup {0} /\ service \in ServiceShape
  BY <1>1 DEF Shape
<1>3. client' = [client EXCEPT ![c] = x]
  BY DEF EnableAccepted
<1>4. /\ x \in ClientShape /\ x.alive = client[c].alive /\ x.fd = client[c].fd
      /\ x.isConnected /\ x.stale = client[c].stale
      /\ x.excused <=> client[c].excused \/ ~Served(c)
  <2>1. registers \in BOOLEAN /\ lost \in BOOLEAN
    BY DEF Served
  <2>2. lost <=> client[c].excused \/ ~Served(c)
    OBVIOUS
  <2> HIDE DEF registers, lost
  <2>3. /\ x \in ClientShape /\ x.alive = client[c].alive /\ x.fd = client[c].fd
        /\ x.isConnected /\ x.stale = client[c].stale /\ x.excused = lost
    BY <1>2, <2>1 DEF ClientShape
  <2> QED BY <2>2, <2>3
<1> HIDE DEF x, registers, lost
<1>5. /\ client' \in [Clients -> ClientShape]
      /\ \A d \in Clients : client'[d].fd \in Sockets \cup {0}
      /\ client'[c] = x
      /\ \A d \in Clients \ {c} : client'[d] = client[d]
  BY <1>1, <1>2, <1>3, <1>4, OneClientSteps
<1>6. /\ service' \in ServiceShape /\ service'.watched = service.watched
      /\ service'.pids = service.pids \cup {c}
      /\ ~client[c].stale /\ UNCHANGED <<socket, count>> /\ Sockets' = Sockets
  BY <1>2 DEF EnableAccepted, ServiceShape, Sockets
<1>7. /\ pc' \in [Clients -> [Threads -> ThreadShape]]
      /\ \A d \in Clients \ {c} : pc'[d] = pc[d]
      /\ pc'[c][t] = Idle
      /\ \A u \in Threads \ {t} : pc'[c][u] = pc[c][u]
  <2>1. Idle \in ThreadShape
    BY DEF ThreadShape, Idle
  <2> QED BY <1>2, <2>1, ThreadGoes
<1>8. Shape'
  BY <1>1, <1>5, <1>6, <1>7 DEF Shape
<1>9. client[c].alive /\ \A u \in Threads : pc'[c][u].at = "idle"
  BY <1>7, OneAtATime DEF Idle
<1>10. Thread(c)'
  BY <1>4, <1>5, <1>6, <1>9 DEF Thread, Halfway, Threads
<1>11. ~x.excused => c \in DOMAIN index /\ opened[index[c]] = client[c].fd
  <2> SUFFICES ASSUME ~x.excused PROVE c \in DOMAIN index /\ opened[index[c]] = client[c].fd
    OBVIOUS
  <2>1. ~client[c].excused /\ client[c].fd # 0 /\ socket[client[c].fd].server
    BY <1>4 DEF Served
  <2>2. client[c].fd = pc[c][t].fd
    BY <1>1, <2>1 DEF Thread, Halfway
  <2> QED BY <1>1, <2>1, <2>2 DEF Thread, Halfway
<1>12. Session(c)'
  BY <1>1, <1>4, <1>5, <1>6, <1>11 DEF Session
<1>13. \A d \in Clients \ {c} : d \in service'.pids <=> d \in service.pids
  BY <1>6
<1> QED BY <1>4, <1>5, <1>6, <1>7, <1>8, <1>10, <1>12, <1>13, OneProcessSteps

\* Who is refused goes back without a socket; only a service that died in the middle
\* is no failure of a call, and then nothing is left of the process.
LEMMA EnableRefusedKeeps ==
    ASSUME IInv, NEW c \in Clients, NEW t \in Threads, pc[c][t].at = "listening",
           EnableRefused(c), pc' = [pc EXCEPT ![c][t] = Idle],
           UNCHANGED <<sessions, index, opened, report, sent>>
    PROVE  IInv'
<1> DEFINE failed == client[c].excused \/ client[c].isConnected \/ ~client[c].stale
           x == [[client[c] EXCEPT !.fd = 0] EXCEPT !.excused = failed]
<1>1. Shape /\ Thread(c) /\ Session(c)
  BY DEF IInv
<1>2. client[c] \in ClientShape /\ client[c].fd \in 1..Len(socket) \cup {0}
      /\ socket \in Seq(SocketShape) /\ pc \in [Clients -> [Threads -> ThreadShape]]
      /\ service \in ServiceShape
  BY <1>1 DEF Shape, Sockets
<1>3. /\ x \in ClientShape /\ x.alive = client[c].alive /\ x.fd = 0
      /\ x.isConnected = client[c].isConnected /\ x.stale = client[c].stale
      /\ x.excused <=> client[c].excused \/ client[c].isConnected \/ ~client[c].stale
  BY <1>2 DEF ClientShape
<1>4. client' = [client EXCEPT ![c] = x]
  <2>1. [client[c] EXCEPT !.fd = 0].excused = client[c].excused
    BY <1>2 DEF ClientShape
  <2> QED BY <2>1 DEF EnableRefused, Disconnected
<1> HIDE DEF x, failed
<1>5. /\ client' \in [Clients -> ClientShape]
      /\ \A d \in Clients : client'[d].fd \in Sockets \cup {0}
      /\ client'[c] = x
      /\ \A d \in Clients \ {c} : client'[d] = client[d]
  BY <1>1, <1>3, <1>4, OneClientSteps
<1>6. /\ socket' \in Seq(SocketShape) /\ Len(socket') = Len(socket)
      /\ \A k \in Sockets : socket'[k].server = socket[k].server
  BY <1>2, CloseClientIs DEF EnableRefused, Sockets
<1>7. /\ pc' \in [Clients -> [Threads -> ThreadShape]]
      /\ \A d \in Clients \ {c} : pc'[d] = pc[d]
      /\ pc'[c][t] = Idle
      /\ \A u \in Threads \ {t} : pc'[c][u] = pc[c][u]
  <2>1. Idle \in ThreadShape
    BY DEF ThreadShape, Idle
  <2> QED BY <1>2, <2>1, ThreadGoes
<1>8. /\ service' \in ServiceShape
      /\ service'.pids = service.pids /\ service'.watched = service.watched
  BY <1>2 DEF EnableRefused, ServiceShape
<1>9. count' \in CountShape
  BY <1>1, ErrorCounts DEF EnableRefused, Shape
<1>10. Shape'
  BY <1>1, <1>5, <1>6, <1>7, <1>8, <1>9 DEF Shape, Sockets
<1>11. /\ client[c].alive /\ c \notin service.pids
       /\ \A u \in Threads : pc'[c][u].at = "idle"
  BY <1>7, OneAtATime DEF Idle
<1>12. Thread(c)'
  BY <1>1, <1>3, <1>5, <1>8, <1>11 DEF Thread, Connecting, Halfway, Threads
<1>13. Session(c)'
  BY <1>1, <1>3, <1>5, <1>8, <1>11 DEF Session, Thread
<1> QED BY <1>3, <1>5, <1>6, <1>7, <1>8, <1>10, <1>12, <1>13, OneProcessSteps

-----------------------------------------------------------------------------
(* Sessions come and go                                                    *)

\* What a step that is about the session of one process leaves to be shown.
LEMMA OneSessionSteps ==
    ASSUME IInv, NEW c \in Clients, Shape', Registry', Reachable', SocketsKept,
           \A d \in Clients \ {c} : client'[d] = client[d] /\ pc'[d] = pc[d],
           \A d \in Clients \ {c} : d \in service'.pids <=> d \in service.pids,
           \A d \in Clients \ {c} : d \in service'.watched <=> d \in service.watched,
           \A d \in Clients \ {c} : d \in DOMAIN index' <=> d \in DOMAIN index,
           \A d \in DOMAIN index \ {c} :
              index'[d] = index[d] /\ opened'[index[d]] = opened[index[d]],
           Thread(c)', Session(c)'
    PROVE  IInv'
<1>1. \A d \in Clients \ {c} : Alone(d)
  BY DEF Alone
<1> QED BY <1>1, Unconcerned DEF IInv

\* The end of a session: the maps lose its descriptor and agree again.
LEMMA SessionEnds ==
    ASSUME IInv, NEW c \in DOMAIN index,
           index' = Drop(index, c), sessions' = Drop(sessions, index[c]),
           opened' = Drop(opened, index[c]), Len(socket') = Len(socket),
           \A k \in Sockets : socket'[k].server <=> socket[k].server /\ k # opened[index[c]],
           \A d \in Clients : client[d].excused => client'[d].excused
    PROVE  /\ Partial(sessions, Nat, Clients)' /\ Partial(index, Clients, Nat)'
           /\ Partial(opened, Nat, Sockets)'
           /\ IsFiniteSet(DOMAIN sessions') /\ Cardinality(DOMAIN sessions') <= MaxSessions + 1
           /\ Registry' /\ Reachable' /\ SocketsKept
           /\ DOMAIN index' = DOMAIN index \ {c}
           /\ \A d \in DOMAIN index \ {c} :
                 index'[d] = index[d] /\ opened'[index[d]] = opened[index[d]]
<1>1. Shape /\ Registry /\ Reachable
  BY DEF IInv
<1>2. /\ index[c] \in DOMAIN sessions /\ sessions[index[c]] = c
      /\ DOMAIN sessions = DOMAIN opened
      /\ \A d \in DOMAIN index \ {c} : index[d] # index[c] /\ index[d] \in DOMAIN opened
  BY <1>1 DEF Registry
<1>3. /\ DOMAIN index' = DOMAIN index \ {c}
      /\ \A d \in DOMAIN index \ {c} : index'[d] = index[d]
      /\ DOMAIN sessions' = DOMAIN sessions \ {index[c]}
      /\ \A fd \in DOMAIN sessions \ {index[c]} : sessions'[fd] = sessions[fd]
      /\ DOMAIN opened' = DOMAIN opened \ {index[c]}
      /\ \A fd \in DOMAIN opened \ {index[c]} : opened'[fd] = opened[fd]
  <2>1. /\ DOMAIN index' = DOMAIN index \ {c}
        /\ \A d \in DOMAIN index \ {c} : index'[d] = index[d]
    <3>1. index' = [y \in DOMAIN index \ {c} |-> index[y]]
      BY DEF Drop
    <3> QED BY <3>1
  <2>2. /\ DOMAIN sessions' = DOMAIN sessions \ {index[c]}
        /\ \A fd \in DOMAIN sessions \ {index[c]} : sessions'[fd] = sessions[fd]
    <3>1. sessions' = [y \in DOMAIN sessions \ {index[c]} |-> sessions[y]]
      BY DEF Drop
    <3> QED BY <3>1
  <2>3. /\ DOMAIN opened' = DOMAIN opened \ {index[c]}
        /\ \A fd \in DOMAIN opened \ {index[c]} : opened'[fd] = opened[fd]
    <3>1. opened' = [y \in DOMAIN opened \ {index[c]} |-> opened[y]]
      BY DEF Drop
    <3> QED BY <3>1
  <2> QED BY <2>1, <2>2, <2>3
<1>4. Sockets' = Sockets
  BY DEF Sockets
<1>5. /\ Partial(sessions, Nat, Clients)' /\ Partial(index, Clients, Nat)'
      /\ Partial(opened, Nat, Sockets)'
  BY <1>1, <1>3, <1>4 DEF Shape, Partial
<1>6. IsFiniteSet(DOMAIN sessions') /\ Cardinality(DOMAIN sessions') <= MaxSessions + 1
  <2>1. IsFiniteSet(DOMAIN sessions) /\ Cardinality(DOMAIN sessions) <= MaxSessions + 1
    BY <1>1 DEF Shape
  <2>2. /\ IsFiniteSet(DOMAIN sessions') /\ Cardinality(DOMAIN sessions') \in Nat
        /\ Cardinality(DOMAIN sessions) \in Nat
        /\ Cardinality(DOMAIN sessions') <= Cardinality(DOMAIN sessions)
    <3>1. DOMAIN sessions' \subseteq DOMAIN sessions
      BY <1>3
    <3> QED BY <2>1, <3>1, FS_Subset, FS_CardinalityType
  <2>3. MaxSessions \in Nat
    BY BoundsAssumption
  <2> QED BY <2>1, <2>2, <2>3
<1>7. Registry'
  <2>1. \A k \in Sockets : socket'[k].server <=> \E fd \in DOMAIN opened' : opened'[fd] = k
    BY <1>1, <1>2, <1>3 DEF Registry
  <2> QED BY <1>1, <1>2, <1>3, <1>4, <2>1 DEF Registry
<1>8. Reachable'
  <2>1. \A fd \in DOMAIN sessions \ {index[c]} : sessions[fd] \in Clients
    BY <1>1 DEF Shape, Partial
  <2>2. \A fd \in DOMAIN sessions \ {index[c]} : ~client[sessions[fd]].excused =>
            sessions[fd] \in DOMAIN index \ {c} /\ index[sessions[fd]] = fd
    BY <1>1 DEF Reachable
  <2> QED BY <1>3, <2>1, <2>2 DEF Reachable
<1>9. SocketsKept
  <2>1. Len(socket) \in Nat
    BY <1>1 DEF Shape
  <2> QED BY <2>1 DEF SocketsKept
<1>10. \A d \in DOMAIN index \ {c} :
          index'[d] = index[d] /\ opened'[index[d]] = opened[index[d]]
  BY <1>2, <1>3
<1> QED BY <1>3, <1>5, <1>6, <1>7, <1>8, <1>9, <1>10

\* The last callback goes: the process is out of the list, and its session is closed.
LEMMA UnregisterDoneKeeps ==
    ASSUME IInv, NEW c \in Clients, pc[c]["application"].at = "idle",
           UnregisterDone(c), UNCHANGED <<report, pc, sent>>
    PROVE  IInv'
<1> DEFINE x == [[[client[c] EXCEPT !.fd = 0] EXCEPT !.cbs = FALSE] EXCEPT
                     !.isConnected = FALSE]
           mine == CloseClient(socket, client[c].fd)
           s == [service EXCEPT !.reporting = FALSE, !.pids = @ \ {c}]
<1>1. Shape /\ Thread(c) /\ Session(c) /\ Registry
  BY DEF IInv
<1>2. client[c] \in ClientShape /\ client[c].fd \in 1..Len(socket) \cup {0}
      /\ socket \in Seq(SocketShape) /\ service \in ServiceShape
  BY <1>1 DEF Shape, Sockets
<1>3. /\ x \in ClientShape /\ x.alive = client[c].alive /\ x.fd = 0
      /\ ~x.isConnected /\ x.stale = client[c].stale
      /\ x.excused = client[c].excused
  BY <1>2 DEF ClientShape
<1>4. client' = [client EXCEPT ![c] = x]
  BY DEF UnregisterDone, Disconnected
<1> HIDE DEF x
<1>5. /\ client' \in [Clients -> ClientShape]
      /\ \A d \in Clients : client'[d].fd \in Sockets \cup {0}
      /\ client'[c] = x
      /\ \A d \in Clients \ {c} : client'[d] = client[d]
      /\ \A d \in Clients : client[d].excused => client'[d].excused
  BY <1>1, <1>3, <1>4, OneClientSteps
<1>6. /\ service' \in ServiceShape /\ service'.pids = service.pids \ {c}
      /\ \A d \in Clients \ {c} : d \in service'.watched <=> d \in service.watched
  <2>1. /\ s \in ServiceShape /\ s.watched = service.watched
        /\ s.pids = service.pids \ {c}
    BY <1>2 DEF ServiceShape
  <2>2. service' = IF c \in s.channels \cup s.pids THEN s
                   ELSE [s EXCEPT !.watched = @ \ {c}]
    BY DEF UnregisterDone, Unwatched
  <2> HIDE DEF s
  <2> QED BY <2>1, <2>2 DEF ServiceShape
<1>7. /\ mine \in Seq(SocketShape) /\ Len(mine) = Len(socket)
      /\ \A k \in Sockets : mine[k].server = socket[k].server
  BY <1>2, CloseClientIs DEF Sockets
<1>8. c \in service.pids /\ ~client[c].stale /\ UNCHANGED <<report, pc, sent, count>>
  BY DEF UnregisterDone
<1>9. \A t \in Threads : pc[c][t].at = "idle"
  BY <1>1, <1>8 DEF Thread, Threads
<1>10. Thread(c)'
  <2>1. ~client'[c].isConnected /\ ~client'[c].stale /\ c \notin service'.pids
    BY <1>3, <1>5, <1>6, <1>8
  <2>2. \A t \in Threads : pc'[c][t].at = "idle"
    BY <1>8, <1>9
  <2> QED BY <2>1, <2>2 DEF Thread, Connecting, Halfway, Threads
<1>11. \A d \in Clients \ {c} : d \in service'.pids <=> d \in service.pids
  BY <1>6
<1>12. CASE c \notin DOMAIN index
  <2>1. socket' = mine /\ UNCHANGED <<sessions, index, opened>>
    BY <1>12 DEF UnregisterDone
  <2> HIDE DEF mine, s
  <2>2. Shape'
    BY <1>1, <1>5, <1>6, <1>7, <1>8, <2>1 DEF Shape, Sockets
  <2>3. Session(c)'
    BY <1>3, <1>5, <1>6, <1>12, <2>1 DEF Session
  <2> QED BY <1>3, <1>5, <1>6, <1>7, <1>8, <1>10, <1>11, <2>1, <2>2, <2>3, OneProcessSteps
<1>13. CASE c \in DOMAIN index
  <2>1. /\ index' = Drop(index, c) /\ sessions' = Drop(sessions, index[c])
        /\ opened' = Drop(opened, index[c])
        /\ socket' = CloseServer(mine, opened[index[c]])
    BY <1>13 DEF UnregisterDone
  <2>2. opened[index[c]] \in 1..Len(mine)
    BY <1>1, <1>7, <1>13 DEF Registry, Shape, Partial, Sockets
  <2> HIDE DEF mine, s
  <2>3. /\ socket' \in Seq(SocketShape) /\ Len(socket') = Len(socket)
        /\ \A k \in Sockets : socket'[k].server <=> socket[k].server /\ k # opened[index[c]]
    <3> DEFINE k0 == opened[index[c]]
    <3>1. k0 \in 1..Len(mine) /\ socket' = CloseServer(mine, k0)
      BY <2>1, <2>2
    <3> HIDE DEF k0
    <3>2. /\ CloseServer(mine, k0) \in Seq(SocketShape)
          /\ Len(CloseServer(mine, k0)) = Len(mine)
          /\ \A j \in 1..Len(mine) : CloseServer(mine, k0)[j].server <=> mine[j].server /\ j # k0
      BY <1>7, <3>1, CloseServerIs
    <3>3. /\ socket' \in Seq(SocketShape) /\ Len(socket') = Len(socket)
          /\ \A k \in Sockets : socket'[k].server <=> socket[k].server /\ k # k0
      BY <1>7, <3>1, <3>2 DEF Sockets
    <3> QED BY <3>3 DEF k0
  <2>4. /\ Partial(sessions, Nat, Clients)' /\ Partial(index, Clients, Nat)'
        /\ Partial(opened, Nat, Sockets)'
        /\ IsFiniteSet(DOMAIN sessions') /\ Cardinality(DOMAIN sessions') <= MaxSessions + 1
        /\ Registry' /\ Reachable' /\ SocketsKept
        /\ DOMAIN index' = DOMAIN index \ {c}
        /\ \A d \in DOMAIN index \ {c} :
              index'[d] = index[d] /\ opened'[index[d]] = opened[index[d]]
    BY <1>5, <1>13, <2>1, <2>3, SessionEnds
  <2>5. Shape'
    BY <1>1, <1>5, <1>6, <1>8, <2>3, <2>4 DEF Shape, Sockets
  <2>6. Session(c)'
    BY <1>3, <1>5, <1>6, <2>4 DEF Session
  <2>7. \A d \in Clients \ {c} : d \in DOMAIN index' <=> d \in DOMAIN index
    BY <2>4
  <2>8. \A d \in Clients \ {c} : client'[d] = client[d] /\ pc'[d] = pc[d]
    BY <1>5, <1>8
  <2> QED BY <1>6, <1>10, <1>11, <2>4, <2>5, <2>6, <2>7, <2>8, OneSessionSteps
<1> QED BY <1>12, <1>13

\* Once the service has seen a process die, it has nothing of it any more.
LEMMA ProcessDeathKeeps ==
    ASSUME IInv, NEW c \in Clients, ProcessDeath(c)
    PROVE  IInv'
<1>1. Shape /\ Thread(c) /\ Session(c) /\ Registry
  BY DEF IInv
<1>2. socket \in Seq(SocketShape) /\ service \in ServiceShape
  BY <1>1 DEF Shape
<1>3. ~client[c].alive /\ UNCHANGED <<report, client, pc, sent, count>>
  BY DEF ProcessDeath
<1>4. /\ service' \in ServiceShape /\ service'.pids = service.pids \ {c}
      /\ service'.watched = service.watched \ {c}
  BY <1>2 DEF ProcessDeath, ServiceShape
<1>5. \A d \in Clients \ {c} : /\ d \in service'.pids <=> d \in service.pids
                               /\ d \in service'.watched <=> d \in service.watched
  BY <1>4
<1>6. ~client[c].isConnected /\ ~client[c].stale /\ ~Connecting(c)
  BY <1>1, <1>3 DEF Thread
<1>7. Thread(c)'
  <2>1. \A t \in Threads : pc'[c][t].at = "idle"
    BY <1>3, <1>6 DEF Connecting
  <2> QED BY <1>3, <1>6, <2>1 DEF Thread, Connecting, Halfway, Threads
<1>8. CASE c \notin DOMAIN index
  <2>1. UNCHANGED <<sessions, index, opened, socket>>
    BY <1>8 DEF ProcessDeath, DelSession
  <2>2. Shape'
    BY <1>1, <1>3, <1>4, <2>1 DEF Shape, Sockets
  <2>3. Session(c)'
    BY <1>3, <1>4, <1>6, <1>8, <2>1 DEF Session
  <2> QED BY <1>3, <1>5, <1>7, <2>1, <2>2, <2>3, OneProcessSteps
<1>9. CASE c \in DOMAIN index
  <2>1. /\ index' = Drop(index, c) /\ sessions' = Drop(sessions, index[c])
        /\ opened' = Drop(opened, index[c])
        /\ socket' = CloseServer(socket, opened[index[c]])
    BY <1>9 DEF ProcessDeath, DelSession
  <2>2. opened[index[c]] \in 1..Len(socket)
    BY <1>1, <1>9 DEF Registry, Shape, Partial, Sockets
  <2>3. /\ socket' \in Seq(SocketShape) /\ Len(socket') = Len(socket)
        /\ \A k \in Sockets : socket'[k].server <=> socket[k].server /\ k # opened[index[c]]
    <3> DEFINE k0 == opened[index[c]]
    <3>1. k0 \in 1..Len(socket) /\ socket' = CloseServer(socket, k0)
      BY <2>1, <2>2
    <3> HIDE DEF k0
    <3>2. /\ CloseServer(socket, k0) \in Seq(SocketShape)
          /\ Len(CloseServer(socket, k0)) = Len(socket)
          /\ \A j \in 1..Len(socket) : CloseServer(socket, k0)[j].server <=> socket[j].server /\ j # k0
      BY <1>2, <3>1, CloseServerIs
    <3>3. /\ socket' \in Seq(SocketShape) /\ Len(socket') = Len(socket)
          /\ \A k \in Sockets : socket'[k].server <=> socket[k].server /\ k # k0
      BY <1>2, <3>1, <3>2 DEF Sockets
    <3> QED BY <3>3 DEF k0
  <2>4. /\ Partial(sessions, Nat, Clients)' /\ Partial(index, Clients, Nat)'
        /\ Partial(opened, Nat, Sockets)'
        /\ IsFiniteSet(DOMAIN sessions') /\ Cardinality(DOMAIN sessions') <= MaxSessions + 1
        /\ Registry' /\ Reachable' /\ SocketsKept
        /\ DOMAIN index' = DOMAIN index \ {c}
        /\ \A d \in DOMAIN index \ {c} :
              index'[d] = index[d] /\ opened'[index[d]] = opened[index[d]]
    BY <1>3, <1>9, <2>1, <2>3, SessionEnds
  <2>5. Shape'
    BY <1>1, <1>3, <1>4, <2>3, <2>4 DEF Shape, Sockets
  <2>6. Session(c)'
    BY <1>3, <1>4, <1>6, <2>4 DEF Session
  <2>7. \A d \in Clients \ {c} : d \in DOMAIN index' <=> d \in DOMAIN index
    BY <2>4
  <2> QED BY <1>3, <1>5, <1>7, <2>4, <2>5, <2>6, <2>7, OneSessionSteps
<1> QED BY <1>8, <1>9

\* The service dies with all its sessions; every process that lives has to find out.
LEMMA ServiceDiesKeeps ==
    ASSUME IInv, ServiceDies
    PROVE  IInv'
<1>1. Shape /\ \A c \in Clients : Thread(c)
  BY DEF IInv
<1>2. sessions' = <<>> /\ index' = <<>> /\ opened' = <<>>
      /\ DOMAIN sessions' = {} /\ DOMAIN index' = {} /\ DOMAIN opened' = {}
      /\ UNCHANGED <<pc, sent>>
  BY DEF ServiceDies, None
<1>3. /\ service' \in ServiceShape /\ service'.pids = {}
  <2>1. service' = [reporting |-> FALSE, pids |-> {}, watched |-> {}, channels |-> {}]
    BY DEF ServiceDies, NewService
  <2> QED BY <2>1 DEF ServiceShape
<1>4. report' \in ReportShape
  <2>1. <<>> \in Cells
    BY DEF Cells
  <2> QED BY <2>1 DEF ServiceDies, NoReport, ReportShape
<1>5. /\ socket' \in Seq(SocketShape) /\ Len(socket') = Len(socket)
      /\ \A k \in Sockets : ~socket'[k].server
  <2> DEFINE e(k) == [socket[k] EXCEPT !.server = FALSE]
  <2>1. Len(socket) \in Nat /\ \A k \in Sockets : socket[k] \in SocketShape
    BY <1>1 DEF Shape, Sockets
  <2>2. \A k \in Sockets : e(k) \in SocketShape /\ ~e(k).server
    BY <2>1 DEF SocketShape
  <2>3. socket' = [k \in 1..Len(socket) |-> e(k)]
    BY DEF ServiceDies, Sockets
  <2> HIDE DEF e
  <2> QED BY <2>1, <2>2, <2>3 DEF Sockets
<1>6. /\ client' \in [Clients -> ClientShape]
      /\ \A c \in Clients : /\ client'[c].alive = client[c].alive
                            /\ client'[c].fd = client[c].fd
                            /\ client'[c].isConnected = client[c].isConnected
                            /\ client'[c].stale = client[c].alive
  <2> DEFINE e(c) == [client[c] EXCEPT !.stale = client[c].alive]
  <2>1. \A c \in Clients : client[c] \in ClientShape
    BY <1>1 DEF Shape
  <2>2. \A c \in Clients : /\ e(c) \in ClientShape /\ e(c).alive = client[c].alive
                           /\ e(c).fd = client[c].fd
                           /\ e(c).isConnected = client[c].isConnected
                           /\ e(c).stale = client[c].alive
    BY <2>1 DEF ClientShape
  <2>3. client' = [c \in Clients |-> e(c)]
    BY DEF ServiceDies
  <2> HIDE DEF e
  <2>4. \A c \in Clients : client'[c] = e(c)
    BY <2>3
  <2>5. client' \in [Clients -> ClientShape]
    BY <2>2, <2>3
  <2> QED BY <2>2, <2>4, <2>5
<1>7. count' \in CountShape
  BY <1>1, SMTT(20) DEF ServiceDies, Shape, CountShape
<1>8. Sockets' = Sockets
  BY <1>5 DEF Sockets
<1>9. IsFiniteSet(DOMAIN sessions') /\ Cardinality(DOMAIN sessions') <= MaxSessions + 1
  BY <1>2, FS_EmptySet, BoundsAssumption
<1>10. Partial(sessions, Nat, Clients)' /\ Partial(index, Clients, Nat)'
       /\ Partial(opened, Nat, Sockets)'
  BY <1>2 DEF Partial
<1>11. Shape'
  BY <1>1, <1>2, <1>3, <1>4, <1>5, <1>6, <1>7, <1>8, <1>9, <1>10 DEF Shape
<1>12. Registry' /\ Reachable'
  BY <1>2, <1>5, <1>8 DEF Registry, Reachable
<1>13. ASSUME NEW c \in Clients PROVE Thread(c)' /\ Session(c)'
  <2>1. \A t \in Threads : Halfway(c, t)' <=> Halfway(c, t)
    BY <1>2 DEF Halfway
  <2>2. Thread(c)
    BY <1>1
  <2>3. \A t \in Threads : Halfway(c, t)' =>
          /\ pc'[c][t].fd \in Sockets'
          /\ ~socket'[pc'[c][t].fd].server
          /\ pc'[c][t].at = "listening" => client'[c].fd \in {0, pc'[c][t].fd}
    BY <1>2, <1>5, <1>6, <1>8, <2>1, <2>2 DEF Thread
  <2>4. Thread(c)'
    BY <1>2, <1>3, <1>6, <2>2, <2>3 DEF Thread, Connecting
  <2>5. Session(c)'
    BY <1>2, <1>3, <1>6, <2>2 DEF Session, Thread
  <2> QED BY <2>4, <2>5
<1> QED BY <1>11, <1>12, <1>13 DEF IInv

\* A new session is on a descriptor of its own, and the one its process may have had
\* before is none that could still be found.
LEMMA CreateAcceptedKeeps ==
    ASSUME IInv, NEW c \in Clients, NEW t \in Threads, pc[c][t].at = "create",
           CreateAccepted(c, t), UNCHANGED report
    PROVE  IInv'
<1> DEFINE fd == FreeFd
           k == Len(socket) + 1
           e == [cells |-> <<>>, server |-> TRUE, client |-> TRUE, torn |-> FALSE]
           r == [at |-> "created", fd |-> k]
           met == client[c].excused \/ \E u \in Threads \ {t} : pc[c][u].at # "idle"
           x == [client[c] EXCEPT !.excused = met]
<1>1. Shape /\ Thread(c) /\ Session(c) /\ Registry /\ Reachable
  BY DEF IInv
<1>2. client[c] \in ClientShape /\ client[c].fd \in Sockets \cup {0}
      /\ socket \in Seq(SocketShape) /\ pc \in [Clients -> [Threads -> ThreadShape]]
      /\ service \in ServiceShape /\ Len(socket) \in Nat
  BY <1>1 DEF Shape
<1>3. /\ client[c].alive /\ c \notin service.pids
      /\ \A u \in Threads \ {t} : pc[c][u].at = "idle"
      /\ \A u \in Threads : ~Halfway(c, u)
      /\ pc[c]["observer"].at # "idle" => client[c].isConnected
      /\ pc[c]["application"].at # "idle" => ~client[c].isConnected
  <2>1. /\ client[c].alive /\ c \notin service.pids
        /\ \A u \in Threads \ {t} : pc[c][u].at = "idle"
    BY OneAtATime
  <2> QED BY <1>1, <2>1 DEF Thread, Halfway
<1>4. /\ x \in ClientShape /\ x.alive = client[c].alive /\ x.fd = client[c].fd
      /\ x.isConnected = client[c].isConnected /\ x.stale = client[c].stale
      /\ x.excused <=> client[c].excused
  <2>1. met \in BOOLEAN /\ (met <=> client[c].excused)
    BY <1>3
  <2> HIDE DEF met
  <2>2. /\ x \in ClientShape /\ x.alive = client[c].alive /\ x.fd = client[c].fd
        /\ x.isConnected = client[c].isConnected /\ x.stale = client[c].stale
        /\ x.excused = met
    BY <1>2, <2>1 DEF ClientShape
  <2> QED BY <2>1, <2>2
<1>5. client' = [client EXCEPT ![c] = x]
  BY DEF CreateAccepted
<1>6. /\ sessions' = Put(sessions, fd, c) /\ index' = Put(index, c, fd)
      /\ opened' = Put(opened, fd, k) /\ socket' = Append(socket, e)
      /\ sent' = Append(sent, <<>>) /\ pc' = [pc EXCEPT ![c][t] = r]
      /\ service' = [service EXCEPT !.watched = @ \cup {c}]
      /\ ~client[c].stale /\ ~TooMany /\ UNCHANGED count
  BY DEF CreateAccepted, AddSession
<1>7. fd \in Nat \ {0} /\ fd \notin DOMAIN opened
  <2>1. IsFiniteSet(DOMAIN opened)
    BY <1>1 DEF Shape, Registry
  <2> QED BY <2>1, FreeFdIsFree
<1>8. e \in SocketShape /\ e.server /\ r \in ThreadShape /\ r.at = "created" /\ r.fd = k
  <2>1. <<>> \in Buffered /\ TRUE \in BOOLEAN /\ FALSE \in BOOLEAN
    BY StreamAssumption DEF Cells, Buffered
  <2>2. e \in SocketShape
    BY <2>1, Zenon DEF SocketShape
  <2> QED BY <1>2, <2>2 DEF ThreadShape
<1> HIDE DEF x, met, fd, e, r
<1>9. /\ client' \in [Clients -> ClientShape]
      /\ \A d \in Clients : client'[d].fd \in Sockets \cup {0}
      /\ client'[c] = x
      /\ \A d \in Clients \ {c} : client'[d] = client[d]
  BY <1>1, <1>2, <1>4, <1>5, OneClientSteps
<1>10. /\ socket' \in Seq(SocketShape) /\ Len(socket') = k
       /\ \A j \in Sockets : socket'[j] = socket[j]
       /\ socket'[k] = e
       /\ Sockets' = Sockets \cup {k} /\ k \notin Sockets
  BY <1>2, <1>6, <1>8 DEF Sockets
<1>11. sent' \in Seq(Seq(Nat)) /\ Len(sent') = Len(socket')
  <2>1. sent \in Seq(Seq(Nat)) /\ Len(sent) = Len(socket) /\ <<>> \in Seq(Nat)
    BY <1>1 DEF Shape
  <2> QED BY <1>6, <1>10, <2>1
<1>12. /\ pc' \in [Clients -> [Threads -> ThreadShape]]
       /\ \A d \in Clients \ {c} : pc'[d] = pc[d]
       /\ pc'[c][t] = r
       /\ \A u \in Threads \ {t} : pc'[c][u] = pc[c][u]
  BY <1>2, <1>6, <1>8, ThreadGoes
<1>13. /\ service' \in ServiceShape /\ service'.pids = service.pids
       /\ service'.watched = service.watched \cup {c}
  BY <1>2, <1>6 DEF ServiceShape
<1>14. /\ DOMAIN index' = DOMAIN index \cup {c} /\ index'[c] = fd
       /\ \A d \in DOMAIN index \ {c} : index'[d] = index[d]
  <2>1. index' = Put(index, c, fd)
    BY <1>6
  <2> QED BY <2>1 DEF Put
<1>15. /\ DOMAIN sessions' = DOMAIN sessions \cup {fd} /\ sessions'[fd] = c
       /\ \A f \in DOMAIN sessions \ {fd} : sessions'[f] = sessions[f]
  <2>1. sessions' = Put(sessions, fd, c)
    BY <1>6
  <2> QED BY <2>1 DEF Put
<1>16. /\ DOMAIN opened' = DOMAIN opened \cup {fd} /\ opened'[fd] = k
       /\ \A f \in DOMAIN opened \ {fd} : opened'[f] = opened[f]
  <2>1. opened' = Put(opened, fd, k)
    BY <1>6
  <2> QED BY <2>1 DEF Put
<1> HIDE DEF k
<1>17. /\ DOMAIN sessions = DOMAIN opened
       /\ \A d \in DOMAIN index : index[d] \in DOMAIN opened /\ index[d] # fd
       /\ \A f \in DOMAIN opened : opened[f] \in Sockets
  BY <1>1, <1>7 DEF Registry, Shape, Partial
<1>18. IsFiniteSet(DOMAIN sessions') /\ Cardinality(DOMAIN sessions') <= MaxSessions + 1
  <2>1. IsFiniteSet(DOMAIN sessions) /\ Cardinality(DOMAIN sessions) <= MaxSessions
    <3>1. IsFiniteSet(DOMAIN sessions) /\ Cardinality(DOMAIN sessions) \in Nat
      BY <1>1, FS_CardinalityType DEF Shape
    <3> QED BY <1>6, <3>1, BoundsAssumption DEF TooMany
  <2>2. /\ IsFiniteSet(DOMAIN sessions \cup {fd})
        /\ Cardinality(DOMAIN sessions \cup {fd}) = Cardinality(DOMAIN sessions) + 1
    BY <1>7, <1>17, <2>1, FS_AddElement
  <2>3. Cardinality(DOMAIN sessions) \in Nat /\ MaxSessions \in Nat
    BY <2>1, FS_CardinalityType, BoundsAssumption
  <2> QED BY <1>15, <2>1, <2>2, <2>3
<1>19. Partial(sessions, Nat, Clients)' /\ Partial(index, Clients, Nat)'
       /\ Partial(opened, Nat, Sockets)'
  <2>1. Partial(sessions, Nat, Clients) /\ Partial(index, Clients, Nat)
        /\ Partial(opened, Nat, Sockets)
    BY <1>1 DEF Shape
  <2> QED BY <1>7, <1>10, <1>14, <1>15, <1>16, <1>17, <2>1 DEF Partial
<1>20. Shape'
  <2>1. \A d \in Clients : client'[d].fd \in Sockets' \cup {0}
    BY <1>9, <1>10
  <2> QED BY <1>1, <1>6, <1>9, <1>10, <1>11, <1>12, <1>13, <1>18, <1>19 DEF Shape
<1>21. Registry'
  <2>1. \A d \in DOMAIN index' : index'[d] \in DOMAIN sessions' /\ sessions'[index'[d]] = d
    BY <1>1, <1>14, <1>15, <1>17 DEF Registry
  <2>2. \A f, g \in DOMAIN opened' : opened'[f] = opened'[g] => f = g
    BY <1>1, <1>10, <1>16, <1>17 DEF Registry
  <2>3. \A j \in Sockets' : socket'[j].server <=> \E f \in DOMAIN opened' : opened'[f] = j
    <3> SUFFICES ASSUME NEW j \in Sockets'
                 PROVE  socket'[j].server <=> \E f \in DOMAIN opened' : opened'[f] = j
      OBVIOUS
    <3>1. CASE j = k
      BY <1>8, <1>10, <1>16, <3>1
    <3>2. CASE j \in Sockets
      <4>1. socket'[j].server <=> \E f \in DOMAIN opened : opened[f] = j
        BY <1>1, <1>10, <3>2 DEF Registry
      <4> QED BY <1>7, <1>10, <1>16, <3>2, <4>1
    <3> QED BY <1>10, <3>1, <3>2
  <2> QED BY <1>15, <1>16, <1>17, <2>1, <2>2, <2>3 DEF Registry
<1>22. Reachable'
  <2> SUFFICES ASSUME NEW f \in DOMAIN sessions', ~client'[sessions'[f]].excused
               PROVE  sessions'[f] \in DOMAIN index' /\ index'[sessions'[f]] = f
    BY DEF Reachable
  <2>1. CASE f = fd
    BY <1>14, <1>15, <2>1
  <2>2. CASE f # fd
    <3>1. f \in DOMAIN sessions /\ sessions'[f] = sessions[f] /\ sessions[f] \in Clients
      BY <1>1, <1>15, <2>2 DEF Shape, Partial
    <3>2. ~client[sessions[f]].excused
      BY <1>4, <1>9, <3>1
    <3>3. sessions[f] \in DOMAIN index /\ index[sessions[f]] = f
      BY <1>1, <3>1, <3>2 DEF Reachable
    <3>4. sessions[f] # c
      BY <1>1, <1>3, <3>2, <3>3 DEF Session
    <3> QED BY <1>14, <3>1, <3>3, <3>4
  <2> QED BY <2>1, <2>2
<1>23. SocketsKept
  BY <1>2, <1>10 DEF SocketsKept, k
<1>24. \A u \in Threads : Halfway(c, u)' <=> u = t
  BY <1>3, <1>8, <1>12 DEF Halfway
<1>25. Thread(c)'
  <2>1. \A u \in Threads : Halfway(c, u)' =>
          /\ pc'[c][u].fd \in Sockets'
          /\ ~client'[c].excused /\ socket'[pc'[c][u].fd].server =>
                c \in DOMAIN index' /\ opened'[index'[c]] = pc'[c][u].fd
          /\ pc'[c][u].at = "listening" => client'[c].fd \in {0, pc'[c][u].fd}
    BY <1>8, <1>10, <1>12, <1>14, <1>16, <1>24
  <2>2. \A u \in Threads : pc'[c][u].at # "idle" => pc[c][u].at # "idle"
    BY <1>3, <1>12
  <2>3. "observer" \in Threads /\ "application" \in Threads
    BY DEF Threads
  <2>4. client'[c].alive /\ ~client'[c].stale /\ c \notin service'.pids
        /\ client'[c].isConnected = client[c].isConnected
    BY <1>3, <1>4, <1>6, <1>9, <1>13
  <2> QED BY <1>3, <2>1, <2>2, <2>3, <2>4 DEF Thread
<1>26. Session(c)'
  <2>1. Connecting(c)'
    BY <1>8, <1>12 DEF Connecting
  <2> QED BY <1>13, <1>24, <2>1 DEF Session
<1>27. \A d \in DOMAIN index \ {c} :
          index'[d] = index[d] /\ opened'[index[d]] = opened[index[d]]
  BY <1>14, <1>16, <1>17
<1>28. \A d \in Clients \ {c} : /\ d \in service'.pids <=> d \in service.pids
                                /\ d \in service'.watched <=> d \in service.watched
                                /\ d \in DOMAIN index' <=> d \in DOMAIN index
  BY <1>13, <1>14
<1> QED BY <1>9, <1>12, <1>20, <1>21, <1>22, <1>23, <1>25, <1>26, <1>27, <1>28,
           OneSessionSteps

-----------------------------------------------------------------------------
(* Reports and packets: what carries them leaves the connections alone      *)

\* A step that moves packets, and changes neither who is connected nor what the
\* service has of its clients.
LEMMA DataMoves ==
    ASSUME IInv, Shape', UNCHANGED <<service, sessions, index, opened, pc>>,
           Len(socket') = Len(socket),
           \A k \in Sockets : socket'[k].server = socket[k].server,
           \A d \in Clients : /\ client'[d].alive = client[d].alive
                              /\ client'[d].fd = client[d].fd
                              /\ client'[d].isConnected = client[d].isConnected
                              /\ client'[d].stale = client[d].stale
                              /\ client'[d].excused = client[d].excused
    PROVE  IInv'
<1>1. Registry' /\ Reachable' /\ SocketsKept
  BY RegistryAlone
<1>2. \A d \in Clients : Alone(d)
  BY DEF Alone
<1> QED BY <1>1, <1>2, Unconcerned DEF IInv

\* The lesser of two numbers.
LEMMA LeastIs ==
    ASSUME NEW a \in Int, NEW b \in Int
    PROVE  Least(a, b) \in Int /\ Least(a, b) <= a /\ Least(a, b) <= b
           /\ Least(a, b) \in {a, b}
BY DEF Least

\* Cells behind cells.
LEMMA CellsJoin ==
    ASSUME NEW s \in Cells, NEW u \in Cells
    PROVE  s \o u \in Cells /\ Len(s \o u) = Len(s) + Len(u)
BY DEF Cells

\* A packet is made of cells.
LEMMA MakeDataIsCells ==
    ASSUME NEW p \in Nat
    PROVE  MakeData(p) \in Cells
<1>1. PacketSize \in Nat
  BY StreamAssumption DEF PacketSize
<1>2. \A i \in 1..PacketSize : <<p, i>> \in Nat \X Nat
  BY <1>1
<1> QED BY <1>1, <1>2 DEF MakeData, Cells

\* A report is begun with a packet of its own.
LEMMA StartReportKeeps ==
    ASSUME IInv, StartReport
    PROVE  IInv'
<1>1. Shape
  BY DEF IInv
<1>2. UNCHANGED <<service, sessions, index, opened, socket, client, pc, sent>>
  BY DEF StartReport
<1>3. count' \in CountShape /\ count.reports + 1 \in Nat
  <2>1. count \in CountShape
    BY <1>1 DEF Shape
  <2>2. count' = [count EXCEPT !.reports = @ + 1]
    BY DEF StartReport
  <2> QED BY <2>1, <2>2 DEF CountShape
<1>4. report' \in ReportShape
  <2> DEFINE p == count.reports + 1
             list == {index[q] : q \in Addressees}
             rest == MakeData(p)
  <2>1. list \in SUBSET Nat
    BY <1>1 DEF Shape, Partial, Addressees
  <2>2. rest \in Cells /\ p \in Nat
    BY <1>3, MakeDataIsCells
  <2>3. report' = [pkt |-> p, list |-> list, rest |-> rest, tries |-> 0, on |-> 0]
    BY DEF StartReport
  <2> HIDE DEF p, list, rest
  <2> QED BY <2>1, <2>2, <2>3 DEF ReportShape
<1>5. Shape'
  BY <1>1, <1>2, <1>3, <1>4 DEF Shape, Sockets
<1> QED BY <1>2, <1>5, DataMoves

\* The next session of a report.
LEMMA NextSessionIs ==
    ASSUME report \in ReportShape
    PROVE  NextSession \in ReportShape
<1>1. NoReport \in ReportShape
  <2>1. <<>> \in Cells
    BY DEF Cells
  <2> QED BY <2>1 DEF NoReport, ReportShape
<1>2. MakeData(report.pkt) \in Cells
  BY MakeDataIsCells DEF ReportShape
<1>3. [report EXCEPT !.list = @ \ {Current}, !.rest = MakeData(report.pkt),
                     !.tries = 0, !.on = 0] \in ReportShape
  <2> DEFINE rest == MakeData(report.pkt)
             cur == Current
  <2> HIDE DEF rest, cur
  <2>1. [report EXCEPT !.list = @ \ {cur}, !.rest = rest, !.tries = 0, !.on = 0]
            \in ReportShape
    <3>1. rest \in Cells
      BY <1>2 DEF rest
    <3> QED BY <3>1 DEF ReportShape
  <2> QED BY <2>1 DEF rest, cur
<1> QED BY <1>1, <1>3 DEF NextSession

\* A send that fails goes on to the next session.
LEMMA SendFailsKeeps ==
    ASSUME IInv, SendFails, UNCHANGED <<service, sessions, index, opened, client, pc, count>>
    PROVE  IInv'
<1>1. Shape
  BY DEF IInv
<1>2. report' \in ReportShape /\ UNCHANGED <<socket, sent>>
  BY <1>1, NextSessionIs DEF SendFails, Shape
<1>3. Shape'
  BY <1>1, <1>2 DEF Shape, Sockets
<1> QED BY <1>2, <1>3, DataMoves

\* An attempt puts what fits into the socket and leaves the rest for the next one.
LEMMA SendAttemptKeeps ==
    ASSUME IInv, SendAttempt,
           UNCHANGED <<service, sessions, index, opened, client, pc, count>>
    PROVE  IInv'
<1> DEFINE k == opened[Current]
           cells == socket[k].cells
           n == Taken(report.rest, cells)
           begun == First(report.rest, n)
           rest == Without(report.rest, n)
           last == report.tries + 1 = RetryLimit
           cut == (last /\ rest # <<>> /\ Len(rest) < PacketSize) \/ report.on \notin {0, k}
           torn == socket[k].torn \/ cut
           e == [[socket[k] EXCEPT !.cells = cells \o begun] EXCEPT !.torn = torn]
           on == IF report.on = 0 /\ n > 0 THEN k ELSE report.on
           more == [report EXCEPT !.rest = rest, !.tries = report.tries + 1, !.on = on]
<1>1. Shape
  BY DEF IInv
<1>2. /\ k \in Sockets /\ k \in Nat /\ socket[k] \in SocketShape
      /\ socket \in Seq(SocketShape) /\ Len(socket) \in Nat
      /\ report \in ReportShape
      /\ sent \in Seq(Seq(Nat)) /\ Len(sent) = Len(socket)
  BY <1>1 DEF SendAttempt, Shape, Partial, Sockets
<1>3. /\ cells \in Cells /\ Len(cells) \in Nat /\ Len(cells) <= SocketSize
      /\ report.rest \in Cells /\ Len(report.rest) \in Nat
  BY <1>2 DEF SocketShape, Buffered, ReportShape, Cells
<1>4. n \in 0..Len(report.rest) /\ n <= SocketSize - Len(cells)
  <2> HIDE DEF cells
  <2>1. SocketSize - Len(cells) \in Int /\ SocketSize - Len(cells) >= 0
    BY <1>3, StreamAssumption
  <2>2. n = Least(Len(report.rest), SocketSize - Len(cells))
    BY DEF Taken
  <2> DEFINE a == Len(report.rest)
             b == SocketSize - Len(cells)
  <2>3. a \in Int /\ a >= 0 /\ b \in Int /\ b >= 0 /\ n = Least(a, b)
    BY <1>3, <2>1, <2>2
  <2> HIDE DEF n, a, b
  <2>4. n <= a /\ n <= b /\ n \in {a, b}
    BY <2>3, LeastIs
  <2>5. n \in 0..a /\ n <= b
    BY <2>3, <2>4
  <2> QED BY <2>5 DEF a, b
<1>5. begun \in Cells /\ Len(begun) = n /\ rest \in Cells
  <2> HIDE DEF n
  <2> QED BY <1>3, <1>4, PartsAreCells
<1>6. cells \o begun \in Buffered
  <2> HIDE DEF cells, begun, n
  <2>1. cells \o begun \in Cells /\ Len(cells \o begun) = Len(cells) + Len(begun)
    BY <1>3, <1>5, CellsJoin
  <2>2. Len(cells) + Len(begun) <= SocketSize
    BY <1>3, <1>4, <1>5, StreamAssumption
  <2> QED BY <2>1, <2>2 DEF Buffered
<1>7. torn \in BOOLEAN
  BY <1>2 DEF SocketShape
<1>8. socket' = [socket EXCEPT ![k] = e]
  BY DEF SendAttempt
<1>9. sent' = sent \/ sent' = [sent EXCEPT ![k] = Append(@, report.pkt)]
  BY DEF SendAttempt
<1>10. report' = NextSession \/ report' = more
  BY DEF SendAttempt
<1> HIDE DEF n, begun, cut
<1>11. e \in SocketShape /\ e.server = socket[k].server
  <2> DEFINE full == cells \o begun
  <2>1. full \in Buffered
    BY <1>6
  <2>2. e = [[socket[k] EXCEPT !.cells = full] EXCEPT !.torn = torn]
    OBVIOUS
  <2> HIDE DEF full, torn, e, cells
  <2> QED BY <1>2, <1>7, <2>1, <2>2 DEF SocketShape
<1> HIDE DEF k, e, torn, cells
<1>12. /\ socket' \in Seq(SocketShape) /\ Len(socket') = Len(socket)
       /\ \A j \in Sockets : socket'[j].server = socket[j].server
  BY <1>2, <1>8, <1>11 DEF Sockets
<1>13. sent' \in Seq(Seq(Nat)) /\ Len(sent') = Len(socket')
  <2>1. sent[k] \in Seq(Nat) /\ report.pkt \in Nat
    BY <1>2 DEF ReportShape, Sockets
  <2> DEFINE whole == Append(sent[k], report.pkt)
  <2>2. whole \in Seq(Nat)
    BY <2>1
  <2>3. sent' = sent \/ sent' = [sent EXCEPT ![k] = whole]
    BY <1>9
  <2> HIDE DEF whole
  <2>4. [sent EXCEPT ![k] = whole] \in Seq(Seq(Nat))
        /\ Len([sent EXCEPT ![k] = whole]) = Len(sent)
    BY <1>2, <2>2, ExceptSeq DEF Sockets
  <2> QED BY <1>2, <1>12, <2>3, <2>4
<1>14. report' \in ReportShape
  <2>1. report.tries + 1 \in Nat /\ on \in Nat
    BY <1>2 DEF ReportShape
  <2> HIDE DEF rest, on, last
  <2>2. more \in ReportShape
    BY <1>2, <1>5, <2>1 DEF ReportShape
  <2> QED BY <1>2, <1>10, <2>2, NextSessionIs
<1>15. Shape'
  BY <1>1, <1>12, <1>13, <1>14 DEF Shape, Sockets
<1> QED BY <1>12, <1>15, DataMoves

\* A receive takes cells from the socket into the buffer.
LEMMA ReceiveKeeps ==
    ASSUME IInv, NEW c \in Clients, Receive(c)
    PROVE  IInv'
<1> DEFINE k == client[c].fd
           cells == socket[k].cells
           n == Least(BufSize, Len(cells))
           data == First(cells, n)
           left == Without(cells, n)
           buf == Write(client[c].circBuf, data)
           torn == client[c].torn \/ ~Fits(client[c].circBuf, data)
           e == [socket[k] EXCEPT !.cells = left]
           x == [[[client[c] EXCEPT !.circBuf = buf] EXCEPT !.torn = torn] EXCEPT
                     !.reading = 0]
<1>1. Shape
  BY DEF IInv
<1>2. /\ k \in Sockets /\ socket[k] \in SocketShape /\ k \in Sockets \cup {0}
      /\ socket \in Seq(SocketShape) /\ client[c] \in ClientShape
  BY <1>1 DEF Receive, Shape, Sockets
<1>3. /\ cells \in Cells /\ Len(cells) \in Nat /\ Len(cells) <= SocketSize
      /\ client[c].circBuf \in Cells
  BY <1>2 DEF SocketShape, Buffered, Cells, ClientShape
<1>4. n \in 0..Len(cells)
  <2> HIDE DEF cells, data, left, buf, torn, e, x
  <2>1. BufSize \in Nat /\ BufSize \in Int /\ Len(cells) \in Int
    BY <1>3, StreamAssumption
  <2>2. n <= Len(cells) /\ n \in {BufSize, Len(cells)}
    BY <2>1, LeastIs
  <2> QED BY <1>3, <2>1, <2>2
<1>5. /\ data \in Cells /\ left \in Cells /\ Len(left) = Len(cells) - n
  <2> HIDE DEF n, cells
  <2> QED BY <1>3, <1>4, PartsAreCells
<1>6. left \in Buffered
  <2> HIDE DEF left, n, cells
  <2> QED BY <1>3, <1>4, <1>5, StreamAssumption DEF Buffered
<1>7. buf \in Cells
  <2> HIDE DEF data
  <2> QED BY <1>3, <1>5, CellsJoin DEF Write
<1>8. torn \in BOOLEAN
  BY <1>2 DEF ClientShape
<1>9. socket' = [socket EXCEPT ![k] = e]
  BY DEF Receive
<1>10. client' = [client EXCEPT ![c] = x]
  BY DEF Receive
<1>11. UNCHANGED <<service, sessions, index, opened, report, pc, sent, count>>
  BY DEF Receive
<1> HIDE DEF n, data, left, buf, torn, cells
<1>12. e \in SocketShape /\ e.server = socket[k].server
  BY <1>2, <1>6 DEF SocketShape
<1>13. /\ x \in ClientShape /\ x.alive = client[c].alive /\ x.fd = client[c].fd
       /\ x.isConnected = client[c].isConnected /\ x.stale = client[c].stale
       /\ x.excused = client[c].excused
  <2> HIDE DEF e
  <2>1. client[c] \in ClientShape /\ buf \in Cells /\ torn \in BOOLEAN /\ 0 \in Int
    BY <1>2, <1>7, <1>8
  <2> QED BY <2>1 DEF ClientShape
<1> HIDE DEF e, x
<1>14. /\ socket' \in Seq(SocketShape) /\ Len(socket') = Len(socket)
       /\ \A j \in Sockets : socket'[j].server = socket[j].server
  BY <1>2, <1>9, <1>12 DEF Sockets
<1>15. /\ client' \in [Clients -> ClientShape]
       /\ \A d \in Clients : client'[d].fd \in Sockets \cup {0}
       /\ client'[c] = x
       /\ \A d \in Clients \ {c} : client'[d] = client[d]
  BY <1>1, <1>2, <1>10, <1>13, OneClientSteps
<1>16. Shape'
  BY <1>1, <1>11, <1>14, <1>15 DEF Shape, Sockets
<1>17. \A d \in Clients : /\ client'[d].alive = client[d].alive
                          /\ client'[d].fd = client[d].fd
                          /\ client'[d].isConnected = client[d].isConnected
                          /\ client'[d].stale = client[d].stale
                          /\ client'[d].excused = client[d].excused
  BY <1>13, <1>15
<1> QED BY <1>11, <1>14, <1>16, <1>17, DataMoves

\* A process that only reads stays what it is for the service.
Reader(x, c) ==
    /\ x \in ClientShape /\ x.alive = client[c].alive /\ x.fd = client[c].fd
    /\ x.isConnected = client[c].isConnected /\ x.stale = client[c].stale
    /\ x.excused = client[c].excused

\* What a callback gets is the number of a packet.
LEMMA ParsedIsNat ==
    ASSUME NEW buf \in Cells, NEW n \in Nat, Len(buf) > 0
    PROVE  Parsed(buf, n) \in Nat
<1>1. Head(buf) \in Nat \X Nat
  BY DEF Cells
<1>2. Head(buf)[1] \in Nat
  BY <1>1
<1> QED BY <1>2 DEF Parsed, Garbage

\* A turn of the reader's loop stops, drops the buffer or takes a packet from it.
LEMMA ReaderTurns ==
    ASSUME IInv, NEW c \in Clients, OnReadPackets(c)
    PROVE  \E x : Reader(x, c) /\ client' = [client EXCEPT ![c] = x]
<1> DEFINE buf == client[c].circBuf
<1>1. client[c] \in ClientShape /\ buf \in Cells /\ client[c].reading \in Int
      /\ Len(buf) \in Nat /\ client[c].heard \in Seq(Nat)
  BY DEF IInv, Shape, ClientShape, Cells
<1>2. CASE StopReading(c)
  <2> DEFINE x == [client[c] EXCEPT !.reading = -1]
  <2>1. Reader(x, c)
    BY <1>1, SMTT(20) DEF Reader, ClientShape
  <2>2. client' = [client EXCEPT ![c] = x]
    BY <1>2 DEF StopReading
  <2> QED BY <2>1, <2>2
<1>3. CASE \E size \in HeadSizes(buf) : Len(buf) >= HeadSize /\ TakePacket(c, size)
  <2>1. PICK size \in HeadSizes(buf) : Len(buf) >= HeadSize /\ TakePacket(c, size)
    BY <1>3
  <2>2. size \in Nat /\ HeadSize \in Nat \ {0} /\ HeadSize + size \in Nat
    BY <2>1, StreamAssumption DEF HeadSizes
  <2>3. CASE client' = [client EXCEPT ![c] = [client[c] EXCEPT !.circBuf = <<>>,
                                                              !.reading = -1]]
    <3> DEFINE none == <<>>
               x == [[client[c] EXCEPT !.circBuf = none] EXCEPT !.reading = -1]
    <3>1. none \in Cells
      BY DEF Cells
    <3>2. client' = [client EXCEPT ![c] = x]
      BY <2>3
    <3> DEFINE y == [client[c] EXCEPT !.circBuf = none]
    <3> HIDE DEF none
    <3>3. Reader(y, c)
      BY <1>1, <3>1 DEF Reader, ClientShape
    <3>4. Reader([y EXCEPT !.reading = -1], c)
      <4> HIDE DEF y
      <4> QED BY <3>3, SMTT(20) DEF Reader, ClientShape
    <3> QED BY <3>2, <3>4
  <2>4. CASE /\ ~BadSize(size) /\ ~Incomplete(buf, size)
             /\ client' = [client EXCEPT ![c] = [client[c] EXCEPT
                     !.circBuf = AfterPacket(buf, size),
                     !.heard = Append(@, Parsed(buf, HeadSize + size)),
                     !.reading = IF Len(buf) = HeadSize + size THEN -1 ELSE @ + 1]]
    <3> DEFINE left == AfterPacket(buf, size)
               heard == Append(client[c].heard, Parsed(buf, HeadSize + size))
               reading == IF Len(buf) = HeadSize + size THEN -1 ELSE client[c].reading + 1
               x == [[[client[c] EXCEPT !.circBuf = left] EXCEPT !.heard = heard] EXCEPT
                         !.reading = reading]
    <3>1. HeadSize + size \in 0..Len(buf)
      BY <1>1, <2>1, <2>2, <2>4 DEF Incomplete
    <3>2. left \in Cells
      <4> HIDE DEF buf
      <4> QED BY <1>1, <3>1, PartsAreCells DEF AfterPacket
    <3>3. heard \in Seq(Nat)
      <4>1. Len(buf) > 0
        BY <1>1, <2>1, <2>2
      <4>2. Parsed(buf, HeadSize + size) \in Nat
        BY <1>1, <2>2, <4>1, ParsedIsNat
      <4> QED BY <1>1, <4>2
    <3>4. reading \in Int
      BY <1>1
    <3>5. client' = [client EXCEPT ![c] = x]
      BY <2>4
    <3> HIDE DEF left, heard, reading
    <3>6. Reader(x, c)
      BY <1>1, <3>2, <3>3, <3>4 DEF Reader, ClientShape
    <3> QED BY <3>5, <3>6
  <2>5. CASE StopReading(c)
    BY <1>2, <2>5
  <2> QED BY <2>1, <2>3, <2>4, <2>5 DEF TakePacket
<1> QED BY <1>2, <1>3 DEF OnReadPackets

\* The reader leaves the connections alone.
LEMMA OnReadPacketsKeeps ==
    ASSUME IInv, NEW c \in Clients, OnReadPackets(c)
    PROVE  IInv'
<1>1. PICK x : Reader(x, c) /\ client' = [client EXCEPT ![c] = x]
  BY ReaderTurns
<1>2. Shape /\ client[c].fd \in Sockets \cup {0}
  BY DEF IInv, Shape
<1>3. /\ x \in ClientShape /\ x.alive = client[c].alive /\ x.fd = client[c].fd
      /\ x.isConnected = client[c].isConnected /\ x.stale = client[c].stale
      /\ x.excused = client[c].excused
  BY <1>1 DEF Reader
<1>4. /\ client' \in [Clients -> ClientShape]
      /\ \A d \in Clients : client'[d].fd \in Sockets \cup {0}
      /\ client'[c] = x
      /\ \A d \in Clients \ {c} : client'[d] = client[d]
  BY <1>1, <1>2, <1>3, OneClientSteps
<1>5. UNCHANGED <<service, sessions, index, opened, report, socket, pc, sent, count>>
      /\ Sockets' = Sockets
  BY DEF OnReadPackets, Sockets
<1>6. Shape'
  BY <1>2, <1>4, <1>5 DEF Shape
<1>7. \A d \in Clients : /\ client'[d].alive = client[d].alive
                         /\ client'[d].fd = client[d].fd
                         /\ client'[d].isConnected = client[d].isConnected
                         /\ client'[d].stale = client[d].stale
                         /\ client'[d].excused = client[d].excused
  BY <1>3, <1>4
<1> QED BY <1>5, <1>6, <1>7, DataMoves

-----------------------------------------------------------------------------
(* The invariant holds, and what follows from it                           *)

\* It holds at the start: no process is connected and the service has nothing.
LEMMA InitIInv ==
    ASSUME Init
    PROVE  IInv
<1>1. /\ sessions = <<>> /\ index = <<>> /\ opened = <<>> /\ socket = <<>> /\ sent = <<>>
      /\ client = [c \in Clients |-> NewClient]
      /\ pc = [c \in Clients |-> [t \in Threads |-> Idle]]
  BY DEF Init, None
<1>2. NewClient \in ClientShape /\ NewClient.fd = 0 /\ NewClient.alive
      /\ ~NewClient.isConnected /\ ~NewClient.stale
  <2>1. <<>> \in Cells /\ <<>> \in Seq(Nat) /\ -1 \in Int
    BY DEF Cells
  <2> QED BY <2>1 DEF ClientShape, NewClient
<1>3. Idle \in ThreadShape /\ Idle.at = "idle"
  BY DEF ThreadShape, Idle
<1>4. service \in ServiceShape /\ service.pids = {}
  <2>1. NewService \in ServiceShape /\ NewService.pids = {}
    BY DEF NewService, ServiceShape
  <2>2. PICK C \in SUBSET Clients :
          service = [NewService EXCEPT !.watched = C, !.channels = C]
    BY DEF Init
  <2> QED BY <2>1, <2>2 DEF ServiceShape
<1>5. report \in ReportShape
  <2>1. <<>> \in Cells
    BY DEF Cells
  <2> QED BY <2>1 DEF Init, NoReport, ReportShape
<1>6. count \in CountShape
  BY DEF Init, CountShape
<1>7. Shape
  <2>1. Partial(sessions, Nat, Clients) /\ Partial(index, Clients, Nat)
        /\ Partial(opened, Nat, Sockets)
    BY <1>1 DEF Partial
  <2>2. IsFiniteSet(DOMAIN sessions) /\ Cardinality(DOMAIN sessions) <= MaxSessions + 1
    BY <1>1, FS_EmptySet, BoundsAssumption
  <2>3. socket \in Seq(SocketShape) /\ sent \in Seq(Seq(Nat)) /\ Len(sent) = Len(socket)
    BY <1>1
  <2> QED BY <1>1, <1>2, <1>3, <1>4, <1>5, <1>6, <2>1, <2>2, <2>3 DEF Shape
<1>8. Registry /\ Reachable
  BY <1>1 DEF Registry, Reachable, Sockets
<1>9. ASSUME NEW c \in Clients PROVE Thread(c) /\ Session(c)
  BY <1>1, <1>2, <1>3, <1>4 DEF Thread, Session, Connecting, Halfway, Threads
<1> QED BY <1>7, <1>8, <1>9 DEF IInv

\* Every step keeps it.
LEMMA NextKeeps ==
    ASSUME IInv, [Next]_vars
    PROVE  IInv'
<1>1. CASE UNCHANGED vars
  BY <1>1 DEF vars, IInv, Shape, Registry, Reachable, Thread, Session, Partial, Sockets,
              Connecting, Halfway
<1>2. ASSUME NEW c \in Clients, Unregister(c) PROVE IInv'
  BY <1>2, UnregisterRefusedKeeps, UnregisterHalfWayKeeps, UnregisterDoneKeeps
     DEF Unregister
<1>3. ASSUME NEW c \in Clients, NEW t \in Threads, CreateSocketChannel(c, t) PROVE IInv'
  BY <1>3, CreateRefusedKeeps, CreateAcceptedKeeps DEF CreateSocketChannel
<1>4. ASSUME NEW c \in Clients, NEW t \in Threads, EnableActiveInfoCB(c, t) PROVE IInv'
  BY <1>4, EnableAcceptedKeeps, EnableRefusedKeeps DEF EnableActiveInfoCB
<1>5. CASE Send
  BY <1>5, SendFailsKeeps, SendAttemptKeeps DEF Send
<1>6. CASE \E c \in Clients :
              \/ Register(c) \/ Unregister(c)
              \/ DestroySensorChannel(c)
              \/ ClientDies(c) \/ ProcessDeath(c) \/ ReenableSensor(c)
              \/ Receive(c) \/ OnReadPackets(c) \/ OnShutdown(c)
  BY <1>2, <1>6, RegisterKeeps, DestroySensorChannelKeeps, ClientDiesKeeps,
     ProcessDeathKeeps, ReenableSensorKeeps, ReceiveKeeps, OnReadPacketsKeeps,
     OnShutdownKeeps
<1>7. CASE \E c \in Clients : \E t \in Threads :
              CreateSocketChannel(c, t) \/ Listen(c, t) \/ EnableActiveInfoCB(c, t)
  BY <1>3, <1>4, <1>7, ListenKeeps
<1> QED BY <1>1, <1>5, <1>6, <1>7, ServiceDiesKeeps, StartReportKeeps DEF Next

\* The invariant of the connections: the maps of the service agree, the threads of a
\* process connect one at a time, and a session is of a process that knows of it.
THEOREM Inductive == Spec => []IInv
<1>1. Init => IInv
  BY InitIInv
<1>2. IInv /\ [Next]_vars => IInv'
  BY NextKeeps
<1> QED BY <1>1, <1>2, PTL DEF Spec

\* The variables are of their types: the maps hold no descriptor that is not a
\* number and no socket that was not made, and the sessions keep to their limit
\* (stream_server.cpp:95).
THEOREM AlwaysTyped == Spec => []TypeOK
<1>1. IInv => TypeOK
  BY DEF IInv, Shape, TypeOK, ServiceShape
<1> QED BY <1>1, Inductive, PTL

\* isConnected_ is true of the connection: the service has a session of the process,
\* on the socket the process listens to, and reports to it, unless calls failed or
\* ran into each other (sensor_service_client.cpp:644, 655, 796).
THEOREM AlwaysConnected == Spec => []Connected
<1>1. ASSUME IInv PROVE Connected
  <2> SUFFICES ASSUME NEW c \in Clients, client[c].isConnected, ~client[c].stale,
                      ~client[c].excused, ~Connecting(c)
               PROVE  /\ c \in service.pids
                      /\ c \in DOMAIN index
                      /\ sessions[index[c]] = c
                      /\ opened[index[c]] = client[c].fd
    BY DEF Connected
  <2>1. c \in service.pids /\ c \in DOMAIN index /\ opened[index[c]] = client[c].fd
    BY <1>1 DEF IInv, Session
  <2> QED BY <1>1, <2>1 DEF IInv, Registry
<1> QED BY <1>1, Inductive, PTL

\* A session can be found by its process, so that it can be closed, and a process
\* whose death was handled has left nothing (stream_server.cpp:145,
\* sensor_service.cpp:979).
THEOREM AlwaysNoLeak == Spec => []NoLeak
<1>1. ASSUME IInv PROVE NoLeak
  <2>1. \A fd \in DOMAIN sessions :
          LET c == sessions[fd] IN
          ~client[c].excused => c \in DOMAIN index /\ index[c] = fd
    BY <1>1 DEF IInv, Reachable
  <2>2. \A c \in Clients :
          /\ ~client[c].alive /\ ~client[c].excused
          /\ c \notin service.watched
          => c \notin service.pids \cup DOMAIN index
    BY <1>1 DEF IInv, Session
  <2> QED BY <2>1, <2>2 DEF NoLeak
<1> QED BY <1>1, Inductive, PTL

-----------------------------------------------------------------------------
(* What is on its way                                                      *)

\* Cells carry packets, and behind the whole ones the first r cells of packet p.
Carries(cells, q, p, r) ==
    /\ Len(cells) = Len(q) * PacketSize + r
    /\ \A i \in 1..Len(q), j \in 1..PacketSize :
          cells[(i - 1) * PacketSize + j] = <<q[i], j>>
    /\ \A j \in 1..r : cells[Len(q) * PacketSize + j] = <<p, j>>

\* How much of the packet being sent is in socket k already.
Part(k) == IF report.on = k THEN PacketSize - Len(report.rest) ELSE 0

\* The cells carry the packets q, and a part of one only if it is the one being
\* sent or the service can send nothing more on the socket.
Delivers(k, cells, q) ==
    \E r \in 0..(PacketSize - 1), p \in Nat :
        /\ Carries(cells, q, p, r)
        /\ socket[k].server => r = Part(k) /\ (r > 0 => p = report.pkt)

\* What a process buffers and what the kernel holds for it continue what its
\* callbacks have had.
Hears(c) ==
    client[c].fd # 0 /\ ~client[c].torn /\ ~socket[client[c].fd].torn =>
        \E q \in Seq(Nat) :
            /\ sent[client[c].fd] = client[c].heard \o q
            /\ Delivers(client[c].fd, client[c].circBuf \o socket[client[c].fd].cells, q)

\* So do the cells of a socket that a thread is about to listen to.
Waits(c, t) ==
    pc[c][t].at = "created" /\ ~socket[pc[c][t].fd].torn =>
        Delivers(pc[c][t].fd, socket[pc[c][t].fd].cells, sent[pc[c][t].fd])

\* Sockets belong to one process each, and the one it listens to, or is about
\* to, it has not closed.
Mine(c) == ({client[c].fd} \cup {pc[c][t].fd : t \in Threads}) \ {0}

Owned(c) ==
    /\ Mine(c) \subseteq Sockets
    /\ client[c].fd # 0 => socket[client[c].fd].client
    /\ \A t \in Threads :
          /\ pc[c][t].at \in {"idle", "create"} <=> pc[c][t].fd = 0
          /\ pc[c][t].at = "created" =>
                /\ socket[pc[c][t].fd].client
                /\ pc[c][t].fd # client[c].fd
                /\ \A u \in Threads \ {t} : pc[c][u].fd # pc[c][t].fd

Owners ==
    /\ \A c \in Clients : Owned(c)
    /\ \A c, d \in Clients : c # d => Mine(c) \cap Mine(d) = {}

\* A report under way has the end of its packet left, all of it until a part
\* went into a socket; while that is open at this end, it is the current session's.
Reporting ==
    /\ report.on \in Sockets \cup {0}
    /\ report = NoReport \/
         /\ Len(report.rest) \in 1..PacketSize
         /\ \A i \in 1..Len(report.rest) :
               report.rest[i] = <<report.pkt, PacketSize - Len(report.rest) + i>>
         /\ report.on = 0 <=> Len(report.rest) = PacketSize
    /\ report = NoReport => report.on = 0
    /\ report.on # 0 /\ socket[report.on].server =>
          Current \in DOMAIN opened /\ opened[Current] = report.on

Streams ==
    /\ Owners
    /\ Reporting
    /\ \A c \in Clients : Hears(c) /\ \A t \in Threads : Waits(c, t)

\* The size of a packet, and numbers of cells.
LEMMA Sizes ==
    /\ PacketSize \in Nat \ {0} /\ HeadSize \in Nat \ {0} /\ BodySize \in Nat \ {0}
    /\ BufSize \in Nat /\ PacketSize <= BufSize /\ PacketSize = HeadSize + BodySize
BY StreamAssumption DEF PacketSize

\* The cells of n whole packets are the multiples of the size of a packet.
LEMMA Multiples ==
    ASSUME NEW P \in Nat \ {0}, NEW n \in Nat
    PROVE  /\ n * P \in Nat
           /\ (n + 1) * P = n * P + P
           /\ n = 0 <=> n * P = 0
           /\ \A i \in 1..n, j \in 1..P :
                 (i - 1) * P + j \in 1..(n * P) /\ (i - 1) * P \in Nat
<1>1. n * P \in Nat /\ (n + 1) * P = n * P + P
  OBVIOUS
<1>2. n = 0 <=> n * P = 0
  OBVIOUS
<1>3. ASSUME NEW i \in 1..n, NEW j \in 1..P
      PROVE  (i - 1) * P + j \in 1..(n * P) /\ (i - 1) * P \in Nat
  <2> DEFINE a == i - 1
             d == n - i
  <2>1. a \in Nat /\ d \in Nat /\ n = a + d + 1
    OBVIOUS
  <2>2. a * P \in Nat /\ d * P \in Nat
    <3> HIDE DEF a, d
    <3> QED BY <2>1
  <2>3. n * P = a * P + d * P + P
    <3> HIDE DEF a, d
    <3> QED BY <2>1
  <2> HIDE DEF d
  <2> QED BY <2>2, <2>3
<1> QED BY <1>1, <1>2, <1>3

\* Whole packets take so many cells, and each of theirs is one of those.
LEMMA PlacesOf ==
    ASSUME NEW q \in Seq(Nat)
    PROVE  /\ Len(q) * PacketSize \in Nat /\ Len(q) \in Nat
           /\ \A i \in 1..Len(q), j \in 1..PacketSize :
                 (i - 1) * PacketSize + j \in 1..(Len(q) * PacketSize)
<1> DEFINE P == PacketSize
           n == Len(q)
<1>1. P \in Nat \ {0} /\ n \in Nat
  BY Sizes
<1> HIDE DEF P, n
<1>2. n * P \in Nat /\ \A i \in 1..n, j \in 1..P : (i - 1) * P + j \in 1..(n * P)
  BY <1>1, Multiples
<1> QED BY <1>1, <1>2 DEF P, n

\* With nothing sent, nothing is on its way.
LEMMA CarryNothing ==
    ASSUME NEW p \in Nat
    PROVE  Carries(<<>>, <<>>, p, 0)
<1>1. Len(<<>>) * PacketSize = 0
  BY Sizes
<1> QED BY <1>1 DEF Carries

\* Where no part of a packet is, it is a part of any.
LEMMA AnyPart ==
    ASSUME NEW cells, NEW q, NEW p, NEW x, Carries(cells, q, p, 0)
    PROVE  Carries(cells, q, x, 0)
BY DEF Carries

\* More cells of the packet that has begun.
LEMMA CarryPart ==
    ASSUME NEW cells \in Cells, NEW q \in Seq(Nat), NEW p \in Nat, NEW r \in Nat,
           Carries(cells, q, p, r),
           NEW more \in Cells, \A j \in 1..Len(more) : more[j] = <<p, r + j>>
    PROVE  Carries(cells \o more, q, p, r + Len(more))
<1> DEFINE n == Len(q) * PacketSize
           all == cells \o more
<1>1. /\ n \in Nat /\ Len(q) \in Nat
      /\ \A i \in 1..Len(q), j \in 1..PacketSize : (i - 1) * PacketSize + j \in 1..n
  BY PlacesOf
<1>2. /\ Len(cells) = n + r /\ Len(more) \in Nat
      /\ \A i \in 1..Len(q), j \in 1..PacketSize :
            cells[(i - 1) * PacketSize + j] = <<q[i], j>>
      /\ \A j \in 1..r : cells[n + j] = <<p, j>>
  <2>1. Len(more) \in Nat
    BY DEF Cells
  <2> QED BY <2>1 DEF Carries
<1>3. /\ Len(all) = n + r + Len(more)
      /\ \A j \in 1..(n + r) : all[j] = cells[j]
      /\ \A j \in 1..Len(more) : all[n + r + j] = more[j]
  <2>1. /\ Len(all) = Len(cells) + Len(more)
        /\ \A j \in 1..(Len(cells) + Len(more)) :
              all[j] = IF j <= Len(cells) THEN cells[j] ELSE more[j - Len(cells)]
    BY ConcatProperties DEF Cells
  <2> HIDE DEF n, all
  <2>2. ASSUME NEW j \in 1..(n + r) PROVE all[j] = cells[j]
    BY <1>1, <1>2, <2>1
  <2>3. ASSUME NEW j \in 1..Len(more) PROVE all[n + r + j] = more[j]
    <3>1. n + r + j \in 1..(Len(cells) + Len(more)) /\ ~(n + r + j <= Len(cells))
          /\ (n + r + j) - Len(cells) = j
      BY <1>1, <1>2
    <3> QED BY <2>1, <3>1
  <2> QED BY <1>1, <1>2, <2>1, <2>2, <2>3
<1> HIDE DEF all
<1>4. \A i \in 1..Len(q), j \in 1..PacketSize : all[(i - 1) * PacketSize + j] = <<q[i], j>>
  <2> SUFFICES ASSUME NEW i \in 1..Len(q), NEW j \in 1..PacketSize
               PROVE  all[(i - 1) * PacketSize + j] = <<q[i], j>>
    OBVIOUS
  <2> DEFINE m == (i - 1) * PacketSize + j
  <2>1. m \in 1..n /\ cells[m] = <<q[i], j>>
    BY <1>1, <1>2
  <2> HIDE DEF m, n
  <2>2. m \in 1..(n + r)
    BY <1>1, <2>1
  <2>3. all[m] = <<q[i], j>>
    BY <1>3, <2>1, <2>2
  <2> QED BY <2>3 DEF m
<1>5. ASSUME NEW j \in 1..(r + Len(more)) PROVE all[n + j] = <<p, j>>
  <2> HIDE DEF n
  <2>1. CASE j <= r
    <3>1. j \in 1..r /\ n + j \in 1..(n + r)
      BY <1>1, <1>2, <2>1
    <3> QED BY <3>1, <1>2, <1>3
  <2>2. CASE j > r
    <3>1. j - r \in 1..Len(more) /\ n + r + (j - r) = n + j /\ r + (j - r) = j
      BY <1>1, <1>2, <2>2
    <3>2. all[n + r + (j - r)] = more[j - r] /\ more[j - r] = <<p, r + (j - r)>>
      BY <1>3, <3>1
    <3> QED BY <3>1, <3>2
  <2> QED BY <1>2, <2>1, <2>2
<1>6. Len(all) = n + (r + Len(more))
  <2> HIDE DEF n
  <2> QED BY <1>1, <1>2, <1>3
<1> QED BY <1>4, <1>5, <1>6 DEF Carries, all

\* A part that is a whole packet.
LEMMA CarryWhole ==
    ASSUME NEW cells \in Cells, NEW q \in Seq(Nat), NEW p \in Nat,
           Carries(cells, q, p, PacketSize)
    PROVE  Carries(cells, Append(q, p), p, 0)
<1> DEFINE n == Len(q) * PacketSize
           w == Append(q, p)
<1>1. Len(q) \in Nat /\ (Len(q) + 1) * PacketSize = n + PacketSize /\ n \in Nat
  BY Sizes, Multiples
<1>2. Len(w) = Len(q) + 1 /\ w[Len(q) + 1] = p /\ \A i \in 1..Len(q) : w[i] = q[i]
  OBVIOUS
<1>3. Len(cells) = Len(w) * PacketSize + 0
  <2>1. Len(cells) = n + PacketSize /\ Len(cells) \in Nat
    BY DEF Carries, Cells
  <2> QED BY <2>1, <1>1, <1>2
<1>4. ASSUME NEW i \in 1..Len(w), NEW j \in 1..PacketSize
      PROVE  cells[(i - 1) * PacketSize + j] = <<w[i], j>>
  <2>1. CASE i \in 1..Len(q)
    BY <2>1, <1>2 DEF Carries
  <2>2. CASE i = Len(q) + 1
    <3>1. i - 1 = Len(q)
      BY <2>2, <1>1
    <3> QED BY <3>1, <2>2, <1>2 DEF Carries
  <2> QED BY <1>1, <1>2, <2>1, <2>2
<1> HIDE DEF w
<1>5. Carries(cells, w, p, 0)
  BY <1>3, <1>4 DEF Carries
<1> QED BY <1>5 DEF w

\* The first cells are the header of a packet, and it is the one of the first
\* packet, or of the one that has begun.
LEMMA BeginsWith ==
    ASSUME NEW cells \in Cells, NEW q \in Seq(Nat), NEW p \in Nat,
           NEW r \in 0..(PacketSize - 1), Carries(cells, q, p, r)
    PROVE  \E x \in Nat :
              /\ q # <<>> => x = Head(q)
              /\ \A j \in 1..PacketSize : j <= Len(cells) => cells[j] = <<x, j>>
<1>1. PacketSize \in Nat \ {0}
  BY Sizes
<1>2. CASE q = <<>>
  <2>1. Len(q) * PacketSize = 0
    BY <1>1, <1>2
  <2>2. Len(cells) = r /\ \A j \in 1..r : cells[j] = <<p, j>>
    <3>1. Len(cells) = 0 + r /\ \A j \in 1..r : cells[0 + j] = <<p, j>>
      BY <2>1 DEF Carries
    <3> QED BY <1>1, <3>1
  <2>3. \A j \in 1..PacketSize : j <= Len(cells) => cells[j] = <<p, j>>
    BY <1>1, <2>2
  <2> QED BY <1>2, <2>3
<1>3. CASE q # <<>>
  <2>1. Len(q) \in Nat \ {0} /\ Head(q) \in Nat /\ Head(q) = q[1]
    BY <1>3
  <2>2. 1 \in 1..Len(q) /\ (1 - 1) * PacketSize = 0
    BY <1>1, <2>1
  <2>3. ASSUME NEW j \in 1..PacketSize PROVE cells[j] = <<q[1], j>>
    <3>1. cells[(1 - 1) * PacketSize + j] = <<q[1], j>>
      BY <2>2 DEF Carries
    <3>2. (1 - 1) * PacketSize + j = j
      BY <1>1
    <3> QED BY <3>1, <3>2
  <2> QED BY <2>1, <2>3
<1> QED BY <1>2, <1>3

\* When a whole packet's cells are there, there is a packet to take, and the
\* cells behind it carry the others.
LEMMA TakeOne ==
    ASSUME NEW cells \in Cells, NEW q \in Seq(Nat), NEW p \in Nat,
           NEW r \in 0..(PacketSize - 1), Carries(cells, q, p, r),
           Len(cells) >= PacketSize,
           NEW left \in Cells, Len(left) = Len(cells) - PacketSize,
           \A i \in 1..Len(left) : left[i] = cells[PacketSize + i]
    PROVE  q # <<>> /\ Carries(left, Tail(q), p, r)
<1> DEFINE P == PacketSize
           n == Len(q)
           w == Tail(q)
<1>1. P \in Nat \ {0} /\ n \in Nat /\ Len(cells) \in Nat /\ Len(cells) = n * P + r
      /\ r \in 0..(P - 1)
  BY Sizes DEF Cells, Carries
<1>2. q # <<>>
  <2>1. n # 0
    <3> HIDE DEF P, n
    <3>1. n = 0 => n * P = 0
      BY <1>1, Multiples
    <3>2. Len(cells) >= P
      BY DEF P
    <3> QED BY <1>1, <3>1, <3>2
  <2> QED BY <2>1
<1>3. Len(w) = n - 1 /\ n - 1 \in Nat /\ \A i \in 1..(n - 1) : w[i] = q[i + 1]
  BY <1>2
<1> DEFINE m == n - 1
<1>4. m \in Nat /\ n = m + 1 /\ n * P = m * P + P /\ m * P \in Nat
  <2>1. m \in Nat /\ n = m + 1
    BY <1>3
  <2> HIDE DEF m, P, n
  <2> QED BY <1>1, <2>1, Multiples
<1>5. Len(left) = m * P + r
  <2>1. Len(left) = Len(cells) - P
    BY DEF P
  <2> HIDE DEF m, n, P
  <2> QED BY <1>1, <1>4, <2>1
<1>6. ASSUME NEW i \in 1..m, NEW j \in 1..P
      PROVE  left[(i - 1) * P + j] = <<w[i], j>>
  <2>1. (i - 1) * P + j \in 1..(m * P) /\ (i - 1) * P \in Nat
    <3> HIDE DEF m, P
    <3> QED BY <1>1, <1>4, Multiples
  <2>2. (i - 1) * P + j \in 1..Len(left)
    <3> DEFINE a == (i - 1) * P
    <3>1. a \in Nat /\ a + j \in 1..(m * P)
      BY <2>1
    <3> HIDE DEF m, P, a
    <3>2. a + j \in 1..Len(left)
      BY <1>1, <1>4, <1>5, <3>1
    <3> QED BY <3>2 DEF a
  <2>3. left[(i - 1) * P + j] = cells[P + ((i - 1) * P + j)]
    BY <2>2
  <2>4. P + ((i - 1) * P + j) = ((i + 1) - 1) * P + j
    <3> DEFINE a == i - 1
    <3>1. a \in Nat /\ a + 1 = (i + 1) - 1
      BY <1>4
    <3> HIDE DEF P, a
    <3>2. (a + 1) * P = a * P + P /\ a * P \in Nat
      BY <1>1, <3>1, Multiples
    <3>3. P + (a * P + j) = (a + 1) * P + j
      BY <1>1, <3>2
    <3> QED BY <3>1, <3>3 DEF a
  <2>5. i + 1 \in 1..n
    BY <1>4
  <2>6. cells[((i + 1) - 1) * P + j] = <<q[i + 1], j>>
    BY <2>5 DEF Carries
  <2> QED BY <1>3, <2>3, <2>4, <2>6
<1>7. ASSUME NEW j \in 1..r PROVE left[m * P + j] = <<p, j>>
  <2> DEFINE a == m * P
             b == n * P
  <2>1. a \in Nat /\ b = a + P /\ Len(left) = a + r
    BY <1>4, <1>5
  <2>2. cells[b + j] = <<p, j>>
    BY DEF Carries
  <2>3. \A i \in 1..Len(left) : left[i] = cells[P + i]
    OBVIOUS
  <2> HIDE DEF a, b, P, m
  <2>4. a + j \in 1..Len(left) /\ P + (a + j) = b + j
    BY <1>1, <2>1
  <2>5. left[a + j] = <<p, j>>
    BY <2>2, <2>3, <2>4
  <2> QED BY <2>5 DEF a
<1>8. Len(w) = m
  BY <1>3
<1> HIDE DEF w, m
<1>9. Carries(left, w, p, r)
  BY <1>5, <1>6, <1>7, <1>8 DEF Carries
<1> QED BY <1>2, <1>9 DEF w

-----------------------------------------------------------------------------
(* Steps that send and read nothing                                        *)

\* What is on its way on a socket stays on its way when the sender stays with it, or
\* has lost it.
LEMMA DeliversStays ==
    ASSUME NEW k \in Nat, NEW cells, NEW q, Delivers(k, cells, q),
           socket'[k].server => /\ socket[k].server
                                /\ report' = report \/ (report.on # k /\ report'.on # k)
    PROVE  Delivers(k, cells, q)'
<1>1. PICK r \in 0..(PacketSize - 1), p \in Nat :
        /\ Carries(cells, q, p, r)
        /\ socket[k].server => r = Part(k) /\ (r > 0 => p = report.pkt)
  BY DEF Delivers
<1>2. Carries(cells, q, p, r)'
  BY <1>1 DEF Carries
<1>3. ASSUME socket'[k].server PROVE r = Part(k)' /\ (r > 0 => p = report'.pkt)
  <2>1. CASE report' = report
    BY <1>1, <1>3, <2>1 DEF Part
  <2>2. CASE report.on # k /\ report'.on # k
    <3>1. Part(k) = 0 /\ Part(k)' = 0
      BY <2>2 DEF Part
    <3>2. r = 0
      BY <1>1, <1>3, <3>1
    <3> QED BY <3>1, <3>2
  <2> QED BY <1>3, <2>1, <2>2
<1> QED BY <1>2, <1>3 DEF Delivers

\* Nobody sends or reads on socket k, and the sender stays with it, or has lost it.
Calm(k) ==
    /\ socket'[k].cells = socket[k].cells /\ socket'[k].client = socket[k].client
    /\ socket'[k].torn = socket[k].torn /\ sent'[k] = sent[k]
    /\ socket'[k].server => /\ socket[k].server
                            /\ report' = report \/ (report.on # k /\ report'.on # k)

\* A thread goes on only to where it holds no socket.
StaysOrRests(c, t) ==
    pc'[c][t] = pc[c][t] \/ (pc'[c][t].at \in {"idle", "create"} /\ pc'[c][t].fd = 0)

\* A process keeps what it listens to, or is about to, or closes it.
Keeps(c) ==
    /\ client'[c].fd # 0 => /\ client'[c].fd = client[c].fd
                            /\ client'[c].circBuf = client[c].circBuf
                            /\ client'[c].heard = client[c].heard
                            /\ client'[c].torn = client[c].torn
                            /\ Calm(client[c].fd)
    /\ \A t \in Threads : /\ pc'[c][t].at = "created" => Calm(pc[c][t].fd)
                          /\ StaysOrRests(c, t)

\* Zero is no socket.
LEMMA MineIs ==
    ASSUME IInv, Streams, NEW c \in Clients
    PROVE  /\ Len(socket) \in Nat /\ Sockets \subseteq Nat /\ ~(0 \in Sockets)
           /\ Owned(c) /\ Mine(c) \subseteq Sockets
           /\ client[c].fd # 0 => client[c].fd \in Sockets /\ client[c].fd \in Mine(c)
           /\ \A t \in Threads : pc[c][t].at \in {"created", "listening"} =>
                 pc[c][t].fd \in Sockets /\ pc[c][t].fd \in Mine(c)
<1>1. Owned(c) /\ Len(socket) \in Nat /\ pc[c] \in [Threads -> ThreadShape]
  BY DEF Streams, Owners, IInv, Shape
<1>2. ~(0 \in Sockets) /\ Sockets \subseteq Nat
  BY <1>1 DEF Sockets
<1>3. \A t \in Threads : pc[c][t].fd # 0 => pc[c][t].fd \in Mine(c)
  BY DEF Mine
<1> QED BY <1>1, <1>2, <1>3 DEF Mine, Owned

\* What a process has heard continues with what is on its way.
LEMMA HearsStays ==
    ASSUME IInv, Streams, NEW c \in Clients, Len(socket') >= Len(socket),
           client'[c].fd # 0 => /\ client'[c].fd = client[c].fd
                                /\ client'[c].circBuf = client[c].circBuf
                                /\ client'[c].heard = client[c].heard
                                /\ client'[c].torn = client[c].torn
                                /\ Calm(client[c].fd)
    PROVE  Hears(c)'
<1> SUFFICES ASSUME client'[c].fd # 0, ~client'[c].torn, ~socket'[client'[c].fd].torn
             PROVE  Hears(c)'
  BY DEF Hears
<1>1. PICK k \in Sockets : k = client[c].fd
  BY MineIs
<1>2. /\ client'[c].fd = k /\ client'[c].circBuf = client[c].circBuf
      /\ client'[c].heard = client[c].heard /\ ~client[c].torn
      /\ Calm(k) /\ ~socket[k].torn /\ k # 0 /\ k \in Nat
  BY <1>1, MineIs DEF Calm
<1>3. PICK q \in Seq(Nat) : /\ sent[k] = client[c].heard \o q
                            /\ Delivers(k, client[c].circBuf \o socket[k].cells, q)
  BY <1>1, <1>2 DEF Hears, Streams
<1>4. PICK all : all = client[c].circBuf \o socket[k].cells
  OBVIOUS
<1>5. Delivers(k, all, q)'
  BY <1>2, <1>3, <1>4, DeliversStays DEF Calm
<1>6. /\ client'[c].circBuf \o socket'[k].cells = all
      /\ sent'[k] = client'[c].heard \o q
  BY <1>2, <1>3, <1>4 DEF Calm
<1> QED BY <1>2, <1>5, <1>6 DEF Hears

\* And what it is about to listen to has not been heard.
LEMMA WaitsStays ==
    ASSUME IInv, Streams, NEW c \in Clients, NEW t \in Threads,
           pc'[c][t].at = "created" => pc'[c][t] = pc[c][t] /\ Calm(pc[c][t].fd)
    PROVE  Waits(c, t)'
<1> SUFFICES ASSUME pc'[c][t].at = "created", ~socket'[pc'[c][t].fd].torn
             PROVE  Waits(c, t)'
  BY DEF Waits
<1>1. PICK k \in Sockets : k = pc[c][t].fd
  BY MineIs
<1>2. pc'[c][t] = pc[c][t] /\ pc'[c][t].fd = k /\ Calm(k) /\ ~socket[k].torn /\ k \in Nat
  BY <1>1, MineIs DEF Calm
<1>3. PICK all : all = socket[k].cells
  OBVIOUS
<1>4. PICK q : q = sent[k]
  OBVIOUS
<1>5. Delivers(k, all, q)
  BY <1>1, <1>2, <1>3, <1>4 DEF Waits, Streams
<1>6. Delivers(k, all, q)'
  BY <1>2, <1>5, DeliversStays DEF Calm
<1>7. socket'[k].cells = all /\ sent'[k] = q
  BY <1>2, <1>3, <1>4 DEF Calm
<1> QED BY <1>2, <1>6, <1>7 DEF Waits

\* The sockets of a process are still its own.
LEMMA OwnedStays ==
    ASSUME IInv, Streams, NEW c \in Clients, Len(socket') >= Len(socket), Len(socket') \in Nat,
           Keeps(c)
    PROVE  Owned(c)' /\ Mine(c)' \subseteq Mine(c)
<1>1. Owned(c) /\ Len(socket) \in Nat
  BY DEF Streams, Owners, IInv, Shape
<1>2. Sockets \subseteq Sockets'
  BY <1>1 DEF Sockets
<1>3. Mine(c)' \subseteq Mine(c)
  BY DEF Mine, Keeps, StaysOrRests
<1>4. client'[c].fd # 0 => socket'[client'[c].fd].client
  BY <1>1 DEF Keeps, Owned, Calm
<1>5. ASSUME NEW t \in Threads
      PROVE  /\ pc'[c][t].at \in {"idle", "create"} <=> pc'[c][t].fd = 0
             /\ pc'[c][t].at = "created" =>
                   /\ socket'[pc'[c][t].fd].client
                   /\ pc'[c][t].fd # client'[c].fd
                   /\ \A u \in Threads \ {t} : pc'[c][u].fd # pc'[c][t].fd
  <2>1. StaysOrRests(c, t)
    BY DEF Keeps
  <2>2. pc'[c][t].at \in {"idle", "create"} <=> pc'[c][t].fd = 0
    BY <1>1, <2>1 DEF Owned, StaysOrRests
  <2>3. ASSUME pc'[c][t].at = "created"
        PROVE  /\ socket'[pc'[c][t].fd].client
               /\ pc'[c][t].fd # client'[c].fd
               /\ \A u \in Threads \ {t} : pc'[c][u].fd # pc'[c][t].fd
    <3>1. pc'[c][t] = pc[c][t] /\ pc[c][t].fd # 0 /\ Calm(pc[c][t].fd)
      BY <2>1, <2>2, <2>3 DEF Keeps, StaysOrRests
    <3>2. /\ socket[pc[c][t].fd].client
          /\ pc[c][t].fd # client[c].fd
          /\ \A u \in Threads \ {t} : pc[c][u].fd # pc[c][t].fd
      BY <1>1, <2>3, <3>1 DEF Owned
    <3>3. /\ client'[c].fd \in {0, client[c].fd}
          /\ \A u \in Threads : pc'[c][u].fd \in {0, pc[c][u].fd}
      BY DEF Keeps, StaysOrRests
    <3> QED BY <3>1, <3>2, <3>3 DEF Calm
  <2> QED BY <2>2, <2>3
<1>6. Mine(c)' \subseteq Sockets'
  BY <1>1, <1>2, <1>3 DEF Owned
<1> QED BY <1>3, <1>4, <1>5, <1>6 DEF Owned

\* A report under way goes on with the same session.
LEMMA ReportingStays ==
    ASSUME IInv, Streams, Len(socket') >= Len(socket), Len(socket') \in Nat, report' = report,
           \A k \in Sockets : socket'[k].server => socket[k].server,
           \A fd \in DOMAIN opened : socket'[opened[fd]].server =>
              fd \in DOMAIN opened' /\ opened'[fd] = opened[fd]
    PROVE  Reporting'
<1>1. Reporting /\ Len(socket) \in Nat
  BY DEF Streams, IInv, Shape
<1>2. Sockets \subseteq Sockets' /\ Current' = Current
  BY <1>1 DEF Sockets, Current
<1>3. ASSUME report.on # 0, socket'[report.on].server
      PROVE  Current \in DOMAIN opened' /\ opened'[Current] = report.on
  <2>1. report.on \in Sockets
    BY <1>1, <1>3 DEF Reporting
  <2>2. Current \in DOMAIN opened /\ opened[Current] = report.on
    BY <1>1, <1>3, <2>1 DEF Reporting
  <2> QED BY <1>3, <2>2
<1> QED BY <1>1, <1>2, <1>3 DEF Reporting

\* A step in which every process keeps or closes what it has keeps the streams.
LEMMA AllKeep ==
    ASSUME IInv, Streams, Len(socket') >= Len(socket), Len(socket') \in Nat, Reporting',
           \A c \in Clients : Keeps(c)
    PROVE  Streams'
<1>1. \A c \in Clients : Owned(c)' /\ Mine(c)' \subseteq Mine(c)
  BY OwnedStays
<1>2. Owners'
  BY <1>1 DEF Streams, Owners
<1>3. ASSUME NEW c \in Clients PROVE Hears(c)' /\ \A t \in Threads : Waits(c, t)'
  <2>1. Hears(c)'
    BY HearsStays DEF Keeps
  <2>2. ASSUME NEW t \in Threads PROVE Waits(c, t)'
    <3>1. Owned(c)
      BY DEF Streams, Owners
    <3>2. pc'[c][t].at = "created" => pc'[c][t] = pc[c][t] /\ Calm(pc[c][t].fd)
      BY DEF Keeps, StaysOrRests
    <3> QED BY <3>2, WaitsStays
  <2> QED BY <2>1, <2>2
<1> QED BY <1>2, <1>3 DEF Streams

\* The processes a step is not about keep what they have.
LEMMA OthersKeep ==
    ASSUME IInv, Streams, NEW c \in Clients, NEW d \in Clients \ {c},
           client'[d] = client[d], pc'[d] = pc[d],
           \A k \in Sockets \ Mine(c) : Calm(k)
    PROVE  Keeps(d)
<1>1. \A k \in Mine(d) : Calm(k)
  BY DEF Streams, Owners, Owned
<1> QED BY <1>1, MineIs DEF Keeps, StaysOrRests

\* A step of one process keeps the streams if it keeps its own.
LEMMA OneStreams ==
    ASSUME IInv, Streams, Len(socket') >= Len(socket), Len(socket') \in Nat, Reporting',
           NEW c \in Clients,
           \A d \in Clients \ {c} : client'[d] = client[d] /\ pc'[d] = pc[d],
           \A k \in Sockets \ Mine(c) : Calm(k),
           Owned(c)', Mine(c)' \cap Sockets \subseteq Mine(c),
           Hears(c)', \A t \in Threads : Waits(c, t)'
    PROVE  Streams'
<1>1. ASSUME NEW d \in Clients \ {c}
      PROVE  /\ Owned(d)' /\ Mine(d)' \subseteq Mine(d)
             /\ Hears(d)' /\ \A t \in Threads : Waits(d, t)'
  <2>1. Keeps(d)
    BY OthersKeep
  <2>2. Owned(d)' /\ Mine(d)' \subseteq Mine(d)
    BY <2>1, OwnedStays
  <2>3. Hears(d)'
    BY <2>1, HearsStays DEF Keeps
  <2>4. ASSUME NEW t \in Threads PROVE Waits(d, t)'
    <3>1. pc'[d][t].at = "created" => pc'[d][t] = pc[d][t] /\ Calm(pc[d][t].fd)
      BY <2>1 DEF Keeps
    <3> QED BY <3>1, WaitsStays
  <2> QED BY <2>2, <2>3, <2>4
<1>2. ASSUME NEW d \in Clients \ {c} PROVE Mine(d) \subseteq Sockets
  BY MineIs
<1>3. \A d, e \in Clients : d # e => Mine(d) \cap Mine(e) = {}
  BY DEF Streams, Owners
<1>4. \A d, e \in Clients : d # e => Mine(d)' \cap Mine(e)' = {}
  <2> SUFFICES ASSUME NEW d \in Clients, NEW e \in Clients, d # e,
                      NEW k, k \in Mine(d)', k \in Mine(e)'
               PROVE  FALSE
    OBVIOUS
  <2>1. CASE d # c /\ e # c
    BY <1>1, <1>3, <2>1
  <2>2. CASE d = c
    BY <1>1, <1>2, <1>3, <2>2
  <2>3. CASE e = c
    BY <1>1, <1>2, <1>3, <2>3
  <2> QED BY <2>1, <2>2, <2>3
<1>5. Owners'
  BY <1>1, <1>4 DEF Owners
<1> QED BY <1>1, <1>5 DEF Streams

\* In particular if it keeps or closes what it has.
LEMMA OneKeeps ==
    ASSUME IInv, Streams, Len(socket') >= Len(socket), Len(socket') \in Nat, Reporting',
           NEW c \in Clients,
           \A d \in Clients \ {c} : client'[d] = client[d] /\ pc'[d] = pc[d],
           \A k \in Sockets \ Mine(c) : Calm(k),
           Keeps(c)
    PROVE  Streams'
<1>1. \A d \in Clients \ {c} : Keeps(d)
  BY OthersKeep
<1> QED BY <1>1, AllKeep

-----------------------------------------------------------------------------
(* The application, and deaths                                             *)

\* A step of a process that closes no more than its own end of its socket.
LEMMA ClosesOwn ==
    ASSUME IInv, Streams, NEW c \in Clients, NEW x \in ClientShape,
           client' = [client EXCEPT ![c] = x],
           x.fd = 0,
           socket' = CloseClient(socket, client[c].fd),
           \A d \in Clients \ {c} : pc'[d] = pc[d],
           \A t \in Threads : StaysOrRests(c, t) /\ pc'[c][t].at # "created",
           UNCHANGED <<opened, report, sent>>
    PROVE  Streams'
<1>1. Shape /\ client[c].fd \in 1..Len(socket) \cup {0} /\ Len(socket) \in Nat
      /\ socket \in Seq(SocketShape) /\ client \in [Clients -> ClientShape]
  BY DEF IInv, Shape, Sockets
<1>2. /\ Len(socket') = Len(socket)
      /\ \A j \in Sockets :
            /\ socket'[j].server = socket[j].server
            /\ socket'[j].torn = socket[j].torn
            /\ j # client[c].fd => socket'[j] = socket[j]
  BY <1>1, CloseClientIs DEF Sockets
<1>3. client'[c] = x /\ \A d \in Clients \ {c} : client'[d] = client[d]
  BY <1>1
<1>4. Reporting'
  BY <1>1, <1>2, ReportingStays DEF Shape, Partial
<1>5. Keeps(c)
  BY <1>3 DEF Keeps
<1>6. \A k \in Sockets \ Mine(c) : Calm(k)
  <2>1. \A k \in Sockets \ Mine(c) : k # client[c].fd
    BY MineIs
  <2> QED BY <1>2, <2>1 DEF Calm
<1> QED BY <1>1, <1>2, <1>3, <1>4, <1>5, <1>6, OneKeeps

\* A step that closes nothing and leaves what a process listens to.
LEMMA ClosesNothing ==
    ASSUME IInv, Streams, NEW c \in Clients, NEW x \in ClientShape,
           client' = [client EXCEPT ![c] = x],
           x.fd = client[c].fd, x.circBuf = client[c].circBuf,
           x.heard = client[c].heard, x.torn = client[c].torn,
           \A d \in Clients \ {c} : pc'[d] = pc[d],
           \A t \in Threads : StaysOrRests(c, t),
           UNCHANGED <<opened, socket, report, sent>>
    PROVE  Streams'
<1>1. client \in [Clients -> ClientShape] /\ Len(socket) \in Nat
  BY DEF IInv, Shape
<1>2. client'[c] = x /\ \A d \in Clients \ {c} : client'[d] = client[d]
  BY <1>1
<1>3. Reporting'
  BY <1>1, ReportingStays
<1>4. \A k : Calm(k)
  BY DEF Calm
<1>5. Keeps(c)
  BY <1>2, <1>4 DEF Keeps
<1> QED BY <1>1, <1>2, <1>3, <1>4, <1>5, OneKeeps

\* A call that registers begins a connection or adds a callback.
LEMMA RegisterStreams ==
    ASSUME IInv, Streams, NEW c \in Clients, Register(c)
    PROVE  Streams'
<1>1. client[c] \in ClientShape /\ pc \in [Clients -> [Threads -> ThreadShape]]
      /\ client \in [Clients -> ClientShape] /\ Owned(c)
      /\ UNCHANGED <<opened, socket, report, sent>>
  BY DEF Streams, Owners, IInv, Shape, Register
<1>2. CASE client[c].isConnected
  <2> DEFINE x == [client[c] EXCEPT !.cbs = TRUE]
  <2>1. /\ x \in ClientShape /\ x.fd = client[c].fd /\ x.circBuf = client[c].circBuf
        /\ x.heard = client[c].heard /\ x.torn = client[c].torn
    BY <1>1 DEF ClientShape
  <2>2. client' = [client EXCEPT ![c] = x] /\ pc' = pc
    BY <1>2 DEF Register
  <2>3. \A t \in Threads : StaysOrRests(c, t)
    BY <2>2 DEF StaysOrRests
  <2> HIDE DEF x
  <2> QED BY <1>1, <2>1, <2>2, <2>3, ClosesNothing
<1>3. CASE ~client[c].isConnected
  <2>1. client' = client /\ pc' = [pc EXCEPT ![c]["application"].at = "create"]
        /\ pc[c]["application"].at = "idle"
    BY <1>3 DEF Register
  <2>2. "application" \in Threads
    BY DEF Threads
  <2>3. /\ \A d \in Clients \ {c} : pc'[d] = pc[d]
        /\ pc'[c]["application"].at = "create"
        /\ pc'[c]["application"].fd = pc[c]["application"].fd
        /\ \A u \in Threads \ {"application"} : pc'[c][u] = pc[c][u]
    BY <1>1, <2>1, <2>2, ThreadMoves
  <2>4. pc[c]["application"].fd = 0
    BY <1>1, <2>1, <2>2 DEF Owned
  <2>5. client' = [client EXCEPT ![c] = client[c]]
    BY <1>1, <2>1
  <2>6. \A t \in Threads : StaysOrRests(c, t)
    BY <2>2, <2>3, <2>4 DEF StaysOrRests
  <2> QED BY <1>1, <2>3, <2>5, <2>6, ClosesNothing
<1> QED BY <1>2, <1>3

\* A process none of whose threads is on its way is about to listen to nothing.
LEMMA NobodyConnects ==
    ASSUME IInv, Streams, NEW c \in Clients,
           \/ c \in service.pids /\ client[c].alive
           \/ ~client[c].alive
    PROVE  \A t \in Threads : pc[c][t].at = "idle"
<1>1. Thread(c)
  BY DEF IInv
<1> QED BY <1>1, OneAtATime DEF Thread, Connecting

\* A call that unregisters closes the process's end, and the service its own.
LEMMA UnregisterDoneStreams ==
    ASSUME IInv, Streams, NEW c \in Clients, Unregister(c), UnregisterDone(c)
    PROVE  Streams'
<1> DEFINE x == [[[client[c] EXCEPT !.fd = 0] EXCEPT !.cbs = FALSE] EXCEPT
                     !.isConnected = FALSE]
           mine == CloseClient(socket, client[c].fd)
<1>1. Shape /\ client[c].fd \in 1..Len(socket) \cup {0} /\ Registry
      /\ socket \in Seq(SocketShape) /\ client \in [Clients -> ClientShape]
      /\ client[c] \in ClientShape /\ Len(socket) \in Nat
  BY DEF Streams, Owners, IInv, Shape, Sockets
<1>2. /\ mine \in Seq(SocketShape) /\ Len(mine) = Len(socket)
      /\ \A j \in Sockets :
            /\ mine[j].server = socket[j].server
            /\ mine[j].torn = socket[j].torn
            /\ j # client[c].fd => mine[j] = socket[j]
  BY <1>1, CloseClientIs DEF Sockets
<1>3. client' = [client EXCEPT ![c] = x] /\ pc' = pc /\ report' = report /\ sent' = sent
      /\ client[c].alive /\ c \in service.pids
  BY DEF Unregister, UnregisterDone, Disconnected
<1>4. client'[c] = x /\ x.fd = 0 /\ \A d \in Clients \ {c} : client'[d] = client[d]
  BY <1>1, <1>3 DEF ClientShape
<1>5. \A t \in Threads : pc[c][t].at = "idle"
  BY <1>3, NobodyConnects
<1>6. CASE c \notin DOMAIN index
  <2>1. socket' = mine /\ opened' = opened
    BY <1>6 DEF UnregisterDone
  <2>2. x \in ClientShape
    BY <1>1 DEF ClientShape
  <2>3. \A t \in Threads : StaysOrRests(c, t) /\ pc'[c][t].at # "created"
    BY <1>3, <1>5 DEF StaysOrRests
  <2> HIDE DEF x
  <2> QED BY <1>3, <1>4, <2>1, <2>2, <2>3, ClosesOwn
<1>7. CASE c \in DOMAIN index
  <2> DEFINE k == opened[index[c]]
  <2> HIDE DEF mine
  <2>1. socket' = CloseServer(mine, k) /\ opened' = Drop(opened, index[c])
    BY <1>7 DEF UnregisterDone, mine
  <2>2. k \in 1..Len(mine) /\ index[c] \in DOMAIN opened
    BY <1>1, <1>2, <1>7 DEF Shape, Registry, Partial, Sockets
  <2>3. /\ Len(socket') = Len(mine)
        /\ \A j \in Sockets :
              /\ socket'[j].server <=> mine[j].server /\ j # k
              /\ socket'[j].torn = mine[j].torn
              /\ socket'[j].cells = mine[j].cells
              /\ socket'[j].client = mine[j].client
    BY <1>2, <2>1, <2>2, CloseServerIs DEF Sockets
  <2>4. ASSUME NEW fd \in DOMAIN opened, socket'[opened[fd]].server
        PROVE  fd \in DOMAIN opened' /\ opened'[fd] = opened[fd]
    <3>1. opened[fd] \in Sockets
      BY <1>1 DEF Shape, Partial
    <3>2. fd # index[c]
      BY <2>3, <2>4, <3>1
    <3> QED BY <2>1, <3>2 DEF Drop
  <2>5. Reporting'
    BY <1>1, <1>2, <1>3, <2>3, <2>4, ReportingStays
  <2>6. Keeps(c)
    BY <1>3, <1>4, <1>5 DEF Keeps, StaysOrRests
  <2>7. \A j \in Sockets \ Mine(c) : Calm(j)
    <3>1. \A j \in Sockets \ Mine(c) : j # client[c].fd
      BY MineIs
    <3> QED BY <1>2, <1>3, <2>3, <3>1 DEF Calm
  <2> QED BY <1>1, <1>2, <1>3, <1>4, <2>3, <2>5, <2>6, <2>7, OneKeeps
<1> QED BY <1>6, <1>7

\* So do the calls that fail, half way or before.
LEMMA UnregisterStreams ==
    ASSUME IInv, Streams, NEW c \in Clients, Unregister(c)
    PROVE  Streams'
<1>1. client[c] \in ClientShape /\ client[c].alive /\ UNCHANGED <<report, pc, sent>>
  BY DEF IInv, Shape, Unregister
<1>2. CASE UnregisterRefused(c)
  <2> DEFINE x == [client[c] EXCEPT !.cbs = FALSE]
  <2>1. /\ x \in ClientShape /\ x.fd = client[c].fd /\ x.circBuf = client[c].circBuf
        /\ x.heard = client[c].heard /\ x.torn = client[c].torn
    BY <1>1 DEF ClientShape
  <2>2. client' = [client EXCEPT ![c] = x] /\ UNCHANGED <<opened, socket>>
    BY <1>2 DEF UnregisterRefused
  <2>3. \A t \in Threads : StaysOrRests(c, t)
    BY <1>1 DEF StaysOrRests
  <2> HIDE DEF x
  <2> QED BY <1>1, <2>1, <2>2, <2>3, ClosesNothing
<1>3. CASE UnregisterHalfWay(c)
  <2> DEFINE x == [[client[c] EXCEPT !.fd = 0] EXCEPT !.cbs = FALSE, !.excused = TRUE]
  <2>1. x \in ClientShape /\ x.fd = 0
    BY <1>1 DEF ClientShape
  <2>2. client' = [client EXCEPT ![c] = x] /\ opened' = opened
        /\ socket' = CloseClient(socket, client[c].fd) /\ c \in service.pids
    BY <1>3 DEF UnregisterHalfWay, Disconnected
  <2>3. \A t \in Threads : StaysOrRests(c, t) /\ pc'[c][t].at # "created"
    BY <1>1, <2>2, NobodyConnects DEF StaysOrRests
  <2> HIDE DEF x
  <2> QED BY <1>1, <2>1, <2>2, <2>3, ClosesOwn
<1> QED BY <1>2, <1>3, UnregisterDoneStreams DEF Unregister

\* The data channel is not a stream.
LEMMA DestroySensorChannelStreams ==
    ASSUME IInv, Streams, NEW c \in Clients, DestroySensorChannel(c)
    PROVE  Streams'
<1>1. client[c] \in ClientShape /\ client \in [Clients -> ClientShape]
      /\ UNCHANGED <<opened, socket, report, pc, sent>>
  BY DEF IInv, Shape, DestroySensorChannel
<1> DEFINE x == [client[c] EXCEPT !.excused = TRUE]
<1>2. /\ x \in ClientShape /\ x.fd = client[c].fd /\ x.circBuf = client[c].circBuf
      /\ x.heard = client[c].heard /\ x.torn = client[c].torn
  BY <1>1 DEF ClientShape
<1>3. client' = [client EXCEPT ![c] = x] \/ client' = [client EXCEPT ![c] = client[c]]
  BY <1>1 DEF DestroySensorChannel, Excuse
<1>4. \A t \in Threads : StaysOrRests(c, t)
  BY <1>1 DEF StaysOrRests
<1> HIDE DEF x
<1>5. CASE client' = [client EXCEPT ![c] = x]
  BY <1>1, <1>2, <1>4, <1>5, ClosesNothing
<1>6. CASE client' = [client EXCEPT ![c] = client[c]]
  BY <1>1, <1>4, <1>6, ClosesNothing
<1> QED BY <1>3, <1>5, <1>6

\* A process that dies closes what it listens to and what it was about to.
LEMMA ClientDiesStreams ==
    ASSUME IInv, Streams, NEW c \in Clients, ClientDies(c)
    PROVE  Streams'
<1> DEFINE Gone(k) == k = client[c].fd \/ \E t \in Threads : k = pc[c][t].fd
           e(k) == [[socket[k] EXCEPT !.client = FALSE] EXCEPT !.cells = <<>>]
           x == [[NewClient EXCEPT !.alive = FALSE] EXCEPT !.excused = client[c].excused]
<1>1. Shape /\ client \in [Clients -> ClientShape] /\ socket \in Seq(SocketShape)
      /\ Len(socket) \in Nat /\ pc \in [Clients -> [Threads -> ThreadShape]]
  BY DEF IInv, Shape
<1>2. /\ client' = [client EXCEPT ![c] = x] /\ UNCHANGED <<opened, report, sent>>
      /\ socket' = [k \in Sockets |-> IF Gone(k) THEN e(k) ELSE socket[k]]
      /\ pc' = [pc EXCEPT ![c] = [t \in Threads |-> Idle]]
  BY DEF ClientDies
<1>3. client'[c].fd = 0 /\ \A d \in Clients \ {c} : client'[d] = client[d] /\ pc'[d] = pc[d]
  BY <1>1, <1>2 DEF NewClient
<1>4. \A t \in Threads : pc'[c][t].at = "idle" /\ pc'[c][t].fd = 0
  BY <1>1, <1>2 DEF Idle
<1>5. Len(socket') = Len(socket)
  <2>1. socket' = [k \in 1..Len(socket) |-> IF Gone(k) THEN e(k) ELSE socket[k]]
    BY <1>2 DEF Sockets
  <2> HIDE DEF e, Gone
  <2> QED BY <1>1, <2>1
<1>6. ASSUME NEW k \in Sockets
      PROVE  /\ socket'[k].torn = socket[k].torn /\ socket'[k].server = socket[k].server
             /\ ~Gone(k) => Calm(k)
  <2>1. socket[k] \in SocketShape
    BY <1>1, <1>6 DEF Sockets
  <2>2. socket'[k] = IF Gone(k) THEN e(k) ELSE socket[k]
    BY <1>2, <1>6
  <2>3. e(k).torn = socket[k].torn /\ e(k).server = socket[k].server
    BY <2>1 DEF SocketShape
  <2> HIDE DEF e, Gone
  <2> QED BY <1>2, <2>2, <2>3 DEF Calm
<1>7. Reporting'
  <2>1. /\ report' = report /\ opened' = opened
        /\ \A fd \in DOMAIN opened : opened[fd] \in Sockets
    BY <1>1, <1>2 DEF Shape, Partial
  <2>2. \A k \in Sockets : socket'[k].server = socket[k].server
    BY <1>6
  <2> QED BY <1>1, <1>5, <2>1, <2>2, ReportingStays
<1>8. Keeps(c)
  BY <1>3, <1>4 DEF Keeps, StaysOrRests
<1>9. \A k \in Sockets \ Mine(c) : ~Gone(k)
  BY MineIs DEF Mine
<1> QED BY <1>1, <1>3, <1>5, <1>6, <1>7, <1>8, <1>9, OneKeeps

\* The service closes its end of a session of who has died.
LEMMA ProcessDeathStreams ==
    ASSUME IInv, Streams, NEW c \in Clients, ProcessDeath(c)
    PROVE  Streams'
<1>1. Shape /\ Registry /\ socket \in Seq(SocketShape) /\ Len(socket) \in Nat
  BY DEF IInv, Shape
<1>2. ~client[c].alive /\ UNCHANGED <<report, client, pc, sent>> /\ DelSession(c)
  BY DEF ProcessDeath
<1>3. /\ \A k \in Sockets : Calm(k) /\ (socket'[k].server => socket[k].server)
      /\ Len(socket') = Len(socket)
      /\ \A fd \in DOMAIN opened : socket'[opened[fd]].server =>
            fd \in DOMAIN opened' /\ opened'[fd] = opened[fd]
  <2>1. CASE c \notin DOMAIN index
    BY <1>2, <2>1 DEF DelSession, Calm
  <2>2. CASE c \in DOMAIN index
    <3> DEFINE k == opened[index[c]]
    <3>1. socket' = CloseServer(socket, k) /\ opened' = Drop(opened, index[c])
      BY <1>2, <2>2 DEF DelSession
    <3>2. k \in 1..Len(socket) /\ index[c] \in DOMAIN opened
      BY <1>1, <2>2 DEF Shape, Registry, Partial, Sockets
    <3>3. /\ Len(socket') = Len(socket)
          /\ \A j \in Sockets :
                /\ socket'[j].server <=> socket[j].server /\ j # k
                /\ socket'[j].torn = socket[j].torn
                /\ socket'[j].cells = socket[j].cells
                /\ socket'[j].client = socket[j].client
      BY <1>1, <3>1, <3>2, CloseServerIs DEF Sockets
    <3>4. ASSUME NEW fd \in DOMAIN opened, socket'[opened[fd]].server
          PROVE  fd \in DOMAIN opened' /\ opened'[fd] = opened[fd]
      <4>1. opened[fd] \in Sockets
        BY <1>1 DEF Shape, Partial
      <4>2. fd # index[c]
        BY <3>3, <3>4, <4>1
      <4> QED BY <3>1, <4>2 DEF Drop
    <3> QED BY <1>2, <3>3, <3>4 DEF Calm
  <2> QED BY <2>1, <2>2
<1>4. Reporting'
  BY <1>1, <1>2, <1>3, ReportingStays
<1>5. \A d \in Clients : Keeps(d)
  BY <1>2, <1>3, MineIs DEF Keeps, StaysOrRests
<1> QED BY <1>1, <1>3, <1>4, <1>5, AllKeep

\* When the service dies all its ends close, and no report is under way.
LEMMA ServiceDiesStreams ==
    ASSUME IInv, Streams, ServiceDies
    PROVE  Streams'
<1> DEFINE e(k) == [socket[k] EXCEPT !.server = FALSE]
           x(c) == [client[c] EXCEPT !.stale = client[c].alive]
<1>1. Shape /\ client \in [Clients -> ClientShape] /\ socket \in Seq(SocketShape)
      /\ Len(socket) \in Nat
  BY DEF IInv, Shape
<1>2. /\ report' = NoReport /\ UNCHANGED <<pc, sent>>
      /\ socket' = [k \in Sockets |-> e(k)]
      /\ client' = [c \in Clients |-> x(c)]
  BY DEF ServiceDies
<1>3. Len(socket') = Len(socket)
  <2>1. socket' = [k \in 1..Len(socket) |-> e(k)]
    BY <1>2 DEF Sockets
  <2> HIDE DEF e
  <2> QED BY <1>1, <2>1
<1>4. ASSUME NEW k \in Sockets PROVE Calm(k)
  <2>1. socket[k] \in SocketShape
    BY <1>1, <1>4 DEF Sockets
  <2>2. socket'[k] = e(k)
    BY <1>2, <1>4
  <2> QED BY <1>2, <2>1, <2>2 DEF Calm, SocketShape
<1>5. ASSUME NEW c \in Clients
      PROVE  /\ client'[c].fd = client[c].fd /\ client'[c].circBuf = client[c].circBuf
             /\ client'[c].heard = client[c].heard /\ client'[c].torn = client[c].torn
  <2>1. client[c] \in ClientShape /\ client'[c] = x(c)
    BY <1>1, <1>2
  <2> QED BY <2>1 DEF ClientShape
<1>6. Reporting'
  <2>1. NoReport.on = 0
    BY DEF NoReport
  <2>2. report' = NoReport
    BY DEF ServiceDies
  <2>3. report'.on = 0
    BY <2>1, <2>2
  <2> QED BY <2>2, <2>3 DEF Reporting
<1>7. \A c \in Clients : Keeps(c)
  BY <1>2, <1>4, <1>5, MineIs DEF Keeps, StaysOrRests
<1> QED BY <1>1, <1>3, <1>6, <1>7, AllKeep

-----------------------------------------------------------------------------
(* Connecting                                                              *)

\* The observer of a process closes what it had, or has nothing to do.
LEMMA ReenableSensorStreams ==
    ASSUME IInv, Streams, NEW c \in Clients, ReenableSensor(c)
    PROVE  Streams'
<1>1. client[c] \in ClientShape /\ pc \in [Clients -> [Threads -> ThreadShape]]
      /\ Owned(c) /\ Thread(c) /\ "observer" \in Threads /\ "application" \in Threads
      /\ Threads = {"application", "observer"}
      /\ UNCHANGED <<opened, report, sent>> /\ pc[c]["observer"].at = "idle"
  BY DEF Streams, Owners, IInv, Shape, ReenableSensor, Threads
<1>2. CASE client[c].isConnected
  <2> DEFINE x == [[client[c] EXCEPT !.fd = 0] EXCEPT !.stale = FALSE]
  <2>1. x \in ClientShape /\ x.fd = 0
    BY <1>1 DEF ClientShape
  <2>2. client' = [client EXCEPT ![c] = x] /\ socket' = CloseClient(socket, client[c].fd)
        /\ pc' = [pc EXCEPT ![c]["observer"].at = "create"]
    BY <1>2 DEF ReenableSensor, Disconnected
  <2> HIDE DEF x
  <2>3. /\ \A d \in Clients \ {c} : pc'[d] = pc[d]
        /\ pc'[c]["observer"].at = "create"
        /\ pc'[c]["observer"].fd = pc[c]["observer"].fd
        /\ \A u \in Threads \ {"observer"} : pc'[c][u] = pc[c][u]
    BY <1>1, <2>2, ThreadMoves
  <2>4. pc[c]["observer"].fd = 0 /\ pc[c]["application"].at = "idle"
    BY <1>1, <1>2 DEF Owned, Thread
  <2>5. \A t \in Threads : StaysOrRests(c, t) /\ pc'[c][t].at # "created"
    BY <1>1, <2>3, <2>4 DEF StaysOrRests
  <2> QED BY <1>1, <2>1, <2>2, <2>3, <2>5, ClosesOwn
<1>3. CASE ~client[c].isConnected
  <2> DEFINE x == [client[c] EXCEPT !.stale = FALSE]
  <2>1. /\ x \in ClientShape /\ x.fd = client[c].fd /\ x.circBuf = client[c].circBuf
        /\ x.heard = client[c].heard /\ x.torn = client[c].torn
    BY <1>1 DEF ClientShape
  <2>2. client' = [client EXCEPT ![c] = x] /\ UNCHANGED <<pc, socket>>
    BY <1>3 DEF ReenableSensor
  <2>3. \A t \in Threads : StaysOrRests(c, t)
    BY <2>2 DEF StaysOrRests
  <2> HIDE DEF x
  <2> QED BY <1>1, <2>1, <2>2, <2>3, ClosesNothing
<1> QED BY <1>2, <1>3

\* The event thread closes its end when the service's is closed.
LEMMA OnShutdownStreams ==
    ASSUME IInv, Streams, NEW c \in Clients, OnShutdown(c)
    PROVE  Streams'
<1> DEFINE k == client[c].fd
           x == [client[c] EXCEPT !.fd = 0]
<1>1. Shape /\ k \in 1..Len(socket) /\ Len(socket) \in Nat
      /\ socket \in Seq(SocketShape) /\ client \in [Clients -> ClientShape]
      /\ client[c] \in ClientShape
  BY DEF Streams, Owners, IInv, Shape, Sockets, OnShutdown
<1>2. client' = [client EXCEPT ![c] = x] /\ socket' = CloseClient(socket, k)
      /\ UNCHANGED <<opened, report, pc, sent>>
  BY DEF OnShutdown, Disconnected
<1>3. client'[c].fd = 0 /\ \A d \in Clients \ {c} : client'[d] = client[d]
  BY <1>1, <1>2 DEF ClientShape
<1>4. /\ Len(socket') = Len(socket)
      /\ \A j \in Sockets :
            /\ socket'[j].server = socket[j].server
            /\ socket'[j].torn = socket[j].torn
            /\ j # k => socket'[j] = socket[j]
  BY <1>1, <1>2, CloseClientIs DEF Sockets
<1>5. Reporting'
  BY <1>1, <1>2, <1>4, ReportingStays DEF Shape, Partial
<1>6. \A j \in Sockets \ {k} : Calm(j)
  BY <1>2, <1>4 DEF Calm
<1>7. Keeps(c)
  <2>1. ASSUME NEW t \in Threads, pc[c][t].at = "created" PROVE Calm(pc[c][t].fd)
    BY <1>6, <2>1, MineIs DEF Owned
  <2> QED BY <1>2, <1>3, <2>1 DEF Keeps, StaysOrRests
<1>8. k \in Mine(c)
  BY <1>1 DEF Mine
<1> QED BY <1>1, <1>2, <1>3, <1>4, <1>5, <1>6, <1>7, <1>8, OneKeeps

\* A connection that is refused closes the one before.
LEMMA CreateRefusedStreams ==
    ASSUME IInv, Streams, NEW c \in Clients, NEW t \in Threads, pc[c][t].at = "create",
           CreateRefused(c, t), UNCHANGED report
    PROVE  Streams'
<1> DEFINE failed == client[c].excused \/ client[c].isConnected
           x == [[client[c] EXCEPT !.fd = 0] EXCEPT !.excused = failed]
<1>1. client[c] \in ClientShape /\ pc \in [Clients -> [Threads -> ThreadShape]]
  BY DEF IInv, Shape
<1>2. x \in ClientShape /\ x.fd = 0
  BY <1>1 DEF ClientShape
<1>3. client' = [client EXCEPT ![c] = x] /\ socket' = CloseClient(socket, client[c].fd)
      /\ pc' = [pc EXCEPT ![c][t] = Idle] /\ UNCHANGED <<opened, report, sent>>
  <2>1. Disconnected(client[c]).excused = client[c].excused
    BY <1>1 DEF Disconnected, ClientShape
  <2> QED BY <2>1 DEF CreateRefused, Disconnected
<1> HIDE DEF x
<1>4. Idle \in ThreadShape /\ Idle.at = "idle" /\ Idle.fd = 0
  BY DEF ThreadShape, Idle
<1>5. /\ \A d \in Clients \ {c} : pc'[d] = pc[d]
      /\ pc'[c][t] = Idle
      /\ \A u \in Threads \ {t} : pc'[c][u] = pc[c][u]
  BY <1>1, <1>3, <1>4, ThreadGoes
<1>6. \A u \in Threads \ {t} : pc[c][u].at = "idle"
  BY OneAtATime
<1>7. \A u \in Threads : StaysOrRests(c, u) /\ pc'[c][u].at # "created"
  BY <1>4, <1>5, <1>6 DEF StaysOrRests
<1> QED BY <1>2, <1>3, <1>5, <1>7, ClosesOwn

\* Registering with the service ends the connecting, and when it is refused closes
\* the end of the process.
LEMMA EnableStreams ==
    ASSUME IInv, Streams, NEW c \in Clients, NEW t \in Threads, EnableActiveInfoCB(c, t)
    PROVE  Streams'
<1>1. client[c] \in ClientShape /\ pc \in [Clients -> [Threads -> ThreadShape]]
  BY DEF IInv, Shape
<1>2. pc' = [pc EXCEPT ![c][t] = Idle] /\ UNCHANGED <<opened, report, sent>>
      /\ pc[c][t].at = "listening"
  BY DEF EnableActiveInfoCB
<1>3. Idle \in ThreadShape /\ Idle.at = "idle" /\ Idle.fd = 0
  BY DEF ThreadShape, Idle
<1>4. /\ \A d \in Clients \ {c} : pc'[d] = pc[d]
      /\ pc'[c][t] = Idle
      /\ \A u \in Threads \ {t} : pc'[c][u] = pc[c][u]
  BY <1>1, <1>2, <1>3, ThreadGoes
<1>5. \A u \in Threads \ {t} : pc[c][u].at = "idle"
  BY <1>2, OneAtATime
<1>6. \A u \in Threads : StaysOrRests(c, u) /\ pc'[c][u].at # "created"
  BY <1>3, <1>4, <1>5 DEF StaysOrRests
<1>7. CASE EnableAccepted(c, t)
  <2> DEFINE registers == client[c].cbs \/ t = "application"
             lost == client[c].excused \/ ~Served(c)
             x == [[[client[c] EXCEPT !.isConnected = TRUE] EXCEPT !.cbs = registers] EXCEPT
                       !.excused = lost]
  <2>1. /\ x \in ClientShape /\ x.fd = client[c].fd /\ x.circBuf = client[c].circBuf
        /\ x.heard = client[c].heard /\ x.torn = client[c].torn
    <3> HIDE DEF registers, lost
    <3>1. registers \in BOOLEAN /\ lost \in BOOLEAN
      BY DEF registers, lost
    <3> QED BY <1>1, <3>1 DEF ClientShape
  <2>2. client' = [client EXCEPT ![c] = x] /\ socket' = socket
    BY <1>7 DEF EnableAccepted
  <2> HIDE DEF x
  <2> QED BY <1>2, <1>4, <1>6, <2>1, <2>2, ClosesNothing
<1>8. CASE EnableRefused(c)
  <2> DEFINE failed == client[c].excused \/ client[c].isConnected \/ ~client[c].stale
             x == [[client[c] EXCEPT !.fd = 0] EXCEPT !.excused = failed]
  <2>1. x \in ClientShape /\ x.fd = 0
    BY <1>1 DEF ClientShape
  <2>2. client' = [client EXCEPT ![c] = x] /\ socket' = CloseClient(socket, client[c].fd)
    <3>1. Disconnected(client[c]).excused = client[c].excused
      BY <1>1 DEF Disconnected, ClientShape
    <3> QED BY <1>8, <3>1 DEF EnableRefused, Disconnected
  <2> HIDE DEF x
  <2> QED BY <1>2, <1>4, <1>6, <2>1, <2>2, ClosesOwn
<1> QED BY <1>7, <1>8 DEF EnableActiveInfoCB

\* A thread listens to the socket it has made; what it hears begins there, if the
\* buffer has nothing left of the one before.
LEMMA ListenStreams ==
    ASSUME IInv, Streams, NEW c \in Clients, NEW t \in Threads, Listen(c, t)
    PROVE  Streams'
<1> DEFINE cut == client[c].circBuf # <<>> \/ client[c].reading >= 0
           x == [[[client[c] EXCEPT !.fd = pc[c][t].fd] EXCEPT !.heard = <<>>] EXCEPT
                     !.torn = cut]
<1>1. client[c] \in ClientShape /\ pc \in [Clients -> [Threads -> ThreadShape]]
      /\ client \in [Clients -> ClientShape] /\ Len(socket) \in Nat
      /\ socket \in Seq(SocketShape) /\ sent \in Seq(Seq(Nat)) /\ Len(sent) = Len(socket)
      /\ Owned(c) /\ Waits(c, t)
  BY DEF Streams, Owners, IInv, Shape
<1>2. /\ pc[c][t].at = "created" /\ client' = [client EXCEPT ![c] = x]
      /\ pc' = [pc EXCEPT ![c][t].at = "listening"]
      /\ UNCHANGED <<opened, report, socket, sent>>
  BY DEF Listen
<1>3. client'[c] = x /\ \A d \in Clients \ {c} : client'[d] = client[d]
  BY <1>1, <1>2
<1>4. x.fd = pc[c][t].fd /\ x.heard = <<>> /\ x.torn = cut /\ x.circBuf = client[c].circBuf
  BY <1>1 DEF ClientShape
<1> HIDE DEF x
<1>5. /\ \A d \in Clients \ {c} : pc'[d] = pc[d]
      /\ pc'[c][t].at = "listening" /\ pc'[c][t].fd = pc[c][t].fd
      /\ \A u \in Threads \ {t} : pc'[c][u] = pc[c][u]
  BY <1>1, <1>2, ThreadMoves
<1>6. \A u \in Threads \ {t} : pc[c][u].at = "idle"
  BY <1>2, OneAtATime
<1>7. PICK k \in Sockets : k = pc[c][t].fd
  BY <1>2, MineIs
<1>8. \A j : Calm(j)
  BY <1>2 DEF Calm
<1>9. Reporting'
  BY <1>1, <1>2, ReportingStays
<1>10. Mine(c)' \subseteq Mine(c)
  BY <1>3, <1>4, <1>5 DEF Mine
<1>11. Owned(c)'
  <2>1. Sockets' = Sockets /\ Mine(c) \subseteq Sockets
    BY <1>2, MineIs DEF Sockets
  <2>2. socket'[client'[c].fd].client
    BY <1>1, <1>2, <1>3, <1>4 DEF Owned
  <2>3. /\ pc[c][t].fd # 0
        /\ \A u \in Threads : pc[c][u].at \in {"idle", "create"} <=> pc[c][u].fd = 0
    BY <1>1, <1>2 DEF Owned
  <2>4. \A u \in Threads :
          /\ pc'[c][u].at \in {"idle", "create"} <=> pc'[c][u].fd = 0
          /\ pc'[c][u].at # "created"
    BY <1>5, <1>6, <2>3
  <2> QED BY <1>10, <2>1, <2>2, <2>4 DEF Owned
<1>12. Hears(c)'
  <2> SUFFICES ASSUME ~cut, ~socket'[k].torn PROVE Hears(c)'
    BY <1>3, <1>4, <1>7 DEF Hears
  <2>1. PICK q \in Seq(Nat) : q = sent[k]
    BY <1>1, <1>7 DEF Sockets
  <2>2. PICK all : all = socket[k].cells
    OBVIOUS
  <2>3. Delivers(k, all, q)
    BY <1>1, <1>2, <1>7, <2>1, <2>2 DEF Waits
  <2>4. Delivers(k, all, q)'
    BY <1>7, <1>8, <2>3, DeliversStays, MineIs DEF Calm
  <2>5. client'[c].circBuf \o socket'[k].cells = all
    <3>1. socket[k].cells \in Cells
      <4>1. socket[k] \in SocketShape
        BY <1>1, <1>7 DEF Sockets
      <4> QED BY <4>1 DEF SocketShape, Buffered
    <3>2. <<>> \o socket[k].cells = socket[k].cells
      BY <3>1, ConcatEmptySeq DEF Cells
    <3> QED BY <1>2, <1>3, <1>4, <2>2, <3>2
  <2>6. sent'[k] = client'[c].heard \o q
    <3>1. <<>> \o q = q
      BY ConcatEmptySeq
    <3> QED BY <1>2, <1>3, <1>4, <2>1, <3>1
  <2>7. client'[c].fd = k
    BY <1>3, <1>4, <1>7
  <2> QED BY <2>4, <2>5, <2>6, <2>7 DEF Hears
<1>13. \A u \in Threads : Waits(c, u)'
  BY <1>5, <1>6 DEF Waits
<1> QED BY <1>1, <1>2, <1>3, <1>5, <1>8, <1>9, <1>10, <1>11, <1>12, <1>13, OneStreams

\* A new socket has nothing on it, and is of no other process.
LEMMA CreateAcceptedStreams ==
    ASSUME IInv, Streams, NEW c \in Clients, NEW t \in Threads, pc[c][t].at = "create",
           CreateAccepted(c, t), UNCHANGED report
    PROVE  Streams'
<1> DEFINE fd == FreeFd
           k == Len(socket) + 1
           e == [cells |-> <<>>, server |-> TRUE, client |-> TRUE, torn |-> FALSE]
           r == [at |-> "created", fd |-> k]
           met == client[c].excused \/ \E u \in Threads \ {t} : pc[c][u].at # "idle"
           x == [client[c] EXCEPT !.excused = met]
<1>1. client[c] \in ClientShape /\ pc \in [Clients -> [Threads -> ThreadShape]]
      /\ client \in [Clients -> ClientShape] /\ Len(socket) \in Nat
      /\ socket \in Seq(SocketShape) /\ sent \in Seq(Seq(Nat)) /\ Len(sent) = Len(socket)
      /\ Owned(c) /\ Partial(opened, Nat, Sockets)
      /\ IsFiniteSet(DOMAIN opened)
  BY DEF Streams, Owners, IInv, Shape, Registry
<1>2. /\ opened' = Put(opened, fd, k) /\ socket' = Append(socket, e)
      /\ sent' = Append(sent, <<>>) /\ pc' = [pc EXCEPT ![c][t] = r]
      /\ client' = [client EXCEPT ![c] = x] /\ report' = report
  BY DEF CreateAccepted
<1>3. /\ client'[c].fd = client[c].fd /\ client'[c].circBuf = client[c].circBuf
      /\ client'[c].heard = client[c].heard /\ client'[c].torn = client[c].torn
      /\ \A d \in Clients \ {c} : client'[d] = client[d]
  BY <1>1, <1>2 DEF ClientShape
<1>4. r \in ThreadShape /\ r.at = "created" /\ r.fd = k
  BY <1>1 DEF ThreadShape
<1>5. /\ \A d \in Clients \ {c} : pc'[d] = pc[d]
      /\ pc'[c][t].at = "created" /\ pc'[c][t].fd = k
      /\ \A u \in Threads \ {t} : pc'[c][u] = pc[c][u]
  <2> HIDE DEF r
  <2> QED BY <1>1, <1>2, <1>4, ThreadGoes
<1>6. \A u \in Threads \ {t} : pc[c][u].at = "idle"
  BY OneAtATime
<1>7. /\ Len(socket') = k /\ socket'[k] = e /\ sent'[k] = <<>>
      /\ \A j \in Sockets : socket'[j] = socket[j] /\ sent'[j] = sent[j]
  BY <1>1, <1>2 DEF Sockets
<1>8. \A j \in Sockets : Calm(j)
  BY <1>2, <1>7 DEF Calm
<1>9. Reporting'
  <2>1. ASSUME NEW f \in DOMAIN opened PROVE f \in DOMAIN opened' /\ opened'[f] = opened[f]
    <3>1. fd \notin DOMAIN opened
      BY <1>1, FreeFdIsFree
    <3> HIDE DEF fd, k
    <3> QED BY <1>2, <2>1, <3>1 DEF Put
  <2>2. report.on \in Sockets \cup {0}
    BY DEF Streams, Reporting
  <2>3. Sockets \subseteq Sockets' /\ Current' = Current
    BY <1>1, <1>2, <1>7 DEF Sockets, Current
  <2>4. report.on # 0 /\ socket'[report.on].server =>
          Current \in DOMAIN opened' /\ opened'[Current] = report.on
    <3>1. report.on # 0 /\ socket[report.on].server =>
            Current \in DOMAIN opened /\ opened[Current] = report.on
      BY DEF Streams, Reporting
    <3> QED BY <1>7, <2>1, <2>2, <3>1
  <2> QED BY <1>2, <2>2, <2>3, <2>4 DEF Streams, Reporting
<1>10. k \in Sockets' /\ ~(k \in Sockets) /\ k # 0
  BY <1>1, <1>7 DEF Sockets
<1>11. \A u \in Threads \ {t} : pc[c][u].fd = 0
  BY <1>1, <1>6 DEF Owned
<1>12. Mine(c)' = {client[c].fd, k} \ {0}
  <2>1. {pc'[c][u].fd : u \in Threads} \subseteq {0, k} /\ k \in {pc'[c][u].fd : u \in Threads}
    BY <1>5, <1>11
  <2> QED BY <1>3, <2>1 DEF Mine
<1>13. client[c].fd \in Sockets \cup {0}
  BY DEF IInv, Shape
<1>14. Mine(c)' \cap Sockets \subseteq Mine(c)
  BY <1>10, <1>12, <1>13 DEF Mine
<1>15. Owned(c)'
  <2>1. Sockets \subseteq Sockets'
    BY <1>1, <1>7 DEF Sockets
  <2>2. client'[c].fd # 0 => socket'[client'[c].fd].client
    BY <1>1, <1>3, <1>7, <1>13 DEF Owned
  <2>3. socket'[k].client
    BY <1>7
  <2>4. ASSUME NEW u \in Threads
        PROVE  /\ pc'[c][u].at \in {"idle", "create"} <=> pc'[c][u].fd = 0
               /\ pc'[c][u].at = "created" =>
                     /\ socket'[pc'[c][u].fd].client
                     /\ pc'[c][u].fd # client'[c].fd
                     /\ \A v \in Threads \ {u} : pc'[c][v].fd # pc'[c][u].fd
    <3>1. CASE u = t
      <4>1. k # client'[c].fd
        BY <1>3, <1>10, <1>13
      <4> HIDE DEF k
      <4> QED BY <1>5, <1>10, <1>11, <2>3, <3>1, <4>1
    <3>2. CASE u # t
      BY <1>5, <1>6, <1>11, <3>2
    <3> QED BY <3>1, <3>2
  <2> QED BY <1>10, <1>12, <1>13, <2>1, <2>2, <2>4 DEF Owned
<1>16. Hears(c)'
  BY <1>1, <1>3, <1>7, <1>8, <1>13, HearsStays
<1>17. ASSUME NEW u \in Threads PROVE Waits(c, u)'
  <2>1. CASE u # t
    BY <1>5, <1>6, <2>1 DEF Waits
  <2>2. CASE u = t
    <3>1. PICK j \in Nat : j = k
      BY <1>1
    <3>2. Carries(<<>>, <<>>, 0, 0) /\ <<>> \in Seq(Nat)
      BY CarryNothing
    <3>3. report'.on # j
      BY <1>2, <1>10, <3>1 DEF Streams, Reporting
    <3>4. Part(j)' = 0
      BY <3>3 DEF Part
    <3>5. Delivers(j, <<>>, <<>>)'
      <4>1. 0 \in 0..(PacketSize - 1) /\ 0 \in Nat /\ ~(0 > 0)
        BY Sizes
      <4> QED BY <3>2, <3>4, <4>1 DEF Delivers
    <3>6. pc'[c][u].fd = j /\ socket'[j].cells = <<>> /\ sent'[j] = <<>>
      BY <1>5, <1>7, <2>2, <3>1
    <3> QED BY <3>5, <3>6 DEF Waits
  <2> QED BY <2>1, <2>2
<1>18. Len(socket') >= Len(socket) /\ Len(socket') \in Nat
  BY <1>1, <1>7
<1>19. /\ \A d \in Clients \ {c} : client'[d] = client[d] /\ pc'[d] = pc[d]
       /\ \A j \in Sockets \ Mine(c) : Calm(j)
  BY <1>3, <1>5, <1>8
<1> QED BY <1>9, <1>14, <1>15, <1>16, <1>17, <1>18, <1>19, OneStreams

-----------------------------------------------------------------------------
(* Sending                                                                 *)

\* A packet is as many cells as its size, each with its number and its place.
LEMMA MakeDataIs ==
    ASSUME NEW p \in Nat
    PROVE  /\ MakeData(p) \in Cells /\ Len(MakeData(p)) = PacketSize
           /\ \A i \in 1..PacketSize : MakeData(p)[i] = <<p, i>>
<1>1. PacketSize \in Nat
  BY Sizes
<1>2. MakeData(p) = [i \in 1..PacketSize |-> <<p, i>>]
  BY DEF MakeData
<1>3. Len(MakeData(p)) = PacketSize
  BY <1>1, <1>2
<1>4. \A i \in 1..PacketSize : MakeData(p)[i] = <<p, i>>
  BY <1>2
<1> QED BY <1>3, <1>4, MakeDataIsCells

\* A report that is about to send a packet has all of it left.
Ready(r) ==
    /\ r.on = 0
    /\ r = NoReport \/ /\ Len(r.rest) = PacketSize
                       /\ \A i \in 1..PacketSize : r.rest[i] = <<r.pkt, i>>

\* A report that is about to send a packet is a report under way.
LEMMA ReadyIsReporting ==
    ASSUME Ready(report')
    PROVE  Reporting'
<1>1. CASE report' = NoReport
  BY <1>1 DEF Ready, Reporting
<1>2. CASE report' # NoReport
  <2>1. Len(report'.rest) = PacketSize /\ report'.on = 0
        /\ \A i \in 1..PacketSize : report'.rest[i] = <<report'.pkt, i>>
    BY <1>2 DEF Ready
  <2>2. /\ PacketSize \in 1..PacketSize
        /\ \A i \in 1..PacketSize : PacketSize - PacketSize + i = i
    BY Sizes
  <2> QED BY <1>2, <2>1, <2>2 DEF Reporting
<1> QED BY <1>1, <1>2

\* A report begins between two packets, so that it disturbs no socket.
LEMMA StartReportStreams ==
    ASSUME IInv, Streams, StartReport
    PROVE  Streams'
<1> DEFINE p == count.reports + 1
           l == {index[c] : c \in Addressees}
<1>1. p \in Nat /\ Len(socket) \in Nat
  BY DEF IInv, Shape, CountShape
<1>2. /\ report = NoReport /\ UNCHANGED <<opened, socket, client, pc, sent>>
      /\ report' = [pkt |-> p, list |-> l, rest |-> MakeData(p), tries |-> 0, on |-> 0]
  BY DEF StartReport
<1>3. report'.on = 0 /\ report'.pkt = p /\ report'.rest = MakeData(p)
  <2> HIDE DEF p, l
  <2> QED BY <1>2
<1>4. Ready(report')
  <2> HIDE DEF p
  <2> QED BY <1>1, <1>3, MakeDataIs DEF Ready
<1>5. report.on = 0
  BY <1>2 DEF NoReport
<1>6. \A k \in Sockets : Calm(k)
  BY <1>2, <1>3, <1>5 DEF Calm, Sockets
<1>7. \A c \in Clients : Keeps(c)
  BY <1>2, <1>6, MineIs DEF Keeps, StaysOrRests
<1> QED BY <1>1, <1>2, <1>4, <1>7, ReadyIsReporting, AllKeep

\* The next session gets the packet from its beginning.
LEMMA NextSessionReady ==
    ASSUME report \in ReportShape
    PROVE  Ready(NextSession)
<1>1. CASE report.list = {Current}
  BY <1>1 DEF NextSession, Ready, NoReport
<1>2. CASE report.list # {Current}
  <2> DEFINE l == report.list \ {Current}
             d == MakeData(report.pkt)
             r == [report EXCEPT !.list = l, !.rest = d, !.tries = 0, !.on = 0]
  <2>1. NextSession = r
    BY <1>2 DEF NextSession
  <2>2. r.on = 0 /\ r.rest = d /\ r.pkt = report.pkt
    <3> HIDE DEF l, d
    <3> QED BY DEF ReportShape
  <2>3. Len(d) = PacketSize /\ \A i \in 1..PacketSize : d[i] = <<report.pkt, i>>
    BY MakeDataIs DEF ReportShape
  <2> HIDE DEF r, d
  <2> QED BY <2>1, <2>2, <2>3 DEF Ready
<1> QED BY <1>1, <1>2

\* A send that fails gives up a socket that nobody listens to, or that is closed.
LEMMA SendFailsStreams ==
    ASSUME IInv, Streams, SendFails, UNCHANGED <<opened, client, pc>>
    PROVE  Streams'
<1>1. report \in ReportShape /\ Len(socket) \in Nat /\ Reporting
  BY DEF IInv, Shape, Streams
<1>2. report' = NextSession /\ UNCHANGED <<socket, sent>>
      /\ ~(Current \in DOMAIN opened /\ socket[opened[Current]].client)
  BY DEF SendFails
<1>3. Ready(report') /\ report'.on = 0
  BY <1>1, <1>2, NextSessionReady DEF Ready
<1>4. ASSUME NEW k \in Sockets, socket[k].client PROVE Calm(k)
  <2>1. socket[k].server => report.on # k /\ report'.on # k
    BY <1>1, <1>2, <1>3, <1>4 DEF Reporting, Sockets
  <2> QED BY <1>2, <2>1 DEF Calm
<1>5. ASSUME NEW c \in Clients PROVE Keeps(c)
  <2>1. client[c].fd # 0 => Calm(client[c].fd)
    BY <1>4, MineIs DEF Owned
  <2>2. \A t \in Threads : pc[c][t].at = "created" => Calm(pc[c][t].fd)
    BY <1>4, MineIs DEF Owned
  <2> QED BY <2>1, <2>2 DEF Keeps, StaysOrRests
<1> QED BY <1>1, <1>2, <1>3, <1>5, ReadyIsReporting, AllKeep

\* Cells behind cells behind cells.
LEMMA CellsAssociate ==
    ASSUME NEW a \in Cells, NEW b \in Cells, NEW d \in Cells
    PROVE  (a \o b) \o d = a \o (b \o d)
<1> DEFINE S == Nat \X Nat
<1>1. a \in Seq(S) /\ b \in Seq(S) /\ d \in Seq(S)
  BY DEF Cells
<1> HIDE DEF S
<1> QED BY <1>1, ConcatAssociative

\* A packet behind packets is behind those and what went before them.
LEMMA AppendConcat ==
    ASSUME NEW h \in Seq(Nat), NEW q \in Seq(Nat), NEW p \in Nat
    PROVE  Append(h \o q, p) = h \o Append(q, p)
<1>1. Append(h \o q, p) = (h \o q) \o <<p>> /\ Append(q, p) = q \o <<p>>
  BY AppendIsConcat, ConcatProperties
<1>2. (h \o q) \o <<p>> = h \o (q \o <<p>>)
  BY ConcatAssociative
<1> QED BY <1>1, <1>2

\* The cells that a socket takes of a packet go on with what is on their way.
LEMMA SentCells ==
    ASSUME IInv, Streams, report # NoReport,
           NEW k \in Sockets, socket[k].server, report.on \in {0, k},
           NEW n \in 0..Len(report.rest),
           NEW all \in Cells, NEW q \in Seq(Nat), Delivers(k, all, q)
    PROVE  Carries(all \o First(report.rest, n), q, report.pkt,
                   PacketSize - Len(report.rest) + n)
<1> DEFINE m == Len(report.rest)
           b == PacketSize - m
           more == First(report.rest, n)
<1>1. /\ report.rest \in Cells /\ report.pkt \in Nat /\ PacketSize \in Nat \ {0} /\ k # 0
      /\ Len(socket) \in Nat
  BY Sizes DEF IInv, Shape, ReportShape, Sockets
<1>2. /\ m \in 1..PacketSize /\ \A i \in 1..m : report.rest[i] = <<report.pkt, b + i>>
      /\ report.on = 0 <=> m = PacketSize
  BY DEF Streams, Reporting
<1>3. b \in Nat /\ Part(k) = b
  <2>1. PacketSize \in Nat /\ m \in 1..PacketSize
    BY <1>1, <1>2
  <2>2. CASE report.on = k
    BY <2>1, <2>2 DEF Part
  <2>3. CASE report.on = 0
    <3>1. m = PacketSize /\ report.on # k
      BY <1>1, <1>2, <2>3
    <3>2. Part(k) = 0
      BY <3>1 DEF Part
    <3> QED BY <2>1, <3>1, <3>2
  <2> QED BY <2>2, <2>3
<1>4. Carries(all, q, report.pkt, b)
  <2>1. PICK r \in 0..(PacketSize - 1), p \in Nat :
          Carries(all, q, p, r) /\ r = Part(k) /\ (r > 0 => p = report.pkt)
    BY DEF Delivers
  <2>2. CASE r > 0
    BY <1>3, <2>1, <2>2
  <2>3. CASE r = 0
    BY <1>1, <1>3, <2>1, <2>3, AnyPart
  <2> QED BY <2>1, <2>2, <2>3
<1>5. more \in Cells /\ Len(more) = n /\ \A j \in 1..n : more[j] = report.rest[j]
  BY <1>1, PartsAreCells
<1>6. \A j \in 1..Len(more) : more[j] = <<report.pkt, b + j>>
  <2> HIDE DEF b, more
  <2> QED BY <1>2, <1>5
<1> HIDE DEF b, more
<1>7. Carries(all \o more, q, report.pkt, b + Len(more))
  BY <1>1, <1>3, <1>4, <1>5, <1>6, CarryPart
<1> QED BY <1>5, <1>7 DEF b, more

\* An attempt moves cells to the socket of the session, and the packet is sent when
\* its last cells are; no other socket is disturbed.
LEMMA SendAttemptStreams ==
    ASSUME IInv, Streams, Shape', report # NoReport, SendAttempt,
           UNCHANGED <<opened, client, pc>>
    PROVE  Streams'
<1> DEFINE cells(j) == socket[j].cells
           n(j) == Taken(report.rest, cells(j))
           begun(j) == First(report.rest, n(j))
           rest(j) == Without(report.rest, n(j))
           last == report.tries + 1 = RetryLimit
           cut(j) == (last /\ rest(j) # <<>> /\ Len(rest(j)) < PacketSize)
                     \/ report.on \notin {0, j}
           torn(j) == socket[j].torn \/ cut(j)
           e(j) == [[socket[j] EXCEPT !.cells = cells(j) \o begun(j)] EXCEPT !.torn = torn(j)]
           on(j) == IF report.on = 0 /\ n(j) > 0 THEN j ELSE report.on
           more(j) == [report EXCEPT !.rest = rest(j), !.tries = report.tries + 1,
                                     !.on = on(j)]
<1>1. /\ Shape /\ Registry /\ socket \in Seq(SocketShape) /\ Len(socket) \in Nat
      /\ report \in ReportShape /\ Reporting /\ report.pkt \in Nat
      /\ report.rest \in Cells /\ Len(report.rest) \in Nat
      /\ PacketSize \in Nat \ {0}
      /\ sent \in Seq(Seq(Nat)) /\ Len(sent) = Len(socket)
  BY Sizes DEF IInv, Shape, ReportShape, Streams, Cells
<1>2. PICK k \in Sockets : k = opened[Current]
  BY <1>1 DEF SendAttempt, Shape, Partial
<1>3. Current \in DOMAIN opened /\ socket[k].server /\ k # 0 /\ k \in Nat /\ k \in 1..Len(socket)
      /\ socket[k] \in SocketShape
  BY <1>1, <1>2 DEF SendAttempt, Registry, Sockets
<1>4. /\ socket' = [socket EXCEPT ![k] = e(k)]
      /\ rest(k) = <<>> => /\ sent' = [sent EXCEPT ![k] = Append(@, report.pkt)]
                           /\ report' = NextSession
      /\ rest(k) # <<>> => /\ sent' = sent
                           /\ last => report' = NextSession
                           /\ ~last => report' = more(k)
  BY <1>2 DEF SendAttempt
<1>5. /\ cells(k) \in Cells /\ Len(cells(k)) \in Nat /\ Len(cells(k)) <= SocketSize
  BY <1>3 DEF SocketShape, Buffered, Cells
<1>6. n(k) \in 0..Len(report.rest)
  <2>1. SocketSize - Len(cells(k)) \in Int /\ SocketSize - Len(cells(k)) >= 0
    BY <1>5, StreamAssumption
  <2>2. PICK a, b : a = Len(report.rest) /\ b = SocketSize - Len(cells(k))
    OBVIOUS
  <2>3. a \in Nat /\ b \in Int /\ b >= 0 /\ n(k) = Least(a, b)
    BY <1>1, <2>1, <2>2 DEF Taken
  <2> HIDE DEF n
  <2>4. n(k) <= a /\ n(k) \in {a, b}
    BY <2>3, LeastIs
  <2>5. n(k) \in 0..a
    BY <2>3, <2>4
  <2> QED BY <2>2, <2>5
<1>7. /\ begun(k) \in Cells /\ rest(k) \in Cells /\ Len(rest(k)) = Len(report.rest) - n(k)
      /\ \A i \in 1..Len(rest(k)) : rest(k)[i] = report.rest[n(k) + i]
  <2> DEFINE m == n(k)
             s == report.rest
  <2>1. s \in Cells /\ m \in 0..Len(s)
    BY <1>1, <1>6
  <2> HIDE DEF m, s
  <2>2. /\ First(s, m) \in Cells /\ Without(s, m) \in Cells
        /\ Len(Without(s, m)) = Len(s) - m
        /\ \A i \in 1..(Len(s) - m) : Without(s, m)[i] = s[m + i]
    BY <2>1, PartsAreCells
  <2>3. /\ First(s, m) \in Cells /\ Without(s, m) \in Cells
        /\ Len(Without(s, m)) = Len(s) - m
        /\ \A i \in 1..Len(Without(s, m)) : Without(s, m)[i] = s[m + i]
    BY <2>2
  <2> QED BY <2>3, Zenon DEF m, s
<1>8. e(k).cells = cells(k) \o begun(k) /\ e(k).torn = torn(k)
      /\ e(k).server = socket[k].server /\ e(k).client = socket[k].client
  BY <1>3 DEF SocketShape
<1>9. more(k).rest = rest(k) /\ more(k).pkt = report.pkt /\ more(k).on = on(k)
      /\ more(k).list = report.list
  <2> HIDE DEF rest, on
  <2> QED BY <1>1 DEF ReportShape
<1> HIDE DEF n, begun, e, more, rest
<1>10. /\ Len(socket') = Len(socket) /\ socket'[k] = e(k)
       /\ \A j \in Sockets \ {k} : socket'[j] = socket[j]
  BY <1>1, <1>3, <1>4 DEF Sockets
<1>11. \A j \in Sockets \ {k} : sent'[j] = sent[j]
  BY <1>1, <1>3, <1>4 DEF Sockets
<1>12. NextSession.on = 0 /\ Ready(NextSession)
  BY <1>1, NextSessionReady DEF Ready
<1>13. report.on # 0 => /\ report.on \in Sockets
                        /\ socket[report.on].server => report.on = k
  BY <1>1, <1>2 DEF Reporting
<1>14. ASSUME NEW j \in Sockets \ {k} PROVE Calm(j)
  <2>1. socket[j].server => report.on # j
    BY <1>1, <1>13, <1>14 DEF Sockets
  <2>2. socket[j].server => report'.on # j
    <3>1. j # 0
      BY <1>14 DEF Sockets
    <3>2. report'.on \in {0, k, report.on}
      BY <1>4, <1>9, <1>12
    <3> QED BY <1>14, <2>1, <3>1, <3>2
  <2> QED BY <1>10, <1>11, <1>14, <2>1, <2>2 DEF Calm
<1>15. Len(report.rest) \in 1..PacketSize
       /\ (report.on = 0 <=> Len(report.rest) = PacketSize)
       /\ \A i \in 1..Len(report.rest) :
             report.rest[i] = <<report.pkt, PacketSize - Len(report.rest) + i>>
  BY <1>1 DEF Reporting
<1>16. rest(k) = <<>> <=> n(k) = Len(report.rest)
  <2>1. rest(k) = <<>> <=> Len(rest(k)) = 0
    BY <1>7 DEF Cells
  <2> QED BY <1>1, <1>6, <1>7, <2>1
<1>17. Reporting'
  <2>1. CASE report' = NextSession
    BY <1>12, <2>1, ReadyIsReporting
  <2>2. CASE rest(k) # <<>> /\ report' = more(k)
    <3>1. /\ report'.rest = rest(k) /\ report'.pkt = report.pkt /\ report'.on = on(k)
          /\ report'.list = report.list
      BY <1>9, <2>2
    <3>2. Len(rest(k)) \in 1..PacketSize
      BY <1>1, <1>6, <1>7, <1>15, <1>16, <2>2
    <3>3. ASSUME NEW i \in 1..Len(rest(k))
          PROVE  rest(k)[i] = <<report.pkt, PacketSize - Len(rest(k)) + i>>
      <4>1. n(k) + i \in 1..Len(report.rest)
        BY <1>1, <1>6, <1>7
      <4>2. rest(k)[i] = <<report.pkt, PacketSize - Len(report.rest) + (n(k) + i)>>
        BY <1>7, <1>15, <4>1
      <4>3. PacketSize - Len(report.rest) + (n(k) + i) = PacketSize - Len(rest(k)) + i
        BY <1>1, <1>6, <1>7
      <4> QED BY <4>2, <4>3
    <3>4. on(k) = 0 <=> Len(rest(k)) = PacketSize
      BY <1>1, <1>3, <1>6, <1>7, <1>15
    <3>5. on(k) \in Sockets' \cup {0}
      BY <1>2, <1>10, <1>13 DEF Sockets
    <3>6. Current' = Current
      BY <3>1 DEF Current
    <3>7. on(k) # 0 /\ socket'[on(k)].server =>
            Current \in DOMAIN opened /\ opened[Current] = on(k)
      <4>1. CASE on(k) = k
        BY <1>2, <1>3, <4>1
      <4>2. CASE on(k) = report.on /\ report.on # k
        BY <1>10, <1>13, <4>2
      <4> QED BY <4>1, <4>2
    <3>8. report' # NoReport
      <4>1. NoReport.rest = <<>>
        BY DEF NoReport
      <4> QED BY <2>2, <3>1, <4>1
    <3> HIDE DEF on
    <3> QED BY <3>1, <3>2, <3>3, <3>4, <3>5, <3>6, <3>7, <3>8 DEF Reporting
  <2> QED BY <1>4, <2>1, <2>2
<1>18. ASSUME NEW all \in Cells, NEW q \in Seq(Nat), Delivers(k, all, q),
              ~socket'[k].torn, NEW w, w = all \o begun(k), NEW u, u = Append(q, report.pkt)
       PROVE  /\ rest(k) = <<>> => Delivers(k, w, u)'
              /\ rest(k) # <<>> => Delivers(k, w, q)'
  <2> DEFINE m == Len(report.rest)
             r == PacketSize - m + n(k)
  <2>0. PacketSize \in Nat /\ m \in 1..PacketSize /\ n(k) \in 0..m
    BY <1>1, <1>6, <1>15
  <2>1. report.on \in {0, k} /\ ~(last /\ rest(k) # <<>> /\ Len(rest(k)) < PacketSize)
    BY <1>8, <1>10, <1>18
  <2>2. Carries(w, q, report.pkt, r)
    <3> HIDE DEF n
    <3> QED BY <1>3, <1>6, <1>18, <2>1, SentCells DEF begun
  <2>3. w \in Cells
    BY <1>7, <1>18, CellsJoin
  <2>4. PICK p \in Nat : p = report.pkt
    BY <1>1
  <2>5. CASE rest(k) = <<>>
    <3>1. r = PacketSize
      <4>1. n(k) = m
        BY <1>16, <2>5
      <4> HIDE DEF m
      <4> QED BY <2>0, <4>1
    <3> HIDE DEF r
    <3>2. Carries(w, Append(q, p), p, 0)
      BY <2>2, <2>3, <2>4, <3>1, CarryWhole
    <3>3. report' = NextSession /\ report'.on # k
      BY <1>3, <1>4, <1>12, <2>5
    <3>4. Part(k)' = 0
      BY <3>3 DEF Part
    <3>5. 0 \in 0..(PacketSize - 1) /\ ~(0 > 0)
      BY <1>1
    <3>6. Carries(w, u, p, 0)
      BY <1>18, <2>4, <3>2
    <3>7. Delivers(k, w, u)'
      BY <3>4, <3>5, <3>6 DEF Delivers
    <3> QED BY <2>5, <3>7
  <2>6. CASE rest(k) # <<>>
    <3>1. PICK i \in 0..(PacketSize - 1) : i = r
      <4>1. n(k) # m
        BY <1>16, <2>6
      <4>2. r \in 0..(PacketSize - 1)
        <5> HIDE DEF m
        <5> QED BY <2>0, <4>1
      <4> HIDE DEF r
      <4> QED BY <4>2
    <3>2. i = Part(k)' /\ (i > 0 => p = report'.pkt)
      <4>1. CASE last
        <5>1. Len(rest(k)) = PacketSize
          <6>1. Len(rest(k)) <= PacketSize
            BY <1>1, <1>6, <1>7, <1>15
          <6>2. Len(rest(k)) \in Nat
            BY <1>7 DEF Cells
          <6> QED BY <1>1, <2>1, <2>6, <4>1, <6>1, <6>2
        <5>2. i = 0
          BY <1>1, <1>6, <1>7, <1>15, <3>1, <5>1, SMTT(20)
        <5>3. report'.on # k
          BY <1>3, <1>4, <1>12, <2>6, <4>1
        <5> QED BY <5>2, <5>3 DEF Part
      <4>2. CASE ~last
        <5>1. report'.rest = rest(k) /\ report'.pkt = p /\ report'.on = on(k)
          BY <1>4, <1>9, <2>4, <2>6, <4>2
        <5>2. i = PacketSize - Len(rest(k))
          BY <1>1, <1>6, <1>7, <3>1
        <5>3. CASE on(k) = k
          BY <5>1, <5>2, <5>3 DEF Part
        <5>4. CASE on(k) # k
          <6>1. report.on = 0 /\ ~(n(k) > 0)
            BY <2>1, <5>4
          <6>2. i = 0
            BY <1>1, <1>6, <1>15, <3>1, <6>1
          <6> QED BY <5>1, <5>4, <6>2 DEF Part
        <5> QED BY <5>3, <5>4
      <4> QED BY <4>1, <4>2
    <3>3. Carries(w, q, p, i)
      BY <2>2, <2>3, <2>4, <3>1
    <3>4. Delivers(k, w, q)'
      BY <3>2, <3>3 DEF Delivers
    <3> QED BY <2>6, <3>4
  <2> QED BY <2>5, <2>6
<1>19. Owners'
  <2>1. \A j \in Sockets : socket'[j].client = socket[j].client
    BY <1>8, <1>10
  <2>2. Sockets' = Sockets
    BY <1>10 DEF Sockets
  <2>3. ASSUME NEW c \in Clients PROVE Owned(c)' /\ Mine(c)' = Mine(c)
    <3>1. Mine(c)' = Mine(c)
      BY DEF Mine
    <3> QED BY <2>1, <2>2, <3>1, MineIs DEF Owned
  <2> QED BY <2>3 DEF Streams, Owners
<1>20. ASSUME NEW c \in Clients PROVE Hears(c)'
  <2>1. CASE client[c].fd # k
    <3>1. client[c].fd # 0 => Calm(client[c].fd)
      BY <1>14, <2>1, MineIs
    <3> QED BY <1>1, <1>10, <3>1, HearsStays
  <2>2. CASE client[c].fd = k
    <3> SUFFICES ASSUME ~client[c].torn, ~socket'[k].torn PROVE Hears(c)'
      BY <2>2 DEF Hears
    <3>1. ~socket[k].torn
      BY <1>8, <1>10
    <3>2. PICK q \in Seq(Nat) : /\ sent[k] = client[c].heard \o q
                                /\ Delivers(k, client[c].circBuf \o socket[k].cells, q)
      BY <1>3, <2>2, <3>1 DEF Streams, Hears
    <3>3. client[c].circBuf \in Cells /\ client[c].heard \in Seq(Nat)
      BY <1>1 DEF Shape, ClientShape
    <3>4. PICK all \in Cells : all = client[c].circBuf \o socket[k].cells
      BY <1>5, <3>3, CellsJoin
    <3>5. client'[c].circBuf \o socket'[k].cells = all \o begun(k)
      <4>1. socket'[k].cells = socket[k].cells \o begun(k)
        BY <1>8, <1>10
      <4>2. PICK a \in Cells, b \in Cells, d \in Cells :
              a = client[c].circBuf /\ b = socket[k].cells /\ d = begun(k)
        BY <1>5, <1>7, <3>3
      <4>3. (a \o b) \o d = a \o (b \o d)
        BY CellsAssociate
      <4> QED BY <3>4, <4>1, <4>2, <4>3
    <3>6. PICK w, u : w = all \o begun(k) /\ u = Append(q, report.pkt)
      OBVIOUS
    <3>7. CASE rest(k) = <<>>
      <4>1. u \in Seq(Nat)
        BY <1>1, <3>6
      <4>2. Delivers(k, w, u)'
        BY <1>18, <3>2, <3>4, <3>6, <3>7
      <4>3. sent'[k] = client[c].heard \o u
        <5>1. sent'[k] = Append(sent[k], report.pkt)
          BY <1>1, <1>3, <1>4, <3>7
        <5>2. Append(client[c].heard \o q, report.pkt) = client[c].heard \o u
          <6>1. PICK h \in Seq(Nat), p \in Nat : h = client[c].heard /\ p = report.pkt
            BY <1>1, <3>3
          <6>2. Append(h \o q, p) = h \o Append(q, p)
            BY AppendConcat
          <6> QED BY <3>6, <6>1, <6>2
        <5> QED BY <3>2, <5>1, <5>2
      <4> QED BY <2>2, <3>5, <3>6, <4>1, <4>2, <4>3 DEF Hears
    <3>8. CASE rest(k) # <<>>
      <4>1. Delivers(k, w, q)'
        BY <1>18, <3>2, <3>4, <3>6, <3>8
      <4>2. sent'[k] = client[c].heard \o q
        BY <1>4, <3>2, <3>8
      <4> QED BY <2>2, <3>5, <3>6, <4>1, <4>2 DEF Hears
    <3> QED BY <3>7, <3>8
  <2> QED BY <2>1, <2>2
<1>21. ASSUME NEW c \in Clients, NEW t \in Threads PROVE Waits(c, t)'
  <2>1. CASE pc[c][t].fd # k
    <3>1. pc[c][t].at = "created" => Calm(pc[c][t].fd)
      BY <1>14, <2>1, MineIs
    <3> QED BY <3>1, WaitsStays
  <2>2. CASE pc[c][t].fd = k
    <3> SUFFICES ASSUME pc[c][t].at = "created", ~socket'[k].torn PROVE Waits(c, t)'
      BY <2>2 DEF Waits
    <3>1. ~socket[k].torn
      BY <1>8, <1>10
    <3>2. PICK q \in Seq(Nat) : q = sent[k]
      BY <1>1, <1>3
    <3>3. PICK all \in Cells : all = socket[k].cells
      BY <1>5
    <3>4. Delivers(k, all, q)
      BY <2>2, <3>1, <3>2, <3>3 DEF Streams, Waits
    <3>5. PICK w, u : w = all \o begun(k) /\ u = Append(q, report.pkt)
      OBVIOUS
    <3>6. socket'[k].cells = w
      BY <1>8, <1>10, <3>3, <3>5
    <3>7. CASE rest(k) = <<>>
      <4>1. Delivers(k, w, u)'
        BY <1>18, <3>4, <3>5, <3>7
      <4>2. sent'[k] = u
        BY <1>1, <1>3, <1>4, <3>2, <3>5, <3>7
      <4> QED BY <2>2, <3>6, <4>1, <4>2 DEF Waits
    <3>8. CASE rest(k) # <<>>
      <4>1. Delivers(k, w, q)'
        BY <1>18, <3>4, <3>5, <3>8
      <4>2. sent'[k] = q
        BY <1>4, <3>2, <3>8
      <4> QED BY <2>2, <3>6, <4>1, <4>2 DEF Waits
    <3> QED BY <3>7, <3>8
  <2> QED BY <2>1, <2>2
<1> QED BY <1>17, <1>19, <1>20, <1>21 DEF Streams

-----------------------------------------------------------------------------
(* Receiving                                                               *)

\* The two parts of a sequence of cells make it up.
LEMMA PartsJoin ==
    ASSUME NEW s \in Cells, NEW n \in 0..Len(s)
    PROVE  First(s, n) \o Without(s, n) = s
<1>1. s \in Seq(Nat \X Nat) /\ Len(s) \in Nat
  BY DEF Cells
<1> DEFINE S == Nat \X Nat
           m == 1
<1>2. s \in Seq(S) /\ m \in 1..(Len(s) + 1) /\ n \in (m - 1)..Len(s) /\ Len(s) \in n..Len(s)
  BY <1>1
<1> HIDE DEF S, m
<1>3. SubSeq(s, m, n) \o SubSeq(s, n + 1, Len(s)) = SubSeq(s, m, Len(s))
  BY <1>2, ConcatAdjacentSubSeq
<1>4. SubSeq(s, 1, Len(s)) = s
  BY <1>1, SubSeqFull
<1> QED BY <1>3, <1>4 DEF First, Without, m

\* What is sent no more on a socket stays on its way through the steps of the reader.
LEMMA ReaderReports ==
    ASSUME IInv, Streams, Len(socket') = Len(socket), UNCHANGED <<report, opened>>,
           \A k \in Sockets : socket'[k].server = socket[k].server
    PROVE  Reporting'
<1>1. Len(socket) \in Nat /\ Partial(opened, Nat, Sockets)
  BY DEF IInv, Shape
<1>2. \A fd \in DOMAIN opened : opened[fd] \in Sockets
  BY <1>1 DEF Partial
<1> QED BY <1>1, <1>2, ReportingStays

\* Cells that go from the socket into the buffer stay in their order.
LEMMA ReceiveStreams ==
    ASSUME IInv, Streams, NEW c \in Clients, Receive(c)
    PROVE  Streams'
<1> DEFINE k == client[c].fd
           cells == socket[k].cells
           n == Least(BufSize, Len(cells))
           data == First(cells, n)
           left == Without(cells, n)
           buf == Write(client[c].circBuf, data)
           torn == client[c].torn \/ ~Fits(client[c].circBuf, data)
           e == [socket[k] EXCEPT !.cells = left]
           x == [[[client[c] EXCEPT !.circBuf = buf] EXCEPT !.torn = torn] EXCEPT
                     !.reading = 0]
<1>1. /\ k \in Sockets /\ socket[k] \in SocketShape /\ Len(socket) \in Nat
      /\ socket \in Seq(SocketShape) /\ client[c] \in ClientShape
      /\ client \in [Clients -> ClientShape]
  BY DEF IInv, Receive, Shape, Sockets
<1>2. /\ cells \in Cells /\ Len(cells) \in Nat /\ client[c].circBuf \in Cells
  BY <1>1 DEF SocketShape, Buffered, Cells, ClientShape
<1>3. n \in 0..Len(cells)
  <2> HIDE DEF cells, data, left, buf, torn, e, x
  <2>1. BufSize \in Nat /\ BufSize \in Int /\ Len(cells) \in Int
    BY <1>2, StreamAssumption
  <2>2. n <= Len(cells) /\ n \in {BufSize, Len(cells)}
    BY <2>1, LeastIs
  <2> QED BY <1>2, <2>1, <2>2
<1>4. data \in Cells /\ left \in Cells /\ data \o left = cells
  <2> HIDE DEF n, cells
  <2>1. PICK s \in Cells : s = cells
    BY <1>2
  <2>2. PICK m \in 0..Len(s) : m = n
    BY <1>3, <2>1
  <2>3. First(s, m) \in Cells /\ Without(s, m) \in Cells
    BY PartsAreCells
  <2>4. First(s, m) \o Without(s, m) = s
    BY PartsJoin
  <2> QED BY <2>1, <2>2, <2>3, <2>4
<1>5. socket' = [socket EXCEPT ![k] = e] /\ client' = [client EXCEPT ![c] = x]
      /\ UNCHANGED <<opened, report, pc, sent>>
  BY DEF Receive
<1> HIDE DEF n, data, left, buf, torn, cells
<1>6. e.cells = left /\ e.server = socket[k].server /\ e.client = socket[k].client
      /\ e.torn = socket[k].torn
  BY <1>1 DEF SocketShape
<1>7. x.fd = k /\ x.circBuf = buf /\ x.heard = client[c].heard /\ x.torn = torn
  <2> HIDE DEF e
  <2> QED BY <1>1 DEF ClientShape
<1> HIDE DEF e, x
<1>8. /\ Len(socket') = Len(socket) /\ socket'[k] = e
      /\ \A j \in Sockets \ {k} : socket'[j] = socket[j]
      /\ client'[c] = x /\ \A d \in Clients \ {c} : client'[d] = client[d]
  BY <1>1, <1>5 DEF Sockets
<1>9. \A j \in Sockets \ {k} : Calm(j)
  BY <1>5, <1>8 DEF Calm
<1>10. Reporting'
  BY <1>5, <1>6, <1>8, ReaderReports
<1>11. k \in Mine(c) /\ Owned(c) /\ Mine(c) \subseteq Sockets /\ k # 0
  BY <1>1, MineIs
<1>12. Mine(c)' = Mine(c)
  BY <1>5, <1>7, <1>8 DEF Mine
<1>13. Owned(c)'
  <2>1. Sockets' = Sockets
    BY <1>8 DEF Sockets
  <2>2. \A j \in Sockets : socket'[j].client = socket[j].client
    BY <1>6, <1>8
  <2> QED BY <1>1, <1>5, <1>7, <1>8, <1>11, <1>12, <2>1, <2>2, MineIs DEF Owned
<1>14. Hears(c)'
  <2> SUFFICES ASSUME ~torn, ~socket[k].torn PROVE Hears(c)'
    BY <1>6, <1>7, <1>8 DEF Hears
  <2>1. PICK j \in Nat : j = k
    BY <1>1, MineIs
  <2>2. PICK all : all = client[c].circBuf \o cells
    OBVIOUS
  <2>3. PICK q \in Seq(Nat) : sent[j] = client[c].heard \o q /\ Delivers(j, all, q)
    BY <1>11, <2>1, <2>2 DEF Streams, Hears, torn, cells
  <2>4. Delivers(j, all, q)'
    BY <1>5, <1>6, <1>8, <2>1, <2>3, DeliversStays
  <2>5. buf \o left = all
    <3>1. buf = client[c].circBuf \o data
      BY DEF buf, Write, torn
    <3>2. (client[c].circBuf \o data) \o left = client[c].circBuf \o (data \o left)
      BY <1>2, <1>4, CellsAssociate
    <3> QED BY <1>4, <2>2, <3>1, <3>2
  <2>6. client'[c].fd = j /\ client'[c].circBuf \o socket'[j].cells = all
        /\ sent'[j] = client'[c].heard \o q
    BY <1>5, <1>6, <1>7, <1>8, <2>1, <2>3, <2>5
  <2> QED BY <2>4, <2>6 DEF Hears
<1>15. ASSUME NEW t \in Threads PROVE Waits(c, t)'
  <2>1. pc[c][t].at = "created" => pc[c][t].fd \in Sockets \ {k}
    BY <1>11, MineIs DEF Owned
  <2> QED BY <1>5, <1>9, <2>1, WaitsStays
<1>16. \A j \in Sockets \ Mine(c) : Calm(j)
  BY <1>9, <1>11
<1> QED BY <1>1, <1>5, <1>8, <1>10, <1>12, <1>13, <1>14, <1>15, <1>16, OneStreams

\* Sequences of cells are equal when their cells are.
LEMMA SameCells ==
    ASSUME NEW s \in Cells, NEW u \in Cells, Len(s) = Len(u),
           \A i \in 1..Len(s) : s[i] = u[i]
    PROVE  s = u
<1> DEFINE S == Nat \X Nat
<1>1. s \in Seq(S) /\ u \in Seq(S)
  BY DEF Cells
<1> HIDE DEF S
<1> QED BY <1>1, SeqEqual

\* While the reader is in step it stands at a header, and takes the first packet of
\* those on their way when all its cells have arrived.
LEMMA ReaderInStep ==
    ASSUME NEW buf \in Cells, NEW rest \in Cells, NEW q \in Seq(Nat), NEW p \in Nat,
           NEW r \in 0..(PacketSize - 1), Carries(buf \o rest, q, p, r),
           Len(buf) >= HeadSize
    PROVE  /\ HeadSizes(buf) = {BodySize}
           /\ Len(buf) >= PacketSize =>
                 /\ q # <<>> /\ Parsed(buf, PacketSize) = Head(q)
                 /\ AfterPacket(buf, BodySize) \in Cells
                 /\ Carries(AfterPacket(buf, BodySize) \o rest, Tail(q), p, r)
<1> DEFINE all == buf \o rest
<1>1. /\ PacketSize \in Nat \ {0} /\ HeadSize \in Nat \ {0} /\ BodySize \in Nat \ {0}
      /\ PacketSize = HeadSize + BodySize /\ HeadSize \in 1..PacketSize
      /\ Len(buf) \in Nat /\ Len(rest) \in Nat
  BY Sizes DEF Cells
<1>2. /\ all \in Cells /\ Len(all) = Len(buf) + Len(rest)
      /\ \A j \in 1..Len(buf) : all[j] = buf[j]
      /\ \A j \in 1..Len(rest) : all[Len(buf) + j] = rest[j]
  <2>1. buf \in Seq(Nat \X Nat) /\ rest \in Seq(Nat \X Nat)
    BY DEF Cells
  <2>2. /\ all \in Seq(Nat \X Nat) /\ Len(all) = Len(buf) + Len(rest)
        /\ \A j \in 1..(Len(buf) + Len(rest)) :
              all[j] = IF j <= Len(buf) THEN buf[j] ELSE rest[j - Len(buf)]
    BY <2>1, ConcatProperties
  <2> HIDE DEF all
  <2>3. ASSUME NEW j \in 1..Len(rest) PROVE all[Len(buf) + j] = rest[j]
    <3>1. Len(buf) + j \in 1..(Len(buf) + Len(rest)) /\ ~(Len(buf) + j <= Len(buf))
          /\ (Len(buf) + j) - Len(buf) = j
      BY <1>1
    <3> QED BY <2>2, <3>1
  <2>4. ASSUME NEW j \in 1..Len(buf) PROVE all[j] = buf[j]
    <3>1. j \in 1..(Len(buf) + Len(rest)) /\ j <= Len(buf)
      BY <1>1
    <3> QED BY <2>2, <3>1
  <2> QED BY <2>2, <2>3, <2>4 DEF Cells
<1> HIDE DEF all
<1>3. PICK x \in Nat : /\ q # <<>> => x = Head(q)
                       /\ \A j \in 1..PacketSize : j <= Len(all) => all[j] = <<x, j>>
  <2>1. Carries(all, q, p, r)
    BY DEF all
  <2> QED BY <1>2, <2>1, BeginsWith
<1>4. \A j \in 1..PacketSize : j <= Len(buf) => buf[j] = <<x, j>>
  BY <1>1, <1>2, <1>3
<1>5. Head(buf) = <<x, 1>> /\ Head(buf)[1] = x
  <2>1. 1 \in 1..PacketSize /\ 1 <= Len(buf)
    BY <1>1
  <2>2. buf[1] = <<x, 1>>
    BY <1>4, <2>1
  <2>3. Head(buf) = buf[1]
    BY <2>1 DEF Cells
  <2> QED BY <2>2, <2>3
<1>6. ASSUME NEW n \in 1..PacketSize, n <= Len(buf)
      PROVE  First(buf, n) = First(MakeData(x), n)
  <2>1. MakeData(x) \in Cells /\ Len(MakeData(x)) = PacketSize
        /\ \A i \in 1..PacketSize : MakeData(x)[i] = <<x, i>>
    BY MakeDataIs
  <2>2. n \in 0..Len(buf) /\ n \in 0..Len(MakeData(x))
    BY <1>1, <1>6, <2>1
  <2>3. /\ First(buf, n) \in Cells /\ Len(First(buf, n)) = n
        /\ \A i \in 1..n : First(buf, n)[i] = buf[i]
    BY <2>2, PartsAreCells
  <2>4. /\ First(MakeData(x), n) \in Cells /\ Len(First(MakeData(x), n)) = n
        /\ \A i \in 1..n : First(MakeData(x), n)[i] = MakeData(x)[i]
    BY <2>1, <2>2, PartsAreCells
  <2>5. ASSUME NEW i \in 1..n PROVE First(buf, n)[i] = First(MakeData(x), n)[i]
    <3>1. i \in 1..PacketSize /\ i <= Len(buf)
      BY <1>1, <1>6
    <3> QED BY <1>4, <2>1, <2>3, <2>4, <3>1
  <2> QED BY <2>3, <2>4, <2>5, SameCells
<1>7. AtHeader(buf)
  <2>1. First(buf, HeadSize) = First(MakeData(x), HeadSize)
    BY <1>1, <1>6
  <2> QED BY <1>5, <2>1 DEF AtHeader
<1>8. HeadSizes(buf) = {BodySize}
  BY <1>7 DEF HeadSizes
<1>9. ASSUME Len(buf) >= PacketSize
      PROVE  /\ q # <<>> /\ Parsed(buf, PacketSize) = Head(q)
             /\ AfterPacket(buf, BodySize) \in Cells
             /\ Carries(AfterPacket(buf, BodySize) \o rest, Tail(q), p, r)
  <2> DEFINE after == AfterPacket(buf, BodySize)
             left == after \o rest
  <2>1. PacketSize \in 0..Len(buf) /\ PacketSize \in 1..PacketSize
    BY <1>1, <1>9
  <2>2. /\ after \in Cells /\ Len(after) = Len(buf) - PacketSize
        /\ \A i \in 1..(Len(buf) - PacketSize) : after[i] = buf[PacketSize + i]
    <3>1. after = Without(buf, PacketSize)
      BY <1>1 DEF AfterPacket
    <3>2. /\ Without(buf, PacketSize) \in Cells
          /\ Len(Without(buf, PacketSize)) = Len(buf) - PacketSize
          /\ \A i \in 1..(Len(buf) - PacketSize) :
                Without(buf, PacketSize)[i] = buf[PacketSize + i]
      BY <2>1, PartsAreCells
    <3> HIDE DEF after
    <3> QED BY <3>1, <3>2
  <2> HIDE DEF after
  <2>3. /\ left \in Seq(Nat \X Nat) /\ Len(left) = Len(after) + Len(rest)
        /\ \A j \in 1..(Len(after) + Len(rest)) :
              left[j] = IF j <= Len(after) THEN after[j] ELSE rest[j - Len(after)]
    <3>1. after \in Seq(Nat \X Nat) /\ rest \in Seq(Nat \X Nat)
      BY <2>2 DEF Cells
    <3> QED BY <3>1, ConcatProperties
  <2> HIDE DEF left
  <2>4. ASSUME NEW i \in 1..Len(left) PROVE left[i] = all[PacketSize + i]
    <3>1. CASE i <= Len(after)
      <4>1. i \in 1..(Len(buf) - PacketSize) /\ PacketSize + i \in 1..Len(buf)
            /\ i \in 1..(Len(after) + Len(rest))
        BY <1>1, <2>1, <2>2, <2>3, <3>1
      <4> QED BY <1>2, <2>2, <2>3, <3>1, <4>1
    <3>2. CASE ~(i <= Len(after))
      <4> DEFINE j == i - Len(after)
      <4>1. j \in 1..Len(rest) /\ PacketSize + i = Len(buf) + j
            /\ i \in 1..(Len(after) + Len(rest))
        BY <1>1, <2>1, <2>2, <2>3, <3>2
      <4>2. left[i] = rest[j]
        BY <2>3, <3>2, <4>1
      <4>3. all[PacketSize + i] = rest[j]
        <5> HIDE DEF j
        <5> QED BY <1>2, <4>1
      <4> QED BY <4>2, <4>3
    <3> QED BY <3>1, <3>2
  <2>5. left \in Cells /\ Len(left) = Len(all) - PacketSize /\ Len(all) >= PacketSize
    BY <1>1, <1>2, <1>9, <2>2, <2>3 DEF Cells
  <2>6. Carries(all, q, p, r)
    BY DEF all
  <2>7. q # <<>> /\ Carries(left, Tail(q), p, r)
    BY <1>2, <2>4, <2>5, <2>6, TakeOne
  <2>8. Parsed(buf, PacketSize) = x
    <3>1. First(buf, PacketSize) = First(MakeData(x), PacketSize)
      BY <1>6, <1>9, <2>1
    <3>2. First(MakeData(x), PacketSize) = MakeData(x)
      <4>1. PICK d \in Cells : d = MakeData(x) /\ Len(d) = PacketSize
        BY MakeDataIs
      <4>2. SubSeq(d, 1, Len(d)) = d
        BY <4>1, SubSeqFull DEF Cells
      <4> QED BY <4>1, <4>2 DEF First
    <3> QED BY <1>5, <3>1, <3>2 DEF Parsed
  <2> QED BY <1>3, <2>2, <2>7, <2>8 DEF left, after
<1> QED BY <1>8, <1>9

\* The first packet to come is the last one heard when it is taken.
LEMMA HeadMoves ==
    ASSUME NEW h \in Seq(Nat), NEW q \in Seq(Nat), q # <<>>
    PROVE  h \o q = Append(h, Head(q)) \o Tail(q)
<1> DEFINE p == Head(q)
           v == Tail(q)
           u == <<p>>
           S == Nat
<1>1. p \in S /\ v \in Seq(S) /\ u \in Seq(S) /\ h \in Seq(S)
  BY HeadTailProperties
<1>2. q = u \o v
  <2>1. Len(q) \in Nat /\ Len(u \o v) = Len(q)
    BY <1>1
  <2>2. \A i \in 1 .. Len(q) : q[i] = (u \o v)[i]
    BY <1>1
  <2>3. u \o v \in Seq(S) /\ q \in Seq(S)
    BY <1>1
  <2> HIDE DEF u, v, p, S
  <2> QED BY <2>1, <2>2, <2>3, SeqEqual
<1>3. Append(h, p) = h \o u
  BY <1>1, AppendIsConcat
<1> HIDE DEF p, v, u, S
<1>4. (h \o u) \o v = h \o (u \o v)
  BY <1>1, ConcatAssociative, SMTT(20)
<1> QED BY <1>2, <1>3, <1>4 DEF p, v

\* The reader takes packets one by one and leaves the cells of those to come.
LEMMA OnReadPacketsStreams ==
    ASSUME IInv, Streams, NEW c \in Clients, OnReadPackets(c)
    PROVE  Streams'
<1> DEFINE buf == client[c].circBuf
<1>1. /\ client[c] \in ClientShape /\ client \in [Clients -> ClientShape]
      /\ buf \in Cells /\ Len(buf) \in Nat /\ client[c].heard \in Seq(Nat)
      /\ socket \in Seq(SocketShape) /\ Len(socket) \in Nat
  BY DEF IInv, Shape, ClientShape, Cells
<1>2. UNCHANGED <<opened, report, socket, pc, sent>>
  BY DEF OnReadPackets
<1>3. PICK x : Reader(x, c) /\ client' = [client EXCEPT ![c] = x]
  BY ReaderTurns
<1>4. client'[c] = x /\ x.fd = client[c].fd
      /\ \A d \in Clients \ {c} : client'[d] = client[d]
  BY <1>1, <1>3 DEF Reader
<1>5. \A k : Calm(k)
  BY <1>2 DEF Calm
<1>6. Reporting'
  BY <1>2, ReaderReports
<1>7. Mine(c)' = Mine(c)
  BY <1>2, <1>4 DEF Mine
<1>8. Owned(c)'
  <2>1. Sockets' = Sockets
    BY <1>2 DEF Sockets
  <2> QED BY <1>2, <1>4, <1>7, <2>1, MineIs DEF Owned
<1>9. \A t \in Threads : Waits(c, t)'
  BY <1>2, <1>5, WaitsStays
<1>10. ASSUME client[c].fd # 0 => /\ client'[c].circBuf = client[c].circBuf
                                  /\ client'[c].heard = client[c].heard
                                  /\ client'[c].torn = client[c].torn
       PROVE  Hears(c)'
  BY <1>1, <1>2, <1>4, <1>5, <1>10, HearsStays
<1>11. CASE StopReading(c)
  <2>1. client'[c] = [client[c] EXCEPT !.reading = -1]
    BY <1>1, <1>11 DEF StopReading
  <2>2. /\ client'[c].circBuf = client[c].circBuf /\ client'[c].heard = client[c].heard
        /\ client'[c].torn = client[c].torn
    BY <1>1, <2>1 DEF ClientShape
  <2>3. Hears(c)'
    BY <1>10, <2>2
  <2> QED BY <1>1, <1>2, <1>4, <1>5, <1>6, <1>7, <1>8, <1>9, <2>3, OneStreams
<1>12. CASE \E size \in HeadSizes(buf) : Len(buf) >= HeadSize /\ TakePacket(c, size)
              /\ ~StopReading(c)
  <2>1. PICK size \in HeadSizes(buf) : Len(buf) >= HeadSize /\ TakePacket(c, size)
                                       /\ ~StopReading(c)
    BY <1>12
  <2>2. client'[c].torn = client[c].torn
    <3>1. CASE client' = [client EXCEPT ![c] = [client[c] EXCEPT !.circBuf = <<>>,
                                                                !.reading = -1]]
      BY <1>1, <3>1 DEF ClientShape
    <3>2. CASE client' = [client EXCEPT ![c] = [client[c] EXCEPT
                     !.circBuf = AfterPacket(buf, size),
                     !.heard = Append(@, Parsed(buf, HeadSize + size)),
                     !.reading = IF Len(buf) = HeadSize + size THEN -1 ELSE @ + 1]]
      BY <1>1, <3>2 DEF ClientShape
    <3> QED BY <2>1, <3>1, <3>2 DEF TakePacket
  <2>3. Hears(c)'
    <3> SUFFICES ASSUME client[c].fd # 0, ~client[c].torn, ~socket[client[c].fd].torn
                 PROVE  Hears(c)'
      BY <1>2, <1>4, <2>2 DEF Hears
    <3>1. PICK k \in Sockets : k = client[c].fd
      BY MineIs
    <3>2. PICK q \in Seq(Nat) : /\ sent[k] = client[c].heard \o q
                                /\ Delivers(k, client[c].circBuf \o socket[k].cells, q)
      BY <3>1 DEF Streams, Hears
    <3>3. PICK b \in Cells, rest \in Cells : b = client[c].circBuf /\ rest = socket[k].cells
      <4>1. socket[k] \in SocketShape
        BY <1>1 DEF Sockets
      <4> QED BY <1>1, <4>1 DEF SocketShape, Buffered
    <3>4. PICK r \in 0..(PacketSize - 1), p \in Nat :
            /\ Carries(b \o rest, q, p, r)
            /\ socket[k].server => r = Part(k) /\ (r > 0 => p = report.pkt)
      BY <3>2, <3>3 DEF Delivers
    <3>5. /\ HeadSizes(b) = {BodySize}
          /\ Len(b) >= PacketSize =>
                /\ q # <<>> /\ Parsed(b, PacketSize) = Head(q)
                /\ AfterPacket(b, BodySize) \in Cells
                /\ Carries(AfterPacket(b, BodySize) \o rest, Tail(q), p, r)
      BY <2>1, <3>3, <3>4, ReaderInStep
    <3>6. size = BodySize /\ ~BadSize(size) /\ HeadSize + size = PacketSize
      <4>1. size = BodySize
        BY <2>1, <3>3, <3>5
      <4>2. BodySize \in Nat /\ HeadSize \in Nat /\ BufSize \in Nat
            /\ HeadSize + BodySize <= BufSize
        BY StreamAssumption
      <4>3. ~(BodySize > BufSize)
        BY <4>2
      <4> QED BY <4>1, <4>3 DEF BadSize, PacketSize
    <3>7. /\ ~Incomplete(buf, size)
          /\ client' = [client EXCEPT ![c] = [client[c] EXCEPT
                     !.circBuf = AfterPacket(buf, size),
                     !.heard = Append(@, Parsed(buf, HeadSize + size)),
                     !.reading = IF Len(buf) = HeadSize + size THEN -1 ELSE @ + 1]]
      BY <2>1, <3>6 DEF TakePacket
    <3>8. Len(b) >= PacketSize
      <4>1. ~(size > Len(buf) - HeadSize)
        BY <3>6, <3>7 DEF Incomplete
      <4> QED BY <1>1, <3>3, <3>6, <4>1, StreamAssumption
    <3>9. client'[c].circBuf = AfterPacket(b, BodySize)
          /\ client'[c].heard = Append(client[c].heard, Head(q))
      BY <1>1, <3>3, <3>5, <3>6, <3>7, <3>8 DEF ClientShape
    <3>10. PICK u \in Seq(Nat), w \in Cells :
             u = Tail(q) /\ w = AfterPacket(b, BodySize) \o rest
      <4>1. AfterPacket(b, BodySize) \in Cells /\ q # <<>>
        BY <3>5, <3>8
      <4>2. AfterPacket(b, BodySize) \o rest \in Cells
        BY <4>1, CellsJoin
      <4>3. Tail(q) \in Seq(Nat)
        BY <4>1, HeadTailProperties
      <4> QED BY <4>2, <4>3
    <3>11. Delivers(k, w, u)
      BY <3>4, <3>5, <3>8, <3>10 DEF Delivers
    <3>12. Delivers(k, w, u)'
      BY <1>5, <3>1, <3>11, MineIs, DeliversStays DEF Calm
    <3>13. sent'[k] = client'[c].heard \o u
      BY <1>1, <1>2, <3>2, <3>5, <3>8, <3>9, <3>10, HeadMoves
    <3>14. client'[c].circBuf \o socket'[k].cells = w /\ client'[c].fd = k
      BY <1>2, <1>4, <3>1, <3>3, <3>9, <3>10
    <3> QED BY <3>12, <3>13, <3>14 DEF Hears
  <2> QED BY <1>1, <1>2, <1>4, <1>5, <1>6, <1>7, <1>8, <1>9, <2>3, OneStreams
<1> QED BY <1>11, <1>12 DEF OnReadPackets

\* What was heard is the beginning of what was heard and what is to come.
LEMMA FirstOfConcat ==
    ASSUME NEW h \in Seq(Nat), NEW q \in Seq(Nat)
    PROVE  h = First(h \o q, Len(h))
<1> DEFINE n == Len(h)
           s == h \o q
<1>1. s \in Seq(Nat) /\ n \in Nat /\ Len(s) \in Nat /\ n <= Len(s)
      /\ \A i \in 1..n : s[i] = h[i]
  BY ConcatProperties
<1> HIDE DEF s
<1>2. \A i \in 1..n : s[i] \in Nat
  BY <1>1
<1>3. /\ SubSeq(s, 1, n) \in Seq(Nat)
      /\ Len(SubSeq(s, 1, n)) = IF 1 <= n THEN n - 1 + 1 ELSE 0
      /\ \A i \in 1..(n - 1 + 1) : SubSeq(s, 1, n)[i] = s[1 + i - 1]
  BY <1>1, <1>2, SubSeqProperties
<1>4. Len(SubSeq(s, 1, n)) = n /\ \A i \in 1..n : SubSeq(s, 1, n)[i] = h[i]
  BY <1>1, <1>3
<1>5. SubSeq(s, 1, n) = h
  BY <1>3, <1>4, SeqEqual
<1> QED BY <1>5 DEF First, s

-----------------------------------------------------------------------------
(* The theorem                                                             *)

\* With no sockets, nothing is sent and nobody listens.
LEMMA InitStreams ==
    ASSUME Init
    PROVE  Streams
<1>1. /\ socket = <<>> /\ report = NoReport
      /\ client = [c \in Clients |-> NewClient]
      /\ pc = [c \in Clients |-> [t \in Threads |-> Idle]]
  BY DEF Init
<1>2. NewClient.fd = 0 /\ Idle.fd = 0 /\ Idle.at = "idle"
  BY DEF NewClient, Idle
<1>3. ASSUME NEW c \in Clients
      PROVE  client[c].fd = 0 /\ \A t \in Threads : pc[c][t].fd = 0 /\ pc[c][t].at = "idle"
  BY <1>1, <1>2
<1>4. \A c \in Clients : Mine(c) = {}
  BY <1>3 DEF Mine
<1>5. Owners
  BY <1>3, <1>4 DEF Owners, Owned
<1>6. Reporting
  <2>1. NoReport.on = 0
    BY DEF NoReport
  <2> QED BY <1>1, <2>1 DEF Reporting
<1>7. \A c \in Clients : Hears(c) /\ \A t \in Threads : Waits(c, t)
  BY <1>3 DEF Hears, Waits
<1> QED BY <1>5, <1>6, <1>7 DEF Streams

\* Every step keeps the streams.
LEMMA NextStreams ==
    ASSUME IInv, IInv', Streams, [Next]_vars
    PROVE  Streams'
<1>1. CASE UNCHANGED vars
  <2>1. UNCHANGED <<opened, report, socket, client, pc, sent>>
    BY <1>1 DEF vars
  <2>2. Len(socket) \in Nat
    BY DEF IInv, Shape
  <2>3. Reporting'
    BY <2>1, ReaderReports
  <2>4. \A c \in Clients : Keeps(c)
    BY <2>1 DEF Keeps, StaysOrRests, Calm
  <2> QED BY <2>1, <2>2, <2>3, <2>4, AllKeep
<1>2. ASSUME NEW c \in Clients, NEW t \in Threads, CreateSocketChannel(c, t) PROVE Streams'
  BY <1>2, CreateRefusedStreams, CreateAcceptedStreams DEF CreateSocketChannel
<1>3. CASE Send
  BY <1>3, SendFailsStreams, SendAttemptStreams DEF Send, IInv
<1>4. CASE \E c \in Clients :
              \/ Register(c) \/ Unregister(c)
              \/ DestroySensorChannel(c)
              \/ ClientDies(c) \/ ProcessDeath(c) \/ ReenableSensor(c)
              \/ Receive(c) \/ OnReadPackets(c) \/ OnShutdown(c)
  BY <1>4, RegisterStreams, UnregisterStreams, DestroySensorChannelStreams,
     ClientDiesStreams, ProcessDeathStreams, ReenableSensorStreams, ReceiveStreams,
     OnReadPacketsStreams, OnShutdownStreams
<1>5. CASE \E c \in Clients : \E t \in Threads :
              CreateSocketChannel(c, t) \/ Listen(c, t) \/ EnableActiveInfoCB(c, t)
  BY <1>2, <1>5, ListenStreams, EnableStreams
<1> QED BY <1>1, <1>3, <1>4, <1>5, ServiceDiesStreams, StartReportStreams DEF Next

\* The invariant of the streams: what was sent on a socket that no packet was cut on
\* is what the process has heard and, in order, what is in its buffer and the socket,
\* with the begun part of the packet being sent behind it.
THEOREM AlwaysStreams == Spec => [](IInv /\ Streams)
<1>1. Init => IInv /\ Streams
  BY InitIInv, InitStreams
<1>2. IInv /\ Streams /\ [Next]_vars => (IInv /\ Streams)'
  BY NextKeeps, NextStreams
<1> QED BY <1>1, <1>2, PTL DEF Spec

\* Packets reach the callbacks whole, once and in the order they were sent, and all
\* of them when nothing is on its way, until a packet is cut by a sender that gave
\* up, a burst does not fit into the buffer, or a connection begins with cells of
\* the one before in the buffer (stream_session.cpp:33, stream_socket.cpp:31,
\* sensor_service_client.cpp:735).
THEOREM AlwaysInStep == Spec => []InStep
<1>1. ASSUME IInv, Streams PROVE InStep
  <2> SUFFICES ASSUME NEW c \in Clients, client[c].fd # 0, ~client[c].torn,
                      ~socket[client[c].fd].torn
               PROVE  LET k == client[c].fd
                          n == Len(client[c].heard)
                      IN /\ n <= Len(sent[k])
                         /\ client[c].heard = First(sent[k], n)
                         /\ socket[k].cells = <<>> /\ client[c].circBuf = <<>> =>
                               n = Len(sent[k])
    BY DEF InStep
  <2>1. PICK k \in Sockets : k = client[c].fd
    BY <1>1, MineIs
  <2>2. PICK h \in Seq(Nat) : h = client[c].heard
    BY <1>1 DEF IInv, Shape, ClientShape
  <2>3. PICK q \in Seq(Nat) : /\ sent[k] = h \o q
                              /\ Delivers(k, client[c].circBuf \o socket[k].cells, q)
    BY <1>1, <2>1, <2>2 DEF Streams, Hears
  <2>4. Len(h) \in Nat /\ Len(q) \in Nat /\ Len(h \o q) = Len(h) + Len(q)
    BY ConcatProperties
  <2>5. h = First(h \o q, Len(h))
    BY FirstOfConcat
  <2>6. ASSUME socket[k].cells = <<>>, client[c].circBuf = <<>> PROVE Len(q) = 0
    <3>1. PICK r \in 0..(PacketSize - 1), p \in Nat : Carries(<<>> \o <<>>, q, p, r)
      BY <2>3, <2>6 DEF Delivers
    <3>2. Len(<<>> \o <<>>) = 0
      BY ConcatProperties
    <3>3. 0 = Len(q) * PacketSize + r
      BY <3>1, <3>2 DEF Carries
    <3> DEFINE P == PacketSize
               n == Len(q)
    <3>4. P \in Nat \ {0} /\ n \in Nat /\ r \in 0..(P - 1) /\ n * P + r = 0
      BY <2>4, <3>3, Sizes
    <3> HIDE DEF P, n
    <3>5. n * P \in Nat /\ (n = 0 <=> n * P = 0)
      BY <3>4, Multiples
    <3>6. n = 0
      BY <3>4, <3>5
    <3> QED BY <3>6 DEF n
  <2> QED BY <2>1, <2>2, <2>3, <2>4, <2>5, <2>6
<1> QED BY <1>1, AlwaysStreams, PTL

-----------------------------------------------------------------------------
(* SensorShakeControlManager                                               *)

\* It is still to do this.
Steps(op) == op \in Range(doing)

Doings ==
    {<<>>, InitShakeControl, <<"update", "create", "known">>, <<"create", "known">>, <<"known">>,
     SwitchSteps, <<"unregister", "renew", "create">>, <<"renew", "create">>,
     <<"create">>, <<"get", "watch", "ready?">>, <<"watch", "ready?">>, <<"ready?">>}

Creating == Steps("create")
Updating == Steps("update") \/ Steps("renew")
Watching == doing # <<>> /\ Head(doing) = "watch"

Await(event) == event \in Range(events) \/ event \in doubt

Job == [at : {"free", "created", "query", "store"}, found : SUBSET (Apps \X Values),
        first : BOOLEAN, newer : SUBSET Slots, late : BOOLEAN]

ShakeTypeOK ==
    /\ active \in Users /\ policy \in [Users -> [Apps -> Values]]
    /\ observed \subseteq Users /\ parameter \subseteq Apps /\ booted \in BOOLEAN
    /\ sa \in {"start", "boot", "user", "done"}
    /\ events \in Seq({"BOOT_COMPLETED", "USER_SWITCHED"})
    /\ doing \in Doings /\ jobs \in [Slots -> Job]
    /\ news \in Seq(SUBSET Apps) /\ currentUserId \in Users
    /\ userKnown \in BOOLEAN /\ ready \in BOOLEAN /\ watched \in BOOLEAN
    /\ controlled \subseteq Apps \X Users /\ open \subseteq Apps \X Users
    /\ ignored \subseteq Apps
    /\ channel \in [Apps -> Users \cup {NoUser}] /\ asking \subseteq Apps \X Users

Begun ==
    \/ ready \/ observed # {} \/ Creating
    \/ \E j \in Slots : jobs[j].at = "created" \/ (jobs[j].at # "free" /\ jobs[j].first)

Begins ==
    /\ sa = "start" => events = <<>> /\ subscribed = {} /\ doing = <<>>
    /\ \/ "failed" \in doubt \/ Begun \/ sa = "start" \/ ~booted \/ Await("BOOT_COMPLETED")
       \/ Steps("ready?")

Sure == "failed" \notin doubt /\ Begun /\ ~Await("USER_SWITCHED")

Knows == Sure /\ ~Updating => currentUserId = active

Observes ==
    Sure /\ ~Creating =>
        currentUserId \in observed \/ \E j \in Slots : jobs[j].at = "created"

Fresh == \A j \in Slots : jobs[j].at # "store" => ~jobs[j].late /\ jobs[j].newer = {}

Newest(k) ==
    /\ jobs[k].at = "store" /\ ~jobs[k].late /\ jobs[k].newer = {}
    /\ jobs[k].found = {<<a, policy[active][a]>> : a \in Apps}
    /\ \A i \in Slots \ {k} : jobs[i].at = "store" => k \in jobs[i].newer \/ jobs[i].late

Stored ==
    /\ \A i \in Slots : jobs[i].at = "store" => jobs[i].late
    /\ \/ "overtaken" \in doubt
       \/ controlled = {<<a, active>> : a \in {b \in Apps : policy[active][b] = "close"}}

Fetches ==
    Sure /\ ~Creating /\ (\A j \in Slots : jobs[j].at \notin {"created", "query"}) =>
        Stored \/ \E k \in Slots : Newest(k)

Watches ==
    "failed" \notin doubt /\ "unwatched" \notin doubt =>
        /\ watched => /\ ~Steps("get") /\ ~Steps("watch")
                      /\ IF news = <<>> THEN ignored = parameter \/ "emptied" \in doubt
                         ELSE news[Len(news)] = parameter
        /\ ~watched => news = <<>> /\ ignored = IF Watching THEN parameter ELSE {}


\* What the first step of a list says of the rest.
Follows(d) ==
    /\ Tail(d) \in Doings
    /\ Range(d) = {Head(d)} \cup Range(Tail(d))
    /\ Head(d) \in {"load", "unregister"} =>
          /\ "create" \in Range(Tail(d))
          /\ "update" \in Range(Tail(d)) \/ "renew" \in Range(Tail(d))
    /\ Head(d) \in {"update", "renew"} => "create" \in Range(Tail(d))
    /\ Head(d) \notin {"load", "unregister"} =>
          "update" \notin Range(Tail(d)) /\ "renew" \notin Range(Tail(d))
    /\ Head(d) \notin {"load", "unregister", "update", "renew"} =>
          "create" \notin Range(Tail(d))
    /\ Head(d) = "get" => Tail(d) = <<"watch", "ready?">>
    /\ Head(d) = "watch" => Tail(d) = <<"ready?">>
    /\ Head(d) = "ready?" => Tail(d) = <<>>
    /\ Head(d) \notin {"get", "watch", "ready?"} =>
          "get" \notin Range(d) /\ "watch" \notin Range(d) /\ "ready?" \notin Range(d)

\* What the first step of a list says of the rest holds of every list of steps.
LEMMA Rest ==
    ASSUME NEW d \in Doings, d # <<>>
    PROVE  Follows(d)
<1>1. CASE d = <<"load", "update", "create", "known">>
  <2>1. Head(d) = "load" /\ Tail(d) = <<"update", "create", "known">>
    BY <1>1
  <2>2. Tail(d) \in Doings
    BY <2>1 DEF Doings, InitShakeControl, SwitchSteps
  <2>3. Range(d) = {"load", "update", "create", "known"} /\ Range(Tail(d)) = {"update", "create", "known"}
    BY <1>1, <2>1 DEF Range
  <2> QED BY <2>1, <2>2, <2>3 DEF Follows
<1>2. CASE d = <<"update", "create", "known">>
  <2>1. Head(d) = "update" /\ Tail(d) = <<"create", "known">>
    BY <1>2
  <2>2. Tail(d) \in Doings
    BY <2>1 DEF Doings, InitShakeControl, SwitchSteps
  <2>3. Range(d) = {"update", "create", "known"} /\ Range(Tail(d)) = {"create", "known"}
    BY <1>2, <2>1 DEF Range
  <2> QED BY <2>1, <2>2, <2>3 DEF Follows
<1>3. CASE d = <<"create", "known">>
  <2>1. Head(d) = "create" /\ Tail(d) = <<"known">>
    BY <1>3
  <2>2. Tail(d) \in Doings
    BY <2>1 DEF Doings, InitShakeControl, SwitchSteps
  <2>3. Range(d) = {"create", "known"} /\ Range(Tail(d)) = {"known"}
    BY <1>3, <2>1 DEF Range
  <2> QED BY <2>1, <2>2, <2>3 DEF Follows
<1>4. CASE d = <<"known">>
  <2>1. Head(d) = "known" /\ Tail(d) = <<>>
    BY <1>4
  <2>2. Tail(d) \in Doings
    BY <2>1 DEF Doings, InitShakeControl, SwitchSteps
  <2>3. Range(d) = {"known"} /\ Range(Tail(d)) = {}
    BY <1>4, <2>1 DEF Range
  <2> QED BY <2>1, <2>2, <2>3 DEF Follows
<1>5. CASE d = <<"load", "unregister", "renew", "create">>
  <2>1. Head(d) = "load" /\ Tail(d) = <<"unregister", "renew", "create">>
    BY <1>5
  <2>2. Tail(d) \in Doings
    BY <2>1 DEF Doings, InitShakeControl, SwitchSteps
  <2>3. Range(d) = {"load", "unregister", "renew", "create"} /\ Range(Tail(d)) = {"unregister", "renew", "create"}
    BY <1>5, <2>1 DEF Range
  <2> QED BY <2>1, <2>2, <2>3 DEF Follows
<1>6. CASE d = <<"unregister", "renew", "create">>
  <2>1. Head(d) = "unregister" /\ Tail(d) = <<"renew", "create">>
    BY <1>6
  <2>2. Tail(d) \in Doings
    BY <2>1 DEF Doings, InitShakeControl, SwitchSteps
  <2>3. Range(d) = {"unregister", "renew", "create"} /\ Range(Tail(d)) = {"renew", "create"}
    BY <1>6, <2>1 DEF Range
  <2> QED BY <2>1, <2>2, <2>3 DEF Follows
<1>7. CASE d = <<"renew", "create">>
  <2>1. Head(d) = "renew" /\ Tail(d) = <<"create">>
    BY <1>7
  <2>2. Tail(d) \in Doings
    BY <2>1 DEF Doings, InitShakeControl, SwitchSteps
  <2>3. Range(d) = {"renew", "create"} /\ Range(Tail(d)) = {"create"}
    BY <1>7, <2>1 DEF Range
  <2> QED BY <2>1, <2>2, <2>3 DEF Follows
<1>8. CASE d = <<"create">>
  <2>1. Head(d) = "create" /\ Tail(d) = <<>>
    BY <1>8
  <2>2. Tail(d) \in Doings
    BY <2>1 DEF Doings, InitShakeControl, SwitchSteps
  <2>3. Range(d) = {"create"} /\ Range(Tail(d)) = {}
    BY <1>8, <2>1 DEF Range
  <2> QED BY <2>1, <2>2, <2>3 DEF Follows
<1>9. CASE d = <<"get", "watch", "ready?">>
  <2>1. Head(d) = "get" /\ Tail(d) = <<"watch", "ready?">>
    BY <1>9
  <2>2. Tail(d) \in Doings
    BY <2>1 DEF Doings, InitShakeControl, SwitchSteps
  <2>3. Range(d) = {"get", "watch", "ready?"} /\ Range(Tail(d)) = {"watch", "ready?"}
    BY <1>9, <2>1 DEF Range
  <2> QED BY <2>1, <2>2, <2>3 DEF Follows
<1>10. CASE d = <<"watch", "ready?">>
  <2>1. Head(d) = "watch" /\ Tail(d) = <<"ready?">>
    BY <1>10
  <2>2. Tail(d) \in Doings
    BY <2>1 DEF Doings, InitShakeControl, SwitchSteps
  <2>3. Range(d) = {"watch", "ready?"} /\ Range(Tail(d)) = {"ready?"}
    BY <1>10, <2>1 DEF Range
  <2> QED BY <2>1, <2>2, <2>3 DEF Follows
<1>11. CASE d = <<"ready?">>
  <2>1. Head(d) = "ready?" /\ Tail(d) = <<>>
    BY <1>11
  <2>2. Tail(d) \in Doings
    BY <2>1 DEF Doings, InitShakeControl, SwitchSteps
  <2>3. Range(d) = {"ready?"} /\ Range(Tail(d)) = {}
    BY <1>11, <2>1 DEF Range
  <2> QED BY <2>1, <2>2, <2>3 DEF Follows
<1> QED BY <1>1, <1>2, <1>3, <1>4, <1>5, <1>6, <1>7, <1>8, <1>9, <1>10, <1>11 DEF Doings, InitShakeControl, SwitchSteps

ShakeInv ==
    ShakeTypeOK /\ Begins /\ Knows /\ Observes /\ Fresh /\ Fetches /\ Watches

-----------------------------------------------------------------------------
(* What steps leave alone                                                  *)

USE DEF outside, lists, apps, manager, other, background

\* The next of the steps of InitShakeControl or of a user switch.
LEMMA Advance ==
    ASSUME ShakeTypeOK, NEW op, op \notin {"get", "watch", "ready?"}, Next1(op), Goes \/ Ends
    PROVE  /\ doing' \in Doings /\ ~Watching /\ ~Watching'
           /\ \A x \in {"get", "watch", "ready?"} : ~Steps(x) /\ ~Steps(x)'
           /\ op \in {"load", "unregister"} => Creating /\ (Goes => Creating' /\ Updating')
           /\ op \in {"update", "renew"} => Creating /\ (Goes => Creating')
           /\ op = "create" => Creating
           /\ op = "known" => (~Creating' /\ ~Creating /\ ~Updating)
<1>1. doing \in Doings /\ doing # <<>> /\ op = Head(doing)
  BY DEF ShakeTypeOK, Next1
<1>2. Follows(doing)
  BY <1>1, Rest
<1>3. CASE Ends
  <2>1. doing' = <<>> /\ Range(doing') = {}
    BY <1>3 DEF Ends, Range
  <2>2. ~Watching /\ \A x \in {"get", "watch", "ready?"} : ~Steps(x) /\ ~Steps(x)'
    BY <1>1, <1>2, <2>1 DEF Follows, Steps, Watching
  <2>3. <<>> \in Doings /\ ~Watching'
    BY <2>1 DEF Doings, Watching
  <2>4. ~Goes \/ Tail(doing) = <<>>
    BY <2>1 DEF Goes
  <2> QED BY <1>1, <1>2, <2>1, <2>2, <2>3, <2>4 DEF Follows, Steps, Creating, Updating
<1>4. CASE Goes
  <2>1. doing' = Tail(doing) /\ doing' \in Doings
    BY <1>2, <1>4 DEF Goes, Follows
  <2>2. \A x \in {"get", "watch", "ready?"} : ~Steps(x) /\ ~Steps(x)'
    BY <1>1, <1>2, <2>1 DEF Follows, Steps
  <2>3. ~Watching /\ ~Watching'
    <3>1. CASE doing' = <<>>
      BY <1>1, <3>1 DEF Watching
    <3>2. CASE doing' # <<>>
      <4>1. Follows(doing')
        BY <2>1, <3>2, Rest
      <4> QED BY <1>1, <2>2, <4>1 DEF Follows, Watching, Steps
    <3> QED BY <3>1, <3>2
  <2> QED BY <1>1, <1>2, <1>4, <2>1, <2>2, <2>3 DEF Follows, Steps, Creating, Updating
<1> QED BY <1>3, <1>4

\* After a call that failed nothing is promised.
LEMMA FailedKeeps ==
    ASSUME "failed" \in doubt', ShakeTypeOK', Fresh',
           sa' = "start" => events' = <<>> /\ subscribed' = {} /\ doing' = <<>>
    PROVE  ShakeInv'
BY DEF ShakeInv, Begins, Knows, Observes, Fetches, Watches, Sure

\* The lists, the user and the callbacks are not touched, and whatever was to
\* be done still is.
LEMMA CoreStays ==
    ASSUME ShakeInv, UNCHANGED <<active, policy, observed, jobs, currentUserId, controlled>>,
           Sure' => Sure,
           Updating => Updating' \/ ~Sure', Creating => Creating' \/ ~Sure',
           "overtaken" \in doubt => "overtaken" \in doubt'
    PROVE  Knows' /\ Observes' /\ Fresh' /\ Fetches'
<1>1. Knows' /\ Observes' /\ Fresh'
  BY DEF ShakeInv, Knows, Observes, Fresh
<1>2. Fetches'
  <2>1. Stored => Stored'
    BY DEF Stored
  <2>2. \A k : Newest(k) => Newest(k)'
    BY DEF Newest
  <2> QED BY <2>1, <2>2 DEF ShakeInv, Fetches
<1> QED BY <1>1, <1>2

\* What does not touch the parameter, nor what is known of it, keeps what watches it.
LEMMA WatchesStay ==
    ASSUME ShakeInv, UNCHANGED <<watched, ignored, parameter, news>>,
           \A x \in {"failed", "unwatched", "emptied"} : x \in doubt => x \in doubt',
           Watching' <=> Watching,
           Steps("get")' => Steps("get"), Steps("watch")' => Steps("watch")
    PROVE  Watches'
BY DEF ShakeInv, Watches

\* A callback of the privacy manager starts.
LEMMA Started ==
    ASSUME ShakeTypeOK, Fresh, NEW at \in {"created", "query"}, NEW first \in BOOLEAN,
           Start(at, first)
    PROVE  /\ jobs' \in [Slots -> Job] /\ Fresh'
           /\ \E j \in Slots : /\ jobs[j].at = "free" /\ jobs'[j].at = at
                               /\ jobs'[j].first = first
                               /\ \A i \in Slots \ {j} : jobs'[i] = jobs[i]
<1>1. PICK j \in Slots : jobs[j].at = "free" /\ jobs' = [jobs EXCEPT ![j] = New(at, first)]
  BY DEF Start
<1>2. New(at, first) \in Job
  BY DEF New, Job
<1>3. jobs' \in [Slots -> Job] /\ jobs'[j] = New(at, first)
      /\ \A i \in Slots \ {j} : jobs'[i] = jobs[i]
  <2> HIDE DEF Slots
  <2> QED BY <1>1, <1>2 DEF ShakeTypeOK
<1>4. jobs'[j].at = at /\ jobs'[j].first = first /\ jobs'[j].at # "store"
  BY <1>3 DEF New
<1>5. Fresh'
  <2> SUFFICES ASSUME NEW i \in Slots, jobs'[i].at # "store"
               PROVE  ~jobs'[i].late /\ jobs'[i].newer = {}
    BY DEF Fresh
  <2>1. CASE i = j
    BY <1>3, <2>1 DEF New
  <2>2. CASE i # j
    BY <1>3, <2>2 DEF Fresh
  <2> QED BY <2>1, <2>2
<1> QED BY <1>1, <1>3, <1>4, <1>5


\* What an event or a value that arrives adds to those on their way, ...
LEMMA Arrives ==
    ASSUME NEW S, NEW s \in Seq(S), NEW e \in S
    PROVE  /\ Append(s, e) \in Seq(S) /\ Append(s, e) # <<>>
           /\ Range(Append(s, e)) = Range(s) \cup {e}
           /\ Append(s, e)[Len(Append(s, e))] = e
<1>1. /\ Append(s, e) \in Seq(S) /\ Len(Append(s, e)) = Len(s) + 1
      /\ \A i \in 1 .. Len(s) : Append(s, e)[i] = s[i]
      /\ Append(s, e)[Len(s) + 1] = e
  BY AppendProperties
<1>2. Range(Append(s, e)) = Range(s) \cup {e}
  <2>1. DOMAIN Append(s, e) = 1 .. Len(s) + 1 /\ DOMAIN s = 1 .. Len(s) /\ Len(s) \in Nat
    BY <1>1
  <2> QED BY <1>1, <2>1 DEF Range
<1> QED BY <1>1, <1>2

\* ... and what the first of them takes away.
LEMMA Leaves ==
    ASSUME NEW S, NEW s \in Seq(S), s # <<>>
    PROVE  /\ Tail(s) \in Seq(S) /\ Head(s) \in S
           /\ Range(s) = {Head(s)} \cup Range(Tail(s))
           /\ s[Len(s)] = IF Tail(s) = <<>> THEN Head(s) ELSE Tail(s)[Len(Tail(s))]
<1>1. /\ Tail(s) \in Seq(S) /\ Len(Tail(s)) = Len(s) - 1 /\ Len(s) \in Nat /\ Len(s) > 0
      /\ \A i \in 1 .. Len(Tail(s)) : Tail(s)[i] = s[i + 1]
      /\ Head(s) = s[1] /\ Head(s) \in S
  BY HeadTailProperties, LenProperties, EmptySeq
<1>2. DOMAIN s = 1 .. Len(s) /\ DOMAIN Tail(s) = 1 .. Len(s) - 1
  BY <1>1
<1>3. Range(s) \subseteq {Head(s)} \cup Range(Tail(s))
  <2> SUFFICES ASSUME NEW i \in 1 .. Len(s), i # 1
               PROVE  s[i] \in Range(Tail(s))
    BY <1>1, <1>2 DEF Range
  <2>1. i - 1 \in 1 .. Len(s) - 1 /\ Tail(s)[i - 1] = s[i]
    BY <1>1
  <2> QED BY <1>2, <2>1 DEF Range
<1>4. {Head(s)} \cup Range(Tail(s)) \subseteq Range(s)
  BY <1>1, <1>2 DEF Range
<1> DEFINE t == Tail(s)
<1>5. /\ t \in Seq(S) /\ Len(t) = Len(s) - 1 /\ Len(s) \in Nat
      /\ \A i \in 1 .. Len(t) : t[i] = s[i + 1]
      /\ Head(s) = s[1]
  BY <1>1
<1> HIDE DEF t
<1>6. s[Len(s)] = IF t = <<>> THEN Head(s) ELSE t[Len(t)]
  <2>1. CASE t = <<>>
    <3>1. Len(t) = 0
      BY <2>1
    <3>2. Len(s) = 1
      BY <1>5, <3>1
    <3> QED BY <1>5, <2>1, <3>2
  <2>2. CASE t # <<>>
    BY <1>5, <2>2, EmptySeq
  <2> QED BY <2>1, <2>2
<1> QED BY <1>1, <1>3, <1>4, <1>6 DEF t

\* Who has to ask for the user has to begin to observe.
LEMMA UpdatingCreates ==
    ASSUME ShakeTypeOK, Updating
    PROVE  Creating
<1>1. doing \in Doings /\ (doing = <<>> => Range(doing) = {})
  BY DEF ShakeTypeOK, Range
<1>2. doing # <<>>
  BY <1>1 DEF Updating, Steps
<1> QED BY <1>1, <1>2, Rest DEF Follows, Updating, Creating, Steps

-----------------------------------------------------------------------------
(* One lemma for each action                                               *)

\* What is to be done is forgotten and everything begins again: nothing is
\* promised until the callback has been asked for.
LEMMA Restarts ==
    ASSUME ShakeInv, ShakeTypeOK', Creating', Updating', jobs' = jobs,
           sa' # "start", Watches'
    PROVE  ShakeInv'
BY DEF ShakeInv, Begins, Begun, Knows, Observes, Fresh, Fetches

\* Another user comes to the front.
LEMMA SwitchUserKeeps ==
    ASSUME ShakeInv, SwitchUser
    PROVE  ShakeInv'
<1>1. /\ active' \in Users /\ UNCHANGED <<policy, observed, parameter, booted, sa, subscribed,
         doing, jobs, news, manager, apps>>
      /\ Publish("USER_SWITCHED")
  BY DEF SwitchUser
<1>2. events \in Seq({"BOOT_COMPLETED", "USER_SWITCHED"})
  BY DEF ShakeInv, ShakeTypeOK
<1>3. /\ events' \in Seq({"BOOT_COMPLETED", "USER_SWITCHED"})
      /\ Range(events) \subseteq Range(events') /\ doubt \subseteq doubt'
      /\ Await("USER_SWITCHED")' /\ \A x : x # "USER_SWITCHED" /\ x \in doubt' => x \in doubt
      /\ "USER_SWITCHED" \notin subscribed => events' = events
  BY <1>1, <1>2, Arrives DEF Publish, Await
<1>4. ShakeTypeOK'
  BY <1>1, <1>3 DEF ShakeInv, ShakeTypeOK
<1>5. Begins'
  BY <1>1, <1>3 DEF ShakeInv, Begins, Begun, Creating, Steps, Await
<1>6. Watches'
  BY <1>1, <1>3, WatchesStay DEF Watching, Steps
<1> QED BY <1>1, <1>3, <1>4, <1>5, <1>6 DEF ShakeInv, Sure, Knows, Observes, Fresh, Fetches

\* The boot of the device ends.
LEMMA CompleteBootKeeps ==
    ASSUME ShakeInv, CompleteBoot
    PROVE  ShakeInv'
<1>1. /\ booted' = TRUE
      /\ UNCHANGED <<active, policy, observed, parameter, sa, subscribed, doing, jobs, news,
                     manager, apps>>
      /\ sa = "start" => UNCHANGED <<events, doubt>>
      /\ sa # "start" => Publish("BOOT_COMPLETED")
  BY DEF CompleteBoot
<1>2. events \in Seq({"BOOT_COMPLETED", "USER_SWITCHED"})
  BY DEF ShakeInv, ShakeTypeOK
<1>3. /\ events' \in Seq({"BOOT_COMPLETED", "USER_SWITCHED"})
      /\ Range(events) \subseteq Range(events') /\ doubt \subseteq doubt'
      /\ sa # "start" => Await("BOOT_COMPLETED")'
      /\ \A x : x # "BOOT_COMPLETED" /\ x \in doubt' => x \in doubt
      /\ \A x : x # "BOOT_COMPLETED" /\ x \in Range(events') => x \in Range(events)
  <2>1. CASE sa = "start"
    BY <1>1, <1>2, <2>1
  <2>2. CASE sa # "start"
    <3>1. /\ events' = IF "BOOT_COMPLETED" \in subscribed THEN Append(events, "BOOT_COMPLETED")
                                                        ELSE events
          /\ doubt' = IF "BOOT_COMPLETED" \in subscribed THEN doubt
                                                        ELSE doubt \cup {"BOOT_COMPLETED"}
      BY <1>1, <2>2 DEF Publish
    <3>2. /\ Append(events, "BOOT_COMPLETED") \in Seq({"BOOT_COMPLETED", "USER_SWITCHED"})
          /\ Range(Append(events, "BOOT_COMPLETED")) = Range(events) \cup {"BOOT_COMPLETED"}
      BY <1>2, Arrives
    <3> QED BY <1>2, <2>2, <3>1, <3>2 DEF Await
  <2> QED BY <2>1, <2>2
<1>4. ShakeTypeOK'
  BY <1>1, <1>3 DEF ShakeInv, ShakeTypeOK
<1>5. Begins'
  BY <1>1, <1>3 DEF ShakeInv, Begins
<1>6. Watches'
  BY <1>1, <1>3, WatchesStay DEF Watching, Steps
<1>7. Knows' /\ Observes' /\ Fresh' /\ Fetches'
  BY <1>1, <1>3, CoreStays DEF Sure, Begun, Creating, Updating, Steps, Await
<1> QED BY <1>4, <1>5, <1>6, <1>7 DEF ShakeInv

\* A policy changes: whoever observes its user fetches again, and nobody
\* observes another user than the one whose policies are in the lists.
LEMMA SetPolicyKeeps ==
    ASSUME ShakeInv, NEW u \in Users, NEW a \in Apps, NEW v \in Values, SetPolicy(u, a, v),
           UNCHANGED <<active, observed, parameter, booted, sa, subscribed, events, doing,
                       news, manager, channel, doubt>>,
           asking' \subseteq asking
    PROVE  ShakeInv'
<1>1. /\ policy' = [policy EXCEPT ![u][a] = v]
      /\ IF u \in observed THEN Start("query", FALSE) ELSE UNCHANGED jobs
  BY DEF SetPolicy
<1>2. policy' \in [Users -> [Apps -> Values]]
  BY <1>1 DEF ShakeInv, ShakeTypeOK
<1>3. /\ jobs' \in [Slots -> Job] /\ Fresh'
      /\ \/ u \notin observed /\ UNCHANGED jobs
         \/ (observed # {} /\ \E j \in Slots :
              jobs'[j].at = "query" /\ jobs[j].at = "free" /\ \A i \in Slots \ {j} : jobs'[i] = jobs[i])
  <2>1. CASE u \in observed
    <3>1. "query" \in {"created", "query"} /\ FALSE \in BOOLEAN
      OBVIOUS
    <3>2. /\ jobs' \in [Slots -> Job] /\ Fresh'
          /\ \E j \in Slots : /\ jobs[j].at = "free" /\ jobs'[j].at = "query"
                              /\ \A i \in Slots \ {j} : jobs'[i] = jobs[i]
      BY <1>1, <2>1, <3>1, Started DEF ShakeInv
    <3> QED BY <2>1, <3>2
  <2>2. CASE u \notin observed
    BY <1>1, <2>2 DEF ShakeInv, ShakeTypeOK, Fresh
  <2> QED BY <2>1, <2>2
<1>4. ShakeTypeOK'
  BY <1>2, <1>3 DEF ShakeInv, ShakeTypeOK
<1>5. Watches'
  BY WatchesStay DEF Watching, Steps
<1>6. (Begun <=> Begun') /\ (Sure <=> Sure')
  BY <1>3 DEF Begun, Creating, Steps, Sure, Await
<1>7. Begins'
  BY <1>6 DEF ShakeInv, Begins, Await, Steps
<1>8. Knows' /\ Observes'
  BY <1>3, <1>6 DEF ShakeInv, Knows, Observes, Creating, Updating, Steps
<1>9. Fetches'
  <2> SUFFICES ASSUME Sure, ~Creating, \A j \in Slots : jobs'[j].at \notin {"created", "query"}
               PROVE  Stored' \/ \E k \in Slots : Newest(k)'
    BY <1>6 DEF Fetches, Creating, Steps
  <2>1. UNCHANGED jobs /\ u \notin observed
    BY <1>3
  <2>2. currentUserId = active /\ currentUserId \in observed
    BY <2>1, UpdatingCreates DEF ShakeInv, Knows, Observes
  <2>3. policy'[active] = policy[active]
    <3>1. u # active
      BY <2>1, <2>2
    <3> QED BY <1>1, <3>1 DEF ShakeInv, ShakeTypeOK
  <2>4. Stored \/ \E k \in Slots : Newest(k)
    BY <2>1 DEF ShakeInv, Fetches
  <2>5. (Stored => Stored') /\ \A k \in Slots : Newest(k) => Newest(k)'
    BY <2>1, <2>3 DEF Stored, Newest
  <2> QED BY <2>4, <2>5
<1> QED BY <1>3, <1>4, <1>5, <1>7, <1>8, <1>9 DEF ShakeInv

\* The user changes the policy of an application.
LEMMA UserSetsPolicyKeeps ==
    ASSUME ShakeInv, UserSetsPolicy
    PROVE  ShakeInv'
<1>1. PICK u \in Users, a \in Apps, v \in Values : SetPolicy(u, a, v)
  BY DEF UserSetsPolicy
<1> QED BY <1>1, SetPolicyKeeps DEF UserSetsPolicy

\* The privacy manager adds an application with a policy, or does not.
LEMMA ModifyAppPolicyKeeps ==
    ASSUME ShakeInv, ModifyAppPolicy
    PROVE  ShakeInv'
<1>1. PICK au \in asking :
        /\ asking' = asking \ {au}
        /\ \/ (\E v \in {"close", "open"} : SetPolicy(au[2], au[1], v)) /\ UNCHANGED doubt
           \/ UNCHANGED <<policy, jobs, spent, doubt>>
  BY DEF ModifyAppPolicy
<1>2. UNCHANGED <<active, observed, parameter, booted, sa, subscribed, events, doing, news,
                  manager, channel>>
  BY DEF ModifyAppPolicy
<1>3. au[1] \in Apps /\ au[2] \in Users
  BY DEF ShakeInv, ShakeTypeOK
<1>4. CASE (\E v \in {"close", "open"} : SetPolicy(au[2], au[1], v)) /\ UNCHANGED doubt
  <2>1. PICK v \in {"close", "open"} : SetPolicy(au[2], au[1], v)
    BY <1>4
  <2>2. v \in Values
    BY DEF Values
  <2> QED BY <1>1, <1>2, <1>3, <1>4, <2>1, <2>2, SetPolicyKeeps
<1>5. CASE UNCHANGED <<policy, jobs, spent, doubt>>
  <2>1. ShakeTypeOK'
    BY <1>1, <1>2, <1>5 DEF ShakeInv, ShakeTypeOK
  <2>2. Begins'
    BY <1>2, <1>5 DEF ShakeInv, Begins, Begun, Creating, Steps, Await
  <2>3. Watches'
    BY <1>2, <1>5, WatchesStay DEF Watching, Steps
  <2>4. Knows' /\ Observes' /\ Fresh' /\ Fetches'
    BY <1>2, <1>5, CoreStays DEF Sure, Begun, Creating, Updating, Steps, Await
  <2> QED BY <2>1, <2>2, <2>3, <2>4 DEF ShakeInv
<1> QED BY <1>1, <1>4, <1>5

\* The parameter of the shake control is set.
LEMMA SetParameterKeeps ==
    ASSUME ShakeInv, SetParameter
    PROVE  ShakeInv'
<1>1. PICK S \in SUBSET Apps : /\ parameter' = S
                               /\ news' = IF watched THEN Append(news, S) ELSE news
  BY DEF SetParameter
<1>2. /\ UNCHANGED <<active, policy, booted, observed, sa, subscribed, events, doing, jobs,
                     manager, apps>>
      /\ doubt' = IF Watching THEN doubt \cup {"unwatched"} ELSE doubt
  BY DEF SetParameter, Watching
<1>3. /\ Append(news, S) \in Seq(SUBSET Apps) /\ Append(news, S) # <<>>
      /\ Append(news, S)[Len(Append(news, S))] = S
  BY Arrives DEF ShakeInv, ShakeTypeOK
<1>4. ShakeTypeOK'
  BY <1>1, <1>2, <1>3 DEF ShakeInv, ShakeTypeOK
<1>5. Begins'
  BY <1>2 DEF ShakeInv, Begins, Begun, Creating, Steps, Await
<1>6. Knows' /\ Observes' /\ Fresh' /\ Fetches'
  BY <1>2, CoreStays DEF Sure, Begun, Creating, Updating, Steps, Await
<1>7. Watches'
  <2>1. CASE Watching
    BY <1>2, <2>1 DEF Watches
  <2>2. CASE ~Watching
    <3>1. ~Watching' /\ (Steps("get") <=> Steps("get")') /\ (Steps("watch") <=> Steps("watch")')
      BY <1>2, <2>2 DEF Watching, Steps
    <3> QED BY <1>1, <1>2, <1>3, <2>2, <3>1 DEF ShakeInv, Watches
  <2> QED BY <2>1, <2>2
<1> QED BY <1>4, <1>5, <1>6, <1>7 DEF ShakeInv

\* The service starts, before or after the boot.
LEMMA OnAddSystemAbilityKeeps ==
    ASSUME ShakeInv, OnAddSystemAbility
    PROVE  ShakeInv'
<1>1. /\ sa = "start"
      /\ IF booted THEN sa' = "user" /\ doing' = InitShakeControl
                   ELSE sa' = "boot" /\ UNCHANGED doing
      /\ UNCHANGED <<outside, observed, subscribed, events, jobs, news, manager, apps, doubt>>
  BY DEF OnAddSystemAbility
<1>2. ShakeTypeOK'
  BY <1>1 DEF ShakeInv, ShakeTypeOK, Doings
<1>3. doing = <<>>
  BY <1>1 DEF ShakeInv, Begins
<1>4. CASE booted
  <2>1. /\ doing' # <<>> /\ Head(doing') = "load"
        /\ Range(doing') = {"load", "update", "create", "known"} /\ sa' # "start"
    BY <1>1, <1>4 DEF InitShakeControl, Range
  <2>2. Watches'
    BY <1>1, <1>3, <2>1, WatchesStay DEF Watching, Steps
  <2> QED BY <1>1, <1>2, <2>1, <2>2, Restarts DEF Creating, Updating, Steps
<1>5. CASE ~booted
  <2>1. UNCHANGED doing /\ sa' # "start"
    BY <1>1, <1>5
  <2>2. Begins'
    BY <1>1, <1>5, <2>1 DEF Begins
  <2>3. Watches'
    BY <1>1, <2>1, WatchesStay DEF Watching, Steps
  <2>4. Knows' /\ Observes' /\ Fresh' /\ Fetches'
    BY <1>1, <2>1, CoreStays DEF Sure, Begun, Creating, Updating, Steps, Await
  <2> QED BY <1>2, <2>2, <2>3, <2>4 DEF ShakeInv
<1> QED BY <1>4, <1>5

\* SubscribeBoot and SubscribeSwitch.
LEMMA SubscribeKeeps ==
    ASSUME ShakeInv, NEW at, at # "start", NEW event, NEW next \in {"user", "done"},
           SubscribeCommonEvent(at, event, next)
    PROVE  ShakeInv'
<1>1. /\ sa = at /\ sa' = next /\ sa # "start" /\ sa' # "start"
      /\ UNCHANGED doubt \/ "failed" \in doubt'
      /\ UNCHANGED <<outside, observed, events, doing, jobs, news, manager, apps>>
  BY DEF SubscribeCommonEvent, Works, Fails
<1>2. ShakeTypeOK' /\ Fresh'
  BY <1>1 DEF ShakeInv, ShakeTypeOK, Fresh
<1>3. CASE "failed" \in doubt'
  BY <1>1, <1>2, <1>3, FailedKeeps
<1>4. CASE UNCHANGED doubt
  <2>1. Begins'
    BY <1>1, <1>4 DEF ShakeInv, Begins, Begun, Creating, Steps, Await
  <2>2. Watches'
    BY <1>1, <1>4, WatchesStay DEF Watching, Steps
  <2>3. Knows' /\ Observes' /\ Fresh' /\ Fetches'
    BY <1>1, <1>4, CoreStays DEF Sure, Begun, Creating, Updating, Steps, Await
  <2> QED BY <1>2, <2>1, <2>2, <2>3 DEF ShakeInv
<1> QED BY <1>1, <1>3, <1>4

\* The service hears that the boot has ended.
LEMMA OnReceiveBootEventKeeps ==
    ASSUME ShakeInv, OnReceiveBootEvent
    PROVE  ShakeInv'
<1>1. /\ doing = <<>> /\ events # <<>> /\ Head(events) = "BOOT_COMPLETED" /\ events' = Tail(events)
      /\ UNCHANGED <<outside, observed, sa, subscribed, jobs, news, manager, apps, doubt>>
  BY DEF OnReceiveBootEvent
<1>2. doing' = IF watched THEN <<"ready?">> ELSE <<"get", "watch", "ready?">>
  BY DEF OnReceiveBootEvent
<1>3. /\ events' \in Seq({"BOOT_COMPLETED", "USER_SWITCHED"})
      /\ Range(events) = {"BOOT_COMPLETED"} \cup Range(events')
  BY <1>1, Leaves DEF ShakeInv, ShakeTypeOK
<1>4. /\ doing' \in Doings /\ doing' # <<>> /\ Head(doing') \in {"ready?", "get"}
      /\ Range(doing') = IF watched THEN {"ready?"} ELSE {"get", "watch", "ready?"}
      /\ Range(doing) = {}
  BY <1>1, <1>2 DEF Doings, Range
<1>5. ShakeTypeOK'
  BY <1>1, <1>3, <1>4 DEF ShakeInv, ShakeTypeOK
<1>6. Begins'
  BY <1>1, <1>4 DEF ShakeInv, Begins, Steps
<1>7. /\ ~Creating /\ ~Creating' /\ ~Updating /\ ~Updating' /\ (Begun <=> Begun')
      /\ (Sure <=> Sure')
  BY <1>1, <1>3, <1>4 DEF Creating, Updating, Steps, Begun, Sure, Await
<1>8. Knows' /\ Observes' /\ Fresh' /\ Fetches'
  BY <1>1, <1>7, CoreStays
<1>9. Watches'
  BY <1>1, <1>4 DEF ShakeInv, Watches, Watching, Steps
<1> QED BY <1>5, <1>6, <1>8, <1>9 DEF ShakeInv

\* The service hears of another user.
LEMMA OnReceiveUserSwitchEventKeeps ==
    ASSUME ShakeInv, OnReceiveUserSwitchEvent
    PROVE  ShakeInv'
<1>1. /\ doing = <<>> /\ events # <<>> /\ events' = Tail(events) /\ doing' = SwitchSteps
      /\ UNCHANGED <<outside, observed, sa, subscribed, jobs, news, manager, apps, doubt>>
  BY DEF OnReceiveUserSwitchEvent
<1>2. events' \in Seq({"BOOT_COMPLETED", "USER_SWITCHED"})
  BY <1>1, Leaves DEF ShakeInv, ShakeTypeOK
<1>3. /\ doing' \in Doings /\ doing' # <<>> /\ Head(doing') = "load"
      /\ Range(doing') = {"load", "unregister", "renew", "create"}
  BY <1>1 DEF Doings, Range, SwitchSteps
<1>4. ShakeTypeOK'
  BY <1>1, <1>2, <1>3 DEF ShakeInv, ShakeTypeOK
<1>5. Watches'
  BY <1>1, <1>3, WatchesStay DEF Watching, Steps
<1>6. sa' # "start"
  BY <1>1 DEF ShakeInv, Begins
<1> QED BY <1>1, <1>3, <1>4, <1>5, <1>6, Restarts DEF Creating, Updating, Steps

\* The service begins with the shake control unless that is ready.
LEMMA CheckReadyKeeps ==
    ASSUME ShakeInv, CheckReady
    PROVE  ShakeInv'
<1>1. /\ Next1("ready?") /\ doing' = IF ready THEN <<>> ELSE InitShakeControl
      /\ UNCHANGED <<other, observed, jobs, manager, doubt>>
  BY DEF CheckReady
<1>2. /\ doing # <<>> /\ Head(doing) = "ready?" /\ Follows(doing) /\ Tail(doing) = <<>>
      /\ Range(doing) = {"ready?"} /\ sa # "start" /\ Range(<<>>) = {}
  <2>1. doing \in Doings /\ doing # <<>> /\ Head(doing) = "ready?"
    BY <1>1 DEF ShakeInv, ShakeTypeOK, Next1
  <2>2. Follows(doing)
    BY <2>1, Rest
  <2>3. Range(<<>>) = {}
    BY DEF Range
  <2> QED BY <2>1, <2>2, <2>3 DEF Follows, ShakeInv, Begins
<1>3. CASE ready
  <2>1. doing' = <<>> /\ Range(doing') = {} /\ doing' \in Doings
    BY <1>1, <1>2, <1>3 DEF Doings
  <2>2. ShakeTypeOK'
    BY <1>1, <2>1 DEF ShakeInv, ShakeTypeOK
  <2>3. Begins'
    BY <1>1, <1>2, <1>3 DEF Begins, Begun
  <2>4. Watches'
    BY <1>1, <1>2, <2>1, WatchesStay DEF Watching, Steps
  <2>5. Knows' /\ Observes' /\ Fresh' /\ Fetches'
    BY <1>1, <1>2, <1>3, <2>1, CoreStays DEF Sure, Begun, Creating, Updating, Steps, Await
  <2> QED BY <2>2, <2>3, <2>4, <2>5 DEF ShakeInv
<1>4. CASE ~ready
  <2>1. /\ doing' # <<>> /\ Head(doing') = "load" /\ doing' \in Doings
        /\ Range(doing') = {"load", "update", "create", "known"}
    BY <1>1, <1>4 DEF InitShakeControl, Range, Doings
  <2>2. ShakeTypeOK'
    BY <1>1, <2>1 DEF ShakeInv, ShakeTypeOK
  <2>3. Watches'
    BY <1>1, <1>2, <2>1, WatchesStay DEF Watching, Steps
  <2> QED BY <1>1, <1>2, <2>1, <2>2, <2>3, Restarts DEF Creating, Updating, Steps
<1> QED BY <1>3, <1>4

\* The service loads the privacy manager, or gives up.
LEMMA LoadSecurityPrivacyManagerKeeps ==
    ASSUME ShakeInv, LoadSecurityPrivacyManager
    PROVE  ShakeInv'
<1>1. /\ Next1("load") /\ UNCHANGED <<other, observed, jobs, manager>>
      /\ (Goes /\ UNCHANGED doubt) \/ (Ends /\ "failed" \in doubt')
  BY DEF LoadSecurityPrivacyManager, Works, Fails
<1>2. /\ doing' \in Doings /\ ~Watching /\ ~Watching' /\ (Goes => Creating' /\ Updating')
      /\ ~Steps("get")' /\ ~Steps("watch")' /\ sa # "start"
  BY <1>1, Advance DEF ShakeInv, Begins, Next1
<1>3. ShakeTypeOK' /\ Fresh'
  BY <1>1, <1>2 DEF ShakeInv, ShakeTypeOK, Fresh
<1>4. CASE Goes /\ UNCHANGED doubt
  <2>1. Watches'
    BY <1>1, <1>2, <1>4, WatchesStay
  <2> QED BY <1>1, <1>2, <1>3, <1>4, <2>1, Restarts
<1>5. CASE "failed" \in doubt'
  BY <1>1, <1>2, <1>3, <1>5, FailedKeeps
<1> QED BY <1>1, <1>4, <1>5

\* The service reads the parameter.
LEMMA GetShakeIgnoreControlKeeps ==
    ASSUME ShakeInv, GetShakeIgnoreControl
    PROVE  ShakeInv'
<1>1. /\ Next1("get") /\ Goes /\ ignored' = parameter
      /\ UNCHANGED <<other, observed, jobs, currentUserId, userKnown, ready, lists, watched, doubt>>
  BY DEF GetShakeIgnoreControl
<1>2. doing \in Doings /\ doing # <<>> /\ Head(doing) = "get" /\ doing' = Tail(doing)
  BY <1>1 DEF ShakeInv, ShakeTypeOK, Next1, Goes
<1>3. Follows(doing) /\ doing' = <<"watch", "ready?">>
  BY <1>2, Rest DEF Follows
<1>4. /\ doing' # <<>> /\ Head(doing') = "watch" /\ doing' \in Doings
      /\ Range(doing') = {"watch", "ready?"} /\ Range(doing) = {"get", "watch", "ready?"}
  <2>1. doing' # <<>> /\ Head(doing') = "watch" /\ doing' \in Doings
    BY <1>3 DEF Doings
  <2>2. Range(doing') = {"watch", "ready?"}
    BY <1>3 DEF Range
  <2>3. Range(doing) = {"get"} \cup Range(doing')
    BY <1>2, <1>3 DEF Follows
  <2> QED BY <2>1, <2>2, <2>3
<1>5. ShakeTypeOK'
  BY <1>1, <1>4 DEF ShakeInv, ShakeTypeOK
<1>6. Begins'
  BY <1>1, <1>2, <1>4 DEF ShakeInv, Begins, Steps
<1>7. Knows' /\ Observes' /\ Fresh' /\ Fetches'
  BY <1>1, <1>4, CoreStays DEF Sure, Begun, Creating, Updating, Steps, Await
<1>8. Watches'
  BY <1>1, <1>2, <1>4 DEF ShakeInv, Watches, Watching, Steps
<1> QED BY <1>5, <1>6, <1>7, <1>8 DEF ShakeInv

\* The service watches the parameter, or fails to.
LEMMA RegisterShakeControlParameterKeeps ==
    ASSUME ShakeInv, RegisterShakeControlParameter
    PROVE  ShakeInv'
<1>1. /\ Next1("watch") /\ Goes
      /\ (watched' = TRUE /\ UNCHANGED doubt) \/ (watched' = FALSE /\ "failed" \in doubt')
      /\ UNCHANGED <<other, observed, jobs, currentUserId, userKnown, ready, lists, ignored>>
  BY DEF RegisterShakeControlParameter, Works, Fails
<1>2. doing \in Doings /\ doing # <<>> /\ Head(doing) = "watch" /\ doing' = Tail(doing)
  BY <1>1 DEF ShakeInv, ShakeTypeOK, Next1, Goes
<1>3. Follows(doing) /\ doing' = <<"ready?">>
  BY <1>2, Rest DEF Follows
<1>4. /\ doing' # <<>> /\ Head(doing') = "ready?" /\ doing' \in Doings /\ sa # "start"
      /\ Range(doing') = {"ready?"} /\ Range(doing) = {"watch", "ready?"}
  <2>1. doing' # <<>> /\ Head(doing') = "ready?" /\ doing' \in Doings
    BY <1>3 DEF Doings
  <2>2. Range(doing') = {"ready?"}
    BY <1>3 DEF Range
  <2>3. Range(doing) = {"watch"} \cup Range(doing')
    BY <1>2, <1>3 DEF Follows
  <2>4. sa # "start"
    BY <1>2 DEF ShakeInv, Begins
  <2> QED BY <2>1, <2>2, <2>3, <2>4
<1>5. ShakeTypeOK' /\ Fresh'
  BY <1>1, <1>4 DEF ShakeInv, ShakeTypeOK, Fresh
<1>6. CASE watched' = TRUE /\ UNCHANGED doubt
  <2>1. Begins'
    BY <1>1, <1>4 DEF Begins, Steps
  <2>2. Knows' /\ Observes' /\ Fresh' /\ Fetches'
    BY <1>1, <1>4, <1>6, CoreStays DEF Sure, Begun, Creating, Updating, Steps, Await
  <2>3. Watches'
    BY <1>1, <1>2, <1>4, <1>6 DEF ShakeInv, ShakeTypeOK, Watches, Watching, Steps
  <2> QED BY <1>5, <2>1, <2>2, <2>3 DEF ShakeInv
<1>7. CASE "failed" \in doubt'
  BY <1>1, <1>4, <1>5, <1>7, FailedKeeps
<1> QED BY <1>1, <1>6, <1>7

\* The service hears that the parameter was set.
LEMMA OnParameterChangedKeeps ==
    ASSUME ShakeInv, OnParameterChanged
    PROVE  ShakeInv'
<1>1. /\ news # <<>> /\ news' = Tail(news)
      /\ IF Head(news) = {} THEN UNCHANGED ignored /\ doubt' = doubt \cup {"emptied"}
                            ELSE ignored' = Head(news) /\ doubt' = doubt \ {"emptied"}
      /\ UNCHANGED <<outside, observed, sa, subscribed, events, doing, jobs, currentUserId,
                     userKnown, ready, lists, watched, apps>>
  BY DEF OnParameterChanged
<1>2. /\ news' \in Seq(SUBSET Apps) /\ Head(news) \in SUBSET Apps
      /\ news[Len(news)] = IF news' = <<>> THEN Head(news) ELSE news'[Len(news')]
  BY <1>1, Leaves DEF ShakeInv, ShakeTypeOK
<1>3. ShakeTypeOK'
  BY <1>1, <1>2 DEF ShakeInv, ShakeTypeOK
<1>4. \A x : x # "emptied" => (x \in doubt' <=> x \in doubt)
  BY <1>1
<1>5. Begins'
  BY <1>1, <1>4 DEF ShakeInv, Begins, Begun, Creating, Steps, Await
<1>6. Knows' /\ Observes' /\ Fresh' /\ Fetches'
  BY <1>1, <1>4, CoreStays DEF Sure, Begun, Creating, Updating, Steps, Await
<1>7. Watches'
  <2> SUFFICES ASSUME "failed" \notin doubt', "unwatched" \notin doubt'
               PROVE  /\ watched' => /\ ~Steps("get")' /\ ~Steps("watch")'
                            /\ IF news' = <<>> THEN ignored' = parameter' \/ "emptied" \in doubt'
                               ELSE news'[Len(news')] = parameter'
                      /\ ~watched' => news' = <<>> /\ ignored' = IF Watching' THEN parameter' ELSE {}
    BY DEF Watches
  <2>1. /\ watched /\ ~Steps("get") /\ ~Steps("watch") /\ news[Len(news)] = parameter
    BY <1>1, <1>4 DEF ShakeInv, ShakeTypeOK, Watches
  <2> QED BY <1>1, <1>2, <2>1 DEF Steps
<1> QED BY <1>3, <1>5, <1>6, <1>7 DEF ShakeInv

\* The service asks which user is in front.
LEMMA UpdateCurrentUserIdKeeps ==
    ASSUME ShakeInv, UpdateCurrentUserId
    PROVE  ShakeInv'
<1>1. PICK op \in {"update", "renew"} : Next1(op)
  BY DEF UpdateCurrentUserId
<1>2. /\ \/ currentUserId' = active /\ Goes /\ doubt' = doubt \ {"USER_SWITCHED"}
         \/ UNCHANGED currentUserId /\ "failed" \in doubt' /\ (Ends \/ Goes)
      /\ UNCHANGED <<other, observed, jobs, userKnown, ready, lists, ignored, watched>>
  BY DEF UpdateCurrentUserId, Fails
<1>3. /\ doing' \in Doings /\ ~Watching /\ ~Watching' /\ (Goes => Creating') /\ sa # "start"
      /\ ~Steps("get")' /\ ~Steps("watch")'
  BY <1>1, <1>2, Advance DEF ShakeInv, Begins, Next1
<1>4. ShakeTypeOK' /\ Fresh'
  BY <1>2, <1>3 DEF ShakeInv, ShakeTypeOK, Fresh
<1>5. CASE currentUserId' = active /\ Goes /\ doubt' = doubt \ {"USER_SWITCHED"}
  <2>1. Watches'
    BY <1>2, <1>3, <1>5, WatchesStay
  <2>2. Begins'
    BY <1>2, <1>3, <1>5 DEF Begins, Begun
  <2>3. Knows' /\ Observes' /\ Fetches'
    BY <1>2, <1>3, <1>5 DEF Knows, Observes, Fetches
  <2> QED BY <1>4, <2>1, <2>2, <2>3 DEF ShakeInv
<1>6. CASE "failed" \in doubt'
  BY <1>2, <1>3, <1>4, <1>6, FailedKeeps
<1> QED BY <1>2, <1>5, <1>6

\* The service stops observing the policies of a user, or fails to.
LEMMA UnregisterKeeps ==
    ASSUME ShakeInv, UnregisterShakeSensorControlObserver
    PROVE  ShakeInv'
<1>1. /\ Next1("unregister") /\ Goes /\ UNCHANGED <<other, jobs, manager>>
      /\ observed' \subseteq observed /\ (UNCHANGED doubt \/ "failed" \in doubt')
  BY DEF UnregisterShakeSensorControlObserver, Works, Fails
<1>2. /\ doing' \in Doings /\ ~Watching /\ ~Watching' /\ Creating' /\ Updating'
      /\ ~Steps("get")' /\ ~Steps("watch")' /\ sa # "start"
  BY <1>1, Advance DEF ShakeInv, Begins, Next1
<1>3. ShakeTypeOK' /\ Fresh'
  BY <1>1, <1>2 DEF ShakeInv, ShakeTypeOK, Fresh
<1>4. CASE UNCHANGED doubt
  <2>1. Watches'
    BY <1>1, <1>2, <1>4, WatchesStay
  <2> QED BY <1>1, <1>2, <1>3, <2>1, Restarts
<1>5. CASE "failed" \in doubt'
  BY <1>1, <1>2, <1>3, <1>5, FailedKeeps
<1> QED BY <1>1, <1>4, <1>5

\* The service asks for a callback of the privacy manager, or gives up.
LEMMA CreateAppPolicyDBKeeps ==
    ASSUME ShakeInv, CreateAppPolicyDB
    PROVE  ShakeInv'
<1>1. /\ Next1("create") /\ UNCHANGED <<other, observed, manager>>
      /\ \/ Start("created", TRUE) /\ Goes /\ UNCHANGED doubt
         \/ UNCHANGED jobs /\ Ends /\ "failed" \in doubt'
  BY DEF CreateAppPolicyDB, Works, Fails
<1>2. /\ doing' \in Doings /\ ~Watching /\ ~Watching' /\ Creating /\ sa # "start"
      /\ ~Steps("get")' /\ ~Steps("watch")' /\ ~Steps("ready?")
  BY <1>1, Advance DEF ShakeInv, Begins, Next1
<1>3. CASE Start("created", TRUE) /\ Goes /\ UNCHANGED doubt
  <2>1. /\ jobs' \in [Slots -> Job] /\ Fresh'
        /\ \E j \in Slots : /\ jobs[j].at = "free" /\ jobs'[j].at = "created"
                            /\ jobs'[j].first = TRUE
                            /\ \A i \in Slots \ {j} : jobs'[i] = jobs[i]
    <3>1. "created" \in {"created", "query"} /\ TRUE \in BOOLEAN
      OBVIOUS
    <3> QED BY <1>3, <3>1, Started DEF ShakeInv
  <2>2. ShakeTypeOK'
    BY <1>1, <1>2, <2>1 DEF ShakeInv, ShakeTypeOK
  <2>3. ~Updating
    <3>1. doing \in Doings /\ doing # <<>> /\ Head(doing) = "create"
      BY <1>1 DEF ShakeInv, ShakeTypeOK, Next1
    <3> QED BY <3>1, Rest DEF Follows, Updating, Steps
  <2>4. Begun /\ Begun' /\ (Sure' => Sure)
    BY <1>1, <1>2, <1>3, <2>1 DEF Begun, Sure, Await
  <2>5. Begins'
    BY <1>1, <1>2, <2>4 DEF Begins
  <2>6. Knows' /\ Observes' /\ Fetches'
    BY <1>1, <1>2, <2>1, <2>3, <2>4 DEF ShakeInv, Knows, Observes, Fetches
  <2>7. Watches'
    BY <1>1, <1>2, <1>3, WatchesStay
  <2> QED BY <2>1, <2>2, <2>5, <2>6, <2>7 DEF ShakeInv
<1>4. CASE UNCHANGED jobs /\ "failed" \in doubt'
  <2>1. ShakeTypeOK' /\ Fresh'
    BY <1>1, <1>2, <1>4 DEF ShakeInv, ShakeTypeOK, Fresh
  <2> QED BY <1>1, <1>2, <1>4, <2>1, FailedKeeps
<1> QED BY <1>1, <1>3, <1>4

\* The initialisation is over, and nobody asks for the user any more.
LEMMA UserKnownKeeps ==
    ASSUME ShakeInv, UserKnown
    PROVE  ShakeInv'
<1>1. /\ Next1("known") /\ Goes /\ userKnown' = TRUE
      /\ UNCHANGED <<other, observed, jobs, currentUserId, ready, lists, ignored, watched, doubt>>
  BY DEF UserKnown
<1>2. /\ doing' \in Doings /\ ~Watching /\ ~Watching' /\ sa # "start"
      /\ ~Creating /\ ~Creating' /\ ~Updating
      /\ \A x \in {"get", "watch", "ready?"} : ~Steps(x) /\ ~Steps(x)'
  BY <1>1, Advance DEF ShakeInv, Begins, Next1
<1>3. ShakeTypeOK'
  BY <1>1, <1>2 DEF ShakeInv, ShakeTypeOK
<1>4. (Begun <=> Begun') /\ (Sure <=> Sure')
  BY <1>1, <1>2 DEF Begun, Sure, Await
<1>5. Begins'
  BY <1>1, <1>2, <1>4 DEF ShakeInv, Begins, Await
<1>6. Knows' /\ Observes' /\ Fresh' /\ Fetches'
  BY <1>1, <1>2, <1>4, CoreStays
<1>7. Watches'
  BY <1>1, <1>2, WatchesStay
<1> QED BY <1>3, <1>5, <1>6, <1>7 DEF ShakeInv

\* What the callbacks change in a job, and what they leave in it.
LEMMA Asked ==
    ASSUME NEW r \in Job
    PROVE  LET q == [r EXCEPT !.at = "query"] IN
              q \in Job /\ q.at = "query" /\ q.first = r.first /\ q.late = r.late /\ q.newer = r.newer
BY DEF Job

\* A job that is answered changes where it is and what it found.
LEMMA Answered ==
    ASSUME NEW r \in Job, NEW F \in SUBSET (Apps \X Values)
    PROVE  LET q == [r EXCEPT !.at = "store", !.found = F] IN
              /\ q \in Job /\ q.at = "store" /\ q.found = F
              /\ q.first = r.first /\ q.late = r.late /\ q.newer = r.newer
<1> DEFINE Found == SUBSET (Apps \X Values)
           Newer == SUBSET Slots
<1>1. F \in Found /\ Job = [at : {"free", "created", "query", "store"}, found : Found,
                            first : BOOLEAN, newer : Newer, late : BOOLEAN]
  BY DEF Job
<1> HIDE DEF Found, Newer, Slots
<1> QED BY <1>1

\* A job after which another one asks changes only in that.
LEMMA Outrun ==
    ASSUME NEW r \in Job, NEW j \in Slots
    PROVE  LET q == [r EXCEPT !.newer = @ \cup {j}] IN
              /\ q \in Job /\ q.at = r.at /\ q.found = r.found
              /\ q.first = r.first /\ q.late = r.late /\ q.newer = r.newer \cup {j}
BY DEF Job

\* A job sees another one store, which may have asked after it.
LEMMA Overtaken ==
    ASSUME NEW r \in Job, NEW j \in Slots
    PROVE  LET q == [r EXCEPT !.late = @ \/ j \in r.newer, !.newer = @ \ {j}] IN
              /\ q \in Job /\ q.at = r.at /\ q.found = r.found /\ q.first = r.first
              /\ q.late = (r.late \/ j \in r.newer) /\ q.newer = r.newer \ {j}
BY DEF Job

\* A callback observes the policies of the user, or fails to.
LEMMA CreateCallBackKeeps ==
    ASSUME ShakeInv, NEW j \in Slots, CreateCallBack(j)
    PROVE  ShakeInv'
<1>1. /\ jobs[j].at = "created"
      /\ \/ /\ observed' = observed \cup {currentUserId} /\ UNCHANGED <<ready, doubt>>
            /\ jobs' = [jobs EXCEPT ![j].at = "query"]
         \/ /\ ready' = FALSE /\ "failed" \in doubt' /\ UNCHANGED observed
            /\ jobs' = [jobs EXCEPT ![j] = Free]
      /\ UNCHANGED <<background, currentUserId, userKnown, lists, ignored, watched>>
  BY DEF CreateCallBack, Works, Fails
<1>2. CASE /\ observed' = observed \cup {currentUserId} /\ UNCHANGED <<ready, doubt>>
           /\ jobs' = [jobs EXCEPT ![j].at = "query"]
  <2>1. jobs' \in [Slots -> Job] /\ jobs'[j].at = "query" /\ jobs'[j].first = jobs[j].first
        /\ jobs'[j].late = jobs[j].late /\ jobs'[j].newer = jobs[j].newer
        /\ \A i \in Slots \ {j} : jobs'[i] = jobs[i]
    <3>1. jobs \in [Slots -> Job] /\ jobs[j] \in Job
      BY DEF ShakeInv, ShakeTypeOK
    <3> DEFINE r == [jobs[j] EXCEPT !.at = "query"]
    <3>2. /\ r \in Job /\ r.at = "query" /\ r.first = jobs[j].first
          /\ r.late = jobs[j].late /\ r.newer = jobs[j].newer
      BY <3>1, Asked
    <3>3. jobs' = [jobs EXCEPT ![j] = r]
      BY <1>2
    <3> HIDE DEF r, Slots, Job
    <3> QED BY <3>1, <3>2, <3>3
  <2>2. ShakeTypeOK'
    BY <1>1, <1>2, <2>1 DEF ShakeInv, ShakeTypeOK
  <2>3. Begun /\ Begun' /\ (Sure' => Sure)
    BY <1>1, <1>2 DEF Begun, Sure, Await
  <2>4. Begins'
    BY <1>1, <2>3 DEF ShakeInv, Begins
  <2>5. Knows' /\ Observes' /\ Fetches' /\ Fresh'
    BY <1>1, <1>2, <2>1, <2>3 DEF ShakeInv, Knows, Observes, Fetches, Fresh, Updating, Creating, Steps
  <2>6. Watches'
    BY <1>1, <1>2, WatchesStay DEF Watching, Steps
  <2> QED BY <2>2, <2>4, <2>5, <2>6 DEF ShakeInv
<1>3. CASE /\ ready' = FALSE /\ "failed" \in doubt' /\ UNCHANGED observed
           /\ jobs' = [jobs EXCEPT ![j] = Free]
  <2>1. Free \in Job /\ ~Free.late /\ Free.newer = {}
    BY DEF Free, New, Job
  <2>2. jobs' \in [Slots -> Job] /\ Fresh'
    <3> HIDE DEF Slots
    <3> QED BY <1>3, <2>1 DEF ShakeInv, ShakeTypeOK, Fresh
  <2>3. ShakeTypeOK'
    BY <1>1, <1>3, <2>2 DEF ShakeInv, ShakeTypeOK
  <2> QED BY <1>1, <1>3, <2>2, <2>3, FailedKeeps DEF ShakeInv, Begins
<1> QED BY <1>1, <1>2, <1>3

\* The answer of a query is the newest there is.
LEMMA QueryKeeps ==
    ASSUME ShakeInv, NEW j \in Slots, QueryAppPolicyByPolicyName(j)
    PROVE  ShakeInv'
<1> DEFINE found == {<<a, policy[currentUserId][a]>> : a \in Apps}
           asked == [i \in Slots |->
                        IF i = j THEN [jobs[j] EXCEPT !.at = "store", !.found = found]
                        ELSE IF jobs[i].at = "store" THEN [jobs[i] EXCEPT !.newer = @ \cup {j}]
                        ELSE jobs[i]]
<1>1. /\ jobs[j].at = "query"
      /\ \/ jobs' = asked /\ UNCHANGED <<ready, doubt>>
         \/ jobs' = [jobs EXCEPT ![j] = Free] /\ ready' \in BOOLEAN /\ "failed" \in doubt'
      /\ UNCHANGED <<background, observed, currentUserId, userKnown, lists, ignored, watched>>
  <2> DEFINE freed == [jobs EXCEPT ![j] = Free]
  <2>1. /\ jobs[j].at = "query"
        /\ \/ jobs' = asked /\ Works /\ UNCHANGED ready
           \/ jobs' = freed /\ Done(j) /\ Fails
        /\ UNCHANGED <<background, observed, currentUserId, userKnown, lists, ignored, watched>>
    BY Zenon DEF QueryAppPolicyByPolicyName
  <2>2. Works => UNCHANGED doubt
    BY DEF Works
  <2>3. Fails => "failed" \in doubt'
    BY DEF Fails
  <2>4. Done(j) => ready' \in BOOLEAN
    BY DEF Done
  <2> HIDE DEF asked, freed
  <2>5. \/ jobs' = asked /\ UNCHANGED <<ready, doubt>>
        \/ jobs' = freed /\ ready' \in BOOLEAN /\ "failed" \in doubt'
    BY <2>1, <2>2, <2>3, <2>4, Zenon
  <2> QED BY <2>1, <2>5, Zenon DEF freed
<1>2. CASE jobs' = asked /\ UNCHANGED <<ready, doubt>>
  <2>1. found \in SUBSET (Apps \X Values)
    BY DEF ShakeInv, ShakeTypeOK
  <2>2. /\ jobs' \in [Slots -> Job]
        /\ jobs'[j].at = "store" /\ jobs'[j].found = found /\ jobs'[j].first = jobs[j].first
        /\ jobs'[j].late = jobs[j].late /\ jobs'[j].newer = jobs[j].newer
        /\ \A i \in Slots \ {j} :
              /\ jobs'[i].at = jobs[i].at /\ jobs'[i].first = jobs[i].first
              /\ jobs[i].at = "store" => j \in jobs'[i].newer
              /\ jobs[i].at # "store" => jobs'[i] = jobs[i]
    <3>1. jobs \in [Slots -> Job]
      BY DEF ShakeInv, ShakeTypeOK
    <3>2. /\ asked[j] \in Job /\ asked[j].at = "store" /\ asked[j].found = found
          /\ asked[j].first = jobs[j].first /\ asked[j].late = jobs[j].late
          /\ asked[j].newer = jobs[j].newer
      <4>1. jobs[j] \in Job
        BY <3>1
      <4>2. LET q == [jobs[j] EXCEPT !.at = "store", !.found = found] IN
               /\ q \in Job /\ q.at = "store" /\ q.found = found
               /\ q.first = jobs[j].first /\ q.late = jobs[j].late /\ q.newer = jobs[j].newer
        <5> HIDE DEF found
        <5> QED BY <2>1, <4>1, Answered, Zenon
      <4>3. asked[j] = [jobs[j] EXCEPT !.at = "store", !.found = found]
        <5> HIDE DEF found
        <5> QED BY Zenon
      <4> HIDE DEF asked, found
      <4> QED BY <4>2, <4>3, Zenon
    <3>3. ASSUME NEW i \in Slots, i # j
          PROVE  /\ asked[i] \in Job /\ asked[i].at = jobs[i].at /\ asked[i].first = jobs[i].first
                 /\ jobs[i].at = "store" => j \in asked[i].newer
                 /\ jobs[i].at # "store" => asked[i] = jobs[i]
      <4> HIDE DEF Slots, found
      <4> QED BY <3>1, <3>3, Outrun
    <3>4. jobs' \in [Slots -> Job]
      <4>1. asked \in [Slots -> Job]
        BY <3>2, <3>3
      <4> QED BY <1>2, <4>1
    <3> HIDE DEF asked
    <3> QED BY <1>2, <3>2, <3>3, <3>4
  <2>3. ~jobs'[j].late /\ jobs'[j].newer = {}
    BY <1>1, <2>2 DEF ShakeInv, Fresh
  <2> HIDE DEF asked
  <2>4. ShakeTypeOK'
    BY <1>1, <1>2, <2>2 DEF ShakeInv, ShakeTypeOK
  <2>5. (Begun <=> Begun') /\ (Sure' <=> Sure)
    BY <1>1, <1>2, <2>2 DEF Begun, Sure, Await, Creating, Steps
  <2>6. Begins'
    BY <1>1, <1>2, <2>5 DEF ShakeInv, Begins, Await, Steps
  <2>7. Knows' /\ Observes' /\ Fresh'
    BY <1>1, <1>2, <2>2, <2>5 DEF ShakeInv, Knows, Observes, Fresh, Updating, Creating, Steps
  <2>8. Fetches'
    <3> SUFFICES ASSUME Sure, ~Creating
                 PROVE  Newest(j)'
      BY <1>1, <2>5 DEF Fetches, Creating, Steps
    <3>1. currentUserId = active
      BY UpdatingCreates DEF ShakeInv, Knows
    <3>2. jobs'[j].found = {<<a, policy'[active'][a]>> : a \in Apps}
      BY <1>1, <2>2, <3>1
    <3> QED BY <2>2, <2>3, <3>2 DEF Newest
  <2>9. Watches'
    BY <1>1, <1>2, WatchesStay DEF Watching, Steps
  <2> QED BY <2>4, <2>6, <2>7, <2>8, <2>9 DEF ShakeInv
<1>3. CASE jobs' = [jobs EXCEPT ![j] = Free] /\ ready' \in BOOLEAN /\ "failed" \in doubt'
  <2>1. Free \in Job /\ ~Free.late /\ Free.newer = {}
    BY DEF Free, New, Job
  <2>2. jobs' \in [Slots -> Job] /\ Fresh'
    <3> HIDE DEF Slots
    <3> QED BY <1>3, <2>1 DEF ShakeInv, ShakeTypeOK, Fresh
  <2>3. ShakeTypeOK'
    BY <1>1, <1>3, <2>2 DEF ShakeInv, ShakeTypeOK
  <2> QED BY <1>1, <1>3, <2>2, <2>3, FailedKeeps DEF ShakeInv, Begins
<1> QED BY <1>1, <1>2, <1>3

\* What is stored is the newest answer, or an older one that is known for it.
LEMMA StoreKeeps ==
    ASSUME ShakeInv, NEW j \in Slots, InitShakeSensorControlAppInfos(j)
    PROVE  ShakeInv'
<1> DEFINE after == [i \in Slots |->
                        IF i = j THEN Free
                        ELSE [jobs[i] EXCEPT !.late = @ \/ j \in jobs[i].newer,
                                             !.newer = @ \ {j}]]
<1>1. /\ jobs[j].at = "store" /\ jobs' = after
      /\ controlled' = Listed(j, {"close"}) /\ open' = Listed(j, {"open"})
      /\ ready' = (ready \/ jobs[j].first)
      /\ doubt' = IF jobs[j].late THEN doubt \cup {"overtaken"} ELSE doubt \ {"overtaken"}
      /\ UNCHANGED <<background, observed, currentUserId, userKnown, ignored, watched>>
  BY DEF InitShakeSensorControlAppInfos, Done
<1>2. jobs \in [Slots -> Job] /\ jobs[j] \in Job
  BY DEF ShakeInv, ShakeTypeOK
<1>3. Free \in Job /\ Free.at = "free" /\ ~Free.late /\ Free.newer = {}
  BY DEF Free, New, Job
<1>4. ASSUME NEW i \in Slots, i # j
      PROVE  /\ after[i] \in Job /\ after[i].at = jobs[i].at /\ after[i].first = jobs[i].first
             /\ after[i].found = jobs[i].found
             /\ after[i].late = (jobs[i].late \/ j \in jobs[i].newer)
             /\ after[i].newer = jobs[i].newer \ {j}
  <2> DEFINE q == [jobs[i] EXCEPT !.late = @ \/ j \in jobs[i].newer, !.newer = @ \ {j}]
  <2>1. /\ q \in Job /\ q.at = jobs[i].at /\ q.found = jobs[i].found
        /\ q.first = jobs[i].first
        /\ q.late = (jobs[i].late \/ j \in jobs[i].newer) /\ q.newer = jobs[i].newer \ {j}
    <3>1. jobs[i] \in Job
      BY <1>2
    <3> QED BY <3>1, Overtaken
  <2>2. after[i] = q
    BY <1>4
  <2> HIDE DEF q, after
  <2> QED BY <2>1, <2>2
<1>5. jobs' \in [Slots -> Job] /\ jobs'[j] = Free
  <2>1. after[j] = Free
    OBVIOUS
  <2>2. after \in [Slots -> Job]
    <3>1. \A i \in Slots : after[i] \in Job
      BY <1>3, <1>4, <2>1
    <3>2. after = [i \in Slots |-> after[i]]
      OBVIOUS
    <3> HIDE DEF after, Slots
    <3> QED BY <3>1, <3>2
  <2> HIDE DEF after
  <2> QED BY <1>1, <2>1, <2>2
<1>6. \A i \in Slots : i # j =>
         /\ jobs'[i].at = jobs[i].at /\ jobs'[i].first = jobs[i].first
         /\ jobs'[i].found = jobs[i].found
         /\ jobs'[i].late = (jobs[i].late \/ j \in jobs[i].newer)
         /\ jobs'[i].newer = jobs[i].newer \ {j}
  <2> HIDE DEF after
  <2> QED BY <1>1, <1>4
<1> HIDE DEF after
<1>7. ShakeTypeOK'
  <2>1. controlled' \subseteq Apps \X Users /\ open' \subseteq Apps \X Users
    <3>1. currentUserId \in Users
      BY DEF ShakeInv, ShakeTypeOK
    <3>2. \A S : Listed(j, S) \subseteq Apps \X Users
      BY <3>1 DEF Listed
    <3> QED BY <1>1, <3>2
  <2>2. ready' \in BOOLEAN
    BY <1>1, <1>2 DEF ShakeInv, ShakeTypeOK, Job
  <2> QED BY <1>1, <1>5, <2>1, <2>2 DEF ShakeInv, ShakeTypeOK
<1>8. \A x : x # "overtaken" => (x \in doubt' <=> x \in doubt)
  BY <1>1
<1>9. (Begun => Begun') /\ (Sure' => Sure)
  <2>1. Begun <=> Begun'
    BY <1>1, <1>3, <1>5, <1>6 DEF Begun, Creating, Steps
  <2> QED BY <1>1, <1>8, <2>1 DEF Sure, Await
<1>10. Begins'
  BY <1>1, <1>8, <1>9 DEF ShakeInv, Begins, Await, Steps
<1>11. Knows'
  BY <1>1, <1>9 DEF ShakeInv, Knows, Updating, Steps
<1>12. Observes'
  BY <1>1, <1>6, <1>9 DEF ShakeInv, Observes, Creating, Steps
<1>13. Fresh'
  BY <1>3, <1>5, <1>6 DEF ShakeInv, Fresh
<1>14. Fetches'
  <2> SUFFICES ASSUME Sure, ~Creating, \A i \in Slots : jobs'[i].at \notin {"created", "query"}
               PROVE  Stored' \/ \E k \in Slots : Newest(k)'
    BY <1>1, <1>9 DEF Fetches, Creating, Steps
  <2>1. Stored \/ \E k \in Slots : Newest(k)
    BY <1>1, <1>6 DEF ShakeInv, Fetches
  <2>2. CASE Stored
    BY <1>1, <1>3, <1>5, <1>6, <2>2 DEF Stored
  <2>3. CASE Newest(j)
    <3>1. currentUserId = active
      BY UpdatingCreates DEF ShakeInv, Knows
    <3>2. Listed(j, {"close"}) = {<<a, active>> : a \in {b \in Apps : policy[active][b] = "close"}}
      <4>1. jobs[j].found = {<<a, policy[active][a]>> : a \in Apps}
        BY <2>3 DEF Newest
      <4>2. \A b \in Apps : <<b, "close">> \in jobs[j].found <=> policy[active][b] = "close"
        BY <4>1
      <4> QED BY <3>1, <4>2 DEF Listed
    <3>3. controlled' = {<<a, active'>> : a \in {b \in Apps : policy'[active'][b] = "close"}}
      BY <1>1, <3>2
    <3>4. \A i \in Slots : jobs'[i].at = "store" => jobs'[i].late
      BY <1>3, <1>5, <1>6, <2>3 DEF Newest
    <3> QED BY <3>3, <3>4 DEF Stored
  <2>4. ASSUME NEW k \in Slots, k # j, Newest(k)
        PROVE  Newest(k)'
    <3> DEFINE answer == {<<a, policy[active][a]>> : a \in Apps}
    <3>1. /\ jobs[k].at = "store" /\ ~jobs[k].late /\ jobs[k].newer = {}
          /\ jobs[k].found = answer
      BY <2>4 DEF Newest
    <3>2. answer' = answer
      BY <1>1
    <3> HIDE DEF answer
    <3>3. /\ jobs'[k].at = "store" /\ ~jobs'[k].late /\ jobs'[k].newer = {}
          /\ jobs'[k].found = answer'
      BY <1>6, <2>4, <3>1, <3>2
    <3>4. \A i \in Slots \ {k} : jobs'[i].at = "store" => k \in jobs'[i].newer \/ jobs'[i].late
      BY <1>3, <1>5, <1>6, <2>4 DEF Newest
    <3> QED BY <3>3, <3>4 DEF Newest, answer
  <2> QED BY <2>1, <2>2, <2>3, <2>4
<1>15. Watches'
  BY <1>1, <1>8, WatchesStay DEF Watching, Steps
<1> QED BY <1>7, <1>10, <1>11, <1>12, <1>13, <1>14, <1>15 DEF ShakeInv

\* The binder thread finds the same user as the manager has.
LEMMA TransferDataChannelKeeps ==
    ASSUME ShakeInv, NEW a \in Apps, TransferDataChannel(a)
    PROVE  ShakeInv'
<1>1. /\ currentUserId' \in {currentUserId, active} /\ userKnown' \in BOOLEAN
      /\ UNCHANGED doubt \/ "failed" \in doubt'
      /\ channel' = [channel EXCEPT ![a] = currentUserId']
      /\ UNCHANGED <<outside, observed, sa, subscribed, events, doing, jobs, news, ready, lists,
                     ignored, watched, asking>>
  BY DEF TransferDataChannel, AskForUser, KeepUser, Works, Fails, ShakeInv, ShakeTypeOK
<1>2. ShakeTypeOK' /\ Fresh'
  BY <1>1 DEF ShakeInv, ShakeTypeOK, Fresh
<1>3. CASE "failed" \in doubt'
  BY <1>1, <1>2, <1>3, FailedKeeps DEF ShakeInv, Begins
<1>4. CASE UNCHANGED doubt
  <2>1. (Begun <=> Begun') /\ (Sure <=> Sure') /\ (Creating <=> Creating')
        /\ (Updating <=> Updating')
    BY <1>1, <1>4 DEF Begun, Sure, Await, Creating, Updating, Steps
  <2>2. Begins'
    BY <1>1, <1>4, <2>1 DEF ShakeInv, Begins, Await, Steps
  <2>3. Knows'
    BY <1>1, <2>1 DEF ShakeInv, Knows
  <2>4. Observes'
    <3>1. Sure /\ ~Creating => currentUserId' = currentUserId
      BY <1>1, UpdatingCreates DEF ShakeInv, Knows
    <3> QED BY <1>1, <2>1, <3>1 DEF ShakeInv, Observes
  <2>5. Fetches'
    <3>1. (Stored <=> Stored') /\ \A k \in Slots : Newest(k) <=> Newest(k)'
      BY <1>1, <1>4 DEF Stored, Newest
    <3> QED BY <1>1, <2>1, <3>1 DEF ShakeInv, Fetches
  <2>6. Watches'
    BY <1>1, <1>4, WatchesStay DEF Watching, Steps
  <2> QED BY <1>2, <2>2, <2>3, <2>4, <2>5, <2>6 DEF ShakeInv
<1> QED BY <1>1, <1>3, <1>4

\* An application that is in neither list is to be added.
LEMMA NotifyAppSubscribeSensorKeeps ==
    ASSUME ShakeInv, NEW a \in Apps, NotifyAppSubscribeSensor(a)
    PROVE  ShakeInv'
<1>1. /\ asking' = asking \cup {<<a, currentUserId>>}
      /\ UNCHANGED <<outside, observed, sa, subscribed, events, doing, jobs, news, manager,
                     channel, doubt>>
  BY DEF NotifyAppSubscribeSensor
<1>2. ShakeTypeOK'
  BY <1>1 DEF ShakeInv, ShakeTypeOK
<1>3. Begins'
  BY <1>1 DEF ShakeInv, Begins, Begun, Creating, Steps, Await
<1>4. Watches'
  BY <1>1, WatchesStay DEF Watching, Steps
<1>5. Knows' /\ Observes' /\ Fresh' /\ Fetches'
  BY <1>1, CoreStays DEF Sure, Begun, Creating, Updating, Steps, Await
<1> QED BY <1>2, <1>3, <1>4, <1>5 DEF ShakeInv

-----------------------------------------------------------------------------

\* A step that changes nothing.
LEMMA ShakeStutter ==
    ASSUME ShakeInv, UNCHANGED shakeVars
    PROVE  ShakeInv'
<1>1. ShakeTypeOK'
  BY DEF shakeVars, ShakeInv, ShakeTypeOK
<1>2. Begins'
  BY DEF shakeVars, ShakeInv, Begins, Begun, Creating, Steps, Await
<1>3. Watches'
  BY WatchesStay DEF shakeVars, Watching, Steps
<1>4. Knows' /\ Observes' /\ Fresh' /\ Fetches'
  BY CoreStays DEF shakeVars, Sure, Begun, Creating, Updating, Steps, Await
<1> QED BY <1>1, <1>2, <1>3, <1>4 DEF ShakeInv

\* The invariant of the shake control holds at the start.
LEMMA ShakeInitInv ==
    ASSUME ShakeInit
    PROVE  ShakeInv
<1>1. Range(<<>>) = {} /\ <<>> \in Doings /\ Free \in Job /\ Free.at = "free"
      /\ ~Free.late /\ Free.newer = {}
  BY DEF Range, Doings, Free, New, Job
<1>2. jobs \in [Slots -> Job] /\ \A j \in Slots : jobs[j] = Free
  <2> HIDE DEF Slots
  <2> QED BY <1>1 DEF ShakeInit
<1>3. ShakeTypeOK
  <2>1. policy \in [Users -> [Apps -> Values]]
    BY DEF ShakeInit, Values
  <2>2. /\ events = <<>> /\ news = <<>> /\ doing = <<>>
        /\ events \in Seq({"BOOT_COMPLETED", "USER_SWITCHED"}) /\ news \in Seq(SUBSET Apps)
    BY EmptySeq DEF ShakeInit
  <2>3. channel \in [Apps -> Users \cup {NoUser}]
    BY DEF ShakeInit
  <2> QED BY <1>1, <1>2, <2>1, <2>2, <2>3, DefaultUserAssumption DEF ShakeInit, ShakeTypeOK
<1>4. ~Begun
  BY <1>1, <1>2 DEF ShakeInit, Begun, Creating, Steps
<1>5. Begins /\ Fresh
  BY <1>1, <1>2 DEF ShakeInit, Begins, Fresh
<1>6. Knows /\ Observes /\ Fetches
  BY <1>4 DEF Sure, Knows, Observes, Fetches
<1>7. Watches
  BY <1>1 DEF ShakeInit, Watches, Watching, Steps
<1> QED BY <1>3, <1>5, <1>6, <1>7 DEF ShakeInv

\* Who has begun to observe knows the active user, observes it, and has its
\* policies in the lists or a fetch under way that will bring them, for any
\* number of users, applications and callbacks: what the manager keeps is
\* never older than the last event it has handled
\* (sensor_shake_control_manager.cpp).
THEOREM ShakeInvariance == ShakeSpec => []ShakeInv
<1>1. ShakeInit => ShakeInv
  BY ShakeInitInv
<1>2. ShakeInv /\ [ShakeNext]_shakeVars => ShakeInv'
  <2> SUFFICES ASSUME ShakeInv, [ShakeNext]_shakeVars
               PROVE  ShakeInv'
    OBVIOUS
  <2>1. CASE SwitchUser \/ CompleteBoot \/ UserSetsPolicy \/ SetParameter
    BY <2>1, SwitchUserKeeps, CompleteBootKeeps, UserSetsPolicyKeeps, SetParameterKeeps
  <2>2. CASE OnAddSystemAbility
    BY <2>2, OnAddSystemAbilityKeeps
  <2>3. CASE SubscribeBoot
    BY <2>3, SubscribeKeeps DEF SubscribeBoot
  <2>4. CASE SubscribeSwitch
    BY <2>4, SubscribeKeeps DEF SubscribeSwitch
  <2>5. CASE OnReceiveBootEvent \/ OnReceiveUserSwitchEvent \/ CheckReady
    BY <2>5, OnReceiveBootEventKeeps, OnReceiveUserSwitchEventKeeps, CheckReadyKeeps
  <2>6. CASE LoadSecurityPrivacyManager \/ GetShakeIgnoreControl
    BY <2>6, LoadSecurityPrivacyManagerKeeps, GetShakeIgnoreControlKeeps
  <2>7. CASE RegisterShakeControlParameter \/ OnParameterChanged
    BY <2>7, RegisterShakeControlParameterKeeps, OnParameterChangedKeeps
  <2>8. CASE UpdateCurrentUserId \/ UnregisterShakeSensorControlObserver
    BY <2>8, UpdateCurrentUserIdKeeps, UnregisterKeeps
  <2>9. CASE CreateAppPolicyDB \/ UserKnown
    BY <2>9, CreateAppPolicyDBKeeps, UserKnownKeeps
  <2>10. ASSUME NEW j \in Slots, CreateCallBack(j) \/ QueryAppPolicyByPolicyName(j)
                                    \/ InitShakeSensorControlAppInfos(j)
         PROVE  ShakeInv'
    BY <2>10, CreateCallBackKeeps, QueryKeeps, StoreKeeps
  <2>11. ASSUME NEW a \in Apps, TransferDataChannel(a) \/ NotifyAppSubscribeSensor(a)
         PROVE  ShakeInv'
    BY <2>11, TransferDataChannelKeeps, NotifyAppSubscribeSensorKeeps
  <2>12. CASE ModifyAppPolicy
    BY <2>12, ModifyAppPolicyKeeps
  <2>13. CASE UNCHANGED shakeVars
    BY <2>13, ShakeStutter
  <2> QED
    BY <2>1, <2>2, <2>3, <2>4, <2>5, <2>6, <2>7, <2>8, <2>9, <2>10, <2>11, <2>12, <2>13
       DEF ShakeNext
<1> QED BY <1>1, <1>2, PTL DEF ShakeSpec

\* The invariant of the shake control implies Followed.
LEMMA ShakeInvFollows ==
    ASSUME ShakeInv
    PROVE  Followed
<1> SUFFICES ASSUME Quiet, doubt = {}
             PROVE  \A a \in Apps : channel[a] # NoUser =>
                      (CheckAppIsNeedControl(a) <=>
                          /\ channel[a] = active /\ policy[active][a] = "close"
                          /\ ~(watched /\ a \in parameter))
  BY DEF Followed
<1>1. /\ booted /\ sa = "done" /\ Range(events) = {} /\ doing = <<>> /\ Range(doing) = {}
      /\ news = <<>> /\ \A j \in Slots : jobs[j].at = "free"
  BY DEF Quiet, Range
<1>2. Sure /\ ~Creating
  BY <1>1 DEF ShakeInv, Begins, Sure, Await, Creating, Steps
<1>3. controlled = {<<a, active>> : a \in {b \in Apps : policy[active][b] = "close"}}
  BY <1>1, <1>2 DEF ShakeInv, Fetches, Newest, Stored
<1>4. ignored = IF watched THEN parameter ELSE {}
  BY <1>1 DEF ShakeInv, ShakeTypeOK, Watches, Watching
<1> QED BY <1>3, <1>4 DEF CheckAppIsNeedControl

\* Once nothing is on its way, an application's motion events are held back
\* exactly if the policy of the active user says so and the parameter does not
\* excuse the application (SensorShakeControlManager::CheckAppIsNeedControl),
\* for any number of users, applications, changes, failures and callbacks.
THEOREM AlwaysFollowed == ShakeSpec => []Followed
<1>1. ShakeInv => Followed
  BY ShakeInvFollows
<1> QED BY <1>1, ShakeInvariance, PTL

=============================================================================
