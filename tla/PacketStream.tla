----------------------------- MODULE PacketStream -----------------------------
(* Packets on a byte stream: how StreamSession cuts a packet into sends, and    *)
(* how the client's CircleStreamBuffer and StreamSocket put it together again.  *)
(* A byte is a cell, the pair of the packet it belongs to and its position.     *)
(* One cell stands for several bytes: a packet's header and its body have a few *)
(* cells each, so that either of them can be cut.                               *)
EXTENDS Integers, Sequences, FiniteSets

CONSTANTS
    HeadSize,       \* cells of PackHead
    BodySize,       \* cells of the data of an ACTIVE_INFO packet
    BufSize,        \* cells of MAX_STREAM_BUF_SIZE, and of the most one recv takes
    SocketSize,     \* cells the kernel keeps for a socket
    RetryLimit,     \* SEND_RETRY_LIMIT
    PacketLimit     \* ONCE_PROCESS_NETPACKET_LIMIT

(* A packet fits into the buffer, and the limit of packets taken at a time is   *)
(* more than a full buffer holds (100 packets of 16 bytes or more in 256).      *)
ASSUME StreamAssumption ==
    /\ HeadSize \in Nat \ {0}
    /\ BodySize \in Nat \ {0}
    /\ BufSize \in Nat /\ HeadSize + BodySize <= BufSize
    /\ SocketSize \in Nat \ {0}
    /\ RetryLimit \in Nat \ {0}
    /\ PacketLimit \in Nat /\ PacketLimit * HeadSize > BufSize

PacketSize == HeadSize + BodySize

(* NetPacket::MakeData: the header and then the data.                           *)
MakeData(p) == [i \in 1..PacketSize |-> <<p, i>>]

(* What is parsed from cells that are not one whole packet.                     *)
Garbage == 0

Least(a, b) == IF a < b THEN a ELSE b
First(s, n) == SubSeq(s, 1, n)
Without(s, n) == SubSeq(s, n + 1, Len(s))

-----------------------------------------------------------------------------
(* One attempt of SendMsg. The socket takes what it has room for: none at all   *)
(* is EAGAIN, and a part leaves the rest for the next attempt.                  *)
Taken(rest, socket) == Least(Len(rest), SocketSize - Len(socket))

(* CircleStreamBuffer::Write moves the unread cells to the front when it needs  *)
(* the room behind them, so a write fails exactly when the unread and the new   *)
(* cells exceed the buffer; nothing is kept of it then.                         *)
Fits(buf, data) == Len(buf) + Len(data) <= BufSize
Write(buf, data) == IF Fits(buf, data) THEN buf \o data ELSE buf

-----------------------------------------------------------------------------
(* The header is where the reader stands, or it takes other cells for one.      *)
AtHeader(buf) ==
    /\ Len(buf) >= HeadSize
    /\ First(buf, HeadSize) = First(MakeData(Head(buf)[1]), HeadSize)

(* head->size, in cells; cells that are no header read as any number, BufSize + *)
(* 1 standing for all that are too large.                                       *)
HeadSizes(buf) == IF AtHeader(buf) THEN {BodySize} ELSE 0..(BufSize + 1)

(* Which packet a callback gets out of the first n cells.                       *)
Parsed(buf, n) ==
    IF n = PacketSize /\ First(buf, n) = MakeData(Head(buf)[1]) THEN Head(buf)[1] ELSE Garbage

(* What one turn of the loop in OnReadPackets does with a header that announces *)
(* size cells: the header is wrong and the buffer is reset, the packet has not  *)
(* arrived yet, or it is taken.                                                 *)
BadSize(size) == size > BufSize
Incomplete(buf, size) == ~BadSize(size) /\ size > Len(buf) - HeadSize
AfterPacketMutant(buf, size) == Without(buf, HeadSize + size - 1)
AfterPacket(buf, size) == Without(buf, HeadSize + size)
=============================================================================
