----------------------------- MODULE LineReader -----------------------------
(***************************************************************************)
(* How stratum_recv_line (soj_stratum_transport.c) cuts the byte stream of *)
(* one pool connection into lines: chunks of at most RECVSIZE bytes are    *)
(* appended to sockbuf, which grows in steps of RBUFSIZE, until it holds a *)
(* newline; the line is cut off and the rest moved down.  A call may give  *)
(* up half way through a line, on a time-out or a failed receive, and a    *)
(* later call goes on where it stopped.                                    *)
(***************************************************************************)
EXTENDS Integers, Sequences

CONSTANTS Bytes,        \* bytes other than the newline and NUL
          RBUFSIZE,     \* growth step of the buffer (2048)
          RECVSIZE,     \* most bytes one receive returns (RBUFSIZE - 4)
          MaxSent,      \* bound: bytes the pool sends on one connection
          MaxConn       \* bound: connections

ASSUME BufferAssumption == /\ RBUFSIZE \in Nat \ {0}
                           /\ RECVSIZE \in Nat \ {0}
                           /\ MaxSent \in Nat /\ MaxConn \in Nat

NL == "nl"

ASSUME NewlineAssumption == NL \notin Bytes

VARIABLES sockbuf,      \* the string in the buffer
          sockbuf_size, \* bytes allocated for it, the terminating NUL included
          wire,         \* bytes sent by the pool and not yet received
          reading,      \* TRUE in the receive loop of stratum_recv_line
          lineErrors,   \* consecutive_stratum_failures
          up,           \* stratum.curl is set
          conn,         \* connections made so far
          sent,         \* history: what the pool sent on this connection
          cut           \* history: the bytes of the lines returned on it

rvars == <<sockbuf, sockbuf_size, wire, reading, lineErrors, up, conn, sent, cut>>

Byte == Bytes \cup {NL}

(* strchr(sockbuf, '\n'). *)
NewlineAt(buf) == CHOOSE i \in DOMAIN buf : buf[i] = NL /\ \A j \in 1..(i - 1) : buf[j] # NL

HasLine(buf) == \E i \in DOMAIN buf : buf[i] = NL

RInit == /\ sockbuf = <<>> /\ sockbuf_size = RBUFSIZE
         /\ wire = <<>> /\ sent = <<>> /\ cut = <<>>
         /\ reading = FALSE /\ lineErrors = 0 /\ up = TRUE /\ conn = 1

(* External: the pool writes to the connection. *)
PoolSends(b) == /\ up /\ Len(sent) < MaxSent
                /\ sent' = Append(sent, b)
                /\ wire' = Append(wire, b)
                /\ UNCHANGED <<sockbuf, sockbuf_size, reading, lineErrors, up, conn, cut>>

Grown_RoundsDown(n) == IF n >= sockbuf_size THEN n - (n % RBUFSIZE) ELSE sockbuf_size

(* Size of the buffer when it has to hold n bytes, the NUL included. *)
Grown(n) == IF n >= sockbuf_size THEN n + (RBUFSIZE - (n % RBUFSIZE)) ELSE sockbuf_size

BufferAppend(s) == /\ sockbuf' = sockbuf \o s
                   /\ sockbuf_size' = Grown(Len(sockbuf) + Len(s) + 1)

(* The connection is closed and the buffer emptied. *)
CutOff == /\ up' = FALSE /\ sockbuf' = <<>>
          /\ wire' = <<>> /\ sent' = <<>> /\ cut' = <<>>

(* Neither: the second failure in a row drops the connection, the third    *)
(* engages the pause and starts the count again.                           *)
NoLine == LET n == lineErrors + 1 IN
          /\ lineErrors' = IF n >= 3 THEN 0 ELSE n
          /\ IF n >= 2 THEN CutOff ELSE UNCHANGED <<sockbuf, up, wire, sent, cut>>

CutLine_DropsRest == LET i == NewlineAt(sockbuf) IN
           /\ cut' = cut \o SubSeq(sockbuf, 1, i)
           /\ sockbuf' = <<>>
           /\ lineErrors' = 0

(* The first line leaves the buffer; what follows it moves to the front.   *)
CutLine == LET i == NewlineAt(sockbuf) IN
           /\ cut' = cut \o SubSeq(sockbuf, 1, i)
           /\ sockbuf' = SubSeq(sockbuf, i + 1, Len(sockbuf))
           /\ lineErrors' = 0

(* A whole line is there: no receive is made. *)
TakeLine == /\ up /\ HasLine(sockbuf)
            /\ CutLine
            /\ reading' = FALSE
            /\ UNCHANGED <<sockbuf_size, wire, up, conn, sent>>

(* There is none and the socket has something to say within 60 seconds. *)
BeginReceive == /\ up /\ ~reading /\ ~HasLine(sockbuf)
                /\ reading' = TRUE
                /\ UNCHANGED <<sockbuf, sockbuf_size, wire, lineErrors, up, conn, sent, cut>>

(* One turn of the loop: some bytes arrive and are appended. *)
Receive == /\ reading /\ ~HasLine(sockbuf)
           /\ \E k \in 1..RECVSIZE :
                /\ k <= Len(wire)
                /\ BufferAppend(SubSeq(wire, 1, k))
                /\ wire' = SubSeq(wire, k + 1, Len(wire))
           /\ UNCHANGED <<reading, lineErrors, up, conn, sent, cut>>

(* The receive fails, or the minute is over before a newline has come. *)
GiveUp == /\ reading /\ ~HasLine(sockbuf)
          /\ NoLine
          /\ reading' = FALSE
          /\ UNCHANGED <<sockbuf_size, conn>>

(* stratum_disconnect, called outside stratum_recv_line. *)
Disconnect == /\ ~reading /\ up
              /\ CutOff
              /\ UNCHANGED <<sockbuf_size, reading, lineErrors, conn>>

(* stratum_connect: a connection made anew, or in place of the old one     *)
(* (which is cleaned up first), or an attempt that fails; each empties the *)
(* buffer once more.                                                       *)
Connect == /\ ~reading /\ conn < MaxConn
           /\ conn' = conn + 1
           /\ up' \in BOOLEAN /\ sockbuf' = <<>>
           /\ wire' = <<>> /\ sent' = <<>> /\ cut' = <<>>
           /\ UNCHANGED <<sockbuf_size, reading, lineErrors>>

RNext == \/ \E b \in Byte : PoolSends(b)
         \/ TakeLine \/ BeginReceive \/ Receive \/ GiveUp \/ Disconnect \/ Connect

ReaderSpec == RInit /\ [][RNext]_rvars

-----------------------------------------------------------------------------
(* Every byte of the connection is, in order and once, in a line that was  *)
(* returned, in the buffer, or not yet received: lines come out whole and  *)
(* unmixed however they are cut into chunks, also after calls that gave up *)
(* in the middle of one, and nothing of an earlier connection gets in.     *)
LinesExact == up => sent = cut \o sockbuf \o wire

(* strcpy in stratum_buffer_append stays inside the allocation: the string *)
(* and its terminating NUL fit, whatever the sizes of lines and chunks.    *)
BufferFits == Len(sockbuf) + 1 <= sockbuf_size
=============================================================================
