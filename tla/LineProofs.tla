----------------------------- MODULE LineProofs -----------------------------
(***************************************************************************)
(* Proofs about the two directions of the pool's socket: the line buffer   *)
(* of soj_stratum_transport.c, for every set of bytes, every growth step   *)
(* and chunk size and any number of connections, and send_line and         *)
(* stratum_send_line, for every set of writing threads, every length of a  *)
(* request and any number of connections.                                  *)
(***************************************************************************)
EXTENDS LineReader, LineWriter, SequenceTheorems, WellFoundedInduction, TLAPS

(* The buffer, the bytes on the wire and the two histories are strings.    *)
ReaderTypes == /\ sockbuf \in Seq(Byte) /\ wire \in Seq(Byte)
               /\ sent \in Seq(Byte) /\ cut \in Seq(Byte)
               /\ sockbuf_size \in Nat

(* A string cut in two is the concatenation of the halves: what the        *)
(* receive loop does to the wire and the cutting of a line to the buffer.  *)
LEMMA Halves ==
  ASSUME NEW S, NEW s \in Seq(S), NEW k \in 0..Len(s)
  PROVE  /\ SubSeq(s, 1, k) \in Seq(S) /\ Len(SubSeq(s, 1, k)) = k
         /\ SubSeq(s, k + 1, Len(s)) \in Seq(S)
         /\ Len(SubSeq(s, k + 1, Len(s))) = Len(s) - k
         /\ SubSeq(s, 1, k) \o SubSeq(s, k + 1, Len(s)) = s
<1> DEFINE a == SubSeq(s, 1, k)
           b == SubSeq(s, k + 1, Len(s))
<1>1. Len(s) \in Nat /\ \A i \in 1..Len(s) : s[i] \in S
  BY LenProperties, ElementOfSeq
<1>2. a \in Seq(S) /\ Len(a) = k /\ \A i \in 1..k : a[i] = s[i]
  BY <1>1, SubSeqProperties
<1>3. b \in Seq(S) /\ Len(b) = Len(s) - k /\ \A i \in 1..(Len(s) - k) : b[i] = s[i + k]
  BY <1>1, SubSeqProperties
<1> HIDE DEF a, b
<1>4. a \o b \in Seq(S) /\ Len(a \o b) = Len(s)
  BY <1>1, <1>2, <1>3, ConcatProperties
<1>5. ASSUME NEW i \in 1..Len(s) PROVE (a \o b)[i] = s[i]
  <2>1. (a \o b)[i] = IF i <= Len(a) THEN a[i] ELSE b[i - Len(a)]
    BY <1>1, <1>2, <1>3, ConcatProperties
  <2> QED
    BY <2>1, <1>1, <1>2, <1>3
<1>6. a \o b = s
  BY <1>4, <1>5, SeqEqual
<1> QED
  BY <1>2, <1>3, <1>6 DEF a, b

(* The newline strchr finds is a place of the buffer. *)
LEMMA NewlineInside ==
  ASSUME NEW s \in Seq(Byte), HasLine(s)
  PROVE  NewlineAt(s) \in 1..Len(s)
<1>1. Len(s) \in Nat /\ DOMAIN s = 1..Len(s)
  BY LenProperties
<1> DEFINE T == {n \in 1..Len(s) : s[n] = NL}
<1>2. T # {} /\ T \subseteq Nat
  BY <1>1 DEF HasLine
<1>3. PICK i \in T : \A j \in T : ~(<<j, i>> \in OpToRel(<, Nat))
  BY <1>2, WFMin, NatLessThanWellFounded
<1>4. \A j \in T : ~(j < i)
  BY <1>2, <1>3 DEF OpToRel
<1>5. i \in DOMAIN s /\ s[i] = NL /\ \A j \in 1..(i - 1) : s[j] # NL
  BY <1>1, <1>4
<1> QED
  BY <1>1, <1>5 DEF NewlineAt

(* The new size of the buffer holds what is put into it. *)
LEMMA GrownFits ==
  ASSUME NEW n \in Nat, sockbuf_size \in Nat
  PROVE  Grown(n) \in Nat /\ n <= Grown(n)
<1>1. n % RBUFSIZE \in 0..(RBUFSIZE - 1)
  BY BufferAssumption
<1> QED
  BY <1>1, BufferAssumption DEF Grown

(* The order in which strings are put together does not matter. *)
LEMMA Assoc == \A s, t, u \in Seq(Byte) : (s \o t) \o u = s \o (t \o u)
  BY ConcatAssociative

(* A byte added to the second of two strings is added to both. *)
LEMMA AppendLast == \A s, t \in Seq(Byte), e \in Byte : Append(s \o t, e) = s \o Append(t, e)
<1> SUFFICES ASSUME NEW s \in Seq(Byte), NEW t \in Seq(Byte), NEW e \in Byte
             PROVE  Append(s \o t, e) = s \o Append(t, e)
  OBVIOUS
<1>1. <<e>> \in Seq(Byte) /\ s \o t \in Seq(Byte)
  BY ConcatProperties
<1>2. Append(s \o t, e) = (s \o t) \o <<e>> /\ Append(t, e) = t \o <<e>>
  BY <1>1, AppendIsConcat
<1> QED
  BY <1>1, <1>2, Assoc

-----------------------------------------------------------------------------
(* What one step of stratum_recv_line does to the strings, whatever else.  *)
LEMMA ReaderTypesKept == ReaderTypes /\ [RNext]_rvars => ReaderTypes'
<1> SUFFICES ASSUME ReaderTypes, [RNext]_rvars PROVE ReaderTypes'
  OBVIOUS
<1> USE DEF ReaderTypes
<1>e. << >> \in Seq(Byte)
  BY EmptySeq
<1>1. ASSUME NEW b \in Byte, PoolSends(b) PROVE ReaderTypes'
  BY <1>1 DEF PoolSends
<1>2. CASE TakeLine
  <2>1. NewlineAt(sockbuf) \in 0..Len(sockbuf)
    BY <1>2, NewlineInside, LenProperties DEF TakeLine
  <2>2. sockbuf' \in Seq(Byte) /\ cut' \in Seq(Byte)
    BY <1>2, <2>1, Halves, ConcatProperties DEF TakeLine, CutLine
  <2> QED
    BY <1>2, <2>2 DEF TakeLine
<1>3. CASE BeginReceive
  BY <1>3 DEF BeginReceive
<1>4. CASE Receive
  <2>1. PICK k \in 1..RECVSIZE : /\ k <= Len(wire)
                                 /\ BufferAppend(SubSeq(wire, 1, k))
                                 /\ wire' = SubSeq(wire, k + 1, Len(wire))
    BY <1>4 DEF Receive
  <2>2. k \in 0..Len(wire)
    BY <2>1, BufferAssumption, LenProperties
  <2>3. wire' \in Seq(Byte) /\ SubSeq(wire, 1, k) \in Seq(Byte) /\ Len(SubSeq(wire, 1, k)) = k
    BY <2>1, <2>2, Halves
  <2>4. sockbuf' \in Seq(Byte)
    BY <2>1, <2>3, ConcatProperties DEF BufferAppend
  <2>5. sockbuf_size' \in Nat
    BY <2>1, <2>2, <2>3, GrownFits DEF BufferAppend
  <2> QED
    BY <1>4, <2>3, <2>4, <2>5 DEF Receive
<1>5. CASE GiveUp
  BY <1>5, <1>e DEF GiveUp, NoLine, CutOff
<1>6. CASE Disconnect
  BY <1>6, <1>e DEF Disconnect, CutOff
<1>7. CASE Connect
  BY <1>7, <1>e DEF Connect
<1>8. CASE UNCHANGED rvars
  BY <1>8 DEF rvars
<1> QED
  BY <1>1, <1>2, <1>3, <1>4, <1>5, <1>6, <1>7, <1>8 DEF RNext

(* The strings start empty. *)
LEMMA ReaderTypesInit == RInit => ReaderTypes
<1>1. << >> \in Seq(Byte)
  BY EmptySeq
<1> QED
  BY <1>1, BufferAssumption DEF RInit, ReaderTypes

-----------------------------------------------------------------------------
(* strcpy never writes past the allocation: the size stratum_buffer_append *)
(* computes is enough for every line, chunk and growth step.               *)
THEOREM NoOverrun == ReaderSpec => []BufferFits
<1> DEFINE Inv == ReaderTypes /\ BufferFits
<1>1. RInit => Inv
  <2>1. Len(<< >>) = 0
    OBVIOUS
  <2> QED
    BY <2>1, ReaderTypesInit, BufferAssumption DEF RInit, BufferFits
<1>2. Inv /\ [RNext]_rvars => Inv'
  <2> SUFFICES ASSUME ReaderTypes, BufferFits, [RNext]_rvars PROVE BufferFits'
    BY ReaderTypesKept
  <2> USE DEF BufferFits
  <2>t. Len(sockbuf) \in Nat /\ Len(wire) \in Nat /\ sockbuf_size \in Nat
    BY LenProperties DEF ReaderTypes
  <2>e. Len(<< >>) + 1 <= sockbuf_size
    BY <2>t
  <2>1. ASSUME NEW b \in Byte, PoolSends(b) PROVE BufferFits'
    BY <2>1 DEF PoolSends
  <2>2. CASE TakeLine
    <3>1. NewlineAt(sockbuf) \in 0..Len(sockbuf)
      BY <2>2, <2>t, NewlineInside DEF TakeLine, ReaderTypes
    <3>2. Len(sockbuf') = Len(sockbuf) - NewlineAt(sockbuf)
      BY <2>2, <3>1, Halves DEF TakeLine, CutLine, ReaderTypes
    <3> QED
      BY <2>2, <2>t, <3>1, <3>2 DEF TakeLine
  <2>3. CASE BeginReceive
    BY <2>3 DEF BeginReceive
  <2>4. CASE Receive
    <3>1. PICK k \in 1..RECVSIZE : k <= Len(wire) /\ BufferAppend(SubSeq(wire, 1, k))
      BY <2>4 DEF Receive
    <3>2. k \in 0..Len(wire)
      BY <3>1, <2>t, BufferAssumption
    <3>3. SubSeq(wire, 1, k) \in Seq(Byte) /\ Len(SubSeq(wire, 1, k)) = k
      BY <3>2, Halves DEF ReaderTypes
    <3>4. Len(sockbuf') = Len(sockbuf) + k
      BY <3>1, <3>3, ConcatProperties DEF BufferAppend, ReaderTypes
    <3>5. sockbuf_size' = Grown(Len(sockbuf) + k + 1)
      BY <3>1, <3>3 DEF BufferAppend
    <3>6. Len(sockbuf) + k + 1 <= Grown(Len(sockbuf) + k + 1)
      BY <2>t, <3>2, GrownFits
    <3> QED
      BY <3>4, <3>5, <3>6
  <2>5. CASE GiveUp
    BY <2>5, <2>e DEF GiveUp, NoLine, CutOff
  <2>6. CASE Disconnect
    BY <2>6, <2>e DEF Disconnect, CutOff
  <2>7. CASE Connect
    BY <2>7, <2>e DEF Connect
  <2>8. CASE UNCHANGED rvars
    BY <2>8 DEF rvars
  <2> QED
    BY <2>1, <2>2, <2>3, <2>4, <2>5, <2>6, <2>7, <2>8 DEF RNext
<1> QED
  BY <1>1, <1>2, PTL DEF ReaderSpec

-----------------------------------------------------------------------------
(* The lines stratum_recv_line returns are exactly what the pool sent on   *)
(* this connection, however it is cut into chunks and however often a call *)
(* gives up half way.                                                      *)
THEOREM LinesAreTheStream == ReaderSpec => []LinesExact
<1> DEFINE Inv == ReaderTypes /\ LinesExact
<1>1. RInit => Inv
  <2>1. << >> \o << >> \o << >> = << >>
    OBVIOUS
  <2> QED
    BY <2>1, ReaderTypesInit DEF RInit, LinesExact
<1>2. Inv /\ [RNext]_rvars => Inv'
  <2> SUFFICES ASSUME ReaderTypes, LinesExact, [RNext]_rvars PROVE LinesExact'
    BY ReaderTypesKept
  <2> USE DEF LinesExact
  <2>e. << >> = << >> \o << >> \o << >>
    OBVIOUS
  <2>y. cut \in Seq(Byte) /\ sockbuf \in Seq(Byte) /\ wire \in Seq(Byte)
    BY DEF ReaderTypes
  <2>t. cut \o sockbuf \in Seq(Byte)
    BY <2>y, ConcatProperties
  <2>1. ASSUME NEW b \in Byte, PoolSends(b) PROVE LinesExact'
    <3>1. up /\ Append(sent, b) = Append((cut \o sockbuf) \o wire, b)
      BY <2>1 DEF PoolSends
    <3>2. Append((cut \o sockbuf) \o wire, b) = (cut \o sockbuf) \o Append(wire, b)
      BY <2>t, <2>y, AppendLast, Zenon
    <3> QED
      BY <2>1, <3>1, <3>2 DEF PoolSends
  <2>2. CASE TakeLine
    <3> DEFINE line == SubSeq(sockbuf, 1, NewlineAt(sockbuf))
               rest == SubSeq(sockbuf, NewlineAt(sockbuf) + 1, Len(sockbuf))
    <3>1. NewlineAt(sockbuf) \in 0..Len(sockbuf)
      BY <2>2, NewlineInside, LenProperties DEF TakeLine, ReaderTypes
    <3>2. line \in Seq(Byte) /\ rest \in Seq(Byte) /\ line \o rest = sockbuf
      BY <3>1, Halves DEF ReaderTypes
    <3>3. cut' = cut \o line /\ sockbuf' = rest
      BY <2>2 DEF TakeLine, CutLine
    <3> HIDE DEF line, rest
    <3>4. (cut \o line) \o rest = cut \o sockbuf
      BY <3>2, <2>y, Assoc, Zenon
    <3> QED
      BY <2>2, <3>3, <3>4 DEF TakeLine
  <2>3. CASE BeginReceive
    BY <2>3 DEF BeginReceive
  <2>4. CASE Receive
    <3>1. PICK k \in 1..RECVSIZE : /\ k <= Len(wire)
                                   /\ BufferAppend(SubSeq(wire, 1, k))
                                   /\ wire' = SubSeq(wire, k + 1, Len(wire))
      BY <2>4 DEF Receive
    <3> DEFINE chunk == SubSeq(wire, 1, k)
               rest == SubSeq(wire, k + 1, Len(wire))
    <3>2. k \in 0..Len(wire)
      BY <3>1, BufferAssumption, LenProperties DEF ReaderTypes
    <3>3. chunk \in Seq(Byte) /\ rest \in Seq(Byte) /\ chunk \o rest = wire
      BY <3>2, Halves DEF ReaderTypes
    <3>4. sockbuf' = sockbuf \o chunk /\ wire' = rest
      BY <3>1 DEF BufferAppend
    <3> HIDE DEF chunk, rest
    <3>5. cut \o (sockbuf \o chunk) = (cut \o sockbuf) \o chunk
      BY <3>3, <2>y, Assoc, Zenon
    <3>6. ((cut \o sockbuf) \o chunk) \o rest = (cut \o sockbuf) \o wire
      BY <3>3, <2>y, <2>t, Assoc, Zenon
    <3> QED
      BY <2>4, <3>4, <3>5, <3>6 DEF Receive
  <2>5. CASE GiveUp
    BY <2>5 DEF GiveUp, NoLine, CutOff
  <2>6. CASE Disconnect
    BY <2>6 DEF Disconnect, CutOff
  <2>7. CASE Connect
    BY <2>7, <2>e DEF Connect
  <2>8. CASE UNCHANGED rvars
    BY <2>8 DEF rvars
  <2> QED
    BY <2>1, <2>2, <2>3, <2>4, <2>5, <2>6, <2>7, <2>8 DEF RNext
<1> QED
  BY <1>1, <1>2, PTL DEF ReaderSpec
-----------------------------------------------------------------------------
(* The bytes of a request, each with its writer and its place. *)
Written == Writers \X (1..LineLen)

WriterTypes == /\ holder \in Writers \cup {"none"}
               /\ at \in 0..LineLen
               /\ pool \in Seq(Written)

(* The end of the pool's stream: the holder's last byte if it has written  *)
(* any, the end of a request otherwise.                                    *)
EndsWith == \/ holder # "none" /\ at > 0 /\ pool # << >> /\ pool[Len(pool)] = Sent(holder, at)
            \/ (holder = "none" \/ at = 0) /\ (pool = << >> \/ pool[Len(pool)][2] = LineLen)

(* What holds while no request was left unfinished. *)
WholeInv == WriterTypes /\ (~gaveUp => EndsWith /\ RequestsWhole)

(* The n bytes a turn of send_line hands to the socket. *)
Piece(w, n) == [k \in 1..n |-> Sent(w, at + k)]

\* A piece is a run of one request's bytes, in their order.
LEMMA PieceIsWritten ==
  ASSUME WriterTypes, NEW w \in Writers, NEW n \in 0..(LineLen - at)
  PROVE  /\ Piece(w, n) \in Seq(Written) /\ Len(Piece(w, n)) = n
         /\ \A k \in 1..n : Piece(w, n)[k] = <<w, at + k>>
<1>1. n \in Nat /\ \A k \in 1..n : Sent(w, at + k) \in Written
  BY WriterAssumption DEF WriterTypes, Sent, Written
<1>2. Piece(w, n) \in [1..n -> Written]
  BY <1>1 DEF Piece
<1> QED
  BY <1>1, <1>2 DEF Piece, Sent

(* Two requests are never mixed in the pool's stream, whatever pieces the  *)
(* socket takes, whoever writes and whenever the connection is replaced.   *)
THEOREM WholeRequests == WriterSpec => []RequestsWhole
<1>1. WInit => WholeInv
  <2>1. << >> \in Seq(Written) /\ DOMAIN << >> = {}
    BY EmptySeq
  <2> QED
    BY <2>1, WriterAssumption DEF WInit, WholeInv, WriterTypes, EndsWith, RequestsWhole
<1>2. WholeInv /\ [WNext]_wvars => WholeInv'
  <2> SUFFICES ASSUME WholeInv, [WNext]_wvars PROVE WholeInv'
    OBVIOUS
  <2>t. /\ WriterTypes /\ LineLen \in Nat \ {0} /\ Len(pool) \in Nat
        /\ DOMAIN pool = 1..Len(pool) /\ "none" \notin Writers
    BY WriterAssumption, LenProperties DEF WholeInv, WriterTypes
  <2>1. ASSUME NEW w \in Writers, Lock(w) PROVE WholeInv'
    <3>1. WriterTypes' /\ pool' = pool /\ gaveUp' = gaveUp
      BY <2>1, <2>t DEF Lock, WriterTypes
    <3>2. EndsWith => EndsWith'
      BY <2>1, <2>t DEF Lock, EndsWith
    <3>3. RequestsWhole => RequestsWhole'
      BY <3>1 DEF RequestsWhole, Begins, Follows
    <3> QED
      BY <3>1, <3>2, <3>3 DEF WholeInv
  <2>2. ASSUME NEW w \in Writers, Write(w) PROVE WholeInv'
    <3>1. PICK n \in 0..(LineLen - at) : pool' = pool \o Piece(w, n) /\ at' = at + n
      BY <2>2 DEF Write, Piece
    <3>p. /\ Piece(w, n) \in Seq(Written) /\ Len(Piece(w, n)) = n
          /\ \A k \in 1..n : Piece(w, n)[k] = <<w, at + k>>
      BY <2>t, PieceIsWritten
    <3>c. /\ pool' \in Seq(Written) /\ Len(pool') = Len(pool) + n
          /\ DOMAIN pool' = 1..(Len(pool) + n)
          /\ \A p \in 1..Len(pool) : pool'[p] = pool[p]
          /\ \A k \in 1..n : pool'[Len(pool) + k] = <<w, at + k>>
      <4>1. pool \in Seq(Written)
        BY <2>t DEF WriterTypes
      <4>2. /\ pool' \in Seq(Written) /\ Len(pool') = Len(pool) + n
            /\ \A p \in 1..(Len(pool) + n) :
                  pool'[p] = IF p <= Len(pool) THEN pool[p] ELSE Piece(w, n)[p - Len(pool)]
        BY <3>1, <3>p, <4>1, ConcatProperties
      <4>3. DOMAIN pool' = 1..(Len(pool) + n)
        BY <4>2, LenProperties
      <4>4. ASSUME NEW p \in 1..Len(pool) PROVE pool'[p] = pool[p]
        BY <2>t, <4>2
      <4>5. ASSUME NEW k \in 1..n PROVE pool'[Len(pool) + k] = <<w, at + k>>
        <5>1. /\ Len(pool) + k \in 1..(Len(pool) + n) /\ ~(Len(pool) + k <= Len(pool))
              /\ (Len(pool) + k) - Len(pool) = k
          BY <2>t
        <5> QED
          BY <3>p, <4>2, <5>1
      <4> QED
        BY <4>2, <4>3, <4>4, <4>5
    <3>2. WriterTypes'
      BY <2>2, <2>t, <3>1, <3>c DEF Write, WriterTypes
    <3>3. ASSUME ~gaveUp PROVE EndsWith'
      <4>1. CASE n = 0
        <5>1. pool' = pool
          <6>1. Piece(w, n) = << >>
            BY <4>1, <3>p, EmptySeq
          <6> QED
            BY <6>1, <3>1, <2>t, ConcatEmptySeq DEF WriterTypes
        <5>2. at' = at /\ holder' = holder /\ EndsWith
          BY <4>1, <2>2, <2>t, <3>1, <3>3 DEF Write, WholeInv, WriterTypes
        <5> QED
          BY <5>1, <5>2 DEF EndsWith, Sent
      <4>2. CASE n > 0
        <5>1. pool'[Len(pool')] = <<w, at + n>> /\ Len(pool') > 0
          BY <4>2, <2>t, <3>c
        <5>2. pool' # << >>
          BY <5>1, EmptySeq
        <5>3. holder' = w /\ w # "none" /\ at' = at + n /\ at' > 0
          BY <4>2, <2>2, <2>t, <3>1 DEF Write, WriterTypes
        <5> QED
          BY <5>1, <5>2, <5>3 DEF EndsWith, Sent
      <4> QED
        BY <4>1, <4>2
    <3>4. ASSUME ~gaveUp, NEW p \in DOMAIN pool' PROVE Begins(p)' \/ Follows(p)'
      <4>1. CASE p <= Len(pool)
        <5>1. Begins(p) \/ Follows(p)
          BY <4>1, <2>t, <3>4, <3>c DEF WholeInv, RequestsWhole
        <5> QED
          BY <5>1, <4>1, <2>t, <3>c DEF Begins, Follows
      <4>2. CASE p = Len(pool) + 1
        <5>1. pool'[p] = <<w, at + 1>> /\ n >= 1
          BY <4>2, <2>t, <3>c
        <5>2. CASE at = 0
          <6>1. pool # << >> => pool[Len(pool)][2] = LineLen
            BY <5>2, <3>4 DEF WholeInv, EndsWith
          <6>2. Begins(p)'
            BY <6>1, <5>1, <5>2, <4>2, <2>t, <3>c DEF Begins
          <6> QED
            BY <6>2
        <5>3. CASE at > 0
          <6>1. pool # << >> /\ pool[Len(pool)] = <<w, at>>
            BY <5>3, <3>4, <2>2, <2>t DEF WholeInv, EndsWith, Write, WriterTypes, Sent
          <6>2. Len(pool) > 0
            BY <6>1, <2>t, EmptySeq DEF WriterTypes
          <6>3. Follows(p)'
            BY <6>1, <6>2, <5>1, <5>3, <4>2, <2>t, <3>c DEF Follows, Sent, WriterTypes
          <6> QED
            BY <6>3
        <5> QED
          BY <5>2, <5>3, <2>t DEF WriterTypes
      <4>3. CASE p > Len(pool) + 1
        <5>0. p \in 1..(Len(pool) + n) /\ n \in Nat
          BY <2>t, <3>4, <3>c DEF WriterTypes
        <5>1. /\ p - Len(pool) \in 1..n /\ p - Len(pool) - 1 \in 1..n
              /\ p = Len(pool) + (p - Len(pool)) /\ p - 1 = Len(pool) + (p - Len(pool) - 1)
          BY <4>3, <2>t, <5>0
        <5>2. pool'[p] = <<w, at + (p - Len(pool))>> /\ pool'[p - 1] = <<w, at + (p - Len(pool) - 1)>>
          BY <5>1, <3>c
        <5> QED
          BY <5>1, <5>2, <2>t DEF Follows, Sent, WriterTypes
      <4> QED
        BY <4>1, <4>2, <4>3, <2>t, <3>c
    <3> QED
      BY <3>2, <3>3, <3>4, <2>2 DEF WholeInv, RequestsWhole, Write
  <2>3. ASSUME NEW w \in Writers, SendFails(w) PROVE WholeInv'
    <3>1. WriterTypes' /\ pool' = pool
      BY <2>3, <2>t DEF SendFails, WriterTypes
    <3>2. ~gaveUp' => ~gaveUp /\ at = 0
      <4>1. gaveUp' = (gaveUp \/ at > 0)
        BY <2>3 DEF SendFails
      <4>2. at > 0 \/ at = 0
        BY <2>t DEF WriterTypes
      <4> QED
        BY <4>1, <4>2, Zenon
    <3>3. EndsWith /\ at = 0 => EndsWith'
      BY <2>3, <2>t DEF SendFails, EndsWith
    <3>4. RequestsWhole /\ ~gaveUp => RequestsWhole'
      BY <3>1 DEF RequestsWhole, Begins, Follows
    <3> QED
      BY <3>1, <3>2, <3>3, <3>4 DEF WholeInv
  <2>4. ASSUME NEW w \in Writers, Unlock(w) PROVE WholeInv'
    <3>1. WriterTypes' /\ pool' = pool /\ gaveUp' = gaveUp
      BY <2>4, <2>t DEF Unlock, WriterTypes
    <3>2. EndsWith => EndsWith'
      BY <2>4, <2>t DEF Unlock, EndsWith, Sent
    <3>3. RequestsWhole => RequestsWhole'
      BY <3>1 DEF RequestsWhole, Begins, Follows
    <3> QED
      BY <3>1, <3>2, <3>3 DEF WholeInv
  <2>5. CASE Drop
    <3>1. << >> \in Seq(Written) /\ DOMAIN << >> = {}
      BY EmptySeq
    <3> QED
      BY <2>5, <2>t, <3>1 DEF Drop, WholeInv, WriterTypes, EndsWith, RequestsWhole
  <2>6. CASE Redial
    BY <2>6 DEF Redial, WholeInv, WriterTypes, EndsWith, RequestsWhole, Begins, Follows
  <2>7. CASE UNCHANGED wvars
    BY <2>7 DEF wvars, WholeInv, WriterTypes, EndsWith, RequestsWhole, Begins, Follows
  <2> QED
    BY <2>1, <2>2, <2>3, <2>4, <2>5, <2>6, <2>7 DEF WNext
<1>3. WholeInv => RequestsWhole
  BY DEF WholeInv, RequestsWhole
<1> QED
  BY <1>1, <1>2, <1>3, PTL DEF WriterSpec
=============================================================================
