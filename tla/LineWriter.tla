----------------------------- MODULE LineWriter -----------------------------
(***************************************************************************)
(* Requests written to the pool: stratum_send_line takes sock_lock and     *)
(* send_line writes the line in as many pieces as the socket accepts; it   *)
(* gives up as soon as select, asked with a zero time-out, says the socket *)
(* would block.  The stratum thread and the workio thread both write, and  *)
(* the stratum thread may replace the connection, under the same lock.     *)
(***************************************************************************)
EXTENDS Naturals, Sequences

CONSTANTS Writers,      \* the threads that send
          LineLen,      \* bytes of a request, the newline included
          MaxLines      \* bound: requests on one connection

ASSUME WriterAssumption == /\ LineLen \in Nat \ {0} /\ MaxLines \in Nat
                           /\ "none" \notin Writers

VARIABLES holder,       \* thread that owns sock_lock, or "none"
          at,           \* bytes of the holder's request already written
          link,         \* sctx->sock is usable
          pool,         \* what the pool has got on this connection
          gaveUp,       \* history: a request on it was left unfinished
          requests      \* requests begun on this connection

wvars == <<holder, at, link, pool, gaveUp, requests>>

(* A byte: the thread that wrote it and its place in the request.          *)
Sent(w, i) == <<w, i>>

WInit == /\ holder = "none" /\ at = 0 /\ link = TRUE
         /\ pool = <<>> /\ gaveUp = FALSE /\ requests = 0

Lock(w) == /\ holder = "none" /\ requests < MaxLines
           /\ holder' = w /\ at' = 0
           /\ requests' = requests + 1
           /\ UNCHANGED <<link, pool, gaveUp>>

Write_Restarts(w) == /\ holder = w /\ link /\ at < LineLen
                     /\ \E n \in 0..(LineLen - at) :
                          /\ pool' = pool \o [k \in 1..n |-> Sent(w, k)]
                          /\ at' = at + n
                     /\ UNCHANGED <<holder, link, gaveUp, requests>>

(* One turn of the loop: the socket takes n of the bytes left, none if it  *)
(* says CURLE_AGAIN.                                                       *)
Write(w) == /\ holder = w /\ link /\ at < LineLen
            /\ \E n \in 0..(LineLen - at) :
                 /\ pool' = pool \o [k \in 1..n |-> Sent(w, at + k)]
                 /\ at' = at + n
            /\ UNCHANGED <<holder, link, gaveUp, requests>>

(* The socket is gone, select reports that it would block, or send fails.  *)
SendFails(w) == /\ holder = w /\ at < LineLen
                /\ holder' = "none"
                /\ gaveUp' = (gaveUp \/ at > 0)
                /\ UNCHANGED <<at, link, pool, requests>>

Unlock(w) == /\ holder = w /\ at = LineLen
             /\ holder' = "none"
             /\ UNCHANGED <<at, link, pool, gaveUp, requests>>

(* stratum_disconnect and stratum_connect swap the connection under the    *)
(* lock; the pool sees a new stream.                                       *)
Drop == /\ holder = "none" /\ link
        /\ link' = FALSE
        /\ pool' = <<>> /\ gaveUp' = FALSE /\ requests' = 0
        /\ UNCHANGED <<holder, at>>

(* stratum_connect stores the new socket without the lock: a thread may be *)
(* between taking the lock and its first look at the socket.               *)
Redial == /\ ~link
          /\ link' = TRUE
          /\ UNCHANGED <<holder, at, pool, gaveUp, requests>>

WNext == \/ \E w \in Writers : Lock(w) \/ Write(w) \/ SendFails(w) \/ Unlock(w)
         \/ Drop \/ Redial

WriterSpec == WInit /\ [][WNext]_wvars

-----------------------------------------------------------------------------
(* Begins(p) and Follows(p): the byte at place p of the pool's stream      *)
(* starts a request at a request boundary, or continues its own request.   *)
Begins(p) == pool[p][2] = 1 /\ (p > 1 => pool[p - 1][2] = LineLen)

Follows(p) == p > 1 /\ pool[p - 1] = Sent(pool[p][1], pool[p][2] - 1)

(* While no request was left unfinished, the pool reads whole requests:    *)
(* two threads never write into one line, a connection never starts in the *)
(* middle of one, and pieces of a request are neither repeated nor skipped.*)
RequestsWhole == gaveUp \/ \A p \in DOMAIN pool : Begins(p) \/ Follows(p)
=============================================================================
