------------------------------ MODULE TCPAccept ------------------------------
(***************************************************************************)
(* How connection requests reach the server sockets of TCP.c: the search   *)
(* for a socket in FindMatchingSocket(), the SYN queue that keeps requests *)
(* while every socket of their port is busy, the service and the expiry of *)
(* that queue in TCPTick(), and the return of a socket to LISTEN by        *)
(* CloseSocket().                                                          *)
(*                                                                         *)
(* What happens inside a connection is the subject of TCPSocket; here all  *)
(* its states are BOUND, and a segment, a timeout or TCPDisconnect() may   *)
(* or may not end it.  A hash collision costs the code one comparison (the *)
(* full addresses decide), so a hash is the pair it is computed from.      *)
(* With one purpose for all sockets TCPOpen() takes the first closed one.  *)
(***************************************************************************)
EXTENDS Integers, Sequences, SequencesExt, FiniteSetsExt

CONSTANTS
    N,              \* TCP_SOCKET_COUNT
    Ports,          \* ports the application listens on, never 0
    Remotes,        \* remote nodes: an IP address with a source port
    NoRemote,       \* no remote node
    QueueLen,       \* TCP_SYN_QUEUE_MAX_ENTRIES
    Timeout,        \* TCP_SYN_QUEUE_TIMEOUT / 256
    WORD            \* 2^16: the values of a WORD, here of the clock

ASSUME AcceptAssumption ==
    /\ N \in Nat /\ QueueLen \in Nat \ {0} /\ Timeout \in Nat /\ WORD \in Nat \ {0}
    /\ Ports \subseteq Nat \ {0} /\ NoRemote \notin Remotes

VARIABLES
    sock,       \* TCBStubs[] and the remote node of each TCB
    SYNQueue,   \* SYNQueue[], with the true age of each entry
    now         \* (WORD)TickGetDiv256()

acceptVars == <<sock, SYNQueue, now>>

Sockets == 1..N

\* remoteHash: of a listening socket its port, else remote address and port.
PortHash(p) == <<NoRemote, p>>
-----------------------------------------------------------------------------
(* The SYN queue                                                           *)

\* A slot is free when its wDestPort is 0; its other fields are not read then.
FreeSlot == [source |-> NoRemote, wDestPort |-> 0, wTimestamp |-> 0, age |-> 0]

\* The slots every search of the queue visits: those before the first free one.
Visited == {w \in 1..QueueLen : \A v \in 1..w : SYNQueue[v].wDestPort # 0}

\* Seeded fault: the last slot is not freed after the others moved up.
DeleteKeepsLast(q, w) == Append(RemoveAt(q, w), q[QueueLen])

\* Delete slot w and compact the array.
Delete(q, w) == Append(RemoveAt(q, w), FreeSlot)

\* Seeded fault: an entry is too old one unit early.
ExpiredEarly(e) == now - e.wTimestamp >= Timeout

\* TCPTick() compares an int: once the clock has wrapped the age is negative, and
\* an entry stamped less than Timeout before the wrap never becomes too old.
Expired(e) == now - e.wTimestamp > Timeout

\* The scan deletes the slot it is at or goes on to the next, up to a free one.
ScanSlot(at) ==
    LET e == at.queue[at.w]
    IN  IF e.wDestPort = 0 THEN at
        ELSE IF Expired(e) THEN [at EXCEPT !.queue = Delete(@, at.w)]
        ELSE [at EXCEPT !.w = @ + 1]

Expire(q) ==
    LET after[k \in 0..QueueLen] ==
          IF k = 0 THEN [queue |-> q, w |-> 1] ELSE ScanSlot(after[k - 1])
    IN  after[QueueLen].queue
-----------------------------------------------------------------------------
(* The sockets                                                             *)

\* A server socket that is closed listens on its port again.
CloseSocket(s) == [s EXCEPT !.smState = "LISTEN", !.remoteHash = PortHash(s.localPort)]

Bound(s, r) == [s EXCEPT !.smState = "BOUND", !.remote = r,
                         !.remoteHash = <<r, s.localPort>>]

TCPOpen(p) ==
    LET closed == {i \in Sockets : sock[i].smState = "CLOSED"}
    IN  /\ closed # {}
        /\ sock' = [sock EXCEPT ![Min(closed)].smState = "LISTEN", ![Min(closed)].localPort = p,
                                ![Min(closed)].remoteHash = PortHash(p)]
        /\ UNCHANGED <<SYNQueue, now>>

\* The second call, or one in LISTEN, closes at once; the first one need not.
TCPDisconnect(i) ==
    /\ sock[i].smState \in {"LISTEN", "BOUND"}
    /\ sock' = [sock EXCEPT ![i] = CloseSocket(@)]
    /\ UNCHANGED <<SYNQueue, now>>
-----------------------------------------------------------------------------
(* A segment of remote node r for port p arrives                           *)

\* The connected sockets the segment belongs to, and the listening ones.
Matching(r, p) == {i \in Sockets : /\ sock[i].smState = "BOUND"
                                   /\ sock[i].remoteHash = <<r, p>>
                                   /\ sock[i].localPort = p /\ sock[i].remote = r}

Listening(p) == {i \in Sockets : sock[i].smState = "LISTEN" /\ sock[i].remoteHash = PortHash(p)}

\* The first match takes the segment; it may end the connection.
ToConnection(r, p) ==
    /\ Matching(r, p) # {}
    /\ \/ UNCHANGED sock
       \/ sock' = [sock EXCEPT ![Min(Matching(r, p))] = CloseSocket(@)]
    /\ UNCHANGED <<SYNQueue, now>>

\* Seeded fault: a reset is ignored while the socket is bound to its sender.
ToListenerKeepsReset(r, p, flags) ==
    /\ Matching(r, p) = {} /\ Listening(p) # {}
    /\ LET i == Max(Listening(p))
           s == [sock[i] EXCEPT !.remote = r, !.remoteHash = <<r, p>>]
       IN  sock' = [sock EXCEPT ![i] = IF flags = {"SYN"} THEN Bound(s, r)
                                       ELSE IF "RST" \in flags THEN s ELSE CloseSocket(s)]
    /\ UNCHANGED <<SYNQueue, now>>

\* The last listening socket is bound to the sender, and HandleTCPSeg()
\* unbinds it again unless the segment is a plain SYN.
ToListener(r, p, flags) ==
    /\ Matching(r, p) = {} /\ Listening(p) # {}
    /\ LET i == Max(Listening(p))
           s == [sock[i] EXCEPT !.remote = r, !.remoteHash = <<r, p>>]
       IN  sock' = [sock EXCEPT ![i] = IF flags = {"SYN"} THEN Bound(s, r) ELSE CloseSocket(s)]
    /\ UNCHANGED <<SYNQueue, now>>

\* Whether slot w holds an earlier request of r for p.
IsRequest(w, r, p) == SYNQueue[w].wDestPort = p /\ SYNQueue[w].source = r

\* Nobody can take a SYN now: queue it while the last slot is free, or refresh
\* the request that is there already.
ToQueue(r, p, flags) ==
    LET known == {w \in Visited : IsRequest(w, r, p)}
    IN  /\ Matching(r, p) = {} /\ Listening(p) = {} /\ "SYN" \in flags
        /\ SYNQueue[QueueLen].wDestPort = 0
        /\ IF known # {}
           THEN SYNQueue' = [SYNQueue EXCEPT ![Min(known)].wTimestamp = now,
                                             ![Min(known)].age = 0]
           ELSE /\ \E i \in Sockets : sock[i].localPort = p
                /\ SYNQueue' = [SYNQueue EXCEPT ![Cardinality(Visited) + 1] =
                     [source |-> r, wDestPort |-> p, wTimestamp |-> now, age |-> 0]]
        /\ UNCHANGED <<sock, now>>

TCPProcess == \E r \in Remotes, p \in Ports, flags \in {{"SYN"}, {"SYN", "ACK"}, {"ACK"}, {"RST"}} :
                 ToConnection(r, p) \/ ToListener(r, p, flags) \/ ToQueue(r, p, flags)
-----------------------------------------------------------------------------
(* TCPTick(): one round over all sockets, then the expiry of the queue     *)

\* Seeded fault: the search gives up at the first request for another port.
ServeSYNHeadOnly(st, i) ==
    LET s == st.sock[i]
    IN  IF s.smState = "LISTEN" /\ PortHash(st.queue[1].wDestPort) = s.remoteHash
        THEN [sock |-> [st.sock EXCEPT ![i] = Bound(s, st.queue[1].source)],
              queue |-> Delete(st.queue, 1)]
        ELSE st

\* A listening socket accepts the oldest request for its port.
ServeSYN(st, i) ==
    LET s    == st.sock[i]
        hits == {w \in 1..QueueLen : /\ \A v \in 1..w : st.queue[v].wDestPort # 0
                                     /\ PortHash(st.queue[w].wDestPort) = s.remoteHash}
        w    == Min(hits)
    IN  IF s.smState = "LISTEN" /\ hits # {}
        THEN [sock |-> [st.sock EXCEPT ![i] = Bound(s, st.queue[w].source)],
              queue |-> Delete(st.queue, w)]
        ELSE st

\* The connections in "ended" time out; theirs are not served in this round.
Round(ended) ==
    LET after[i \in 0..N] ==
          IF i = 0 THEN [sock |-> sock, queue |-> SYNQueue]
          ELSE IF i \in ended
          THEN [after[i - 1] EXCEPT !.sock[i] = CloseSocket(@)]
          ELSE ServeSYN(after[i - 1], i)
    IN  after[N]

TCPTick ==
    \E ended \in SUBSET {i \in Sockets : sock[i].smState = "BOUND"} :
        /\ sock' = Round(ended).sock
        /\ SYNQueue' = Expire(Round(ended).queue)
        /\ UNCHANGED now

\* The WORD clock wraps.
TimePasses ==
    /\ now' = (now + 1) % WORD
    /\ SYNQueue' = [w \in 1..QueueLen |->
                      IF SYNQueue[w].wDestPort = 0 \/ SYNQueue[w].age > Timeout THEN SYNQueue[w]
                      ELSE [SYNQueue[w] EXCEPT !.age = @ + 1]]
    /\ UNCHANGED sock
-----------------------------------------------------------------------------
AcceptInit ==
    /\ sock = [i \in Sockets |-> [smState |-> "CLOSED", localPort |-> 0,
                                  remoteHash |-> PortHash(0), remote |-> NoRemote]]
    /\ SYNQueue = [w \in 1..QueueLen |-> FreeSlot]
    /\ now = 0

AcceptNext ==
    \/ \E p \in Ports : TCPOpen(p)
    \/ \E i \in Sockets : TCPDisconnect(i)
    \/ TCPProcess \/ TCPTick \/ TimePasses

AcceptSpec == AcceptInit /\ [][AcceptNext]_acceptVars
-----------------------------------------------------------------------------
Requests == {w \in 1..QueueLen : SYNQueue[w].wDestPort # 0}

AcceptTypeOK ==
    /\ sock \in [Sockets -> [smState : {"CLOSED", "LISTEN", "BOUND"}, localPort : Ports \cup {0},
                             remoteHash : (Remotes \cup {NoRemote}) \X (Ports \cup {0}),
                             remote : Remotes \cup {NoRemote}]]
    /\ SYNQueue \in [1..QueueLen -> [source : Remotes \cup {NoRemote}, wDestPort : Ports \cup {0},
                                     wTimestamp : 0..(WORD - 1), age : 0..(Timeout + 1)]]
    /\ now \in 0..(WORD - 1)

\* However a connection or a stray segment ended, a listening socket is found
\* under its port and a connected one under its remote node: neither is lost to
\* FindMatchingSocket().
HashFollowsState ==
    \A i \in Sockets :
        /\ sock[i].smState = "LISTEN" => sock[i].remoteHash = PortHash(sock[i].localPort)
        /\ sock[i].smState = "BOUND" => sock[i].remoteHash = <<sock[i].remote, sock[i].localPort>>

\* The queue has no gap, which would hide the requests behind it from every
\* search and let the array look full, and holds a request only once, for a
\* port that some socket serves.
QueueCompact ==
    /\ \A v, w \in 1..QueueLen : v < w /\ w \in Requests => v \in Requests
    /\ \A v, w \in Requests :
         SYNQueue[v].source = SYNQueue[w].source /\ SYNQueue[v].wDestPort = SYNQueue[w].wDestPort => v = w
    /\ \A w \in Requests : \E i \in Sockets : sock[i].localPort = SYNQueue[w].wDestPort

\* After TCPTick() no request waits while a socket that was listening on its
\* port during the whole round still does.
NoneWaitsBesideListener ==
    [][TCPTick =>
         \A i \in Sockets, w \in Requests' :
             sock[i].smState = "LISTEN" /\ sock'[i].smState = "LISTEN"
                => SYNQueue'[w].wDestPort # sock[i].localPort]_acceptVars

\* A request leaves the queue only to be accepted or when it is too old.
FreshRequestKept ==
    [][\A w \in Requests : SYNQueue[w].age <= Timeout =>
         \/ \E v \in Requests' : /\ SYNQueue'[v].source = SYNQueue[w].source
                                 /\ SYNQueue'[v].wDestPort = SYNQueue[w].wDestPort
         \/ \E i \in Sockets : sock'[i].remoteHash = <<SYNQueue[w].source, SYNQueue[w].wDestPort>>]_acceptVars
=============================================================================
