------------------------------ MODULE DHCPClient ------------------------------
(***************************************************************************)
(* The DHCP client (DHCP.c) with the part of StackTask() (StackTsk.c) that *)
(* drives it: the link check, DHCPTask() with at most one received message *)
(* and the end of configuration mode, against servers whose messages may   *)
(* be lost, delayed, repeated and reordered, on a network where replies to *)
(* other clients are broadcast too.                                        *)
(*                                                                         *)
(* Each server leases one address to this node, named like the server; the *)
(* mask, gateway and DNS options are stored and used exactly as the        *)
(* address is.  Time counts seconds; "elapsed" is TickGet() - eventTime.   *)
(* DHCPBindCount and bDHCPServerDetected, which the client never reads,    *)
(* are left out.                                                           *)
(***************************************************************************)
EXTENDS Integers

CONSTANTS
    Servers,        \* DHCP servers, and the addresses they lease to us
    Other,          \* the address leased to another client
    DefaultIPAddr,  \* AppConfig.DefaultIPAddr
    NoAddr,         \* 0.0.0.0
    Leases,         \* lease times a server may grant, NoLease: no such option
    DefaultLease,   \* 60 seconds, assumed when a server grants no lease time
    MaxElapsed      \* bound: "elapsed" is not counted beyond it

NoLease == -1
DHCP_TIMEOUT == 2

ASSUME DHCPAssumption ==
    /\ {Other, DefaultIPAddr, NoAddr} \cap Servers = {}
    /\ Other # DefaultIPAddr /\ Other # NoAddr /\ DefaultIPAddr # NoAddr
    /\ Leases \subseteq Nat \cup {NoLease} /\ DefaultLease \in Nat
    /\ MaxElapsed \in Nat /\ MaxElapsed >= DHCP_TIMEOUT

VARIABLES
    dhcp,       \* the client's static variables
    MyIPAddr,   \* AppConfig.MyIPAddr
    bInConfigMode,
    broadcast       \* the messages broadcast so far

dhcpVars == <<dhcp, MyIPAddr, bInConfigMode, broadcast>>

\* SM_DHCP, in the order of the enumeration the code counts with.
States == <<"DISABLED", "GET_SOCKET", "SEND_DISCOVERY", "GET_OFFER", "SEND_REQUEST",
            "GET_REQUEST_ACK", "BOUND", "SEND_RENEW", "GET_RENEW_ACK", "SEND_RENEW2",
            "GET_RENEW_ACK2", "SEND_RENEW3", "GET_RENEW_ACK3">>

Sending  == {"SEND_RENEW", "SEND_RENEW2", "SEND_RENEW3"}
Renewing == {"GET_RENEW_ACK", "GET_RENEW_ACK2", "GET_RENEW_ACK3"}

\* smDHCPState++
Next1(st) == States[(CHOOSE i \in DOMAIN States : States[i] = st) + 1]

\* smDHCPState, DHCPSocket # INVALID_UDP_SOCKET, and the other statics.
InitialClient ==
    [state |-> "GET_SOCKET", socket |-> FALSE, bIsBound |-> FALSE, bOfferReceived |-> FALSE,
     DHCPServerID |-> NoAddr, tempIPAddress |-> NoAddr, ipValid |-> FALSE,
     DHCPLeaseTime |-> 0, elapsed |-> 0]
-----------------------------------------------------------------------------
(* The network                                                             *)

Message(type, server, yiaddr, lease, mine) ==
    [type |-> type, server |-> server, yiaddr |-> yiaddr, lease |-> lease, mine |-> mine]

None == Message("NONE", NoAddr, NoAddr, NoLease, FALSE)

\* What _DHCPSend() broadcasts: the server and the address it names.
Discover == [type |-> "DISCOVER", server |-> NoAddr, addr |-> NoAddr]
Request(s, a) == [type |-> "REQUEST", server |-> s, addr |-> a]
Renewal(a)    == [type |-> "RENEW", server |-> NoAddr, addr |-> a]

\* Every answer to anything broadcast so far may arrive now; so may a reply to
\* another client.
Inbox ==
    {None} \cup {Message("ACK", s, Other, NoLease, FALSE) : s \in Servers}
    \cup (UNION {{Message("OFFER", s, s, n, TRUE) :
                    s \in {x \in Servers : Discover \in broadcast}} : n \in Leases})
    \cup (UNION {{Message("ACK", s, s, n, TRUE) :
                    s \in {x \in Servers : Request(x, x) \in broadcast \/ Renewal(x) \in broadcast}} :
                 n \in Leases})
    \cup {Message("NAK", s, NoAddr, NoLease, TRUE) :
            s \in {x \in Servers : \E q \in broadcast : q.type = "RENEW" \/ q.server = x}}
-----------------------------------------------------------------------------
(* _DHCPReceive(): what it stores, and the type it returns                 *)

\* Seeded fault: every offer is stored, and nothing else.
StoredFromOffers(c, m) ==
    IF m.type # "OFFER" THEN c
    ELSE [c EXCEPT !.tempIPAddress = m.yiaddr, !.ipValid = TRUE,
                   !.DHCPLeaseTime = IF m.lease # NoLease THEN m.lease - m.lease \div 32 ELSE @]

\* The address is stored before chaddr is looked at, the lease time after it;
\* 3.125% of it are left for inaccurate clocks.
Stored(c, m) ==
    IF c.bOfferReceived THEN c
    ELSE [c EXCEPT !.tempIPAddress = m.yiaddr, !.ipValid = TRUE,
                   !.DHCPLeaseTime = IF m.mine /\ m.lease # NoLease
                                     THEN m.lease - m.lease \div 32 ELSE @]

Received(c, m) ==
    IF m.mine /\ m.type = "OFFER" /\ ~c.bOfferReceived
    THEN [Stored(c, m) EXCEPT !.DHCPServerID = m.server, !.bOfferReceived = TRUE]
    ELSE Stored(c, m)

\* An offer after the first, and an answer of a server we did not choose, are
\* as unknown as a reply to another client.
Type(c, m) ==
    IF \/ ~m.mine
       \/ m.type = "OFFER" /\ c.bOfferReceived
       \/ m.type # "OFFER" /\ c.DHCPServerID # m.server
    THEN "UNKNOWN" ELSE m.type
-----------------------------------------------------------------------------
(* DHCPTask(), one operator per state: c is the client, put tells whether  *)
(* the MAC can take a message, m is the message received.                  *)

\* What a call does: the client it leaves, the messages it sends, and the
\* address the node uses then.
Leaves(c, sent, ip) == [c |-> c, sent |-> sent, ip |-> ip]
Quiet(c, ip) == Leaves(c, {}, ip)

SendDiscovery(c, put, ip) ==
    IF ~put THEN Quiet([c EXCEPT !.state = "SEND_DISCOVERY"], ip)
    ELSE Leaves([c EXCEPT !.state = "GET_OFFER", !.DHCPLeaseTime = DefaultLease,
                          !.ipValid = FALSE, !.bIsBound = FALSE, !.bOfferReceived = FALSE,
                          !.elapsed = 0], {Discover}, ip)

\* UDPOpen() fails when all UDP sockets are taken.
GetSocket(c, put, open, ip) ==
    IF ~open THEN Quiet(c, ip) ELSE SendDiscovery([c EXCEPT !.socket = TRUE], put, ip)

SendRequest(c, put, ip) ==
    IF ~put THEN Quiet([c EXCEPT !.state = "SEND_REQUEST"], ip)
    ELSE Leaves([c EXCEPT !.state = "GET_REQUEST_ACK", !.elapsed = 0],
                {Request(c.DHCPServerID, c.tempIPAddress)}, ip)

\* No answer for two seconds: start again.
Restart(c, ip) ==
    Quiet(IF c.elapsed >= DHCP_TIMEOUT THEN [c EXCEPT !.state = "SEND_DISCOVERY"] ELSE c, ip)

GetOffer(c, put, m, ip) ==
    IF m = None THEN Restart(c, ip)
    ELSE IF Type(c, m) = "OFFER" THEN SendRequest(Received(c, m), put, ip)
    ELSE Quiet(Received(c, m), ip)

\* Close the socket and count the lease from now.
Bind(c) == [c EXCEPT !.socket = FALSE, !.elapsed = 0, !.state = "BOUND"]

\* Seeded fault: nobody waits for the acknowledgement with a timer.
GetRequestAckUntimed(c, m, ip) ==
    LET r == Received(c, m)
    IN  IF m = None THEN Quiet(c, ip)
        ELSE CASE Type(c, m) = "ACK" -> Quiet([Bind(r) EXCEPT !.bIsBound = TRUE],
                                              IF r.ipValid THEN r.tempIPAddress ELSE ip)
               [] Type(c, m) = "NAK" -> Quiet([r EXCEPT !.state = "SEND_DISCOVERY"], ip)
               [] OTHER              -> Quiet(r, ip)

GetRequestAck(c, m, ip) ==
    LET r == Received(c, m)
    IN  IF m = None THEN Restart(c, ip)
        ELSE CASE Type(c, m) = "ACK" -> Quiet([Bind(r) EXCEPT !.bIsBound = TRUE],
                                              IF r.ipValid THEN r.tempIPAddress ELSE ip)
               [] Type(c, m) = "NAK" -> Quiet([r EXCEPT !.state = "SEND_DISCOVERY"], ip)
               [] OTHER              -> Quiet(r, ip)

\* A renewal names the address in tempIPAddress.
SendRenew(c, put, ip) ==
    IF ~put THEN Quiet(c, ip)
    ELSE Leaves([c EXCEPT !.state = Next1(c.state), !.bOfferReceived = FALSE, !.elapsed = 0],
                {Renewal(c.tempIPAddress)}, ip)

\* Seeded fault: the lease is counted down to zero and beyond.
BoundUnderflows(c, put, open, ip) ==
    IF c.elapsed < 1 THEN Quiet(c, ip)
    ELSE IF c.DHCPLeaseTime >= 0
    THEN Quiet([c EXCEPT !.elapsed = @ - 1, !.DHCPLeaseTime = @ - 1], ip)
    ELSE IF ~open THEN Quiet(c, ip)
    ELSE SendRenew([c EXCEPT !.socket = TRUE, !.state = "SEND_RENEW"], put, ip)

\* Every second the lease is one second shorter; in its last one, renew.
Bound(c, put, open, ip) ==
    IF c.elapsed < 1 THEN Quiet(c, ip)
    ELSE IF c.DHCPLeaseTime >= 2
    THEN Quiet([c EXCEPT !.elapsed = @ - 1, !.DHCPLeaseTime = @ - 1], ip)
    ELSE IF ~open THEN Quiet(c, ip)
    ELSE SendRenew([c EXCEPT !.socket = TRUE, !.state = "SEND_RENEW"], put, ip)

\* Seeded fault: after the third renewal the first one is tried again.
GetRenewAckForever(c, m, ip) ==
    IF m = None
    THEN Quiet(IF c.elapsed < DHCP_TIMEOUT THEN c
               ELSE [c EXCEPT !.state = IF @ = "GET_RENEW_ACK3" THEN "SEND_RENEW" ELSE Next1(@)], ip)
    ELSE CASE Type(c, m) = "ACK" -> Quiet(Bind(Received(c, m)), ip)
           [] Type(c, m) = "NAK" -> Quiet([Received(c, m) EXCEPT !.state = "SEND_DISCOVERY"], ip)
           [] OTHER              -> Quiet(Received(c, m), ip)

\* Three renewals go unanswered before the client starts again.
GetRenewAck(c, m, ip) ==
    IF m = None
    THEN Quiet(IF c.elapsed < DHCP_TIMEOUT THEN c
               ELSE [c EXCEPT !.state = IF @ = "GET_RENEW_ACK3" THEN "SEND_DISCOVERY"
                                                                ELSE Next1(@)], ip)
    ELSE CASE Type(c, m) = "ACK" -> Quiet(Bind(Received(c, m)), ip)
           [] Type(c, m) = "NAK" -> Quiet([Received(c, m) EXCEPT !.state = "SEND_DISCOVERY"], ip)
           [] OTHER              -> Quiet(Received(c, m), ip)

DHCPTask(c, put, open, m, ip) ==
    CASE c.state = "GET_SOCKET"      -> GetSocket(c, put, open, ip)
      [] c.state = "SEND_DISCOVERY"  -> SendDiscovery(c, put, ip)
      [] c.state = "GET_OFFER"       -> GetOffer(c, put, m, ip)
      [] c.state = "SEND_REQUEST"    -> SendRequest(c, put, ip)
      [] c.state = "GET_REQUEST_ACK" -> GetRequestAck(c, m, ip)
      [] c.state = "BOUND"           -> Bound(c, put, open, ip)
      [] c.state \in Sending         -> SendRenew(c, put, ip)
      [] c.state \in Renewing        -> GetRenewAck(c, m, ip)
      [] OTHER                       -> Quiet(c, ip)
-----------------------------------------------------------------------------
\* Seeded fault: an open socket is forgotten.
DHCPResetForgets(c) ==
    IF c.state = "DISABLED" THEN c
    ELSE [c EXCEPT !.state = "GET_SOCKET", !.bIsBound = FALSE]

\* Give up the lease, keep the socket.
DHCPReset(c) ==
    IF c.state = "DISABLED" THEN c
    ELSE [c EXCEPT !.state = IF c.socket THEN "SEND_DISCOVERY" ELSE "GET_SOCKET",
                   !.bIsBound = FALSE]

\* StackTask() up to TCPTick(): without a link the client is reset on every
\* call, but it still runs.
StackTask(linked, put, open, m) ==
    LET c == IF linked THEN dhcp ELSE DHCPReset(dhcp)
        r == DHCPTask(c, put, open, m, IF linked THEN MyIPAddr ELSE DefaultIPAddr)
    IN  /\ dhcp.state # "DISABLED"              \* AppConfig.Flags.bIsDHCPEnabled
        /\ m \in Inbox
        /\ dhcp' = r.c
        /\ MyIPAddr' = r.ip
        /\ bInConfigMode' = ((bInConfigMode \/ ~linked) /\ ~r.c.bIsBound)
        /\ broadcast' = broadcast \cup r.sent

DHCPDisable ==
    /\ dhcp' = [dhcp EXCEPT !.socket = FALSE, !.state = "DISABLED"]
    /\ UNCHANGED <<MyIPAddr, bInConfigMode, broadcast>>

DHCPEnable ==
    /\ dhcp.state = "DISABLED"
    /\ dhcp' = [dhcp EXCEPT !.state = "GET_SOCKET", !.bIsBound = FALSE]
    /\ UNCHANGED <<MyIPAddr, bInConfigMode, broadcast>>

SecondPasses ==
    /\ dhcp.elapsed < MaxElapsed
    /\ dhcp' = [dhcp EXCEPT !.elapsed = @ + 1]
    /\ UNCHANGED <<MyIPAddr, bInConfigMode, broadcast>>
-----------------------------------------------------------------------------
DHCPInit ==
    /\ dhcp = InitialClient
    /\ MyIPAddr = DefaultIPAddr
    /\ bInConfigMode = TRUE
    /\ broadcast = {}

DHCPNext ==
    \/ \E linked, put, open \in BOOLEAN, m \in Inbox : StackTask(linked, put, open, m)
    \/ DHCPDisable \/ DHCPEnable \/ SecondPasses

DHCPSpec == DHCPInit /\ [][DHCPNext]_dhcpVars

\* The main loop calls StackTask() forever; now and then the MAC is free, a UDP
\* socket is free and no message is waiting.  Only calls with a link are asked
\* for: a call without one resets the client, which ends every wait by itself.
QuietTask == StackTask(TRUE, TRUE, TRUE, None)

FairDHCPSpec == DHCPSpec /\ WF_dhcpVars(QuietTask) /\ WF_dhcpVars(SecondPasses)
-----------------------------------------------------------------------------
Addresses == Servers \cup {Other, DefaultIPAddr, NoAddr}

DHCPTypeOK ==
    /\ dhcp \in [state : {States[i] : i \in DOMAIN States}, socket : BOOLEAN, bIsBound : BOOLEAN,
                 bOfferReceived : BOOLEAN, DHCPServerID : Servers \cup {NoAddr},
                 tempIPAddress : Addresses, ipValid : BOOLEAN, DHCPLeaseTime : Nat,
                 elapsed : 0..MaxElapsed]
    /\ MyIPAddr \in Servers \cup {DefaultIPAddr}
    /\ bInConfigMode \in BOOLEAN
    /\ broadcast \subseteq [type : {"DISCOVER", "REQUEST", "RENEW"},
                        server : Servers \cup {NoAddr}, addr : Addresses]

\* The client holds a UDP socket exactly while it waits for an answer or for
\* the MAC: links that come and go, renewals and resets neither lose a socket
\* nor use a closed one.
SocketHeldWhileAsking ==
    dhcp.socket <=> dhcp.state \notin {"DISABLED", "GET_SOCKET", "BOUND"}

\* An address other than the default one is used only after we asked the server
\* that leases it for it, never one that was offered to somebody else or that
\* another server's answer put in its place.
AddressWasGranted ==
    MyIPAddr = DefaultIPAddr \/ (MyIPAddr \in Servers /\ Request(MyIPAddr, MyIPAddr) \in broadcast)

\* No wait for an answer outlives its timeout, and no lease lasts forever,
\* whichever answers are late, repeated or not for us, as long as the task is
\* called again and again with a link, a free socket and no message waiting
\* (WF of QuietTask): a stream of messages without a pause is not timed out.
NoEndlessWait ==
    LET Overdue == /\ dhcp.state \in {"GET_OFFER", "GET_REQUEST_ACK"} \cup Renewing
                   /\ dhcp.elapsed >= DHCP_TIMEOUT
    IN  /\ Overdue ~> ~Overdue
        /\ (dhcp.state = "BOUND") ~> (dhcp.state # "BOUND")

\* A renewal ends: in a lease, or in a new discovery.
RenewalEnds ==
    (dhcp.state \in Sending \cup Renewing) ~> (dhcp.state \notin Sending \cup Renewing)

\* A renewal asks for the address the node has.
RenewsOwnAddress ==
    [][\A q \in broadcast' \ broadcast : q.type = "RENEW" => q.addr = MyIPAddr]_dhcpVars
=============================================================================
