-------------------------------- MODULE HTTP2 --------------------------------
(***************************************************************************)
(* The web server (HTTP2.c) over the file system (MPFS2.c) and one server  *)
(* socket per connection.  HTTPServer() takes the connections in turn; the *)
(* record of one of them is in curHTTP, those of the others in             *)
(* http_memory.  Each case of the switch of HTTPProcess() is an action, and *)
(* turn stays with the connection while isDone is FALSE.  Between two      *)
(* passes the stack delivers what the clients do.                          *)
(*                                                                         *)
(* A request is a sequence of tokens, a page one of chunks.  A token ends  *)
(* a line unless it is "half", and takes one place of the RX FIFO.         *)
(***************************************************************************)
EXTENDS MPFS2, SequencesExt

CONSTANTS
  MAX_HTTP_CONNECTIONS,
  Kinds,     \* what the client of a connection may ask for
  Alone,     \* kinds that are only asked while nobody asks for anything else
  RxSize,    \* places of the RX FIFO while a request is received
  TxSize,    \* those of the TX FIFO while it is answered
  Timeout    \* passes of the main loop in HTTP_TIMEOUT seconds

ASSUME HTTPAssumption ==
  /\ MAX_HTTP_CONNECTIONS \in Nat \ {0}
  /\ {RxSize, TxSize, Timeout} \subseteq Nat
  /\ RxSize > 1 /\ TxSize > 0 /\ Timeout > 1

VARIABLES
  turn,         \* "stack", or the connection and the point HTTPServer() is at
  sm,           \* httpStubs[].sm
  curHTTP, curHTTPID, http_memory,
  watch,        \* callbackID as a deadline: the time that is left to it
  fs,           \* the file system
  net,          \* the sockets and what their clients have yet to send
  client,       \* history: what was asked and what was answered
  spoilt,       \* history: pages may be none, as a new image was written
  mixed         \* history: two connections were writing a new image at once

httpVars == <<turn, sm, curHTTP, curHTTPID, http_memory, watch, fs, net, client, spoilt, mixed>>

Conns == 0 .. MAX_HTTP_CONNECTIONS - 1
Stack == <<MAX_HTTP_CONNECTIONS, "stack">>
Never == 255    \* 0xffffffff
Uploads == {"MPFS_UP", "MPFS_OK", "MPFS_ERROR"}
Receiving == {"IDLE", "PARSE_REQUEST", "PARSE_HEADERS", "AUTHENTICATE",
              "PROCESS_GET", "PROCESS_POST"}

NewConn == [file |-> MPFS_INVALID_HANDLE, offsets |-> MPFS_INVALID_HANDLE,
            httpStatus |-> "GET", byteCount |-> 0, nextCallback |-> 0,
            callbackID |-> "none", callbackPos |-> [id |-> 0, pos |-> 0],
            lastReady |-> Never, hasArgs |-> FALSE, smPost |-> "read"]
\* The dead copy of the record that is in curHTTP.
Elsewhere == [NewConn EXCEPT !.httpStatus = "loaded"]

\* What the lines of a request ask for; the method "PUT" is that of any line
\* that is refused.
Line == [page    |-> [method |-> "GET", name |-> "page", args |-> TRUE],
         nothing |-> [method |-> "GET", name |-> "nothing", args |-> FALSE],
         form    |-> [method |-> "GET", name |-> "upload", args |-> FALSE],
         image   |-> [method |-> "POST", name |-> "upload", args |-> FALSE],
         config  |-> [method |-> "POST", name |-> "config", args |-> FALSE],
         lost    |-> [method |-> "POST", name |-> "nothing", args |-> FALSE],
         other   |-> [method |-> "PUT", name |-> "page", args |-> FALSE]]

\* A new image, or what is none, as a form sends it.
ImageBody(tag) == <<"mime", tag>> \o [i \in 1 .. ImageLen - 1 |-> "data"]

Request == [page    |-> <<"page", "blank">>,
            nothing |-> <<"half", "nothing", "blank">>,
            form    |-> <<"form", "blank">>,
            image   |-> <<"image", "length", "blank">> \o ImageBody("tag"),
            badimage |-> <<"image", "length", "blank">> \o ImageBody("badtag"),
            nolength |-> <<"image", "blank", "data">>,
            config  |-> <<"config", "length", "blank", "pair", "pair", "pair">>,
            lost    |-> <<"lost", "length", "blank", "pair">>,
            other   |-> <<"other">>,
            endless |-> [i \in 1 .. RxSize |-> "half"]]

ASSUME KindsAssumption == Kinds \in [Conns -> SUBSET DOMAIN Request]

\* byteCount is a DWORD: below zero it is larger than any count.
Wrapped == 254

\* Of the requests that have a "length" header; a larger one counts no further.
ContentLength == ImageLen + 1
ASSUME LengthAssumption == ContentLength < Wrapped

\* Seeded fault: the count is an integer that may become negative.
MinusSigned(count, n) == count - n
Minus(count, n) == IF count = Wrapped \/ n > count THEN Wrapped ELSE count - n

NoClient == [asked |-> "none", answer |-> <<>>, over |-> FALSE]
ClosedSocket == [st |-> "closed", wasReset |-> FALSE, ask |-> <<>>, rx |-> <<>>, room |-> 0]

HTTPInit ==
  /\ turn = Stack /\ sm = [c \in Conns |-> "IDLE"]
  /\ curHTTP = NewConn /\ curHTTPID = 0
  /\ http_memory = [c \in Conns |-> IF c = 0 THEN Elsewhere ELSE NewConn]
  /\ watch = [c \in Conns |-> 0] /\ fs = MPFSInit
  /\ net = [c \in Conns |-> ClosedSocket]
  /\ client = [c \in Conns |-> NoClient] /\ spoilt = FALSE /\ mixed = FALSE

-----------------------------------------------------------------------------
(* The sockets (TCP.c), as this server uses them.                           *)

Ready(c) == Len(net[c].rx)
RxFree(c) == RxSize - Ready(c)
PutReady(c) == IF net[c].st = "open" THEN net[c].room ELSE 0

\* CloseSocket(), after a reset or at the end of a connection.
Reset(socket) == [ClosedSocket EXCEPT !.wasReset = TRUE]
\* TCPDisconnect(): a FIN, and a RST the second time.
TCPDisconnect(socket) ==
  IF socket.st = "open"
  THEN [ClosedSocket EXCEPT !.st = "closing", !.wasReset = socket.wasReset]
  ELSE Reset(socket)

\* What chunks put on the wire do to the history of a connection, which is
\* kept while it means something.
Answer(c, chunks) ==
  client' = [client EXCEPT ![c].answer =
               IF net[c].st = "open" /\ ~ spoilt THEN @ \o chunks ELSE @]

-----------------------------------------------------------------------------
(* HTTPServer() and HTTPLoadConn().                                         *)

\* The next pass of the main loop; one that waited for the MAC may be late
\* for every deadline.
StartPass ==
  /\ turn = Stack /\ turn' = <<0, "check">>
  /\ \E late \in BOOLEAN :
       watch' = [c \in Conns |-> IF late \/ watch[c] = 0 \/ sm[c] \notin Receiving
                                 THEN 0 ELSE watch[c] - 1]
  /\ UNCHANGED <<sm, curHTTP, curHTTPID, http_memory, fs, net, client>>

After(c) == IF c + 1 \in Conns THEN <<c + 1, "check">> ELSE Stack

Conn(c) == IF c = curHTTPID THEN curHTTP ELSE http_memory[c]

\* Seeded fault: the record in curHTTP is not saved.
HTTPLoadConnUnsaved(c) ==
  /\ curHTTPID' = c
  /\ http_memory' = IF c = curHTTPID THEN http_memory
                    ELSE [http_memory EXCEPT ![curHTTPID] = NewConn, ![c] = Elsewhere]

HTTPLoadConn(c) ==
  /\ curHTTPID' = c
  /\ http_memory' = IF c = curHTTPID THEN http_memory
                    ELSE [http_memory EXCEPT ![curHTTPID] = curHTTP, ![c] = Elsewhere]

\* The handles are invalid; the rest of a record is forgotten here, since the
\* next request sets it before it reads it (but see NextOffsets()).
ClosedFiles == NewConn
\* Seeded fault: the index stays open.
WithoutFile(record) == MPFSClose(fs, record.file)
WithoutFiles(record) == MPFSClose(MPFSClose(fs, record.file), record.offsets)

\* The socket was reset: whatever the connection was at is forgotten.
ForgetReset(c) ==
  /\ turn = <<c, "check">> /\ net[c].wasReset
  /\ HTTPLoadConn(c)
  /\ sm' = [sm EXCEPT ![c] = "IDLE"]
  /\ fs' = WithoutFiles(Conn(c)) /\ curHTTP' = ClosedFiles
  /\ net' = [net EXCEPT ![c].wasReset = FALSE]
  /\ UNCHANGED <<turn, watch, client>>

Eligible(c) ==
  /\ turn = <<c, "check">> /\ ~ net[c].wasReset
  /\ sm[c] # "IDLE" \/ Ready(c) > 0
  /\ HTTPLoadConn(c) /\ curHTTP' = Conn(c)
  /\ turn' = <<c, "process">>
  /\ UNCHANGED <<sm, watch, fs, net, client>>

Skip(c) ==
  /\ turn = <<c, "check">> /\ ~ net[c].wasReset
  /\ sm[c] = "IDLE" /\ Ready(c) = 0
  /\ turn' = After(c)
  /\ UNCHANGED <<sm, curHTTP, curHTTPID, http_memory, watch, fs, net, client>>

-----------------------------------------------------------------------------
(* HTTPProcess(): the request.                                              *)

At(c, states) == turn = <<c, "process">> /\ sm[c] \in states
Loaded == <<curHTTPID, http_memory>>
Goto(c, state) == sm' = [sm EXCEPT ![c] = state]
Again == UNCHANGED turn          \* isDone = FALSE
Done(c) == turn' = After(c)      \* isDone = TRUE
ResetWatchdog(c) == watch' = [watch EXCEPT ![c] = Timeout]

\* TCPGetArray(): the first n tokens leave the FIFO.
Take(c, n) == net' = [net EXCEPT ![c].rx = SubSeq(@, n + 1, Len(@))]

LineEnds(c) == {i \in 1 .. Ready(c) : net[c].rx[i] # "half"}
FirstLine(c) == net[c].rx[Min(LineEnds(c))]
TakeLine(c) == Take(c, Min(LineEnds(c)))

Idle(c) ==
  /\ At(c, {"IDLE"}) /\ Ready(c) > 0
  /\ Goto(c, "PARSE_REQUEST")
  /\ curHTTP' = [curHTTP EXCEPT !.hasArgs = FALSE, !.lastReady = Never,
                                !.byteCount = 0, !.smPost = "read",
                                !.callbackID = "none"]
  /\ ResetWatchdog(c) /\ Again
  /\ UNCHANGED <<Loaded, fs, net, client>>

\* Seeded fault: a line that never ends is not timed.
WaitForLineForever(c) ==
  /\ At(c, {"PARSE_REQUEST", "PARSE_HEADERS"}) /\ LineEnds(c) = {}
  /\ IF RxFree(c) > 0 THEN Done(c) /\ UNCHANGED <<sm, curHTTP>>
     ELSE /\ curHTTP' = [curHTTP EXCEPT !.httpStatus = "OVERFLOW"]
          /\ Goto(c, "SERVE_HEADERS") /\ Again
  /\ UNCHANGED <<Loaded, watch, fs, net, client>>

\* SM_HTTP_PARSE_REQUEST and SM_HTTP_PARSE_HEADERS without a whole line.
WaitForLine(c) ==
  /\ At(c, {"PARSE_REQUEST", "PARSE_HEADERS"}) /\ LineEnds(c) = {}
  /\ \/ /\ watch[c] > 0 /\ RxFree(c) > 0
        /\ Done(c) /\ UNCHANGED <<sm, curHTTP, net>>
     \/ /\ watch[c] > 0 /\ RxFree(c) = 0
        /\ curHTTP' = [curHTTP EXCEPT !.httpStatus = "OVERFLOW"]
        /\ Goto(c, "SERVE_HEADERS") /\ Again /\ UNCHANGED net
     \/ /\ watch[c] = 0
        /\ net' = [net EXCEPT ![c] = TCPDisconnect(@)]
        /\ Goto(c, "DISCONNECT") /\ Again /\ UNCHANGED curHTTP
  /\ UNCHANGED <<Loaded, watch, fs, client>>

\* The file and its index, as the first line of a request opens them.  A name
\* that is not found is tried again as a directory, with the default file in
\* it: the name of Fat is that of the file which either open finds.  The first
\* open leaves nothing behind when it finds none, but in a store that is locked
\* or without a free handle, where the second fails as well.
OpenFiles(name) ==
  LET f == MPFSOpen(fs, name)
      i == IF HasIndex(f.fs, f.h) THEN MPFSOpenID(f.fs, MPFSGetID(f.fs, f.h) + 1)
           ELSE [fs |-> f.fs, h |-> MPFS_INVALID_HANDLE] IN
  [fs |-> i.fs, file |-> f.h, offsets |-> i.h]

ParseRequest(c) ==
  /\ At(c, {"PARSE_REQUEST"}) /\ LineEnds(c) # {}
  /\ ResetWatchdog(c) /\ Again
  /\ LET line == Line[FirstLine(c)] IN
     \/ \* an unknown method, or a name that is too long
        /\ line.method = "PUT"
        /\ \E status \in {"NOT_IMPLEMENTED", "OVERFLOW"} :
             curHTTP' = [curHTTP EXCEPT !.httpStatus = status]
        /\ Goto(c, "SERVE_HEADERS") /\ UNCHANGED <<fs, net>>
     \/ \* arguments that are too long, which is seen once the files are open
        /\ line.method = "PUT"
        /\ LET opened == OpenFiles(line.name) IN
             /\ fs' = opened.fs
             /\ curHTTP' = [curHTTP EXCEPT !.httpStatus = "OVERFLOW",
                              !.file = opened.file, !.offsets = opened.offsets,
                              !.hasArgs = TRUE]
        /\ Goto(c, "SERVE_HEADERS") /\ UNCHANGED net
     \/ \* HTTP_MPFS_UPLOAD
        /\ line.name = "upload"
        /\ curHTTP' = [curHTTP EXCEPT !.httpStatus =
                         IF line.method = "GET" THEN "MPFS_FORM" ELSE "MPFS_UP"]
        /\ Goto(c, "PARSE_HEADERS") /\ TakeLine(c) /\ UNCHANGED fs
     \/ /\ line.method # "PUT" /\ line.name # "upload"
        /\ LET opened == OpenFiles(line.name) IN
             /\ fs' = opened.fs
             /\ curHTTP' = [curHTTP EXCEPT !.httpStatus = line.method,
                              !.file = opened.file, !.offsets = opened.offsets,
                              !.hasArgs = line.args]
        /\ Goto(c, "PARSE_HEADERS") /\ TakeLine(c)
  /\ UNCHANGED <<Loaded, client>>

ParseHeaders(c) ==
  /\ At(c, {"PARSE_HEADERS"}) /\ LineEnds(c) # {}
  /\ ResetWatchdog(c) /\ Again /\ TakeLine(c)
  /\ IF FirstLine(c) = "blank" THEN Goto(c, "AUTHENTICATE") /\ UNCHANGED curHTTP
     ELSE /\ curHTTP' = [curHTTP EXCEPT !.byteCount = ContentLength]
          /\ UNCHANGED sm
  /\ UNCHANGED <<Loaded, fs, client>>

Authenticate(c) ==
  /\ At(c, {"AUTHENTICATE"})
  /\ Goto(c, IF curHTTP.httpStatus = "MPFS_FORM" THEN "SERVE_HEADERS"
             ELSE IF curHTTP.hasArgs THEN "PROCESS_GET" ELSE "PROCESS_POST")
  /\ curHTTP' = [curHTTP EXCEPT !.hasArgs = FALSE]
  /\ Again /\ UNCHANGED <<Loaded, watch, fs, net, client>>

\* HTTPExecuteGet(): one cookie is set.  The name of a file that is not open
\* is read from a buffer that nothing was written to.
ProcessGet(c) ==
  /\ At(c, {"PROCESS_GET"})
  /\ \E cookies \in IF IsOpen(fs, curHTTP.file) THEN {TRUE} ELSE BOOLEAN :
       curHTTP' = [curHTTP EXCEPT !.hasArgs = cookies]
  /\ Goto(c, "PROCESS_POST") /\ Again
  /\ UNCHANGED <<Loaded, watch, fs, net, client>>

-----------------------------------------------------------------------------
(* HTTPProcess(): the data of a POST.                                       *)

PostCallback == curHTTP.httpStatus \in Uploads \cup {"POST"}
Stalled(c) == Ready(c) = curHTTP.lastReady /\ watch[c] = 0

PostTimeout(c) ==
  /\ At(c, {"PROCESS_POST"}) /\ Stalled(c)
  /\ net' = [net EXCEPT ![c] = TCPDisconnect(@)]
  /\ Goto(c, "DISCONNECT") /\ Again
  /\ UNCHANGED <<curHTTP, Loaded, watch, fs, client>>

NoPost(c) ==
  /\ At(c, {"PROCESS_POST"}) /\ ~ Stalled(c) /\ ~ PostCallback
  /\ Goto(c, "PROCESS_REQUEST") /\ Again
  /\ UNCHANGED <<curHTTP, Loaded, watch, fs, net, client>>

\* HTTP_IO_WAITING, with record for curHTTP and rx for the RX FIFO.
Waiting(c, record, rx) ==
  /\ curHTTP' = [record EXCEPT !.lastReady = IF rx = <<>> THEN Never ELSE Len(rx) - 1]
  /\ net' = [net EXCEPT ![c].rx = rx]
  /\ Done(c) /\ UNCHANGED <<sm, watch>>

\* HTTP_IO_NEED_DATA
NeedData(c, record, rx) ==
  /\ net' = [net EXCEPT ![c].rx = rx] /\ ResetWatchdog(c)
  /\ IF record.byteCount > Len(rx) /\ Len(rx) < RxSize
     THEN /\ curHTTP' = [record EXCEPT !.lastReady = Len(rx)]
          /\ Done(c) /\ UNCHANGED sm
     ELSE /\ curHTTP' = [record EXCEPT !.lastReady = Len(rx),
                                       !.httpStatus = "INTERNAL_SERVER_ERROR"]
          /\ Goto(c, "SERVE_HEADERS") /\ Again

\* HTTP_IO_DONE, on to the given state.
PostDone(c, record, rx, state) ==
  /\ curHTTP' = record /\ net' = [net EXCEPT ![c].rx = rx]
  /\ Goto(c, state) /\ Again /\ UNCHANGED watch

\* HTTPExecutePost(): HTTPPostConfig() takes a name and a value per call, ends
\* with a redirection, whether it saves the settings or refuses a value.  Other
\* pages have no handler.  The name of a file that is not open is undefined.
ExecutePost(c) ==
  /\ At(c, {"PROCESS_POST"}) /\ ~ Stalled(c) /\ curHTTP.httpStatus = "POST"
  /\ \E handled \in IF IsOpen(fs, curHTTP.file) THEN {NameOf(fs, curHTTP.file) = "config"}
                    ELSE BOOLEAN :
       LET rx == net[c].rx
           pairRead == [curHTTP EXCEPT !.byteCount = @ - 1] IN
       \/ /\ ~ handled
          /\ PostDone(c, curHTTP, rx, "PROCESS_REQUEST")
       \/ /\ handled /\ curHTTP.smPost = "read" /\ curHTTP.byteCount = 0
          /\ Waiting(c, [curHTTP EXCEPT !.smPost = "end"], rx)
       \/ /\ handled /\ curHTTP.smPost = "read" /\ curHTTP.byteCount > 0 /\ rx # <<>>
          /\ \E parsed \in BOOLEAN :
               Waiting(c, IF parsed THEN pairRead ELSE [pairRead EXCEPT !.smPost = "end"],
                       Tail(rx))
       \/ /\ handled /\ curHTTP.smPost = "read" /\ curHTTP.byteCount > 0 /\ rx = <<>>
          /\ NeedData(c, curHTTP, rx)
       \/ /\ handled /\ curHTTP.smPost = "end"
          /\ PostDone(c, [curHTTP EXCEPT !.httpStatus = "REDIRECT"], rx, "PROCESS_REQUEST")
  /\ UNCHANGED <<Loaded, fs, client>>

IsStart(token) == token = "mime"

\* HTTPMPFSUpload() while it looks for the start of the image.
UploadStart(c) ==
  /\ At(c, {"PROCESS_POST"}) /\ ~ Stalled(c) /\ curHTTP.httpStatus = "MPFS_UP"
  /\ LET rx == net[c].rx
         starts == SelectInSeq(rx, IsStart) IN
     \/ \* nothing yet: what is there is dropped, but for four bytes, less than a
        \* chunk; with fewer the number wraps, and those are dropped too
        /\ starts = 0
        /\ NeedData(c, [curHTTP EXCEPT !.byteCount = Minus(@, Len(rx))], <<>>)
        /\ UNCHANGED <<fs, client>>
     \/ \* the start is there, but not the tag
        /\ starts > 0 /\ starts = Len(rx)
        /\ NeedData(c, [curHTTP EXCEPT !.byteCount = Minus(@, starts - 1)],
                    SubSeq(rx, starts, Len(rx)))
        /\ UNCHANGED <<fs, client>>
     \/ /\ starts > 0 /\ starts < Len(rx) /\ rx[starts + 1] = "tag"
        /\ Waiting(c, [curHTTP EXCEPT !.byteCount = Minus(@, starts + 1),
                                      !.httpStatus = "MPFS_OK", !.file = 0],
                   SubSeq(rx, starts + 2, Len(rx)))
        /\ fs' = MPFSPutArray(MPFSFormat(fs), <<"tag">>)
        /\ UNCHANGED client
     \/ /\ starts > 0 /\ starts < Len(rx) /\ rx[starts + 1] # "tag"
        /\ Waiting(c, [curHTTP EXCEPT !.byteCount = Minus(@, starts + 1),
                                      !.httpStatus = "MPFS_ERROR"],
                   SubSeq(rx, starts + 2, Len(rx)))
        /\ UNCHANGED <<fs, client>>
  /\ UNCHANGED Loaded

UploadWrite(c) ==
  /\ At(c, {"PROCESS_POST"}) /\ ~ Stalled(c) /\ curHTTP.httpStatus = "MPFS_OK"
  /\ LET rx == net[c].rx
         n == Min({Len(rx), curHTTP.byteCount})
         record == [curHTTP EXCEPT !.byteCount = Minus(@, n)]
         rest == SubSeq(rx, n + 1, Len(rx))
         written == MPFSPutArray(fs, SubSeq(rx, 1, n)) IN
     IF record.byteCount = 0
     THEN /\ fs' = MPFSPutEnd(written) /\ PostDone(c, record, rest, "SERVE_HEADERS")
     ELSE fs' = written /\ NeedData(c, record, rest)
  /\ UNCHANGED <<Loaded, client>>

\* Not an image: what comes is thrown away, until byteCount is below 100, less than
\* a chunk, or above 2^31, that is, has wrapped.
UploadRefused(c) ==
  /\ At(c, {"PROCESS_POST"}) /\ ~ Stalled(c) /\ curHTTP.httpStatus = "MPFS_ERROR"
  /\ LET record == [curHTTP EXCEPT !.byteCount = Minus(@, Ready(c))] IN
     IF record.byteCount \in {0, Wrapped} THEN PostDone(c, record, <<>>, "SERVE_HEADERS")
     ELSE NeedData(c, record, <<>>)
  /\ UNCHANGED <<Loaded, fs, client>>

-----------------------------------------------------------------------------
(* HTTPProcess(): the answer.                                               *)

\* What the bytes of a chunk are as an offset: text makes a large number.
Offset(chunk) == IF chunk = "offset" THEN 1 ELSE Never

\* MPFSGetLong() of the first offset; an index that cannot be read leaves in
\* the variable what the last page left there: nothing yet, its end, or the
\* next callback of a page that was cut off.
NextOffsets ==
  IF curHTTP.offsets = MPFS_INVALID_HANDLE THEN {Never}
  ELSE IF Remaining(fs, curHTTP.offsets) = 0 THEN {0, Offset("offset"), Never}
  ELSE {Offset(Head(MPFSGetArray(fs, curHTTP.offsets, 1).data))}

ProcessRequest(c) ==
  /\ At(c, {"PROCESS_REQUEST"})
  /\ IF curHTTP.file = MPFS_INVALID_HANDLE
     THEN curHTTP' = [curHTTP EXCEPT !.httpStatus = "NOT_FOUND"] /\ UNCHANGED fs
     ELSE /\ \E next \in NextOffsets :
               curHTTP' = [curHTTP EXCEPT !.byteCount = 0, !.nextCallback = next]
          /\ fs' = MPFSGetArray(fs, curHTTP.offsets, 1).fs
  /\ Goto(c, "SERVE_HEADERS") /\ Again
  /\ UNCHANGED <<Loaded, watch, net, client>>

\* The FIFOs are divided anew, which empties the RX FIFO.
ServeHeaders(c) ==
  /\ At(c, {"SERVE_HEADERS"})
  /\ net' = [net EXCEPT ![c].rx = <<>>]
  /\ Answer(c, <<curHTTP.httpStatus>>)
  /\ IF curHTTP.httpStatus \notin {"GET", "POST"} THEN Goto(c, "DISCONNECT") /\ Done(c)
     ELSE Goto(c, IF curHTTP.hasArgs THEN "SERVE_COOKIES" ELSE "SERVE_BODY") /\ Again
  /\ UNCHANGED <<curHTTP, Loaded, watch, fs>>

ServeCookies(c) ==
  /\ At(c, {"SERVE_COOKIES"})
  /\ Answer(c, <<"cookie">>)
  /\ curHTTP' = [curHTTP EXCEPT !.hasArgs = FALSE]
  /\ Goto(c, "SERVE_BODY") /\ Again
  /\ UNCHANGED <<Loaded, watch, fs, net>>

\* HTTPSendFile(): how much it asks for, and what it gets.
Wanted(c) ==
  IF curHTTP.nextCallback < curHTTP.byteCount THEN PutReady(c)
  ELSE Min({PutReady(c), curHTTP.nextCallback - curHTTP.byteCount})
Got(c) == MPFSGetArray(fs, curHTTP.file, Wanted(c))
\* byteCount after it, up to the bound MaxCount.
MaxCount == 8
Sent(c) == Min({curHTTP.byteCount + Wanted(c), MaxCount})
\* TCPPutArray() of as much as n chunks.
Fill(c, n) == net' = [net EXCEPT ![c].room = IF @ < n THEN 0 ELSE @ - n]

\* The end of the file is reached.
SendLast(c) ==
  /\ At(c, {"SERVE_BODY"}) /\ Len(Got(c).data) < Wanted(c)
  /\ Answer(c, Got(c).data) /\ Fill(c, Len(Got(c).data))
  /\ fs' = MPFSClose(fs, curHTTP.file)
  /\ curHTTP' = [curHTTP EXCEPT !.file = MPFS_INVALID_HANDLE]
  /\ Goto(c, "DISCONNECT") /\ Done(c)
  /\ UNCHANGED <<Loaded, watch>>

SendSome(c) ==
  /\ At(c, {"SERVE_BODY"}) /\ Len(Got(c).data) = Wanted(c)
  /\ Sent(c) # curHTTP.nextCallback
  /\ Answer(c, Got(c).data) /\ Fill(c, Wanted(c))
  /\ fs' = Got(c).fs
  /\ curHTTP' = [curHTTP EXCEPT !.byteCount = Sent(c)]
  /\ IF PutReady(c) = Wanted(c) THEN Done(c) ELSE Again
  /\ UNCHANGED <<sm, Loaded, watch>>

\* A dynamic variable is reached: its name is skipped, its callback and the
\* offset of the next one are read from the index.
SendToCallback(c) ==
  LET past == MPFSGetArray(Got(c).fs, curHTTP.file, 1).fs
      index == MPFSGetArray(past, curHTTP.offsets, 2)
      more == Len(index.data) = 2 IN
  /\ At(c, {"SERVE_BODY"}) /\ Len(Got(c).data) = Wanted(c)
  /\ Sent(c) = curHTTP.nextCallback
  /\ Answer(c, Got(c).data) /\ Fill(c, Wanted(c))
  /\ fs' = IF more THEN index.fs ELSE MPFSClose(index.fs, curHTTP.offsets)
  /\ curHTTP' = [curHTTP EXCEPT !.byteCount = Sent(c) + 1,
                   !.callbackPos = [id |-> 0, pos |-> 0],
                   !.callbackID = IF index.data = <<>> THEN @ ELSE Head(index.data),
                   !.nextCallback = IF more THEN Offset(index.data[2]) ELSE Never,
                   !.offsets = IF more THEN @ ELSE MPFS_INVALID_HANDLE]
  /\ Goto(c, "SEND_FROM_CALLBACK")
  /\ IF PutReady(c) = Wanted(c) THEN Done(c) ELSE Again
  /\ UNCHANGED <<Loaded, watch>>

FirstCall == curHTTP.callbackPos.pos = 0

\* HTTPIncFile(): the file is opened for the time of the call.
Included == IF FirstCall THEN MPFSOpen(fs, curHTTP.callbackID)
            ELSE MPFSOpenID(fs, curHTTP.callbackPos.id)

\* HTTPPrint() of a number that is no callback's: the deadline of the request
\* is still in callbackID when the index could not be read.
CallbackUnknown(c) ==
  /\ At(c, {"SEND_FROM_CALLBACK"}) /\ PutReady(c) > 0 /\ curHTTP.callbackID = "none"
  /\ Answer(c, <<"!DEF">>) /\ Fill(c, 1)
  /\ Goto(c, "SERVE_BODY") /\ Again
  /\ UNCHANGED <<curHTTP, Loaded, watch, fs>>

\* The variable has written all it had, or could not be opened at all.
CallbackEnds(c) ==
  LET part == MPFSGetArray(MPFSSeek(Included.fs, Included.h, curHTTP.callbackPos.pos),
                           Included.h, PutReady(c)).data IN
  /\ At(c, {"SEND_FROM_CALLBACK"}) /\ PutReady(c) > 0 /\ curHTTP.callbackID # "none"
  /\ IF Included.h = MPFS_INVALID_HANDLE THEN FirstCall /\ Answer(c, <<>>) /\ UNCHANGED net
     ELSE Len(part) < PutReady(c) /\ Answer(c, part) /\ Fill(c, Len(part))
  /\ curHTTP' = [curHTTP EXCEPT !.callbackPos = [id |-> 0, pos |-> 0]]
  /\ Goto(c, "SERVE_BODY") /\ Again
  /\ UNCHANGED <<Loaded, watch, fs>>

CallbackPauses(c) ==
  LET open == MPFSSeek(Included.fs, Included.h, curHTTP.callbackPos.pos)
      part == MPFSGetArray(open, Included.h, PutReady(c)) IN
  /\ At(c, {"SEND_FROM_CALLBACK"})
  /\ \/ /\ \/ PutReady(c) = 0
           \/ ~ FirstCall /\ Included.h = MPFS_INVALID_HANDLE
        /\ UNCHANGED <<curHTTP, net, client>>
     \/ /\ PutReady(c) > 0 /\ curHTTP.callbackID # "none"
        /\ Included.h # MPFS_INVALID_HANDLE
        /\ Len(part.data) = PutReady(c)
        /\ Answer(c, part.data) /\ Fill(c, PutReady(c))
        /\ curHTTP' = [curHTTP EXCEPT !.callbackPos =
                         [id |-> MPFSGetID(open, Included.h),
                          pos |-> MPFSTell(part.fs, Included.h)]]
  /\ Done(c) /\ UNCHANGED <<sm, Loaded, watch, fs>>

Disconnect(c) ==
  /\ At(c, {"DISCONNECT"})
  /\ fs' = WithoutFiles(curHTTP) /\ curHTTP' = ClosedFiles
  /\ client' = [client EXCEPT ![c] = IF net[c].st = "open" THEN [@ EXCEPT !.over = TRUE]
                                     ELSE NoClient]
  /\ net' = [net EXCEPT ![c] = TCPDisconnect(@)]
  /\ Goto(c, "IDLE") /\ Done(c)
  /\ UNCHANGED <<Loaded, watch>>

-----------------------------------------------------------------------------
(* The clients and the stack, between two passes.                           *)

ServerSide == <<turn, sm, curHTTP, curHTTPID, http_memory, watch, fs, spoilt, mixed>>

\* Bounds: nobody comes once pages were spoilt, and kinds in Alone come alone.
Connect(c) ==
  /\ turn = Stack /\ net[c].st = "closed" /\ ~ spoilt
  /\ \A d \in Conns : client[d].asked \notin Alone
  /\ \E kind \in Kinds[c] :
       /\ kind \in Alone => \A d \in Conns : net[d].st = "closed" /\ sm[d] = "IDLE"
       /\ net' = [net EXCEPT ![c].st = "open", ![c].ask = Request[kind], ![c].room = TxSize]
       /\ client' = [client EXCEPT ![c] = [NoClient EXCEPT !.asked = kind]]
  /\ UNCHANGED ServerSide

\* The RX FIFO has no room to speak of while the answer is sent.
Send(c) ==
  /\ turn = Stack /\ net[c].ask # <<>> /\ RxFree(c) > 0 /\ sm[c] \in Receiving
  /\ net' = [net EXCEPT ![c].rx = Append(@, Head(net[c].ask)), ![c].ask = Tail(@)]
  /\ UNCHANGED <<ServerSide, client>>

\* A client that has not closed its side yet may go on after the server's FIN.
SendMore(c) ==
  /\ turn = Stack /\ net[c].st = "closing" /\ sm[c] = "IDLE" /\ net[c].rx = <<>>
  /\ net' = [net EXCEPT ![c].rx = <<"half">>]
  /\ UNCHANGED <<ServerSide, client>>

\* The client acknowledges what it was sent.
Drain(c) ==
  /\ turn = Stack /\ net[c].st = "open" /\ net[c].room < TxSize
  /\ net' = [net EXCEPT ![c].room = TxSize]
  /\ UNCHANGED <<ServerSide, client>>

\* The client closes its side, and TCP_CLOSE_WAIT_TIMEOUT later so does TCP.
HalfClose(c) ==
  /\ turn = Stack /\ net[c].st = "open"
  /\ net' = [net EXCEPT ![c] = TCPDisconnect(@)]
  /\ client' = [client EXCEPT ![c] = NoClient]
  /\ UNCHANGED ServerSide

\* The connection ends: the last ACK, an RST, or too many retries.
Gone(c) ==
  /\ turn = Stack /\ net[c].st \in {"open", "closing"}
  /\ net' = [net EXCEPT ![c] = Reset(@)]
  /\ client' = [client EXCEPT ![c] = NoClient]
  /\ UNCHANGED ServerSide

-----------------------------------------------------------------------------

Check(c) == ForgetReset(c) \/ Eligible(c) \/ Skip(c)

Parse(c) == Idle(c) \/ WaitForLine(c) \/ ParseRequest(c) \/ ParseHeaders(c)
              \/ Authenticate(c) \/ ProcessGet(c)
Post(c) == PostTimeout(c) \/ NoPost(c) \/ ExecutePost(c) \/ UploadStart(c)
             \/ UploadWrite(c) \/ UploadRefused(c)
Serve(c) == ProcessRequest(c) \/ ServeHeaders(c) \/ ServeCookies(c) \/ SendLast(c)
              \/ SendSome(c) \/ SendToCallback(c) \/ CallbackUnknown(c)
              \/ CallbackEnds(c) \/ CallbackPauses(c) \/ Disconnect(c)

\* Both connections write through the one position of the flash, each as if the
\* image were its own.
Writing(c) == sm[c] = "PROCESS_POST" /\ Conn(c).httpStatus = "MPFS_OK"
TwoWrite == \E c, d \in Conns : c # d /\ Writing(c) /\ Writing(d)

HTTPServer ==
  /\ StartPass \/ \E c \in Conns : Check(c) \/ Parse(c) \/ Post(c) \/ Serve(c)
  /\ mixed' = (mixed \/ TwoWrite')
  /\ spoilt' = \/ spoilt \/ mixed'
               \/ fs'.locked /\ \E h \in Handles : IsOpen(fs, h)
               \/ fs.locked /\ \E c \in Conns : sm[c] = "PARSE_REQUEST" /\ sm'[c] # sm[c]

Clients(c) == Connect(c) \/ Send(c) \/ SendMore(c) \/ Drain(c) \/ HalfClose(c) \/ Gone(c)

HTTPNext == HTTPServer \/ \E c \in Conns : Clients(c)

\* Weak fairness of the steps inside a pass, where nothing but the server moves
\* and it always can.
PassGoesOn == <>[](turn # Stack) => []<><<turn # Stack>>_httpVars

\* The main loop always comes back; a client that is there takes what it is
\* sent, and TCP ends a connection that is being closed.
HTTPSpec ==
  /\ HTTPInit /\ [][HTTPNext]_httpVars /\ WF_httpVars(turn = Stack /\ HTTPServer) /\ PassGoesOn
  /\ \A c \in Conns : SF_httpVars(Drain(c)) /\ SF_httpVars(net[c].st = "closing" /\ Gone(c))

-----------------------------------------------------------------------------
(* Properties.                                                              *)

States == Receiving \cup {"PROCESS_REQUEST", "SERVE_HEADERS", "SERVE_COOKIES",
                          "SERVE_BODY", "SEND_FROM_CALLBACK", "DISCONNECT"}
FileHandle == Handles \cup {0, MPFS_INVALID_HANDLE}

\* The variables of the server keep their types, whichever record is loaded.
HTTPTypeOK ==
  /\ turn \in {Stack} \cup (Conns \X {"check", "process"})
  /\ sm \in [Conns -> States] /\ curHTTPID \in Conns
  /\ \A c \in Conns :
       /\ Conn(c).file \in FileHandle /\ Conn(c).offsets \in FileHandle
       /\ Conn(c).byteCount \in Nat /\ Conn(c).hasArgs \in BOOLEAN
       /\ (http_memory[c] = Elsewhere) = (c = curHTTPID)
       /\ watch[c] \in 0 .. Timeout
       /\ Ready(c) \in 0 .. RxSize /\ net[c].room \in 0 .. TxSize
  /\ \A h \in Handles : fs.stubs[h].id \in {0} \cup Ids
  /\ spoilt \in BOOLEAN /\ mixed \in BOOLEAN

\* The answers that a request may get: the page with its variables filled in.
Page == <<"GET", "cookie", "head", "part", "foot", "end">>
Answers == [page |-> {Page}, nothing |-> {<<"NOT_FOUND">>}, lost |-> {<<"NOT_FOUND">>}, form |-> {<<"MPFS_FORM">>},
            image |-> {<<"MPFS_OK">>}, badimage |-> {<<"MPFS_ERROR">>},
            nolength |-> {<<"INTERNAL_SERVER_ERROR">>}, config |-> {<<"REDIRECT">>},
            other |-> {<<"NOT_IMPLEMENTED">>, <<"OVERFLOW">>},
            endless |-> {<<"OVERFLOW">>}, none |-> {<<>>}]

\* What a client has got is the start of the answer to its own request, and
\* all of it when the server closes the connection, however the connections
\* take turns with curHTTP, the file handles and the FIFOs, and whatever was
\* left of a connection that was reset before (HTTPProcess(), HTTPSendFile()).
AnswerIsWhole ==
  ~ spoilt => \A c \in Conns : \E whole \in Answers[client[c].asked] :
    IF client[c].over THEN client[c].answer = whole ELSE IsPrefix(client[c].answer, whole)

\* A file handle is open for exactly one connection, and the handles of a
\* connection are open: none leaks when a connection is reset or ends, and
\* none is used after it was closed (MPFSOpen(), MPFSClose()).
HandlesAreHeld ==
  ~ spoilt /\ turn = Stack =>
    LET held == [c \in Conns |-> {Conn(c).file, Conn(c).offsets} \cap Handles] IN
    /\ {h \in Handles : IsOpen(fs, h)} = UNION {held[c] : c \in Conns}
    /\ \A c, d \in Conns : c # d => held[c] \cap held[d] = {}
    /\ \A c \in Conns : Conn(c).file = Conn(c).offsets => held[c] = {}

\* Nothing is read from an image while it is locked, and an image that can be
\* read was written to its end, once and in order, whoever began one before and
\* went away (MPFSFormat(), MPFSPutEnd(), HTTPMPFSUpload()).  The second part
\* has a limit: MPFSFormat() takes a second upload while the first goes on, and
\* once two have written at the same time it is lost (mixed).
ImageIsWhole ==
  IF fs.locked THEN ~ \E h \in Handles : IsOpen(fs, h)
  ELSE ~ mixed => fs.image = WholeImage

\* A connection that is not receiving a POST comes back to SM_HTTP_IDLE: a
\* request that stops half way is timed out, an answer waits for nothing that
\* does not happen (HTTPProcess(), HTTPServer()).
Posts == {"image", "badimage", "nolength", "config", "lost"}
RequestEnds ==
  \A c \in Conns : (sm[c] # "IDLE" /\ client[c].asked \notin Posts) ~> (sm[c] = "IDLE" \/ fs.locked)

\* So does any connection, as the watchdog of the POST would have it: "If a
\* timeout has occured, disconnect" (HTTPProcess()).
EveryRequestEnds == \A c \in Conns : (sm[c] # "IDLE") ~> (sm[c] = "IDLE")

\* A locked image has somebody who writes it and will unlock it: "the MPFS will
\* be inaccessible until MPFSClose is called", and the server means to close
\* the files of every connection that ends (HTTPServer(), MPFSClose()).
LockHasAWriter ==
  fs.locked /\ turn = Stack =>
    \E c \in Conns : sm[c] = "PROCESS_POST" /\ Conn(c).httpStatus = "MPFS_OK"

\* While files can be opened at all there is a handle for one more: "HTTP2
\* requires 2 MPFS2 handles per connection, plus one spare" (TCPIP.h:262), where
\* MAX_MPFS_HANDLES is as large as the check there asks for (MPFSOpen()).
SpareHandle ==
  turn = Stack /\ ~ fs.locked /\ ~ spoilt => FreeHandle(fs) # MPFS_INVALID_HANDLE
=============================================================================
